---------------------------- MODULE MCOsdCanvas ----------------------------
(* Small instance of the OSD canvas: a full canvas, a smaller one and one   *)
(* that is reported wrong; coordinates off either edge, clamped to a corner.        *)
EXTENDS OsdCanvas

CanvasSizes == {<<3, 2>>, <<2, 2>>, <<0, 9>>}
HostInputs == {-1, 5}
=============================================================================
