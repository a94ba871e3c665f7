--------------------------- MODULE MCLocalSettings --------------------------
(* LocalSettings with two aircraft, two slots of mode conditions, one AUX     *)
(* channel and the boxes ARM and ANGLE.                                       *)
EXTENDS LocalSettings

MCBoxes == {0, 1}

Angle(start, end) == [modeId |-> 1, auxChannelIndex |-> 0, startStep |-> start, endStep |-> end]

Factory == [filter |-> 0, profile |-> 0, rates |-> [rates_type |-> "ACTUAL", rcRate |-> 1],
            mixer |-> 0, threeD |-> FALSE, modes |-> [i \in Slots |-> EmptyMac]]

\* Both aircraft may have a full table: one box twice
Tuned   == [Factory EXCEPT !.filter = 1, !.mixer = 1, !.modes = [i \in Slots |-> Angle(0, i - 1)]]

MCConditions == {EmptyMac, Angle(0, 1)}

MCAircraft == {Factory, Tuned}
=============================================================================
