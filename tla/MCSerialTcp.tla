---------------------------- MODULE MCSerialTcp -----------------------------
(* Small instance of SerialTcp: either three connections that send nothing   *)
(* and a stop of the bridge, or two that send and no stop.                   *)
EXTENDS SerialTcp

MCSlots  == 1 .. 2
MCConns  == 1 .. 3
MCStarts == {[conns |-> 1 .. 3, sent |-> 1, stops |-> 0],
             [conns |-> 1 .. 2, sent |-> 0, stops |-> 1]}
=============================================================================
