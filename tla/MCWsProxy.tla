------------------------------ MODULE MCWsProxy -----------------------------
(* Instances of WsProxy for TLC: a session needs two handles.               *)
EXTENDS WsProxy

MCHandles == 1 .. 3
MCConns   == 1 .. 2
MCSlots   == 1 .. 2
=============================================================================
