--------------------------- MODULE MCLocalConfig ----------------------------
(* Instances of LocalConfig for TLC: two aircraft, the second one with a     *)
(* file or new, and either one boot and two requests or two boots and one    *)
(* request.  Two of the four leave an edit to be made.                       *)
EXTENDS LocalConfig

CONSTANTS a, b

MCPaths  == {a, b}
MCStarts == {[missing |-> {},  edits |-> 0, requests |-> 0, boots |-> 1],
             [missing |-> {b}, edits |-> 1, requests |-> 0, boots |-> 1],
             [missing |-> {b}, edits |-> 0, requests |-> 1, boots |-> 0],
             [missing |-> {},  edits |-> 1, requests |-> 1, boots |-> 0]}
=============================================================================
