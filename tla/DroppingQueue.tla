--------------------------- MODULE DroppingQueue ---------------------------
(***************************************************************************)
(* What the burst recorder promises, without its ring, its indices or its  *)
(* threads: a queue of bounded capacity.  A record is refused only when    *)
(* the queue is full; the reader looks at the oldest record, takes its     *)
(* time with it, and only then removes it.  Records are numbered in the    *)
(* order in which they were accepted.                                      *)
(***************************************************************************)
EXTENDS Integers, Sequences

CONSTANTS Capacity   \* records that may wait

VARIABLES queue,     \* records accepted and not yet removed, oldest first
          accepted,  \* records accepted so far
          out,       \* the record last read
          reading,   \* it has not been removed yet
          refusing   \* a record has been refused and not yet been counted

vars == <<queue, accepted, out, reading, refusing>>

Init == queue = <<>> /\ accepted = 0 /\ out = -1 /\ ~reading /\ ~refusing

Put == /\ ~refusing /\ Len(queue) < Capacity
       /\ queue' = Append(queue, accepted)
       /\ accepted' = accepted + 1
       /\ UNCHANGED <<out, reading, refusing>>

Refuse == /\ ~refusing /\ Len(queue) = Capacity
          /\ refusing' = TRUE
          /\ UNCHANGED <<queue, accepted, out, reading>>

Refused == /\ refusing /\ refusing' = FALSE
           /\ UNCHANGED <<queue, accepted, out, reading>>

Read == /\ ~reading /\ queue # <<>>
        /\ out' = Head(queue)
        /\ reading' = TRUE
        /\ UNCHANGED <<queue, accepted, refusing>>

Remove == /\ reading /\ reading' = FALSE
          /\ queue' = Tail(queue)
          /\ UNCHANGED <<accepted, out, refusing>>

Next == Put \/ Refuse \/ Refused \/ Read \/ Remove

Spec == Init /\ [][Next]_vars
=============================================================================
