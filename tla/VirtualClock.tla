---------------------------- MODULE VirtualClock ----------------------------
(***************************************************************************)
(* What the UDP time base promises the flight loop, without its threads,   *)
(* its hand-over variables or its arithmetic: simulated time is covered    *)
(* first, by the sensor data of a packet, and only then run, one quantum   *)
(* at a time.  A quantum is never run ahead of the sensors it belongs to.  *)
(***************************************************************************)
EXTENDS Naturals

CONSTANTS Quantum,   \* microseconds the clock advances per scheduler pass
          Sub        \* timestamp ticks per microsecond

VARIABLES covered,   \* simulated time, in ticks, whose sensor data is written
          run        \* microseconds the flight loop has run since boot

vars == <<covered, run>>

Init == covered = 0 /\ run = 0

Cover == /\ covered' \in Nat /\ covered' > covered
         /\ UNCHANGED run

Tick == /\ (run + Quantum) * Sub <= covered
        /\ run' = run + Quantum
        /\ UNCHANGED covered

Next == Cover \/ Tick

Spec == Init /\ [][Next]_vars
=============================================================================
