---------------------------- MODULE MCLocalStep -----------------------------
(* Instances of LocalStep for TLC.  RC frames come every 600 us instead of   *)
(* 8000 us, so that a few steps see some of them.                            *)
EXTENDS LocalStep

\* 4 kHz with the PID loop at the same and at half the rate, where quanta of 50
\* and 100 us meet and the second does not divide the period, and 8 kHz with the
\* PID loop at the same and a third of the rate, quanta of 25 us
MCRates == {[sample |-> 250, denom |-> 1], [sample |-> 250, denom |-> 2],
            [sample |-> 125, denom |-> 1], [sample |-> 125, denom |-> 3]}

\* half a period, near the grid, off the grid, two periods
MCDts   == {125, 260, 330, 500}

\* 4 kHz with the PID loop at half the rate
MCHalved == {[sample |-> 250, denom |-> 2]}
=============================================================================
