------------------------------ MODULE FdmClock ------------------------------
(***************************************************************************)
(* The UDP time base: how the timestamps of FDM packets become the virtual *)
(* time of the flight loop.                                                *)
(*                                                                         *)
(* Two threads share gFdmCommitUs, gFdmPendingUs and the auto-reset event  *)
(* gFdmEvent.  The receive thread of sitl.c turns a timestamp into a delta *)
(* (udpRecv), writes the sensors (updateState, external) and publishes the *)
(* delta (pthread_mutex_unlock, renamed to sitlMutexUnlock).  The main     *)
(* loop (run) consumes what is published in quanta, one scheduler pass per *)
(* quantum, and idles on the event with the clock frozen otherwise.        *)
(*                                                                         *)
(* The host's doubles are exact multiples of a tick, Sub ticks making a    *)
(* microsecond, so the fraction carried in gFdmRemainderUs is modelled.    *)
(* The values accepted, covered, lost and refused are history variables:   *)
(* no action reads them.                                                   *)
(***************************************************************************)
EXTENDS Integers

CONSTANTS Sub,         \* timestamp ticks per microsecond
          Quantum,     \* stepUs of run(), in microseconds
          Period,      \* gyroPeriodUs, in microseconds
          SpinUs,      \* the scheduler busy-waits when a deadline is nearer
          MaxDelta,    \* SITL_MAX_FDM_DELTA_US
          MaxTs,       \* bound: timestamps are 0..MaxTs ticks
          MaxPackets   \* bound: datagrams received

ASSUME ClockConstants ==
    /\ Sub \in Nat \ {0} /\ Quantum \in Nat \ {0} /\ Period \in Nat \ {0}
    /\ SpinUs \in Nat /\ MaxDelta \in Nat
    /\ MaxTs \in Nat /\ MaxPackets \in Nat

VARIABLES
    \* shared between the two threads
    gFdmCommitUs,      \* delta of the packet whose sensors are being written
    gFdmPendingUs,     \* deltas published and not yet taken
    event,             \* gFdmEvent is signalled
    \* receive thread
    gFdmLastTs,        \* last timestamp in ticks, -1 before the first packet
    gFdmRemainderUs,   \* fraction of a microsecond carried, in ticks
    gFdmPacketCount,
    rx,                \* where the thread is
    taken,             \* value its InterlockedExchange returned
    \* main loop
    sitlVirtualTimeUs,
    pendingUs,         \* time taken and not yet run
    gyroRuns,          \* gyro deadlines the scheduler has served
    bootUs,            \* the clock when the boot fast-forward ended
    loop,              \* where the loop is
    \* history
    accepted,          \* ticks of all the deltas udpRecv accepted
    covered,           \* of those, the ticks whose sensors are written
    lost,              \* ticks dropped by a resync or overwritten in gFdmCommitUs
    refused            \* updateState refused a packet since the last written one

shared  == <<gFdmCommitUs, gFdmPendingUs, event>>
rxVars  == <<gFdmLastTs, gFdmRemainderUs, gFdmPacketCount, rx, taken>>
runVars == <<sitlVirtualTimeUs, pendingUs, gyroRuns, bootUs, loop>>
history == <<accepted, covered, lost, refused>>
vars    == <<shared, rxVars, runVars, history>>

RxStates   == {"recv", "update", "unlock", "add", "signal"}
LoopStates == {"boot", "run", "idle", "wait", "spin"}

TypeOK ==
    /\ gFdmCommitUs \in Nat /\ gFdmPendingUs \in Nat /\ event \in BOOLEAN
    /\ gFdmLastTs \in {-1} \cup 0 .. MaxTs
    /\ gFdmRemainderUs \in 0 .. Sub - 1
    /\ gFdmPacketCount \in 0 .. MaxPackets
    /\ rx \in RxStates /\ taken \in Nat
    /\ sitlVirtualTimeUs \in Nat /\ pendingUs \in Nat /\ gyroRuns \in Nat
    /\ bootUs \in Nat /\ loop \in LoopStates
    /\ accepted \in Nat /\ covered \in Nat /\ lost \in Nat
    /\ refused \in BOOLEAN

Init ==
    /\ gFdmCommitUs = 0 /\ gFdmPendingUs = 0 /\ event = FALSE
    /\ gFdmLastTs = -1 /\ gFdmRemainderUs = 0 /\ gFdmPacketCount = 0
    /\ rx = "recv" /\ taken = 0
    /\ sitlVirtualTimeUs = 0 /\ pendingUs = 0 /\ gyroRuns = 0
    /\ bootUs = 0 /\ loop = "boot"
    /\ accepted = 0 /\ covered = 0 /\ lost = 0 /\ refused = FALSE

-----------------------------------------------------------------------------
(* Receive thread *)

\* deltaUs of udpRecv, in ticks, and whether its two range checks pass
DeltaTicks(ts) == (ts - gFdmLastTs) + gFdmRemainderUs
InRange(ts)    == DeltaTicks(ts) > 0 /\ DeltaTicks(ts) <= MaxDelta * Sub

\* A delta the firmware steps: later than a known timestamp and in range
AcceptDelta(ts) ==
    /\ gFdmLastTs >= 0 /\ ts > gFdmLastTs /\ InRange(ts)
    /\ gFdmCommitUs' = DeltaTicks(ts) \div Sub
    /\ gFdmRemainderUs' = DeltaTicks(ts) % Sub
    /\ accepted' = accepted + (ts - gFdmLastTs)
    /\ lost' = lost + gFdmCommitUs * Sub

\* Too large a delta, or a clock that went back: only the baseline moves
Resync(ts) ==
    /\ \/ gFdmLastTs >= 0 /\ ts > gFdmLastTs /\ ~InRange(ts)
       \/ ts < gFdmLastTs
    /\ gFdmCommitUs' = 0
    /\ gFdmRemainderUs' = 0
    /\ lost' = lost + gFdmCommitUs * Sub + gFdmRemainderUs
    /\ UNCHANGED accepted

\* The first packet, or a repeated timestamp: neither branch is taken
KeepBaseline(ts) ==
    /\ gFdmLastTs < 0 \/ ts = gFdmLastTs
    /\ ts >= gFdmLastTs
    /\ UNCHANGED <<gFdmCommitUs, gFdmRemainderUs, accepted, lost>>

\* Mutant: the delta is ready to commit before updateState has written
udpRecvOnePhase(ts) ==
    /\ rx = "recv" /\ gFdmPacketCount < MaxPackets
    /\ AcceptDelta(ts) \/ Resync(ts) \/ KeepBaseline(ts)
    /\ gFdmLastTs' = ts
    /\ gFdmPacketCount' = gFdmPacketCount + 1
    /\ rx' = "unlock"
    /\ UNCHANGED <<gFdmPendingUs, event, taken, covered, refused>> /\ UNCHANGED runVars

\* One datagram; lost, repeated and reordered ones are the choice of ts
udpRecv(ts) ==
    /\ rx = "recv" /\ gFdmPacketCount < MaxPackets
    /\ AcceptDelta(ts) \/ Resync(ts) \/ KeepBaseline(ts)
    /\ gFdmLastTs' = ts
    /\ gFdmPacketCount' = gFdmPacketCount + 1
    /\ rx' = "update"
    /\ UNCHANGED <<gFdmPendingUs, event, taken, covered, refused>> /\ UNCHANGED runVars

\* updateState writes the sensors of the packet and goes on to its unlock
updateState ==
    /\ rx = "update" /\ rx' = "unlock"
    /\ covered' = accepted /\ refused' = FALSE
    /\ UNCHANGED <<gFdmLastTs, gFdmRemainderUs, gFdmPacketCount, taken, accepted, lost>>
    /\ UNCHANGED <<shared, runVars>>

\* updateState returns early (first packet after a pause, or an old one):
\* no sensor is written and the unlock is not reached
updateStateRefuse ==
    /\ rx = "update" /\ rx' = "recv"
    /\ refused' = TRUE
    /\ UNCHANGED <<gFdmLastTs, gFdmRemainderUs, gFdmPacketCount, taken, accepted, covered, lost>>
    /\ UNCHANGED <<shared, runVars>>

\* Mutant: gFdmCommitUs is read and not cleared
sitlMutexUnlockReading ==
    /\ rx = "unlock"
    /\ taken' = gFdmCommitUs
    /\ rx' = IF gFdmCommitUs > 0 THEN "add" ELSE "recv"
    /\ UNCHANGED <<shared, gFdmLastTs, gFdmRemainderUs, gFdmPacketCount>>
    /\ UNCHANGED <<runVars, history>>

\* sitlMutexUnlock -> sitlUdpFdmCommitPending: exchange, add, signal, each
\* atomic and each able to interleave with the main loop
sitlMutexUnlock ==
    /\ rx = "unlock"
    /\ taken' = gFdmCommitUs /\ gFdmCommitUs' = 0
    /\ rx' = IF gFdmCommitUs > 0 THEN "add" ELSE "recv"
    /\ UNCHANGED <<gFdmPendingUs, event, gFdmLastTs, gFdmRemainderUs, gFdmPacketCount>>
    /\ UNCHANGED <<runVars, history>>

\* Mutant: time is added and the event not set
CommitAddQuietly ==
    /\ rx = "add" /\ rx' = "recv"
    /\ gFdmPendingUs' = gFdmPendingUs + taken
    /\ taken' = 0
    /\ UNCHANGED <<gFdmCommitUs, event, gFdmLastTs, gFdmRemainderUs, gFdmPacketCount>>
    /\ UNCHANGED <<runVars, history>>

CommitAdd ==
    /\ rx = "add" /\ rx' = "signal"
    /\ gFdmPendingUs' = gFdmPendingUs + taken
    /\ taken' = 0
    /\ UNCHANGED <<gFdmCommitUs, event, gFdmLastTs, gFdmRemainderUs, gFdmPacketCount>>
    /\ UNCHANGED <<runVars, history>>

CommitSignal ==
    /\ rx = "signal" /\ rx' = "recv"
    /\ event' = TRUE
    /\ UNCHANGED <<gFdmCommitUs, gFdmPendingUs, gFdmLastTs, gFdmRemainderUs,
                   gFdmPacketCount, taken>>
    /\ UNCHANGED <<runVars, history>>
-----------------------------------------------------------------------------
(* Main loop *)

\* scheduler() at virtual time t: serve a gyro deadline that is due; with a
\* deadline nearer than SpinUs it busy-waits on a clock only this thread moves
TimeLeft(t) == (gyroRuns + 1) * Period - t

scheduler(t, next) ==
    /\ gyroRuns' = IF TimeLeft(t) <= 0 THEN gyroRuns + 1 ELSE gyroRuns
    /\ loop' = IF 0 < TimeLeft(t) /\ TimeLeft(t) < SpinUs THEN "spin" ELSE next

\* Fast-forward to the first gyro deadline
BootQuantum ==
    LET t == sitlVirtualTimeUs + Quantum IN
    /\ loop = "boot"
    /\ sitlVirtualTimeUs' = t
    /\ scheduler(t, IF TimeLeft(t) <= 0 THEN "run" ELSE "boot")
    /\ bootUs' = t
    /\ UNCHANGED pendingUs /\ UNCHANGED <<shared, rxVars, history>>

\* Mutant: all the time at hand in one scheduler pass
RunAllAtOnce ==
    LET t == sitlVirtualTimeUs + pendingUs IN
    /\ loop = "run" /\ pendingUs >= Quantum
    /\ sitlVirtualTimeUs' = t
    /\ pendingUs' = 0
    /\ scheduler(t, "run")
    /\ UNCHANGED bootUs /\ UNCHANGED <<shared, rxVars, history>>

\* Mutant: off by one, exactly one quantum at hand is not run
RunQuantumStrict ==
    LET t == sitlVirtualTimeUs + Quantum IN
    /\ loop = "run" /\ pendingUs > Quantum
    /\ sitlVirtualTimeUs' = t
    /\ pendingUs' = pendingUs - Quantum
    /\ scheduler(t, "run")
    /\ UNCHANGED bootUs /\ UNCHANGED <<shared, rxVars, history>>

\* One quantum: sitlStepTime and a scheduler pass
RunQuantum ==
    LET t == sitlVirtualTimeUs + Quantum IN
    /\ loop = "run" /\ pendingUs >= Quantum
    /\ sitlVirtualTimeUs' = t
    /\ pendingUs' = pendingUs - Quantum
    /\ scheduler(t, "run")
    /\ UNCHANGED bootUs /\ UNCHANGED <<shared, rxVars, history>>

\* Mutant: the rest of a quantum is forgotten when new time is taken
TakePendingAfresh ==
    /\ loop = "run" /\ pendingUs < Quantum
    /\ pendingUs' = gFdmPendingUs
    /\ gFdmPendingUs' = 0
    /\ loop' = IF pendingUs' >= Quantum THEN "run" ELSE "idle"
    /\ UNCHANGED <<gFdmCommitUs, event, sitlVirtualTimeUs, gyroRuns, bootUs>>
    /\ UNCHANGED <<rxVars, history>>

\* sitlUdpFdmTakePendingUs, when less than a quantum is left
TakePending ==
    /\ loop = "run" /\ pendingUs < Quantum
    /\ pendingUs' = pendingUs + gFdmPendingUs
    /\ gFdmPendingUs' = 0
    /\ loop' = IF pendingUs' >= Quantum THEN "run" ELSE "idle"
    /\ UNCHANGED <<gFdmCommitUs, event, sitlVirtualTimeUs, gyroRuns, bootUs>>
    /\ UNCHANGED <<rxVars, history>>

\* The idle scheduler pass, on the frozen clock
IdlePass ==
    /\ loop = "idle"
    /\ scheduler(sitlVirtualTimeUs, "wait")
    /\ UNCHANGED <<sitlVirtualTimeUs, pendingUs, bootUs>> /\ UNCHANGED <<shared, rxVars, history>>

\* WaitForSingleObject on the auto-reset event, or its 10 ms timeout
WaitEvent ==
    /\ loop = "wait" /\ event
    /\ event' = FALSE /\ loop' = "run"
    /\ UNCHANGED <<gFdmCommitUs, gFdmPendingUs, sitlVirtualTimeUs, pendingUs, gyroRuns, bootUs>>
    /\ UNCHANGED <<rxVars, history>>

WaitTimeout ==
    /\ loop = "wait" /\ ~event
    /\ loop' = "run"
    /\ UNCHANGED <<sitlVirtualTimeUs, pendingUs, gyroRuns, bootUs>> /\ UNCHANGED <<shared, rxVars, history>>
-----------------------------------------------------------------------------
Receive == \/ \E ts \in 0 .. MaxTs : udpRecv(ts)
           \/ updateState \/ updateStateRefuse
           \/ sitlMutexUnlock \/ CommitAdd \/ CommitSignal

Run == \/ BootQuantum \/ RunQuantum \/ TakePending
       \/ IdlePass \/ WaitEvent \/ WaitTimeout

Next == Receive \/ Run

\* Both threads are scheduled by the OS; no packet has to arrive
Fairness == /\ WF_vars(Run)
            /\ WF_vars(sitlMutexUnlock \/ CommitAdd \/ CommitSignal)

Spec == Init /\ [][Next]_vars

FairSpec == Spec /\ Fairness
-----------------------------------------------------------------------------
(* Properties *)

\* Microseconds handed to the main loop since boot: run, taken or pending
Published == (sitlVirtualTimeUs - bootUs) + pendingUs + gFdmPendingUs

\* "The flight loop can never consume time before the matching virtual
\* sensors exist" (udplink_windows.c:133): what is handed over, run or not,
\* never exceeds the simulated time whose sensors are written.
SensorsBeforeTime == Published * Sub <= covered

\* No microsecond is invented, counted twice or dropped on the way from the
\* timestamps to the clock: everything udpRecv accepted is in the clock, in
\* one of the hand-over variables, in the carried fraction, or in lost.
TimeIsConserved ==
    (Published + taken + gFdmCommitUs) * Sub + gFdmRemainderUs + lost = accepted

\* udpRecv overwrites gFdmCommitUs, so time can be lost; it is lost only for a
\* packet updateState refused, or when the simulator's clock jumped.
LossIsExplained ==
    [][lost' # lost => \/ refused
                       \/ gFdmLastTs' < gFdmLastTs
                       \/ gFdmLastTs' - gFdmLastTs > (MaxDelta - 1) * Sub]_vars

\* The scheduler never busy-waits on the clock that only its caller advances
\* (main_windows.c:386-389): deadlines and clock are on the same grid.
NeverSpins == loop # "spin"

\* "gyro/PID run once per 1000 us of Unreal time" (wincompat.c:2268): whatever
\* the sizes of the deltas, one gyro run per period of the virtual clock, and no
\* busy-wait for it.
GyroOnGrid == NeverSpins /\ gyroRuns = sitlVirtualTimeUs \div Period

\* The rates for which the grid argument of main_windows.c:386 holds
OnGrid == Period % Quantum = 0 /\ SpinUs <= Quantum

\* With no packet time left the flight loop does not run (main_windows.c:426):
\* neither the idle pass nor a wake-up moves the clock or serves a deadline.
FrozenWhileIdle ==
    [][(loop \in {"idle", "wait"}) =>
         UNCHANGED <<sitlVirtualTimeUs, gyroRuns, pendingUs>>]_vars

\* Virtual time neither disappears nor appears but for a reason of the code.
ClockAccounts == LossIsExplained /\ FrozenWhileIdle

\* Time published while the main loop sleeps wakes it: the event is signalled
\* or about to be, so the 10 ms timeout is never what resumes the clock.
NoLostWakeup ==
    loop = "wait" /\ gFdmPendingUs > 0 => event \/ rx = "signal"

\* Everything published is run, down to less than a quantum, again and again.
BacklogDrains == []<>(pendingUs + gFdmPendingUs < Quantum)

VC == INSTANCE VirtualClock WITH run <- sitlVirtualTimeUs - bootUs

\* The threads, the hand-over and the quanta implement the abstract clock.
ImplementsVirtualClock == VC!Spec
=============================================================================
