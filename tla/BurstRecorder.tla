--------------------------- MODULE BurstRecorder ---------------------------
(***************************************************************************)
(* The burst recorder of src/src/sitl_local.c: in windows of RECORDS       *)
(* records the step thread (localBurstLog) pushes into a ring with one     *)
(* writer and one reader, and the MSP thread (sitlBurstDrain) opens the    *)
(* log, writes what it finds and closes the log when the window is over.   *)
(* The two share four volatile words and no lock, so every access to one   *)
(* of them is a step of its own.                                           *)
(*                                                                         *)
(* A record is represented by its number: the count of the records         *)
(* accepted before it.  Times are kept as what is left to wait.            *)
(***************************************************************************)
EXTENDS Integers

CONSTANTS
    RING,           \* SITL_BURST_RING slots
    RECORDS,        \* SITL_BURST_RECORDS per window
    StepUs,         \* virtual time of one host step
    Second,         \* one second in the model's time unit
    Full, Hz,       \* BF_SITL_BURST_FULL set, BF_SITL_BURST_HZ (0: one per step)
    PeriodUs,       \* localBurstPeriodUs()
    MaxHz,          \* rates above it mean one record per step (4000)
    MaxWindows,     \* bound on the windows the step starts
    MaxFaults       \* bound on the opens of the log that fail

ASSUME BurstAssumption ==
    /\ RING \in Nat /\ RING > 1
    /\ RECORDS \in Nat \ {0}
    /\ StepUs \in Nat \ {0} /\ Second \in Nat \ {0} /\ PeriodUs \in Nat
    /\ Full \in BOOLEAN /\ Hz \in Int /\ MaxHz \in Nat

Slots == 0 .. RING - 1

VARIABLES
    gBurstHead, gBurstTail, gBurstRing, gBurstRecording, gBurstDropped,
    step,           \* where the step thread is in localBurstLog
    burstStep, recordWait, burstWait,   \* nextRecordUs, nextBurstUs minus now
    drain,          \* where the MSP thread is in sitlBurstDrain
    fp,             \* the log is open
    line,           \* the record the MSP thread is writing
    pushed, popped, \* records accepted and records written so far
    windows, faults \* bound counters

ring == <<gBurstHead, gBurstTail, gBurstRing, pushed, popped>>
stepVars == <<step, burstStep, recordWait, burstWait, windows>>
drainVars == <<drain, fp, line, faults>>
vars == <<ring, gBurstRecording, gBurstDropped, stepVars, drainVars>>

Init ==
    /\ gBurstHead = 0 /\ gBurstTail = 0
    /\ gBurstRing \in [Slots -> {-1}]
    /\ gBurstRecording = FALSE /\ gBurstDropped = 0
    /\ step = "gate" /\ burstStep = 0 /\ recordWait = 0 /\ burstWait = 0
    /\ drain = "top" /\ fp = FALSE /\ line = -1
    /\ pushed = 0 /\ popped = 0
    /\ windows = 0 /\ faults = 0

NextSlot(i) == IF i + 1 = RING THEN 0 ELSE i + 1

(* localBurstGridUs: the record grid, never finer than the step.            *)
GridUs ==
    LET grid == IF Full \/ Hz <= 0 \/ Hz > MaxHz THEN 0 ELSE Second \div Hz
    IN  IF grid < StepUs THEN StepUs ELSE grid
-----------------------------------------------------------------------------
(* The step thread: localBurstLog and sitlBurstPush.                        *)

After(wait) == IF wait > StepUs THEN wait - StepUs ELSE 0

(* A call the gates turn away: no window is due, or no record is.  Windows  *)
(* beyond the bound are never due.                                          *)
Skip ==
    /\ step = "gate"
    /\ \/ ~gBurstRecording /\ (burstWait > 0 \/ windows = MaxWindows)
       \/ recordWait > 0
    /\ recordWait' = After(recordWait) /\ burstWait' = After(burstWait)
    /\ UNCHANGED <<ring, gBurstRecording, gBurstDropped, step, burstStep, windows,
                   drainVars>>

(* A record is due; outside a window this starts one.  What it is made of   *)
(* is read from the flight loop before the push.  gBurstRecording is read   *)
(* twice; only a failed open clears it in between, and during a window the  *)
(* next one is overdue, so that the second read alone decides.              *)
Gate ==
    /\ step = "gate"
    /\ recordWait = 0
    /\ \/ gBurstRecording /\ UNCHANGED <<gBurstRecording, burstStep, windows>>
       \/ /\ ~gBurstRecording /\ burstWait = 0
          /\ windows < MaxWindows
          /\ burstStep' = 0
          /\ gBurstRecording' = TRUE
          /\ windows' = windows + 1
    /\ recordWait' = After(GridUs)
    /\ burstWait' = After(burstWait)
    /\ step' = "push"
    /\ UNCHANGED <<ring, gBurstDropped, drainVars>>

\* Mutant: no test against the tail, a full ring is overwritten.
PushOverwrites ==
    /\ step = "push"
    /\ gBurstRing' = [gBurstRing EXCEPT ![gBurstHead] = pushed]
    /\ step' = "publish"
    /\ UNCHANGED <<gBurstHead, gBurstTail, pushed, popped, gBurstRecording,
                   gBurstDropped, burstStep, recordWait, burstWait, windows, drainVars>>

\* Mutant: two slots are kept free, a record is dropped that had room.
FindFullEarly ==
    /\ step = "push"
    /\ gBurstTail \in {NextSlot(gBurstHead), NextSlot(NextSlot(gBurstHead))}
    /\ step' = "drop"
    /\ UNCHANGED <<ring, gBurstRecording, gBurstDropped, burstStep, recordWait,
                   burstWait, windows, drainVars>>

(* The next slot is the tail's: the MSP thread is behind.                   *)
FindFull ==
    /\ step = "push"
    /\ NextSlot(gBurstHead) = gBurstTail
    /\ step' = "drop"
    /\ UNCHANGED <<ring, gBurstRecording, gBurstDropped, burstStep, recordWait,
                   burstWait, windows, drainVars>>

(* The record is dropped and counted, whatever the MSP thread has done since. *)
Drop ==
    /\ step = "drop"
    /\ gBurstDropped' = gBurstDropped + 1
    /\ step' = "count"
    /\ UNCHANGED <<ring, gBurstRecording, burstStep, recordWait, burstWait, windows,
                   drainVars>>

Push ==
    /\ step = "push"
    /\ NextSlot(gBurstHead) # gBurstTail
    /\ gBurstRing' = [gBurstRing EXCEPT ![gBurstHead] = pushed]
    /\ step' = "publish"
    /\ UNCHANGED <<gBurstHead, gBurstTail, pushed, popped, gBurstRecording,
                   gBurstDropped, burstStep, recordWait, burstWait, windows, drainVars>>

Publish ==
    /\ step = "publish"
    /\ gBurstHead' = NextSlot(gBurstHead)
    /\ pushed' = pushed + 1
    /\ step' = "count"
    /\ UNCHANGED <<gBurstTail, gBurstRing, popped, gBurstRecording, gBurstDropped,
                   burstStep, recordWait, burstWait, windows, drainVars>>

(* The last record of a window ends it and sets the next one's time.        *)
Count ==
    /\ step = "count"
    /\ burstStep' = burstStep + 1
    /\ IF burstStep + 1 >= RECORDS
       THEN gBurstRecording' = FALSE /\ burstWait' = PeriodUs
       ELSE UNCHANGED <<gBurstRecording, burstWait>>
    /\ step' = "gate"
    /\ UNCHANGED <<ring, gBurstDropped, recordWait, windows, drainVars>>
-----------------------------------------------------------------------------
(* The MSP thread: sitlBurstDrain, called again and again.                  *)

(* A window is seen.  Until fopen returns the step may end it, and start     *)
(* another.                                                                 *)
SeeWindow ==
    /\ drain = "top" /\ ~fp /\ gBurstRecording
    /\ drain' = "open"
    /\ UNCHANGED <<ring, gBurstRecording, gBurstDropped, stepVars, fp, line, faults>>

OpenLog ==
    /\ drain = "open"
    /\ fp' = TRUE
    /\ gBurstDropped' = 0
    /\ drain' = "loop"
    /\ UNCHANGED <<ring, gBurstRecording, stepVars, line, faults>>

(* fopen failed: the window of this moment is called off, whichever it is;  *)
(* the step, when its next one is overdue, starts another at once.          *)
OpenFails ==
    /\ drain = "open"
    /\ faults < MaxFaults
    /\ faults' = faults + 1
    /\ gBurstRecording' = FALSE
    /\ drain' = "top"
    /\ UNCHANGED <<ring, gBurstDropped, stepVars, fp, line>>

Resume ==
    /\ drain = "top" /\ fp
    /\ drain' = "loop"
    /\ UNCHANGED <<ring, gBurstRecording, gBurstDropped, stepVars, fp, line, faults>>

WriteLine ==
    /\ drain = "loop" /\ gBurstTail # gBurstHead
    /\ line' = gBurstRing[gBurstTail]
    /\ drain' = "advance"
    /\ UNCHANGED <<ring, gBurstRecording, gBurstDropped, stepVars, fp, faults>>

\* Mutant: one record per call instead of all there are.
AdvanceOnce ==
    /\ drain = "advance"
    /\ gBurstTail' = NextSlot(gBurstTail)
    /\ popped' = popped + 1
    /\ drain' = "test"
    /\ UNCHANGED <<gBurstHead, gBurstRing, pushed, gBurstRecording, gBurstDropped,
                   stepVars, fp, line, faults>>

Advance ==
    /\ drain = "advance"
    /\ gBurstTail' = NextSlot(gBurstTail)
    /\ popped' = popped + 1
    /\ drain' = "loop"
    /\ UNCHANGED <<gBurstHead, gBurstRing, pushed, gBurstRecording, gBurstDropped,
                   stepVars, fp, line, faults>>

Drained ==
    /\ drain = "loop" /\ gBurstTail = gBurstHead
    /\ drain' = "test"
    /\ UNCHANGED <<ring, gBurstRecording, gBurstDropped, stepVars, fp, line, faults>>

(* The window may have ended since the ring was found empty.                *)
KeepOrClose ==
    /\ drain = "test"
    /\ fp' = gBurstRecording
    /\ drain' = "top"
    /\ UNCHANGED <<ring, gBurstRecording, gBurstDropped, stepVars, line, faults>>

StepThread == Skip \/ Gate \/ FindFull \/ Drop \/ Push \/ Publish \/ Count
MspThread == SeeWindow \/ OpenLog \/ OpenFails \/ Resume \/ WriteLine \/ Advance \/ Drained \/ KeepOrClose
Next ==
    \/ Skip \/ Gate \/ FindFull \/ Drop \/ Push \/ Publish \/ Count
    \/ SeeWindow \/ OpenLog \/ OpenFails \/ Resume \/ WriteLine \/ Advance \/ Drained \/ KeepOrClose

Spec == Init /\ [][Next]_vars
(* The host keeps stepping and the MSP loop keeps calling the drain.        *)
FairSpec == Spec /\ WF_vars(StepThread) /\ WF_vars(MspThread)
-----------------------------------------------------------------------------
TypeOK ==
    /\ gBurstHead \in Slots /\ gBurstTail \in Slots
    /\ gBurstRing \in [Slots -> Int]
    /\ pushed \in Nat /\ popped \in Nat
    /\ step \in {"gate", "push", "drop", "publish", "count"}
    /\ drain \in {"top", "open", "loop", "advance", "test"}

(* Every record accepted comes out once and in order: the line being        *)
(* written is the oldest one not written yet, never one the step is filling *)
(* in or has overwritten, however far the two threads are apart.            *)
RingIsFifo ==
    /\ popped <= pushed
    /\ drain = "advance" => line = popped /\ popped < pushed

(* A drain that has begun writes every record accepted so far before it     *)
(* looks whether the window is over, though the step keeps adding to them.  *)
DrainCatchesUp ==
    \A n \in 0 .. MaxWindows * RECORDS :
        (pushed > n /\ drain = "loop") ~> popped > n

(* How far slot i is ahead of the tail, going round the ring, and the slot  *)
(* that is d ahead of it.                                                   *)
Ahead(i) == IF i >= gBurstTail THEN i - gBurstTail ELSE (i - gBurstTail) + RING
SlotAhead(d) == IF gBurstTail + d < RING THEN gBurstTail + d ELSE (gBurstTail + d) - RING

(* What the slots from the tail to the head hold.                           *)
Waiting == [k \in 1 .. Ahead(gBurstHead) |-> gBurstRing[SlotAhead(k - 1)]]

Q == INSTANCE DroppingQueue WITH
        Capacity <- RING - 1, queue <- Waiting, accepted <- pushed, out <- line,
        reading <- drain = "advance", refusing <- step = "drop"

(* The ring, its two indices and the two threads without a lock implement   *)
(* the bounded queue: in particular a record is refused only while RING - 1 *)
(* of them wait, and none is overtaken, overwritten or read early.          *)
ImplementsQueue == Q!Spec

(* The comment of sitlBurstDrain: "close the file once the window has ended *)
(* and the ring is drained".                                                *)
ClosesOnlyDrained == [][KeepOrClose /\ ~fp' => gBurstTail = gBurstHead]_vars
=============================================================================
