---------------------------- MODULE UdplinkProofs ----------------------------
(***************************************************************************)
(* Proofs about the two parts of src/src/udplink_windows.c.  FdmClock, for *)
(* every tick size, quantum, gyro period, delta limit and number of        *)
(* packets: types, conservation of time, sensors before time, no lost      *)
(* wake-up, the implementation of VirtualClock, and (when the period is a  *)
(* multiple of the quantum) no busy-wait.  SimTelemetry, for every host,   *)
(* battery and number of motors: the reports are of this power-up.         *)
(***************************************************************************)
EXTENDS FdmClock, SimTelemetry, FiniteSetTheorems, WellFoundedInduction, TLAPS

-----------------------------------------------------------------------------
(* Arithmetic *)

\* Quotient and remainder put a number together again: how udpRecv splits a
\* delta into whole microseconds and the carried fraction.
LEMMA DivRem ==
    ASSUME NEW x \in Nat, NEW s \in Nat \ {0}
    PROVE  /\ x \div s \in Nat
           /\ x % s \in 0 .. s - 1
           /\ (x \div s) * s + (x % s) = x
BY SMT

\* Multiplication distributes over a sum of two and of three summands.
LEMMA Distribute ==
    ASSUME NEW x \in Int, NEW y \in Int, NEW z \in Int, NEW s \in Int
    PROVE  /\ (x + y) * s = x * s + y * s
           /\ (x + y + z) * s = x * s + y * s + z * s
BY SMT

\* A product with a tick size keeps its sign.
LEMMA ProductNat ==
    ASSUME NEW x \in Nat, NEW s \in Nat
    PROVE  x * s \in Nat
BY SMT

\* Two multiples of a quantum are equal or at least a quantum apart.
LEMMA NextMultiple ==
    ASSUME NEW q \in Nat \ {0}, NEW m \in Int, NEW i \in Int, m * q > i * q
    PROVE  m * q >= i * q + q
BY SMT

\* A quotient is determined by the two multiples around the number.
LEMMA QuotientUnique ==
    ASSUME NEW x \in Nat, NEW s \in Nat \ {0}, NEW k \in Nat,
           k * s <= x, x < (k + 1) * s
    PROVE  x \div s = k
BY SMT

\* Multiplying by a tick size keeps an order.
LEMMA ProductMonotone ==
    ASSUME NEW x \in Int, NEW y \in Int, NEW s \in Nat, x <= y
    PROVE  x * s <= y * s
BY SMT

-----------------------------------------------------------------------------
(* Types *)

\* The initial state has the types.
LEMMA InitTypeOK == Init => TypeOK
<1> USE ClockConstants DEF ClockConstants, Init
<1>1. Init => gFdmLastTs \in {-1} \cup 0 .. MaxTs
  OBVIOUS
<1>2. Init => gFdmRemainderUs \in 0 .. Sub - 1 /\ gFdmPacketCount \in 0 .. MaxPackets
  OBVIOUS
<1>3. Init => rx \in RxStates /\ loop \in LoopStates
  BY DEF RxStates, LoopStates
<1>4. Init => event \in BOOLEAN /\ refused \in BOOLEAN
  BY Zenon
<1>5. QED
  BY <1>1, <1>2, <1>3, <1>4 DEF TypeOK

\* Every variable keeps its type: in particular the carried fraction stays a
\* fraction and no hand-over variable goes negative.
THEOREM TypeCorrect == Spec => []TypeOK
<1>1. Init => TypeOK
  BY InitTypeOK
<1>2. TypeOK /\ [Next]_vars => TypeOK'
  <2> SUFFICES ASSUME TypeOK, [Next]_vars
               PROVE  TypeOK'
    OBVIOUS
  <2> USE ClockConstants DEF ClockConstants, TypeOK, RxStates, LoopStates, shared, rxVars, runVars, history
  <2>1. ASSUME NEW ts \in 0 .. MaxTs, udpRecv(ts)
        PROVE  TypeOK'
    <3>1. CASE AcceptDelta(ts)
      <4>1. DeltaTicks(ts) \in Nat /\ ts - gFdmLastTs \in Nat
        BY <3>1 DEF AcceptDelta, DeltaTicks, InRange
      <4>2. gFdmCommitUs' \in Nat /\ gFdmRemainderUs' \in 0 .. Sub - 1
        BY <3>1, <4>1, DivRem DEF AcceptDelta
      <4>3. accepted' \in Nat /\ lost' \in Nat
        BY <3>1, <4>1, ProductNat DEF AcceptDelta
      <4>4. QED
        BY <2>1, <4>2, <4>3 DEF udpRecv
    <3>2. CASE Resync(ts)
      <4>1. lost' \in Nat
        BY <3>2, ProductNat DEF Resync
      <4>2. QED
        BY <2>1, <3>2, <4>1 DEF udpRecv, Resync
    <3>3. CASE KeepBaseline(ts)
      BY <2>1, <3>3 DEF udpRecv, KeepBaseline
    <3>4. QED
      BY <2>1, <3>1, <3>2, <3>3 DEF udpRecv
  <2>2. CASE updateState
    BY <2>2 DEF updateState
  <2>3. CASE updateStateRefuse
    BY <2>3 DEF updateStateRefuse
  <2>4. CASE sitlMutexUnlock
    BY <2>4 DEF sitlMutexUnlock
  <2>5. CASE CommitAdd
    BY <2>5 DEF CommitAdd
  <2>6. CASE CommitSignal
    BY <2>6 DEF CommitSignal
  <2>7. CASE BootQuantum
    BY <2>7 DEF BootQuantum, scheduler
  <2>8. CASE RunQuantum
    BY <2>8 DEF RunQuantum, scheduler
  <2>9. CASE TakePending
    BY <2>9 DEF TakePending
  <2>10. CASE IdlePass
    BY <2>10 DEF IdlePass, scheduler
  <2>11. CASE WaitEvent
    BY <2>11 DEF WaitEvent
  <2>12. CASE WaitTimeout
    BY <2>12 DEF WaitTimeout
  <2>13. CASE UNCHANGED vars
    BY <2>13 DEF vars
  <2>14. QED
    BY <2>1, <2>2, <2>3, <2>4, <2>5, <2>6, <2>7, <2>8, <2>9, <2>10, <2>11,
       <2>12, <2>13 DEF Next, Receive, Run
<1>3. QED
  BY <1>1, <1>2, PTL DEF Spec

-----------------------------------------------------------------------------
(* Conservation and sensors before time *)

\* The inductive invariant.  SensorsBeforeTime alone is not inductive: what is
\* about to be published must be covered as well, which takes conservation
\* and that the thread holds a delta only between a sensor write and the next
\* packet.  bootUs <= the clock makes Published a natural number.
IInv ==
    /\ TypeOK
    /\ bootUs <= sitlVirtualTimeUs
    /\ loop = "boot" => bootUs = sitlVirtualTimeUs
    /\ TimeIsConserved
    /\ SensorsBeforeTime
    /\ covered <= accepted
    /\ rx \in {"unlock", "add"} => covered = accepted
    /\ rx # "add" => taken = 0

\* Conservation gives a bound on what is published.
LEMMA PublishedBound ==
    ASSUME TypeOK, bootUs <= sitlVirtualTimeUs, TimeIsConserved
    PROVE  /\ Published \in Nat
           /\ Published * Sub + taken * Sub + gFdmCommitUs * Sub
                + gFdmRemainderUs + lost = accepted
<1> USE ClockConstants DEF ClockConstants, TypeOK
<1>1. Published \in Nat
  BY DEF Published
<1>2. QED
  BY <1>1, Distribute DEF TimeIsConserved

\* The inductive invariant holds at start.
LEMMA IInvInit == Init => IInv
BY InitTypeOK, ClockConstants
   DEF ClockConstants, Init, IInv, TimeIsConserved, SensorsBeforeTime, Published

\* A datagram keeps it, whether its delta is accepted, resynced or refused.
LEMMA IInvRecv ==
    ASSUME IInv, TypeOK', NEW ts \in 0 .. MaxTs, udpRecv(ts)
    PROVE  IInv'
<1> DEFINE d == ts - gFdmLastTs
           n == gFdmCommitUs'
           f == gFdmRemainderUs'
           l == lost'
           a == accepted'
<1>1. /\ Sub \in Nat \ {0} /\ MaxTs \in Nat
      /\ gFdmCommitUs \in Nat /\ gFdmLastTs \in Int /\ gFdmRemainderUs \in Nat
      /\ lost \in Nat /\ accepted \in Nat /\ covered \in Nat
      /\ n \in Nat /\ f \in Nat /\ l \in Nat /\ a \in Nat
  BY ClockConstants DEF ClockConstants, IInv, TypeOK
<1>2. taken = 0 /\ taken' = 0
  BY DEF udpRecv, IInv
<1>3. /\ Published' = Published
      /\ Published \in Nat
      /\ Published * Sub + gFdmCommitUs * Sub + gFdmRemainderUs + lost = accepted
  <2>1. Published' = Published
    BY DEF udpRecv, Published, runVars
  <2>2. /\ Published \in Nat
        /\ Published * Sub + taken * Sub + gFdmCommitUs * Sub
             + gFdmRemainderUs + lost = accepted
    BY PublishedBound DEF IInv
  <2>3. QED
    BY <1>1, <1>2, <2>1, <2>2
<1>4. \/ /\ gFdmLastTs >= 0 /\ ts > gFdmLastTs /\ InRange(ts)
         /\ n = DeltaTicks(ts) \div Sub
         /\ f = DeltaTicks(ts) % Sub
         /\ a = accepted + d
         /\ l = lost + gFdmCommitUs * Sub
      \/ /\ n = 0 /\ f = 0 /\ a = accepted
         /\ l = lost + gFdmCommitUs * Sub + gFdmRemainderUs
      \/ n = gFdmCommitUs /\ f = gFdmRemainderUs /\ a = accepted /\ l = lost
  BY DEF udpRecv, AcceptDelta, Resync, KeepBaseline
<1> HIDE DEF n, f, l, a
<1>5. /\ Published * Sub \in Nat /\ gFdmCommitUs * Sub \in Nat /\ n * Sub \in Nat
      /\ (Published + 0 + n) * Sub = Published * Sub + n * Sub
  BY <1>1, <1>3, ProductNat, Distribute
<1>6. Published * Sub + n * Sub + f + l = a /\ accepted <= a
  <2>1. CASE /\ gFdmLastTs >= 0 /\ ts > gFdmLastTs /\ InRange(ts)
             /\ n = DeltaTicks(ts) \div Sub
             /\ f = DeltaTicks(ts) % Sub
             /\ a = accepted + d
             /\ l = lost + gFdmCommitUs * Sub
    <3>1. DeltaTicks(ts) = d + gFdmRemainderUs /\ DeltaTicks(ts) \in Nat /\ d \in Nat
      BY <1>1, <2>1 DEF DeltaTicks, InRange
    <3>2. n * Sub + f = d + gFdmRemainderUs
      BY <1>1, <2>1, <3>1, DivRem
    <3>3. a = accepted + d /\ l = lost + gFdmCommitUs * Sub
      BY <2>1
    <3> HIDE DEF d
    <3>4. QED
      BY <1>1, <1>3, <1>5, <3>1, <3>2, <3>3
  <2>2. CASE /\ n = 0 /\ f = 0 /\ a = accepted
             /\ l = lost + gFdmCommitUs * Sub + gFdmRemainderUs
    BY <1>1, <1>3, <1>5, <2>2
  <2>3. CASE n = gFdmCommitUs /\ f = gFdmRemainderUs /\ a = accepted /\ l = lost
    BY <1>1, <1>3, <1>5, <2>3
  <2>4. QED
    BY <1>4, <2>1, <2>2, <2>3
<1>7. /\ (Published + 0 + n) * Sub + f + l = a
      /\ Published * Sub <= covered /\ covered <= a
  BY <1>1, <1>5, <1>6 DEF IInv, SensorsBeforeTime
<1>8. TimeIsConserved' /\ SensorsBeforeTime' /\ covered' <= accepted'
  <2>1. covered' = covered
    BY DEF udpRecv
  <2>2. QED
    BY <1>2, <1>3, <1>7, <2>1 DEF TimeIsConserved, SensorsBeforeTime, n, f, l, a
<1>9. QED
  BY <1>2, <1>8 DEF IInv, udpRecv, runVars

\* Every step keeps the inductive invariant.
LEMMA IInvNext == IInv /\ [Next]_vars /\ TypeOK' => IInv'
<1> SUFFICES ASSUME IInv, [Next]_vars, TypeOK'
             PROVE  IInv'
  OBVIOUS
<1> USE ClockConstants DEF ClockConstants, TypeOK, IInv, shared, rxVars, runVars, history
<1>1. ASSUME NEW ts \in 0 .. MaxTs, udpRecv(ts)
      PROVE  IInv'
  BY <1>1, IInvRecv
<1>2. CASE updateState
  <2>1. Published \in Nat /\ Published' = Published
    BY <1>2 DEF updateState, Published
  <2>2. Published * Sub <= accepted
    BY <2>1, PublishedBound, ProductNat
  <2>3. QED
    BY <1>2, <2>1, <2>2 DEF updateState, TimeIsConserved, SensorsBeforeTime
<1>3. CASE updateStateRefuse
  BY <1>3 DEF updateStateRefuse, TimeIsConserved, SensorsBeforeTime, Published
<1>4. CASE sitlMutexUnlock
  <2>1. Published \in Nat /\ Published' = Published
    BY <1>4 DEF sitlMutexUnlock, Published
  <2>2. Published + taken + gFdmCommitUs = Published' + taken' + gFdmCommitUs'
    BY <1>4, <2>1 DEF sitlMutexUnlock
  <2>3. QED
    BY <1>4, <2>1, <2>2 DEF sitlMutexUnlock, TimeIsConserved, SensorsBeforeTime
<1>5. CASE CommitAdd
  <2>1. Published \in Nat /\ Published' = Published + taken /\ taken' = 0
    BY <1>5 DEF CommitAdd, Published
  <2>2. Published + taken + gFdmCommitUs = Published' + taken' + gFdmCommitUs'
    BY <1>5, <2>1 DEF CommitAdd
  <2>3. Published' * Sub = Published * Sub + taken * Sub
    BY <2>1, Distribute
  <2>4. Published' * Sub <= accepted
    BY <2>1, <2>3, PublishedBound, ProductNat
  <2>5. QED
    BY <1>5, <2>1, <2>2, <2>4 DEF CommitAdd, TimeIsConserved, SensorsBeforeTime
<1>6. CASE CommitSignal
  BY <1>6 DEF CommitSignal, TimeIsConserved, SensorsBeforeTime, Published
<1>7. CASE BootQuantum
  <2>1. Published' = Published
    BY <1>7 DEF BootQuantum, Published
  <2>2. QED
    BY <1>7, <2>1 DEF BootQuantum, TimeIsConserved, SensorsBeforeTime
<1>8. CASE RunQuantum
  <2>1. Published' = Published
    BY <1>8 DEF RunQuantum, Published
  <2>2. loop' # "boot"
    BY <1>8 DEF RunQuantum, scheduler
  <2>3. QED
    BY <1>8, <2>1, <2>2 DEF RunQuantum, TimeIsConserved, SensorsBeforeTime
<1>9. CASE TakePending
  <2>1. Published' = Published
    BY <1>9 DEF TakePending, Published
  <2>2. QED
    BY <1>9, <2>1 DEF TakePending, TimeIsConserved, SensorsBeforeTime
<1>10. CASE IdlePass
  <2>1. loop' # "boot" /\ Published' = Published
    BY <1>10 DEF IdlePass, scheduler, Published
  <2>2. QED
    BY <1>10, <2>1 DEF IdlePass, TimeIsConserved, SensorsBeforeTime
<1>11. CASE WaitEvent
  BY <1>11 DEF WaitEvent, TimeIsConserved, SensorsBeforeTime, Published
<1>12. CASE WaitTimeout
  BY <1>12 DEF WaitTimeout, TimeIsConserved, SensorsBeforeTime, Published
<1>13. CASE UNCHANGED vars
  BY <1>13 DEF vars, TimeIsConserved, SensorsBeforeTime, Published
<1>14. QED
  BY <1>1, <1>2, <1>3, <1>4, <1>5, <1>6, <1>7, <1>8, <1>9, <1>10, <1>11,
     <1>12, <1>13 DEF Next, Receive, Run

\* The inductive invariant holds in every reachable state.
THEOREM Invariance == Spec => []IInv
BY TypeCorrect, IInvInit, IInvNext, PTL DEF Spec

\* Sensors before time, for every packet sequence and every interleaving.
THEOREM SensorsFirst == Spec => []SensorsBeforeTime
<1>1. IInv => SensorsBeforeTime
  BY DEF IInv
<1>2. QED
  BY Invariance, <1>1, PTL

\* No microsecond is invented or counted twice.
THEOREM Conservation == Spec => []TimeIsConserved
<1>1. IInv => TimeIsConserved
  BY DEF IInv
<1>2. QED
  BY Invariance, <1>1, PTL

-----------------------------------------------------------------------------
(* Wake-ups *)

\* Inductive form of NoLostWakeup: it must hold from the moment the loop has
\* decided to idle, which is when TakePending found nothing.
WakeInv ==
    /\ TypeOK
    /\ loop \in {"idle", "wait"} /\ gFdmPendingUs > 0 => event \/ rx = "signal"

\* Every step keeps the event true to the published time.
LEMMA WakeNext == WakeInv /\ [Next]_vars /\ TypeOK' => WakeInv'
<1> SUFFICES ASSUME WakeInv, [Next]_vars, TypeOK'
             PROVE  WakeInv'
  OBVIOUS
<1> USE DEF WakeInv, shared, rxVars, runVars, history
<1>1. ASSUME NEW ts \in 0 .. MaxTs, udpRecv(ts)
      PROVE  WakeInv'
  BY <1>1 DEF udpRecv
<1>2. CASE updateState \/ updateStateRefuse \/ sitlMutexUnlock
  BY <1>2 DEF updateState, updateStateRefuse, sitlMutexUnlock
<1>3. CASE CommitAdd \/ CommitSignal
  BY <1>3 DEF CommitAdd, CommitSignal
<1>4. CASE BootQuantum \/ RunQuantum
  BY <1>4 DEF BootQuantum, RunQuantum, scheduler
<1>5. CASE TakePending
  BY <1>5 DEF TakePending
<1>6. CASE IdlePass
  BY <1>6 DEF IdlePass, scheduler
<1>7. CASE WaitEvent \/ WaitTimeout
  BY <1>7 DEF WaitEvent, WaitTimeout
<1>8. CASE UNCHANGED vars
  BY <1>8 DEF vars
<1>9. QED
  BY <1>1, <1>2, <1>3, <1>4, <1>5, <1>6, <1>7, <1>8 DEF Next, Receive, Run

\* Published time always wakes a sleeping main loop.
THEOREM WakeUp == Spec => []NoLostWakeup
<1>1. Init => WakeInv
  BY InitTypeOK DEF Init, WakeInv
<1>2. WakeInv => NoLostWakeup
  BY DEF WakeInv, NoLostWakeup
<1>3. QED
  BY TypeCorrect, WakeNext, <1>1, <1>2, PTL DEF Spec

-----------------------------------------------------------------------------
(* The gyro grid *)

\* The scheduler's deadline bracket: the last served deadline is not in the
\* future and the next one is.
GridInv ==
    /\ TypeOK
    /\ \E i \in Nat : sitlVirtualTimeUs = i * Quantum
    /\ gyroRuns * Period <= sitlVirtualTimeUs
    /\ sitlVirtualTimeUs < (gyroRuns + 1) * Period
    /\ loop # "spin"

\* A scheduler pass at a time on the grid, at most one quantum further,
\* serves what is due and does not busy-wait.
LEMMA SchedulerPass ==
    ASSUME OnGrid, gyroRuns \in Nat, NEW next \in LoopStates \ {"spin"},
           NEW i \in Nat, NEW t \in Nat, t = i * Quantum,
           gyroRuns * Period <= t, t < (gyroRuns + 1) * Period + Quantum,
           scheduler(t, next)
    PROVE  /\ gyroRuns' * Period <= t
           /\ t < (gyroRuns' + 1) * Period
           /\ loop' = next
<1>1. /\ Quantum \in Nat \ {0} /\ Period \in Nat \ {0} /\ SpinUs \in Nat
      /\ SpinUs <= Quantum
  BY ClockConstants DEF ClockConstants, OnGrid
<1>2. PICK k \in Nat : Period = k * Quantum
  <2>1. Period % Quantum = 0 /\ (Period \div Quantum) \in Nat
        /\ (Period \div Quantum) * Quantum + (Period % Quantum) = Period
    BY <1>1, DivRem DEF OnGrid
  <2>2. (Period \div Quantum) * Quantum = Period
    BY <1>1, <2>1
  <2>3. QED
    BY <2>1, <2>2
<1> DEFINE due == (gyroRuns + 1) * Period
           multiple == (gyroRuns + 1) * k
<1>3. due \in Nat /\ multiple \in Nat /\ due = multiple * Quantum
  <2>1. (gyroRuns + 1) * Period = ((gyroRuns + 1) * k) * Quantum
    BY <1>1, <1>2
  <2>2. (gyroRuns + 1) \in Nat
    OBVIOUS
  <2>3. QED
    BY <1>1, <1>2, <2>1, <2>2, ProductNat
<1>4. /\ (gyroRuns + 1 + 1) * Period = due + Period
      /\ Period >= Quantum
  <2>1. k >= 1
    BY <1>1, <1>2
  <2>2. QED
    BY <1>1, <1>2, <2>1
<1> HIDE DEF multiple
<1>5. due > t => due >= t + Quantum
  <2>1. multiple * Quantum > i * Quantum => multiple * Quantum >= i * Quantum + Quantum
    BY <1>1, <1>3, NextMultiple
  <2>2. QED
    BY <1>3, <2>1
<1>6. TimeLeft(t) = due - t
  BY DEF TimeLeft
<1> HIDE DEF due
<1>7. loop' = next
  BY <1>1, <1>3, <1>5, <1>6 DEF scheduler
<1>8. CASE due <= t
  <2>1. gyroRuns' = gyroRuns + 1
    BY <1>3, <1>6, <1>8 DEF scheduler
  <2>2. t < due + Period
    BY <1>1, <1>3, <1>4 DEF due
  <2>3. (gyroRuns + 1) * Period <= t /\ t < (gyroRuns + 1 + 1) * Period
    BY <1>4, <1>8, <2>2 DEF due
  <2>4. QED
    BY <1>7, <2>1, <2>3
<1>9. CASE t < due
  <2>1. gyroRuns' = gyroRuns
    BY <1>3, <1>6, <1>9 DEF scheduler
  <2>2. QED
    BY <1>7, <1>9, <2>1 DEF due
<1>10. QED
  BY <1>3, <1>8, <1>9

\* On the grid, every step keeps the clock on a multiple of the quantum.
LEMMA GridNext == ASSUME OnGrid, GridInv, [Next]_vars, TypeOK' PROVE GridInv'
<1>1. /\ Quantum \in Nat \ {0} /\ Period \in Nat \ {0}
      /\ sitlVirtualTimeUs \in Nat /\ gyroRuns \in Nat
  BY ClockConstants DEF ClockConstants, GridInv, TypeOK
<1>2. PICK i \in Nat : sitlVirtualTimeUs = i * Quantum
  BY DEF GridInv
<1>3. /\ gyroRuns * Period <= sitlVirtualTimeUs
      /\ sitlVirtualTimeUs < (gyroRuns + 1) * Period
      /\ (gyroRuns + 1) * Period \in Nat
  BY <1>1, ProductNat DEF GridInv
<1>4. /\ sitlVirtualTimeUs + Quantum \in Nat
      /\ i + 1 \in Nat
      /\ sitlVirtualTimeUs + Quantum = (i + 1) * Quantum
  BY <1>1, <1>2
<1>5. ASSUME NEW next \in LoopStates \ {"spin"},
             scheduler(sitlVirtualTimeUs + Quantum, next),
             sitlVirtualTimeUs' = sitlVirtualTimeUs + Quantum
      PROVE  GridInv'
  <2>1. /\ gyroRuns * Period <= sitlVirtualTimeUs + Quantum
        /\ sitlVirtualTimeUs + Quantum < (gyroRuns + 1) * Period + Quantum
    <3>1. gyroRuns * Period \in Nat
      BY <1>1, ProductNat
    <3>2. QED
      BY <1>1, <1>3, <3>1
  <2>2. /\ gyroRuns' * Period <= sitlVirtualTimeUs'
        /\ sitlVirtualTimeUs' < (gyroRuns' + 1) * Period
        /\ loop' = next
    BY <1>1, <1>4, <1>5, <2>1, SchedulerPass
  <2>3. \E j \in Nat : sitlVirtualTimeUs' = j * Quantum
    BY <1>4, <1>5
  <2>4. QED
    BY <2>2, <2>3 DEF GridInv
<1>6. CASE BootQuantum
  BY <1>5, <1>6 DEF BootQuantum, LoopStates
<1>7. CASE RunQuantum
  BY <1>5, <1>7 DEF RunQuantum, LoopStates
<1>8. CASE IdlePass
  <2>1. sitlVirtualTimeUs < (gyroRuns + 1) * Period + Quantum
    BY <1>1, <1>3
  <2>2. scheduler(sitlVirtualTimeUs, "wait") /\ sitlVirtualTimeUs' = sitlVirtualTimeUs
    BY <1>8 DEF IdlePass
  <2>3. /\ gyroRuns' * Period <= sitlVirtualTimeUs
        /\ sitlVirtualTimeUs < (gyroRuns' + 1) * Period
        /\ loop' = "wait"
    BY <1>1, <1>2, <1>3, <2>1, <2>2, SchedulerPass DEF LoopStates
  <2>4. QED
    BY <2>2, <2>3 DEF GridInv
<1>9. CASE TakePending
  BY <1>9 DEF TakePending, GridInv
<1>10. CASE WaitEvent \/ WaitTimeout
  BY <1>10 DEF WaitEvent, WaitTimeout, GridInv
<1>11. CASE Receive
  <2>1. UNCHANGED runVars
    BY <1>11 DEF Receive, udpRecv, updateState, updateStateRefuse, sitlMutexUnlock,
         CommitAdd, CommitSignal
  <2>2. QED
    BY <2>1 DEF runVars, GridInv
<1>12. CASE UNCHANGED vars
  BY <1>12 DEF vars, runVars, GridInv
<1>13. QED
  BY <1>6, <1>7, <1>8, <1>9, <1>10, <1>11, <1>12 DEF Next, Run

\* The clock starts on the grid.
LEMMA GridInit == Init => GridInv
<1> SUFFICES ASSUME Init PROVE GridInv
  OBVIOUS
<1>1. Quantum \in Nat \ {0} /\ Period \in Nat \ {0}
  BY ClockConstants DEF ClockConstants
<1>2. sitlVirtualTimeUs = 0 /\ gyroRuns = 0 /\ loop # "spin"
  BY DEF Init
<1>3. 0 = 0 * Quantum /\ 0 * Period <= 0 /\ 0 < (0 + 1) * Period
  BY <1>1
<1>4. QED
  BY <1>2, <1>3, InitTypeOK DEF GridInv

\* With a period that is a multiple of the quantum the scheduler never
\* busy-waits on the frozen clock.
THEOREM NoSpin == ASSUME OnGrid PROVE Spec => []NeverSpins
<1>1. Init => GridInv
  BY GridInit
<1>2. GridInv /\ [Next]_vars /\ TypeOK' => GridInv'
  BY GridNext
<1>3. GridInv => NeverSpins
  BY DEF GridInv, NeverSpins
<1>4. QED
  BY TypeCorrect, <1>1, <1>2, <1>3, PTL DEF Spec

\* On the grid the gyro runs exactly once per period of virtual time, and
\* nothing spins.
THEOREM GyroRate == ASSUME OnGrid PROVE Spec => []GyroOnGrid
<1>1. Init => GridInv
  BY GridInit
<1>2. GridInv /\ [Next]_vars /\ TypeOK' => GridInv'
  BY GridNext
<1>3. GridInv /\ NeverSpins => GyroOnGrid
  <2> SUFFICES ASSUME GridInv, NeverSpins PROVE GyroOnGrid
    OBVIOUS
  <2>1. /\ sitlVirtualTimeUs \in Nat /\ gyroRuns \in Nat /\ Period \in Nat \ {0}
        /\ gyroRuns * Period <= sitlVirtualTimeUs
        /\ sitlVirtualTimeUs < (gyroRuns + 1) * Period
    BY ClockConstants DEF ClockConstants, GridInv, TypeOK
  <2>2. sitlVirtualTimeUs \div Period = gyroRuns
    BY <2>1, QuotientUnique
  <2>3. QED
    BY <2>2 DEF GyroOnGrid
<1>4. QED
  BY TypeCorrect, NoSpin, <1>1, <1>2, <1>3, PTL DEF Spec

-----------------------------------------------------------------------------
(* What moves the clock, and what loses time *)

\* A delta waits in gFdmCommitUs between two packets only when updateState
\* refused its packet, and never while an earlier one is being handed over.
HeldInv ==
    /\ TypeOK
    /\ rx = "recv" /\ gFdmCommitUs # 0 => refused
    /\ rx \in {"add", "signal"} => gFdmCommitUs = 0

\* Every step keeps to it: only a refused packet leaves its delta behind.
LEMMA HeldNext == HeldInv /\ [Next]_vars /\ TypeOK' => HeldInv'
<1> SUFFICES ASSUME HeldInv, [Next]_vars, TypeOK'
             PROVE  HeldInv'
  OBVIOUS
<1> USE DEF HeldInv, shared, rxVars, runVars, history
<1>1. ASSUME NEW ts \in 0 .. MaxTs, udpRecv(ts)
      PROVE  HeldInv'
  BY <1>1 DEF udpRecv
<1>2. CASE updateState \/ updateStateRefuse \/ sitlMutexUnlock
  BY <1>2 DEF updateState, updateStateRefuse, sitlMutexUnlock
<1>3. CASE CommitAdd \/ CommitSignal
  BY <1>3 DEF CommitAdd, CommitSignal
<1>4. CASE Run
  <2>1. UNCHANGED <<gFdmCommitUs, rx, refused>>
    BY <1>4 DEF Run, BootQuantum, RunQuantum, TakePending, IdlePass, WaitEvent, WaitTimeout
  <2>2. QED
    BY <2>1
<1>5. CASE UNCHANGED vars
  BY <1>5 DEF vars
<1>6. QED
  BY <1>1, <1>2, <1>3, <1>4, <1>5 DEF Next, Receive

\* A delta out of range, less the fraction carried into it, is still a jump
\* of more than one microsecond short of the limit.
LEMMA JumpIsLarge ==
    ASSUME NEW d \in Nat, NEW f \in 0 .. Sub - 1, d > 0,
           ~(d + f > 0 /\ d + f <= MaxDelta * Sub)
    PROVE  d > (MaxDelta - 1) * Sub
<1>1. Sub \in Nat \ {0} /\ MaxDelta \in Nat
  BY ClockConstants DEF ClockConstants
<1>2. (MaxDelta - 1) * Sub = MaxDelta * Sub - Sub /\ MaxDelta * Sub \in Nat
  BY <1>1, ProductNat
<1>3. QED
  BY <1>1, <1>2

\* Time is lost by udpRecv only, and for one of the three reasons.
LEMMA LossHasReason ==
    ASSUME HeldInv, TypeOK', [Next]_vars, lost' # lost
    PROVE  \/ refused
           \/ gFdmLastTs' < gFdmLastTs
           \/ gFdmLastTs' - gFdmLastTs > (MaxDelta - 1) * Sub
<1>1. PICK ts \in 0 .. MaxTs : udpRecv(ts)
  BY DEF Next, Receive, Run, vars, history, updateState, updateStateRefuse, sitlMutexUnlock,
     CommitAdd, CommitSignal, BootQuantum, RunQuantum, TakePending, IdlePass,
     WaitEvent, WaitTimeout
<1>2. /\ Sub \in Nat \ {0} /\ MaxTs \in Nat
      /\ gFdmCommitUs \in Nat /\ gFdmLastTs \in Int /\ lost \in Nat
      /\ gFdmRemainderUs \in 0 .. Sub - 1
      /\ gFdmLastTs' = ts /\ rx = "recv"
  BY <1>1, ClockConstants DEF ClockConstants, HeldInv, TypeOK, udpRecv
<1>3. CASE AcceptDelta(ts)
  <2>1. lost' = lost + gFdmCommitUs * Sub
    BY <1>3 DEF AcceptDelta
  <2>2. gFdmCommitUs # 0
    BY <1>2, <2>1
  <2>3. QED
    BY <1>2, <2>2 DEF HeldInv
<1>4. CASE Resync(ts)
  <2>1. CASE ts > gFdmLastTs /\ ~InRange(ts)
    <3>1. ts - gFdmLastTs \in Nat /\ ts - gFdmLastTs > 0
      BY <1>2, <2>1
    <3>2. ~(/\ (ts - gFdmLastTs) + gFdmRemainderUs > 0
            /\ (ts - gFdmLastTs) + gFdmRemainderUs <= MaxDelta * Sub)
      BY <2>1 DEF InRange, DeltaTicks
    <3>3. QED
      BY <1>2, <3>1, <3>2, JumpIsLarge
  <2>2. QED
    BY <1>2, <1>4, <2>1 DEF Resync
<1>5. CASE KeepBaseline(ts)
  BY <1>5 DEF KeepBaseline
<1>6. QED
  BY <1>1, <1>3, <1>4, <1>5 DEF udpRecv

\* The next gyro deadline is always ahead, which a scheduler pass that serves
\* one deadline keeps true only if a quantum is no longer than a period.
AheadInv ==
    /\ TypeOK
    /\ sitlVirtualTimeUs < (gyroRuns + 1) * Period

\* A pass of the scheduler leaves the next gyro deadline ahead of the clock.
LEMMA SchedulerKeepsAhead ==
    ASSUME Quantum <= Period, gyroRuns \in Nat, NEW next, NEW t \in Nat,
           t < (gyroRuns + 1) * Period + Quantum, scheduler(t, next)
    PROVE  t < (gyroRuns' + 1) * Period
<1> DEFINE due == (gyroRuns + 1) * Period
<1>1. Quantum \in Nat \ {0} /\ Period \in Nat \ {0}
  BY ClockConstants DEF ClockConstants
<1>2. due \in Nat /\ (gyroRuns + 1 + 1) * Period = due + Period
  BY <1>1
<1>3. gyroRuns' = IF due - t <= 0 THEN gyroRuns + 1 ELSE gyroRuns
  BY DEF scheduler, TimeLeft
<1>4. t < due + Quantum
  OBVIOUS
<1>5. CASE due - t <= 0
  <2>1. t < (gyroRuns + 1 + 1) * Period
    <3> HIDE DEF due
    <3>1. QED
      BY <1>1, <1>2, <1>4
  <2>2. QED
    BY <1>3, <1>5, <2>1
<1>6. CASE ~(due - t <= 0)
  <2>1. t < due
    <3> HIDE DEF due
    <3>1. QED
      BY <1>2, <1>6
  <2>2. QED
    BY <1>3, <1>6, <2>1
<1>7. QED
  BY <1>5, <1>6

\* The first deadline is ahead of the clock.
LEMMA AheadInit == Init => AheadInv
<1> SUFFICES ASSUME Init PROVE AheadInv
  OBVIOUS
<1>1. sitlVirtualTimeUs = 0 /\ gyroRuns = 0 /\ Period \in Nat \ {0}
  BY ClockConstants DEF ClockConstants, Init
<1>2. QED
  BY <1>1, InitTypeOK DEF AheadInv

\* Every step keeps the next deadline ahead of the clock.
LEMMA AheadNext ==
    ASSUME Quantum <= Period, AheadInv, [Next]_vars, TypeOK'
    PROVE  AheadInv'
<1>1. /\ Quantum \in Nat \ {0} /\ Period \in Nat \ {0}
      /\ sitlVirtualTimeUs \in Nat /\ gyroRuns \in Nat
      /\ (gyroRuns + 1) * Period \in Nat
      /\ sitlVirtualTimeUs < (gyroRuns + 1) * Period
  BY ClockConstants, ProductNat DEF ClockConstants, AheadInv, TypeOK
<1>2. ASSUME NEW next, NEW t \in {sitlVirtualTimeUs, sitlVirtualTimeUs + Quantum},
             scheduler(t, next), sitlVirtualTimeUs' = t
      PROVE  AheadInv'
  <2>1. t \in Nat /\ t < (gyroRuns + 1) * Period + Quantum
    BY <1>1
  <2>2. QED
    BY <1>1, <1>2, <2>1, SchedulerKeepsAhead DEF AheadInv
<1>3. CASE BootQuantum
  BY <1>2, <1>3 DEF BootQuantum
<1>4. CASE RunQuantum
  BY <1>2, <1>4 DEF RunQuantum
<1>5. CASE IdlePass
  BY <1>2, <1>5 DEF IdlePass
<1>6. CASE UNCHANGED <<sitlVirtualTimeUs, gyroRuns>>
  BY <1>6 DEF AheadInv
<1>7. QED
  BY <1>3, <1>4, <1>5, <1>6 DEF Next, Receive, Run, vars, runVars, udpRecv, updateState,
     updateStateRefuse, sitlMutexUnlock, CommitAdd, CommitSignal, TakePending,
     WaitEvent, WaitTimeout

\* While the loop idles, the pass on the frozen clock finds no deadline due.
LEMMA IdleIsFrozen ==
    ASSUME AheadInv, [Next]_vars, loop \in {"idle", "wait"}
    PROVE  UNCHANGED <<sitlVirtualTimeUs, gyroRuns, pendingUs>>
<1>1. /\ sitlVirtualTimeUs \in Nat /\ (gyroRuns + 1) * Period \in Nat
      /\ sitlVirtualTimeUs < (gyroRuns + 1) * Period
  BY ClockConstants, ProductNat DEF ClockConstants, AheadInv, TypeOK
<1>2. CASE IdlePass
  <2>1. ~(TimeLeft(sitlVirtualTimeUs) <= 0)
    <3> DEFINE due == (gyroRuns + 1) * Period
    <3>1. TimeLeft(sitlVirtualTimeUs) = due - sitlVirtualTimeUs
      BY DEF TimeLeft
    <3>2. due \in Nat /\ sitlVirtualTimeUs < due
      BY <1>1
    <3> HIDE DEF due
    <3>3. QED
      BY <1>1, <3>1, <3>2
  <2>2. QED
    BY <1>2, <2>1 DEF IdlePass, scheduler
<1>3. CASE ~IdlePass
  BY <1>3 DEF Next, Receive, Run, vars, runVars, udpRecv, updateState,
     updateStateRefuse, sitlMutexUnlock, CommitAdd, CommitSignal, BootQuantum, RunQuantum,
     TakePending, WaitEvent, WaitTimeout
<1>4. QED
  BY <1>2, <1>3

\* Every lost microsecond has one of the code's reasons, and an idle loop
\* moves neither the clock nor the gyro: for quanta no longer than a period.
THEOREM ClockMovesForAReason == ASSUME Quantum <= Period PROVE Spec => ClockAccounts
<1>1. Init => HeldInv
  BY InitTypeOK DEF Init, HeldInv
<1>2. HeldInv /\ [Next]_vars /\ TypeOK' => HeldInv'
  BY HeldNext
<1>3. Init => AheadInv
  BY AheadInit
<1>4. AheadInv /\ [Next]_vars /\ TypeOK' => AheadInv'
  BY AheadNext
<1>5. HeldInv /\ TypeOK' /\ [Next]_vars
        => [lost' # lost => \/ refused
                            \/ gFdmLastTs' < gFdmLastTs
                            \/ gFdmLastTs' - gFdmLastTs > (MaxDelta - 1) * Sub]_vars
  BY LossHasReason
<1>6. AheadInv /\ [Next]_vars
        => [(loop \in {"idle", "wait"})
              => UNCHANGED <<sitlVirtualTimeUs, gyroRuns, pendingUs>>]_vars
  BY IdleIsFrozen
<1>7. Spec => LossIsExplained
  BY TypeCorrect, <1>1, <1>2, <1>5, PTL DEF Spec, LossIsExplained
<1>8. Spec => FrozenWhileIdle
  BY TypeCorrect, <1>3, <1>4, <1>6, PTL DEF Spec, FrozenWhileIdle
<1>9. QED
  BY <1>7, <1>8, PTL DEF ClockAccounts

-----------------------------------------------------------------------------
(* The abstract clock *)

\* Every step of the two threads is a step of VirtualClock or a stutter.
LEMMA StepImplements == ASSUME IInv, IInv', [Next]_vars PROVE [VC!Next]_(VC!vars)
<1>1. /\ Sub \in Nat \ {0} /\ Quantum \in Nat \ {0}
      /\ sitlVirtualTimeUs \in Nat /\ bootUs \in Nat /\ pendingUs \in Nat
      /\ gFdmPendingUs \in Nat /\ covered \in Nat /\ accepted \in Nat
      /\ bootUs <= sitlVirtualTimeUs
  BY ClockConstants DEF ClockConstants, IInv, TypeOK
<1>2. CASE updateState
  <2>1. covered' = accepted /\ covered <= accepted
        /\ UNCHANGED <<sitlVirtualTimeUs, bootUs>>
    BY <1>2 DEF updateState, runVars, IInv
  <2>2. QED
    BY <1>1, <2>1 DEF VC!Next, VC!Cover, VC!vars
<1>3. CASE RunQuantum
  <2>1. /\ sitlVirtualTimeUs' = sitlVirtualTimeUs + Quantum
        /\ bootUs' = bootUs /\ covered' = covered /\ pendingUs >= Quantum
    BY <1>3 DEF RunQuantum, history
  <2>2. Published * Sub <= covered
    BY DEF IInv, SensorsBeforeTime
  <2>3. (sitlVirtualTimeUs - bootUs) + Quantum <= Published /\ Published \in Nat
    BY <1>1, <2>1 DEF Published
  <2>4. ((sitlVirtualTimeUs - bootUs) + Quantum) * Sub <= covered
    <3>1. (sitlVirtualTimeUs - bootUs) + Quantum \in Int
      BY <1>1
    <3>2. ((sitlVirtualTimeUs - bootUs) + Quantum) * Sub <= Published * Sub
      BY <1>1, <2>3, <3>1, ProductMonotone
    <3>3. ((sitlVirtualTimeUs - bootUs) + Quantum) * Sub \in Int /\ Published * Sub \in Int
      BY <1>1, <2>3
    <3>4. QED
      BY <1>1, <2>2, <3>2, <3>3
  <2>5. (sitlVirtualTimeUs' - bootUs') = (sitlVirtualTimeUs - bootUs) + Quantum
    BY <1>1, <2>1
  <2>6. QED
    BY <2>1, <2>4, <2>5 DEF VC!Next, VC!Tick
<1>4. CASE BootQuantum
  <2>1. /\ bootUs = sitlVirtualTimeUs /\ covered' = covered
        /\ bootUs' = sitlVirtualTimeUs + Quantum
        /\ sitlVirtualTimeUs' = sitlVirtualTimeUs + Quantum
    BY <1>4 DEF BootQuantum, history, IInv
  <2>2. sitlVirtualTimeUs' - bootUs' = sitlVirtualTimeUs - bootUs
    BY <1>1, <2>1
  <2>3. QED
    BY <2>1, <2>2 DEF VC!vars
<1>5. CASE UNCHANGED <<sitlVirtualTimeUs, bootUs, covered>>
  BY <1>5 DEF VC!vars
<1>6. QED
  BY <1>2, <1>3, <1>4, <1>5 DEF Next, Receive, Run, vars, runVars, history, udpRecv,
     updateStateRefuse, sitlMutexUnlock, CommitAdd, CommitSignal, TakePending,
     IdlePass, WaitEvent, WaitTimeout

\* The UDP time base implements VirtualClock.
THEOREM Implementation == Spec => ImplementsVirtualClock
<1>1. Init => VC!Init
  BY DEF Init, VC!Init
<1>2. IInv /\ IInv' /\ [Next]_vars => [VC!Next]_(VC!vars)
  BY StepImplements
<1>3. QED
  BY Invariance, <1>1, <1>2, PTL DEF Spec, VC!Spec, ImplementsVirtualClock

-----------------------------------------------------------------------------
(* Simulator telemetry: the summaries of the motor speeds.                  *)

\* Some set of numbers that is not empty has a least element.
LEMMA LeastExists ==
    ASSUME NEW S \in SUBSET Nat, S # {}
    PROVE  \E i \in S : \A j \in S : i <= j
<1>1. PICK i \in S : \A j \in S : <<j, i>> \notin OpToRel(<, Nat)
  BY WFMin, NatLessThanWellFounded, Zenon
<1>2. \A j \in S : ~(j < i)
  BY <1>1, Zenon DEF OpToRel
<1>3. QED
  BY <1>2

\* Sets of motors are finite.
LEMMA MotorSets ==
    ASSUME NEW S \in SUBSET Motors
    PROVE  IsFiniteSet(S) /\ Cardinality(S) \in Nat
BY TelemetryAssumption, FS_Subset, FS_CardinalityType DEF TelemetryAssumption

\* The motor that the sum takes first
First(S) == CHOOSE x \in S : TRUE

\* One turn of the sum over the speeds, by what g says of smaller sets
SumTurn(g, S) == IF S = {} THEN 0 ELSE sitlMotorRpm[First(S)] + g[S \ {First(S)}]

\* Taking the first motor away leaves a smaller set.
LEMMA FirstAway ==
    ASSUME NEW S \in SUBSET Motors, S # {}
    PROVE  /\ First(S) \in S /\ First(S) \in Motors /\ S \ {First(S)} \in SUBSET Motors
           /\ Cardinality(S) \in Nat \ {0} /\ Cardinality(S \ {First(S)}) = Cardinality(S) - 1
<1>1. First(S) \in S
  BY DEF First
<1>2. IsFiniteSet(S) /\ Cardinality(S) \in Nat /\ Cardinality(S) # 0
  BY MotorSets, FS_EmptySet
<1>3. QED
  BY <1>1, <1>2, FS_RemoveElement

\* The recursion over the motors has a solution: of the sizes for which there
\* is none, there would be a smallest, and it would have one.
LEMMA SumExists ==
    \E g : g = [S \in SUBSET Motors |-> SumTurn(g, S)]
<1> DEFINE Small(n) == {S \in SUBSET Motors : Cardinality(S) <= n}
           Solves(g, n) == g = [S \in Small(n) |-> SumTurn(g, S)]
           Bad == {n \in Nat : ~ \E g : Solves(g, n)}
<1>1. Bad = {}
  <2>1. SUFFICES ASSUME Bad # {} PROVE FALSE
    OBVIOUS
  <2>2. PICK n \in Bad : \A k \in Bad : n <= k
    <3>1. Bad \in SUBSET Nat
      OBVIOUS
    <3> HIDE DEF Bad
    <3>2. QED
      BY <2>1, <3>1, LeastExists
  <2>3. n \in Nat /\ ~ \E g : Solves(g, n)
    BY <2>2
  <2> SUFFICES \E g : Solves(g, n)
    BY <2>3
  <2>4. CASE n = 0
    <3> DEFINE g == [S \in Small(0) |-> 0]
    <3>1. ASSUME NEW S \in Small(0) PROVE SumTurn(g, S) = 0
      <4>1. S \in SUBSET Motors /\ Cardinality(S) <= 0
        OBVIOUS
      <4>2. S = {}
        BY <4>1, MotorSets, FS_EmptySet
      <4>3. QED
        BY <4>2 DEF SumTurn
    <3>2. Solves(g, 0)
      <4> HIDE DEF Small
      <4>1. QED
        BY <3>1
    <3>3. QED
      BY <2>4, <3>2
  <2>5. CASE n # 0
    <3>1. n - 1 \in Nat /\ n - 1 \notin Bad
      <4> HIDE DEF Bad
      <4>1. n - 1 \in Nat /\ ~(n <= n - 1)
        BY <2>3, <2>5
      <4>2. QED
        BY <2>2, <4>1
    <3>2. PICK g : Solves(g, n - 1)
      BY <3>1
    <3> DEFINE h == [S \in Small(n) |-> SumTurn(g, S)]
    <3>3. ASSUME NEW S \in Small(n) PROVE SumTurn(g, S) = SumTurn(h, S)
      <4>1. CASE S = {}
        BY <4>1 DEF SumTurn
      <4>2. CASE S # {}
        <5> DEFINE T == S \ {First(S)}
        <5>1. S \in SUBSET Motors /\ Cardinality(S) <= n
          OBVIOUS
        <5>2. T \in SUBSET Motors /\ Cardinality(T) = Cardinality(S) - 1 /\ Cardinality(S) \in Nat
          BY <4>2, <5>1, FirstAway
        <5>3. T \in Small(n) /\ T \in Small(n - 1)
          BY <2>3, <5>1, <5>2
        <5> HIDE DEF T, Small
        <5>4. g[T] = SumTurn(g, T) /\ h[T] = SumTurn(g, T)
          BY <3>2, <5>3
        <5>5. QED
          BY <4>2, <5>4 DEF SumTurn, T
      <4>3. QED
        BY <4>1, <4>2
    <3>4. Solves(h, n)
      <4> HIDE DEF Small
      <4>1. QED
        BY <3>3
    <3>5. QED
      BY <3>4
  <2>6. QED
    BY <2>4, <2>5
<1>2. Cardinality(Motors) \in Nat
  BY MotorSets
<1>3. PICK g : Solves(g, Cardinality(Motors))
  BY <1>1, <1>2
<1>4. Small(Cardinality(Motors)) = SUBSET Motors
  <2>1. ASSUME NEW S \in SUBSET Motors PROVE Cardinality(S) <= Cardinality(Motors)
    BY TelemetryAssumption, FS_Subset DEF TelemetryAssumption
  <2>2. QED
    BY <2>1
<1>5. QED
  BY <1>3, <1>4

\* SumOver, unfolded once
LEMMA SumUnfolds ==
    ASSUME NEW S \in SUBSET Motors
    PROVE  SumOver[S] = SumTurn(SumOver, S)
<1>1. SumOver = CHOOSE g : g = [T \in SUBSET Motors |-> SumTurn(g, T)]
  BY DEF SumOver, SumTurn, First
<1>2. SumOver = [T \in SUBSET Motors |-> SumTurn(SumOver, T)]
  BY <1>1, SumExists
<1>3. QED
  BY <1>2

\* Where every motor of a set turns at lo or faster, so many times lo is a lower
\* bound of the sum: the smallest set for which it is not would lose its first.
LEMMA SumAtLeast ==
    ASSUME sitlMotorRpm \in [Motors -> Nat], NEW lo \in Nat, NEW S \in SUBSET Motors,
           \A m \in S : lo <= sitlMotorRpm[m]
    PROVE  SumOver[S] \in Nat /\ SumOver[S] >= Cardinality(S) * lo
<1> DEFINE Fast == {T \in SUBSET Motors : \A m \in T : lo <= sitlMotorRpm[m]}
           Bounded(T) == SumOver[T] \in Nat /\ SumOver[T] >= Cardinality(T) * lo
           Bad == {T \in Fast : ~Bounded(T)}
           Sizes == {Cardinality(T) : T \in Bad}
<1>1. SUFFICES ASSUME ~Bounded(S) PROVE FALSE
  OBVIOUS
<1>2. Sizes \in SUBSET Nat /\ Sizes # {}
  <2> HIDE DEF Bounded
  <2>1. \A T \in Fast : Cardinality(T) \in Nat
    BY MotorSets
  <2>2. S \in Bad
    BY <1>1
  <2>3. QED
    BY <2>1, <2>2
<1>3. PICK T \in Bad : \A U \in Bad : Cardinality(T) <= Cardinality(U)
  <2> HIDE DEF Bad
  <2>1. PICK s \in Sizes : \A u \in Sizes : s <= u
    BY <1>2, LeastExists
  <2>2. QED
    BY <2>1
<1>4. T \in SUBSET Motors /\ ~Bounded(T) /\ \A m \in T : lo <= sitlMotorRpm[m]
  BY <1>3
<1>5. CASE T = {}
  <2>1. SumOver[T] = 0
    BY <1>4, <1>5, SumUnfolds DEF SumTurn
  <2>2. Cardinality(T) = 0
    BY <1>5, FS_EmptySet
  <2>3. QED
    BY <1>4, <2>1, <2>2
<1>6. CASE T # {}
  <2> DEFINE m == First(T)
             U == T \ {m}
  <2>1. m \in T /\ m \in Motors /\ U \in SUBSET Motors /\ Cardinality(T) \in Nat \ {0}
        /\ Cardinality(U) = Cardinality(T) - 1
    BY <1>4, <1>6, FirstAway
  <2>2. SumOver[T] = sitlMotorRpm[m] + SumOver[U]
    BY <1>4, <1>6, SumUnfolds DEF SumTurn
  <2>3. U \in Fast
    BY <1>4, <2>1
  <2> HIDE DEF U, m
  <2>4. Bounded(U)
    <3>1. SUFFICES ASSUME ~Bounded(U) PROVE FALSE
      OBVIOUS
    <3>2. U \in Bad
      BY <2>3, <3>1
    <3>3. Cardinality(T) <= Cardinality(U)
      BY <1>3, <3>2
    <3>4. QED
      BY <2>1, <3>3
  <2>5. sitlMotorRpm[m] \in Nat /\ lo <= sitlMotorRpm[m]
    BY <1>4, <2>1
  <2>6. \A c, s, r \in Nat : s >= c * lo /\ r >= lo => r + s \in Nat /\ r + s >= (c + 1) * lo
    OBVIOUS
  <2>7. Cardinality(U) \in Nat /\ Cardinality(T) = Cardinality(U) + 1
    BY <2>1
  <2>8. Bounded(T)
    <3> HIDE DEF Bad, Fast, Sizes
    <3>1. QED
      BY <2>2, <2>4, <2>5, <2>6, <2>7
  <2>9. QED
    BY <1>4, <2>8
<1>7. QED
  BY <1>5, <1>6

\* Whole quotients are numbers.
LEMMA DivNat ==
    ASSUME NEW a \in Nat, NEW b \in Nat \ {0}
    PROVE  a \div b \in Nat /\ a \div b <= a
OBVIOUS

\* A quotient is at least what the divisor goes into the dividend.
LEMMA DivAtLeast ==
    ASSUME NEW a \in Nat, NEW b \in Nat \ {0}, NEW lo \in Nat, a >= b * lo
    PROVE  a \div b >= lo
OBVIOUS

\* The slowest motor reported is one that spins, and no faster than the average.
LEMMA SummariesOfSpinning ==
    ASSUME sitlMotorRpm \in [Motors -> Nat], Spinning # {}
    PROVE  MinMotorFrequency > 0 /\ MinMotorFrequency <= DshotRpmAverage
<1> DEFINE Speeds == {sitlMotorRpm[m] : m \in Spinning}
           lo == MinMotorFrequency
<1>1. Spinning \in SUBSET Motors /\ \A m \in Spinning : sitlMotorRpm[m] \in Nat \ {0}
  BY DEF Spinning
<1>2. PICK hz \in Speeds : \A j \in Speeds : hz <= j
  <2>1. Speeds \in SUBSET Nat /\ Speeds # {}
    BY <1>1
  <2> HIDE DEF Speeds
  <2>2. QED
    BY <2>1, LeastExists
<1>3. lo \in Speeds /\ \A m \in Spinning : lo <= sitlMotorRpm[m]
  <2>1. hz \in Speeds /\ \A m \in Spinning : hz <= sitlMotorRpm[m]
    BY <1>2
  <2>2. lo = CHOOSE h \in Speeds : \A m \in Spinning : h <= sitlMotorRpm[m]
    BY DEF MinMotorFrequency
  <2> HIDE DEF Speeds, lo
  <2>3. QED
    BY <2>1, <2>2
<1>4. lo \in Nat \ {0}
  <2> HIDE DEF lo
  <2>1. QED
    BY <1>1, <1>3
<1>5. SumOver[Spinning] \in Nat /\ SumOver[Spinning] >= Cardinality(Spinning) * lo
  <2> HIDE DEF lo
  <2>1. QED
    BY <1>1, <1>3, <1>4, SumAtLeast
<1>6. Cardinality(Spinning) \in Nat \ {0}
  BY <1>1, FirstAway
<1>7. SumOver[Spinning] \div Cardinality(Spinning) >= lo
  <2> HIDE DEF lo
  <2>1. QED
    BY <1>4, <1>5, <1>6, DivAtLeast
<1>8. DshotRpmAverage = SumOver[Spinning] \div Cardinality(Spinning)
  BY DEF DshotRpmAverage
<1>9. SumOver[Spinning] \div Cardinality(Spinning) \in Int
  BY <1>5, <1>6, DivNat
<1>10. QED
  <2> HIDE DEF lo
  <2>1. lo > 0 /\ lo <= DshotRpmAverage
    BY <1>4, <1>7, <1>8, <1>9
  <2>2. QED
    BY <2>1 DEF lo

-----------------------------------------------------------------------------
(* Simulator telemetry: the inductive invariant.                            *)

\* The configuration of a controller that runs is one it was given.
ConfigInv ==
    /\ targetLooptime \in Nat /\ (running => targetLooptime \in Looptimes)
    /\ lpfHz \in LpfHz /\ boots \in Nat

\* The charge is what was metered since the power-up; no meter, and no
\* statistics, show more than the highest current since.
MeterInv ==
    /\ charge \in Nat /\ peak \in Nat /\ amperage \in Nat /\ maxCurrent \in Nat
    /\ sitlMahDrawn = charge
    /\ amperage <= peak /\ maxCurrent <= peak

\* Before the first boot, which resets nothing, there is nothing to reset.
FirstBootInv ==
    boots = 0 => /\ ~running /\ ~control /\ osdState = "init"
                 /\ maxCurrent = 0 /\ sitlMahDrawn = 0

\* The splash is due until the first frame; control state is of this boot.
FreshInv == running => (osdState = "init" <=> ~drawn) /\ (control => looped)

TelemetryInv == TelemetryTypeOK /\ ConfigInv /\ MeterInv /\ FirstBootInv /\ FreshInv

\* The greater of two numbers is one of them, and above both.
LEMMA GreaterOf ==
    ASSUME NEW a \in Int, NEW b \in Int
    PROVE  Greater(a, b) \in {a, b} /\ a <= Greater(a, b) /\ b <= Greater(a, b)
BY DEF Greater

\* A filter that moves towards its input stays among the numbers, and never
\* goes past it.
LEMMA TowardStays ==
    ASSUME NEW y \in Nat, NEW x \in Nat, NEW lag \in Nat \ {0}
    PROVE  /\ Toward(y, x, lag) \in Nat
           /\ x <= y => Toward(y, x, lag) \in x .. y
           /\ y <= x => Toward(y, x, lag) \in y .. x
<1>1. CASE x > y
  <2> DEFINE q == (x - y) \div lag
  <2>1. x - y \in Nat \ {0}
    BY <1>1
  <2>2. q \in Nat /\ q <= x - y
    BY <2>1, DivNat
  <2> HIDE DEF q
  <2>3. Greater(1, q) \in Nat /\ Greater(1, q) <= x - y
    BY <2>1, <2>2 DEF Greater
  <2>4. Toward(y, x, lag) = y + Greater(1, q)
    BY <1>1 DEF Toward, q
  <2> HIDE DEF Greater
  <2>5. QED
    BY <1>1, <2>3, <2>4
<1>2. CASE x < y
  <2> DEFINE q == (y - x) \div lag
  <2>1. y - x \in Nat \ {0}
    BY <1>2
  <2>2. q \in Nat /\ q <= y - x
    BY <2>1, DivNat
  <2> HIDE DEF q
  <2>3. Greater(1, q) \in Nat /\ Greater(1, q) <= y - x
    BY <2>1, <2>2 DEF Greater
  <2>4. Toward(y, x, lag) = y - Greater(1, q)
    BY <1>2 DEF Toward, q
  <2>5. QED
    BY <1>2, <2>3, <2>4
<1>3. CASE x = y
  BY <1>3 DEF Toward
<1>4. QED
  BY <1>1, <1>2, <1>3

\* The lag of a filter is at least one, whatever it is made for.
LEMMA LagType ==
    ASSUME NEW hz \in LpfHz, NEW looptime \in Looptimes
    PROVE  Lag(hz, looptime) \in Nat \ {0}
<1>1. hz \in Nat \ {0} /\ looptime \in Nat \ {0} /\ FilterScale \in Nat
  BY TelemetryAssumption DEF TelemetryAssumption
<1>2. hz * looptime \in Nat \ {0}
  BY <1>1
<1>3. FilterScale \div (hz * looptime) \in Nat
  BY <1>1, <1>2, DivNat
<1>4. QED
  BY <1>3 DEF Lag, Greater

\* The initial state has the invariant.
LEMMA InitTelemetryInv == TelemetryInit => TelemetryInv
<1> SUFFICES ASSUME TelemetryInit PROVE TelemetryInv
  OBVIOUS
<1>1. MaxTemp \in Nat /\ MaxCharge \in Nat /\ RestTemp \in Nat \ {0} /\ DefaultVolts \in Nat \ {0}
  BY TelemetryAssumption DEF TelemetryAssumption
<1>2. /\ sitlMotorRpm \in [Motors -> Nat] /\ sitlMotorTemperature \in [Motors -> Nat \ {0}]
      /\ maxTemp \in [Motors -> 0 .. MaxTemp]
  BY <1>1 DEF TelemetryInit
<1>3. gSimMotorFreqLpf \in [Motors -> [out : Nat, lag : Nat \ {0}]]
  BY DEF TelemetryInit
<1>4. /\ sitlBatteryVoltage \in Nat \ {0} /\ sitlBatteryCurrent \in Nat
      /\ sitlMahDrawn \in 0 .. MaxCharge /\ gSimMotorFreqLpfReady \in BOOLEAN
      /\ osdState \in {"init", "process"}
  <2>1. /\ sitlBatteryVoltage = DefaultVolts /\ sitlBatteryCurrent = 0 /\ sitlMahDrawn = 0
        /\ gSimMotorFreqLpfReady = FALSE /\ osdState = "init"
    BY Zenon DEF TelemetryInit
  <2>2. sitlBatteryVoltage \in Nat \ {0} /\ sitlBatteryCurrent \in Nat /\ sitlMahDrawn \in 0 .. MaxCharge
    BY <1>1, <2>1
  <2>3. gSimMotorFreqLpfReady \in BOOLEAN /\ osdState \in {"init", "process"}
    BY <2>1, Zenon
  <2>4. QED
    BY <2>2, <2>3, Zenon
<1>5. {running, armed, control, drawn, looped} \subseteq BOOLEAN
  BY DEF TelemetryInit
<1>6. TelemetryTypeOK
  BY <1>2, <1>3, <1>4, <1>5 DEF TelemetryTypeOK
<1>7. QED
  BY <1>6 DEF TelemetryInit, TelemetryInv, ConfigInv, MeterInv, FirstBootInv, FreshInv

\* A packet changes the host's data only, and to data of their types.
LEMMA FeedStep ==
    ASSUME TelemetryInv, NEW p \in Packets, Feed(p)
    PROVE  TelemetryInv'
<1>1. TelemetryTypeOK'
  <2> USE DEF Feed, SimTelemetrySet
  <2>1. /\ p.voltage \in Int /\ p.current \in Int
        /\ p.rpm \in [Motors -> Int] /\ p.temperature \in [Motors -> Int]
    BY TelemetryAssumption DEF TelemetryAssumption
  <2>2. (sitlBatteryVoltage \in Nat \ {0} /\ sitlBatteryCurrent \in Nat)'
    BY <2>1 DEF TelemetryInv, TelemetryTypeOK
  <2>3. (sitlMotorRpm \in [Motors -> Nat])'
    BY <2>1 DEF TelemetryInv, TelemetryTypeOK
  <2>4. (sitlMotorTemperature \in [Motors -> Nat \ {0}])'
    BY <2>1 DEF TelemetryInv, TelemetryTypeOK
  <2>5. (maxTemp \in [Motors -> 0 .. MaxTemp])'
    <3>1. MaxTemp \in Nat
      BY TelemetryAssumption DEF TelemetryAssumption
    <3>2. ASSUME NEW m \in Motors
          PROVE  Greater(maxTemp[m], EscTemperature(sitlMotorTemperature'[m])) \in 0 .. MaxTemp
      <4>1. sitlMotorTemperature'[m] \in Nat /\ maxTemp[m] \in 0 .. MaxTemp
        BY <2>4 DEF TelemetryInv, TelemetryTypeOK
      <4>2. EscTemperature(sitlMotorTemperature'[m]) \in 0 .. MaxTemp
        BY <3>1, <4>1 DEF EscTemperature
      <4>3. QED
        BY <3>1, <4>1, <4>2 DEF Greater
    <3>3. QED
      BY <3>2 DEF ApplyDshotTelemetry
  <2>6. QED
    BY <2>2, <2>3, <2>4, <2>5
       DEF TelemetryInv, TelemetryTypeOK, lpf, session, controlLoop
<1>2. QED
  BY <1>1 DEF Feed, TelemetryInv, ConfigInv, MeterInv, FirstBootInv, FreshInv,
              cfg, session, controlLoop

\* Reading the speeds moves the filters, by whoever it is done.
LEMMA ReadingStep ==
    ASSUME TelemetryInv, running, GetMotorFrequencies
    PROVE  /\ gSimMotorFreqLpf' \in [Motors -> [out : Nat, lag : Nat \ {0}]]
           /\ gSimMotorFreqLpfReady' \in BOOLEAN
<1>1. LpfInit \in [Motors -> [out : Nat, lag : Nat \ {0}]]
  <2>1. gSimMotorFreqLpf \in [Motors -> [out : Nat, lag : Nat \ {0}]]
    BY DEF TelemetryInv, TelemetryTypeOK
  <2>2. Lag(lpfHz, targetLooptime) \in Nat \ {0}
    BY LagType DEF TelemetryInv, ConfigInv
  <2> DEFINE made == [m \in Motors |-> [out |-> 0, lag |-> Lag(lpfHz, targetLooptime)]]
  <2>3. made \in [Motors -> [out : Nat, lag : Nat \ {0}]]
    BY <2>2
  <2> HIDE DEF made
  <2>4. LpfInit = gSimMotorFreqLpf \/ LpfInit = made
    BY DEF LpfInit, made
  <2>5. QED
    BY <2>1, <2>3, <2>4
<1>2. ASSUME NEW m \in Motors
      PROVE  [LpfInit[m] EXCEPT !.out = Toward(LpfInit[m].out, sitlMotorRpm[m], LpfInit[m].lag)]
             \in [out : Nat, lag : Nat \ {0}]
  <2>1. LpfInit[m] \in [out : Nat, lag : Nat \ {0}] /\ sitlMotorRpm[m] \in Nat
    BY <1>1 DEF TelemetryInv, TelemetryTypeOK
  <2>2. Toward(LpfInit[m].out, sitlMotorRpm[m], LpfInit[m].lag) \in Nat
    BY <2>1, TowardStays
  <2>3. QED
    BY <2>1, <2>2
<1>3. QED
  BY <1>2 DEF GetMotorFrequencies

\* Control loop and reports: only the filters, and the trace of the loop, change.
LEMMA ReadersStep ==
    ASSUME TelemetryInv, ControlLoop \/ Diagnostics
    PROVE  TelemetryInv'
<1>1. running /\ GetMotorFrequencies
  BY DEF ControlLoop, Diagnostics
<1>2. /\ (gSimMotorFreqLpf \in [Motors -> [out : Nat, lag : Nat \ {0}]])'
      /\ (gSimMotorFreqLpfReady \in BOOLEAN)'
  BY <1>1, ReadingStep
<1>3. CASE ControlLoop
  <2>1. TelemetryTypeOK'
    BY <1>2, <1>3 DEF ControlLoop, TelemetryInv, TelemetryTypeOK, host, session
  <2>2. ConfigInv' /\ MeterInv' /\ FirstBootInv' /\ FreshInv'
    BY <1>3 DEF ControlLoop, TelemetryInv, ConfigInv, MeterInv, FirstBootInv, FreshInv,
                cfg, session
  <2>3. QED
    BY <2>1, <2>2 DEF TelemetryInv
<1>4. CASE Diagnostics
  <2>1. TelemetryTypeOK'
    BY <1>2, <1>4 DEF Diagnostics, TelemetryInv, TelemetryTypeOK, host, session, controlLoop
  <2>2. ConfigInv' /\ MeterInv' /\ FirstBootInv' /\ FreshInv'
    BY <1>4 DEF Diagnostics, TelemetryInv, ConfigInv, MeterInv, FirstBootInv, FreshInv,
                cfg, session, controlLoop
  <2>3. QED
    BY <2>1, <2>2 DEF TelemetryInv
<1>5. QED
  BY <1>3, <1>4

\* Another looptime or cutoff is one of those a configuration asks for.
LEMMA ConfigStep ==
    ASSUME TelemetryInv, RederiveLooptime \/ SetLpfHz
    PROVE  TelemetryInv'
<1>1. Looptimes \subseteq Nat
  BY TelemetryAssumption DEF TelemetryAssumption
<1>2. TelemetryTypeOK'
  BY DEF RederiveLooptime, SetLpfHz, TelemetryInv, TelemetryTypeOK, host, lpf, session, controlLoop
<1>3. ConfigInv'
  BY <1>1 DEF RederiveLooptime, SetLpfHz, TelemetryInv, ConfigInv
<1>4. MeterInv' /\ FirstBootInv' /\ FreshInv'
  BY DEF RederiveLooptime, SetLpfHz, TelemetryInv, MeterInv, FirstBootInv, FreshInv,
         session, controlLoop
<1>5. QED
  BY <1>2, <1>3, <1>4 DEF TelemetryInv

\* The tasks that watch the voltage leave what the invariant is about alone.
LEMMA VoltageStep ==
    ASSUME TelemetryInv, BatteryUpdateVoltage \/ BatteryAlerts
    PROVE  TelemetryInv'
<1>1. UNCHANGED <<host, lpf, cfg, session, controlLoop, running, armed, boots, inputs>>
  BY DEF BatteryUpdateVoltage, BatteryAlerts
<1>2. TelemetryTypeOK'
  BY <1>1 DEF TelemetryInv, TelemetryTypeOK, host, lpf, session, controlLoop
<1>3. QED
  BY <1>1, <1>2 DEF TelemetryInv, ConfigInv, MeterInv, FirstBootInv, FreshInv,
                    cfg, session, controlLoop

\* The current meter adds to both accounts of the charge, and to the peak.
LEMMA CurrentStep ==
    ASSUME TelemetryInv, BatteryUpdateCurrent
    PROVE  TelemetryInv'
<1>1. /\ sitlMahDrawn \in Nat /\ sitlBatteryCurrent \in Nat /\ MaxCharge \in Nat
      /\ charge \in Nat /\ peak \in Nat /\ maxCurrent \in Nat
  BY TelemetryAssumption DEF TelemetryAssumption, TelemetryInv, TelemetryTypeOK, MeterInv
<1>2. (sitlMahDrawn \in 0 .. MaxCharge)'
  BY <1>1 DEF BatteryUpdateCurrent
<1>3. TelemetryTypeOK'
  BY <1>2 DEF BatteryUpdateCurrent, TelemetryInv, TelemetryTypeOK, host, lpf, controlLoop
<1>4. MeterInv'
  BY <1>1 DEF BatteryUpdateCurrent, TelemetryInv, MeterInv, Greater
<1>5. boots # 0
  BY DEF BatteryUpdateCurrent, TelemetryInv, FirstBootInv
<1>6. ConfigInv' /\ FirstBootInv' /\ FreshInv'
  BY <1>5 DEF BatteryUpdateCurrent, TelemetryInv, ConfigInv, FirstBootInv, FreshInv,
              cfg, controlLoop
<1>7. QED
  BY <1>3, <1>4, <1>6 DEF TelemetryInv

\* Arming clears the statistics, disarming nothing.
LEMMA ArmingStep ==
    ASSUME TelemetryInv, Arm \/ Disarm
    PROVE  TelemetryInv'
<1>1. TelemetryTypeOK'
  BY DEF Arm, Disarm, TelemetryInv, TelemetryTypeOK, host, lpf, session, controlLoop
<1>2. MeterInv'
  BY DEF Arm, Disarm, TelemetryInv, MeterInv, session
<1>3. ConfigInv' /\ FirstBootInv' /\ FreshInv'
  BY DEF Arm, Disarm, TelemetryInv, ConfigInv, FirstBootInv, FreshInv, cfg, session, controlLoop
<1>4. QED
  BY <1>1, <1>2, <1>3 DEF TelemetryInv

\* A frame takes the statistics no higher than the meter.
LEMMA OsdStep ==
    ASSUME TelemetryInv, OsdTask
    PROVE  TelemetryInv'
<1>1. TelemetryTypeOK'
  BY DEF OsdTask, TelemetryInv, TelemetryTypeOK, host, lpf, controlLoop
<1>2. MeterInv'
  BY DEF OsdTask, TelemetryInv, MeterInv, Greater
<1>3. boots # 0
  BY DEF OsdTask, TelemetryInv, FirstBootInv
<1>4. ConfigInv' /\ FirstBootInv' /\ FreshInv'
  BY <1>3 DEF OsdTask, TelemetryInv, ConfigInv, FirstBootInv, FreshInv, cfg, controlLoop
<1>5. QED
  BY <1>1, <1>2, <1>4 DEF TelemetryInv

\* An in-process reboot resets the reports and leaves the loop's state alone.
LEMMA RebootStep ==
    ASSUME TelemetryInv, Reboot
    PROVE  TelemetryInv'
<1> USE DEF Reboot, ResetOsdRuntimeState, PowerUp
<1>1. TelemetryTypeOK'
  <2>1. (sitlMahDrawn \in 0 .. MaxCharge)'
    BY TelemetryAssumption DEF TelemetryAssumption
  <2>2. QED
    BY <2>1 DEF TelemetryInv, TelemetryTypeOK, host, lpf, controlLoop
<1>2. MeterInv'
  BY DEF TelemetryInv, MeterInv
<1>3. ConfigInv' /\ FirstBootInv' /\ FreshInv'
  BY DEF TelemetryInv, ConfigInv, FirstBootInv, FreshInv, cfg, controlLoop
<1>4. QED
  BY <1>1, <1>2, <1>3 DEF TelemetryInv

\* A shutdown clears nothing.
LEMMA ShutdownStep ==
    ASSUME TelemetryInv, Shutdown
    PROVE  TelemetryInv'
<1>1. TelemetryTypeOK'
  BY DEF Shutdown, TelemetryInv, TelemetryTypeOK, host, lpf, session, controlLoop
<1>2. QED
  BY <1>1 DEF Shutdown, TelemetryInv, ConfigInv, MeterInv, FirstBootInv, FreshInv,
              cfg, session, controlLoop

\* A boot resets the reports, the first one excepted, which finds them reset.
LEMMA BootStep ==
    ASSUME TelemetryInv, Boot
    PROVE  TelemetryInv'
<1>1. /\ sitlMahDrawn' = 0 /\ maxCurrent' = 0 /\ osdState' = "init" /\ control' = FALSE
      /\ boots' \in Nat \ {0}
  BY DEF Boot, ResetVolatileControlState, ResetOsdRuntimeState, TelemetryInv, ConfigInv,
         FirstBootInv
<1>2. /\ charge' = 0 /\ peak' = amperage' /\ amperage' = 0 /\ drawn' = FALSE
      /\ looped' = FALSE /\ running' = TRUE /\ armed' = FALSE /\ targetLooptime' \in Looptimes
      /\ UNCHANGED <<host, lpf, lpfHz, inputs>>
  BY DEF Boot, PowerUp
<1>3. TelemetryTypeOK'
  <2>1. (sitlMahDrawn \in 0 .. MaxCharge)'
    BY <1>1, TelemetryAssumption DEF TelemetryAssumption
  <2>2. QED
    BY <1>1, <1>2, <2>1 DEF TelemetryInv, TelemetryTypeOK, host, lpf
<1>4. ConfigInv'
  BY <1>1, <1>2, TelemetryAssumption DEF TelemetryAssumption, TelemetryInv, ConfigInv
<1>5. MeterInv' /\ FirstBootInv' /\ FreshInv'
  BY <1>1, <1>2 DEF MeterInv, FirstBootInv, FreshInv
<1>6. QED
  BY <1>3, <1>4, <1>5 DEF TelemetryInv

\* Every step of the stepping thread, and a stutter, keeps the invariant.
LEMMA NextTelemetryInv ==
    ASSUME TelemetryInv, [TelemetryNext]_telemetryVars
    PROVE  TelemetryInv'
<1>1. CASE UNCHANGED telemetryVars
  BY <1>1 DEF telemetryVars, host, lpf, cfg, pack, session, controlLoop, TelemetryInv,
              TelemetryTypeOK, ConfigInv, MeterInv, FirstBootInv, FreshInv
<1>2. CASE TelemetryNext
  BY <1>2, FeedStep, ReadersStep, ConfigStep, VoltageStep, CurrentStep, ArmingStep, OsdStep,
     RebootStep, ShutdownStep, BootStep DEF TelemetryNext
<1>3. QED
  BY <1>1, <1>2

\* The inductive invariant of the telemetry holds for every host, battery and
\* number of motors.
THEOREM TelemetryInvariance == TelemetrySpec => []TelemetryInv
<1>1. TelemetryInv /\ [TelemetryNext]_telemetryVars => TelemetryInv'
  BY NextTelemetryInv
<1>2. QED
  BY InitTelemetryInv, <1>1, PTL DEF TelemetrySpec

\* What the pilot reads (battery meters, OSD statistics, splash, motor speeds) is
\* of this power-up, after sitl_local_init as after localRunPendingReboot, and the
\* slowest motor is one that spins, no faster than the average.
THEOREM ReportsAreCurrent == TelemetrySpec => []ReportsAreOfThisPowerUp
<1>1. TelemetryInv => ReportsAreOfThisPowerUp
  <2> SUFFICES ASSUME TelemetryInv PROVE ReportsAreOfThisPowerUp
    OBVIOUS
  <2>1. sitlMotorRpm \in [Motors -> Nat]
    BY DEF TelemetryInv, TelemetryTypeOK
  <2>2. Spinning # {} => MinMotorFrequency > 0 /\ MinMotorFrequency <= DshotRpmAverage
    BY <2>1, SummariesOfSpinning
  <2>3. QED
    BY <2>2 DEF TelemetryInv, MeterInv, FreshInv, ReportsAreOfThisPowerUp
<1>2. QED
  BY TelemetryInvariance, <1>1, PTL
=============================================================================
