--------------------------- MODULE RecorderProofs ---------------------------
(***************************************************************************)
(* What is recorded.  The ring of the burst recorder is a queue for every  *)
(* size of the ring and every speed of its two threads; and the folder of  *)
(* blackbox logs keeps its order and loses nothing but what is pruned, for *)
(* any number of logs, however the threads interleave.                     *)
(***************************************************************************)
EXTENDS BurstRecorder, BlackboxLogs, SequenceTheorems, FunctionTheorems,
        FiniteSetTheorems, WellFoundedInduction, TLAPS

USE DEF Slots

(* The strengthening: the counters differ by what the two indices enclose,  *)
(* the slots enclosed hold the next records in order, and what each thread  *)
(* has found out about the other's index is still true when it acts on it.  *)
RingInv ==
    /\ TypeOK
    /\ pushed = popped + Ahead(gBurstHead)
    /\ \A i \in Slots : Ahead(i) < Ahead(gBurstHead) => gBurstRing[i] = popped + Ahead(i)
    /\ step = "publish" => /\ NextSlot(gBurstHead) # gBurstTail
                           /\ gBurstRing[gBurstHead] = pushed
    /\ drain = "advance" => line = popped /\ gBurstTail # gBurstHead

\* The invariant of the ring holds at start.
LEMMA RingInit == Init => RingInv
BY BurstAssumption DEF Init, RingInv, TypeOK, Ahead

(* Only the step thread's own three actions touch the head or the slots.    *)
LEMMA RingStep ==
    ASSUME RingInv, StepThread PROVE RingInv'
<1> USE BurstAssumption
<1>1. CASE Skip
  BY <1>1 DEF Skip, RingInv, TypeOK, Ahead, ring, drainVars
<1>2. CASE Gate
  BY <1>2 DEF Gate, RingInv, TypeOK, Ahead, ring, drainVars
<1>3. CASE FindFull \/ Drop
  BY <1>3 DEF FindFull, Drop, RingInv, TypeOK, Ahead, ring, drainVars
<1>4. CASE Push
  <2>1. /\ TypeOK' /\ Ahead(gBurstHead)' = Ahead(gBurstHead)
        /\ \A i \in Slots : Ahead(i)' = Ahead(i)
        /\ gBurstRing'[gBurstHead] = pushed
        /\ \A i \in Slots : i # gBurstHead => gBurstRing'[i] = gBurstRing[i]
    BY <1>4 DEF Push, RingInv, TypeOK, Ahead, drainVars
  <2>2. \A i \in Slots : Ahead(i) < Ahead(gBurstHead) => i # gBurstHead
    BY DEF RingInv, TypeOK, Ahead
  <2> QED  BY <1>4, <2>1, <2>2 DEF Push, RingInv, drainVars
<1>5. CASE Publish
  <2>1. TypeOK'
    BY <1>5 DEF Publish, RingInv, TypeOK, NextSlot, drainVars
  <2>2. /\ Ahead(gBurstHead)' = Ahead(gBurstHead) + 1
        /\ \A i \in Slots : Ahead(i)' = Ahead(i)
        /\ \A i \in Slots : Ahead(i) < Ahead(gBurstHead) + 1
                                => i = gBurstHead \/ Ahead(i) < Ahead(gBurstHead)
    BY <1>5 DEF Publish, RingInv, TypeOK, NextSlot, Ahead
  <2>3. gBurstTail # gBurstHead'
    BY <1>5 DEF Publish, RingInv
  <2>4. /\ gBurstRing' = gBurstRing /\ popped' = popped /\ pushed' = pushed + 1
        /\ gBurstTail' = gBurstTail /\ drain' = drain /\ line' = line
        /\ step' = "count"
    BY <1>5 DEF Publish, drainVars
  <2>5. popped \in Nat /\ pushed \in Nat /\ Ahead(gBurstHead) \in Int
        /\ \A i \in Slots : Ahead(i) \in Int
    BY DEF RingInv, TypeOK, Ahead
  <2>6. gBurstRing[gBurstHead] = pushed /\ pushed = popped + Ahead(gBurstHead)
    BY <1>5 DEF Publish, RingInv
  <2>7. \A i \in Slots : Ahead(i)' < Ahead(gBurstHead)' => gBurstRing'[i] = popped' + Ahead(i)'
    BY <2>2, <2>4, <2>5, <2>6 DEF RingInv
  <2>8. pushed' = popped' + Ahead(gBurstHead)'
    BY <2>2, <2>4, <2>5, <2>6
  <2> QED  BY <2>1, <2>3, <2>4, <2>7, <2>8 DEF RingInv
<1>6. CASE Count
  BY <1>6 DEF Count, RingInv, TypeOK, Ahead, ring, drainVars
<1> QED  BY <1>1, <1>2, <1>3, <1>4, <1>5, <1>6 DEF StepThread

(* Only Advance moves the tail.                                             *)
LEMMA RingMsp ==
    ASSUME RingInv, MspThread PROVE RingInv'
<1> USE BurstAssumption
<1>1. CASE SeeWindow \/ OpenLog
  BY <1>1 DEF SeeWindow, OpenLog, RingInv, TypeOK, Ahead, ring, stepVars
<1>2. CASE OpenFails
  BY <1>2 DEF OpenFails, RingInv, TypeOK, Ahead, ring, stepVars
<1>3. CASE Resume
  BY <1>3 DEF Resume, RingInv, TypeOK, Ahead, ring, stepVars
<1>4. CASE WriteLine
  <2>1. gBurstRing[gBurstTail] = popped
    BY <1>4 DEF WriteLine, RingInv, TypeOK, Ahead
  <2> QED  BY <1>4, <2>1 DEF WriteLine, RingInv, TypeOK, Ahead, ring, stepVars
<1>5. CASE Advance
  <2>1. TypeOK' /\ gBurstTail # gBurstHead
    BY <1>5 DEF Advance, RingInv, TypeOK, NextSlot, stepVars
  <2>2. /\ Ahead(gBurstHead)' = Ahead(gBurstHead) - 1
        /\ \A i \in Slots : Ahead(i)' = IF i = gBurstTail THEN RING - 1 ELSE Ahead(i) - 1
        /\ Ahead(gBurstHead) < RING
    BY <1>5 DEF Advance, RingInv, TypeOK, NextSlot, Ahead
  <2>3. step = "publish" => NextSlot(gBurstHead) # gBurstTail'
    BY <1>5, <2>1 DEF Advance, RingInv, TypeOK, NextSlot
  <2>4. /\ gBurstRing' = gBurstRing /\ popped' = popped + 1 /\ pushed' = pushed
        /\ gBurstHead' = gBurstHead /\ step' = step /\ drain' = "loop"
    BY <1>5 DEF Advance, stepVars
  <2>5. popped \in Nat /\ pushed \in Nat /\ Ahead(gBurstHead) \in Int
        /\ \A i \in Slots : Ahead(i) \in Int
    BY DEF RingInv, TypeOK, Ahead
  <2>6. \A i \in Slots : Ahead(i)' < Ahead(gBurstHead)' => gBurstRing'[i] = popped' + Ahead(i)'
    BY <2>2, <2>4, <2>5 DEF RingInv
  <2>7. pushed' = popped' + Ahead(gBurstHead)'
    BY <2>2, <2>4, <2>5 DEF RingInv
  <2> QED  BY <2>1, <2>3, <2>4, <2>6, <2>7 DEF RingInv, NextSlot
<1>6. CASE Drained
  BY <1>6 DEF Drained, RingInv, TypeOK, Ahead, ring, stepVars
<1>7. CASE KeepOrClose
  BY <1>7 DEF KeepOrClose, RingInv, TypeOK, Ahead, ring, stepVars
<1> QED  BY <1>1, <1>2, <1>3, <1>4, <1>5, <1>6, <1>7 DEF MspThread

\* A stutter keeps it.
LEMMA RingStutter ==
    ASSUME RingInv, UNCHANGED vars PROVE RingInv'
BY DEF vars, RingInv, TypeOK, Ahead, ring, stepVars, drainVars

(* The inductive invariant holds in every reachable state.                  *)
THEOREM RingInvariance == Spec => []RingInv
<1>1. Init => RingInv  BY RingInit
<1>2. RingInv /\ [Next]_vars => RingInv'
  BY RingStep, RingMsp, RingStutter DEF Next, StepThread, MspThread
<1> QED  BY <1>1, <1>2, PTL DEF Spec

(* Whatever the size of the ring, the lines of the log are the accepted     *)
(* records, each once and in order, and none is read while it is written.   *)
THEOREM RingFifo == Spec => []RingIsFifo
<1>1. RingInv => RingIsFifo
  BY BurstAssumption DEF RingInv, RingIsFifo, TypeOK, Ahead
<1> QED  BY <1>1, RingInvariance, PTL

(* The step never writes the slot the MSP thread is reading: a step about   *)
(* to publish has written the head slot, which is not the tail slot while   *)
(* a line is being read.                                                    *)
THEOREM NoSlotIsShared ==
    Spec => [](step = "publish" /\ drain = "advance" => gBurstHead # gBurstTail)
<1>1. RingInv => (step = "publish" /\ drain = "advance" => gBurstHead # gBurstTail)
  BY DEF RingInv
<1> QED  BY <1>1, RingInvariance, PTL
-----------------------------------------------------------------------------
(* The bounded queue.  The records that wait are numbered without a gap, so *)
(* what the queue holds is a window of the numbers.                         *)
Window(a, b) == [k \in 1 .. b - a |-> a + (k - 1)]

\* A window is a sequence of numbers.
LEMMA WindowIsSeq ==
    ASSUME NEW a \in Nat, NEW b \in Nat, a <= b
    PROVE  Window(a, b) \in Seq(Nat) /\ Len(Window(a, b)) = b - a
BY DEF Window

(* A record put behind the window is the number after it.                   *)
LEMMA PutWindow ==
    ASSUME NEW a \in Nat, NEW b \in Nat, a <= b
    PROVE  Append(Window(a, b), b) = Window(a, b + 1)
BY DEF Window

(* The oldest record of a window is its first number.                       *)
LEMMA TakeWindow ==
    ASSUME NEW a \in Nat, NEW b \in Nat, a < b
    PROVE  /\ Window(a, b) # <<>>
           /\ Head(Window(a, b)) = a
           /\ Tail(Window(a, b)) = Window(a + 1, b)
<1>1. /\ Window(a, b) \in Seq(Nat) /\ Len(Window(a, b)) = b - a
      /\ Window(a + 1, b) \in Seq(Nat) /\ Len(Window(a + 1, b)) = b - (a + 1)
  <2>1. a + 1 \in Nat /\ a + 1 <= b /\ a <= b
    OBVIOUS
  <2>2. QED
    BY <2>1, WindowIsSeq
<1>2. \A k \in 1 .. b - a : Window(a, b)[k] = a + (k - 1)
  BY DEF Window
<1>3. Window(a, b) # <<>> /\ Head(Window(a, b)) = a
  BY <1>1, <1>2
<1>4. Tail(Window(a, b)) \in Seq(Nat) /\ Len(Tail(Window(a, b))) = b - (a + 1)
  BY <1>1, <1>3
<1>5. \A k \in 1 .. b - (a + 1) : Tail(Window(a, b))[k] = Window(a + 1, b)[k]
  <2> SUFFICES ASSUME NEW k \in 1 .. b - (a + 1)
               PROVE  Tail(Window(a, b))[k] = Window(a + 1, b)[k]
    OBVIOUS
  <2>1. Tail(Window(a, b))[k] = Window(a, b)[k + 1]
    BY <1>1, <1>3
  <2>2. Window(a, b)[k + 1] = a + k
    BY <1>2
  <2>3. Window(a + 1, b)[k] = a + k
    BY DEF Window
  <2>4. QED
    BY <2>1, <2>2, <2>3
<1>6. Tail(Window(a, b)) = Window(a + 1, b)
  BY <1>1, <1>4, <1>5, SeqEqual
<1>7. QED
  BY <1>3, <1>6

(* The slots between the two indices hold the window from the records       *)
(* written to the records accepted, and at most RING - 1 of them.           *)
LEMMA WaitingIsWindow ==
    RingInv => /\ Waiting = Window(popped, pushed)
               /\ popped \in Nat /\ pushed \in Nat
               /\ popped <= pushed /\ pushed - popped = Ahead(gBurstHead)
<1> USE BurstAssumption
<1> SUFFICES ASSUME RingInv
             PROVE  /\ Waiting = Window(popped, pushed)
                    /\ popped \in Nat /\ pushed \in Nat
                    /\ popped <= pushed /\ pushed - popped = Ahead(gBurstHead)
  OBVIOUS
<1>1. /\ popped \in Nat /\ pushed \in Nat
      /\ Ahead(gBurstHead) \in Nat /\ Ahead(gBurstHead) < RING
      /\ pushed - popped = Ahead(gBurstHead)
  BY DEF RingInv, TypeOK, Ahead
<1>2. ASSUME NEW d \in Nat, d < Ahead(gBurstHead)
      PROVE  gBurstRing[SlotAhead(d)] = popped + d
  <2>1. SlotAhead(d) \in Slots /\ Ahead(SlotAhead(d)) = d
    BY <1>1, <1>2 DEF SlotAhead, Ahead, RingInv, TypeOK
  <2>2. QED
    BY <1>2, <2>1 DEF RingInv
<1>3. \A k \in 1 .. Ahead(gBurstHead) :
         gBurstRing[SlotAhead(k - 1)] = popped + (k - 1)
  BY <1>1, <1>2
<1>4. QED
  BY <1>1, <1>3 DEF Waiting, Window

(* Head and tail are a full round apart exactly when the next slot is the   *)
(* tail's.                                                                  *)
LEMMA FullOrNot ==
    ASSUME RingInv
    PROVE  (NextSlot(gBurstHead) = gBurstTail) <=> (Ahead(gBurstHead) = RING - 1)
BY BurstAssumption DEF RingInv, TypeOK, NextSlot, Ahead

(* Every step of the two threads is a step of the queue or a stutter.       *)
LEMMA StepRefines == ASSUME RingInv, RingInv', [Next]_vars PROVE [Q!Next]_(Q!vars)
<1>1. /\ Waiting = Window(popped, pushed)
      /\ popped \in Nat /\ pushed \in Nat /\ popped <= pushed
      /\ pushed - popped = Ahead(gBurstHead)
  BY WaitingIsWindow
<1>2. Waiting' = Window(popped', pushed')
  <2>1. RingInv' => (Waiting = Window(popped, pushed))'
    BY WaitingIsWindow, PTL
  <2>2. QED
    BY <2>1
<1>3. Len(Waiting) = Ahead(gBurstHead)
  BY <1>1, WindowIsSeq
<1>4. CASE Publish
  <2>1. /\ pushed' = pushed + 1 /\ popped' = popped
        /\ line' = line /\ drain' = drain /\ step = "publish" /\ step' = "count"
    BY <1>4 DEF Publish, drainVars
  <2>2. Len(Waiting) < RING - 1
    <3>1. Ahead(gBurstHead) # RING - 1
      BY <2>1, FullOrNot DEF RingInv
    <3>2. Ahead(gBurstHead) \in Int /\ Ahead(gBurstHead) <= RING - 1
      BY BurstAssumption DEF RingInv, TypeOK, Ahead
    <3>3. QED
      BY <1>3, <3>1, <3>2, BurstAssumption
  <2>3. Waiting' = Append(Waiting, pushed)
    BY <1>1, <1>2, <2>1, PutWindow
  <2>4. QED
    BY <2>1, <2>2, <2>3 DEF Q!Next, Q!Put
<1>5. CASE FindFull
  <2>1. /\ step = "push" /\ step' = "drop" /\ UNCHANGED <<pushed, popped, line, drain>>
    BY <1>5 DEF FindFull, ring, drainVars
  <2>2. Len(Waiting) = RING - 1
    BY <1>3, <1>5, FullOrNot DEF FindFull
  <2>3. Waiting' = Waiting
    BY <1>1, <1>2, <2>1
  <2>4. QED
    BY <2>1, <2>2, <2>3 DEF Q!Next, Q!Refuse
<1>6. CASE Drop
  <2>1. /\ step = "drop" /\ step' = "count" /\ UNCHANGED <<pushed, popped, line, drain>>
    BY <1>6 DEF Drop, ring, drainVars
  <2>2. Waiting' = Waiting
    BY <1>1, <1>2, <2>1
  <2>3. QED
    BY <2>1, <2>2 DEF Q!Next, Q!Refused
<1>7. CASE WriteLine
  <2>1. /\ drain = "loop" /\ drain' = "advance"
        /\ UNCHANGED <<pushed, popped, step>>
    BY <1>7 DEF WriteLine, ring, stepVars
  <2>2. line' = popped /\ popped < pushed
    <3>1. line' = popped'
      BY <2>1 DEF RingInv
    <3>2. Ahead(gBurstHead) # 0
      BY <1>7, BurstAssumption DEF WriteLine, RingInv, TypeOK, Ahead
    <3>3. QED
      BY <1>1, <2>1, <3>1, <3>2
  <2>3. Waiting # <<>> /\ Head(Waiting) = line'
    BY <1>1, <2>2, TakeWindow
  <2>4. Waiting' = Waiting
    BY <1>1, <1>2, <2>1
  <2>5. QED
    BY <2>1, <2>3, <2>4 DEF Q!Next, Q!Read
<1>8. CASE Advance
  <2>1. /\ drain = "advance" /\ drain' = "loop" /\ popped' = popped + 1
        /\ UNCHANGED <<pushed, line, step>>
    BY <1>8 DEF Advance, stepVars
  <2>2. popped < pushed
    <3>1. Ahead(gBurstHead) # 0
      BY <2>1, BurstAssumption DEF RingInv, TypeOK, Ahead
    <3>2. QED
      BY <1>1, <3>1
  <2>3. Waiting' = Tail(Waiting)
    BY <1>1, <1>2, <2>1, <2>2, TakeWindow
  <2>4. QED
    BY <2>1, <2>3 DEF Q!Next, Q!Remove
<1>9. CASE /\ UNCHANGED <<pushed, popped, line>>
           /\ (drain' = "advance") = (drain = "advance")
           /\ (step' = "drop") = (step = "drop")
  <2>1. Waiting' = Waiting
    BY <1>1, <1>2, <1>9
  <2>2. QED
    BY <1>9, <2>1 DEF Q!vars
<1>10. QED
  <2>1. CASE Skip \/ Gate \/ Push \/ Count
    BY <1>9, <2>1 DEF Skip, Gate, Push, Count, ring, drainVars
  <2>2. CASE SeeWindow \/ OpenLog \/ OpenFails \/ Resume \/ Drained \/ KeepOrClose
    BY <1>9, <2>2 DEF SeeWindow, OpenLog, OpenFails, Resume, Drained, KeepOrClose, ring, stepVars
  <2>3. CASE UNCHANGED vars
    BY <1>9, <2>3 DEF vars, ring, stepVars, drainVars
  <2>4. QED
    BY <1>4, <1>5, <1>6, <1>7, <1>8, <2>1, <2>2, <2>3 DEF Next

\* The ring starts as the empty queue.
LEMMA InitRefines == Init => Q!Init
<1> SUFFICES ASSUME Init PROVE Q!Init
  OBVIOUS
<1>1. RingInv /\ pushed = 0 /\ popped = 0 /\ line = -1 /\ drain = "top" /\ step = "gate"
  BY RingInit DEF Init
<1>2. Waiting = Window(0, 0)
  BY <1>1, WaitingIsWindow
<1>3. Window(0, 0) = <<>>
  BY DEF Window
<1>4. QED
  BY <1>1, <1>2, <1>3 DEF Q!Init

(* The burst recorder implements the bounded queue, for every size of the   *)
(* ring, of the window and of the rates.                                    *)
THEOREM QueueImplementation == Spec => ImplementsQueue
<1>1. RingInv /\ RingInv' /\ [Next]_vars => [Q!Next]_(Q!vars)
  BY StepRefines
<1>2. QED
  BY InitRefines, RingInvariance, <1>1, PTL DEF Spec, Q!Spec, ImplementsQueue

-----------------------------------------------------------------------------
(* The folder of blackbox logs.                                             *)

HIDE DEF Slots

\* A list of numbers in ascending order
Ascending(l) == \A i, k \in 1 .. Len(l) : i < k => l[i] < l[k]

-----------------------------------------------------------------------------
(* Lists of numbers.                                                        *)

\* Some set of numbers that is not empty has a least element.
LEMMA LeastExists ==
    ASSUME NEW S \in SUBSET Nat, S # {}
    PROVE  \E i \in S : \A j \in S : i <= j
<1>1. PICK i \in S : \A j \in S : <<j, i>> \notin OpToRel(<, Nat)
  BY WFMin, NatLessThanWellFounded, Zenon
<1>2. \A j \in S : ~(j < i)
  BY <1>1, Zenon DEF OpToRel
<1>3. QED
  BY <1>2

\* Two intervals that are the same end at the same number.
LEMMA SameInterval == ASSUME NEW a \in Nat, NEW b \in Nat, 1 .. a = 1 .. b PROVE a = b
<1>1. ASSUME a < b PROVE FALSE
  <2>1. b \in 1 .. b /\ ~(b \in 1 .. a)
    BY <1>1
  <2>2. QED
    BY <2>1
<1>2. ASSUME b < a PROVE FALSE
  <2>1. a \in 1 .. a /\ ~(a \in 1 .. b)
    BY <1>2
  <2>2. QED
    BY <2>1
<1>3. QED
  BY <1>1, <1>2

\* A counter below its bound can be advanced.
LEMMA OneMore ==
    ASSUME NEW n \in Nat, NEW a \in 0 .. n, a < n PROVE a + 1 \in 0 .. n
OBVIOUS

\* The cap of the environment, where there is one, is a cap.
LEMMA EnvCapIsCap == EnvCap >= 0 => EnvCap \in Caps
BY LogConstants DEF LogConstants

\* Log numbers are an initial part of the positive numbers.
LEMMA NumsAreInitial ==
    /\ Cardinality(Nums) \in Nat /\ IsFiniteSet(Nums)
    /\ \A n \in Nums : n \in Nat \ {0} /\ \A m \in 1 .. n : m \in Nums
<1>1. Cardinality(Nums) \in Nat /\ IsFiniteSet(Nums) /\ Nums = 1 .. Cardinality(Nums)
  BY LogConstants, FS_CardinalityType DEF LogConstants
<1> DEFINE N == Cardinality(Nums)
<1> HIDE DEF N
<1>2. N \in Nat /\ Nums = 1 .. N
  BY <1>1 DEF N
<1>3. \A n \in Nums : n \in Nat \ {0} /\ \A m \in 1 .. n : m \in Nums
  BY <1>2
<1>4. QED
  BY <1>1, <1>3

\* A set of log numbers is finite.
LEMMA NumberSets ==
    ASSUME NEW S \in SUBSET Nums
    PROVE  /\ IsFiniteSet(S) /\ Cardinality(S) \in Nat /\ S \in SUBSET (Nat \ {0})
           /\ Cardinality(S) <= Cardinality(Nums)
BY NumsAreInitial, FS_Subset, FS_CardinalityType

\* A set of log numbers that is not empty has a greatest one.
LEMMA GreatestExists ==
    ASSUME NEW S \in SUBSET Nums, S # {}
    PROVE  \E n \in S : \A m \in S : m <= n
<1> DEFINE N == Cardinality(Nums)
           Rest == {N - n : n \in S}
<1>1. N \in Nat /\ Nums = 1 .. N
  BY NumsAreInitial, LogConstants DEF LogConstants
<1> HIDE DEF N
<1>2. Rest \in SUBSET Nat /\ Rest # {}
  <2>1. \A n \in S : N - n \in Nat
    <3>1. S \subseteq 1 .. N
      BY <1>1
    <3>2. QED
      BY <1>1, <3>1
  <2>2. QED
    BY <2>1
<1>3. PICK r \in Rest : \A q \in Rest : r <= q
  BY <1>2, LeastExists
<1>4. PICK n \in S : r = N - n
  BY <1>3
<1>5. ASSUME NEW m \in S PROVE m <= n
  <2>1. r <= N - m
    BY <1>3
  <2>2. QED
    BY <1>1, <1>4, <2>1
<1>6. QED
  BY <1>5

\* Every set of log numbers can be listed in ascending order: take the greatest
\* from the smallest set that cannot.
LEMMA AscendingListExists ==
    ASSUME NEW S \in SUBSET Nums
    PROVE  \E f \in [1 .. Cardinality(S) -> S] :
               \A i, k \in 1 .. Cardinality(S) : i < k => f[i] < f[k]
<1> DEFINE Listable(T) == \E f \in [1 .. Cardinality(T) -> T] :
                             \A i, k \in 1 .. Cardinality(T) : i < k => f[i] < f[k]
           Bad == {T \in SUBSET Nums : ~Listable(T)}
           Sizes == {Cardinality(T) : T \in Bad}
<1>1. SUFFICES ASSUME ~Listable(S) PROVE FALSE
  OBVIOUS
<1>2. Sizes \in SUBSET Nat /\ Sizes # {}
  <2> HIDE DEF Listable
  <2>1. QED
    BY <1>1, NumberSets
<1>3. PICK T \in Bad : \A U \in Bad : Cardinality(T) <= Cardinality(U)
  <2> HIDE DEF Listable
  <2>1. PICK s \in Sizes : \A u \in Sizes : s <= u
    BY <1>2, LeastExists
  <2>2. PICK T \in Bad : s = Cardinality(T)
    BY <2>1
  <2>3. QED
    BY <2>1, <2>2
<1>4. T \in SUBSET Nums /\ IsFiniteSet(T) /\ Cardinality(T) \in Nat /\ T \subseteq Nat
  BY NumberSets
<1>5. T # {}
  <2>1. SUFFICES ASSUME T = {} PROVE Listable(T)
    OBVIOUS
  <2>2. Cardinality(T) = 0
    BY <2>1, FS_EmptySet
  <2>3. [i \in {} |-> i] \in [1 .. 0 -> T] /\ \A i \in 1 .. 0 : FALSE
    OBVIOUS
  <2>4. QED
    BY <2>2, <2>3
<1>6. PICK top \in T : \A m \in T : m <= top
  BY <1>4, <1>5, GreatestExists
<1> DEFINE n == Cardinality(T)
           Fewer == T \ {top}
<1>7. /\ Fewer \in SUBSET Nums /\ n \in Nat \ {0} /\ Cardinality(Fewer) = n - 1
  BY <1>4, <1>5, <1>6, FS_RemoveElement, FS_EmptySet
<1>8. Listable(Fewer)
  <2>1. SUFFICES ASSUME ~Listable(Fewer) PROVE FALSE
    OBVIOUS
  <2>2. Fewer \in Bad
    BY <1>7, <2>1
  <2>3. n <= Cardinality(Fewer)
    BY <1>3, <2>2
  <2> HIDE DEF n, Fewer
  <2>4. QED
    BY <1>7, <2>3
<1>9. PICK f \in [1 .. n - 1 -> Fewer] : \A i, k \in 1 .. n - 1 : i < k => f[i] < f[k]
  BY <1>7, <1>8
<1> DEFINE g == [i \in 1 .. n |-> IF i = n THEN top ELSE f[i]]
<1> HIDE DEF n
<1>10. \A i \in 1 .. n - 1 : f[i] \in T /\ f[i] < top
  <2>1. \A m \in Fewer : m \in T /\ m <= top /\ m # top /\ m \in Nat
    BY <1>4, <1>6
  <2>2. top \in Nat
    BY <1>4, <1>6
  <2> HIDE DEF Fewer
  <2>3. QED
    BY <1>9, <2>1, <2>2
<1>11. g \in [1 .. n -> T]
  BY <1>6, <1>7, <1>10
<1>12. ASSUME NEW i \in 1 .. n, NEW k \in 1 .. n, i < k PROVE g[i] < g[k]
  <2>1. i \in 1 .. n - 1 /\ g[i] = f[i]
    BY <1>7, <1>12
  <2>2. k = n \/ k \in 1 .. n - 1
    BY <1>7
  <2>3. CASE k = n
    BY <1>10, <2>1, <2>3
  <2>4. CASE k # n
    BY <1>9, <1>12, <2>1, <2>2, <2>4
  <2>5. QED
    BY <2>3, <2>4
<1>13. Listable(T)
  <2> HIDE DEF g
  <2>1. QED
    BY <1>11, <1>12 DEF n
<1>14. QED
  BY <1>3, <1>13

\* What a scan collects: every log of the set, once, in ascending order.
LEMMA Collected ==
    ASSUME NEW S \in SUBSET Nums
    PROVE  /\ sitlBlackboxCollect(S) \in Seq(Nums)
           /\ Len(sitlBlackboxCollect(S)) = Cardinality(S)
           /\ Ascending(sitlBlackboxCollect(S))
           /\ \A k \in 1 .. Len(sitlBlackboxCollect(S)) : sitlBlackboxCollect(S)[k] \in S
           /\ \A n \in S : \E k \in 1 .. Len(sitlBlackboxCollect(S)) : sitlBlackboxCollect(S)[k] = n
<1> DEFINE l == sitlBlackboxCollect(S)
           c == Cardinality(S)
<1>1. l \in [1 .. c -> S] /\ \A i, k \in 1 .. c : i < k => l[i] < l[k]
  BY AscendingListExists DEF sitlBlackboxCollect
<1>2. IsFiniteSet(S) /\ c \in Nat /\ S \subseteq Nat
  BY NumberSets
<1> HIDE DEF l, c
<1>3. l \in Seq(Nums)
  <2>1. l \in [1 .. c -> Nums]
    BY <1>1
  <2>2. QED
    BY <1>2, <2>1, SeqDef
<1>4. Len(l) = c
  <2>1. Len(l) \in Nat /\ DOMAIN l = 1 .. Len(l)
    BY <1>3, LenProperties
  <2>2. 1 .. Len(l) = 1 .. c
    BY <1>1, <2>1
  <2>3. QED
    BY <1>2, <2>1, <2>2, SameInterval
<1>5. l \in Surjection(1 .. c, S)
  <2>1. l \in Injection(1 .. c, S)
    <3>1. \A i, k \in 1 .. c : l[i] = l[k] => ~(i < k) /\ ~(k < i)
      <4>1. \A i \in 1 .. c : l[i] \in Nat
        BY <1>1, <1>2
      <4>2. QED
        BY <1>1, <1>2, <4>1
    <3>2. \A i, k \in 1 .. c : l[i] = l[k] => i = k
      BY <1>2, <3>1
    <3>3. QED
      BY <1>1, <3>2 DEF Injection, IsInjective
  <2>2. Cardinality(1 .. c) = c
    BY <1>2, FS_Interval
  <2>3. QED
    BY <1>2, <2>1, <2>2, FS_Injection DEF c
<1>6. \A n \in S : \E k \in 1 .. c : l[k] = n
  BY <1>5 DEF Surjection
<1>7. QED
  BY <1>1, <1>3, <1>4, <1>6 DEF l, c, Ascending

\* No entry of an ascending list is less than its position.
LEMMA PositionBelowEntry ==
    ASSUME NEW l \in Seq(Nums), Ascending(l), NEW k \in 1 .. Len(l)
    PROVE  l[k] \in Nums /\ k <= l[k]
<1> DEFINE Bad == {i \in 1 .. Len(l) : ~(i <= l[i])}
<1>1. Len(l) \in Nat /\ \A i \in 1 .. Len(l) : l[i] \in Nums /\ l[i] \in Nat \ {0}
  BY LenProperties, ElementOfSeq, NumsAreInitial
<1>2. SUFFICES ASSUME ~(k <= l[k]) PROVE FALSE
  BY <1>1
<1>3. Bad \in SUBSET Nat /\ Bad # {}
  BY <1>1, <1>2
<1>4. PICK i \in Bad : \A b \in Bad : i <= b
  BY <1>3, LeastExists
<1>5. i \in 1 .. Len(l) /\ l[i] \in Nat \ {0} /\ l[i] < i
  BY <1>1, <1>4
<1>6. i - 1 \in 1 .. Len(l) /\ i - 1 \notin Bad
  BY <1>1, <1>4, <1>5
<1>7. i - 1 <= l[i - 1] /\ l[i - 1] < l[i] /\ l[i - 1] \in Nat
  BY <1>1, <1>5, <1>6 DEF Ascending
<1>8. QED
  BY <1>5, <1>7

-----------------------------------------------------------------------------
(* The strengthening.                                                       *)

\* Logs in the order of their numbers are in the order of their creation, and
\* the one that is open is the newest of all.
AgeOrder ==
    /\ \A d \in Dirs : \A m, n \in Numbers(d) : m < n => folder[d][m] < folder[d][n]
    /\ \A d \in Dirs, n \in Nums : folder[d][n] <= created
    /\ open \in {0, created}

\* The host works on the folder it has selected, and the open log is not in it.
JobsFit ==
    /\ job["msp"].pc # "seed"
    /\ job["host"].pc # "idle" => job["host"].dir = sitlBlackboxDir
    /\ job["host"].pc \in {"remove", "rename"} => \A n \in Nums : ~Locked(job["host"].dir, n)
    /\ \A t \in Threads : job[t].pc # "idle" => job[t].dir \in Dirs /\ job[t].keep # 0

\* The list of a thread at work, its logs to remove and its place in it
Listed(j) ==
    /\ Ascending(j.logs)
    /\ j.first = 0 \/ j.first < Len(j.logs)
    /\ IF j.pc = "remove" THEN j.i <= j.first + 1 ELSE j.i > j.first /\ j.i <= Len(j.logs) + 1

\* No log that is to stay has gone.
Survive(j) == \A k \in 1 .. Len(j.logs) : k > j.first /\ k >= j.i => folder[j.dir][j.logs[k]] # 0

\* A log in the folder has its new number, or is still to come in the list, or
\* was created since the list was made.
Placed(t, n) ==
    LET j == job[t] IN
    \/ j.pc = "rename" /\ n < Target(j)
    \/ \E k \in 1 .. Len(j.logs) : k >= j.i /\ n = j.logs[k]
    \/ t = "msp" /\ \A k \in 1 .. Len(j.logs) : j.logs[k] <= n

Work(t) == /\ Listed(job[t]) /\ Survive(job[t])
           /\ \A n \in Numbers(job[t].dir) : Placed(t, n)

\* The thread that holds the scan lock is the one at work.
WorkInv == \A t \in Threads : gBlackboxScanLock = t => Work(t)

\* No number above c is in the folder, nor in the MSP thread's list of it.
Covers(c, d) ==
    /\ \A n \in Numbers(d) : n <= c
    /\ gBlackboxScanLock = "msp" /\ job["msp"].dir = d =>
           \A k \in 1 .. Len(job["msp"].logs) : job["msp"].logs[k] <= c

\* A counter that is set is above every log of the folder in use, and so will be
\* the one the host is about to set.
CounterInv ==
    /\ job["host"].pc = "idle" /\ gBlackboxNextNumberValue > 0 =>
           Covers(gBlackboxNextNumberValue, sitlBlackboxDir)
    /\ job["host"].pc = "seed" => /\ job["host"].first <= Len(job["host"].logs)
                                  /\ Covers(Len(job["host"].logs) - job["host"].first, sitlBlackboxDir)

LogInv == LogTypeOK /\ AgeOrder /\ JobsFit /\ WorkInv /\ CounterInv
-----------------------------------------------------------------------------
(* What a step does to the folders.                                         *)

\* Closing a log leaves the ages as they are.
LEMMA AgeFrame ==
    ASSUME AgeOrder, UNCHANGED <<folder, created>>, open' \in {0, open}
    PROVE  AgeOrder'
BY DEF AgeOrder, Numbers

\* Removing a log, too.
LEMMA AgeRemoval ==
    ASSUME LogTypeOK, AgeOrder, UNCHANGED <<created, open>>, created \in Nat,
           \A e \in Dirs, k \in Nums : folder'[e][k] \in {folder[e][k], 0}
    PROVE  AgeOrder'
<1>1. \A d \in Dirs : \A n \in Numbers(d)' : n \in Numbers(d) /\ folder'[d][n] = folder[d][n]
  BY DEF Numbers
<1>2. QED
  BY <1>1 DEF AgeOrder, Numbers

\* What the thread at work has found out stays true while the folder does.
LEMMA WorkFrame ==
    ASSUME NEW t \in Threads, Work(t), job'[t] = job[t], folder' = folder
    PROVE  Work(t)'
BY DEF Work, Listed, Survive, Placed, Numbers, Target

\* A bound on the numbers holds as long as no number grows.
LEMMA CoversFrame ==
    ASSUME NEW c \in Int, NEW d \in Dirs, Covers(c, d),
           \A n \in Numbers(d)' : \E m \in Numbers(d) : n <= m,
           Nums \subseteq Int,
           gBlackboxScanLock' = "msp" => /\ gBlackboxScanLock = "msp"
                                         /\ job'["msp"].dir = job["msp"].dir
                                         /\ job'["msp"].logs = job["msp"].logs
    PROVE  /\ \A n \in Numbers(d)' : n <= c
           /\ gBlackboxScanLock' = "msp" /\ job'["msp"].dir = d =>
                  \A k \in 1 .. Len(job'["msp"].logs) : job'["msp"].logs[k] <= c
<1>1. \A n \in Numbers(d)' : n <= c
  BY DEF Covers, Numbers
<1>2. QED
  BY <1>1 DEF Covers

-----------------------------------------------------------------------------
(* The steps.                                                               *)

\* The facts that hold in every state and that every step needs.
LEMMA LogFacts ==
    ASSUME LogTypeOK
    PROVE  /\ job \in [Threads -> Jobs] /\ gBlackboxScanLock \in Threads \cup {"free"}
           /\ \A t \in Threads : /\ gBlackboxScanLock = t <=> job[t].pc \in {"remove", "rename"}
                                 /\ job[t] \in Jobs /\ Len(job[t].logs) \in Nat
                                 /\ job[t].keep \in Int /\ job[t].first \in Nat /\ job[t].i \in Nat \ {0}
                                 /\ \A k \in 1 .. Len(job[t].logs) : job[t].logs[k] \in Nums
           /\ sitlBlackboxDir \in Dirs /\ created \in Nat /\ open \in Nat
           /\ gBlackboxNextNumberValue \in Nat
           /\ 0 \in Ids /\ NoJob \in Jobs /\ Nums \subseteq Nat
           /\ folder \in [Dirs -> [Nums -> Ids]] /\ Ids \subseteq Nat
<1>1. ASSUME NEW t \in Threads
      PROVE  Len(job[t].logs) \in Nat /\ \A k \in 1 .. Len(job[t].logs) : job[t].logs[k] \in Nums
  <2>1. job[t].logs \in Seq(Nums)
    BY DEF LogTypeOK, Jobs
  <2>2. QED
    BY <2>1, LenProperties, ElementOfSeq
<1>2. sitlBlackboxDir \in Dirs
  BY LogConstants DEF LogTypeOK, sitlBlackboxDir, LogConstants
<1>3. 0 \in Ids /\ Ids \subseteq Nat /\ created \in Nat /\ open \in Nat /\ gBlackboxNextNumberValue \in Nat
  <2>1. created \in Ids /\ open \in Ids /\ gBlackboxNextNumberValue \in Nat
    BY DEF LogTypeOK
  <2>2. Ids \subseteq Nat /\ 0 \in Ids
    BY LogConstants DEF Ids, LogConstants
  <2>3. QED
    BY <2>1, <2>2
<1>4. NoJob \in Jobs
  <2>1. <<>> \in Seq(Nums)
    BY EmptySeq
  <2>2. QED
    BY <2>1 DEF NoJob, Jobs
<1>5. Nums \subseteq Nat
  BY NumsAreInitial
<1>6. ASSUME NEW t \in Threads
      PROVE  /\ job[t] \in Jobs /\ job[t].keep \in Int
             /\ job[t].first \in Nat /\ job[t].i \in Nat \ {0}
  <2>1. job[t] \in Jobs
    BY DEF LogTypeOK
  <2>2. Caps \cup {-1} \subseteq Int
    BY LogConstants DEF LogConstants
  <2>3. QED
    BY <2>1, <2>2 DEF Jobs
<1>7. QED
  BY <1>1, <1>2, <1>3, <1>4, <1>5, <1>6 DEF LogTypeOK

\* A thread that goes on to the next log of its list.
LEMMA NextLog ==
    ASSUME LogTypeOK, NEW t \in Threads, NEW pc \in {"remove", "rename"}, NEW i \in Nat \ {0},
           job[t].pc \in {"remove", "rename"},
           job' = [job EXCEPT ![t] = [@ EXCEPT !.pc = pc, !.i = i]]
    PROVE  /\ job'[t].pc = pc /\ job'[t].i = i /\ job'[t].dir = job[t].dir /\ job'[t].keep = job[t].keep
           /\ job'[t].logs = job[t].logs /\ job'[t].first = job[t].first
           /\ \A u \in Threads : u # t => job'[u] = job[u]
           /\ job' \in [Threads -> Jobs]
           /\ \A u \in Threads : job'[u].pc \in {"remove", "rename"} <=> job[u].pc \in {"remove", "rename"}
<1>1. job \in [Threads -> Jobs] /\ job[t] \in Jobs
  BY LogFacts
<1>2. job'[t] = [job[t] EXCEPT !.pc = pc, !.i = i] /\ \A u \in Threads : u # t => job'[u] = job[u]
  BY <1>1
<1>3. /\ job'[t].pc = pc /\ job'[t].i = i /\ job'[t].dir = job[t].dir /\ job'[t].keep = job[t].keep
      /\ job'[t].logs = job[t].logs /\ job'[t].first = job[t].first
  BY <1>1, <1>2 DEF Jobs
<1>4. job'[t] \in Jobs
  BY <1>1, <1>2 DEF Jobs
<1>5. job' \in [Threads -> Jobs]
  BY <1>1, <1>4
<1>6. QED
  BY <1>2, <1>3, <1>5

\* A thread that takes on new work, or none, does not hold the scan lock.
LEMMA NewJob ==
    ASSUME LogTypeOK, NEW t \in Threads, NEW new \in Jobs, new.pc \notin {"remove", "rename"},
           job[t].pc \notin {"remove", "rename"}, job' = [job EXCEPT ![t] = new],
           gBlackboxScanLock' = gBlackboxScanLock
    PROVE  /\ job' \in [Threads -> Jobs] /\ job'[t] = new /\ gBlackboxScanLock # t
           /\ \A u \in Threads : u # t => job'[u] = job[u]
           /\ \A u \in Threads : gBlackboxScanLock' = u <=> job'[u].pc \in {"remove", "rename"}
<1>1. job \in [Threads -> Jobs] /\ gBlackboxScanLock # t
  BY LogFacts
<1>2. /\ job' \in [Threads -> Jobs] /\ job'[t] = new
      /\ \A u \in Threads : u # t => job'[u] = job[u]
  BY <1>1
<1>3. QED
  BY <1>1, <1>2, LogFacts

\* A start of the housekeeping is a job that waits for the lock.
LEMMA StartedJob ==
    ASSUME NEW d \in Dirs, NEW cap \in Caps
    PROVE  LET new == [NoJob EXCEPT !.pc = "lock", !.dir = d, !.keep = Keep(cap)]
           IN  /\ new \in Jobs /\ new.pc = "lock" /\ new.dir = d /\ new.keep # 0
               /\ new.first = 0 /\ new.logs = <<>>
<1>1. NoJob \in Jobs
  <2>1. <<>> \in Seq(Nums)
    BY EmptySeq
  <2>2. QED
    BY <2>1 DEF NoJob, Jobs
<1>2. Keep(cap) \in Caps \cup {-1} /\ Keep(cap) # 0
  BY LogConstants DEF Keep, LogConstants
<1>3. NoJob.first = 0 /\ NoJob.logs = <<>>
  BY DEF NoJob
<1>4. QED
  BY <1>1, <1>2, <1>3 DEF Jobs

-----------------------------------------------------------------------------
(* The types, whether the numbering has gone wrong or not.                  *)

\* No more logs are to be removed than the list has.
WellListed == \A t \in Threads : job[t].first <= Len(job[t].logs)

\* A scan finds a list of numbers.
LEMMA ScanTypes ==
    ASSUME LogTypeOK, WellListed, NEW t \in Threads, Scan(t)
    PROVE  LogTypeOK' /\ WellListed'
<1> DEFINE d == job[t].dir
<1>1. PICK S \in Tracked(d) :
          LET logs == sitlBlackboxCollect(S)
              keep == job[t].keep
          IN  /\ job' = [job EXCEPT ![t].pc = "remove", ![t].logs = logs, ![t].i = 1,
                           ![t].first = IF keep >= 0 /\ Len(logs) > keep
                                        THEN Len(logs) - keep ELSE 0]
              /\ truncated' = (truncated \/ S # Numbers(d))
  BY DEF Scan
<1>2. /\ gBlackboxScanLock = "free" /\ gBlackboxScanLock' = t /\ tidiedOpen' \in BOOLEAN
      /\ UNCHANGED <<folder, settings, naming, gBlackboxPruneRequest, open, created, calls>>
  BY DEF Scan
<1>3. truncated' \in BOOLEAN
  BY <1>1, Zenon
<1>4. S \in SUBSET Nums
  <2>1. Numbers(d) \in SUBSET Nums
    BY DEF Numbers
  <2>2. QED
    BY <1>1, <2>1 DEF Tracked
<1> DEFINE l == sitlBlackboxCollect(S)
           first == IF job[t].keep >= 0 /\ Len(l) > job[t].keep THEN Len(l) - job[t].keep ELSE 0
<1>5. l \in Seq(Nums) /\ Len(l) \in Nat
  BY <1>4, Collected, NumberSets
<1>6. job' = [job EXCEPT ![t].pc = "remove", ![t].logs = l, ![t].i = 1, ![t].first = first]
  BY <1>1
<1> HIDE DEF l
<1>7. first \in Nat /\ first <= Len(l)
  <2>1. job[t].keep \in Int
    BY LogFacts
  <2>2. QED
    BY <1>5, <2>1
<1> HIDE DEF first
<1>8. /\ job'[t] = [job[t] EXCEPT !.pc = "remove", !.logs = l, !.i = 1, !.first = first]
      /\ \A u \in Threads : u # t => job'[u] = job[u]
  BY <1>6, LogFacts
<1>9. job'[t].pc = "remove" /\ job'[t].logs = l /\ job'[t].first = first
  BY <1>8, LogFacts DEF Jobs
<1>10. job' \in [Threads -> Jobs]
  <2>1. job[t] \in Jobs /\ 1 \in Nat \ {0}
    BY LogFacts
  <2>2. job'[t] \in Jobs
    BY <1>5, <1>7, <1>8, <2>1 DEF Jobs
  <2>3. QED
    BY <1>6, <1>8, <2>2, LogFacts
<1>11. \A u \in Threads : gBlackboxScanLock' = u <=> job'[u].pc \in {"remove", "rename"}
  BY <1>2, <1>8, <1>9, LogFacts DEF Threads
<1>12. LogTypeOK'
  BY <1>2, <1>3, <1>10, <1>11 DEF LogTypeOK, settings, naming
<1>13. WellListed'
  BY <1>7, <1>8, <1>9 DEF WellListed
<1>14. QED
  BY <1>12, <1>13

\* A folder one of whose entries is replaced is a folder.
LEMMA Refiled ==
    ASSUME NEW f \in [Dirs -> [Nums -> Ids]], NEW d, NEW n, NEW id \in Ids
    PROVE  [f EXCEPT ![d][n] = id] \in [Dirs -> [Nums -> Ids]]
<1>1. [f EXCEPT ![d][n] = id] = [f EXCEPT ![d] = [f[d] EXCEPT ![n] = id]]
  OBVIOUS
<1>2. d \in Dirs => [f[d] EXCEPT ![n] = id] \in [Nums -> Ids]
  OBVIOUS
<1>3. QED
  BY <1>1, <1>2

\* A thread at work removes and renames logs, and goes on.
LEMMA WalkTypes ==
    ASSUME LogTypeOK, WellListed, NEW t \in Threads, Prune(t) \/ Pruned(t) \/ Rename(t)
    PROVE  LogTypeOK' /\ WellListed'
<1> DEFINE j == job[t]
<1>1. /\ job \in [Threads -> Jobs] /\ j \in Jobs /\ j.i \in Nat \ {0} /\ j.first \in Nat
      /\ \A k \in 1 .. Len(j.logs) : j.logs[k] \in Nums /\ 0 \in Ids
      /\ j.pc \in {"remove", "rename"} /\ folder \in [Dirs -> [Nums -> Ids]]
  BY LogFacts DEF Prune, Pruned, Rename
<1>2. UNCHANGED <<settings, naming, gBlackboxPruneRequest, gBlackboxScanLock,
                  open, created, calls, history>>
  BY DEF Prune, Pruned, Rename
<1>3. folder' \in [Dirs -> [Nums -> Ids]]
  <2>1. CASE Pruned(t)
    BY <1>1, <2>1 DEF Pruned
  <2>2. CASE Prune(t)
    <3>1. folder' = folder \/ folder' = [folder EXCEPT ![j.dir][j.logs[j.i]] = 0]
      BY <2>2 DEF Prune
    <3>2. 0 \in Ids
      BY LogFacts
    <3>3. [folder EXCEPT ![j.dir][j.logs[j.i]] = 0] \in [Dirs -> [Nums -> Ids]]
      BY <1>1, <3>2, Refiled
    <3>4. QED
      BY <1>1, <3>1, <3>3
  <2>3. CASE Rename(t)
    <3> DEFINE d == j.dir
               n == j.logs[j.i]
               m == Target(j)
    <3>1. \/ folder' = folder
          \/ /\ folder' = [folder EXCEPT ![d][n] = 0, ![d][m] = folder[d][n]]
             /\ folder[d][n] # 0 /\ j.i <= Len(j.logs)
      BY <2>3 DEF Rename
    <3>2. j.i <= Len(j.logs) => n \in Nums
      BY <1>1
    <3> HIDE DEF d, n, m
    <3>3. CASE folder' = [folder EXCEPT ![d][n] = 0, ![d][m] = folder[d][n]] /\ n \in Nums
      <4> DEFINE f == [folder EXCEPT ![d][n] = 0]
      <4>0. 0 \in Ids /\ f \in [Dirs -> [Nums -> Ids]] /\ folder' = [f EXCEPT ![d][m] = folder[d][n]]
        BY <1>1, <3>3, LogFacts, Refiled
      <4> HIDE DEF f
      <4>1. CASE d \in Dirs
        <5>1. folder[d][n] \in Ids
          BY <1>1, <3>3, <4>1
        <5>2. QED
          BY <4>0, <5>1, Refiled
      <4>2. CASE d \notin Dirs
        BY <4>0, <4>2
      <4>3. QED
        BY <4>1, <4>2
    <3>4. QED
      BY <1>1, <3>1, <3>2, <3>3
  <2>4. QED
    BY <2>1, <2>2, <2>3
<1>4. \E pc \in {"remove", "rename"}, i \in Nat \ {0} :
          job' = [job EXCEPT ![t] = [@ EXCEPT !.pc = pc, !.i = i]]
  <2>1. CASE Pruned(t)
    <3>1. job' = [job EXCEPT ![t] = [@ EXCEPT !.pc = "rename", !.i = j.first + 1]]
      BY <2>1 DEF Pruned
    <3>2. j.first + 1 \in Nat \ {0}
      BY <1>1
    <3>3. QED
      BY <3>1, <3>2
  <2>2. CASE Prune(t) \/ Rename(t)
    <3>1. job' = [job EXCEPT ![t].i = @ + 1]
      BY <2>2 DEF Prune, Rename
    <3>2. [j EXCEPT !.pc = j.pc, !.i = j.i + 1] = [j EXCEPT !.i = j.i + 1]
      BY <1>1 DEF Jobs
    <3>3. job' = [job EXCEPT ![t] = [@ EXCEPT !.pc = j.pc, !.i = j.i + 1]]
      BY <1>1, <3>1, <3>2
    <3>4. j.i + 1 \in Nat \ {0}
      BY <1>1
    <3>5. QED
      BY <1>1, <3>3, <3>4
  <2>3. QED
    BY <2>1, <2>2
<1>5. /\ job' \in [Threads -> Jobs] /\ job'[t].logs = j.logs /\ job'[t].first = j.first
      /\ \A u \in Threads : u # t => job'[u] = job[u]
      /\ \A u \in Threads : job'[u].pc \in {"remove", "rename"} <=> job[u].pc \in {"remove", "rename"}
  BY <1>1, <1>4, NextLog
<1>6. LogTypeOK'
  BY <1>2, <1>3, <1>5 DEF LogTypeOK, settings, naming, history
<1>7. WellListed'
  BY <1>5 DEF WellListed
<1>8. QED
  BY <1>6, <1>7

\* The lock is released.
LEMMA RenamedTypes ==
    ASSUME LogTypeOK, WellListed, NEW t \in Threads, Renamed(t)
    PROVE  LogTypeOK' /\ WellListed'
<1> DEFINE j == job[t]
<1>1. /\ job \in [Threads -> Jobs] /\ j \in Jobs /\ NoJob \in Jobs /\ gBlackboxScanLock = t
  BY LogFacts DEF Renamed
<1>2. /\ job' = [job EXCEPT ![t] = IF t = "msp" THEN NoJob ELSE [@ EXCEPT !.pc = "seed"]]
      /\ gBlackboxScanLock' = "free"
      /\ UNCHANGED <<folder, settings, naming, gBlackboxPruneRequest, open, created, calls, history>>
  BY DEF Renamed
<1>3. /\ job'[t] = (IF t = "msp" THEN NoJob ELSE [j EXCEPT !.pc = "seed"])
      /\ \A u \in Threads : u # t => job'[u] = job[u]
  BY <1>1, <1>2
<1>4. [j EXCEPT !.pc = "seed"] \in Jobs
  BY <1>1 DEF Jobs
<1>5. job' \in [Threads -> Jobs]
  BY <1>1, <1>2, <1>3, <1>4
<1>6. \A u \in Threads : job'[u].pc \notin {"remove", "rename"} /\ gBlackboxScanLock' # u
  <2>1. job'[t].pc \notin {"remove", "rename"}
    BY <1>1, <1>3 DEF NoJob, Jobs
  <2>2. \A u \in Threads : u # t => job[u].pc \notin {"remove", "rename"}
    BY <1>1, LogFacts
  <2>3. QED
    BY <1>2, <1>3, <2>1, <2>2 DEF Threads
<1>7. LogTypeOK'
  BY <1>2, <1>5, <1>6 DEF LogTypeOK, settings, naming, history
<1>8. WellListed'
  <2>1. NoJob.first <= Len(NoJob.logs)
    BY EmptySeq DEF NoJob
  <2>2. [j EXCEPT !.pc = "seed"].first = j.first /\ [j EXCEPT !.pc = "seed"].logs = j.logs
    BY <1>1 DEF Jobs
  <2>3. QED
    BY <1>3, <2>1, <2>2 DEF WellListed
<1>9. QED
  BY <1>7, <1>8

\* A job without a list has nothing to remove.
LEMMA NothingToRemove ==
    ASSUME NEW new, new.first = 0, new.logs = <<>>
    PROVE  new.first <= Len(new.logs)
<1>1. Len(<<>>) = 0
  BY EmptySeq
<1>2. QED
  BY <1>1

\* A thread takes on new work, or has done its work.
LEMMA NewJobTypes ==
    ASSUME LogTypeOK, WellListed, NEW t \in Threads, NEW new \in Jobs,
           new.pc \notin {"remove", "rename"}, new.first = 0, new.logs = <<>>,
           job[t].pc \notin {"remove", "rename"}, job' = [job EXCEPT ![t] = new],
           UNCHANGED <<folder, gBlackboxOpenLogName, gBlackboxScanLock, open, created, history>>,
           gBlackboxDir' \in Dirs \cup {""}, gBlackboxMaxLogs' \in Caps,
           gBlackboxNextNumberValue' \in Nat, gBlackboxPruneRequest' \in BOOLEAN,
           calls' \in 0 .. MaxCalls
    PROVE  LogTypeOK' /\ WellListed'
<1>1. /\ job' \in [Threads -> Jobs] /\ job'[t] = new
      /\ \A u \in Threads : u # t => job'[u] = job[u]
      /\ \A u \in Threads : gBlackboxScanLock' = u <=> job'[u].pc \in {"remove", "rename"}
  BY NewJob
<1>2. LogTypeOK'
  BY <1>1 DEF LogTypeOK, history
<1>3. WellListed'
  <2>1. new.first <= Len(new.logs)
    BY NothingToRemove
  <2>2. QED
    BY <1>1, <2>1 DEF WellListed
<1>4. QED
  BY <1>2, <1>3

\* The host's calls.
LEMMA HostTypes ==
    ASSUME LogTypeOK, WellListed, HostCall, gBlackboxDir' \in Dirs \cup {""}, gBlackboxMaxLogs' \in Caps,
           Start("host", sitlBlackboxDir', gBlackboxMaxLogs'),
           UNCHANGED <<folder, naming, gBlackboxPruneRequest, gBlackboxScanLock, open, created, history>>
    PROVE  LogTypeOK' /\ WellListed'
<1>1. sitlBlackboxDir' \in Dirs
  BY LogConstants DEF sitlBlackboxDir, LogConstants
<1> DEFINE new == [NoJob EXCEPT !.pc = "lock", !.dir = sitlBlackboxDir', !.keep = Keep(gBlackboxMaxLogs')]
<1>2. new \in Jobs /\ new.pc = "lock" /\ new.first = 0 /\ new.logs = <<>>
  BY <1>1, StartedJob
<1>3. job' = [job EXCEPT !["host"] = new] /\ job["host"].pc = "idle"
  BY DEF Start, HostCall
<1> HIDE DEF new
<1>4. calls' \in 0 .. MaxCalls
  <2>1. calls \in 0 .. MaxCalls /\ MaxCalls \in Nat
    BY LogConstants DEF LogTypeOK, LogConstants
  <2>2. calls < MaxCalls /\ calls' = calls + 1
    BY DEF HostCall
  <2>3. calls + 1 \in 0 .. MaxCalls
    BY <2>1, <2>2, OneMore
  <2>4. QED
    BY <2>2, <2>3, Zenon
<1>5. /\ gBlackboxNextNumberValue' \in Nat /\ gBlackboxPruneRequest' \in BOOLEAN
      /\ gBlackboxOpenLogName' = gBlackboxOpenLogName
  BY DEF LogTypeOK, naming
<1>6. QED
  BY <1>2, <1>3, <1>4, <1>5, NewJobTypes DEF Threads

\* A call of the host starts its housekeeping on the folder it leaves selected.
LEMMA HostCalls ==
    ASSUME LogTypeOK,
           \/ \E d \in Dirs \cup {""} : sitl_local_set_blackbox_dir(d)
           \/ \E cap \in Caps : sitl_local_set_blackbox_max_logs(cap)
    PROVE  /\ HostCall /\ gBlackboxDir' \in Dirs \cup {""} /\ gBlackboxMaxLogs' \in Caps
           /\ Start("host", sitlBlackboxDir', gBlackboxMaxLogs')
           /\ UNCHANGED <<folder, naming, gBlackboxPruneRequest, gBlackboxScanLock, open, created, history>>
<1>1. gBlackboxDir \in Dirs \cup {""} /\ gBlackboxMaxLogs \in Caps
  BY DEF LogTypeOK
<1>2. ASSUME NEW d \in Dirs \cup {""}, sitl_local_set_blackbox_dir(d)
      PROVE  /\ HostCall /\ gBlackboxDir' \in Dirs \cup {""} /\ gBlackboxMaxLogs' \in Caps
             /\ Start("host", sitlBlackboxDir', gBlackboxMaxLogs')
             /\ UNCHANGED <<folder, naming, gBlackboxPruneRequest, gBlackboxScanLock, open, created, history>>
  BY <1>1, <1>2, EnvCapIsCap DEF sitl_local_set_blackbox_dir, blackboxVirtualOpen,
                                 sitlBlackboxReadMaxLogsSetting
<1>3. ASSUME NEW cap \in Caps, sitl_local_set_blackbox_max_logs(cap)
      PROVE  /\ HostCall /\ gBlackboxDir' \in Dirs \cup {""} /\ gBlackboxMaxLogs' \in Caps
             /\ Start("host", sitlBlackboxDir', gBlackboxMaxLogs')
             /\ UNCHANGED <<folder, naming, gBlackboxPruneRequest, gBlackboxScanLock, open, created, history>>
  <2>1. /\ HostCall /\ gBlackboxMaxLogs' = cap /\ Start("host", sitlBlackboxDir, cap)
        /\ UNCHANGED <<folder, gBlackboxDir, naming, gBlackboxPruneRequest,
                       gBlackboxScanLock, open, created, history>>
    BY <1>3 DEF sitl_local_set_blackbox_max_logs
  <2>2. sitlBlackboxDir' = sitlBlackboxDir
    BY <2>1 DEF sitlBlackboxDir
  <2>3. Start("host", sitlBlackboxDir', gBlackboxMaxLogs')
    BY <2>1, <2>2 DEF Start
  <2>4. QED
    BY <1>1, <2>1, <2>3
<1>4. QED
  BY <1>2, <1>3

\* The flight thread's log, or its failure to open one.
LEMMA FlightTypes ==
    ASSUME LogTypeOK, WellListed, NEW seen \in Tracked(sitlBlackboxDir),
           sitlBlackboxFopen(seen) \/ FopenFails(seen)
    PROVE  LogTypeOK' /\ WellListed'
<1> DEFINE q == sitlBlackboxNextNumber(seen)
           d == sitlBlackboxDir
<1>1. /\ q \in Nums /\ truncated' \in BOOLEAN /\ tidiedOpen' = tidiedOpen
      /\ gBlackboxNextNumberValue' = q
      /\ UNCHANGED <<settings, gBlackboxScanLock, job, calls>>
  BY DEF sitlBlackboxFopen, FopenFails, CanOpen
<1>2. q \in Nat /\ d \in Dirs
  BY <1>1, LogFacts
<1>3. /\ folder' \in [Dirs -> [Nums -> Ids]] /\ open' \in Ids /\ created' \in Ids
      /\ gBlackboxOpenLogName' \in {<<>>} \cup (Dirs \X Nums) /\ gBlackboxPruneRequest' \in BOOLEAN
  <2>1. CASE FopenFails(seen)
    BY <2>1 DEF FopenFails, LogTypeOK
  <2>2. CASE sitlBlackboxFopen(seen)
    <3>1. /\ folder' = [folder EXCEPT ![d][q] = created + 1]
          /\ open' = created + 1 /\ created' = created + 1 /\ created < MaxLogs
          /\ gBlackboxOpenLogName' = <<d, q>> /\ gBlackboxPruneRequest' = TRUE
      BY <2>2 DEF sitlBlackboxFopen
    <3>2. created + 1 \in Ids
      BY <3>1, LogFacts, LogConstants DEF Ids, LogConstants
    <3> HIDE DEF d, q
    <3>3. folder' \in [Dirs -> [Nums -> Ids]]
      <4>1. folder \in [Dirs -> [Nums -> Ids]]
        BY LogFacts
      <4>2. [folder EXCEPT ![d][q] = created + 1] \in [Dirs -> [Nums -> Ids]]
        BY <3>2, <4>1, Refiled
      <4>3. QED
        BY <3>1, <4>2
    <3>4. QED
      BY <1>1, <1>2, <3>1, <3>2, <3>3
  <2>3. QED
    BY <2>1, <2>2
<1> HIDE DEF d, q
<1>4. LogTypeOK'
  BY <1>1, <1>2, <1>3 DEF LogTypeOK, settings
<1>5. WellListed'
  BY <1>1 DEF WellListed
<1>6. QED
  BY <1>4, <1>5

\* Every step keeps the types, and what has gone wrong stays wrong.
LEMMA TypeStep ==
    ASSUME LogTypeOK, WellListed, [LogNext]_logVars
    PROVE  LogTypeOK' /\ WellListed' /\ (Strayed => Strayed')
<1>1. CASE UNCHANGED logVars \/ Close
  <2>1. /\ UNCHANGED <<folder, settings, naming, gBlackboxPruneRequest, gBlackboxScanLock,
                       job, created, calls, history>>
        /\ open' \in {0, open}
    BY <1>1 DEF logVars, settings, naming, history, Close
  <2>2. LogTypeOK'
    BY <2>1, LogFacts DEF LogTypeOK, settings, naming, history
  <2>3. QED
    BY <2>1, <2>2 DEF WellListed, Strayed, history
<1>2. ASSUME NEW t \in Threads, Enforce(t) PROVE LogTypeOK' /\ WellListed' /\ (Strayed => Strayed')
  <2>1. LogTypeOK' /\ WellListed'
    BY <1>2, ScanTypes, WalkTypes, RenamedTypes DEF Enforce
  <2>2. Strayed => Strayed'
    BY <1>2, Zenon DEF Enforce, Scan, Prune, Pruned, Rename, Renamed, Strayed, history
  <2>3. QED
    BY <2>1, <2>2
<1>3. CASE \/ \E d \in Dirs \cup {""} : sitl_local_set_blackbox_dir(d)
           \/ \E cap \in Caps : sitl_local_set_blackbox_max_logs(cap)
  <2>1. /\ HostCall /\ gBlackboxDir' \in Dirs \cup {""} /\ gBlackboxMaxLogs' \in Caps
        /\ Start("host", sitlBlackboxDir', gBlackboxMaxLogs')
        /\ UNCHANGED <<folder, naming, gBlackboxPruneRequest, gBlackboxScanLock, open, created, history>>
    BY <1>3, HostCalls
  <2>2. LogTypeOK' /\ WellListed'
    BY <2>1, HostTypes
  <2>3. Strayed => Strayed'
    BY <2>1 DEF Strayed, history
  <2>4. QED
    BY <2>2, <2>3
<1>4. ASSUME NEW seen \in Tracked(sitlBlackboxDir), sitlBlackboxFopen(seen) \/ FopenFails(seen)
      PROVE  LogTypeOK' /\ WellListed' /\ (Strayed => Strayed')
  <2>1. Strayed => Strayed'
    BY <1>4, Zenon DEF sitlBlackboxFopen, FopenFails, CanOpen, Strayed
  <2>2. QED
    BY <1>4, <2>1, FlightTypes
<1>5. CASE Seed
  <2> DEFINE j == job["host"]
  <2>1. /\ gBlackboxNextNumberValue' = Len(j.logs) - j.first /\ job' = [job EXCEPT !["host"] = NoJob]
        /\ j.pc = "seed"
        /\ UNCHANGED <<folder, settings, gBlackboxOpenLogName, gBlackboxPruneRequest,
                       gBlackboxScanLock, open, created, calls, history>>
    BY <1>5 DEF Seed
  <2>2. NoJob \in Jobs /\ NoJob.pc = "idle" /\ NoJob.first = 0 /\ NoJob.logs = <<>>
    BY LogFacts DEF NoJob
  <2>3. Len(j.logs) - j.first \in Nat
    BY LogFacts DEF WellListed, Threads
  <2>4. /\ gBlackboxDir' \in Dirs \cup {""} /\ gBlackboxMaxLogs' \in Caps
        /\ gBlackboxPruneRequest' \in BOOLEAN /\ calls' \in 0 .. MaxCalls
    BY <2>1 DEF LogTypeOK, settings
  <2> HIDE DEF j
  <2>5. LogTypeOK' /\ WellListed'
    BY <2>1, <2>2, <2>3, <2>4, NewJobTypes DEF Threads, j
  <2>6. QED
    BY <2>1, <2>5 DEF Strayed, history
<1>6. CASE sitlBlackboxRunPendingPrune
  <2> DEFINE new == [NoJob EXCEPT !.pc = "lock", !.dir = sitlBlackboxDir, !.keep = Keep(gBlackboxMaxLogs)]
  <2>1. /\ job' = [job EXCEPT !["msp"] = new] /\ job["msp"].pc = "idle" /\ gBlackboxPruneRequest' = FALSE
        /\ UNCHANGED <<folder, settings, naming, gBlackboxScanLock, open, created, calls, history>>
    BY <1>6 DEF sitlBlackboxRunPendingPrune, Start
  <2>2. new \in Jobs /\ new.pc = "lock" /\ new.first = 0 /\ new.logs = <<>>
    <3>1. sitlBlackboxDir \in Dirs /\ gBlackboxMaxLogs \in Caps
      BY LogFacts DEF LogTypeOK
    <3>2. QED
      BY <3>1, StartedJob
  <2>3. /\ gBlackboxDir' \in Dirs \cup {""} /\ gBlackboxMaxLogs' \in Caps
        /\ gBlackboxNextNumberValue' \in Nat /\ gBlackboxOpenLogName' = gBlackboxOpenLogName
        /\ calls' \in 0 .. MaxCalls
    BY <2>1 DEF LogTypeOK, settings, naming
  <2> HIDE DEF new
  <2>4. LogTypeOK' /\ WellListed'
    BY <2>1, <2>2, <2>3, NewJobTypes DEF Threads
  <2>5. QED
    BY <2>1, <2>4 DEF Strayed, history
<1>7. QED
  BY <1>1, <1>2, <1>3, <1>4, <1>5, <1>6 DEF LogNext

-----------------------------------------------------------------------------
(* The steps, until the numbering goes wrong.                               *)

\* A folder without the open log is still without it when no log comes to it.
LEMMA StillUnlocked ==
    ASSUME NEW d \in Dirs, open' \in {0, open},
           \A n \in Numbers(d)' : \E m \in Numbers(d) : folder'[d][n] = folder[d][m],
           \A n \in Nums : ~Locked(d, n)
    PROVE  \A n \in Nums : ~(folder'[d][n] # 0 /\ folder'[d][n] = open')
<1>1. SUFFICES ASSUME NEW n \in Nums, folder'[d][n] # 0, folder'[d][n] = open' PROVE FALSE
  OBVIOUS
<1>2. n \in Numbers(d)'
  BY <1>1 DEF Numbers
<1>3. PICK m \in Numbers(d) : folder'[d][n] = folder[d][m]
  BY <1>2
<1>4. m \in Nums /\ Locked(d, m)
  BY <1>1, <1>3 DEF Numbers, Locked
<1>5. QED
  BY <1>4

\* What the jobs are to be is not touched by a step that leaves the host's job,
\* the folder selected and the logs of the folders.
LEMMA JobsStayFit ==
    ASSUME JobsFit, sitlBlackboxDir' = sitlBlackboxDir, open' \in {0, open},
           \A d \in Dirs : \A n \in Numbers(d)' : \E m \in Numbers(d) : folder'[d][n] = folder[d][m],
           /\ job'["host"].pc # "idle" =>
                  job["host"].pc # "idle" /\ job'["host"].dir = job["host"].dir
           /\ job'["host"].pc \in {"remove", "rename"} => job["host"].pc \in {"remove", "rename"},
           /\ job'["msp"].pc # "seed"
           /\ \A t \in Threads : job'[t].pc # "idle" => job'[t].dir \in Dirs /\ job'[t].keep # 0
    PROVE  JobsFit'
<1>1. job'["host"].pc # "idle" => job'["host"].dir = sitlBlackboxDir'
  BY DEF JobsFit
<1>2. ASSUME job'["host"].pc \in {"remove", "rename"}
      PROVE  \A n \in Nums : ~Locked(job["host"].dir, n)'
  <2>1. /\ job["host"].pc \in {"remove", "rename"} /\ job["host"].pc # "idle"
        /\ job'["host"].dir = job["host"].dir
    BY <1>2
  <2>2. job["host"].dir \in Dirs /\ \A n \in Nums : ~Locked(job["host"].dir, n)
    BY <2>1 DEF JobsFit, Threads
  <2>3. \A n \in Nums : ~(folder'[job["host"].dir][n] # 0 /\ folder'[job["host"].dir][n] = open')
    BY <2>2, StillUnlocked
  <2>4. QED
    BY <2>1, <2>3 DEF Locked
<1>3. QED
  BY <1>1, <1>2 DEF JobsFit


\* The other thread does not hold the lock that this one takes or holds.
LEMMA ScanStep ==
    ASSUME LogInv, LogTypeOK', ~Strayed', NEW t \in Threads, Scan(t)
    PROVE  LogInv'
<1>0. LogTypeOK /\ AgeOrder /\ JobsFit /\ WorkInv /\ CounterInv
  BY DEF LogInv
<1> DEFINE d == job[t].dir
<1>1. PICK S \in Tracked(d) :
          LET logs == sitlBlackboxCollect(S)
              keep == job[t].keep
          IN  /\ job' = [job EXCEPT ![t].pc = "remove", ![t].logs = logs, ![t].i = 1,
                           ![t].first = IF keep >= 0 /\ Len(logs) > keep
                                        THEN Len(logs) - keep ELSE 0]
              /\ truncated' = (truncated \/ S # Numbers(d))
  BY DEF Scan
<1>2. /\ job[t].pc = "lock" /\ gBlackboxScanLock = "free" /\ gBlackboxScanLock' = t
      /\ UNCHANGED <<folder, settings, naming, gBlackboxPruneRequest, open, created, calls>>
  BY DEF Scan
<1>3. d \in Dirs /\ job[t].keep # 0 /\ job[t].keep \in Int
  BY <1>0, <1>2, LogFacts DEF JobsFit
<1>4. Numbers(d) \in SUBSET Nums
  BY DEF Numbers
<1>5. S = Numbers(d) /\ (t = "host" => \A n \in Nums : ~Locked(d, n))
      /\ truncated' = FALSE /\ tidiedOpen' = FALSE
  BY <1>1, Zenon DEF Scan, Strayed
<1> DEFINE l == sitlBlackboxCollect(S)
           first == IF job[t].keep >= 0 /\ Len(l) > job[t].keep THEN Len(l) - job[t].keep ELSE 0
<1>6. /\ l \in Seq(Nums) /\ Ascending(l) /\ Len(l) \in Nat
      /\ \A k \in 1 .. Len(l) : l[k] \in Numbers(d)
      /\ \A n \in Numbers(d) : \E k \in 1 .. Len(l) : l[k] = n
  <2>1. S \in SUBSET Nums /\ Cardinality(S) \in Nat
    BY <1>4, <1>5, NumberSets
  <2>2. QED
    BY <1>5, <2>1, Collected
<1>7. job' = [job EXCEPT ![t].pc = "remove", ![t].logs = l, ![t].i = 1, ![t].first = first]
  BY <1>1
<1> HIDE DEF l
<1>8. first \in Nat /\ (first = 0 \/ first < Len(l))
  BY <1>3, <1>6
<1> HIDE DEF first
<1>9. /\ job'[t] = [job[t] EXCEPT !.pc = "remove", !.logs = l, !.i = 1, !.first = first]
      /\ \A u \in Threads : u # t => job'[u] = job[u]
  BY <1>0, <1>7, LogFacts
<1>10. /\ job'[t].pc = "remove" /\ job'[t].logs = l /\ job'[t].i = 1 /\ job'[t].first = first
       /\ job'[t].dir = d /\ job'[t].keep = job[t].keep
  BY <1>0, <1>9, LogFacts DEF Jobs
<1>12. AgeOrder'
  BY <1>0, <1>2, AgeFrame
<1>13. sitlBlackboxDir' = sitlBlackboxDir
  BY <1>2 DEF sitlBlackboxDir, settings
<1>14. JobsFit'
  <2>1. folder' = folder /\ open' = open
    BY <1>2
  <2>2. t = "host" => \A n \in Nums : ~Locked(job["host"].dir, n)'
    BY <1>5, <1>10, <2>1 DEF Locked
  <2>3. t # "host" => job'["host"] = job["host"] /\ t = "msp"
    BY <1>9 DEF Threads
  <2>4. job'["host"].pc \in {"remove", "rename"} => \A n \in Nums : ~Locked(job["host"].dir, n)'
    BY <1>0, <2>1, <2>2, <2>3 DEF JobsFit, Locked
  <2>5. /\ job'["msp"].pc # "seed"
        /\ job'["host"].pc # "idle" => job'["host"].dir = sitlBlackboxDir'
        /\ \A u \in Threads : job'[u].pc # "idle" => job'[u].dir \in Dirs /\ job'[u].keep # 0
    BY <1>0, <1>2, <1>3, <1>9, <1>10, <1>13 DEF JobsFit, Threads
  <2>6. QED
    BY <2>4, <2>5 DEF JobsFit
<1>15. Work(t)'
  <2>1. Listed(job'[t])
    BY <1>6, <1>8, <1>10 DEF Listed
  <2>2. Survive(job[t])'
    BY <1>2, <1>6, <1>10 DEF Survive, Numbers
  <2>3. \A n \in Numbers(job[t].dir)' : Placed(t, n)'
    BY <1>2, <1>6, <1>10 DEF Placed, Numbers
  <2>4. QED
    BY <2>1, <2>2, <2>3 DEF Work
<1>16. WorkInv'
  BY <1>2, <1>15 DEF WorkInv
<1>17. CounterInv'
  <2>1. ASSUME NEW c \in Int, Covers(c, sitlBlackboxDir)
        PROVE  /\ \A n \in Numbers(sitlBlackboxDir)' : n <= c
               /\ gBlackboxScanLock' = "msp" /\ job'["msp"].dir = sitlBlackboxDir =>
                      \A k \in 1 .. Len(job'["msp"].logs) : job'["msp"].logs[k] <= c
    <3>1. Numbers(sitlBlackboxDir)' = Numbers(sitlBlackboxDir)
      BY <1>2, <1>13 DEF Numbers
    <3>2. QED
      BY <1>2, <1>6, <1>10, <2>1, <3>1 DEF Covers
  <2>2. t = "host" => job'["host"].pc = "remove"
    BY <1>10
  <2>3. t # "host" => job'["host"] = job["host"]
    BY <1>9 DEF Threads
  <2>4. gBlackboxNextNumberValue' = gBlackboxNextNumberValue /\ gBlackboxNextNumberValue \in Int
    BY <1>0, <1>2, LogFacts DEF naming
  <2>5. Len(job["host"].logs) - job["host"].first \in Int
    BY <1>0, LogFacts DEF Threads
  <2>6. QED
    BY <1>0, <1>13, <2>1, <2>2, <2>3, <2>4, <2>5 DEF CounterInv, Covers
<1>18. QED
  BY <1>12, <1>14, <1>16, <1>17 DEF LogInv

\* The path of the open log is never the name in a scan.
LEMMA NeverTheOpenName ==
    ASSUME LogTypeOK, NEW n PROVE ~IsOpenLog(n)
<1>1. gBlackboxOpenLogName = <<>> \/ \E d \in Dirs, m \in Nums : gBlackboxOpenLogName = <<d, m>>
  <2>1. gBlackboxOpenLogName \in {<<>>} \cup (Dirs \X Nums)
    BY DEF LogTypeOK
  <2>2. QED
    BY <2>1
<1>2. QED
  BY <1>1 DEF IsOpenLog

\* A log in the list that is open belongs to the MSP thread's job, and no log to
\* be kept has a higher number.
LEMMA OpenIsNewest ==
    ASSUME LogInv, NEW t \in Threads, gBlackboxScanLock = t, job[t].i <= Len(job[t].logs),
           Locked(job[t].dir, job[t].logs[job[t].i])
    PROVE  /\ t = "msp"
           /\ \A k \in 1 .. Len(job[t].logs) :
                  k > job[t].first => job[t].logs[k] <= job[t].logs[job[t].i]
<1> DEFINE d == job[t].dir
           l == job[t].logs
           i == job[t].i
<1>1. /\ LogTypeOK /\ AgeOrder /\ JobsFit /\ Work(t) /\ job[t].pc \in {"remove", "rename"}
      /\ Len(l) \in Nat /\ i \in 1 .. Len(l) /\ \A k \in 1 .. Len(l) : l[k] \in Nums /\ l[k] \in Nat
      /\ created \in Nat
  BY LogFacts DEF LogInv, WorkInv
<1>2. folder[d][l[i]] = open /\ open # 0 /\ open = created
  BY <1>1 DEF Locked, AgeOrder
<1>3. t = "msp" /\ d \in Dirs
  BY <1>1, <1>2 DEF JobsFit, Threads
<1>4. ASSUME NEW k \in 1 .. Len(l), k > job[t].first, ~(l[k] <= l[i]) PROVE FALSE
  <2>1. ~(k < i) /\ k # i
    BY <1>1, <1>4 DEF Work, Listed, Ascending
  <2>2. folder[d][l[k]] # 0
    BY <1>1, <1>4, <2>1 DEF Work, Survive
  <2>3. l[k] \in Numbers(d) /\ l[i] \in Numbers(d)
    BY <1>1, <1>2, <2>2 DEF Numbers
  <2>a. l[i] < l[k]
    BY <1>1, <1>4
  <2>4. folder[d][l[i]] < folder[d][l[k]] /\ folder[d][l[k]] <= created
    BY <1>1, <1>3, <2>3, <2>a DEF AgeOrder, Numbers
  <2>5. folder[d][l[k]] \in Nat
    <3>1. folder \in [Dirs -> [Nums -> Ids]] /\ Ids \subseteq Nat
      BY <1>1, LogFacts
    <3>2. QED
      BY <1>1, <1>3, <3>1
  <2>6. QED
    BY <1>1, <1>2, <2>4, <2>5
<1>5. QED
  BY <1>3, <1>4

\* What every step along the list leaves as it is: the types, the other thread
\* and, as long as no number grows, the counter.
LEMMA AlongTheList ==
    ASSUME LogInv, LogTypeOK', NEW t \in Threads, gBlackboxScanLock = t,
           UNCHANGED <<settings, naming, gBlackboxPruneRequest, gBlackboxScanLock,
                       open, created, calls, history>>,
           folder' \in [Dirs -> [Nums -> Ids]],
           \A d \in Dirs : \A n \in Numbers(d)' :
               \E m \in Numbers(d) : n <= m /\ folder'[d][n] = folder[d][m],
           AgeOrder', Work(t)',
           /\ job'[t].pc \in {"remove", "rename"} /\ job'[t].dir = job[t].dir
           /\ job'[t].keep = job[t].keep /\ job'[t].logs = job[t].logs
           /\ \A u \in Threads : u # t => job'[u] = job[u]
           /\ job' \in [Threads -> Jobs]
           /\ \A u \in Threads : job'[u].pc \in {"remove", "rename"} <=> job[u].pc \in {"remove", "rename"}
    PROVE  LogInv'
<1>0. LogTypeOK /\ JobsFit /\ WorkInv /\ CounterInv
  BY DEF LogInv
<1>2. sitlBlackboxDir' = sitlBlackboxDir /\ sitlBlackboxDir \in Dirs
  BY <1>0, LogFacts DEF sitlBlackboxDir, settings
<1>3. job[t].pc \in {"remove", "rename"}
  BY <1>0, LogFacts
<1>4. JobsFit'
  <2>1. \A d \in Dirs : \A n \in Numbers(d)' : \E m \in Numbers(d) : folder'[d][n] = folder[d][m]
    OBVIOUS
  <2>2. /\ job'["host"].pc # "idle" =>
               job["host"].pc # "idle" /\ job'["host"].dir = job["host"].dir
        /\ job'["host"].pc \in {"remove", "rename"} => job["host"].pc \in {"remove", "rename"}
    BY <1>3 DEF Threads
  <2>3. /\ job'["msp"].pc # "seed"
        /\ \A u \in Threads : job'[u].pc # "idle" => job'[u].dir \in Dirs /\ job'[u].keep # 0
    BY <1>0, <1>3 DEF JobsFit, Threads
  <2>4. open' \in {0, open}
    OBVIOUS
  <2>5. QED
    BY <1>0, <1>2, <2>1, <2>2, <2>3, <2>4, JobsStayFit
<1>5. WorkInv'
  BY DEF WorkInv
<1>6. ASSUME NEW c \in Int, Covers(c, sitlBlackboxDir)
      PROVE  /\ \A n \in Numbers(sitlBlackboxDir)' : n <= c
             /\ gBlackboxScanLock' = "msp" /\ job'["msp"].dir = sitlBlackboxDir =>
                    \A k \in 1 .. Len(job'["msp"].logs) : job'["msp"].logs[k] <= c
  <2>1. Nums \subseteq Nat
    BY <1>0, LogFacts
  <2>2. \A n \in Numbers(sitlBlackboxDir)' : n <= c
    BY <1>2, <1>6, <2>1 DEF Covers, Numbers
  <2>3. QED
    BY <1>6, <2>2 DEF Covers
<1>7. CounterInv'
  <2>1. t = "host" => job'["host"].pc \notin {"idle", "seed"}
    OBVIOUS
  <2>2. t # "host" => job'["host"] = job["host"]
    BY DEF Threads
  <2>3. gBlackboxNextNumberValue' = gBlackboxNextNumberValue /\ gBlackboxNextNumberValue \in Int
    BY <1>0, LogFacts DEF naming
  <2>4. Len(job["host"].logs) - job["host"].first \in Int
    BY <1>0, LogFacts DEF Threads
  <2>5. QED
    BY <1>0, <1>2, <1>6, <2>1, <2>2, <2>3, <2>4 DEF CounterInv, Covers
<1>8. QED
  BY <1>4, <1>5, <1>7 DEF LogInv

\* Pruning removes the log at hand, which is never the open one.
LEMMA PruneStep ==
    ASSUME LogInv, LogTypeOK', NEW t \in Threads, Prune(t)
    PROVE  LogInv'
<1> DEFINE j == job[t]
           d == j.dir
           l == j.logs
           i == j.i
<1>1. /\ LogTypeOK /\ AgeOrder /\ JobsFit /\ j.pc = "remove" /\ i <= j.first
      /\ gBlackboxScanLock = t /\ Work(t) /\ d \in Dirs
      /\ Len(l) \in Nat /\ \A k \in 1 .. Len(l) : l[k] \in Nums
      /\ i \in Nat \ {0} /\ j.first \in Nat /\ Nums \subseteq Nat /\ 0 \in Ids
  BY LogFacts DEF Prune, LogInv, WorkInv, JobsFit
<1>2. /\ Ascending(l) /\ j.first < Len(l) /\ i \in 1 .. Len(l) /\ j.first + 1 \in 1 .. Len(l)
  BY <1>1 DEF Work, Listed
<1>n. \A k \in 1 .. Len(l) : l[k] \in Nat
  BY <1>1
<1>3. ~Locked(d, l[i])
  <2>1. SUFFICES ASSUME Locked(d, l[i]) PROVE FALSE
    OBVIOUS
  <2>2. l[j.first + 1] <= l[i]
    <3>1. \A k \in 1 .. Len(l) : k > j.first => l[k] <= l[i]
      BY <1>1, <1>2, <2>1, OpenIsNewest
    <3>2. j.first + 1 > j.first
      BY <1>1
    <3>3. QED
      BY <1>2, <3>1, <3>2
  <2>3. l[i] < l[j.first + 1]
    BY <1>1, <1>2 DEF Ascending
  <2>4. l[i] \in Nat /\ l[j.first + 1] \in Nat
    BY <1>2, <1>n
  <2>5. QED
    BY <2>2, <2>3, <2>4
<1>4. /\ folder' = [folder EXCEPT ![d][l[i]] = 0]
      /\ job' = [job EXCEPT ![t].i = @ + 1]
      /\ UNCHANGED <<settings, naming, gBlackboxPruneRequest, gBlackboxScanLock,
                     open, created, calls, history>>
  BY <1>1, <1>3, NeverTheOpenName DEF Prune
<1>5. /\ folder' \in [Dirs -> [Nums -> Ids]]
      /\ \A e \in Dirs, k \in Nums : folder'[e][k] = IF e = d /\ k = l[i] THEN 0 ELSE folder[e][k]
  <2>1. folder \in [Dirs -> [Nums -> Ids]] /\ d \in Dirs /\ l[i] \in Nums /\ 0 \in Ids
    BY <1>1, <1>2, LogFacts
  <2>2. folder' = [folder EXCEPT ![d][l[i]] = 0]
    BY <1>4
  <2> HIDE DEF d, l, i
  <2>3. QED
    BY <2>1, <2>2
<1>6. /\ job'[t].pc = "remove" /\ job'[t].i = i + 1 /\ job'[t].dir = d /\ job'[t].keep = j.keep
      /\ job'[t].logs = l /\ job'[t].first = j.first
      /\ \A u \in Threads : u # t => job'[u] = job[u]
      /\ job' \in [Threads -> Jobs]
      /\ \A u \in Threads : job'[u].pc \in {"remove", "rename"} <=> job[u].pc \in {"remove", "rename"}
  <2>1. job' = [job EXCEPT ![t] = [@ EXCEPT !.pc = "remove", !.i = i + 1]]
    <3>1. job \in [Threads -> Jobs] /\ j \in Jobs
      BY <1>1, LogFacts
    <3>2. [j EXCEPT !.pc = "remove", !.i = i + 1] = [j EXCEPT !.i = i + 1]
      BY <1>1, <3>1 DEF Jobs
    <3>3. QED
      BY <1>4, <3>1, <3>2
  <2>2. i + 1 \in Nat \ {0}
    BY <1>1
  <2>3. QED
    BY <1>1, <2>1, <2>2, NextLog
<1>7. \A e \in Dirs : \A n \in Numbers(e)' : n \in Numbers(e) /\ ~(e = d /\ n = l[i])
  BY <1>5 DEF Numbers
<1>8. \A e \in Dirs : \A n \in Numbers(e)' :
          \E m \in Numbers(e) : n <= m /\ folder'[e][n] = folder[e][m]
  <2>1. ASSUME NEW e \in Dirs, NEW n \in Numbers(e)'
        PROVE  n \in Numbers(e) /\ n <= n /\ folder'[e][n] = folder[e][n]
    <3>1. n \in Numbers(e) /\ ~(e = d /\ n = l[i]) /\ n \in Nums
      BY <1>7 DEF Numbers
    <3>2. QED
      BY <1>1, <1>5, <3>1
  <2>2. QED
    BY <2>1
<1>9. AgeOrder'
  <2>1. created \in Nat /\ UNCHANGED <<created, open>>
    BY <1>1, <1>4, LogFacts
  <2>2. \A e \in Dirs, k \in Nums : folder'[e][k] \in {folder[e][k], 0}
    BY <1>5
  <2>3. QED
    BY <1>1, <2>1, <2>2, AgeRemoval
<1>10. Work(t)'
  <2>1. Listed(job[t])'
    BY <1>1, <1>2, <1>6 DEF Listed
  <2>2. Survive(job[t])'
    <3>1. ASSUME NEW k \in 1 .. Len(l), k > j.first, k >= i + 1 PROVE folder'[d][l[k]] # 0
      <4>1. k >= i /\ i < k
        BY <1>1, <3>1
      <4>2. folder[d][l[k]] # 0
        BY <1>1, <3>1, <4>1 DEF Work, Survive
      <4>3. l[i] < l[k]
        BY <1>2, <4>1 DEF Ascending
      <4>4. l[i] # l[k]
        BY <1>2, <1>n, <4>3
      <4>5. QED
        BY <1>1, <1>5, <4>2, <4>4
    <3>2. QED
      BY <1>6, <3>1 DEF Survive
  <2>3. ASSUME NEW n \in Nums, folder'[d][n] # 0 PROVE Placed(t, n)'
    <3>1. n \in Numbers(d) /\ n # l[i]
      BY <1>1, <1>5, <2>3 DEF Numbers
    <3>2. Placed(t, n)
      BY <1>1, <3>1 DEF Work
    <3>3. CASE \E k \in 1 .. Len(l) : k >= i /\ n = l[k]
      <4>1. PICK k \in 1 .. Len(l) : k >= i /\ n = l[k]
        BY <3>3
      <4>2. k >= i + 1
        BY <1>1, <3>1, <4>1
      <4>3. QED
        BY <1>6, <4>1, <4>2 DEF Placed
    <3>4. QED
      BY <1>1, <1>6, <3>2, <3>3 DEF Placed
  <2>4. QED
    BY <1>6, <2>1, <2>2, <2>3 DEF Work, Numbers
<1>11. QED
  BY <1>1, <1>4, <1>5, <1>6, <1>8, <1>9, <1>10, AlongTheList

\* After the last removal the renaming starts at the first log that stays.
LEMMA PrunedStep ==
    ASSUME LogInv, LogTypeOK', NEW t \in Threads, Pruned(t)
    PROVE  LogInv'
<1> DEFINE j == job[t]
<1>1. /\ LogTypeOK /\ AgeOrder /\ j.pc = "remove" /\ j.i > j.first
      /\ gBlackboxScanLock = t /\ Work(t)
      /\ Len(j.logs) \in Nat /\ j.i \in Nat \ {0} /\ j.first \in Nat /\ Nums \subseteq Nat
      /\ folder \in [Dirs -> [Nums -> Ids]]
  BY LogFacts DEF Pruned, LogInv, WorkInv
<1>2. /\ job' = [job EXCEPT ![t].pc = "rename", ![t].i = j.first + 1]
      /\ UNCHANGED <<folder, settings, naming, gBlackboxPruneRequest, gBlackboxScanLock,
                     open, created, calls, history>>
  BY DEF Pruned
<1>3. /\ job'[t].pc = "rename" /\ job'[t].i = j.first + 1 /\ job'[t].dir = j.dir
      /\ job'[t].keep = j.keep /\ job'[t].logs = j.logs /\ job'[t].first = j.first
      /\ \A u \in Threads : u # t => job'[u] = job[u]
      /\ job' \in [Threads -> Jobs]
      /\ \A u \in Threads : job'[u].pc \in {"remove", "rename"} <=> job[u].pc \in {"remove", "rename"}
  <2>1. job' = [job EXCEPT ![t] = [@ EXCEPT !.pc = "rename", !.i = j.first + 1]]
    BY <1>2
  <2>2. j.first + 1 \in Nat \ {0}
    BY <1>1
  <2>3. QED
    BY <1>1, <2>1, <2>2, NextLog
<1>4. j.i = j.first + 1
  BY <1>1 DEF Work, Listed
<1>5. Work(t)'
  <2>1. Listed(job[t])'
    BY <1>1, <1>3 DEF Work, Listed
  <2>2. Survive(job[t])'
    BY <1>1, <1>2, <1>3, <1>4 DEF Work, Survive
  <2>3. \A n \in Numbers(j.dir) : Placed(t, n)'
    BY <1>1, <1>3, <1>4 DEF Work, Placed
  <2>4. QED
    BY <1>2, <1>3, <2>1, <2>2, <2>3 DEF Work, Numbers
<1>6. AgeOrder'
  BY <1>1, <1>2, AgeFrame
<1>7. \A e \in Dirs : \A n \in Numbers(e)' :
          \E m \in Numbers(e) : n <= m /\ folder'[e][n] = folder[e][m]
  BY <1>1, <1>2 DEF Numbers
<1>8. QED
  BY <1>1, <1>2, <1>3, <1>5, <1>6, <1>7, AlongTheList

\* The new number of a log is not above its old one, and free; no log of the
\* folder lies between the two.
LEMMA TargetIsFree ==
    ASSUME LogInv, NEW t \in Threads, job[t].pc = "rename", job[t].i <= Len(job[t].logs)
    PROVE  LET j == job[t]
               n == j.logs[j.i]
           IN  /\ n \in Nums /\ Target(j) \in Nums /\ Target(j) <= n /\ folder[j.dir][n] # 0
               /\ \A p \in Numbers(j.dir) : p < Target(j) \/ p >= n
               /\ Target(j) = n \/ folder[j.dir][Target(j)] = 0
<1> DEFINE j == job[t]
           l == j.logs
           i == j.i
           n == l[i]
           m == i - j.first
<1>1. /\ LogTypeOK /\ gBlackboxScanLock = t /\ Work(t) /\ j.pc = "rename" /\ j.logs \in Seq(Nums)
      /\ Len(l) \in Nat /\ \A k \in 1 .. Len(l) : l[k] \in Nums /\ l[k] \in Nat
      /\ i \in 1 .. Len(l) /\ j.first \in Nat /\ Nums \subseteq Nat
  BY LogFacts DEF LogInv, WorkInv, Jobs
<1>2. Ascending(l) /\ i > j.first
  BY <1>1 DEF Work, Listed
<1>3. i <= n /\ n \in Nums /\ n \in Nat
  BY <1>1, <1>2, PositionBelowEntry
<1>4. m \in 1 .. n /\ m \in Nums
  <2>1. m \in 1 .. n
    BY <1>1, <1>2, <1>3
  <2>2. QED
    BY <1>3, <2>1, NumsAreInitial
<1>5. folder[j.dir][n] # 0
  <2>1. i \in 1 .. Len(l) /\ i > j.first /\ i >= i
    BY <1>1, <1>2
  <2>2. \A k \in 1 .. Len(l) : k > j.first /\ k >= i => folder[j.dir][l[k]] # 0
    BY <1>1 DEF Work, Survive
  <2>3. QED
    BY <2>1, <2>2
<1>6. ASSUME NEW p \in Numbers(j.dir) PROVE p < m \/ p >= n
  <2>1. Placed(t, p) /\ p \in Nat
    BY <1>1 DEF Work, Numbers
  <2>2. ASSUME NEW k \in 1 .. Len(l), k >= i, p = l[k] PROVE p >= n
    <3>1. k = i \/ l[i] < l[k]
      BY <1>1, <1>2, <2>2 DEF Ascending
    <3>2. QED
      BY <1>1, <2>2, <3>1
  <2>3. ASSUME \A k \in 1 .. Len(l) : l[k] <= p PROVE p >= n
    BY <1>1, <1>3, <2>1, <2>3
  <2>4. QED
    BY <2>1, <2>2, <2>3 DEF Placed, Target
<1>7. m = n \/ folder[j.dir][m] = 0
  <2>1. SUFFICES ASSUME folder[j.dir][m] # 0 PROVE m = n
    OBVIOUS
  <2>2. m \in Numbers(j.dir)
    BY <1>4, <2>1 DEF Numbers
  <2>3. m < m \/ m >= n
    BY <1>6, <2>2
  <2>4. QED
    BY <1>3, <1>4, <2>3
<1>8. m <= n
  BY <1>3, <1>4
<1>9. QED
  BY <1>3, <1>4, <1>5, <1>6, <1>7, <1>8 DEF Target

\* Renaming closes the gap below the log at hand, unless the log is open: then it
\* is the last one.
LEMMA RenameStep ==
    ASSUME LogInv, LogTypeOK', NEW t \in Threads, Rename(t)
    PROVE  LogInv'
<1> DEFINE j == job[t]
           d == j.dir
           l == j.logs
           i == j.i
           n == l[i]
           m == Target(j)
<1>1. /\ LogTypeOK /\ AgeOrder /\ JobsFit /\ j.pc = "rename" /\ i <= Len(l)
      /\ gBlackboxScanLock = t /\ Work(t) /\ d \in Dirs
      /\ Len(l) \in Nat /\ \A k \in 1 .. Len(l) : l[k] \in Nums /\ l[k] \in Nat
      /\ i \in 1 .. Len(l) /\ j.first \in Nat /\ Nums \subseteq Nat /\ 0 \in Ids
      /\ folder \in [Dirs -> [Nums -> Ids]]
  <2>1. LogTypeOK /\ AgeOrder /\ JobsFit /\ WorkInv /\ j.pc = "rename" /\ i <= Len(l)
    BY DEF Rename, LogInv
  <2>2. /\ gBlackboxScanLock = t /\ d \in Dirs /\ i \in Nat \ {0} /\ j.first \in Nat
        /\ Len(l) \in Nat /\ \A k \in 1 .. Len(l) : l[k] \in Nums
        /\ Nums \subseteq Nat /\ 0 \in Ids /\ folder \in [Dirs -> [Nums -> Ids]]
    BY <2>1, LogFacts DEF JobsFit
  <2>3. Work(t)
    BY <2>1, <2>2 DEF WorkInv
  <2>4. i \in 1 .. Len(l)
    BY <2>1, <2>2
  <2>5. QED
    BY <2>1, <2>2, <2>3, <2>4
<1>2. Ascending(l) /\ i > j.first
  BY <1>1 DEF Work, Listed
<1>3. /\ n \in Nums /\ m \in Nums /\ m <= n /\ folder[d][n] # 0
      /\ \A p \in Numbers(d) : p < m \/ p >= n
      /\ m = n \/ folder[d][m] = 0
  BY <1>1, TargetIsFree
<1>a. n \in Nat /\ m \in Nat
  BY <1>1, <1>3
<1>4. /\ IF n = m \/ Locked(d, n) THEN UNCHANGED folder
         ELSE folder' = [folder EXCEPT ![d][n] = 0, ![d][m] = folder[d][n]]
      /\ job' = [job EXCEPT ![t].i = @ + 1]
      /\ UNCHANGED <<settings, naming, gBlackboxPruneRequest, gBlackboxScanLock,
                     open, created, calls, history>>
  BY <1>1, <1>3, NeverTheOpenName DEF Rename
<1>5. /\ job'[t].pc = "rename" /\ job'[t].i = i + 1 /\ job'[t].dir = d /\ job'[t].keep = j.keep
      /\ job'[t].logs = l /\ job'[t].first = j.first
      /\ \A u \in Threads : u # t => job'[u] = job[u]
      /\ job' \in [Threads -> Jobs]
      /\ \A u \in Threads : job'[u].pc \in {"remove", "rename"} <=> job[u].pc \in {"remove", "rename"}
  <2>1. job' = [job EXCEPT ![t] = [@ EXCEPT !.pc = "rename", !.i = i + 1]]
    <3>1. job \in [Threads -> Jobs] /\ j \in Jobs
      BY <1>1, LogFacts
    <3>2. [j EXCEPT !.pc = "rename", !.i = i + 1] = [j EXCEPT !.i = i + 1]
      BY <1>1, <3>1 DEF Jobs
    <3>3. QED
      BY <1>4, <3>1, <3>2
  <2>2. i + 1 \in Nat \ {0}
    BY <1>1
  <2>3. QED
    BY <1>1, <2>1, <2>2, NextLog
<1>6. Target(job'[t]) = m + 1
  BY <1>1, <1>5 DEF Target
<1>7. Listed(job'[t])
  BY <1>1, <1>2, <1>5 DEF Listed
<1>8. ASSUME NEW p \in Numbers(d), p # n PROVE Placed(t, p)'
  <2>1. Placed(t, p) /\ p \in Nat
    BY <1>1, <1>8 DEF Work, Numbers
  <2>2. ASSUME NEW k \in 1 .. Len(l), k >= i, p = l[k] PROVE Placed(t, p)'
    <3>1. k >= i + 1
      BY <1>1, <1>8, <2>2
    <3>2. QED
      BY <1>5, <2>2, <3>1 DEF Placed
  <2>3. ASSUME p < m PROVE Placed(t, p)'
    <3>1. p < m + 1
      BY <1>a, <2>1, <2>3
    <3>2. QED
      BY <1>5, <1>6, <3>1 DEF Placed
  <2>4. ASSUME t = "msp", \A k \in 1 .. Len(l) : l[k] <= p PROVE Placed(t, p)'
    BY <1>5, <2>4 DEF Placed
  <2>5. QED
    BY <2>1, <2>2, <2>3, <2>4 DEF Placed
<1>9. CASE n = m \/ Locked(d, n)
  <2>1. folder' = folder
    BY <1>4, <1>9
  <2>2. ASSUME NEW p \in Nums, p = n PROVE Placed(t, p)'
    <3>1. CASE n = m
      <4>1. p < m + 1
        BY <1>a, <2>2, <3>1
      <4>2. QED
        BY <1>5, <1>6, <4>1 DEF Placed
    <3>2. CASE Locked(d, n)
      <4>1. t = "msp" /\ \A k \in 1 .. Len(l) : k > j.first => l[k] <= n
        BY <1>1, <3>2, OpenIsNewest
      <4>2. ASSUME NEW k \in 1 .. Len(l), ~(k > j.first) PROVE l[k] <= n
        <5>1. k < i
          BY <1>1, <1>2, <4>2
        <5>2. l[k] < l[i]
          BY <1>1, <1>2, <5>1 DEF Ascending
        <5>3. QED
          BY <1>1, <5>2
      <4>3. QED
        BY <1>5, <2>2, <4>1, <4>2 DEF Placed
    <3>3. QED
      BY <1>9, <3>1, <3>2
  <2>3. Survive(job[t])'
    <3>1. \A k \in 1 .. Len(l) : k >= i + 1 => k >= i
      BY <1>1
    <3>2. QED
      BY <1>1, <1>5, <2>1, <3>1 DEF Work, Survive
  <2>4. Work(t)'
    <3>1. \A p \in Numbers(d) : Placed(t, p)'
      BY <1>8, <2>2 DEF Numbers
    <3>2. QED
      BY <1>5, <1>7, <2>1, <2>3, <3>1 DEF Work, Numbers
  <2>5. AgeOrder'
    BY <1>1, <1>4, <2>1, AgeFrame
  <2>6. \A e \in Dirs : \A q \in Numbers(e)' :
            \E p \in Numbers(e) : q <= p /\ folder'[e][q] = folder[e][p]
    BY <1>1, <2>1 DEF Numbers
  <2>7. folder' \in [Dirs -> [Nums -> Ids]]
    BY <1>1, <2>1
  <2>8. QED
    BY <1>1, <1>4, <1>5, <2>4, <2>5, <2>6, <2>7, AlongTheList
<1>10. CASE ~(n = m \/ Locked(d, n))
  <2>1. /\ folder' \in [Dirs -> [Nums -> Ids]] /\ m # n /\ m < n /\ folder[d][m] = 0
        /\ \A e \in Dirs, k \in Nums : folder'[e][k] = IF e = d /\ k = n THEN 0
                                                      ELSE IF e = d /\ k = m THEN folder[d][n]
                                                      ELSE folder[e][k]
    <3>1. folder' = [folder EXCEPT ![d][n] = 0, ![d][m] = folder[d][n]]
      BY <1>4, <1>10
    <3>2. m < n
      BY <1>3, <1>a, <1>10
    <3>3. m # n /\ folder[d][m] = 0
      BY <1>3, <1>10
    <3>4. /\ folder' \in [Dirs -> [Nums -> Ids]]
          /\ \A e \in Dirs, k \in Nums : folder'[e][k] = IF e = d /\ k = n THEN 0
                                                        ELSE IF e = d /\ k = m THEN folder[d][n]
                                                        ELSE folder[e][k]
      <4> HIDE DEF d, n, m
      <4>1. folder \in [Dirs -> [Nums -> Ids]] /\ d \in Dirs /\ n \in Nums /\ m \in Nums /\ 0 \in Ids
        BY <1>1, <1>3
      <4>2. QED
        BY <3>1, <3>3, <4>1
    <3>5. QED
      BY <3>2, <3>3, <3>4
  <2>2. \A p \in Nums : folder'[d][p] # 0 => p = m \/ (p \in Numbers(d) /\ p # n /\ p # m)
    BY <1>1, <2>1 DEF Numbers
  <2>3. \A e \in Dirs : e # d => \A p \in Nums : folder'[e][p] = folder[e][p]
    BY <2>1
  <2>4. ASSUME NEW p \in Nums, folder'[d][p] # 0 PROVE Placed(t, p)'
    <3>1. CASE p = m
      <4>1. p < m + 1
        BY <1>a, <3>1
      <4>2. QED
        BY <1>5, <1>6, <3>1, <4>1 DEF Placed
    <3>2. CASE p # m
      BY <1>8, <2>2, <2>4, <3>2
    <3>3. QED
      BY <3>1, <3>2
  <2>5. Survive(job[t])'
    <3>1. ASSUME NEW k \in 1 .. Len(l), k > j.first, k >= i + 1 PROVE folder'[d][l[k]] # 0
      <4>1. k >= i /\ i < k
        BY <1>1, <3>1
      <4>2. folder[d][l[k]] # 0 /\ l[i] < l[k]
        BY <1>1, <1>2, <3>1, <4>1 DEF Work, Survive, Ascending
      <4>3. l[k] # n
        BY <1>1, <4>2
      <4>4. QED
        BY <1>1, <2>1, <4>2, <4>3
    <3>2. QED
      BY <1>5, <3>1 DEF Survive
  <2>6. Work(t)'
    BY <1>5, <1>7, <2>4, <2>5 DEF Work, Numbers
  <2>7. AgeOrder'
    <3>1. /\ folder'[d][m] = folder[d][n]
          /\ \A p \in Numbers(d) : p # n /\ p # m => folder'[d][p] = folder[d][p]
      BY <1>1, <1>3, <2>1 DEF Numbers
    <3>2. n \in Numbers(d)
      BY <1>3 DEF Numbers
    <3>3. ASSUME NEW p \in Nums, NEW q \in Nums, p < q, folder'[d][p] # 0, folder'[d][q] # 0
          PROVE  folder'[d][p] < folder'[d][q]
      <4>1. CASE p = m
        <5>1. q # m /\ q \in Numbers(d) /\ q # n
          BY <1>1, <2>2, <3>3, <4>1
        <5>2. n < q
          <6>1. q < m \/ q >= n
            BY <1>3, <5>1
          <6>2. q \in Nat
            BY <1>1
          <6>3. QED
            BY <1>a, <3>3, <4>1, <5>1, <6>1, <6>2
        <5>3. folder[d][n] < folder[d][q]
          BY <1>1, <3>2, <5>1, <5>2 DEF AgeOrder
        <5>4. QED
          BY <3>1, <4>1, <5>1, <5>3
      <4>2. CASE q = m
        <5>1. p # m /\ p \in Numbers(d) /\ p # n
          BY <1>1, <2>2, <3>3, <4>2
        <5>2. p < n
          BY <1>1, <1>3, <3>3, <4>2, <5>1
        <5>3. folder[d][p] < folder[d][n]
          BY <1>1, <3>2, <5>1, <5>2 DEF AgeOrder
        <5>4. QED
          BY <3>1, <4>2, <5>1, <5>3
      <4>3. CASE p # m /\ q # m
        <5>1. p \in Numbers(d) /\ p # n /\ q \in Numbers(d) /\ q # n
          BY <2>2, <3>3, <4>3
        <5>2. folder[d][p] < folder[d][q]
          BY <1>1, <3>3, <5>1 DEF AgeOrder
        <5>3. QED
          BY <3>1, <4>3, <5>1, <5>2
      <4>4. QED
        BY <4>1, <4>2, <4>3
    <3>4. ASSUME NEW e \in Dirs, NEW p \in Nums, NEW q \in Nums, p < q,
                 folder'[e][p] # 0, folder'[e][q] # 0
          PROVE  folder'[e][p] < folder'[e][q]
      <4>1. CASE e = d
        BY <3>3, <3>4, <4>1
      <4>2. CASE e # d
        BY <1>1, <2>3, <3>4, <4>2 DEF AgeOrder, Numbers
      <4>3. QED
        BY <4>1, <4>2
    <3>5. ASSUME NEW e \in Dirs, NEW p \in Nums PROVE folder'[e][p] <= created
      <4>1. folder[e][p] <= created /\ folder[d][n] <= created
        BY <1>1, <1>3 DEF AgeOrder
      <4>2. 0 <= created
        BY <1>1, LogFacts
      <4>3. QED
        BY <1>1, <2>1, <4>1, <4>2
    <3>6. created' = created /\ open' = open
      BY <1>4
    <3>7. QED
      BY <1>1, <3>4, <3>5, <3>6 DEF AgeOrder, Numbers
  <2>8. ASSUME NEW e \in Dirs, NEW q \in Nums, folder'[e][q] # 0
        PROVE  \E p \in Numbers(e) : q <= p /\ folder'[e][q] = folder[e][p]
    <3>1. CASE e = d /\ q = m
      <4>1. n \in Numbers(e) /\ q <= n
        BY <1>3, <3>1 DEF Numbers
      <4>2. folder'[e][q] = folder[e][n]
        BY <2>1, <3>1
      <4>3. QED
        BY <4>1, <4>2
    <3>2. CASE ~(e = d /\ q = m)
      <4>1. q \in Numbers(e) /\ folder'[e][q] = folder[e][q]
        BY <2>1, <2>2, <2>8, <3>2 DEF Numbers
      <4>2. q <= q
        BY <1>1
      <4>3. QED
        BY <4>1, <4>2
    <3>3. QED
      BY <3>1, <3>2
  <2>9. \A e \in Dirs : \A q \in Numbers(e)' :
            \E p \in Numbers(e) : q <= p /\ folder'[e][q] = folder[e][p]
    BY <2>8 DEF Numbers
  <2>10. QED
    BY <1>1, <1>4, <1>5, <2>1, <2>6, <2>7, <2>9, AlongTheList
<1>11. QED
  BY <1>9, <1>10

\* The lock is released over a folder numbered from 1.
LEMMA RenamedStep ==
    ASSUME LogInv, LogTypeOK', NEW t \in Threads, Renamed(t)
    PROVE  LogInv'
<1> DEFINE j == job[t]
<1>1. LogTypeOK /\ AgeOrder /\ JobsFit /\ WorkInv /\ CounterInv /\ j.pc = "rename"
      /\ j.i > Len(j.logs)
  BY DEF Renamed, LogInv
<1>2. /\ gBlackboxScanLock = t /\ job \in [Threads -> Jobs] /\ j \in Jobs /\ NoJob \in Jobs
      /\ Len(j.logs) \in Nat /\ j.i \in Nat \ {0} /\ j.first \in Nat /\ Nums \subseteq Nat
      /\ gBlackboxNextNumberValue \in Nat
  BY <1>1, LogFacts
<1>3. /\ job' = [job EXCEPT ![t] = IF t = "msp" THEN NoJob ELSE [@ EXCEPT !.pc = "seed"]]
      /\ gBlackboxScanLock' = "free"
      /\ UNCHANGED <<folder, settings, naming, gBlackboxPruneRequest, open, created, calls, history>>
  BY DEF Renamed
<1>4. /\ job'[t] = (IF t = "msp" THEN NoJob ELSE [j EXCEPT !.pc = "seed"])
      /\ \A u \in Threads : u # t => job'[u] = job[u]
  BY <1>2, <1>3
<1>5. [j EXCEPT !.pc = "seed"] \in Jobs
  BY <1>2 DEF Jobs
<1>6. job' \in [Threads -> Jobs]
  BY <1>2, <1>3, <1>4, <1>5
<1>7. \A u \in Threads : job'[u].pc \notin {"remove", "rename"}
  <2>1. job'[t].pc \notin {"remove", "rename"}
    BY <1>2, <1>4 DEF NoJob, Jobs
  <2>2. \A u \in Threads : u # t => job[u].pc \notin {"remove", "rename"}
    BY <1>1, <1>2, LogFacts
  <2>3. QED
    BY <1>4, <2>1, <2>2
<1>9. AgeOrder'
  BY <1>1, <1>3, AgeFrame
<1>10. sitlBlackboxDir' = sitlBlackboxDir
  BY <1>3 DEF sitlBlackboxDir, settings
<1>11. JobsFit'
  <2>1. CASE t = "msp"
    <3>1. \A d \in Dirs : \A n \in Numbers(d)' : \E m \in Numbers(d) : folder'[d][n] = folder[d][m]
      BY <1>3 DEF Numbers
    <3>2. job'["host"] = job["host"] /\ job'["msp"].pc = "idle"
      BY <1>4, <2>1 DEF Threads, NoJob
    <3>3. /\ job'["msp"].pc # "seed"
          /\ \A u \in Threads : job'[u].pc # "idle" => job'[u].dir \in Dirs /\ job'[u].keep # 0
      BY <1>1, <3>2 DEF JobsFit, Threads
    <3>4. open' \in {0, open}
      BY <1>3
    <3>5. QED
      BY <1>1, <1>10, <3>1, <3>2, <3>3, <3>4, JobsStayFit
  <2>2. CASE t = "host"
    <3>1. /\ job'[t].pc = "seed" /\ job'[t].dir = j.dir /\ job'[t].keep = j.keep
      BY <1>2, <1>4, <2>2 DEF Jobs
    <3>2. QED
      BY <1>1, <1>3, <1>4, <1>10, <2>2, <3>1 DEF JobsFit, Threads
  <2>3. QED
    BY <2>1, <2>2 DEF Threads
<1>12. WorkInv'
  BY <1>3 DEF WorkInv, Threads
<1>13. CounterInv'
  <2>1. \A c : Covers(c, sitlBlackboxDir) => \A n \in Numbers(sitlBlackboxDir)' : n <= c
    BY <1>3, <1>10 DEF Covers, Numbers
  <2>2. CASE t = "msp"
    <3>1. job'["host"] = job["host"]
      BY <1>4, <2>2 DEF Threads
    <3>2. gBlackboxNextNumberValue' = gBlackboxNextNumberValue
      BY <1>3 DEF naming
    <3>3. QED
      BY <1>1, <1>3, <1>10, <2>1, <3>1, <3>2 DEF CounterInv, Covers
  <2>3. CASE t = "host"
    <3>1. /\ job'["host"].pc = "seed" /\ job'["host"].logs = j.logs /\ job'["host"].first = j.first
      BY <1>2, <1>4, <2>3 DEF Jobs
    <3>2. Listed(j) /\ \A n \in Numbers(j.dir) : Placed(t, n)
      BY <1>1, <1>2 DEF WorkInv, Work
    <3>3. j.first <= Len(j.logs) /\ j.i = Len(j.logs) + 1
      BY <1>1, <1>2, <3>2 DEF Listed
    <3>4. ASSUME NEW n \in Numbers(j.dir) PROVE n <= Len(j.logs) - j.first
      <4>1. n < Target(j) /\ n \in Nat
        <5>1. \A k \in 1 .. Len(j.logs) : ~(k >= j.i)
          BY <1>2, <3>3
        <5>2. Placed(t, n) /\ n \in Nat
          BY <1>2, <3>2, <3>4 DEF Numbers
        <5>3. QED
          BY <2>3, <5>1, <5>2 DEF Placed
      <4>2. QED
        BY <1>2, <3>3, <4>1 DEF Target
    <3>5. j.dir = sitlBlackboxDir
      BY <1>1, <2>3 DEF JobsFit
    <3>6. QED
      BY <1>3, <1>10, <3>1, <3>3, <3>4, <3>5 DEF CounterInv, Covers, Numbers
  <2>4. QED
    BY <2>2, <2>3 DEF Threads
<1>14. QED
  BY <1>9, <1>11, <1>12, <1>13 DEF LogInv

\* The next number is above every log of the folder, and above every log of the
\* MSP thread's list of it.
LEMMA NextIsAbove ==
    ASSUME LogInv, ~Strayed', NEW seen \in Tracked(sitlBlackboxDir), CanOpen(seen)
    PROVE  /\ sitlBlackboxNextNumber(seen) \in Nums /\ sitlBlackboxNextNumber(seen) > 0
           /\ \A n \in Numbers(sitlBlackboxDir) : n < sitlBlackboxNextNumber(seen)
           /\ gBlackboxScanLock = "msp" /\ job["msp"].dir = sitlBlackboxDir =>
                  \A k \in 1 .. Len(job["msp"].logs) : job["msp"].logs[k] < sitlBlackboxNextNumber(seen)
<1> DEFINE q == sitlBlackboxNextNumber(seen)
           d == sitlBlackboxDir
           c == gBlackboxNextNumberValue
<1>1. /\ LogTypeOK /\ CounterInv /\ q \in Nums /\ job["host"].pc = "idle"
      /\ c <= 0 => gBlackboxScanLock = "free"
  BY DEF LogInv, CanOpen
<1>2. c \in Nat /\ Nums \subseteq Nat /\ \A k \in 1 .. Len(job["msp"].logs) : job["msp"].logs[k] \in Nums
  BY <1>1, LogFacts DEF Threads
<1>3. q > 0
  BY <1>1, NumsAreInitial
<1>4. CASE c > 0
  <2>1. q = c + 1
    BY <1>2, <1>4 DEF sitlBlackboxNextNumber
  <2>2. Covers(c, d)
    BY <1>1, <1>4 DEF CounterInv
  <2>3. \A n \in Nums : n <= c => n < q
    BY <1>2, <2>1
  <2>4. QED
    BY <1>1, <1>2, <1>3, <2>2, <2>3 DEF Covers, Numbers
<1>5. CASE c = 0
  <2>1. gBlackboxScanLock = "free" /\ q = Highest(seen) + 1
    BY <1>1, <1>5 DEF sitlBlackboxNextNumber
  <2>2. ASSUME NEW n \in Numbers(d) PROVE n < q
    <3>1. Numbers(d) \in SUBSET Nums /\ Numbers(d) # {}
      BY <2>2 DEF Numbers
    <3>2. \E m \in Numbers(d) : \A k \in Numbers(d) : k <= m
      BY <3>1, GreatestExists
    <3>a. seen = Numbers(d)
      <4>1. truncated' = (truncated \/ (c <= 0 /\ seen # Numbers(d)))
        BY DEF CanOpen
      <4>2. ~truncated'
        BY DEF Strayed
      <4>3. c <= 0
        BY <1>5
      <4>4. QED
        BY <4>1, <4>2, <4>3, Zenon
    <3>3. Highest(seen) \in Numbers(d) /\ \A k \in Numbers(d) : k <= Highest(seen)
      BY <3>1, <3>2, <3>a DEF Highest
    <3>4. n <= Highest(seen) /\ n \in Nat /\ Highest(seen) \in Nat
      BY <1>2, <2>2, <3>1, <3>3
    <3>5. QED
      BY <2>1, <3>4
  <2>3. QED
    BY <1>1, <1>3, <2>1, <2>2
<1>6. QED
  BY <1>2, <1>4, <1>5

\* A new log is the newest one and has the highest number.
LEMMA FopenStep ==
    ASSUME LogInv, LogTypeOK', ~Strayed', NEW seen \in Tracked(sitlBlackboxDir), sitlBlackboxFopen(seen)
    PROVE  LogInv'
<1> DEFINE q == sitlBlackboxNextNumber(seen)
           d == sitlBlackboxDir
<1>1. /\ LogTypeOK /\ AgeOrder /\ JobsFit /\ WorkInv /\ CounterInv
      /\ job["host"].pc = "idle" /\ open = 0 /\ created < MaxLogs
  BY DEF sitlBlackboxFopen, CanOpen, LogInv
<1>2. /\ created \in Nat /\ d \in Dirs /\ Nums \subseteq Nat /\ Ids \subseteq Nat
      /\ folder \in [Dirs -> [Nums -> Ids]]
      /\ \A k \in 1 .. Len(job["msp"].logs) : job["msp"].logs[k] \in Nums
  BY <1>1, LogFacts DEF Threads
<1>3. /\ q \in Nums /\ q > 0 /\ \A n \in Numbers(d) : n < q
      /\ gBlackboxScanLock = "msp" /\ job["msp"].dir = d =>
             \A k \in 1 .. Len(job["msp"].logs) : job["msp"].logs[k] < q
  BY NextIsAbove DEF sitlBlackboxFopen
<1>n. q \in Nat /\ \A k \in 1 .. Len(job["msp"].logs) : job["msp"].logs[k] \in Nat
  BY <1>2, <1>3
<1>4. /\ folder' = [folder EXCEPT ![d][q] = created + 1]
      /\ open' = created + 1 /\ created' = created + 1
      /\ gBlackboxNextNumberValue' = q /\ gBlackboxOpenLogName' = <<d, q>>
      /\ gBlackboxPruneRequest' = TRUE
      /\ UNCHANGED <<settings, gBlackboxScanLock, job, calls, tidiedOpen>>
  BY DEF sitlBlackboxFopen
<1>5. created + 1 \in Ids
  BY <1>1, <1>2, LogConstants DEF Ids, LogConstants
<1>6. /\ folder' \in [Dirs -> [Nums -> Ids]] /\ folder[d][q] = 0
      /\ \A e \in Dirs, k \in Nums : folder'[e][k] = IF e = d /\ k = q THEN created + 1 ELSE folder[e][k]
  <2>1. folder[d][q] = 0
    <3>1. ~(q < q)
      BY <1>n
    <3>2. q \notin Numbers(d)
      BY <1>3, <3>1
    <3>3. QED
      BY <1>3, <3>2 DEF Numbers
  <2> HIDE DEF d, q
  <2>2. QED
    BY <1>2, <1>3, <1>4, <1>5, <2>1
<1>7. d' = d /\ d' = sitlBlackboxDir'
  BY <1>4 DEF sitlBlackboxDir, settings
<1> HIDE DEF d, q
<1>9. AgeOrder'
  <2>1. ASSUME NEW e \in Dirs, NEW m \in Nums, NEW n \in Nums, m < n,
               folder'[e][m] # 0, folder'[e][n] # 0
        PROVE  folder'[e][m] < folder'[e][n]
    <3>1. folder[e][m] <= created /\ folder[e][m] \in Nat
      BY <1>1, <1>2 DEF AgeOrder
    <3>2. CASE e = d /\ n = q
      <4>0. m # q
        BY <1>2, <2>1, <3>2
      <4>1. folder'[e][n] = created + 1 /\ folder'[e][m] = folder[e][m]
        BY <1>6, <3>2, <4>0
      <4>2. QED
        BY <1>2, <3>1, <4>1
    <3>3. CASE ~(e = d /\ n = q)
      <4>1. folder'[e][n] = folder[e][n] /\ n \in Numbers(e)
        BY <1>6, <2>1, <3>3 DEF Numbers
      <4>2. ~(e = d /\ m = q)
        BY <1>2, <1>3, <2>1, <4>1
      <4>3. folder'[e][m] = folder[e][m] /\ m \in Numbers(e)
        BY <1>6, <2>1, <4>2 DEF Numbers
      <4>4. QED
        BY <1>1, <2>1, <4>1, <4>3 DEF AgeOrder
    <3>4. QED
      BY <3>2, <3>3
  <2>2. ASSUME NEW e \in Dirs, NEW n \in Nums PROVE folder'[e][n] <= created + 1
    <3>1. folder[e][n] <= created /\ folder[e][n] \in Nat
      BY <1>1, <1>2 DEF AgeOrder
    <3>2. QED
      BY <1>2, <1>6, <3>1
  <2>3. QED
    BY <1>4, <2>1, <2>2 DEF AgeOrder, Numbers
<1>10. JobsFit'
  BY <1>1, <1>4 DEF JobsFit
<1>11. WorkInv'
  <2>1. SUFFICES ASSUME gBlackboxScanLock = "msp" PROVE Work("msp")'
    <3>1. gBlackboxScanLock # "host"
      BY <1>1, LogFacts DEF Threads
    <3>2. QED
      BY <1>4, <2>1, <3>1 DEF WorkInv, Threads
  <2> DEFINE j == job["msp"]
  <2>2. Work("msp") /\ j.pc \in {"remove", "rename"} /\ job' = job
    BY <1>1, <1>4, <2>1, LogFacts DEF WorkInv, Threads
  <2>3. j.dir \in Dirs
    BY <1>1, <2>2 DEF JobsFit, Threads
  <2>4. Survive(j)'
    <3>1. \A e \in Dirs, k \in Nums : folder[e][k] # 0 => folder'[e][k] # 0
      BY <1>2, <1>6
    <3>2. QED
      BY <1>2, <2>2, <2>3, <3>1 DEF Work, Survive
  <2>5. ASSUME NEW n \in Nums, folder'[j.dir][n] # 0 PROVE Placed("msp", n)'
    <3>1. CASE j.dir = d /\ n = q
      <4>1. \A k \in 1 .. Len(j.logs) : j.logs[k] <= n
        BY <1>n, <1>3, <2>1, <3>1
      <4>2. QED
        BY <2>2, <4>1 DEF Placed
    <3>2. CASE ~(j.dir = d /\ n = q)
      <4>1. n \in Numbers(j.dir)
        BY <1>6, <2>3, <2>5, <3>2 DEF Numbers
      <4>2. Placed("msp", n)
        BY <2>2, <4>1 DEF Work
      <4>3. QED
        BY <2>2, <4>2 DEF Placed, Target
    <3>3. QED
      BY <3>1, <3>2
  <2>6. QED
    BY <2>2, <2>4, <2>5 DEF Work, Listed, Numbers
<1>12. CounterInv'
  <2>1. ASSUME NEW n \in Nums, folder'[d][n] # 0 PROVE n <= q
    <3>1. n = q \/ n \in Numbers(d)
      BY <1>2, <1>6, <2>1 DEF Numbers
    <3>2. QED
      BY <1>2, <1>3, <3>1 DEF Numbers
  <2>2. gBlackboxScanLock = "msp" /\ job["msp"].dir = d =>
             \A k \in 1 .. Len(job["msp"].logs) : job["msp"].logs[k] <= q
    BY <1>n, <1>3
  <2>3. sitlBlackboxDir' = d
    BY <1>7
  <2>4. Covers(gBlackboxNextNumberValue, sitlBlackboxDir)'
    BY <1>4, <2>1, <2>2, <2>3 DEF Covers, Numbers
  <2>5. job'["host"].pc = "idle"
    BY <1>1, <1>4
  <2>6. QED
    BY <2>4, <2>5 DEF CounterInv
<1>13. QED
  BY <1>9, <1>10, <1>11, <1>12 DEF LogInv

\* The host's calls start its housekeeping on the folder they leave selected.
LEMMA HostCallStep ==
    ASSUME LogInv, LogTypeOK', HostCall, gBlackboxDir' \in Dirs \cup {""}, gBlackboxMaxLogs' \in Caps,
           Start("host", sitlBlackboxDir', gBlackboxMaxLogs'),
           UNCHANGED <<folder, naming, gBlackboxPruneRequest, gBlackboxScanLock, open, created, history>>
    PROVE  LogInv'
<1>1. LogTypeOK /\ AgeOrder /\ JobsFit /\ WorkInv
  BY DEF LogInv
<1>2. job["host"].pc = "idle" /\ calls < MaxCalls /\ calls' = calls + 1
  BY DEF HostCall
<1>3. sitlBlackboxDir' \in Dirs
  BY LogConstants DEF sitlBlackboxDir, LogConstants
<1> DEFINE new == [NoJob EXCEPT !.pc = "lock", !.dir = sitlBlackboxDir', !.keep = Keep(gBlackboxMaxLogs')]
<1>4. new \in Jobs /\ new.pc = "lock" /\ new.dir = sitlBlackboxDir' /\ new.keep # 0
  BY <1>3, StartedJob
<1>5. job' = [job EXCEPT !["host"] = new]
  BY DEF Start
<1> HIDE DEF new
<1>6. /\ job' \in [Threads -> Jobs] /\ job'["host"] = new /\ gBlackboxScanLock # "host"
      /\ job'["msp"] = job["msp"]
      /\ \A u \in Threads : gBlackboxScanLock' = u <=> job'[u].pc \in {"remove", "rename"}
  BY <1>1, <1>2, <1>4, <1>5, NewJob DEF Threads
<1>8. AgeOrder'
  BY <1>1, AgeFrame
<1>9. JobsFit'
  BY <1>1, <1>2, <1>3, <1>4, <1>6 DEF JobsFit, Threads
<1>10. WorkInv'
  <2>1. ASSUME NEW t \in Threads, gBlackboxScanLock' = t PROVE Work(t)'
    <3>1. t = "msp" /\ Work(t) /\ job'[t] = job[t] /\ folder' = folder
      BY <1>1, <1>6, <2>1 DEF WorkInv, Threads
    <3>2. QED
      BY <3>1, WorkFrame
  <2>2. QED
    BY <2>1 DEF WorkInv
<1>11. CounterInv'
  BY <1>4, <1>6 DEF CounterInv
<1>12. QED
  BY <1>8, <1>9, <1>10, <1>11 DEF LogInv

\* The MSP thread takes the request on.
LEMMA PendingPruneStep ==
    ASSUME LogInv, LogTypeOK', sitlBlackboxRunPendingPrune
    PROVE  LogInv'
<1>1. LogTypeOK /\ AgeOrder /\ JobsFit /\ WorkInv /\ CounterInv /\ job["msp"].pc = "idle"
  BY DEF LogInv, sitlBlackboxRunPendingPrune
<1>2. /\ gBlackboxPruneRequest' = FALSE
      /\ UNCHANGED <<folder, settings, naming, gBlackboxScanLock, open, created, calls, history>>
  BY DEF sitlBlackboxRunPendingPrune
<1>3. sitlBlackboxDir \in Dirs /\ gBlackboxMaxLogs \in Caps
  BY <1>1, LogFacts DEF LogTypeOK
<1> DEFINE new == [NoJob EXCEPT !.pc = "lock", !.dir = sitlBlackboxDir, !.keep = Keep(gBlackboxMaxLogs)]
<1>4. new \in Jobs /\ new.pc = "lock" /\ new.dir = sitlBlackboxDir /\ new.keep # 0
  BY <1>3, StartedJob
<1>5. job' = [job EXCEPT !["msp"] = new]
  BY DEF sitlBlackboxRunPendingPrune, Start
<1> HIDE DEF new
<1>6. /\ job' \in [Threads -> Jobs] /\ job'["msp"] = new /\ gBlackboxScanLock # "msp"
      /\ job'["host"] = job["host"]
      /\ \A u \in Threads : gBlackboxScanLock' = u <=> job'[u].pc \in {"remove", "rename"}
  BY <1>1, <1>2, <1>4, <1>5, NewJob DEF Threads
<1>8. AgeOrder'
  BY <1>1, <1>2, AgeFrame
<1>9. sitlBlackboxDir' = sitlBlackboxDir
  BY <1>2 DEF sitlBlackboxDir, settings
<1>10. JobsFit'
  <2>1. \A d \in Dirs : \A n \in Numbers(d)' : \E m \in Numbers(d) : folder'[d][n] = folder[d][m]
    BY <1>2 DEF Numbers
  <2>2. /\ job'["host"].pc # "idle" =>
               job["host"].pc # "idle" /\ job'["host"].dir = job["host"].dir
        /\ job'["host"].pc \in {"remove", "rename"} => job["host"].pc \in {"remove", "rename"}
    BY <1>6
  <2>3. /\ job'["msp"].pc # "seed"
        /\ \A t \in Threads : job'[t].pc # "idle" => job'[t].dir \in Dirs /\ job'[t].keep # 0
    BY <1>1, <1>3, <1>4, <1>6 DEF JobsFit, Threads
  <2>4. open' \in {0, open}
    BY <1>2
  <2>5. QED
    BY <1>1, <1>9, <2>1, <2>2, <2>3, <2>4, JobsStayFit
<1>11. WorkInv'
  <2>1. ASSUME NEW t \in Threads, gBlackboxScanLock' = t PROVE Work(t)'
    <3>1. t = "host" /\ Work(t) /\ job'[t] = job[t] /\ folder' = folder
      BY <1>1, <1>2, <1>6, <2>1 DEF WorkInv, Threads
    <3>2. QED
      BY <3>1, WorkFrame
  <2>2. QED
    BY <2>1 DEF WorkInv
<1>12. CounterInv'
  <2>1. \A c : Covers(c, sitlBlackboxDir) => \A n \in Numbers(sitlBlackboxDir)' : n <= c
    BY <1>2, <1>9 DEF Covers, Numbers
  <2>2. gBlackboxNextNumberValue' = gBlackboxNextNumberValue /\ gBlackboxScanLock' # "msp"
    BY <1>2, <1>6 DEF naming
  <2>3. QED
    BY <1>1, <1>6, <1>9, <2>1, <2>2 DEF CounterInv, Covers
<1>13. QED
  BY <1>8, <1>10, <1>11, <1>12 DEF LogInv

\* The host sets the counter.
LEMMA SeedStep ==
    ASSUME LogInv, LogTypeOK', Seed
    PROVE  LogInv'
<1>1. LogTypeOK /\ AgeOrder /\ JobsFit /\ WorkInv /\ CounterInv /\ job["host"].pc = "seed"
  BY DEF LogInv, Seed
<1> DEFINE c == Len(job["host"].logs) - job["host"].first
<1>2. /\ gBlackboxNextNumberValue' = c /\ job' = [job EXCEPT !["host"] = NoJob]
      /\ UNCHANGED <<folder, settings, gBlackboxOpenLogName, gBlackboxPruneRequest,
                     gBlackboxScanLock, open, created, calls, history>>
  BY DEF Seed
<1>3. NoJob \in Jobs /\ NoJob.pc = "idle" /\ c \in Nat
  BY <1>1, LogFacts DEF NoJob, CounterInv, Threads
<1>4. /\ job' \in [Threads -> Jobs] /\ job'["host"] = NoJob /\ gBlackboxScanLock # "host"
      /\ job'["msp"] = job["msp"]
      /\ \A u \in Threads : gBlackboxScanLock' = u <=> job'[u].pc \in {"remove", "rename"}
  BY <1>1, <1>2, <1>3, NewJob DEF Threads
<1>6. AgeOrder'
  BY <1>1, <1>2, AgeFrame
<1>7. sitlBlackboxDir' = sitlBlackboxDir
  BY <1>2 DEF sitlBlackboxDir, settings
<1>8. JobsFit'
  BY <1>1, <1>3, <1>4 DEF JobsFit, Threads
<1>9. WorkInv'
  <2>1. ASSUME NEW t \in Threads, gBlackboxScanLock' = t PROVE Work(t)'
    <3>1. t = "msp" /\ Work(t) /\ job'[t] = job[t] /\ folder' = folder
      BY <1>1, <1>2, <1>4, <2>1 DEF WorkInv, Threads
    <3>2. QED
      BY <3>1, WorkFrame
  <2>2. QED
    BY <2>1 DEF WorkInv
<1>10. CounterInv'
  <2>1. Covers(c, sitlBlackboxDir)
    BY <1>1 DEF CounterInv
  <2>2. Covers(gBlackboxNextNumberValue, sitlBlackboxDir)'
    BY <1>2, <1>4, <1>7, <2>1 DEF Covers, Numbers
  <2>3. QED
    BY <1>3, <1>4, <2>2 DEF CounterInv
<1>11. QED
  BY <1>6, <1>8, <1>9, <1>10 DEF LogInv

\* A number that is used up stays below the counter.
LEMMA FopenFailsStep ==
    ASSUME LogInv, LogTypeOK', ~Strayed', NEW seen \in Tracked(sitlBlackboxDir), FopenFails(seen)
    PROVE  LogInv'
<1> DEFINE q == sitlBlackboxNextNumber(seen)
           d == sitlBlackboxDir
<1>1. LogTypeOK /\ AgeOrder /\ JobsFit /\ WorkInv /\ job["host"].pc = "idle"
  BY DEF LogInv, FopenFails, CanOpen
<1>2. /\ gBlackboxNextNumberValue' = q
      /\ UNCHANGED <<folder, settings, gBlackboxOpenLogName, gBlackboxPruneRequest,
                     gBlackboxScanLock, open, job, created, calls, tidiedOpen>>
  BY DEF FopenFails
<1>3. /\ q \in Nums /\ \A n \in Numbers(d) : n < q
      /\ gBlackboxScanLock = "msp" /\ job["msp"].dir = d =>
             \A k \in 1 .. Len(job["msp"].logs) : job["msp"].logs[k] < q
  BY NextIsAbove DEF FopenFails
<1>4. /\ q \in Nat /\ \A n \in Numbers(d) : n \in Nat
      /\ \A k \in 1 .. Len(job["msp"].logs) : job["msp"].logs[k] \in Nat
  BY <1>1, <1>3, LogFacts DEF Threads, Numbers
<1>5. sitlBlackboxDir' = d
  BY <1>2 DEF sitlBlackboxDir, settings
<1> HIDE DEF q, d
<1>7. AgeOrder'
  BY <1>1, <1>2, AgeFrame
<1>8. JobsFit'
  BY <1>1, <1>2 DEF JobsFit
<1>9. WorkInv'
  BY <1>1, <1>2, WorkFrame DEF WorkInv
<1>10. CounterInv'
  <2>1. /\ \A n \in Numbers(d) : n <= q
        /\ gBlackboxScanLock = "msp" /\ job["msp"].dir = d =>
               \A k \in 1 .. Len(job["msp"].logs) : job["msp"].logs[k] <= q
    BY <1>3, <1>4
  <2>2. Covers(gBlackboxNextNumberValue, sitlBlackboxDir)'
    BY <1>2, <1>5, <2>1 DEF Covers, Numbers
  <2>3. QED
    BY <1>1, <1>2, <2>2 DEF CounterInv
<1>11. QED
  BY <1>7, <1>8, <1>9, <1>10 DEF LogInv

\* Closing a log, or doing nothing, keeps everything.
LEMMA CloseStep ==
    ASSUME LogInv, LogTypeOK', open' \in {0, open},
           UNCHANGED <<folder, settings, naming, gBlackboxPruneRequest, gBlackboxScanLock,
                       job, created, calls, history>>
    PROVE  LogInv'
<1>1. LogTypeOK /\ AgeOrder /\ JobsFit /\ WorkInv /\ CounterInv
  BY DEF LogInv
<1>2. sitlBlackboxDir' = sitlBlackboxDir
  BY DEF sitlBlackboxDir, settings
<1>4. AgeOrder'
  BY <1>1, AgeFrame
<1>5. JobsFit'
  <2>1. \A d \in Dirs : \A n \in Numbers(d)' : \E m \in Numbers(d) : folder'[d][n] = folder[d][m]
    BY DEF Numbers
  <2>2. /\ job'["host"].pc # "idle" =>
               job["host"].pc # "idle" /\ job'["host"].dir = job["host"].dir
        /\ job'["host"].pc \in {"remove", "rename"} => job["host"].pc \in {"remove", "rename"}
    OBVIOUS
  <2>3. /\ job'["msp"].pc # "seed"
        /\ \A t \in Threads : job'[t].pc # "idle" => job'[t].dir \in Dirs /\ job'[t].keep # 0
    BY <1>1 DEF JobsFit
  <2>4. QED
    BY <1>1, <1>2, <2>1, <2>2, <2>3, JobsStayFit
<1>6. WorkInv'
  BY <1>1, WorkFrame DEF WorkInv
<1>7. CounterInv'
  BY <1>1, <1>2 DEF CounterInv, Covers, Numbers, naming
<1>8. QED
  BY <1>4, <1>5, <1>6, <1>7 DEF LogInv

\* A folder that an earlier process has left is in the order of its ages.
LEMMA LeftInAgeOrder ==
    ASSUME NEW f \in LeftBehind
    PROVE  /\ f \in [Nums -> Ids] /\ Cardinality({n \in Nums : f[n] # 0}) \in Ids
           /\ \A n \in Nums : f[n] <= Cardinality({k \in Nums : f[k] # 0})
           /\ \A m, n \in Nums : m < n /\ f[m] # 0 /\ f[n] # 0 => f[m] < f[n]
<1>1. PICK N \in SUBSET Nums :
          /\ Cardinality(N) <= MaxLogs
          /\ f = [n \in Nums |-> IF n \in N THEN Cardinality({m \in N : m <= n}) ELSE 0]
  BY DEF LeftBehind
<1> DEFINE UpTo(n) == {m \in N : m <= n}
<1>2. IsFiniteSet(N) /\ Cardinality(N) \in Nat /\ N \subseteq Nat
  BY NumberSets
<1>3. ASSUME NEW n \in N
      PROVE  /\ IsFiniteSet(UpTo(n)) /\ Cardinality(UpTo(n)) \in Nat \ {0}
             /\ Cardinality(UpTo(n)) <= Cardinality(N)
  <2>1. n \in UpTo(n) /\ UpTo(n) \in SUBSET N
    BY <1>2
  <2> HIDE DEF UpTo
  <2>2. IsFiniteSet(UpTo(n)) /\ Cardinality(UpTo(n)) <= Cardinality(N) /\ Cardinality(UpTo(n)) \in Nat
    BY <1>2, <2>1, FS_Subset, FS_CardinalityType
  <2>3. Cardinality(UpTo(n)) # 0
    BY <2>1, <2>2, FS_EmptySet
  <2>4. QED
    BY <2>2, <2>3
<1>4. ASSUME NEW m \in N, NEW n \in N, m < n PROVE Cardinality(UpTo(m)) < Cardinality(UpTo(n))
  <2>1. UpTo(m) \in SUBSET UpTo(n) /\ n \in UpTo(n) /\ n \notin UpTo(m)
    <3>1. m \in Nat /\ n \in Nat /\ \A k \in N : k \in Nat
      BY <1>2
    <3>2. \A k \in N : k <= m => k <= n
      BY <1>4, <3>1
    <3>3. n <= n /\ ~(n <= m)
      BY <1>4, <3>1
    <3>4. QED
      BY <3>2, <3>3
  <2>2. UpTo(m) # UpTo(n)
    BY <2>1
  <2>3. IsFiniteSet(UpTo(n)) /\ Cardinality(UpTo(m)) \in Nat /\ Cardinality(UpTo(n)) \in Nat
    BY <1>3
  <2> HIDE DEF UpTo
  <2>4. /\ Cardinality(UpTo(m)) <= Cardinality(UpTo(n))
        /\ Cardinality(UpTo(n)) = Cardinality(UpTo(m)) => UpTo(n) = UpTo(m)
    BY <2>1, <2>3, FS_Subset
  <2>5. QED
    BY <2>2, <2>3, <2>4
<1>5. \A n \in Nums : f[n] = IF n \in N THEN Cardinality(UpTo(n)) ELSE 0
  BY <1>1
<1> HIDE DEF UpTo
<1>6. {n \in Nums : f[n] # 0} = N
  BY <1>3, <1>5
<1>7. Ids = 0 .. MaxLogs /\ MaxLogs \in Nat
  BY LogConstants DEF Ids, LogConstants
<1>8. \A n \in Nums : f[n] \in Nat /\ f[n] <= Cardinality(N)
  BY <1>2, <1>3, <1>5
<1>9. \A n \in Nums : f[n] \in Ids
  BY <1>1, <1>2, <1>7, <1>8
<1>10. f \in [Nums -> Ids]
  BY <1>1, <1>9
<1>11. Cardinality(N) \in Ids
  BY <1>1, <1>2, <1>7
<1>12. QED
  BY <1>4, <1>5, <1>6, <1>8, <1>10, <1>11

\* The invariant holds when the host begins to boot.
LEMMA LogStart == LogInit => LogInv
<1> SUFFICES ASSUME LogInit PROVE LogInv
  OBVIOUS
<1>1. PICK f \in LeftBehind :
          /\ folder = [d \in Dirs |-> IF d = DefaultDir THEN f ELSE [n \in Nums |-> 0]]
          /\ created = Cardinality({n \in Nums : f[n] # 0})
  BY DEF LogInit
<1>2. /\ f \in [Nums -> Ids] /\ created \in Ids
      /\ \A n \in Nums : f[n] <= created
      /\ \A m, n \in Nums : m < n /\ f[m] # 0 /\ f[n] # 0 => f[m] < f[n]
  BY <1>1, LeftInAgeOrder
<1>3. /\ gBlackboxDir = "" /\ gBlackboxNextNumberValue = 0 /\ gBlackboxOpenLogName = <<>>
      /\ gBlackboxPruneRequest = FALSE /\ gBlackboxScanLock = "free" /\ open = 0 /\ calls = 0
      /\ tidiedOpen = FALSE /\ truncated = FALSE
  BY DEF LogInit
<1>4. gBlackboxMaxLogs \in Caps
  <2>1. gBlackboxMaxLogs \in IF EnvCap >= 0 THEN {EnvCap} ELSE Caps
    BY DEF LogInit
  <2>2. QED
    BY <2>1, EnvCapIsCap
<1>5. Ids \subseteq Nat /\ 0 \in Ids /\ DefaultDir \in Dirs /\ 0 \in 0 .. MaxCalls
  BY LogConstants DEF LogConstants, Ids
<1> DEFINE new == [NoJob EXCEPT !.pc = "lock", !.dir = DefaultDir, !.keep = Keep(gBlackboxMaxLogs)]
<1>6. new \in Jobs /\ new.pc = "lock" /\ new.dir = DefaultDir /\ new.keep # 0
  BY <1>4, <1>5, StartedJob
<1>7. NoJob \in Jobs /\ NoJob.pc = "idle"
  <2>1. <<>> \in Seq(Nums)
    BY EmptySeq
  <2>2. QED
    BY <2>1 DEF NoJob, Jobs
<1>8. job = [t \in Threads |-> IF t = "host" THEN new ELSE NoJob]
  BY DEF LogInit
<1> HIDE DEF new
<1>9. job \in [Threads -> Jobs] /\ job["host"] = new /\ job["msp"] = NoJob
  BY <1>6, <1>7, <1>8 DEF Threads
<1>10. /\ folder \in [Dirs -> [Nums -> Ids]]
       /\ \A d \in Dirs, n \in Nums : folder[d][n] = IF d = DefaultDir THEN f[n] ELSE 0
  BY <1>1, <1>2, <1>5
<1>11. LogTypeOK
  BY <1>2, <1>3, <1>4, <1>5, <1>6, <1>7, <1>9, <1>10 DEF LogTypeOK, Threads
<1>12. AgeOrder
  <2>1. ASSUME NEW d \in Dirs, NEW m \in Nums, NEW n \in Nums, m < n,
               folder[d][m] # 0, folder[d][n] # 0
        PROVE  folder[d][m] < folder[d][n]
    <3>1. d = DefaultDir
      BY <1>10, <2>1
    <3>2. folder[d][m] = f[m] /\ folder[d][n] = f[n]
      BY <1>10, <3>1
    <3>3. QED
      BY <1>2, <2>1, <3>2
  <2>2. \A d \in Dirs, n \in Nums : folder[d][n] <= created
    <3>1. 0 <= created
      BY <1>2, <1>5
    <3>2. QED
      BY <1>2, <1>10, <3>1
  <2>3. QED
    BY <1>3, <2>1, <2>2 DEF AgeOrder, Numbers
<1>13. sitlBlackboxDir = DefaultDir
  BY <1>3 DEF sitlBlackboxDir
<1>14. JobsFit
  BY <1>3, <1>5, <1>6, <1>7, <1>9, <1>13 DEF JobsFit, Threads
<1>15. WorkInv
  BY <1>3 DEF WorkInv, Threads
<1>16. CounterInv
  BY <1>6, <1>9 DEF CounterInv
<1>17. QED
  BY <1>11, <1>12, <1>14, <1>15, <1>16 DEF LogInv

-----------------------------------------------------------------------------
\* Every step keeps the invariant, unless the numbering goes wrong with it.
LEMMA LogStep ==
    ASSUME LogInv, LogTypeOK', ~Strayed', [LogNext]_logVars
    PROVE  LogInv'
<1>0. LogTypeOK
  BY DEF LogInv
<1>1. CASE UNCHANGED logVars
  BY <1>1, CloseStep DEF logVars, settings, naming, history
<1>2. ASSUME NEW t \in Threads, Enforce(t) PROVE LogInv'
  BY <1>2, ScanStep, PruneStep, PrunedStep, RenameStep, RenamedStep DEF Enforce
<1>3. CASE \/ \E d \in Dirs \cup {""} : sitl_local_set_blackbox_dir(d)
           \/ \E cap \in Caps : sitl_local_set_blackbox_max_logs(cap)
  BY <1>0, <1>3, HostCalls, HostCallStep
<1>4. CASE Seed
  BY <1>4, SeedStep
<1>5. ASSUME NEW seen \in Tracked(sitlBlackboxDir), sitlBlackboxFopen(seen) PROVE LogInv'
  BY <1>5, FopenStep
<1>6. ASSUME NEW seen \in Tracked(sitlBlackboxDir), FopenFails(seen) PROVE LogInv'
  BY <1>6, FopenFailsStep
<1>7. CASE Close
  BY <1>7, CloseStep DEF Close
<1>8. CASE sitlBlackboxRunPendingPrune
  BY <1>8, PendingPruneStep
<1>9. QED
  BY <1>1, <1>2, <1>3, <1>4, <1>5, <1>6, <1>7, <1>8 DEF LogNext

\* The inductive invariant.
LogSafe == LogTypeOK /\ WellListed /\ (Strayed \/ LogInv)

(* The types hold, and ages and numbers, the work of the two threads and the *)
(* counter agree until the host tidies up the folder of the open log or a    *)
(* scan leaves logs out.                                                     *)
THEOREM LogInvariance == LogSpec => []LogSafe
<1>1. LogInit => LogSafe
  <2>1. ASSUME LogInit PROVE LogInv /\ WellListed
    <3>1. \A t \in Threads : job[t].first = 0 /\ job[t].logs = <<>>
      BY <2>1 DEF LogInit, NoJob, Threads
    <3>2. QED
      BY <2>1, <3>1, LogStart DEF WellListed
  <2>2. QED
    BY <2>1 DEF LogSafe, LogInv
<1>2. LogSafe /\ [LogNext]_logVars => LogSafe'
  <2> SUFFICES ASSUME LogSafe, [LogNext]_logVars PROVE LogSafe'
    OBVIOUS
  <2>1. LogTypeOK' /\ WellListed' /\ (Strayed => Strayed')
    BY TypeStep DEF LogSafe
  <2>2. Strayed' \/ LogInv'
    BY <2>1, LogStep DEF LogSafe
  <2>3. QED
    BY <2>1, <2>2 DEF LogSafe
<1>3. QED
  BY <1>1, <1>2, PTL DEF LogSpec

(* What the housekeeping takes for the oldest logs are the oldest, and every *)
(* log that it renumbers finds its number free, until the numbering goes     *)
(* wrong for one of the two reasons of Strayed.                              *)
THEOREM NumbersAreAges == LogSpec => []NumbersFollowAge
<1>1. ASSUME LogInv PROVE NumbersFollowAge
  <2>1. LogTypeOK /\ AgeOrder
    BY <1>1 DEF LogInv
  <2>2. ASSUME NEW t \in Threads, job[t].pc = "rename", job[t].i <= Len(job[t].logs)
        PROVE  \/ Target(job[t]) = job[t].logs[job[t].i]
               \/ folder[job[t].dir][Target(job[t])] = 0
    BY <1>1, <2>2, TargetIsFree
  <2>3. RenumberingIsFree
    BY <2>2 DEF RenumberingIsFree
  <2>4. QED
    BY <2>1, <2>3 DEF NumbersFollowAge, AgeOrder
<1>2. LogSafe => NumbersFollowAge
  BY <1>1 DEF LogSafe, NumbersFollowAge
<1>3. QED
  BY <1>2, LogInvariance, PTL

(* No step puts a log in the place of another, neither a new one nor one     *)
(* that is renumbered on the other thread, until the numbering goes wrong    *)
(* for one of the two reasons of Strayed.                                    *)
THEOREM NoLogIsOverwritten == LogSpec => NeverOverwritten
<1>1. ASSUME LogInv, ~Strayed', [LogNext]_logVars, NEW d \in Dirs, NEW n \in Numbers(d)
      PROVE  folder'[d][n] \in {folder[d][n], 0}
  <2>1. /\ LogTypeOK /\ folder \in [Dirs -> [Nums -> Ids]] /\ n \in Nums /\ folder[d][n] # 0
        /\ sitlBlackboxDir \in Dirs
    BY <1>1, LogFacts DEF LogInv, Numbers
  <2>2. SUFFICES ASSUME folder' # folder PROVE folder'[d][n] \in {folder[d][n], 0}
    OBVIOUS
  <2>3. ASSUME NEW seen \in Tracked(sitlBlackboxDir), sitlBlackboxFopen(seen)
        PROVE  folder'[d][n] \in {folder[d][n], 0}
    <3>1. /\ folder' = [folder EXCEPT ![sitlBlackboxDir][sitlBlackboxNextNumber(seen)] = created + 1]
          /\ sitlBlackboxNextNumber(seen) \in Nums
          /\ \A k \in Numbers(sitlBlackboxDir) : k < sitlBlackboxNextNumber(seen)
      BY <1>1, <2>3, NextIsAbove DEF sitlBlackboxFopen
    <3>2. sitlBlackboxNextNumber(seen) \in Nat
      BY <3>1, NumsAreInitial
    <3>3. ~(d = sitlBlackboxDir /\ n = sitlBlackboxNextNumber(seen))
      BY <1>1, <3>1, <3>2
    <3>4. QED
      BY <2>1, <3>1, <3>3
  <2>4. ASSUME NEW t \in Threads, Prune(t) PROVE folder'[d][n] \in {folder[d][n], 0}
    <3>1. folder' = [folder EXCEPT ![job[t].dir][job[t].logs[job[t].i]] = 0]
      BY <2>2, <2>4 DEF Prune
    <3>2. QED
      BY <2>1, <3>1
  <2>5. ASSUME NEW t \in Threads, Rename(t) PROVE folder'[d][n] \in {folder[d][n], 0}
    <3> DEFINE e == job[t].dir
               k == job[t].logs[job[t].i]
               m == Target(job[t])
    <3>1. folder[e][m] = 0 /\ folder' = [folder EXCEPT ![e][k] = 0, ![e][m] = folder[e][k]]
      BY <2>2, <2>5 DEF Rename
    <3> HIDE DEF e, k, m
    <3>2. QED
      BY <2>1, <3>1
  <2>6. QED
    <3>1. \/ \E seen \in Tracked(sitlBlackboxDir) : sitlBlackboxFopen(seen)
          \/ \E t \in Threads : Prune(t) \/ Rename(t)
          \/ folder' = folder
      BY <1>1 DEF LogNext, logVars, Enforce, Scan, Pruned, Renamed, Seed, FopenFails, Close,
                  sitlBlackboxRunPendingPrune, sitl_local_set_blackbox_dir, blackboxVirtualOpen,
                  sitl_local_set_blackbox_max_logs
    <3>2. QED
      BY <2>2, <2>3, <2>4, <2>5, <3>1
<1>2. LogSafe /\ [LogNext]_logVars => [NoneReplaced \/ Strayed']_logVars
  <2> SUFFICES ASSUME LogSafe, [LogNext]_logVars, ~Strayed' PROVE NoneReplaced
    OBVIOUS
  <2>1. LogInv
    BY TypeStep DEF LogSafe
  <2>2. QED
    BY <1>1, <2>1 DEF NoneReplaced
<1>3. QED
  BY <1>2, LogInvariance, PTL DEF LogSpec, NeverOverwritten
=============================================================================
