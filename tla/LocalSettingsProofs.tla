------------------------ MODULE LocalSettingsProofs ------------------------
(***************************************************************************)
(* Proofs about LocalSettings, and about the setters of ModeRanges it is   *)
(* built from, for tables of any size, any boxes, files and settings, and  *)
(* any number of edits and requests: a running chain is rebuilt for a      *)
(* cause only, deferred work leaves the loop on its settings, and a setter *)
(* of the host changes what it names and nothing else.                     *)
(***************************************************************************)
EXTENDS LocalSettings, FiniteSetTheorems, TLAPS

-----------------------------------------------------------------------------
(* The table of mode conditions.  removeModeActivationCondition closes up    *)
(* what it keeps: the i-th slot gets the condition of the kept slot with i   *)
(* kept ones up to it.  That there is such a slot, and one only, follows     *)
(* from counting: the rank of a slot maps the kept ones into 1..n, no two of *)
(* them to the same number, so it reaches all n.                             *)

Rank(K, j) == Cardinality({k \in K : k <= j})
Ranked(K, i) == CHOOSE j \in K : Rank(K, j) = i

\* The slots a removal keeps.
Kept(table, box) == {i \in Slots : table[i].modeId # box}

\* Sets of slots are finite, and one of the size of the table is all of it.
LEMMA SlotSets ==
    ASSUME NEW K \in SUBSET Slots
    PROVE  /\ IsFiniteSet(K)
           /\ Cardinality(K) \in Nat
           /\ Cardinality(K) <= MAX_MODE_ACTIVATION_CONDITION_COUNT
           /\ Cardinality(K) = MAX_MODE_ACTIVATION_CONDITION_COUNT => K = Slots
<1>1. MAX_MODE_ACTIVATION_CONDITION_COUNT \in Nat \ {0}
  BY ModeConstants DEF ModeConstants
<1>2. IsFiniteSet(Slots) /\ Cardinality(Slots) = MAX_MODE_ACTIVATION_CONDITION_COUNT
  <2>1. /\ IsFiniteSet(1 .. MAX_MODE_ACTIVATION_CONDITION_COUNT)
        /\ Cardinality(1 .. MAX_MODE_ACTIVATION_CONDITION_COUNT)
             = IF 1 > MAX_MODE_ACTIVATION_CONDITION_COUNT THEN 0
               ELSE MAX_MODE_ACTIVATION_CONDITION_COUNT - 1 + 1
    BY <1>1, FS_Interval
  <2>2. QED
    BY <1>1, <2>1 DEF Slots
<1>3. IsFiniteSet(K) /\ Cardinality(K) <= Cardinality(Slots)
      /\ (Cardinality(Slots) = Cardinality(K) => Slots = K)
  BY <1>2, FS_Subset
<1>4. Cardinality(K) \in Nat
  BY <1>3, FS_CardinalityType
<1>5. QED
  BY <1>2, <1>3, <1>4

\* The rank of a member is one of 1..n, and grows with the member.
LEMMA RankRange ==
    ASSUME NEW K \in SUBSET Slots, NEW j \in K
    PROVE  Rank(K, j) \in 1 .. Cardinality(K)
<1> DEFINE upTo == {k \in K : k <= j}
<1>1. IsFiniteSet(K) /\ Cardinality(K) \in Nat
  BY SlotSets
<1>2. upTo \in SUBSET K /\ j \in upTo
  <2>1. j \in Int
    BY DEF Slots
  <2>2. j <= j
    BY <2>1
  <2>3. QED
    BY <2>2
<1>3. IsFiniteSet(upTo) /\ Cardinality(upTo) <= Cardinality(K)
  BY <1>1, <1>2, FS_Subset
<1>4. Cardinality(upTo) \in Nat /\ Cardinality(upTo) # 0
  BY <1>2, <1>3, FS_CardinalityType, FS_EmptySet
<1>5. Rank(K, j) = Cardinality(upTo)
  BY DEF Rank
<1> HIDE DEF upTo
<1>6. QED
  BY <1>1, <1>3, <1>4, <1>5

\* The rank of a later member is greater.
LEMMA RankGrows ==
    ASSUME NEW K \in SUBSET Slots, NEW i \in K, NEW j \in K, i < j
    PROVE  Rank(K, i) < Rank(K, j)
<1> DEFINE upTo(n) == {k \in K : k <= n}
<1>1. /\ IsFiniteSet(K) /\ K \subseteq Int
      /\ \A n \in K : IsFiniteSet(upTo(n))
  <2>1. IsFiniteSet(K)
    BY SlotSets
  <2>2. \A n \in K : IsFiniteSet(upTo(n))
    BY <2>1, FS_Subset
  <2>3. QED
    BY <2>1, <2>2 DEF Slots
<1>2. upTo(i) \in SUBSET upTo(j) /\ j \in upTo(j) /\ j \notin upTo(i)
  <2>1. \A k \in K : k <= i => k <= j
    BY <1>1
  <2>2. j <= j /\ ~(j <= i)
    BY <1>1
  <2>3. QED
    BY <2>1, <2>2
<1>3. Cardinality(upTo(i)) <= Cardinality(upTo(j)) /\ Cardinality(upTo(i)) # Cardinality(upTo(j))
  <2>1. IsFiniteSet(upTo(j)) /\ upTo(i) # upTo(j)
    BY <1>1, <1>2
  <2>2. QED
    BY <1>2, <2>1, FS_Subset
<1>4. Cardinality(upTo(i)) \in Nat /\ Cardinality(upTo(j)) \in Nat
  BY <1>1, FS_CardinalityType
<1>5. Rank(K, i) = Cardinality(upTo(i)) /\ Rank(K, j) = Cardinality(upTo(j))
  BY DEF Rank
<1> HIDE DEF upTo
<1>6. QED
  BY <1>3, <1>4, <1>5

\* Two members with the same rank are the same.
LEMMA RankUnique ==
    ASSUME NEW K \in SUBSET Slots, NEW i \in K, NEW j \in K, Rank(K, i) = Rank(K, j)
    PROVE  i = j
<1>1. i \in Int /\ j \in Int
  BY DEF Slots
<1>2. Rank(K, i) \in Int /\ Rank(K, j) \in Int
  BY RankRange
<1>3. ~(i < j) /\ ~(j < i)
  BY <1>2, RankGrows
<1>4. QED
  BY <1>1, <1>3

\* Every number up to n is the rank of one member, and Ranked finds it.
LEMMA RankedIsTheMember ==
    ASSUME NEW K \in SUBSET Slots
    PROVE  /\ \A i \in 1 .. Cardinality(K) : Ranked(K, i) \in K /\ Rank(K, Ranked(K, i)) = i
           /\ \A j \in K : Rank(K, j) \in 1 .. Cardinality(K) /\ Ranked(K, Rank(K, j)) = j
<1> DEFINE n == Cardinality(K)
           rank == [j \in K |-> Rank(K, j)]
<1>1. IsFiniteSet(K) /\ n \in Nat
  BY SlotSets
<1>2. IsFiniteSet(1 .. n) /\ Cardinality(1 .. n) = n
  <2>1. IsFiniteSet(1 .. n) /\ Cardinality(1 .. n) = IF 1 > n THEN 0 ELSE n - 1 + 1
    BY <1>1, FS_Interval
  <2> HIDE DEF n
  <2>2. QED
    BY <1>1, <2>1
<1>3. rank \in [K -> 1 .. n]
  BY RankRange
<1>4. rank \in Injection(K, 1 .. n)
  BY <1>3, RankUnique DEF Injection, IsInjective
<1>5. rank \in Surjection(K, 1 .. n)
  BY <1>2, <1>4, FS_Injection
<1>6. \A i \in 1 .. n : \E j \in K : Rank(K, j) = i
  BY <1>5 DEF Surjection
<1>7. \A i \in 1 .. n : Ranked(K, i) \in K /\ Rank(K, Ranked(K, i)) = i
  BY <1>6 DEF Ranked
<1>8. ASSUME NEW j \in K PROVE Rank(K, j) \in 1 .. n /\ Ranked(K, Rank(K, j)) = j
  <2>1. Rank(K, j) \in 1 .. n
    BY RankRange
  <2>2. Ranked(K, Rank(K, j)) \in K /\ Rank(K, Ranked(K, Rank(K, j))) = Rank(K, j)
    BY <1>7, <2>1
  <2>3. QED
    BY <2>1, <2>2, RankUnique
<1>9. QED
  BY <1>7, <1>8

\* FirstOf finds the first of a set of slots.
LEMMA FirstOfIsFirst ==
    ASSUME NEW K \in SUBSET Slots, K # {}
    PROVE  FirstOf(K) \in K /\ \A j \in K : FirstOf(K) <= j
<1>1. Cardinality(K) \in Nat /\ Cardinality(K) # 0 /\ K \subseteq Int
  BY SlotSets, FS_EmptySet DEF Slots
<1>2. Ranked(K, 1) \in K /\ Rank(K, Ranked(K, 1)) = 1
  BY <1>1, RankedIsTheMember
<1>3. \A j \in K : Ranked(K, 1) <= j
  <2>1. ASSUME NEW j \in K, j < Ranked(K, 1) PROVE FALSE
    <3>1. Rank(K, j) < 1
      BY <1>2, <2>1, RankGrows
    <3>2. Rank(K, j) \in 1 .. Cardinality(K)
      BY RankRange
    <3>3. QED
      BY <1>1, <3>1, <3>2
  <2>2. Ranked(K, 1) \in Int
    BY <1>1, <1>2
  <2>3. QED
    BY <1>1, <2>1, <2>2
<1>4. QED
  BY <1>2, <1>3 DEF FirstOf
-----------------------------------------------------------------------------
(* The setters of mode ranges *)

\* The empty slot is a condition of the ARM box.
LEMMA EmptyIsCondition == EmptyMac \in Condition
<1>1. BOXARM \in Boxes /\ 0 \in Channels /\ 0 \in RangeSteps
  BY ModeConstants DEF ModeConstants, Channels, RangeSteps
<1>2. QED
  BY <1>1 DEF EmptyMac, Condition

\* A removal keeps the kept conditions in their order and empties the rest.
LEMMA RemoveShape ==
    ASSUME NEW table \in Tables, NEW box
    PROVE  LET K   == Kept(table, box)
               new == removeModeActivationCondition(table, box)
           IN  /\ new \in Tables
               /\ \A i \in 1 .. Cardinality(K) :
                     i \in Slots /\ Ranked(K, i) \in K /\ new[i] = table[Ranked(K, i)]
               /\ \A i \in Slots : i > Cardinality(K) => new[i] = EmptyMac
<1> DEFINE K   == Kept(table, box)
           new == removeModeActivationCondition(table, box)
<1>1. K \in SUBSET Slots
  BY DEF Kept
<1>2. /\ Cardinality(K) \in Nat
      /\ Cardinality(K) <= MAX_MODE_ACTIVATION_CONDITION_COUNT
      /\ \A i \in 1 .. Cardinality(K) : Ranked(K, i) \in K
  BY <1>1, SlotSets, RankedIsTheMember
<1>3. 1 .. Cardinality(K) \subseteq Slots
  BY <1>2, ModeConstants DEF ModeConstants, Slots
<1>4. new = [i \in Slots |-> IF i <= Cardinality(K) THEN table[Ranked(K, i)] ELSE EmptyMac]
  BY DEF removeModeActivationCondition, Kept, Ranked, Rank
<1>5. \A i \in Slots : i <= Cardinality(K) => i \in 1 .. Cardinality(K)
  BY <1>2 DEF Slots
<1>6. \A i \in Slots : IF i <= Cardinality(K) THEN table[Ranked(K, i)] \in Condition
                                              ELSE EmptyMac \in Condition
  BY <1>1, <1>2, <1>5, EmptyIsCondition DEF Tables
<1>7. new \in Tables
  BY <1>4, <1>6 DEF Tables
<1>8. ASSUME NEW i \in 1 .. Cardinality(K)
      PROVE  i \in Slots /\ Ranked(K, i) \in K /\ new[i] = table[Ranked(K, i)]
  BY <1>2, <1>3, <1>4, <1>8
<1>9. ASSUME NEW i \in Slots, i > Cardinality(K) PROVE new[i] = EmptyMac
  <2>1. ~(i <= Cardinality(K))
    BY <1>2, <1>9 DEF Slots
  <2>2. QED
    BY <1>4, <2>1
<1>10. QED
  BY <1>7, <1>8, <1>9

\* A removal takes the conditions of its box and leaves those of the others.
LEMMA RemoveIsLocal ==
    ASSUME NEW table \in Tables, NEW box
    PROVE  LET new == removeModeActivationCondition(table, box)
           IN  /\ OtherConditions(new, box) = OtherConditions(table, box)
               /\ \A i \in Slots : Configured(new[i]) => new[i].modeId # box
<1> DEFINE K   == Kept(table, box)
           new == removeModeActivationCondition(table, box)
<1>1. K \in SUBSET Slots /\ Cardinality(K) \in Nat
  BY SlotSets DEF Kept
<1>2. /\ \A i \in 1 .. Cardinality(K) :
            i \in Slots /\ Ranked(K, i) \in K /\ new[i] = table[Ranked(K, i)]
      /\ \A i \in Slots : i > Cardinality(K) => new[i] = EmptyMac
  BY RemoveShape
<1>3. \A i \in Slots : i \in 1 .. Cardinality(K) \/ i > Cardinality(K)
  BY <1>1 DEF Slots
<1>4. \A j \in K : /\ Rank(K, j) \in 1 .. Cardinality(K)
                   /\ new[Rank(K, j)] = table[j]
  BY <1>1, <1>2, RankedIsTheMember
<1>5. \A k \in K : k \in Slots /\ table[k].modeId # box
  BY DEF Kept
<1>6. \A k \in Slots : table[k].modeId # box => k \in K
  BY DEF Kept
<1> HIDE DEF K, new
<1>7. \A i \in Slots : Configured(new[i]) => i \in 1 .. Cardinality(K)
  BY <1>2, <1>3 DEF Configured
<1>8. \A i \in Slots : Configured(new[i]) => new[i].modeId # box
  BY <1>2, <1>5, <1>7
<1>9. OtherConditions(new, box) \subseteq OtherConditions(table, box)
  <2> SUFFICES ASSUME NEW i \in Slots, Configured(new[i]), new[i].modeId # box
               PROVE  new[i] \in OtherConditions(table, box)
    BY DEF OtherConditions
  <2>1. Ranked(K, i) \in K /\ new[i] = table[Ranked(K, i)]
    BY <1>2, <1>7
  <2>2. QED
    BY <1>5, <2>1 DEF OtherConditions
<1>10. OtherConditions(table, box) \subseteq OtherConditions(new, box)
  <2> SUFFICES ASSUME NEW j \in Slots, Configured(table[j]), table[j].modeId # box
               PROVE  table[j] \in OtherConditions(new, box)
    BY DEF OtherConditions
  <2>1. Rank(K, j) \in Slots /\ new[Rank(K, j)] = table[j]
    BY <1>2, <1>4, <1>6
  <2>2. QED
    BY <2>1 DEF OtherConditions
<1>11. QED
  BY <1>8, <1>9, <1>10 DEF new

\* A removal that leaves no slot free has removed nothing.
LEMMA FullWasFull ==
    ASSUME NEW table \in Tables, NEW box,
           FreeSlots(removeModeActivationCondition(table, box)) = {}
    PROVE  removeModeActivationCondition(table, box) = table
<1> DEFINE K   == Kept(table, box)
           new == removeModeActivationCondition(table, box)
           n   == MAX_MODE_ACTIVATION_CONDITION_COUNT
<1>1. n \in Nat \ {0} /\ n \in Slots
  BY ModeConstants DEF ModeConstants, Slots
<1>2. /\ K \in SUBSET Slots /\ Cardinality(K) \in Nat /\ Cardinality(K) <= n
      /\ Cardinality(K) = n => K = Slots
  <2>1. K \in SUBSET Slots
    BY DEF Kept
  <2>2. QED
    BY <2>1, SlotSets
<1>3. /\ new \in Tables
      /\ \A i \in 1 .. Cardinality(K) : new[i] = table[Ranked(K, i)]
      /\ \A i \in Slots : i > Cardinality(K) => new[i] = EmptyMac
  BY RemoveShape
<1>4. new[n] # EmptyMac
  BY <1>1 DEF FreeSlots, Configured
<1> HIDE DEF K, new, n
<1>5. K = Slots
  BY <1>1, <1>2, <1>3, <1>4
<1>6. ASSUME NEW i \in Slots PROVE Rank(Slots, i) = i
  <2>1. {k \in Slots : k <= i} = 1 .. i
    BY <1>1 DEF Slots, n
  <2>2. Cardinality(1 .. i) = i
    <3>1. i \in Nat /\ 1 <= i
      BY <1>1 DEF Slots, n
    <3>2. Cardinality(1 .. i) = IF 1 > i THEN 0 ELSE i - 1 + 1
      BY <3>1, FS_Interval
    <3>3. QED
      BY <3>1, <3>2
  <2>3. QED
    BY <2>1, <2>2 DEF Rank
<1>7. ASSUME NEW i \in Slots PROVE new[i] = table[i]
  <2>1. i \in 1 .. Cardinality(Slots) /\ Ranked(Slots, i) = i
    BY <1>6, RankedIsTheMember
  <2>2. QED
    BY <1>3, <1>5, <2>1
<1>8. QED
  BY <1>3, <1>7 DEF Tables, new

\* The outcome of a setter, case by case.
LEMMA SetRangeCases ==
    ASSUME NEW table \in Tables, NEW box \in Boxes, NEW aux \in Auxs,
           NEW start \in RangeSteps, NEW end \in RangeSteps
    PROVE  LET cleared == removeModeActivationCondition(table, box)
               done    == SetRange(table, box, aux, start, end)
               mac     == [modeId |-> box, auxChannelIndex |-> aux,
                           startStep |-> start, endStep |-> end]
           IN  \/ done.ret = -1 /\ done.table = table
               \/ aux = NoAux /\ done.ret = 0 /\ done.table = cleared
               \/ /\ aux # NoAux /\ aux \in Channels /\ done.ret = 0
                  /\ \E slot \in Slots : /\ ~Configured(cleared[slot])
                                         /\ done.table = [cleared EXCEPT ![slot] = mac]
<1> DEFINE cleared == removeModeActivationCondition(table, box)
           done    == SetRange(table, box, aux, start, end)
           mac     == [modeId |-> box, auxChannelIndex |-> aux,
                       startStep |-> start, endStep |-> end]
           free    == FreeSlots(cleared)
<1>1. CASE Refused(aux, start, end)
  BY <1>1 DEF SetRange
<1>2. CASE ~Refused(aux, start, end) /\ aux = NoAux
  BY <1>2 DEF SetRange
<1>3. CASE ~Refused(aux, start, end) /\ aux # NoAux /\ free = {}
  <2>1. done.ret = -1 /\ done.table = cleared
    BY <1>3 DEF SetRange
  <2>2. cleared = table
    BY <1>3, FullWasFull
  <2>3. QED
    BY <2>1, <2>2
<1>4. CASE ~Refused(aux, start, end) /\ aux # NoAux /\ free # {}
  <2>1. done.ret = 0 /\ done.table = [cleared EXCEPT ![FirstOf(free)] = mac]
    BY <1>4 DEF SetRange
  <2>2. free \in SUBSET Slots
    BY DEF FreeSlots
  <2>3. FirstOf(free) \in Slots /\ ~Configured(cleared[FirstOf(free)])
    <3>1. FirstOf(free) \in free
      BY <1>4, <2>2, FirstOfIsFirst
    <3>2. QED
      BY <3>1 DEF FreeSlots
  <2>4. aux \in Channels
    BY <1>4, ModeConstants DEF ModeConstants, Refused, Auxs, Channels
  <2>5. QED
    BY <1>4, <2>1, <2>3, <2>4
<1>5. QED
  BY <1>1, <1>2, <1>3, <1>4

\* A setter leaves a table of conditions behind.
LEMMA SetRangeTyped ==
    ASSUME NEW table \in Tables, NEW box \in Boxes, NEW aux \in Auxs,
           NEW start \in RangeSteps, NEW end \in RangeSteps
    PROVE  SetRange(table, box, aux, start, end).table \in Tables
<1> DEFINE cleared == removeModeActivationCondition(table, box)
           mac     == [modeId |-> box, auxChannelIndex |-> aux,
                       startStep |-> start, endStep |-> end]
<1>1. cleared \in Tables
  BY RemoveShape
<1>2. aux \in Channels => mac \in Condition
  BY DEF Condition
<1> HIDE DEF cleared, mac
<1>3. aux \in Channels => \A slot \in Slots : [cleared EXCEPT ![slot] = mac] \in Tables
  BY <1>1, <1>2 DEF Tables
<1>4. LET done == SetRange(table, box, aux, start, end)
      IN  \/ done.table = table
          \/ done.table = cleared
          \/ /\ aux \in Channels
             /\ \E slot \in Slots : done.table = [cleared EXCEPT ![slot] = mac]
  BY SetRangeCases DEF cleared, mac
<1>5. QED
  BY <1>1, <1>3, <1>4

\* A call that is refused changes nothing, not even when the search for a slot
\* fails after the old conditions have been removed.
LEMMA RefusedIsHarmless ==
    ASSUME NEW table \in Tables, NEW box \in Boxes, NEW aux \in Auxs,
           NEW start \in RangeSteps, NEW end \in RangeSteps,
           SetRange(table, box, aux, start, end).ret = -1
    PROVE  SetRange(table, box, aux, start, end).table = table
BY SetRangeCases

\* A call that succeeds leaves the other boxes alone and is read back as it was
\* made.
LEMMA SetRangeIsLocal ==
    ASSUME NEW table \in Tables, NEW box \in Boxes, NEW aux \in Auxs,
           NEW start \in RangeSteps, NEW end \in RangeSteps,
           SetRange(table, box, aux, start, end).ret = 0
    PROVE  LET new == SetRange(table, box, aux, start, end).table
           IN  /\ OtherConditions(new, box) = OtherConditions(table, box)
               /\ aux # NoAux /\ start < end => GetRange(new, box) = <<aux, start, end>>
               /\ aux = NoAux => GetRange(new, box) = <<NoAux, 0, 0>>
<1> DEFINE cleared == removeModeActivationCondition(table, box)
           new     == SetRange(table, box, aux, start, end).table
           mac     == [modeId |-> box, auxChannelIndex |-> aux,
                       startStep |-> start, endStep |-> end]
           mine    == {i \in Slots : Configured(new[i]) /\ new[i].modeId = box}
<1>1. /\ cleared \in Tables
      /\ OtherConditions(cleared, box) = OtherConditions(table, box)
      /\ \A i \in Slots : Configured(cleared[i]) => cleared[i].modeId # box
  BY RemoveShape, RemoveIsLocal
<1>2. \/ aux = NoAux /\ new = cleared
      \/ aux # NoAux /\ \E slot \in Slots : /\ ~Configured(cleared[slot])
                                            /\ new = [cleared EXCEPT ![slot] = mac]
  BY SetRangeCases
<1>3. GetRange(new, box) = IF mine = {} THEN <<NoAux, 0, 0>>
                           ELSE <<new[FirstOf(mine)].auxChannelIndex,
                                  new[FirstOf(mine)].startStep, new[FirstOf(mine)].endStep>>
  BY DEF GetRange
<1> HIDE DEF cleared, new, mac
<1>4. CASE aux = NoAux /\ new = cleared
  <2>1. mine = {}
    BY <1>1, <1>4
  <2>2. QED
    BY <1>1, <1>3, <1>4, <2>1 DEF new
<1>5. ASSUME aux # NoAux, NEW slot \in Slots, ~Configured(cleared[slot]),
             new = [cleared EXCEPT ![slot] = mac]
      PROVE  /\ OtherConditions(new, box) = OtherConditions(table, box)
             /\ start < end => GetRange(new, box) = <<aux, start, end>>
  <2>1. /\ new[slot] = mac /\ mac.modeId = box
        /\ \A i \in Slots \ {slot} : new[i] = cleared[i]
    BY <1>1, <1>5 DEF Tables, mac
  <2>2. \A i \in Slots : (Configured(new[i]) /\ new[i].modeId # box)
                            <=> (Configured(cleared[i]) /\ cleared[i].modeId # box)
    BY <1>5, <2>1
  <2>3. \A i \in Slots : Configured(new[i]) /\ new[i].modeId # box => new[i] = cleared[i]
    BY <2>1
  <2>4. OtherConditions(new, box) = OtherConditions(cleared, box)
    BY <2>2, <2>3 DEF OtherConditions
  <2>5. ASSUME start < end PROVE GetRange(new, box) = <<aux, start, end>>
    <3>1. Configured(mac)
      <4>1. mac.startStep = start /\ mac.endStep = end
        BY DEF mac
      <4>2. EmptyMac.startStep = 0 /\ EmptyMac.endStep = 0
        BY DEF EmptyMac
      <4>3. start # 0 \/ end # 0
        BY <2>5 DEF RangeSteps
      <4>4. QED
        BY <4>1, <4>2, <4>3 DEF Configured
    <3>2. mine = {slot}
      BY <1>1, <2>1, <3>1
    <3>3. FirstOf(mine) = slot
      BY <3>2, FirstOfIsFirst
    <3>4. QED
      BY <1>3, <2>1, <3>2, <3>3 DEF mac
  <2>6. QED
    BY <1>1, <2>4, <2>5
<1>6. QED
  BY <1>2, <1>4, <1>5 DEF new

-----------------------------------------------------------------------------
(* Rates *)

\* A number that is constrained lies within the limits.
LEMMA ConstrainInside ==
    ASSUME NEW n \in Int, NEW lo \in Int, NEW hi \in Int, lo <= hi
    PROVE  /\ Constrain(n, lo, hi) \in lo .. hi
           /\ lo <= n /\ n <= hi => Constrain(n, lo, hi) = n
BY DEF Constrain

\* A rate that is set is one that can be stored.
LEMMA SetRateTyped ==
    ASSUME NEW rates \in Rates, NEW shown \in Int
    PROVE  SetRate(rates, shown) \in Rates
<1>1. rates.rates_type \in RateTypes
  BY DEF Rates
<1>2. /\ sitlRateScaleFactor(rates.rates_type) \in {1, 1000}
      /\ rc_rate_limit(rates.rates_type) \in 1 .. StoredMax
  BY <1>1 DEF sitlRateScaleFactor, rc_rate_limit, StoredMax
<1> DEFINE scale == sitlRateScaleFactor(rates.rates_type)
           n     == (2 * shown + scale) \div (2 * scale)
<1>3. n \in Int
  BY <1>2
<1> DEFINE limit == rc_rate_limit(rates.rates_type)
<1>4. SetRate(rates, shown) = [rates EXCEPT !.rcRate = Constrain(n, 0, limit)]
  BY DEF SetRate
<1> HIDE DEF n
<1>5. Constrain(n, 0, limit) \in 0 .. StoredMax
  <2>1. limit \in Int /\ 0 <= limit /\ limit <= StoredMax
    BY <1>2 DEF StoredMax
  <2> HIDE DEF limit
  <2>2. Constrain(n, 0, limit) \in 0 .. limit
    BY <1>3, <2>1, ConstrainInside
  <2>3. QED
    BY <2>1, <2>2 DEF StoredMax
<1> HIDE DEF limit
<1>6. QED
  BY <1>4, <1>5 DEF Rates

\* A rate within the limit of its type is stored again as it was read.
LEMMA RateReadBack ==
    ASSUME NEW rates \in Rates, rates.rcRate <= rc_rate_limit(rates.rates_type)
    PROVE  SetRate(rates, GetRate(rates)) = rates
<1> DEFINE scale == sitlRateScaleFactor(rates.rates_type)
           r     == rates.rcRate
           limit == rc_rate_limit(rates.rates_type)
<1>1. r \in 0 .. StoredMax /\ rates.rates_type \in RateTypes /\ r <= limit
  BY DEF Rates
<1>2. scale \in {1, 1000} /\ limit \in 1 .. StoredMax
  BY <1>1 DEF sitlRateScaleFactor, rc_rate_limit, StoredMax
<1>3. SetRate(rates, GetRate(rates))
        = [rates EXCEPT !.rcRate = Constrain((2 * (r * scale) + scale) \div (2 * scale), 0, limit)]
  BY DEF SetRate, GetRate
<1> HIDE DEF scale, r, limit
<1>4. (2 * (r * scale) + scale) \div (2 * scale) = r
  <2>1. r \in Int
    BY <1>1 DEF StoredMax
  <2>2. CASE scale = 1
    BY <2>1, <2>2
  <2>3. CASE scale = 1000
    BY <2>1, <2>3
  <2>4. QED
    BY <1>2, <2>2, <2>3
<1>5. Constrain(r, 0, limit) = r
  <2>1. r \in Int /\ limit \in Int /\ 0 <= r /\ r <= limit /\ 0 <= limit
    BY <1>1, <1>2 DEF StoredMax
  <2>2. QED
    BY <2>1, ConstrainInside
<1>6. [rates EXCEPT !.rcRate = r] = rates
  BY DEF Rates, r
<1>7. QED
  BY <1>3, <1>4, <1>5, <1>6
-----------------------------------------------------------------------------
(* The invariant: the file of the aircraft in flight exists, and a snapshot  *)
(* can only differ from the settings of a chain that is not in step with     *)
(* them, so a rebuild that a snapshot asks for is one the chain needs.       *)

SnapshotsFit == \A c \in Chains : c \notin touched => snapshot[c] = Input(pg, c)

SettingsInv ==
    /\ TypeOK
    /\ file[env] # NoFile
    /\ SnapshotsFit

Handlers == {<<>>, <<"gyro", "dterm">>, <<"dterm">>, <<"rc">>}

\* What each chain is built from.
LEMMA ChainInputs ==
    ASSUME NEW s
    PROVE  /\ Input(s, "gyro") = s.filter
           /\ Input(s, "dterm") = s.profile
           /\ Input(s, "rc") = <<s.rates, s.profile>>
           /\ DOMAIN Inputs(s) = Chains
           /\ \A c \in Chains : Inputs(s)[c] = Input(s, c)
<1>1. DOMAIN Inputs(s) = Chains /\ \A c \in Chains : Inputs(s)[c] = Input(s, c)
  BY DEF Inputs
<1>2. /\ Input(s, "gyro") = s.filter
      /\ Input(s, "dterm") = s.profile
      /\ Input(s, "rc") = <<s.rates, s.profile>>
  BY DEF Input
<1>3. QED
  BY <1>1, <1>2

\* What is left of a handler's calls is again one of the handlers' ends.
LEMMA HandlerTail ==
    ASSUME NEW h \in Handlers, h # <<>>
    PROVE  Head(h) \in Chains /\ Tail(h) \in Handlers
<1>1. CASE h = <<"gyro", "dterm">>
  <2>1. Head(h) = "gyro" /\ Tail(h) = <<"dterm">>
    BY <1>1
  <2>2. QED
    BY <2>1 DEF Chains, Handlers
<1>2. CASE h = <<"dterm">>
  <2>1. Head(h) = "dterm" /\ Tail(h) = <<>>
    BY <1>2
  <2>2. QED
    BY <2>1 DEF Chains, Handlers
<1>3. CASE h = <<"rc">>
  <2>1. Head(h) = "rc" /\ Tail(h) = <<>>
    BY <1>3
  <2>2. QED
    BY <2>1 DEF Chains, Handlers
<1>4. QED
  BY <1>1, <1>2, <1>3 DEF Handlers

\* A change of one group of settings gives settings again.
LEMMA ChangedSettings ==
    ASSUME NEW s \in Settings
    PROVE  /\ \A v \in Level : /\ [s EXCEPT !.filter = v] \in Settings
                               /\ [s EXCEPT !.profile = v] \in Settings
                               /\ [s EXCEPT !.mixer = v] \in Settings
           /\ \A v, w \in Level : [s EXCEPT !.filter = v, !.profile = w] \in Settings
           /\ \A on \in BOOLEAN : [s EXCEPT !.threeD = on] \in Settings
           /\ \A r \in Rates : [s EXCEPT !.rates = r] \in Settings
           /\ \A r \in 0 .. StoredMax : [s EXCEPT !.rates.rcRate = r] \in Settings
           /\ \A t \in RateTypes : [s EXCEPT !.rates.rates_type = t] \in Settings
           /\ \A t \in Tables : [s EXCEPT !.modes = t] \in Settings
           /\ \A i \in Slots, mac \in Condition : [s EXCEPT !.modes[i] = mac] \in Settings
<1>1. /\ \A v \in Level : /\ [s EXCEPT !.filter = v] \in Settings
                          /\ [s EXCEPT !.profile = v] \in Settings
                          /\ [s EXCEPT !.mixer = v] \in Settings
      /\ \A v, w \in Level : [s EXCEPT !.filter = v, !.profile = w] \in Settings
      /\ \A on \in BOOLEAN : [s EXCEPT !.threeD = on] \in Settings
  BY DEF Settings
<1>2. \A r \in Rates : [s EXCEPT !.rates = r] \in Settings
  BY DEF Settings
<1>3. \A t \in Tables : [s EXCEPT !.modes = t] \in Settings
  BY DEF Settings
<1>4. s.rates \in Rates /\ s.modes \in Tables
  BY DEF Settings
<1>5. \A r \in 0 .. StoredMax : [s.rates EXCEPT !.rcRate = r] \in Rates
  BY <1>4 DEF Rates
<1>6. \A t \in RateTypes : [s.rates EXCEPT !.rates_type = t] \in Rates
  BY <1>4 DEF Rates
<1>7. \A i \in Slots, mac \in Condition : [s.modes EXCEPT ![i] = mac] \in Tables
  BY <1>4 DEF Tables
<1>8. \A r \in 0 .. StoredMax : [s EXCEPT !.rates.rcRate = r] \in Settings
  BY <1>2, <1>5
<1>9. \A t \in RateTypes : [s EXCEPT !.rates.rates_type = t] \in Settings
  BY <1>2, <1>6
<1>10. \A i \in Slots, mac \in Condition : [s EXCEPT !.modes[i] = mac] \in Settings
  BY <1>3, <1>7
<1>11. QED
  BY <1>1, <1>2, <1>3, <1>8, <1>9, <1>10

\* What Run leaves: the new settings, and every chain either built from them or
\* as it was.
LEMMA RunEffect ==
    ASSUME TypeOK, NEW new \in Settings, NEW rebuilt \in SUBSET Chains, Run(new, rebuilt)
    PROVE  /\ pg' = new /\ pg' \in Settings
           /\ DOMAIN chain' = Chains
           /\ flying' \subseteq Chains /\ touched' \subseteq Chains
           /\ \A c \in Chains : c \notin touched' =>
                 c \in rebuilt \/ (c \notin touched /\ Input(new, c) = Input(pg, c))
BY DEF TypeOK, Run

\* Settings that change in RAM, with the snapshots as they are.
LEMMA RamChange ==
    ASSUME SettingsInv, NEW new \in Settings, Run(new, {}), snapshot' = snapshot,
           UNCHANGED stored
    PROVE  /\ pg' \in Settings /\ DOMAIN chain' = Chains /\ DOMAIN snapshot' = Chains
           /\ flying' \subseteq Chains /\ touched' \subseteq Chains
           /\ file'[env'] # NoFile /\ SnapshotsFit'
<1>1. /\ pg' = new /\ pg' \in Settings /\ DOMAIN chain' = Chains
      /\ flying' \subseteq Chains /\ touched' \subseteq Chains
      /\ \A c \in Chains : c \notin touched' => c \notin touched /\ Input(new, c) = Input(pg, c)
  BY RunEffect DEF SettingsInv
<1>2. SnapshotsFit'
  BY <1>1 DEF SettingsInv, SnapshotsFit
<1>3. QED
  BY <1>1, <1>2 DEF SettingsInv, TypeOK, stored

\* A handler that writes settings of their type keeps the invariant.
LEMMA EditStep ==
    ASSUME SettingsInv, NEW new \in Settings, NEW calls \in Handlers, Edit(new, calls),
           activeMacs' \subseteq Slots
    PROVE  SettingsInv'
<1>1. Run(new, {}) /\ snapshot' = snapshot /\ UNCHANGED stored
  BY DEF Edit
<1>2. /\ pg' \in Settings /\ DOMAIN chain' = Chains /\ DOMAIN snapshot' = Chains
      /\ flying' \subseteq Chains /\ touched' \subseteq Chains
      /\ file'[env'] # NoFile /\ SnapshotsFit'
  BY <1>1, RamChange
<1>3. edits' \in 0 .. MaxEdits
  BY SettingsConstants DEF SettingsConstants, Edit, NextEdit, SettingsInv, TypeOK
<1>4. TypeOK'
  BY <1>2, <1>3 DEF Edit, SettingsInv, TypeOK, Handlers, stored, requested
<1>5. QED
  BY <1>2, <1>4 DEF SettingsInv

\* A setter that writes settings of their type keeps the invariant.
LEMMA HostEditStep ==
    ASSUME SettingsInv, NEW new \in Settings, HostEdit(new),
           activeMacs' \subseteq Slots, mixer' \in Level \X BOOLEAN
    PROVE  SettingsInv'
<1>1. Run(new, {}) /\ snapshot' = snapshot /\ UNCHANGED stored
  BY DEF HostEdit
<1>2. /\ pg' \in Settings /\ DOMAIN chain' = Chains /\ DOMAIN snapshot' = Chains
      /\ flying' \subseteq Chains /\ touched' \subseteq Chains
      /\ file'[env'] # NoFile /\ SnapshotsFit'
  BY <1>1, RamChange
<1>3. edits' \in 0 .. MaxEdits
  BY SettingsConstants DEF SettingsConstants, HostEdit, NextEdit, SettingsInv, TypeOK
<1>4. TypeOK'
  BY <1>2, <1>3 DEF HostEdit, SettingsInv, TypeOK, stored, requested
<1>5. QED
  BY <1>2, <1>4 DEF SettingsInv
\* The steps of the configurator.
LEMMA MspSteps == ASSUME SettingsInv, Msp PROVE SettingsInv'
<1> USE DEF SettingsInv
<1>a. pg \in Settings /\ activeMacs \subseteq Slots
  BY DEF TypeOK
<1>b. \A t : ActiveMacs(t) \subseteq Slots
  BY DEF ActiveMacs
<1>1. CASE MspSetFilterConfig
  <2>1. PICK f \in Level, p \in Level :
           Edit([pg EXCEPT !.filter = f, !.profile = p], <<"gyro", "dterm">>)
    BY <1>1 DEF MspSetFilterConfig
  <2>2. [pg EXCEPT !.filter = f, !.profile = p] \in Settings
    BY <1>a, ChangedSettings
  <2>3. activeMacs' \subseteq Slots
    BY <1>1, <1>a DEF MspSetFilterConfig
  <2>4. QED
    BY <2>1, <2>2, <2>3, EditStep DEF Handlers
<1>2. CASE MspSetRcTuning
  <2>1. PICK r \in {0, StoredMax} : Edit([pg EXCEPT !.rates.rcRate = r], <<"rc">>)
    BY <1>2 DEF MspSetRcTuning
  <2>2. [pg EXCEPT !.rates.rcRate = r] \in Settings
    <3>1. r \in 0 .. StoredMax
      BY DEF StoredMax
    <3>2. QED
      BY <1>a, <3>1, ChangedSettings
  <2>3. activeMacs' \subseteq Slots
    BY <1>2, <1>a DEF MspSetRcTuning
  <2>4. QED
    BY <2>1, <2>2, <2>3, EditStep DEF Handlers
<1>3. CASE SetInRam
  <2>1. PICK new \in Settings : Edit(new, <<>>)
    BY <1>3, <1>a, ChangedSettings DEF SetInRam
  <2>2. activeMacs' \subseteq Slots
    BY <1>3, <1>a DEF SetInRam
  <2>3. QED
    BY <2>1, <2>2, EditStep DEF Handlers
<1>4. CASE MspSetModeRange
  <2>1. PICK i \in Slots, mac \in Conditions :
           /\ Edit([pg EXCEPT !.modes[i] = mac], <<>>)
           /\ activeMacs' = ActiveMacs(pg'.modes)
    BY <1>4 DEF MspSetModeRange
  <2>2. [pg EXCEPT !.modes[i] = mac] \in Settings
    BY <1>a, ChangedSettings, SettingsConstants DEF SettingsConstants
  <2>3. QED
    BY <1>b, <2>1, <2>2, EditStep DEF Handlers
<1>5. ASSUME NEW c \in Chains, Call(c) PROVE SettingsInv'
  <2> DEFINE changed == snapshot[c] # Input(pg, c)
             rebuilt == IF changed THEN {c} ELSE {}
  <2>1. /\ Run(pg, rebuilt)
        /\ snapshot' = IF changed THEN [snapshot EXCEPT ![c] = Input(pg, c)] ELSE snapshot
        /\ handler # <<>> /\ handler' = Tail(handler)
        /\ UNCHANGED <<stored, mixer, activeMacs, requested, gLocalPendingEepromWrite,
                       gLocalRunning, armed, bounds>>
    BY <1>5 DEF Call
  <2>2. /\ pg' = pg /\ DOMAIN chain' = Chains
        /\ flying' \subseteq Chains /\ touched' \subseteq Chains
        /\ \A d \in Chains : d \notin touched' => d \in rebuilt \/ d \notin touched
    <3>1. rebuilt \in SUBSET Chains
      OBVIOUS
    <3> HIDE DEF rebuilt
    <3>2. QED
      BY <1>a, <2>1, <3>1, RunEffect
  <2>3. DOMAIN snapshot' = Chains
    BY <2>1 DEF TypeOK
  <2>4. handler' \in Handlers
    BY <2>1, HandlerTail DEF TypeOK, Handlers
  <2>5. SnapshotsFit'
    <3> SUFFICES ASSUME NEW d \in Chains, d \notin touched' PROVE snapshot'[d] = Input(pg, d)
      BY <2>2 DEF SnapshotsFit
    <3>1. CASE d \in rebuilt
      BY <2>1, <3>1 DEF TypeOK
    <3>2. CASE d \notin rebuilt /\ d \notin touched
      BY <2>1, <3>2 DEF TypeOK, SnapshotsFit
    <3>3. QED
      BY <2>2, <3>1, <3>2
  <2>6. TypeOK'
    BY <1>a, <2>1, <2>2, <2>3, <2>4 DEF TypeOK, stored, requested, bounds, Handlers
  <2>7. QED
    BY <2>1, <2>5, <2>6 DEF stored
<1>6. CASE Save
  <2>1. eepromData' \in Settings /\ DOMAIN file' = Paths
        /\ (\A p \in Paths : file'[p] = NoFile \/ file'[p] \in Settings)
        /\ file'[env] # NoFile
    BY <1>6, <1>a, SettingsConstants DEF SettingsConstants, Save, Persist, TypeOK
  <2>2. TypeOK'
    BY <1>6, <2>1 DEF Save, TypeOK, loop, requested, bounds
  <2>3. QED
    BY <1>6, <2>1, <2>2 DEF Save, SnapshotsFit, loop
<1>7. CASE systemReset \/ systemResetToBootloader
  <2>1. RequestReboot /\ (Persist \/ UNCHANGED <<eepromData, file>>)
    BY <1>7 DEF systemReset, systemResetToBootloader
  <2>2. eepromData' \in Settings /\ DOMAIN file' = Paths
        /\ (\A p \in Paths : file'[p] = NoFile \/ file'[p] \in Settings)
        /\ file'[env] # NoFile
    BY <2>1, <1>a, SettingsConstants DEF SettingsConstants, Persist, TypeOK
  <2>3. requests' \in 0 .. MaxRequests
    BY <2>1, SettingsConstants DEF SettingsConstants, RequestReboot, NextRequest, TypeOK
  <2>4. TypeOK'
    BY <2>1, <2>2, <2>3 DEF RequestReboot, TypeOK, loop
  <2>5. QED
    BY <2>1, <2>2, <2>4 DEF RequestReboot, SnapshotsFit, loop
<1>8. QED
  BY <1>1, <1>2, <1>3, <1>4, <1>5, <1>6, <1>7 DEF Msp

\* The deferred work of a step.  The image that is found is the one to load
\* unless the records already hold it; the snapshots are then those of what
\* was rebuilt, or of chains whose settings stayed the same.
LEMMA ReloadEffect ==
    ASSUME SettingsInv, NEW reread \in BOOLEAN, localRunPendingReloadInternal(reread)
    PROVE  \E new \in Settings, rebuilt \in SUBSET Chains :
              /\ \/ /\ UNCHANGED <<pg, loop, mixer>>
                    /\ snapshot' = [snapshot EXCEPT !["gyro"] = pg.filter, !["dterm"] = pg.profile]
                 \/ /\ Run(new, rebuilt)
                    /\ mixer' = MixerInput(new) /\ snapshot' = Inputs(new)
              /\ \A c \in rebuilt :
                    \/ Input(new, c) # Input(pg, c)
                    \/ /\ c # "gyro" /\ (reread \/ gLocalPathPending)
                       /\ new # pg \/ file[gLocalPendingEepromPath] = NoFile
              /\ \A c \in Chains \ rebuilt : Input(new, c) = Input(pg, c)
              /\ env' \in Paths /\ eepromData' \in Settings
              /\ DOMAIN file' = Paths
              /\ \A p \in Paths : file'[p] = NoFile \/ file'[p] \in Settings
              /\ file'[env'] # NoFile
              /\ {gLocalPathPending', gLocalReloadPending', gLocalPendingEepromWrite'} \subseteq BOOLEAN
              /\ UNCHANGED <<activeMacs, gLocalPendingEepromPath, gLocalRunning, armed, handler, bounds>>
<1> DEFINE flushed == IF eepromData = pg THEN file ELSE [file EXCEPT ![env] = pg]
           target  == IF gLocalPathPending THEN gLocalPendingEepromPath ELSE env
           fresh   == flushed[target] = NoFile
           found   == IF fresh THEN Default ELSE flushed[target]
           reads   == reread \/ gLocalPathPending
           new     == IF reads THEN found ELSE pg
           rebuilt == (IF reads THEN {"dterm", "rc"} ELSE {})
                      \cup (IF new.filter # pg.filter THEN {"gyro"} ELSE {})
                      \cup (IF new.profile # pg.profile THEN {"dterm"} ELSE {})
<1>1. /\ env' = target
      /\ file' = [flushed EXCEPT ![target] = found]
      /\ eepromData' = found
      /\ gLocalPathPending' = FALSE /\ gLocalReloadPending' = FALSE
      /\ gLocalPendingEepromWrite' = FALSE
      /\ IF ~fresh /\ found = pg
         THEN /\ snapshot' = [snapshot EXCEPT !["gyro"] = pg.filter, !["dterm"] = pg.profile]
              /\ UNCHANGED <<pg, loop, mixer>>
         ELSE /\ Run(new, rebuilt)
              /\ mixer' = MixerInput(new)
              /\ snapshot' = Inputs(new)
      /\ UNCHANGED <<activeMacs, gLocalPendingEepromPath, gLocalRunning, armed, handler, bounds>>
  BY DEF localRunPendingReloadInternal, GyroReference, BootReapply
<1>2. /\ pg \in Settings /\ env \in Paths /\ gLocalPendingEepromPath \in Paths
      /\ DOMAIN file = Paths /\ \A p \in Paths : file[p] = NoFile \/ file[p] \in Settings
      /\ file[env] # NoFile /\ NoFile \notin Settings /\ Default \in Settings
      /\ gLocalPathPending \in BOOLEAN
  BY SettingsConstants DEF SettingsConstants, SettingsInv, TypeOK
<1>3. /\ DOMAIN flushed = Paths /\ \A p \in Paths : flushed[p] = NoFile \/ flushed[p] \in Settings
      /\ \A p \in Paths : flushed[p] = NoFile => file[p] = NoFile
      /\ target \in Paths
  BY <1>2
<1>4. found \in Settings
  BY <1>2, <1>3
<1>5. new \in Settings
  BY <1>2, <1>4
<1>6. /\ DOMAIN file' = Paths /\ \A p \in Paths : file'[p] = NoFile \/ file'[p] \in Settings
      /\ file'[env'] # NoFile
  <2> HIDE DEF found, target, flushed
  <2>1. QED
    BY <1>1, <1>2, <1>3, <1>4
<1>7. fresh => gLocalPathPending /\ file[gLocalPendingEepromPath] = NoFile
  <2>1. fresh => file[target] = NoFile
    BY <1>3
  <2>2. QED
    BY <1>2, <2>1
<1>8. CASE ~fresh /\ found = pg
  <2>1. /\ UNCHANGED <<pg, loop, mixer>>
        /\ snapshot' = [snapshot EXCEPT !["gyro"] = pg.filter, !["dterm"] = pg.profile]
    BY <1>1, <1>8
  <2>2. pg \in Settings /\ {} \in SUBSET Chains
    BY <1>2
  <2>3. /\ env' \in Paths /\ eepromData' \in Settings
        /\ {gLocalPathPending', gLocalReloadPending', gLocalPendingEepromWrite'} \subseteq BOOLEAN
        /\ UNCHANGED <<activeMacs, gLocalPendingEepromPath, gLocalRunning, armed, handler, bounds>>
    BY <1>1, <1>3, <1>4
  <2> HIDE DEF found, fresh, target, flushed, new, rebuilt
  <2>4. QED
    BY <1>6, <2>1, <2>2, <2>3
<1>9. CASE ~(~fresh /\ found = pg)
  <2>1. rebuilt \in SUBSET Chains
    BY DEF Chains
  <2>2. ASSUME NEW c \in rebuilt
        PROVE  \/ Input(new, c) # Input(pg, c)
               \/ /\ c # "gyro" /\ (reread \/ gLocalPathPending)
                  /\ new # pg \/ file[gLocalPendingEepromPath] = NoFile
    <3>1. CASE reads /\ c \in {"dterm", "rc"}
      <4>1. new # pg \/ file[gLocalPendingEepromPath] = NoFile
        BY <1>7, <1>9, <3>1
      <4>2. QED
        BY <3>1, <4>1
    <3>2. CASE c = "gyro" /\ new.filter # pg.filter
      BY <3>2, ChainInputs
    <3>3. CASE c = "dterm" /\ new.profile # pg.profile
      BY <3>3, ChainInputs
    <3>4. QED
      BY <2>2, <3>1, <3>2, <3>3
  <2>3. ASSUME NEW c \in Chains \ rebuilt PROVE Input(new, c) = Input(pg, c)
    <3>1. CASE c = "gyro"
      BY <2>3, <3>1, ChainInputs
    <3>2. CASE c = "dterm"
      BY <2>3, <3>2, ChainInputs
    <3>3. CASE c = "rc"
      <4>1. new = pg
        BY <2>3, <3>3
      <4>2. QED
        BY <4>1
    <3>4. QED
      BY <3>1, <3>2, <3>3 DEF Chains
  <2> HIDE DEF new, rebuilt, found, fresh
  <2>4. QED
    BY <1>1, <1>3, <1>4, <1>5, <1>6, <1>9, <2>1, <2>2, <2>3
<1>10. QED
  BY <1>8, <1>9

\* A reload, path switch or reboot keeps the invariant.
LEMMA ReloadStep ==
    ASSUME SettingsInv, NEW reread \in BOOLEAN, localRunPendingReloadInternal(reread),
           gLocalRebootPending' \in BOOLEAN
    PROVE  SettingsInv'
<1>1. PICK new \in Settings, rebuilt \in SUBSET Chains :
         /\ \/ /\ UNCHANGED <<pg, loop, mixer>>
               /\ snapshot' = [snapshot EXCEPT !["gyro"] = pg.filter, !["dterm"] = pg.profile]
            \/ /\ Run(new, rebuilt)
               /\ mixer' = MixerInput(new) /\ snapshot' = Inputs(new)
         /\ env' \in Paths /\ eepromData' \in Settings
         /\ DOMAIN file' = Paths
         /\ \A p \in Paths : file'[p] = NoFile \/ file'[p] \in Settings
         /\ file'[env'] # NoFile
         /\ {gLocalPathPending', gLocalReloadPending', gLocalPendingEepromWrite'} \subseteq BOOLEAN
         /\ UNCHANGED <<activeMacs, gLocalPendingEepromPath, gLocalRunning, armed, handler, bounds>>
  BY ReloadEffect
<1>2. TypeOK /\ SnapshotsFit /\ DOMAIN snapshot = Chains
  BY DEF SettingsInv, TypeOK
<1>3. /\ pg' \in Settings /\ DOMAIN chain' = Chains /\ DOMAIN snapshot' = Chains
      /\ flying' \subseteq Chains /\ touched' \subseteq Chains
      /\ mixer' \in Level \X BOOLEAN
      /\ SnapshotsFit'
  <2>1. CASE /\ UNCHANGED <<pg, loop, mixer>>
             /\ snapshot' = [snapshot EXCEPT !["gyro"] = pg.filter, !["dterm"] = pg.profile]
    <3>1. SnapshotsFit'
      <4> SUFFICES ASSUME NEW c \in Chains, c \notin touched PROVE snapshot'[c] = Input(pg, c)
        BY <2>1 DEF SnapshotsFit, loop
      <4>1. snapshot[c] = Input(pg, c)
        BY <1>2 DEF SnapshotsFit
      <4>2. QED
        BY <1>2, <2>1, <4>1, ChainInputs DEF Chains
    <3>2. QED
      BY <1>2, <2>1, <3>1 DEF TypeOK, loop
  <2>2. CASE /\ Run(new, rebuilt)
             /\ mixer' = MixerInput(new) /\ snapshot' = Inputs(new)
    <3>1. /\ pg' = new /\ pg' \in Settings /\ DOMAIN chain' = Chains
          /\ flying' \subseteq Chains /\ touched' \subseteq Chains
      BY <1>2, <2>2, RunEffect
    <3>2. MixerInput(new) \in Level \X BOOLEAN
      BY DEF MixerInput, Settings
    <3>3. DOMAIN snapshot' = Chains /\ SnapshotsFit'
      BY <2>2, <3>1, ChainInputs DEF SnapshotsFit
    <3>4. QED
      BY <2>2, <3>1, <3>2, <3>3
  <2>3. QED
    BY <1>1, <2>1, <2>2
<1>4. TypeOK'
  BY <1>1, <1>2, <1>3 DEF TypeOK, bounds
<1>5. QED
  BY <1>1, <1>3, <1>4 DEF SettingsInv

\* The steps of the host.
LEMMA HostSteps == ASSUME SettingsInv, Host PROVE SettingsInv'
<1> USE DEF SettingsInv
<1>a. /\ pg \in Settings /\ activeMacs \subseteq Slots /\ mixer \in Level \X BOOLEAN
      /\ pg.modes \in Tables /\ pg.rates \in Rates
  BY DEF TypeOK, Settings
<1>b. \A t : ActiveMacs(t) \subseteq Slots
  BY DEF ActiveMacs
<1>1. ASSUME NEW shown \in {1, 2000}, sitl_local_set_rate(shown) PROVE SettingsInv'
  <2>1. [pg EXCEPT !.rates = SetRate(pg.rates, shown)] \in Settings
    <3>1. shown \in Int
      OBVIOUS
    <3>2. SetRate(pg.rates, shown) \in Rates
      BY <1>a, <3>1, SetRateTyped
    <3>3. \A r \in Rates : [pg EXCEPT !.rates = r] \in Settings
      BY <1>a DEF Settings
    <3> DEFINE rates == SetRate(pg.rates, shown)
    <3>4. rates \in Rates
      BY <3>2
    <3> HIDE DEF rates
    <3>5. [pg EXCEPT !.rates = rates] \in Settings
      BY <3>3, <3>4
    <3>6. QED
      BY <3>5 DEF rates
  <2>2. QED
    BY <1>1, <1>a, <2>1, HostEditStep DEF sitl_local_set_rate
<1>2. ASSUME NEW type \in RateTypes, sitl_local_set_rate_mode(type) PROVE SettingsInv'
  <2>1. [pg EXCEPT !.rates.rates_type = type] \in Settings
    BY <1>a, ChangedSettings
  <2>2. QED
    BY <1>2, <1>a, <2>1, HostEditStep DEF sitl_local_set_rate_mode
<1>3. ASSUME NEW on \in BOOLEAN, sitl_local_set_3d_enabled(on) PROVE SettingsInv'
  <2>1. [pg EXCEPT !.threeD = on] \in Settings
    BY <1>a, ChangedSettings
  <2>2. mixer' \in Level \X BOOLEAN /\ activeMacs' \subseteq Slots
    BY <1>3, <1>a DEF sitl_local_set_3d_enabled
  <2>3. QED
    BY <1>3, <2>1, <2>2, HostEditStep DEF sitl_local_set_3d_enabled
<1>4. ASSUME NEW box \in Boxes, NEW aux \in Auxs, NEW start \in RangeSteps, NEW end \in RangeSteps,
             sitl_local_set_mode_range(box, aux, start, end)
      PROVE  SettingsInv'
  <2>1. [pg EXCEPT !.modes = SetRange(pg.modes, box, aux, start, end).table] \in Settings
    BY <1>a, SetRangeTyped, ChangedSettings
  <2>2. mixer' \in Level \X BOOLEAN /\ activeMacs' \subseteq Slots
    BY <1>4, <1>a, <1>b DEF sitl_local_set_mode_range
  <2>3. HostEdit([pg EXCEPT !.modes = SetRange(pg.modes, box, aux, start, end).table])
    BY <1>4 DEF sitl_local_set_mode_range
  <2>4. QED
    BY <2>1, <2>2, <2>3, HostEditStep
<1>5. ASSUME NEW box \in Boxes, NEW aux \in Auxs, NEW start \in RangeSteps, NEW end \in RangeSteps,
             RangeRefused(box, aux, start, end)
      PROVE  SettingsInv'
  <2> DEFINE new == [pg EXCEPT !.modes = SetRange(pg.modes, box, aux, start, end).table]
  <2>1. new \in Settings
    BY <1>a, SetRangeTyped, ChangedSettings
  <2>2. /\ Run(new, {}) /\ snapshot' = snapshot /\ UNCHANGED stored
        /\ NextEdit
        /\ UNCHANGED <<mixer, activeMacs, requested, gLocalPendingEepromWrite,
                       gLocalRunning, armed, handler, requests>>
    BY <1>5 DEF RangeRefused
  <2> HIDE DEF new
  <2>3. /\ pg' \in Settings /\ DOMAIN chain' = Chains /\ DOMAIN snapshot' = Chains
        /\ flying' \subseteq Chains /\ touched' \subseteq Chains
        /\ file'[env'] # NoFile /\ SnapshotsFit'
    BY <2>1, <2>2, RamChange
  <2>4. edits' \in 0 .. MaxEdits
    BY <2>2, SettingsConstants DEF SettingsConstants, NextEdit, TypeOK
  <2>5. TypeOK'
    BY <2>2, <2>3, <2>4 DEF TypeOK, stored, requested
  <2>6. QED
    BY <2>3, <2>5
<1>6. ASSUME NEW p \in Paths, sitl_local_set_eeprom_path(p) PROVE SettingsInv'
  <2>1. requests' \in 0 .. MaxRequests
    BY <1>6, SettingsConstants DEF SettingsConstants, sitl_local_set_eeprom_path, NextRequest, TypeOK
  <2>2. TypeOK'
    BY <1>6, <2>1 DEF sitl_local_set_eeprom_path, TypeOK, stored, loop
  <2>3. QED
    BY <1>6, <2>2 DEF sitl_local_set_eeprom_path, stored, loop, SnapshotsFit
<1>7. CASE sitl_local_reload_config
  <2>1. requests' \in 0 .. MaxRequests
    BY <1>7, SettingsConstants DEF SettingsConstants, sitl_local_reload_config, NextRequest, TypeOK
  <2>2. TypeOK'
    BY <1>7, <2>1 DEF sitl_local_reload_config, TypeOK, stored, loop
  <2>3. QED
    BY <1>7, <2>2 DEF sitl_local_reload_config, stored, loop, SnapshotsFit
<1>8. CASE FileReplaced
  <2>1. edits' \in 0 .. MaxEdits
    BY <1>8, SettingsConstants DEF SettingsConstants, FileReplaced, NextEdit, TypeOK
  <2>2. DOMAIN file' = Paths /\ (\A p \in Paths : file'[p] = NoFile \/ file'[p] \in Settings)
        /\ file'[env] # NoFile
    BY <1>8, SettingsConstants DEF SettingsConstants, FileReplaced, TypeOK
  <2>3. TypeOK'
    BY <1>8, <2>1, <2>2 DEF FileReplaced, TypeOK, loop, requested
  <2>4. QED
    BY <1>8, <2>2, <2>3 DEF FileReplaced, SnapshotsFit, loop
<1>9. CASE localRunPendingReboot
  BY <1>9, ReloadStep DEF localRunPendingReboot
<1>10. CASE localRunPendingReload
  BY <1>10, ReloadStep DEF localRunPendingReload, TypeOK
<1>11. CASE SchedulerPass
  <2>1. TypeOK'
    BY <1>11 DEF SchedulerPass, TypeOK, stored, requested, bounds
  <2>2. QED
    BY <1>11, <2>1 DEF SchedulerPass, SnapshotsFit, stored
<1>12. CASE sitl_local_shutdown
  <2>1. eepromData' \in Settings /\ DOMAIN file' = Paths
        /\ (\A p \in Paths : file'[p] = NoFile \/ file'[p] \in Settings)
        /\ file'[env] # NoFile
    BY <1>12, <1>a, SettingsConstants DEF SettingsConstants, sitl_local_shutdown, Persist, TypeOK
  <2>2. TypeOK'
    BY <1>12, <2>1 DEF sitl_local_shutdown, TypeOK, loop, requested, bounds
  <2>3. QED
    BY <1>12, <2>1, <2>2 DEF sitl_local_shutdown, SnapshotsFit, loop
<1>13. CASE sitl_local_init
  <2> DEFINE target == IF gLocalPathPending THEN gLocalPendingEepromPath ELSE env
             found  == IF file[target] = NoFile THEN eepromData ELSE file[target]
  <2>1. /\ env' = target
        /\ file' = [file EXCEPT ![target] = found]
        /\ eepromData' = found
        /\ Run(found, Chains)
        /\ snapshot' = Inputs(found)
        /\ mixer' = MixerInput(found) /\ activeMacs' = ActiveMacs(found.modes)
        /\ gLocalPathPending' = FALSE /\ gLocalPendingEepromPath' = BootPath
        /\ gLocalReloadPending' = FALSE /\ gLocalRebootPending' = FALSE
        /\ gLocalPendingEepromWrite' = FALSE
        /\ gLocalRunning' = TRUE /\ armed' = FALSE
        /\ UNCHANGED <<handler, bounds>>
    BY <1>13 DEF sitl_local_init
  <2>2. target \in Paths /\ found \in Settings /\ NoFile \notin Settings /\ BootPath \in Paths
    BY SettingsConstants DEF SettingsConstants, TypeOK
  <2> HIDE DEF target, found
  <2>3. /\ pg' = found /\ pg' \in Settings /\ DOMAIN chain' = Chains
        /\ flying' \subseteq Chains /\ touched' \subseteq Chains
    BY <2>1, <2>2, RunEffect
  <2>4. DOMAIN snapshot' = Chains /\ SnapshotsFit'
    BY <2>1, <2>3, ChainInputs DEF SnapshotsFit
  <2>5. mixer' \in Level \X BOOLEAN /\ activeMacs' \subseteq Slots
    BY <1>b, <2>1, <2>2 DEF MixerInput, Settings
  <2>6. DOMAIN file' = Paths /\ (\A p \in Paths : file'[p] = NoFile \/ file'[p] \in Settings)
        /\ file'[env'] # NoFile
    BY <2>1, <2>2 DEF TypeOK
  <2>7. TypeOK'
    BY <2>1, <2>2, <2>3, <2>4, <2>5, <2>6 DEF TypeOK, bounds
  <2>8. QED
    BY <2>4, <2>6, <2>7
<1>14. QED
  BY <1>1, <1>2, <1>3, <1>4, <1>5, <1>6, <1>7, <1>8, <1>9, <1>10, <1>11, <1>12, <1>13 DEF Host

\* The inductive invariant holds at start.
LEMMA SettingsInit == Init => SettingsInv
<1> SUFFICES ASSUME Init PROVE SettingsInv
  OBVIOUS
<1>1. PICK s \in Aircraft, rest \in [Paths \ {BootPath} -> Aircraft \cup {NoFile}] :
         /\ file = [p \in Paths |-> IF p = BootPath THEN s ELSE rest[p]]
         /\ pg = s /\ eepromData = s
         /\ chain = Inputs(s) /\ snapshot = Inputs(s)
         /\ mixer = MixerInput(s) /\ activeMacs = ActiveMacs(s.modes)
  BY DEF Init
<1>2. /\ s \in Settings /\ Aircraft \subseteq Settings /\ NoFile \notin Settings
      /\ BootPath \in Paths /\ env = BootPath
      /\ MaxEdits \in Nat /\ MaxRequests \in Nat
  BY SettingsConstants DEF SettingsConstants, Init
<1>3. DOMAIN file = Paths /\ (\A p \in Paths : file[p] = NoFile \/ file[p] \in Settings)
      /\ file[env] # NoFile
  BY <1>1, <1>2
<1>4. mixer \in Level \X BOOLEAN /\ activeMacs \subseteq Slots
  BY <1>1, <1>2 DEF MixerInput, Settings, ActiveMacs
<1>5. DOMAIN chain = Chains /\ DOMAIN snapshot = Chains /\ SnapshotsFit
  BY <1>1, ChainInputs DEF SnapshotsFit
<1>6. /\ pg \in Settings /\ eepromData \in Settings /\ env \in Paths
      /\ flying \subseteq Chains /\ touched \subseteq Chains
  BY <1>1, <1>2 DEF Init
<1>7. /\ gLocalPendingEepromPath \in Paths
      /\ {gLocalPathPending, gLocalReloadPending, gLocalRebootPending, gLocalPendingEepromWrite,
          gLocalRunning, armed} \subseteq BOOLEAN
      /\ handler = <<>>
  BY <1>2 DEF Init
<1>8. edits \in 0 .. MaxEdits /\ requests \in 0 .. MaxRequests
  BY <1>2 DEF Init
<1>9. QED
  BY <1>3, <1>4, <1>5, <1>6, <1>7, <1>8 DEF SettingsInv, TypeOK

\* Every step keeps the inductive invariant.
LEMMA SettingsNext == SettingsInv /\ [Next]_vars => SettingsInv'
<1>1. ASSUME SettingsInv, UNCHANGED vars PROVE SettingsInv'
  <2>1. TypeOK'
    BY <1>1 DEF SettingsInv, vars, stored, loop, requested, bounds, TypeOK
  <2>2. QED
    BY <1>1, <2>1 DEF SettingsInv, vars, stored, loop, SnapshotsFit
<1>2. QED
  BY <1>1, MspSteps, HostSteps DEF Next

\* The inductive invariant holds in every reachable state.
THEOREM SettingsInvariance == SettingsSpec => []SettingsInv
BY SettingsInit, SettingsNext, PTL DEF SettingsSpec

-----------------------------------------------------------------------------
(* A running chain loses its state for a cause only. *)

\* Building chains again takes no other chain out of the air.
LEMMA OnlyRebuiltLand ==
    ASSUME NEW new, NEW rebuilt, Run(new, rebuilt)
    PROVE  flying \ flying' \subseteq rebuilt
BY DEF Run

\* A reload lands a chain whose settings it changes; the D-term chain and the
\* RC processing also when it loads another image.
LEMMA ReloadLands ==
    ASSUME SettingsInv, NEW reread \in BOOLEAN, localRunPendingReloadInternal(reread),
           reread => WorkPending, NEW c \in flying \ flying'
    PROVE  Input(pg', c) # Input(pg, c) \/ (c # "gyro" /\ LoadsFile)
<1>1. PICK new \in Settings, rebuilt \in SUBSET Chains :
         /\ UNCHANGED <<pg, loop, mixer>> \/ Run(new, rebuilt)
         /\ \A d \in rebuilt :
               \/ Input(new, d) # Input(pg, d)
               \/ /\ d # "gyro" /\ (reread \/ gLocalPathPending)
                  /\ new # pg \/ file[gLocalPendingEepromPath] = NoFile
  BY ReloadEffect
<1>2. Run(new, rebuilt)
  BY <1>1 DEF loop
<1>3. pg' = new /\ c \in rebuilt
  BY <1>2, OnlyRebuiltLand DEF Run
<1>4. QED
  BY <1>1, <1>3 DEF LoadsFile, WorkPending

\* The configurator lands a chain only if its settings changed since the build.
LEMMA MspKeepsFlying ==
    ASSUME SettingsInv, Msp, NEW c \in flying \ flying'
    PROVE  c \in touched
<1>1. ASSUME NEW new, NEW calls, Edit(new, calls) PROVE FALSE
  BY <1>1, OnlyRebuiltLand DEF Edit
<1>2. CASE MspSetFilterConfig \/ MspSetRcTuning \/ SetInRam \/ MspSetModeRange
  BY <1>1, <1>2 DEF MspSetFilterConfig, MspSetRcTuning, SetInRam, MspSetModeRange
<1>3. ASSUME NEW d \in Chains, Call(d) PROVE c \in touched
  <2>1. c = d /\ snapshot[d] # Input(pg, d)
    BY <1>3, OnlyRebuiltLand DEF Call
  <2>2. QED
    BY <2>1 DEF SettingsInv, SnapshotsFit
<1>4. CASE Save \/ systemReset \/ systemResetToBootloader
  BY <1>4 DEF Save, systemReset, systemResetToBootloader, RequestReboot, loop
<1>5. QED
  BY <1>2, <1>3, <1>4 DEF Msp

\* The host lands a chain of a running loop only by a reload with a cause.
LEMMA HostKeepsFlying ==
    ASSUME SettingsInv, Host, gLocalRunning, NEW c \in flying \ flying'
    PROVE  Input(pg', c) # Input(pg, c) \/ (c # "gyro" /\ LoadsFile)
<1>1. ASSUME NEW new, Run(new, {}) PROVE FALSE
  BY <1>1, OnlyRebuiltLand
<1>2. ASSUME NEW new, HostEdit(new) PROVE FALSE
  BY <1>1, <1>2 DEF HostEdit
<1>3. ASSUME NEW shown \in {1, 2000}, sitl_local_set_rate(shown) PROVE FALSE
  BY <1>2, <1>3 DEF sitl_local_set_rate
<1>4. ASSUME NEW type \in RateTypes, sitl_local_set_rate_mode(type) PROVE FALSE
  BY <1>2, <1>4 DEF sitl_local_set_rate_mode
<1>5. ASSUME NEW on \in BOOLEAN, sitl_local_set_3d_enabled(on) PROVE FALSE
  BY <1>2, <1>5 DEF sitl_local_set_3d_enabled
<1>6. ASSUME NEW box \in Boxes, NEW aux \in Auxs, NEW start \in RangeSteps, NEW end \in RangeSteps,
             sitl_local_set_mode_range(box, aux, start, end) \/ RangeRefused(box, aux, start, end)
      PROVE  FALSE
  BY <1>1, <1>2, <1>6 DEF sitl_local_set_mode_range, RangeRefused
<1>7. ASSUME NEW p \in Paths, sitl_local_set_eeprom_path(p) PROVE FALSE
  BY <1>7 DEF sitl_local_set_eeprom_path, loop
<1>8. ~sitl_local_reload_config /\ ~FileReplaced /\ ~sitl_local_shutdown
  BY DEF sitl_local_reload_config, FileReplaced, sitl_local_shutdown, loop
<1>9. ~SchedulerPass
  BY DEF SchedulerPass, SettingsInv, TypeOK
<1>10. CASE localRunPendingReboot
  BY <1>10, ReloadLands DEF localRunPendingReboot
<1>11. CASE localRunPendingReload
  BY <1>11, ReloadLands DEF localRunPendingReload, WorkPending
<1>12. ~sitl_local_init
  BY DEF sitl_local_init
<1>13. QED
  BY <1>3, <1>4, <1>5, <1>6, <1>7, <1>8, <1>9, <1>10, <1>11, <1>12 DEF Host

\* ChainsKeepFlying for any number of edits and requests: a chain of a running
\* loop loses its filter state (wincompat.c:910-919) when its settings changed,
\* or, but for the gyro's, when a reload brings in another image.  A save, a
\* burst of the configurator that changes nothing and a reload of the same
\* image rebuild none, because the snapshot of a chain that nothing touched is
\* still its input (SnapshotsFit).
THEOREM RebuiltForACause == SettingsSpec => ChainsKeepFlying
<1>1. SettingsInv /\ [Next]_vars =>
         [\A c \in flying \ flying' :
            \/ ~gLocalRunning
            \/ c \in touched \/ Input(pg', c) # Input(pg, c)
            \/ c # "gyro" /\ LoadsFile]_vars
  BY MspKeepsFlying, HostKeepsFlying DEF Next
<1>2. QED
  BY <1>1, SettingsInvariance, PTL DEF SettingsSpec, ChainsKeepFlying

-----------------------------------------------------------------------------
(* Deferred work leaves the loop on its settings. *)

\* A chain that is rebuilt gets the new settings, the others had them already.
LEMMA RunInStep ==
    ASSUME NEW new, NEW rebuilt, Run(new, rebuilt), chain = Inputs(pg),
           mixer' = MixerInput(new),
           \A c \in Chains \ rebuilt : Input(new, c) = Input(pg, c)
    PROVE  InStep'
<1>1. pg' = new
  BY DEF Run
<1>2. chain' = [c \in Chains |-> IF c \in rebuilt THEN Input(new, c) ELSE chain[c]]
  BY DEF Run
<1>3. chain' = [c \in Chains |-> Input(new, c)]
  BY <1>2, ChainInputs
<1>4. QED
  BY <1>1, <1>3 DEF InStep, Inputs

\* A reload keeps a loop on its settings that was on them.
LEMMA ReloadInStep ==
    ASSUME SettingsInv, NEW reread \in BOOLEAN, localRunPendingReloadInternal(reread), InStep
    PROVE  InStep'
<1>1. PICK new \in Settings, rebuilt \in SUBSET Chains :
         /\ \/ UNCHANGED <<pg, loop, mixer>>
            \/ Run(new, rebuilt) /\ mixer' = MixerInput(new)
         /\ \A c \in Chains \ rebuilt : Input(new, c) = Input(pg, c)
  BY ReloadEffect
<1>2. CASE UNCHANGED <<pg, loop, mixer>>
  BY <1>2 DEF InStep, loop
<1>3. CASE Run(new, rebuilt) /\ mixer' = MixerInput(new)
  BY <1>1, <1>3, RunInStep DEF InStep
<1>4. QED
  BY <1>1, <1>2, <1>3

\* A handler that makes a call has one call less to make.
LEMMA TailIsShorter ==
    ASSUME NEW h \in Handlers, h # <<>>
    PROVE  Tail(h) # h
<1>1. CASE h = <<"gyro", "dterm">>
  BY <1>1
<1>2. CASE h = <<"dterm">> \/ h = <<"rc">>
  BY <1>2
<1>3. QED
  BY <1>1, <1>2 DEF Handlers

\* Every edit is counted, so a step that counts none changes settings, chains
\* and mixer by deferred work only.
LEMMA EditIsCounted ==
    ASSUME SettingsInv, NextEdit
    PROVE  edits' # edits
BY DEF SettingsInv, TypeOK, NextEdit

\* So does every step that is no edit and no call of a handler.
LEMMA StepStaysInStep ==
    ASSUME SettingsInv, Next, InStep, UNCHANGED <<edits, handler>>
    PROVE  InStep'
<1>1. ~NextEdit
  BY EditIsCounted
<1>2. ASSUME UNCHANGED <<pg, loop, mixer>> PROVE InStep'
  BY <1>2 DEF InStep, loop
<1>3. CASE Msp
  <2>1. ~MspSetFilterConfig /\ ~MspSetRcTuning /\ ~SetInRam /\ ~MspSetModeRange
    BY <1>1 DEF MspSetFilterConfig, MspSetRcTuning, SetInRam, MspSetModeRange, Edit
  <2>2. \A c \in Chains : ~Call(c)
    BY TailIsShorter DEF SettingsInv, TypeOK, Handlers, Call
  <2>3. CASE Save \/ systemReset \/ systemResetToBootloader
    BY <1>2, <2>3 DEF Save, systemReset, systemResetToBootloader, RequestReboot
  <2>4. QED
    BY <1>3, <2>1, <2>2, <2>3 DEF Msp
<1>4. CASE Host
  <2>1. /\ \A shown \in {1, 2000} : ~sitl_local_set_rate(shown)
        /\ \A type \in RateTypes : ~sitl_local_set_rate_mode(type)
        /\ \A on \in BOOLEAN : ~sitl_local_set_3d_enabled(on)
        /\ \A box \in Boxes, aux \in Auxs, start, end \in RangeSteps :
              ~sitl_local_set_mode_range(box, aux, start, end) /\ ~RangeRefused(box, aux, start, end)
        /\ ~FileReplaced
    BY <1>1 DEF sitl_local_set_rate, sitl_local_set_rate_mode, sitl_local_set_3d_enabled,
                sitl_local_set_mode_range, RangeRefused, HostEdit, FileReplaced
  <2>2. ASSUME NEW p \in Paths, sitl_local_set_eeprom_path(p) PROVE InStep'
    BY <1>2, <2>2 DEF sitl_local_set_eeprom_path
  <2>3. CASE sitl_local_reload_config \/ sitl_local_shutdown
    BY <1>2, <2>3 DEF sitl_local_reload_config, sitl_local_shutdown
  <2>4. CASE SchedulerPass
    BY <2>4 DEF SchedulerPass, InStep
  <2>5. CASE localRunPendingReboot
    BY <2>5, ReloadInStep DEF localRunPendingReboot
  <2>6. CASE localRunPendingReload
    BY <2>6, ReloadInStep DEF localRunPendingReload
  <2>7. CASE sitl_local_init
    BY <2>7, RunInStep DEF sitl_local_init, InStep
  <2>8. QED
    BY <1>4, <2>1, <2>2, <2>3, <2>4, <2>5, <2>6, <2>7 DEF Host
<1>5. QED
  BY <1>3, <1>4 DEF Next

\* WorkStaysInStep for any settings and files: when a reload, a path switch, a
\* reboot or a boot has been applied, what the loop runs on still agrees with
\* the records, because whatever is not rebuilt reads the same in the new image
\* as in the old one.
THEOREM WorkKeepsStep == SettingsSpec => WorkStaysInStep
<1>1. SettingsInv => TypeOK
  BY DEF SettingsInv
<1>2. SettingsInv /\ [Next]_vars =>
         [WorkPending /\ InStep /\ UNCHANGED <<edits, handler>> => InStep']_vars
  BY StepStaysInStep
<1>3. QED
  BY <1>1, <1>2, SettingsInvariance, PTL DEF SettingsSpec, WorkStaysInStep

-----------------------------------------------------------------------------
(* The setters of the host. *)

\* A range that is set leaves the other boxes alone and is read back.
LEMMA RangeSetterIsLocal ==
    ASSUME SettingsInv, NEW box \in Boxes, NEW aux \in Auxs,
           NEW start \in RangeSteps, NEW end \in RangeSteps,
           sitl_local_set_mode_range(box, aux, start, end)
    PROVE  /\ OtherConditions(pg'.modes, box) = OtherConditions(pg.modes, box)
           /\ aux # NoAux /\ start < end => GetRange(pg'.modes, box) = <<aux, start, end>>
           /\ aux = NoAux => GetRange(pg'.modes, box) = <<NoAux, 0, 0>>
<1>1. pg \in Settings /\ pg.modes \in Tables
  BY DEF SettingsInv, TypeOK, Settings
<1>2. pg' = [pg EXCEPT !.modes = SetRange(pg.modes, box, aux, start, end).table]
      /\ SetRange(pg.modes, box, aux, start, end).ret = 0
  BY DEF sitl_local_set_mode_range, HostEdit, Run
<1>3. pg'.modes = SetRange(pg.modes, box, aux, start, end).table
  BY <1>1, <1>2 DEF Settings
<1>4. QED
  BY <1>1, <1>2, <1>3, SetRangeIsLocal

\* A range that is refused leaves the table as it was.
LEMMA RefusalChangesNothing ==
    ASSUME SettingsInv, NEW box \in Boxes, NEW aux \in Auxs,
           NEW start \in RangeSteps, NEW end \in RangeSteps,
           RangeRefused(box, aux, start, end)
    PROVE  pg'.modes = pg.modes
<1>1. pg \in Settings /\ pg.modes \in Tables
  BY DEF SettingsInv, TypeOK, Settings
<1>2. pg' = [pg EXCEPT !.modes = SetRange(pg.modes, box, aux, start, end).table]
      /\ SetRange(pg.modes, box, aux, start, end).ret = -1
  BY DEF RangeRefused, Run
<1>3. pg'.modes = SetRange(pg.modes, box, aux, start, end).table
  BY <1>1, <1>2 DEF Settings
<1>4. QED
  BY <1>1, <1>2, <1>3, RefusedIsHarmless

\* A rate that is written back as it was read stays as it is.
LEMMA RateSetterReadsBack ==
    ASSUME SettingsInv, pg.rates.rcRate <= rc_rate_limit(pg.rates.rates_type),
           sitl_local_set_rate(GetRate(pg.rates))
    PROVE  pg'.rates = pg.rates
<1>1. pg \in Settings /\ pg.rates \in Rates
  BY DEF SettingsInv, TypeOK, Settings
<1>2. pg' = [pg EXCEPT !.rates = SetRate(pg.rates, GetRate(pg.rates))]
  BY DEF sitl_local_set_rate, HostEdit, Run
<1>3. pg'.rates = SetRate(pg.rates, GetRate(pg.rates))
  BY <1>1, <1>2 DEF Settings
<1>4. QED
  BY <1>1, <1>3, RateReadBack

\* SettersAreLocal for a table of any size: setting a box's range leaves the
\* conditions of the other boxes, is read back as it was set, and changes nothing
\* when it is refused; a rate within its limit that is written back as it was
\* read stays as it is (sitl_local.c's setters and getters).
THEOREM SettersChangeWhatTheyName == SettingsSpec => SettersAreLocal
<1>1. SettingsInv =>
         [/\ pg'.modes # pg.modes =>
                \A box \in Boxes, aux \in Auxs, start, end \in RangeSteps :
                   /\ sitl_local_set_mode_range(box, aux, start, end) =>
                         /\ OtherConditions(pg'.modes, box) = OtherConditions(pg.modes, box)
                         /\ aux # NoAux /\ start < end =>
                               GetRange(pg'.modes, box) = <<aux, start, end>>
                         /\ aux = NoAux => GetRange(pg'.modes, box) = <<NoAux, 0, 0>>
                   /\ ~RangeRefused(box, aux, start, end)
          /\ pg'.rates # pg.rates /\ pg.rates.rcRate <= rc_rate_limit(pg.rates.rates_type)
                => ~sitl_local_set_rate(GetRate(pg.rates))]_vars
  BY RangeSetterIsLocal, RefusalChangesNothing, RateSetterReadsBack
<1>2. QED
  BY <1>1, SettingsInvariance, PTL DEF SettersAreLocal
=============================================================================
