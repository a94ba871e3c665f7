-------------------------- MODULE LocalStepProofs ---------------------------
(***************************************************************************)
(* Proofs about LocalStep for every set of gyro rates and step lengths and *)
(* any number of steps, boots and disarms: types, conservation of the      *)
(* host's time, how far the gyro may be off its deadlines, the cadence of  *)
(* the RC frames, the motor packets and the crash flip latch.              *)
(***************************************************************************)
EXTENDS LocalStep, TLAPS

USE DEF MaxQuantum

-----------------------------------------------------------------------------
(* Arithmetic *)

\* Quotient and remainder put a number together again.
LEMMA DivRem ==
    ASSUME NEW x \in Nat, NEW q \in Nat \ {0}
    PROVE  /\ x \div q \in Nat
           /\ x % q \in 0 .. q - 1
           /\ x = (x \div q) * q + (x % q)
BY SMT

\* A product with a successor.
LEMMA NextProduct ==
    ASSUME NEW n \in Nat, NEW s \in Nat
    PROVE  n * s \in Nat /\ (n + 1) * s = n * s + s
BY SMT

\* A quotient is determined by the two multiples around the number.
LEMMA QuotientUnique ==
    ASSUME NEW x \in Nat, NEW q \in Nat \ {0}, NEW k \in Nat,
           k * q <= x, x < (k + 1) * q
    PROVE  x \div q = k
BY SMT

\* A remainder is determined by any multiple just below the number.
LEMMA RemainderUnique ==
    ASSUME NEW x \in Nat, NEW q \in Nat \ {0}, NEW k \in Nat, NEW r \in 0 .. q - 1,
           x = k * q + r
    PROVE  x % q = r
<1>1. k * q \in Nat /\ (k + 1) * q = k * q + q
  BY NextProduct
<1>2. x \div q = k
  BY <1>1, QuotientUnique
<1>3. QED
  BY <1>1, <1>2, DivRem

\* A number below the divisor is its own remainder, and taking the divisor off,
\* or adding it, leaves the remainder as it is.
LEMMA RemainderStep ==
    ASSUME NEW x \in Nat, NEW q \in Nat \ {0}
    PROVE  /\ x < q => x % q = x
           /\ x >= q => (x - q) % q = x % q
           /\ (x + q) % q = x % q
<1> DEFINE k == x \div q
           r == x % q
<1>1. k \in Nat /\ r \in 0 .. q - 1 /\ x = k * q + r /\ k * q \in Nat
  BY DivRem, NextProduct
<1> HIDE DEF k, r
<1>2. x < q => x % q = x
  BY SMT
<1>3. x >= q => (x - q) % q = r
  <2> SUFFICES ASSUME x >= q PROVE (x - q) % q = r
    OBVIOUS
  <2>1. k # 0
    BY <1>1
  <2>2. k - 1 \in Nat /\ k = (k - 1) + 1
    BY <1>1, <2>1
  <2>3. k * q = (k - 1) * q + q /\ (k - 1) * q \in Nat
    BY <2>2, NextProduct
  <2>4. x - q = (k - 1) * q + r /\ x - q \in Nat
    BY <1>1, <2>3
  <2>5. QED
    BY <1>1, <2>2, <2>4, RemainderUnique
<1>4. (x + q) % q = r
  <2>1. (k + 1) * q = k * q + q
    BY <1>1, NextProduct
  <2>2. x + q = (k + 1) * q + r /\ k + 1 \in Nat /\ x + q \in Nat
    BY <1>1, <2>1
  <2>3. QED
    BY <1>1, <2>2, RemainderUnique
<1>5. QED
  BY <1>2, <1>3, <1>4 DEF r

\* A multiple of a multiple is a multiple: what divides the sample period
\* divides the loop period.
LEMMA MultipleOfMultiple ==
    ASSUME NEW s \in Nat, NEW d \in Nat, NEW q \in Nat \ {0}, s % q = 0
    PROVE  (s * d) % q = 0
<1>1. s = (s \div q) * q /\ (s \div q) \in Nat
  BY SMT
<1>2. s * d = ((s \div q) * d) * q
  BY <1>1, SMT
<1>3. \A k \in Nat : (k * q) % q = 0
  BY SMT
<1>4. (s \div q) * d \in Nat
  BY <1>1, SMT
<1>5. QED
  BY <1>2, <1>3, <1>4

\* Two multiples of q, one below the other, are at least q apart.
LEMMA MultiplesApart ==
    ASSUME NEW x \in Nat, NEW s \in Nat, NEW q \in Nat \ {0},
           x % q = 0, s % q = 0, x < s
    PROVE  x + q <= s
<1> DEFINE i == x \div q
           m == s \div q
<1>1. i \in Nat /\ m \in Nat /\ x = i * q /\ s = m * q
  BY DivRem, NextProduct
<1> HIDE DEF i, m
<1>2. m * q > i * q => m * q >= i * q + q
  BY <1>1, SMT
<1>3. QED
  BY <1>1, <1>2

\* A product of positive numbers is positive.
LEMMA ProductPositive ==
    ASSUME NEW x \in Nat \ {0}, NEW y \in Nat \ {0}
    PROVE  x * y \in Nat \ {0}
BY SMT

-----------------------------------------------------------------------------
(* The quantum *)

\* localStepQuantumUs is defined for every grid: the quantum divides the grid,
\* is at most 100 us and is the largest of the halvings that divides it.
LEMMA QuantumIs ==
    ASSUME NEW g \in Nat
    PROVE  /\ localStepQuantumUs(g) \in Halvings
           /\ localStepQuantumUs(g) \in 1 .. 100
           /\ g % localStepQuantumUs(g) = 0
           /\ \A p \in Halvings : g % p = 0 => p <= localStepQuantumUs(g)
<1>1. g % 1 = 0
  BY SMT
<1>2. \E q \in Halvings : g % q = 0 /\ \A p \in Halvings : g % p = 0 => p <= q
  BY <1>1, SMT DEF Halvings
<1>3. /\ localStepQuantumUs(g) \in Halvings
      /\ g % localStepQuantumUs(g) = 0
      /\ \A p \in Halvings : g % p = 0 => p <= localStepQuantumUs(g)
  BY <1>2, Zenon DEF localStepQuantumUs
<1>4. QED
  BY <1>3 DEF Halvings

\* A configuration's loop period is a positive number.
LEMMA GridPositive ==
    ASSUME NEW g \in Rates
    PROVE  /\ g.sample \in Nat \ {0} /\ g.denom \in Nat \ {0}
           /\ GridOf(g) \in Nat \ {0}
<1>1. g.sample \in Nat \ {0} /\ g.denom \in Nat \ {0}
  BY StepConstants DEF StepConstants
<1>2. QED
  BY <1>1, ProductPositive DEF GridOf

\* On a period of OnGrid the quantum is that of the gyro period, whatever the
\* PID denominator, and 25 us at least.
LEMMA SameQuantum ==
    ASSUME NEW g \in Rates, OnGrid(g.sample)
    PROVE  /\ localStepQuantumUs(GridOf(g)) = localStepQuantumUs(g.sample)
           /\ localStepQuantumUs(GridOf(g)) >= 25
<1> DEFINE q == localStepQuantumUs(GridOf(g))
           r == localStepQuantumUs(g.sample)
<1>1. /\ g.sample \in Nat /\ g.denom \in Nat /\ GridOf(g) \in Nat
  BY GridPositive
<1>2. q \in Halvings /\ GridOf(g) % q = 0 /\ (\A p \in Halvings : GridOf(g) % p = 0 => p <= q)
  BY <1>1, QuantumIs
<1>3. r \in Halvings /\ r \in 1 .. 100 /\ g.sample % r = 0
      /\ \A p \in Halvings : g.sample % p = 0 => p <= r
  BY <1>1, QuantumIs
<1>4. /\ g.sample % 25 = 0
      /\ \A p \in {50, 100} : GridOf(g) % p = 0 => g.sample % p = 0
  BY DEF OnGrid, MaxQuantum
<1> HIDE DEF q, r
<1>5. \A p \in 1 .. 100 : g.sample % p = 0 => GridOf(g) % p = 0
  <2> SUFFICES ASSUME NEW p \in 1 .. 100, g.sample % p = 0 PROVE GridOf(g) % p = 0
    OBVIOUS
  <2>1. (g.sample * g.denom) % p = 0
    BY <1>1, MultipleOfMultiple
  <2>2. QED
    BY <2>1 DEF GridOf
<1>6. q \in {25, 50, 100}
  <2>1. 25 <= q
    BY <1>2, <1>4, <1>5 DEF Halvings
  <2>2. QED
    BY <1>2, <2>1 DEF Halvings
<1>7. g.sample % q = 0
  BY <1>2, <1>4, <1>6
<1>8. q <= r /\ r <= q
  BY <1>2, <1>3, <1>5, <1>7
<1>9. q = r /\ q >= 25
  BY <1>3, <1>6, <1>8
<1>10. QED
  BY <1>9 DEF q, r

-----------------------------------------------------------------------------
(* Types and conservation of time *)

\* What the step still has to run leaves the remainder that is carried: this
\* makes the end of the loop hand over exactly what it did not run.
StepInv ==
    /\ TypeOK
    /\ StepTimeIsConserved
    /\ host \in {"run", "spin"} =>
         st.remainingUs % localStepQuantumUs(st.gridUs) = gStepRemainderUs

\* The invariant of the step holds at start.
LEMMA StepInit == Init => StepInv
<1> SUFFICES ASSUME Init PROVE StepInv
  OBVIOUS
<1> USE StepConstants DEF StepConstants, Init
<1>1. TypeOK
  <2>1. /\ gLocalRcValid \in BOOLEAN /\ armed \in BOOLEAN /\ crashFlipModeActive \in BOOLEAN
        /\ gLocalCrashFlipLatched \in BOOLEAN /\ gLocalWasArmed \in BOOLEAN
    BY Zenon
  <2>2. gLocalRc \in Switches /\ sticks \in Switches
    BY DEF Switches, AllOff
  <2>3. QED
    BY <2>1, <2>2 DEF TypeOK
<1>2. QED
  BY <1>1 DEF StepInv, StepTimeIsConserved

\* Entering a step keeps it.
LEMMA EnterStep ==
    ASSUME StepInv, NEW dt \in Dts, Enter(dt)
    PROVE  StepInv'
<1> USE StepConstants DEF StepConstants
<1>1. sitlLocalGyroGridUs \in Nat \ {0} /\ sitlLocalGyroGridUs = GridOf(gyro)
  BY GridPositive DEF StepInv, TypeOK, sitlLocalGyroGridUs
<1>2. Snap(dt, sitlLocalGyroGridUs) \in Nat
  <2> DEFINE grid == sitlLocalGyroGridUs
             k == (dt + (grid \div 2)) \div grid
  <2>1. dt + (grid \div 2) \in Nat
    BY <1>1, DivRem
  <2>2. k \in Nat
    BY <1>1, <2>1, DivRem
  <2> HIDE DEF k
  <2>3. k * grid \in Nat
    BY <1>1, <2>2, NextProduct
  <2>4. QED
    BY <2>3 DEF Snap, k
<1> DEFINE s == Snap(dt, sitlLocalGyroGridUs)
<1>3. /\ host = "out" /\ host' = "work" /\ steps' = steps + 1 /\ steps < MaxSteps
      /\ st' = [stepUs |-> s, gridUs |-> sitlLocalGyroGridUs, remainingUs |-> 0, pids |-> pidRuns]
      /\ given' = given + s
      /\ UNCHANGED <<sitlVirtualTimeUs, gStepRemainderUs, boots, disarms, gLocalMotorPacket>>
      /\ UNCHANGED <<gyroVars, rcVars, armVars, latches>>
  BY DEF Enter
<1>4. s \in Nat
  BY <1>2
<1> HIDE DEF s
<1>5. TypeOK'
  BY <1>1, <1>3, <1>4 DEF StepInv, TypeOK, gyroVars, rcVars, armVars, latches
<1>6. StepTimeIsConserved'
  BY <1>3, <1>4 DEF StepInv, TypeOK, StepTimeIsConserved
<1>7. QED
  BY <1>3, <1>5, <1>6 DEF StepInv

\* So does the deferred work, which splits host time and remainder anew.
LEMMA DeferredWorkStep ==
    ASSUME StepInv, NEW g \in Rates, DeferredWork(g)
    PROVE  StepInv'
<1> DEFINE q == localStepQuantumUs(st.gridUs)
           remaining == st.stepUs + gStepRemainderUs
<1>1. st.gridUs \in Nat /\ st.stepUs \in Nat /\ remaining \in Nat
  BY DEF StepInv, TypeOK
<1>2. q \in 1 .. 100
  BY <1>1, QuantumIs
<1>3. /\ host = "work" /\ host' = "run" /\ gyro' = g
      /\ gLocalRcValid' = TRUE /\ gLocalRc' \in Switches
      /\ st' = [st EXCEPT !.remainingUs = remaining]
      /\ gStepRemainderUs' = remaining % q
      /\ UNCHANGED <<sitlVirtualTimeUs, given, anchor, gyroRuns, lastGyroUs, pidRuns>>
      /\ UNCHANGED <<gLocalRcAnnounceUs, sticks, armVars, latches, gLocalMotorPacket, bounds>>
  BY DEF DeferredWork, Begin
<1>4. remaining % q \in 0 .. 99
  <2> HIDE DEF q, remaining
  <2>1. remaining % q \in 0 .. q - 1
    BY <1>1, <1>2, DivRem
  <2>2. QED
    BY <1>2, <2>1
<1>5. st'.gridUs = st.gridUs /\ st'.remainingUs = remaining
  BY <1>3 DEF StepInv, TypeOK
<1>6. StepTimeIsConserved'
  BY <1>3, <1>5 DEF StepInv, StepTimeIsConserved
<1>7. st'.remainingUs % localStepQuantumUs(st'.gridUs) = gStepRemainderUs'
  BY <1>3, <1>5
<1> HIDE DEF q, remaining
<1>8. gLocalRcValid' \in BOOLEAN /\ gLocalRc' \in Switches
  BY <1>3, Zenon
<1>9. st' \in [stepUs : Nat, gridUs : Nat \ {0}, remainingUs : Nat, pids : Nat]
  BY <1>1, <1>3 DEF StepInv, TypeOK
<1>10. TypeOK'
  BY <1>3, <1>4, <1>8, <1>9 DEF StepInv, TypeOK, armVars, latches, bounds
<1>11. QED
  BY <1>6, <1>7, <1>10 DEF StepInv

\* A quantum moves from the running step to the clock.
LEMMA RunQuantumStep ==
    ASSUME StepInv, RunQuantum
    PROVE  StepInv'
<1> DEFINE q == localStepQuantumUs(st.gridUs)
           t == sitlVirtualTimeUs + q
<1>1. /\ st.gridUs \in Nat /\ st.remainingUs \in Nat
      /\ st \in [stepUs : Nat, gridUs : Nat \ {0}, remainingUs : Nat, pids : Nat]
      /\ gyroRuns \in Nat /\ pidRuns \in Nat /\ sitlVirtualTimeUs \in Nat
  BY DEF StepInv, TypeOK
<1>2. q \in 1 .. 100
  BY <1>1, QuantumIs
<1>3. /\ host = "run" /\ st.remainingUs >= q
      /\ sitlVirtualTimeUs' = t
      /\ st' = [st EXCEPT !.remainingUs = @ - q]
      /\ GyroPass(t) \/ TaskPass(t) \/ NearPass(t)
      /\ UNCHANGED <<gStepRemainderUs, given, gyro, anchor, latches, bounds>>
  BY DEF RunQuantum
<1>4. st'.gridUs = st.gridUs /\ st'.remainingUs = st.remainingUs - q
  BY <1>1, <1>3
<1>5. st'.remainingUs % localStepQuantumUs(st'.gridUs) = gStepRemainderUs'
  <2>1. (st.remainingUs - q) % q = st.remainingUs % q
    <3> DEFINE x == st.remainingUs
    <3>1. x \in Nat /\ q \in Nat \ {0} /\ x >= q
      BY <1>1, <1>2, <1>3
    <3> HIDE DEF q, x
    <3>2. (x - q) % q = x % q
      BY <3>1, RemainderStep
    <3>3. QED
      BY <3>2 DEF x
  <2>2. st.remainingUs % q = gStepRemainderUs
    BY <1>3 DEF StepInv
  <2>3. QED
    BY <1>3, <1>4, <2>1, <2>2
<1> HIDE DEF q
<1>6. st' \in [stepUs : Nat, gridUs : Nat \ {0}, remainingUs : Nat, pids : Nat]
  <2>1. st.remainingUs - q \in Nat
    BY <1>1, <1>2, <1>3
  <2>2. QED
    BY <1>1, <1>3, <2>1
<1>7. t \in Nat
  BY <1>1, <1>2
<1>8. host' \in {"run", "spin"}
  BY <1>3 DEF GyroPass, TaskPass, NearPass
<1>9. StepTimeIsConserved'
  <2>1. sitlVirtualTimeUs + st.remainingUs = given /\ given' = given
    BY <1>3 DEF StepInv, StepTimeIsConserved
  <2>2. t + (st.remainingUs - q) = given
    BY <1>1, <1>2, <2>1
  <2> HIDE DEF t
  <2>3. QED
    BY <1>3, <1>4, <1>8, <2>1, <2>2 DEF StepTimeIsConserved
<1>10. /\ gyroRuns' \in Nat /\ lastGyroUs' \in Nat /\ pidRuns' \in Nat
       /\ gLocalMotorPacket' \in Nat /\ gLocalRcAnnounceUs' \in Nat
  <2> HIDE DEF t
  <2>1. QED
    BY <1>1, <1>3, <1>7 DEF StepInv, TypeOK, GyroPass, PidRun, TaskPass, NearPass, localRcFrameStatus,
       rcVars
<1>11. /\ gLocalRcValid' \in BOOLEAN /\ gLocalRc' \in Switches /\ sticks' \in Switches
       /\ armed' \in BOOLEAN /\ crashFlipModeActive' \in BOOLEAN
  <2>1. CASE UNCHANGED <<rcVars, armVars>>
    BY <2>1 DEF StepInv, TypeOK, rcVars, armVars
  <2>2. CASE UNCHANGED <<gLocalRcValid, gLocalRcAnnounceUs, gLocalRc, sticks, armVars>>
    BY <2>2 DEF StepInv, TypeOK, armVars
  <2>3. CASE UNCHANGED <<gLocalRcValid, gLocalRc>> /\ sticks' = gLocalRc /\ Arming
    <3>1. sticks'.arm \in BOOLEAN
      BY <2>3 DEF StepInv, TypeOK, Switches
    <3>2. armed' \in BOOLEAN
      BY <2>3, <3>1, Zenon DEF Arming
    <3>3. crashFlipModeActive' \in BOOLEAN
      BY <2>3, Zenon DEF Arming
    <3>4. QED
      BY <2>3, <3>2, <3>3 DEF StepInv, TypeOK
  <2>4. QED
    <3> HIDE DEF t
    <3>1. QED
      BY <1>3, <2>1, <2>2, <2>3 DEF GyroPass, TaskPass, NearPass, localRcFrameStatus
<1> HIDE DEF t
<1>12. host' \in {"out", "work", "run", "spin", "latch", "take"}
  BY <1>8
<1>13. TypeOK'
  BY <1>3, <1>6, <1>7, <1>10, <1>11, <1>12 DEF StepInv, TypeOK, latches, bounds
<1>14. QED
  BY <1>5, <1>9, <1>13 DEF StepInv

\* What the loop did not run is the remainder it carries.
LEMMA RunDoneStep ==
    ASSUME StepInv, RunDone
    PROVE  StepInv'
<1> DEFINE q == localStepQuantumUs(st.gridUs)
<1>1. st.gridUs \in Nat /\ st.remainingUs \in Nat
  BY DEF StepInv, TypeOK
<1>2. q \in 1 .. 100
  BY <1>1, QuantumIs
<1>3. st.remainingUs < q /\ host = "run" /\ host' = "latch"
      /\ UNCHANGED <<clockVars, gyroVars, rcVars, armVars, latches, gLocalMotorPacket, st, bounds>>
  BY DEF RunDone
<1>4. st.remainingUs % q = gStepRemainderUs
  BY <1>3 DEF StepInv
<1> HIDE DEF q
<1>5. st.remainingUs = gStepRemainderUs
  BY <1>1, <1>2, <1>3, <1>4, RemainderStep
<1>6. TypeOK'
  BY <1>3 DEF StepInv, TypeOK, clockVars, gyroVars, rcVars, armVars, latches, bounds
<1>7. StepTimeIsConserved'
  BY <1>3, <1>5 DEF StepInv, StepTimeIsConserved, clockVars
<1>8. QED
  BY <1>3, <1>6, <1>7 DEF StepInv

\* Every step keeps the invariant.
LEMMA StepNext == StepInv /\ [Next]_vars => StepInv'
<1> SUFFICES ASSUME StepInv, [Next]_vars
             PROVE  StepInv'
  OBVIOUS
<1> USE DEF clockVars, gyroVars, rcVars, armVars, latches, bounds
<1>1. ASSUME NEW dt \in Dts, Enter(dt) PROVE StepInv'
  BY <1>1, EnterStep
<1>2. ASSUME NEW g \in Rates, DeferredWork(g) PROVE StepInv'
  BY <1>2, DeferredWorkStep
<1>3. CASE RunQuantum
  BY <1>3, RunQuantumStep
<1>4. CASE RunDone
  BY <1>4, RunDoneStep
<1>5. CASE localUpdateCrashFlipLatch
  <2>1. gLocalCrashFlipLatched' \in BOOLEAN /\ gLocalWasArmed' \in BOOLEAN
    <3>1. gLocalCrashFlipLatched' \in BOOLEAN
      BY <1>5, Zenon DEF localUpdateCrashFlipLatch
    <3>2. gLocalWasArmed' \in BOOLEAN
      BY <1>5 DEF localUpdateCrashFlipLatch, StepInv, TypeOK
    <3>3. QED
      BY <3>1, <3>2
  <2>2. TypeOK'
    BY <1>5, <2>1 DEF localUpdateCrashFlipLatch, StepInv, TypeOK
  <2>3. QED
    BY <1>5, <2>2 DEF localUpdateCrashFlipLatch, StepInv, StepTimeIsConserved
<1>6. CASE HandOver
  BY <1>6 DEF HandOver, sitlLocalTakeMotorPacket, StepInv, TypeOK, StepTimeIsConserved
<1>7. CASE Disarm
  <2>1. armed' \in BOOLEAN /\ crashFlipModeActive' \in BOOLEAN
    BY <1>7, Zenon DEF Disarm
  <2>2. TypeOK'
    BY <1>7, <2>1, StepConstants DEF StepConstants, Disarm, StepInv, TypeOK
  <2>3. QED
    BY <1>7, <2>2 DEF Disarm, StepInv, StepTimeIsConserved
<1>8. ASSUME NEW g \in Rates, Reinit(g) PROVE StepInv'
  <2>1. gLocalRcValid' \in BOOLEAN /\ gLocalRc' \in Switches
    BY <1>8 DEF Reinit, AllOff, Switches
  <2>2. TypeOK'
    BY <1>8, <2>1, StepConstants DEF StepConstants, Reinit, StepInv, TypeOK
  <2>3. QED
    BY <1>8, <2>2 DEF Reinit, StepInv, StepTimeIsConserved
<1>9. CASE UNCHANGED vars
  BY <1>9 DEF vars, StepInv, TypeOK, StepTimeIsConserved
<1>10. QED
  BY <1>1, <1>2, <1>3, <1>4, <1>5, <1>6, <1>7, <1>8, <1>9 DEF Next, Finished

\* The invariant of the step holds in every reachable state.
THEOREM StepInvariance == Spec => []StepInv
BY StepInit, StepNext, PTL DEF Spec

\* Every variable keeps its type: the carried remainder stays below a quantum.
THEOREM StepTypeCorrect == Spec => []TypeOK
<1>1. StepInv => TypeOK
  BY DEF StepInv
<1>2. QED
  BY StepInvariance, <1>1, PTL

\* No microsecond of the host's steps is lost or run twice.
THEOREM StepConservation == Spec => []StepTimeIsConserved
<1>1. StepInv => StepTimeIsConserved
  BY DEF StepInv
<1>2. QED
  BY StepInvariance, <1>1, PTL

-----------------------------------------------------------------------------
(* The gyro's deadlines *)

\* The last deadline that was served.
Served == anchor + gyroRuns * gyro.sample

\* The loop period of the running step is one of the present gyro period,
\* whatever denominator was read at its start.
PeriodInv == host # "out" => \E g \in Rates : g.sample = gyro.sample /\ st.gridUs = GridOf(g)

\* What GyroKeepsPace says of all rates, and that the clock is not behind the
\* gyro.
PaceInv ==
    gyro.sample >= MaxQuantum =>
        /\ Served <= lastGyroUs /\ lastGyroUs < Served + MaxQuantum
        /\ lastGyroUs <= sitlVirtualTimeUs
        /\ sitlVirtualTimeUs < Served + gyro.sample

\* On a period of OnGrid the time since the last deadline is a multiple of the
\* quantum.
GridInv ==
    gyro.sample >= MaxQuantum /\ OnGrid(gyro.sample) =>
        /\ lastGyroUs = Served
        /\ host # "spin"
        /\ (sitlVirtualTimeUs - lastGyroUs) % localStepQuantumUs(gyro.sample) = 0

\* The last deadline and the gyro period are numbers.
LEMMA ServedType ==
    ASSUME StepInv
    PROVE  /\ Served \in Nat /\ gyro.sample \in Nat \ {0} /\ gyro \in Rates
           /\ sitlVirtualTimeUs \in Nat /\ lastGyroUs \in Nat /\ gyroRuns \in Nat /\ anchor \in Nat
           /\ Served + gyro.sample = anchor + (gyroRuns + 1) * gyro.sample
<1> DEFINE s == gyro.sample
<1>1. gyroRuns \in Nat /\ anchor \in Nat /\ s \in Nat \ {0} /\ gyro \in Rates
      /\ sitlVirtualTimeUs \in Nat /\ lastGyroUs \in Nat
  BY GridPositive DEF StepInv, TypeOK
<1> HIDE DEF s
<1>2. gyroRuns * s \in Nat /\ (gyroRuns + 1) * s = gyroRuns * s + s
  BY <1>1, NextProduct
<1>3. anchor + gyroRuns * s \in Nat
      /\ (anchor + gyroRuns * s) + s = anchor + (gyroRuns + 1) * s
  BY <1>1, <1>2
<1>4. QED
  BY <1>1, <1>3 DEF Served, s

\* A pass of the scheduler serves the next deadline if it is due, and else
\* leaves the gyro alone.
LEMMA PassServes ==
    ASSUME StepInv, RunQuantum
    PROVE  LET q == localStepQuantumUs(st.gridUs)
           IN  /\ q \in 1 .. 100 /\ sitlVirtualTimeUs' = sitlVirtualTimeUs + q
               /\ gyro' = gyro /\ anchor' = anchor /\ st'.gridUs = st.gridUs
               /\ TimeLeft(sitlVirtualTimeUs + q) = Served + gyro.sample - (sitlVirtualTimeUs + q)
               /\ \/ /\ GyroPass(sitlVirtualTimeUs + q)
                     /\ Served + gyro.sample <= sitlVirtualTimeUs'
                     /\ Served' = Served + gyro.sample /\ lastGyroUs' = sitlVirtualTimeUs'
                     /\ host' = "run"
                  \/ /\ TaskPass(sitlVirtualTimeUs + q) \/ NearPass(sitlVirtualTimeUs + q)
                     /\ sitlVirtualTimeUs' < Served + gyro.sample
                     /\ Served' = Served /\ lastGyroUs' = lastGyroUs
<1> DEFINE q == localStepQuantumUs(st.gridUs)
           t == sitlVirtualTimeUs + q
           s == gyro.sample
<1>1. Served \in Nat /\ s \in Nat \ {0} /\ sitlVirtualTimeUs \in Nat /\ gyroRuns \in Nat
      /\ Served + s = anchor + (gyroRuns + 1) * s
      /\ st \in [stepUs : Nat, gridUs : Nat \ {0}, remainingUs : Nat, pids : Nat]
  BY ServedType DEF StepInv, TypeOK
<1>2. q \in 1 .. 100
  BY <1>1, QuantumIs
<1>3. /\ sitlVirtualTimeUs' = t /\ st' = [st EXCEPT !.remainingUs = @ - q]
      /\ GyroPass(t) \/ TaskPass(t) \/ NearPass(t)
      /\ gyro' = gyro /\ anchor' = anchor
  BY DEF RunQuantum
<1>4. st'.gridUs = st.gridUs
  BY <1>1, <1>3
<1>5. TimeLeft(t) = Served + s - t
  <2> DEFINE p == (gyroRuns + 1) * s
  <2>1. TimeLeft(t) = anchor + p - t
    BY DEF TimeLeft
  <2>2. p \in Nat /\ Served + s = anchor + p /\ anchor \in Nat /\ t \in Nat
    BY <1>1, <1>2, NextProduct, ServedType
  <2> HIDE DEF p, t, s
  <2>3. QED
    BY <1>1, <2>1, <2>2
<1>6. t \in Nat
  BY <1>1, <1>2
<1> HIDE DEF q, t
<1>7. CASE GyroPass(t)
  <2>1. TimeLeft(t) <= 0 /\ gyroRuns' = gyroRuns + 1 /\ lastGyroUs' = t /\ host' = "run"
    BY <1>7 DEF GyroPass
  <2>2. Served' = Served + s
    BY <1>1, <1>3, <2>1 DEF Served
  <2> HIDE DEF s
  <2>3. Served + s <= t
    BY <1>1, <1>5, <1>6, <2>1
  <2>4. QED
    BY <1>2, <1>3, <1>4, <1>5, <1>7, <2>1, <2>2, <2>3 DEF q, t, s
<1>8. CASE TaskPass(t) \/ NearPass(t)
  <2>1. gyroRuns' = gyroRuns /\ lastGyroUs' = lastGyroUs
    BY <1>8 DEF TaskPass, NearPass
  <2>2. Served' = Served
    BY <1>3, <2>1 DEF Served
  <2>3. TimeLeft(t) > 0
    <3>1. TimeLeft(t) \in Int /\ (TimeLeft(t) > GuardUs \/ TimeLeft(t) > 0) /\ GuardUs \in Nat
      BY <1>1, <1>5, <1>6, <1>8, StepConstants DEF TaskPass, NearPass, StepConstants
    <3>2. QED
      BY <3>1
  <2> HIDE DEF s
  <2>4. t < Served + s
    BY <1>1, <1>5, <1>6, <2>3
  <2>5. QED
    BY <1>2, <1>3, <1>4, <1>5, <1>8, <2>1, <2>2, <2>4 DEF q, t, s
<1>9. QED
  BY <1>3, <1>7, <1>8

\* A pass keeps the pace: with a gyro period of a quantum or more there is never
\* a second deadline due.
LEMMA PacePass ==
    ASSUME StepInv, PaceInv, RunQuantum
    PROVE  PaceInv'
<1> DEFINE q == localStepQuantumUs(st.gridUs)
           s == gyro.sample
<1>1. /\ q \in 1 .. 100 /\ sitlVirtualTimeUs' = sitlVirtualTimeUs + q /\ gyro'.sample = s
      /\ \/ /\ Served + s <= sitlVirtualTimeUs'
            /\ Served' = Served + s /\ lastGyroUs' = sitlVirtualTimeUs'
         \/ /\ sitlVirtualTimeUs' < Served + s
            /\ Served' = Served /\ lastGyroUs' = lastGyroUs
  BY PassServes
<1>2. Served \in Nat /\ s \in Nat /\ sitlVirtualTimeUs \in Nat /\ lastGyroUs \in Nat
  BY ServedType
<1>3. s >= 100 => /\ Served <= lastGyroUs /\ lastGyroUs < Served + 100
                  /\ lastGyroUs <= sitlVirtualTimeUs
                  /\ sitlVirtualTimeUs < Served + s
  BY DEF PaceInv
<1> HIDE DEF q, s
<1>4. s >= 100 => /\ Served' <= lastGyroUs' /\ lastGyroUs' < Served' + 100
                  /\ lastGyroUs' <= sitlVirtualTimeUs'
                  /\ sitlVirtualTimeUs' < Served' + s
  BY <1>1, <1>2, <1>3
<1>5. QED
  BY <1>1, <1>4 DEF PaceInv

\* A pass on the grid either serves the gyro exactly on its deadline or comes a
\* quantum or more before it.
LEMMA GridPass ==
    ASSUME StepInv, PeriodInv, PaceInv, GridInv, RunQuantum
    PROVE  GridInv'
<1> DEFINE s == gyro.sample
           q == localStepQuantumUs(s)
           e == sitlVirtualTimeUs - lastGyroUs
<1> SUFFICES ASSUME s >= 100, OnGrid(s)
             PROVE  /\ lastGyroUs' = Served' /\ host' # "spin"
                    /\ (sitlVirtualTimeUs' - lastGyroUs') % q = 0
  <2>1. gyro' = gyro
    BY DEF RunQuantum
  <2>2. OnGrid(gyro'.sample) <=> OnGrid(s)
    BY <2>1
  <2>3. QED
    BY <2>1, <2>2 DEF GridInv
<1>1. localStepQuantumUs(st.gridUs) = q /\ q >= 25
  <2>1. PICK g \in Rates : g.sample = s /\ st.gridUs = GridOf(g)
    BY DEF PeriodInv, RunQuantum
  <2>2. QED
    BY <2>1, SameQuantum
<1>2. /\ Served \in Nat /\ s \in Nat \ {0} /\ sitlVirtualTimeUs \in Nat /\ lastGyroUs \in Nat
      /\ SpinUs \in 0 .. 25
  BY ServedType, StepConstants DEF StepConstants
<1>3. q \in 1 .. 100 /\ s % q = 0
  BY <1>2, QuantumIs
<1>4. lastGyroUs = Served /\ host # "spin" /\ e % q = 0
  BY DEF GridInv
<1>5. lastGyroUs <= sitlVirtualTimeUs /\ sitlVirtualTimeUs < Served + s
  BY DEF PaceInv
<1>6. /\ sitlVirtualTimeUs' = sitlVirtualTimeUs + q
      /\ TimeLeft(sitlVirtualTimeUs + q) = Served + s - (sitlVirtualTimeUs + q)
      /\ \/ /\ Served + s <= sitlVirtualTimeUs' /\ host' = "run"
            /\ Served' = Served + s /\ lastGyroUs' = sitlVirtualTimeUs'
         \/ /\ TaskPass(sitlVirtualTimeUs + q) \/ NearPass(sitlVirtualTimeUs + q)
            /\ sitlVirtualTimeUs' < Served + s
            /\ Served' = Served /\ lastGyroUs' = lastGyroUs
  BY <1>1, PassServes
<1> HIDE DEF s, q
<1>7. e \in Nat /\ e < s /\ sitlVirtualTimeUs = Served + e
  BY <1>2, <1>4, <1>5
<1> HIDE DEF e
<1>8. e + q <= s /\ (e + q) % q = 0
  <2>1. e \in Nat /\ s \in Nat /\ q \in Nat \ {0} /\ e % q = 0 /\ s % q = 0 /\ e < s
    BY <1>2, <1>3, <1>4, <1>7
  <2>2. e + q <= s
    BY <2>1, MultiplesApart
  <2>3. (e + q) % q = e % q
    BY <2>1, RemainderStep
  <2>4. QED
    BY <2>1, <2>2, <2>3
<1>9. CASE /\ Served + s <= sitlVirtualTimeUs' /\ host' = "run"
           /\ Served' = Served + s /\ lastGyroUs' = sitlVirtualTimeUs'
  <2>1. sitlVirtualTimeUs' = Served + s
    BY <1>2, <1>3, <1>6, <1>7, <1>8, <1>9
  <2>2. sitlVirtualTimeUs' - lastGyroUs' = 0 /\ 0 % q = 0
    BY <1>2, <1>3, <1>9, <2>1
  <2>3. QED
    BY <1>9, <2>1, <2>2
<1>10. CASE /\ TaskPass(sitlVirtualTimeUs + q) \/ NearPass(sitlVirtualTimeUs + q)
            /\ sitlVirtualTimeUs' < Served + s
            /\ Served' = Served /\ lastGyroUs' = lastGyroUs
  <2>1. e + q \in Nat /\ e + q < s
    BY <1>2, <1>3, <1>6, <1>7, <1>10
  <2>2. e + q + q <= s
    <3> DEFINE x == e + q
    <3>1. x \in Nat /\ x < s /\ x % q = 0 /\ s \in Nat /\ q \in Nat \ {0}
      BY <1>2, <1>3, <1>8, <2>1
    <3> HIDE DEF x
    <3>2. x + q <= s
      BY <1>3, <3>1, MultiplesApart
    <3>3. QED
      BY <3>2 DEF x
  <2>3. TimeLeft(sitlVirtualTimeUs + q) >= SpinUs
    BY <1>1, <1>2, <1>3, <1>6, <1>7, <2>2
  <2>4. host' # "spin"
    <3>1. TimeLeft(sitlVirtualTimeUs + q) \in Int
      BY <1>2, <1>3, <1>6
    <3>2. ~(TimeLeft(sitlVirtualTimeUs + q) < SpinUs)
      BY <1>2, <2>3, <3>1
    <3>3. QED
      BY <1>10, <3>2, Zenon DEF TaskPass, NearPass
  <2>5. sitlVirtualTimeUs' - lastGyroUs' = e + q
    BY <1>2, <1>3, <1>4, <1>6, <1>7, <1>10
  <2>6. QED
    BY <1>4, <1>8, <1>10, <2>4, <2>5
<1>11. QED
  BY <1>6, <1>9, <1>10

\* Every step keeps the loop period of the step one of the present gyro period.
LEMMA PeriodNext == StepInv /\ PeriodInv /\ [Next]_vars => PeriodInv'
<1> SUFFICES ASSUME StepInv, PeriodInv, [Next]_vars PROVE PeriodInv'
  OBVIOUS
<1> USE DEF PeriodInv, clockVars, gyroVars, rcVars, armVars, latches, bounds
<1>1. ASSUME NEW dt \in Dts, Enter(dt) PROVE PeriodInv'
  <2>1. st'.gridUs = GridOf(gyro) /\ gyro \in Rates /\ gyro' = gyro
    BY <1>1 DEF Enter, sitlLocalGyroGridUs, StepInv, TypeOK
  <2>2. QED
    BY <2>1
<1>2. ASSUME NEW g \in Rates, DeferredWork(g) PROVE PeriodInv'
  <2>1. gyro'.sample = gyro.sample /\ st'.gridUs = st.gridUs /\ host = "work"
    BY <1>2 DEF DeferredWork, Begin, StepInv, TypeOK
  <2>2. QED
    BY <2>1
<1>3. CASE RunQuantum
  <2>1. st'.gridUs = st.gridUs /\ gyro' = gyro
    BY <1>3, PassServes
  <2>2. QED
    BY <1>3, <2>1 DEF RunQuantum
<1>4. CASE RunDone
  BY <1>4 DEF RunDone
<1>5. CASE localUpdateCrashFlipLatch
  BY <1>5 DEF localUpdateCrashFlipLatch
<1>6. CASE HandOver
  BY <1>6 DEF HandOver
<1>7. CASE Disarm
  BY <1>7 DEF Disarm
<1>8. ASSUME NEW g \in Rates, Reinit(g) PROVE PeriodInv'
  BY <1>8 DEF Reinit
<1>9. CASE UNCHANGED vars
  BY <1>9 DEF vars
<1>10. QED
  BY <1>1, <1>2, <1>3, <1>4, <1>5, <1>6, <1>7, <1>8, <1>9 DEF Next, Finished

\* Outside the loop only another boot moves a deadline, and it starts with none
\* behind.
LEMMA OutsideLoop ==
    ASSUME StepInv, [Next]_vars, ~RunQuantum
    PROVE  \/ /\ UNCHANGED <<sitlVirtualTimeUs, anchor, gyroRuns, lastGyroUs>>
              /\ gyro'.sample = gyro.sample /\ Served' = Served
              /\ host' = "spin" => host = "spin"
           \/ /\ lastGyroUs' = Served' /\ sitlVirtualTimeUs' = Served' /\ Served' \in Nat
              /\ host' = "out" /\ gyro' \in Rates
<1> USE DEF clockVars, gyroVars, rcVars, armVars, latches, bounds
<1> DEFINE Stays == /\ UNCHANGED <<sitlVirtualTimeUs, anchor, gyroRuns, lastGyroUs>>
                    /\ gyro'.sample = gyro.sample
                    /\ host' = "spin" => host = "spin"
<1>1. ASSUME NEW dt \in Dts, Enter(dt) PROVE Stays
  BY <1>1 DEF Enter
<1>2. ASSUME NEW g \in Rates, DeferredWork(g) PROVE Stays
  BY <1>2 DEF DeferredWork
<1>3. ASSUME RunDone PROVE Stays
  BY <1>3 DEF RunDone
<1>4. ASSUME localUpdateCrashFlipLatch PROVE Stays
  BY <1>4 DEF localUpdateCrashFlipLatch
<1>5. ASSUME HandOver PROVE Stays
  BY <1>5 DEF HandOver
<1>6. ASSUME Disarm PROVE Stays
  BY <1>6 DEF Disarm
<1>7. ASSUME UNCHANGED vars PROVE Stays
  BY <1>7 DEF vars
<1>8. ASSUME NEW g \in Rates, Reinit(g)
      PROVE  /\ lastGyroUs' = Served' /\ sitlVirtualTimeUs' = Served' /\ Served' \in Nat
             /\ host' = "out" /\ gyro' \in Rates
  <2>1. /\ gyro' = g /\ host' = "out" /\ anchor' = sitlVirtualTimeUs /\ gyroRuns' = 0
        /\ lastGyroUs' = sitlVirtualTimeUs /\ sitlVirtualTimeUs' = sitlVirtualTimeUs
    BY <1>8 DEF Reinit
  <2>2. sitlVirtualTimeUs \in Nat /\ g.sample \in Nat
    BY GridPositive, ServedType
  <2>3. Served' = sitlVirtualTimeUs + 0 * g.sample
    BY <2>1 DEF Served
  <2>4. QED
    BY <2>1, <2>2, <2>3
<1>9. Stays => Served' = Served
  BY DEF Served
<1>10. Stays \/ \E g \in Rates : Reinit(g)
  BY <1>1, <1>2, <1>3, <1>4, <1>5, <1>6, <1>7 DEF Next, Finished
<1>11. QED
  BY <1>8, <1>9, <1>10

\* Every step keeps the pace of the gyro.
LEMMA PaceNext == StepInv /\ PaceInv /\ [Next]_vars => PaceInv'
<1> SUFFICES ASSUME StepInv, PaceInv, [Next]_vars, ~RunQuantum PROVE PaceInv'
  BY PacePass
<1>1. CASE /\ UNCHANGED <<sitlVirtualTimeUs, lastGyroUs>>
           /\ gyro'.sample = gyro.sample /\ Served' = Served
  BY <1>1 DEF PaceInv
<1>2. CASE /\ lastGyroUs' = Served' /\ sitlVirtualTimeUs' = Served' /\ Served' \in Nat
           /\ gyro' \in Rates
  <2>1. gyro'.sample \in Nat \ {0}
    BY <1>2, GridPositive
  <2> DEFINE v == Served'
             s == gyro'.sample
  <2> HIDE DEF v, s
  <2>a. v \in Nat /\ lastGyroUs' = v /\ sitlVirtualTimeUs' = v /\ s \in Nat
    BY <1>2, <2>1, Zenon DEF v, s
  <2>b. s >= 100 => v <= v /\ v < v + 100 /\ v < v + s
    BY <2>a
  <2>2. gyro'.sample >= 100 =>
          /\ Served' <= lastGyroUs' /\ lastGyroUs' < Served' + 100
          /\ lastGyroUs' <= sitlVirtualTimeUs'
          /\ sitlVirtualTimeUs' < Served' + gyro'.sample
    BY <2>a, <2>b DEF v, s
  <2>3. QED
    BY <2>2 DEF PaceInv
<1>3. QED
  BY <1>1, <1>2, OutsideLoop

\* Every step keeps the clock and the deadlines of OnGrid together.
LEMMA GridNext == StepInv /\ PeriodInv /\ PaceInv /\ GridInv /\ [Next]_vars => GridInv'
<1> SUFFICES ASSUME StepInv, PeriodInv, PaceInv, GridInv, [Next]_vars, ~RunQuantum PROVE GridInv'
  BY GridPass
<1>1. CASE /\ UNCHANGED <<sitlVirtualTimeUs, lastGyroUs>>
           /\ gyro'.sample = gyro.sample /\ Served' = Served
           /\ host' = "spin" => host = "spin"
  <2>1. /\ OnGrid(gyro'.sample) <=> OnGrid(gyro.sample)
        /\ localStepQuantumUs(gyro'.sample) = localStepQuantumUs(gyro.sample)
    BY <1>1
  <2>2. QED
    BY <1>1, <2>1 DEF GridInv
<1>2. CASE /\ lastGyroUs' = Served' /\ sitlVirtualTimeUs' = Served' /\ Served' \in Nat
           /\ host' = "out" /\ gyro' \in Rates
  <2> DEFINE q == localStepQuantumUs(gyro'.sample)
  <2>1. q \in 1 .. 100
    BY <1>2, GridPositive, QuantumIs
  <2> HIDE DEF q
  <2> DEFINE v == Served'
  <2> HIDE DEF v
  <2>a. v \in Nat /\ lastGyroUs' = v /\ sitlVirtualTimeUs' = v
    BY <1>2, Zenon DEF v
  <2>2. sitlVirtualTimeUs' - lastGyroUs' = 0 /\ 0 % q = 0
    BY <2>1, <2>a
  <2>3. (sitlVirtualTimeUs' - lastGyroUs') % q = 0
    BY <2>2
  <2>4. QED
    BY <1>2, <2>3 DEF GridInv, q
<1>3. QED
  BY <1>1, <1>2, OutsideLoop

\* They hold at start.
LEMMA PaceInit == Init => PeriodInv /\ PaceInv /\ GridInv
<1> SUFFICES ASSUME Init PROVE PeriodInv /\ PaceInv /\ GridInv
  OBVIOUS
<1>1. gyro \in Rates /\ sitlVirtualTimeUs = 0 /\ lastGyroUs = 0 /\ anchor = 0
      /\ gyroRuns = 0 /\ host = "out"
  BY DEF Init
<1> DEFINE s == gyro.sample
           q == localStepQuantumUs(s)
<1>2. s \in Nat \ {0} /\ q \in 1 .. 100
  BY <1>1, GridPositive, QuantumIs
<1>3. Served = 0
  BY <1>1, <1>2 DEF Served
<1>4. PaceInv
  BY <1>1, <1>2, <1>3 DEF PaceInv
<1> HIDE DEF q
<1>5. (sitlVirtualTimeUs - lastGyroUs) % q = 0
  BY <1>1, <1>2
<1>6. QED
  BY <1>1, <1>3, <1>4, <1>5 DEF PeriodInv, GridInv, q

\* The three hold in every reachable state, whatever the rates.
LEMMA PaceInvariance == Spec => [](PeriodInv /\ PaceInv /\ GridInv)
BY StepInvariance, PaceInit, PeriodNext, PaceNext, GridNext, PTL DEF Spec

\* The gyro is served once for every deadline, never early, less than a quantum
\* late, and exactly on the deadline when every denominator's quantum divides
\* the gyro period: the scheduler then never polls a clock that stands still.
THEOREM DeadlinesAreKept == Spec => []GyroKeepsPace
<1>1. StepInv /\ PaceInv /\ GridInv => GyroKeepsPace
  <2> SUFFICES ASSUME StepInv, PaceInv, GridInv, gyro.sample >= MaxQuantum
               PROVE  /\ lastGyroUs \in Served .. Served + MaxQuantum - 1
                      /\ sitlVirtualTimeUs < Served + gyro.sample
                      /\ OnGrid(gyro.sample) => lastGyroUs = Served /\ host # "spin"
    BY DEF GyroKeepsPace, Served
  <2>1. Served \in Nat /\ lastGyroUs \in Nat
    BY ServedType
  <2>2. /\ Served <= lastGyroUs /\ lastGyroUs < Served + MaxQuantum
        /\ sitlVirtualTimeUs < Served + gyro.sample
    BY DEF PaceInv
  <2>3. lastGyroUs \in Served .. Served + MaxQuantum - 1
    BY <2>1, <2>2
  <2>4. QED
    BY <2>2, <2>3 DEF GridInv
<1>2. QED
  BY StepInvariance, PaceInvariance, <1>1, PTL

-----------------------------------------------------------------------------
(* The crash flip latch *)

\* As the last step left it: the host's record of the arm state covers the
\* firmware's, and its latch is one the firmware would have.
LatchKept ==
    /\ armed => gLocalWasArmed
    /\ gLocalCrashFlipLatched /\ armed => crashFlipModeActive

\* After an RC frame of this step: what the update will latch is what the
\* firmware has latched, for all the frames of a step carry the same switches.
LatchDue ==
    /\ sticks = gLocalRc
    /\ armed /\ sticks.box =>
         crashFlipModeActive \/ (gLocalWasArmed /\ ~gLocalCrashFlipLatched)

LatchInv == LatchKept \/ (host \in {"run", "spin", "latch"} /\ LatchDue)

\* A frame, with or without the arm state changing.
LEMMA LatchFrame ==
    ASSUME StepInv, LatchInv, sticks' = gLocalRc, Arming,
           UNCHANGED <<gLocalRc, gLocalWasArmed, gLocalCrashFlipLatched>>
    PROVE  LatchDue'
<1>1. /\ armed \in BOOLEAN /\ crashFlipModeActive \in BOOLEAN
      /\ gLocalWasArmed \in BOOLEAN /\ gLocalCrashFlipLatched \in BOOLEAN
  BY DEF StepInv, TypeOK
<1>2. crashFlipModeActive' <=> armed' /\ sticks'.box /\ (armed => crashFlipModeActive)
  BY Zenon DEF Arming
<1>3. sticks'.box /\ armed /\ ~crashFlipModeActive => gLocalWasArmed /\ ~gLocalCrashFlipLatched
  BY Zenon DEF LatchInv, LatchKept, LatchDue
<1>4. QED
  BY <1>1, <1>2, <1>3, Zenon DEF LatchDue

\* Every step keeps host and firmware agreed on crash flip.
LEMMA LatchNext == StepInv /\ LatchInv /\ [Next]_vars => LatchInv'
<1> SUFFICES ASSUME StepInv, LatchInv, [Next]_vars PROVE LatchInv'
  OBVIOUS
<1> USE DEF clockVars, gyroVars, rcVars, armVars, latches, bounds
<1>1. ASSUME UNCHANGED <<armVars, latches>>, LatchKept PROVE LatchInv'
  BY <1>1, Zenon DEF LatchInv, LatchKept
<1>2. ASSUME UNCHANGED <<gLocalRc, sticks, armVars, latches>>,
             host \in {"run", "spin", "latch"} => host' \in {"run", "spin", "latch"}
      PROVE  LatchInv'
  BY <1>2, Zenon DEF LatchInv, LatchKept, LatchDue
<1>3. ASSUME NEW dt \in Dts, Enter(dt) PROVE LatchInv'
  <2>1. host = "out" /\ UNCHANGED <<armVars, latches>>
    BY <1>3 DEF Enter
  <2>2. QED
    BY <1>1, <2>1 DEF LatchInv
<1>4. ASSUME NEW g \in Rates, DeferredWork(g) PROVE LatchInv'
  <2>1. host = "work" /\ UNCHANGED <<armVars, latches>>
    BY <1>4 DEF DeferredWork
  <2>2. QED
    BY <1>1, <2>1 DEF LatchInv
<1>5. CASE RunQuantum
  <2> DEFINE t == sitlVirtualTimeUs + localStepQuantumUs(st.gridUs)
  <2>1. GyroPass(t) \/ TaskPass(t) \/ NearPass(t)
    BY <1>5 DEF RunQuantum
  <2>2. host' \in {"run", "spin"} /\ UNCHANGED latches
    BY <1>5, <2>1 DEF RunQuantum, GyroPass, TaskPass, NearPass
  <2> HIDE DEF t
  <2>3. CASE UNCHANGED <<rcVars, armVars>>
    BY <1>2, <2>2, <2>3
  <2>4. CASE UNCHANGED gLocalRc /\ localRcFrameStatus(t)
    <3>1. CASE UNCHANGED <<sticks, armVars>>
      BY <1>2, <2>2, <2>4, <3>1
    <3>2. CASE sticks' = gLocalRc /\ Arming
      BY <2>2, <2>4, <3>2, LatchFrame DEF LatchInv
    <3>3. QED
      BY <2>4, <3>1, <3>2 DEF localRcFrameStatus
  <2>5. QED
    BY <2>1, <2>3, <2>4 DEF GyroPass, TaskPass, NearPass
<1>6. CASE RunDone
  BY <1>2, <1>6 DEF RunDone
<1>7. CASE localUpdateCrashFlipLatch
  <2>1. /\ gLocalCrashFlipLatched' <=>
             armed /\ sticks.box /\ (gLocalWasArmed => gLocalCrashFlipLatched)
        /\ gLocalWasArmed' = armed /\ UNCHANGED armVars
    BY <1>7, Zenon DEF localUpdateCrashFlipLatch
  <2>2. gLocalCrashFlipLatched' /\ armed => crashFlipModeActive
    BY <2>1, Zenon DEF LatchInv, LatchKept, LatchDue
  <2>3. LatchKept'
    BY <2>1, <2>2, Zenon DEF LatchKept
  <2>4. QED
    BY <2>3 DEF LatchInv
<1>8. CASE HandOver
  <2>1. host = "take" /\ UNCHANGED <<armVars, latches>>
    BY <1>8 DEF HandOver
  <2>2. QED
    BY <1>1, <2>1 DEF LatchInv
<1>9. CASE Disarm
  <2>1. armed' = FALSE
    BY <1>9 DEF Disarm
  <2>2. QED
    BY <2>1, Zenon DEF LatchInv, LatchKept
<1>10. ASSUME NEW g \in Rates, Reinit(g) PROVE LatchInv'
  <2>1. host = "out" /\ UNCHANGED <<armVars, latches>>
    BY <1>10 DEF Reinit
  <2>2. QED
    BY <1>1, <2>1 DEF LatchInv
<1>11. CASE UNCHANGED vars
  BY <1>2, <1>11 DEF vars
<1>12. QED
  BY <1>3, <1>4, <1>5, <1>6, <1>7, <1>8, <1>9, <1>10, <1>11 DEF Next, Finished

\* Crash flip is engaged only if the firmware would have latched it when the
\* craft armed, however long the steps are and whoever disarms in between.
THEOREM FlipNeedsBoxAtArming == Spec => []FlipOnlyIfOnAtArming
<1>1. Init => LatchInv
  BY Zenon DEF Init, LatchInv, LatchKept
<1>2. LatchInv => FlipOnlyIfOnAtArming
  BY Zenon DEF LatchInv, LatchKept, FlipOnlyIfOnAtArming
<1>3. QED
  BY StepInvariance, <1>1, LatchNext, <1>2, PTL DEF Spec

-----------------------------------------------------------------------------
(* RC frames *)

\* What is due for RX: a frame is late only near a deadline, by what is left of
\* it, or after a gyro run, which took the pass.
Lag == sitlVirtualTimeUs - gLocalRcAnnounceUs
Ahead == Served + gyro.sample - sitlVirtualTimeUs

RcInv ==
    /\ Lag \in Nat
    /\ ~gLocalRcValid => Lag = 0 /\ host \in {"out", "work"}
    /\ gyro.sample >= 2 * MaxQuantum + GuardUs =>
         \/ Lag < RcPeriod
         \/ Ahead <= GuardUs /\ Lag + Ahead < RcPeriod + GuardUs + MaxQuantum
         \/ sitlVirtualTimeUs = lastGyroUs /\ Lag < RcPeriod + GuardUs + 2 * MaxQuantum

\* A pass keeps the lag of an RC frame below its bound: after a gyro run, be it
\* late, there is time for RX before the next deadline.
LEMMA RcPass ==
    ASSUME StepInv, PaceInv, RcInv, RunQuantum
    PROVE  RcInv'
<1> DEFINE q == localStepQuantumUs(st.gridUs)
           s == gyro.sample
           now == sitlVirtualTimeUs
<1>1. /\ q \in 1 .. 100 /\ now' = now + q /\ gyro'.sample = s
      /\ TimeLeft(now + q) = Served + s - (now + q)
      /\ \/ /\ GyroPass(now + q) /\ Served + s <= now'
            /\ Served' = Served + s /\ lastGyroUs' = now'
         \/ /\ TaskPass(now + q) \/ NearPass(now + q)
            /\ now' < Served + s
            /\ Served' = Served /\ lastGyroUs' = lastGyroUs
  BY PassServes
<1>2. /\ Served \in Nat /\ s \in Nat /\ now \in Nat /\ lastGyroUs \in Nat
      /\ gLocalRcAnnounceUs \in Nat /\ RcPeriod \in Nat \ {0} /\ GuardUs \in Nat
  BY ServedType, StepConstants DEF StepInv, TypeOK, StepConstants
<1>3. host = "run" /\ gLocalRcValid
  BY DEF RcInv, RunQuantum
<1>4. now - gLocalRcAnnounceUs \in Nat
  BY DEF RcInv, Lag
<1>5. s >= 200 + GuardUs =>
         \/ now - gLocalRcAnnounceUs < RcPeriod
         \/ /\ Served + s - now <= GuardUs
            /\ (now - gLocalRcAnnounceUs) + (Served + s - now) < RcPeriod + GuardUs + 100
         \/ now = lastGyroUs /\ now - gLocalRcAnnounceUs < RcPeriod + GuardUs + 200
  BY DEF RcInv, Lag, Ahead
<1>6. s >= 200 + GuardUs => lastGyroUs < Served + 100 /\ now < Served + s
  BY <1>2 DEF PaceInv
<1>7. \/ /\ GyroPass(now + q) /\ gLocalRcAnnounceUs' = gLocalRcAnnounceUs
      \/ /\ TimeLeft(now + q) > GuardUs
         /\ IF (now + q) - gLocalRcAnnounceUs >= RcPeriod THEN gLocalRcAnnounceUs' = now + q
            ELSE gLocalRcAnnounceUs' = gLocalRcAnnounceUs
         /\ TaskPass(now + q)
      \/ /\ TimeLeft(now + q) <= GuardUs /\ NearPass(now + q)
         /\ gLocalRcAnnounceUs' = gLocalRcAnnounceUs
  <2> HIDE DEF q
  <2>1. ASSUME GyroPass(now + q) PROVE gLocalRcAnnounceUs' = gLocalRcAnnounceUs
    BY <2>1 DEF GyroPass, rcVars
  <2>2. ASSUME NearPass(now + q)
        PROVE  TimeLeft(now + q) <= GuardUs /\ gLocalRcAnnounceUs' = gLocalRcAnnounceUs
    BY <2>2 DEF NearPass, rcVars
  <2>3. ASSUME TaskPass(now + q)
        PROVE  /\ TimeLeft(now + q) > GuardUs
               /\ IF (now + q) - gLocalRcAnnounceUs >= RcPeriod
                  THEN gLocalRcAnnounceUs' = now + q
                  ELSE gLocalRcAnnounceUs' = gLocalRcAnnounceUs
    <3>1. TimeLeft(now + q) > GuardUs /\ localRcFrameStatus(now + q)
      BY <2>3, Zenon DEF TaskPass
    <3>2. gLocalRcValid
      BY <1>3
    <3>3. CASE (now + q) - gLocalRcAnnounceUs >= RcPeriod
      <4>1. gLocalRcAnnounceUs' = now + q
        BY <3>1, <3>2, <3>3, Zenon DEF localRcFrameStatus
      <4>2. QED
        BY <3>1, <3>3, <4>1
    <3>4. CASE ~((now + q) - gLocalRcAnnounceUs >= RcPeriod)
      <4>1. gLocalRcAnnounceUs' = gLocalRcAnnounceUs
        BY <3>1, <3>4, Zenon DEF localRcFrameStatus
      <4>2. QED
        BY <3>1, <3>4, <4>1
    <3>5. QED
      BY <3>3, <3>4
  <2>4. QED
    BY <1>1, <2>1, <2>2, <2>3
<1>8. gLocalRcValid' = gLocalRcValid
  BY <1>1 DEF GyroPass, TaskPass, NearPass, rcVars
<1>9. TaskPass(now + q) \/ NearPass(now + q) => ~GyroPass(now + q)
  <2>1. TaskPass(now + q) \/ NearPass(now + q) => TimeLeft(now + q) > 0
    <3>1. TimeLeft(now + q) \in Int
      BY <1>1, <1>2
    <3>2. TaskPass(now + q) \/ NearPass(now + q) => TimeLeft(now + q) > GuardUs \/ TimeLeft(now + q) > 0
      BY DEF TaskPass, NearPass
    <3>3. QED
      BY <1>2, <3>1, <3>2
  <2>2. GyroPass(now + q) => TimeLeft(now + q) <= 0
    BY DEF GyroPass
  <2>3. TimeLeft(now + q) \in Int
    BY <1>1, <1>2
  <2>4. QED
    BY <2>1, <2>2, <2>3
<1> HIDE DEF q, s
<1>10. now' - gLocalRcAnnounceUs' \in Nat
  BY <1>1, <1>2, <1>4, <1>7
<1>11. s >= 200 + GuardUs =>
         \/ now' - gLocalRcAnnounceUs' < RcPeriod
         \/ /\ Served' + s - now' <= GuardUs
            /\ (now' - gLocalRcAnnounceUs') + (Served' + s - now') < RcPeriod + GuardUs + 100
         \/ now' = lastGyroUs' /\ now' - gLocalRcAnnounceUs' < RcPeriod + GuardUs + 200
  <2> SUFFICES ASSUME s >= 200 + GuardUs
               PROVE
         \/ now' - gLocalRcAnnounceUs' < RcPeriod
         \/ /\ Served' + s - now' <= GuardUs
            /\ (now' - gLocalRcAnnounceUs') + (Served' + s - now') < RcPeriod + GuardUs + 100
         \/ now' = lastGyroUs' /\ now' - gLocalRcAnnounceUs' < RcPeriod + GuardUs + 200
    OBVIOUS
  <2>1. CASE GyroPass(now + q) /\ gLocalRcAnnounceUs' = gLocalRcAnnounceUs
    <3>1. Served + s <= now + q /\ lastGyroUs' = now'
      BY <1>1, <1>9, <2>1
    <3>2. now' - gLocalRcAnnounceUs < RcPeriod + GuardUs + 200
      BY <1>1, <1>2, <1>5, <1>6, <3>1
    <3>3. QED
      BY <2>1, <3>1, <3>2
  <2>2. CASE /\ TimeLeft(now + q) > GuardUs
             /\ IF (now + q) - gLocalRcAnnounceUs >= RcPeriod THEN gLocalRcAnnounceUs' = now + q
                ELSE gLocalRcAnnounceUs' = gLocalRcAnnounceUs
    <3>1. now' - gLocalRcAnnounceUs' < RcPeriod
      BY <1>1, <1>2, <1>4, <2>2
    <3>2. QED
      BY <3>1
  <2>3. CASE /\ TimeLeft(now + q) <= GuardUs /\ NearPass(now + q)
             /\ gLocalRcAnnounceUs' = gLocalRcAnnounceUs
    <3>1. Served' = Served
      BY <1>1, <1>9, <2>3
    <3>2. Served + s - now' <= GuardUs
      BY <1>1, <1>2, <2>3
    <3>3. ~(now = lastGyroUs /\ ~(now - gLocalRcAnnounceUs < RcPeriod))
          \/ (now - gLocalRcAnnounceUs) + (Served + s - now) < RcPeriod + GuardUs + 100
      BY <1>1, <1>2, <1>6, <3>2
    <3>4. (now - gLocalRcAnnounceUs) + (Served + s - now) < RcPeriod + GuardUs + 100
      BY <1>1, <1>2, <1>5, <3>2, <3>3
    <3>5. (now' - gLocalRcAnnounceUs') + (Served' + s - now') < RcPeriod + GuardUs + 100
      BY <1>1, <1>2, <2>3, <3>1, <3>4
    <3>6. QED
      BY <3>1, <3>2, <3>5
  <2>4. QED
    BY <1>7, <2>1, <2>2, <2>3
<1>12. gyro'.sample = s
  BY <1>1
<1>13. QED
  BY <1>3, <1>8, <1>10, <1>11, <1>12 DEF RcInv, Lag, Ahead, s

\* Every step keeps the lag of an RC frame below its bound.
LEMMA RcNext == StepInv /\ PaceInv /\ RcInv /\ [Next]_vars => RcInv'
<1> SUFFICES ASSUME StepInv, RcInv, [Next]_vars, ~RunQuantum PROVE RcInv'
  BY RcPass
<1> USE DEF clockVars, gyroVars, rcVars, armVars, latches, bounds
<1> DEFINE Stays == /\ UNCHANGED <<sitlVirtualTimeUs, lastGyroUs, gLocalRcAnnounceUs>>
                    /\ gyro'.sample = gyro.sample /\ Served' = Served
                    /\ gLocalRcValid' \/ (gLocalRcValid' = gLocalRcValid /\ host' \in {"out", "work"})
<1>1. Stays => RcInv'
  <2> SUFFICES ASSUME Stays PROVE RcInv'
    OBVIOUS
  <2>1. Lag' = Lag /\ Ahead' = Ahead
    BY DEF Lag, Ahead
  <2>2. QED
    BY <2>1 DEF RcInv
<1>2. ASSUME NEW dt \in Dts, Enter(dt) PROVE Stays
  BY <1>2 DEF Enter, Served, StepInv, TypeOK
<1>3. ASSUME NEW g \in Rates, DeferredWork(g) PROVE Stays
  BY <1>3 DEF DeferredWork, Served
<1>4. CASE RunDone
  <2>1. Stays
    BY <1>4 DEF RunDone, Served, RcInv
  <2>2. QED
    BY <1>1, <2>1
<1>5. CASE localUpdateCrashFlipLatch
  <2>1. Stays
    BY <1>5 DEF localUpdateCrashFlipLatch, Served, RcInv
  <2>2. QED
    BY <1>1, <2>1
<1>6. CASE HandOver
  <2>1. Stays
    BY <1>6 DEF HandOver, Served, RcInv
  <2>2. QED
    BY <1>1, <2>1
<1>7. CASE Disarm
  <2>1. Stays
    BY <1>7 DEF Disarm, Served, RcInv
  <2>2. QED
    BY <1>1, <2>1
<1>8. CASE UNCHANGED vars
  <2>1. Stays
    BY <1>8 DEF vars, Served, RcInv
  <2>2. QED
    BY <1>1, <2>1
<1>9. ASSUME NEW g \in Rates, Reinit(g) PROVE RcInv'
  <2>1. sitlVirtualTimeUs \in Nat /\ RcPeriod \in Nat \ {0}
    BY StepConstants DEF StepInv, TypeOK, StepConstants
  <2>2. /\ gLocalRcValid' = FALSE /\ host' = "out"
        /\ sitlVirtualTimeUs' = sitlVirtualTimeUs /\ gLocalRcAnnounceUs' = sitlVirtualTimeUs
    BY <1>9 DEF Reinit
  <2>3. Lag' = 0
    BY <2>1, <2>2 DEF Lag
  <2>4. QED
    BY <2>1, <2>2, <2>3 DEF RcInv
<1>10. QED
  BY <1>1, <1>2, <1>3, <1>4, <1>5, <1>6, <1>7, <1>8, <1>9 DEF Next, Finished

\* A real receiver's cadence: below 4.7 kHz a due frame reaches the firmware
\* within two quanta and the guard time, through reboots, changes of rate and
\* steps of any length, whether or not the quantum divides the gyro period.
THEOREM FramesKeepCadence == Spec => []RcFramesOnTime
<1>1. Init => RcInv
  <2> SUFFICES ASSUME Init PROVE RcInv
    OBVIOUS
  <2>1. Lag = 0 /\ RcPeriod \in Nat \ {0}
    BY StepConstants DEF Init, Lag, StepConstants
  <2>2. QED
    BY <2>1 DEF Init, RcInv
<1>2. StepInv /\ PaceInv /\ RcInv => RcFramesOnTime
  <2> SUFFICES ASSUME StepInv, PaceInv, RcInv, gyro.sample >= 2 * MaxQuantum + GuardUs,
                      host \in {"out", "latch", "take"}
               PROVE  Lag < RcPeriod + GuardUs + 2 * MaxQuantum
    BY DEF RcFramesOnTime, Lag
  <2>1. RcPeriod \in Nat /\ GuardUs \in Nat /\ Lag \in Nat
    BY StepConstants DEF StepConstants, RcInv
  <2>2. Ahead \in Int /\ Ahead > 0
    BY <2>1, ServedType DEF PaceInv, Ahead
  <2>3. QED
    BY <2>1, <2>2 DEF RcInv
<1>3. QED
  BY StepInvariance, PaceInvariance, <1>1, RcNext, <1>2, PTL DEF Spec

-----------------------------------------------------------------------------
(* Motor packets *)

\* Any d consecutive samples hold one of each remainder: every PID denominator
\* has its run among them.
LEMMA EveryRemainder ==
    ASSUME NEW g \in Nat, NEW d \in Nat \ {0}, NEW r \in 0 .. d - 1
    PROVE  \E k \in g + 1 .. g + d : k % d = r
<1> DEFINE m == g \div d
           x == g % d
<1>1. m \in Nat /\ x \in 0 .. d - 1 /\ g = m * d + x
  BY DivRem
<1>2. m * d \in Nat /\ (m + 1) * d = m * d + d
  BY <1>1, NextProduct
<1> HIDE DEF m, x
<1>3. CASE x < r
  <2> DEFINE k == m * d + r
  <2>1. k \in Nat /\ k \in g + 1 .. g + d
    BY <1>1, <1>2, <1>3
  <2>2. k % d = r
    BY <1>1, <2>1, RemainderUnique
  <2>3. QED
    BY <2>1, <2>2
<1>4. CASE x >= r
  <2> DEFINE k == (m + 1) * d + r
  <2>1. k \in Nat /\ k \in g + 1 .. g + d
    BY <1>1, <1>2, <1>4
  <2>2. k % d = r
    <3>1. m + 1 \in Nat
      BY <1>1
    <3>2. QED
      BY <2>1, <3>1, RemainderUnique
  <2>3. QED
    BY <2>1, <2>2
<1>5. QED
  BY <1>1, <1>3, <1>4

\* Products of one factor are ordered as the other factors are.
LEMMA ProductLess ==
    ASSUME NEW a \in Nat, NEW b \in Nat, NEW s \in Nat \ {0}, a * s < b * s
    PROVE  a < b
<1>1. a >= b => a * s >= b * s
  BY SMT
<1>2. a * s \in Nat /\ b * s \in Nat
  BY NextProduct
<1>3. QED
  BY <1>1, <1>2

\* The loop of a step since it began at t0, with g0 gyro runs behind it: the
\* clock has moved by whole quanta, no deadline was left out, and no packet
\* means that none of the samples since was one with a PID run.
RunsSince(g0, t0) ==
    /\ g0 <= gyroRuns /\ t0 <= sitlVirtualTimeUs
    /\ t0 + st.stepUs <= sitlVirtualTimeUs + st.remainingUs
    /\ anchor + g0 * gyro.sample <= t0
    /\ (sitlVirtualTimeUs - t0) % localStepQuantumUs(st.gridUs) = 0
    /\ gLocalMotorPacket = 0 =>
         \A k \in g0 + 1 .. gyroRuns : k % gyro.denom # gyro.denom \div 2

\* The packet in the slot is of the latest PID run of this step, and once the
\* loop is through it is there if the step was a loop period long.
MotorInv ==
    /\ host \in {"out", "work"} => gLocalMotorPacket = 0
    /\ host = "work" => st.pids = pidRuns
    /\ host # "out" => st.pids <= pidRuns
    /\ gLocalMotorPacket # 0 => gLocalMotorPacket = pidRuns /\ pidRuns > st.pids
    /\ gyro.sample >= MaxQuantum /\ host \in {"run", "spin"} =>
         \E g0, t0 \in Nat : RunsSince(g0, t0)
    /\ gyro.sample >= MaxQuantum /\ host \in {"latch", "take"} /\ SureOfPid =>
         gLocalMotorPacket # 0

\* A pass keeps the motor packet that of the latest PID run.
LEMMA MotorPass ==
    ASSUME StepInv, MotorInv, RunQuantum
    PROVE  MotorInv'
<1> DEFINE q == localStepQuantumUs(st.gridUs)
           t == sitlVirtualTimeUs + q
<1>1. /\ q \in 1 .. 100 /\ sitlVirtualTimeUs' = t /\ gyro' = gyro
      /\ GyroPass(t) \/ TaskPass(t) \/ NearPass(t)
  BY PassServes
<1>2. /\ gyroRuns \in Nat /\ pidRuns \in Nat /\ sitlVirtualTimeUs \in Nat /\ anchor \in Nat
      /\ gLocalMotorPacket \in Nat
      /\ st \in [stepUs : Nat, gridUs : Nat \ {0}, remainingUs : Nat, pids : Nat]
      /\ st.stepUs \in Nat /\ st.remainingUs \in Nat /\ st.pids \in Nat
      /\ st.pids <= pidRuns
  BY DEF StepInv, TypeOK, MotorInv, RunQuantum
<1>4. /\ host' \in {"run", "spin"} /\ anchor' = anchor
      /\ st'.stepUs = st.stepUs /\ st'.pids = st.pids
      /\ st'.remainingUs = st.remainingUs - q /\ st'.gridUs = st.gridUs
  <2>1. st' = [st EXCEPT !.remainingUs = @ - q] /\ anchor' = anchor
    BY DEF RunQuantum
  <2>2. host' \in {"run", "spin"}
    BY <1>1 DEF GyroPass, TaskPass, NearPass
  <2>3. QED
    BY <1>2, <2>1, <2>2
<1>5. \/ /\ gyroRuns' = gyroRuns + 1
         /\ pidRuns' = pidRuns + 1 /\ gLocalMotorPacket' = pidRuns + 1
      \/ /\ gyroRuns' = gyroRuns + 1
         /\ gyroRuns' % gyro.denom # gyro.denom \div 2
         /\ UNCHANGED <<pidRuns, gLocalMotorPacket>>
      \/ UNCHANGED <<gyroRuns, pidRuns, gLocalMotorPacket>>
  BY <1>1 DEF GyroPass, TaskPass, NearPass, PidRun
<1>6. ASSUME gyro.sample >= MaxQuantum PROVE \E g0, t0 \in Nat : RunsSince(g0, t0)'
  <2>1. PICK g0 \in Nat, t0 \in Nat : RunsSince(g0, t0)
    BY <1>6 DEF MotorInv, RunQuantum
  <2>2. (sitlVirtualTimeUs' - t0) % localStepQuantumUs(st'.gridUs) = 0
    <3> DEFINE e == sitlVirtualTimeUs - t0
    <3>1. e % q = 0 /\ e \in Nat
      BY <1>2, <2>1 DEF RunsSince
    <3>2. sitlVirtualTimeUs' - t0 = e + q /\ localStepQuantumUs(st'.gridUs) = q
      <4>1. localStepQuantumUs(st'.gridUs) = q
        BY <1>4
      <4>2. sitlVirtualTimeUs' = sitlVirtualTimeUs + q /\ q \in Nat
        BY <1>1
      <4> HIDE DEF q
      <4>3. QED
        BY <1>2, <4>1, <4>2
    <3>3. q \in Nat \ {0}
      BY <1>1
    <3> HIDE DEF q, e
    <3>4. (e + q) % q = 0
      BY <3>1, <3>3, RemainderStep
    <3>5. QED
      BY <3>2, <3>4
  <2>3. gLocalMotorPacket' = 0 => \A k \in g0 + 1 .. gyroRuns' : k % gyro'.denom # gyro'.denom \div 2
    <3> SUFFICES ASSUME gLocalMotorPacket' = 0, NEW k \in g0 + 1 .. gyroRuns'
                 PROVE  k % gyro.denom # gyro.denom \div 2
      BY <1>1
    <3>1. gLocalMotorPacket = 0
      BY <1>2, <1>5
    <3>2. k \in g0 + 1 .. gyroRuns => k % gyro.denom # gyro.denom \div 2
      BY <2>1, <3>1 DEF RunsSince
    <3>3. k \in g0 + 1 .. gyroRuns \/ (gyroRuns' = gyroRuns + 1 /\ k = gyroRuns')
      BY <1>2, <1>5, <2>1
    <3>4. gyroRuns' = gyroRuns + 1 => gyroRuns' % gyro.denom # gyro.denom \div 2
      <4>1. gyroRuns + 1 # gyroRuns /\ pidRuns + 1 # 0
        BY <1>2
      <4>2. QED
        BY <1>5, <4>1
    <3>5. QED
      BY <3>2, <3>3, <3>4
  <2>4. anchor' + g0 * gyro'.sample <= t0
    BY <1>1, <1>4, <2>1 DEF RunsSince
  <2>5. /\ g0 <= gyroRuns' /\ t0 <= sitlVirtualTimeUs'
         /\ t0 + st'.stepUs <= sitlVirtualTimeUs' + st'.remainingUs
    <3>1. g0 <= gyroRuns /\ t0 <= sitlVirtualTimeUs
          /\ t0 + st.stepUs <= sitlVirtualTimeUs + st.remainingUs
      BY <2>1 DEF RunsSince
    <3>2. gyroRuns' \in {gyroRuns, gyroRuns + 1}
      BY <1>5
    <3>3. q \in Nat
      BY <1>1
    <3>4. sitlVirtualTimeUs' = sitlVirtualTimeUs + q
      BY <1>1
    <3> HIDE DEF q
    <3>5. QED
      BY <1>2, <1>4, <3>1, <3>2, <3>3, <3>4
  <2>6. RunsSince(g0, t0)'
    BY <2>2, <2>3, <2>4, <2>5 DEF RunsSince
  <2>7. QED
    BY <2>6
<1>7. /\ st'.pids <= pidRuns'
      /\ gLocalMotorPacket' # 0 => gLocalMotorPacket' = pidRuns' /\ pidRuns' > st'.pids
  <2>1. gLocalMotorPacket # 0 => gLocalMotorPacket = pidRuns /\ pidRuns > st.pids
    BY DEF MotorInv
  <2>2. QED
    BY <1>2, <1>4, <1>5, <2>1
<1>8. gyro'.sample >= MaxQuantum => \E g0, t0 \in Nat : RunsSince(g0, t0)'
  <2>1. gyro'.sample = gyro.sample
    BY <1>1
  <2>2. QED
    BY <1>6, <2>1
<1>9. host' \in {"run", "spin"}
  BY <1>4
<1>10. QED
  BY <1>7, <1>8, <1>9 DEF MotorInv

\* The loop ends: with a loop period behind it there was a sample with a PID
\* run, whatever the carried remainder and wherever the step began.
LEMMA MotorDone ==
    ASSUME StepInv, PaceInv, MotorInv, RunDone
    PROVE  MotorInv'
<1> DEFINE q == localStepQuantumUs(st.gridUs)
           s == gyro.sample
           d == gyro.denom
<1>1. /\ gyroRuns \in Nat /\ sitlVirtualTimeUs \in Nat /\ anchor \in Nat
      /\ st.stepUs \in Nat /\ st.remainingUs \in Nat /\ st.gridUs \in Nat /\ gyro \in Rates
  BY DEF StepInv, TypeOK
<1>2. s \in Nat \ {0} /\ d \in Nat \ {0}
  BY <1>1, GridPositive
<1>3. q \in 1 .. 100 /\ st.gridUs % q = 0
  BY <1>1, QuantumIs
<1>4. st.remainingUs < q
  BY DEF RunDone
<1>5. ASSUME gyro.sample >= MaxQuantum, SureOfPid, gLocalMotorPacket = 0 PROVE FALSE
  <2>0. PICK g0 \in Nat, t0 \in Nat : RunsSince(g0, t0)
    BY <1>5 DEF MotorInv, RunDone
  <2> DEFINE G == s * d
             e == sitlVirtualTimeUs - t0
  <2>1. /\ g0 <= gyroRuns /\ t0 <= sitlVirtualTimeUs
        /\ t0 + st.stepUs <= sitlVirtualTimeUs + st.remainingUs
        /\ e % q = 0
        /\ \A k \in g0 + 1 .. gyroRuns : k % d # d \div 2
    BY <1>5, <2>0 DEF RunsSince
  <2>2. G \in Nat /\ G = sitlLocalGyroGridUs
        /\ st.stepUs >= IF G = st.gridUs THEN G ELSE G + 100
    BY <1>2, <1>5, ProductPositive DEF SureOfPid, sitlLocalGyroGridUs, GridOf
  <2>3. e \in Nat /\ e + q > st.stepUs
    <3> HIDE DEF q, s, d, G
    <3>1. QED
      BY <1>1, <1>3, <1>4, <2>1
  <2>4. G = st.gridUs /\ e < G => e + q <= G
    <3>0. e % q = 0
      BY <2>1
    <3> HIDE DEF q, s, d, G, e
    <3>1. QED
      BY <1>3, <2>2, <2>3, <3>0, MultiplesApart
  <2>5. e >= G
    <3> HIDE DEF q, s, d, G, e
    <3>1. QED
      BY <1>1, <1>3, <2>2, <2>3, <2>4
  <2>6. gyroRuns >= g0 + d
    <3> DEFINE a == g0 * s
               b == (gyroRuns + 1) * s
               c == gyroRuns * s
    <3>1. anchor + a <= t0 /\ sitlVirtualTimeUs < anchor + c + s
      BY <1>5, <2>0 DEF RunsSince, PaceInv, Served
    <3>2. a \in Nat /\ b = c + s /\ c \in Nat
      BY <1>1, <1>2, NextProduct
    <3>3. a + G < b
      <4> HIDE DEF a, b, c, G, s, d, q
      <4>1. QED
        BY <1>1, <1>2, <2>2, <2>5, <3>1, <3>2
    <3>4. (g0 + d) * s = a + G
      BY <1>2, SMT
    <3>5. g0 + d < gyroRuns + 1
      <4>1. (g0 + d) * s < (gyroRuns + 1) * s
        BY <3>3, <3>4
      <4>2. g0 + d \in Nat /\ gyroRuns + 1 \in Nat
        BY <1>1, <1>2
      <4> HIDE DEF s, d
      <4>3. QED
        BY <1>2, <4>1, <4>2, ProductLess
    <3> HIDE DEF d
    <3>6. QED
      BY <1>1, <1>2, <3>5
  <2> HIDE DEF d
  <2>7. d \div 2 \in 0 .. d - 1
    BY <1>2
  <2>8. PICK k \in g0 + 1 .. g0 + d : k % d = d \div 2
    BY <1>2, <2>7, EveryRemainder
  <2>9. k \in g0 + 1 .. gyroRuns
    BY <1>1, <1>2, <2>6
  <2>10. QED
    BY <2>1, <2>8, <2>9
<1>6. /\ host = "run" /\ host' = "latch"
      /\ UNCHANGED <<gyro, pidRuns, gLocalMotorPacket, st>>
  BY DEF RunDone, gyroVars
<1>7. SureOfPid' <=> SureOfPid
  BY <1>6 DEF SureOfPid, sitlLocalGyroGridUs
<1>8. QED
  BY <1>5, <1>6, <1>7 DEF MotorInv

\* Every step keeps the motor packet fresh.
LEMMA MotorNext == StepInv /\ PaceInv /\ MotorInv /\ [Next]_vars => MotorInv'
<1> SUFFICES ASSUME StepInv, PaceInv, MotorInv, [Next]_vars PROVE MotorInv'
  OBVIOUS
<1> USE DEF clockVars, gyroVars, rcVars, armVars, latches, bounds
<1>1. ASSUME NEW dt \in Dts, Enter(dt) PROVE MotorInv'
  <2>1. /\ host = "out" /\ host' = "work" /\ st'.pids = pidRuns
        /\ pidRuns' = pidRuns /\ gLocalMotorPacket' = gLocalMotorPacket /\ pidRuns \in Nat
    BY <1>1 DEF Enter, StepInv, TypeOK
  <2>2. QED
    BY <2>1 DEF MotorInv
<1>2. ASSUME NEW g \in Rates, DeferredWork(g) PROVE MotorInv'
  <2>1. /\ host = "work" /\ host' = "run" /\ gyro'.sample = gyro.sample
        /\ UNCHANGED <<sitlVirtualTimeUs, anchor, gyroRuns, pidRuns, gLocalMotorPacket>>
    BY <1>2 DEF DeferredWork
  <2>2. /\ st'.stepUs = st.stepUs /\ st'.pids = st.pids
        /\ st'.remainingUs = st.stepUs + gStepRemainderUs
    BY <1>2 DEF DeferredWork, Begin, StepInv, TypeOK
  <2>3. /\ gyroRuns \in Nat /\ sitlVirtualTimeUs \in Nat /\ gStepRemainderUs \in Nat
        /\ st.stepUs \in Nat /\ pidRuns \in Nat /\ anchor \in Nat /\ lastGyroUs \in Nat
    BY DEF StepInv, TypeOK
  <2>4. gyro'.sample >= MaxQuantum => RunsSince(gyroRuns, sitlVirtualTimeUs)'
    <3> SUFFICES ASSUME gyro.sample >= MaxQuantum PROVE RunsSince(gyroRuns, sitlVirtualTimeUs)'
      BY <2>1
    <3>1. anchor' + gyroRuns' * gyro'.sample <= sitlVirtualTimeUs'
      <4>1. Served <= lastGyroUs /\ lastGyroUs <= sitlVirtualTimeUs /\ Served \in Nat
        BY ServedType DEF PaceInv
      <4>2. anchor' + gyroRuns' * gyro'.sample = Served
        BY <2>1 DEF Served
      <4>3. QED
        BY <2>1, <2>3, <4>1, <4>2
    <3>2. sitlVirtualTimeUs' + st'.stepUs <= sitlVirtualTimeUs' + st'.remainingUs
      BY <2>1, <2>2, <2>3
    <3>3. (sitlVirtualTimeUs' - sitlVirtualTimeUs') % localStepQuantumUs(st'.gridUs) = 0
      <4>1. st'.gridUs \in Nat
        BY <1>2 DEF DeferredWork, Begin, StepInv, TypeOK
      <4> DEFINE q == localStepQuantumUs(st'.gridUs)
      <4>2. q \in 1 .. 100
        BY <4>1, QuantumIs
      <4> HIDE DEF q
      <4>3. (sitlVirtualTimeUs' - sitlVirtualTimeUs') % q = 0
        BY <2>1, <2>3, <4>2
      <4>4. QED
        BY <4>3 DEF q
    <3>4. \A k \in gyroRuns' + 1 .. gyroRuns' : FALSE
      BY <2>1, <2>3
    <3>5. gyroRuns' <= gyroRuns' /\ sitlVirtualTimeUs' <= sitlVirtualTimeUs'
      BY <2>1, <2>3
    <3>6. QED
      BY <3>1, <3>2, <3>3, <3>4, <3>5 DEF RunsSince
  <2>5. gyro'.sample >= MaxQuantum => \E g0, t0 \in Nat : RunsSince(g0, t0)'
    BY <2>1, <2>3, <2>4
  <2>6. QED
    BY <2>1, <2>2, <2>3, <2>5 DEF MotorInv
<1>3. CASE RunQuantum
  BY <1>3, MotorPass
<1>4. CASE RunDone
  BY <1>4, MotorDone
<1>5. CASE localUpdateCrashFlipLatch
  BY <1>5 DEF localUpdateCrashFlipLatch, MotorInv, SureOfPid, sitlLocalGyroGridUs
<1>6. CASE HandOver
  BY <1>6 DEF HandOver, sitlLocalTakeMotorPacket, MotorInv
<1>7. CASE Disarm
  BY <1>7 DEF Disarm, MotorInv, RunsSince, SureOfPid, sitlLocalGyroGridUs
<1>8. ASSUME NEW g \in Rates, Reinit(g) PROVE MotorInv'
  BY <1>8 DEF Reinit, MotorInv
<1>9. CASE UNCHANGED vars
  BY <1>9 DEF vars, MotorInv, RunsSince, SureOfPid, sitlLocalGyroGridUs
<1>10. QED
  BY <1>1, <1>2, <1>3, <1>4, <1>5, <1>6, <1>7, <1>8, <1>9 DEF Next, Finished

\* No motor packet is handed over twice or late, and a step of a loop period
\* or more always hands over one, on the grid or off it, even when the loop
\* period changed in the deferred work of that step.
THEOREM PacketsAreFresh == Spec => []MotorsAreFresh
<1>1. Init => MotorInv
  BY DEF Init, MotorInv
<1>2. MotorInv => MotorsAreFresh
  BY DEF MotorInv, MotorsAreFresh
<1>3. QED
  BY StepInvariance, PaceInvariance, <1>1, MotorNext, <1>2, PTL DEF Spec
=============================================================================
