----------------------------- MODULE LocalStep ------------------------------
(***************************************************************************)
(* One sitl_local_step of the host after the other, in LOCAL mode: the     *)
(* length of the step is snapped to the loop's grid and run in quanta of   *)
(* virtual time, one scheduler pass each, and the step ends by latching    *)
(* crash flip and taking the motor packet of its last PID run.             *)
(*                                                                         *)
(* The host thread owns this state; the MSP thread and the host API may    *)
(* disarm at any moment.  Deferred work at the start of a step (a reboot,  *)
(* another aircraft) can change the PID denominator, and a second boot the *)
(* gyro rate: the clock, the remainder and the latches are statics that    *)
(* outlive both.                                                           *)
(*                                                                         *)
(* External: the firmware's scheduler, its arming and its PID loop.  A     *)
(* pass on a gyro deadline or after it runs the gyro and, on every         *)
(* denom-th sample, the PID loop, which sends a motor packet; the next     *)
(* deadline is one period after this deadline, not after the pass.  Only a *)
(* pass with more than GuardUs to a deadline runs other tasks, RX too.     *)
(***************************************************************************)
EXTENDS Integers

CONSTANTS Rates,      \* gyro configurations: [sample : us, denom : PID denominator]
          Dts,        \* step lengths of the host, in microseconds
          SnapEnabled,\* BF_SITL_DT_SNAP
          RcPeriod,   \* microseconds between RC frames, 8000 in the code
          GuardUs,    \* time to a deadline that other tasks need
          SpinUs,     \* the scheduler busy-waits when a deadline is nearer
          MaxSteps,   \* bound: calls of sitl_local_step
          MaxBoots,   \* bound: boots in this process after the first
          MaxDisarms  \* bound: disarms by a reboot or the host

ASSUME StepConstants ==
    /\ Rates \subseteq [sample : Nat \ {0}, denom : Nat \ {0}]
    /\ Dts \subseteq Nat
    /\ SnapEnabled \in BOOLEAN
    /\ RcPeriod \in Nat \ {0} /\ GuardUs \in Nat
    /\ SpinUs \in 0 .. 25      \* 12 at most in the firmware
    /\ MaxSteps \in Nat /\ MaxBoots \in Nat /\ MaxDisarms \in Nat

VARIABLES
    sitlVirtualTimeUs,
    gStepRemainderUs,
    \* scheduler and gyro
    gyro,            \* the configuration that runs
    anchor,          \* the clock when the deadlines were last set up
    gyroRuns,        \* gyro deadlines served since then
    lastGyroUs,      \* when the last one was served
    pidRuns,         \* PID runs so far
    \* RC
    gLocalRcValid,
    gLocalRcAnnounceUs,
    gLocalRc,        \* ARM switch and crash flip box of the host's latest step
    sticks,          \* those of the last frame
    \* arming
    armed,
    crashFlipModeActive,     \* history: the firmware's latch, had it run
    gLocalCrashFlipLatched,
    gLocalWasArmed,
    \* motor packet: the PID run it is from, or 0 for an empty slot
    gLocalMotorPacket,
    \* the step: where it is and its locals
    host, st,
    steps, boots, disarms,   \* bounds used up
    given            \* history: microseconds of all the steps, after the snap

gyroVars == <<gyro, anchor, gyroRuns, lastGyroUs, pidRuns>>
rcVars   == <<gLocalRcValid, gLocalRcAnnounceUs, gLocalRc, sticks>>
armVars  == <<armed, crashFlipModeActive>>
latches  == <<gLocalCrashFlipLatched, gLocalWasArmed>>
clockVars == <<sitlVirtualTimeUs, gStepRemainderUs, given>>
bounds   == <<steps, boots, disarms>>
vars     == <<clockVars, gyroVars, rcVars, armVars, latches, gLocalMotorPacket,
              host, st, bounds>>

Switches == [arm : BOOLEAN, box : BOOLEAN]
AllOff   == [arm |-> FALSE, box |-> FALSE]

\* The quantum is 100 us, halved until it divides the grid (localStepQuantumUs)
Halvings == {100, 50, 25, 12, 6, 3, 1}
MaxQuantum == 100

TypeOK ==
    /\ sitlVirtualTimeUs \in Nat /\ gStepRemainderUs \in 0 .. MaxQuantum - 1
    /\ given \in Nat
    /\ gyro \in Rates /\ anchor \in Nat /\ gyroRuns \in Nat /\ lastGyroUs \in Nat
    /\ pidRuns \in Nat
    /\ gLocalRcValid \in BOOLEAN /\ gLocalRcAnnounceUs \in Nat
    /\ gLocalRc \in Switches /\ sticks \in Switches
    /\ armed \in BOOLEAN /\ crashFlipModeActive \in BOOLEAN
    /\ gLocalCrashFlipLatched \in BOOLEAN /\ gLocalWasArmed \in BOOLEAN
    /\ gLocalMotorPacket \in Nat
    /\ host \in {"out", "work", "run", "spin", "latch", "take"}
    /\ st \in [stepUs : Nat, gridUs : Nat \ {0}, remainingUs : Nat, pids : Nat]
    /\ steps \in 0 .. MaxSteps /\ boots \in 0 .. MaxBoots /\ disarms \in 0 .. MaxDisarms

\* gyro.targetLooptime
GridOf(g)           == g.sample * g.denom
sitlLocalGyroGridUs == GridOf(gyro)

Init ==
    /\ sitlVirtualTimeUs = 0 /\ gStepRemainderUs = 0 /\ given = 0
    /\ gyro \in Rates /\ anchor = 0 /\ gyroRuns = 0 /\ lastGyroUs = 0 /\ pidRuns = 0
    /\ gLocalRcValid = FALSE /\ gLocalRcAnnounceUs = 0
    /\ gLocalRc = AllOff /\ sticks = AllOff
    /\ armed = FALSE /\ crashFlipModeActive = FALSE
    /\ gLocalCrashFlipLatched = FALSE /\ gLocalWasArmed = FALSE
    /\ gLocalMotorPacket = 0
    /\ host = "out"
    /\ st = [stepUs |-> 0, gridUs |-> 1, remainingUs |-> 0, pids |-> 0]
    /\ steps = 0 /\ boots = 0 /\ disarms = 0

-----------------------------------------------------------------------------
(* The length of a step and of its quanta *)

\* A step within 30 % of a multiple of the grid becomes that multiple
Snap(dt, grid) ==
    LET nearest == ((dt + (grid \div 2)) \div grid) * grid
        diff    == IF nearest > dt THEN nearest - dt ELSE dt - nearest
    IN  IF SnapEnabled /\ nearest > 0 /\ diff * 10 <= grid * 3 THEN nearest ELSE dt

\* Mutant: a quantum of 100 us whatever the rate
localStepQuantumUsFixed(gridUs) == 100

\* Mutant: the whole loop period as the quantum
localStepQuantumUsWhole(gridUs) == gridUs

localStepQuantumUs(gridUs) ==
    CHOOSE q \in Halvings : /\ gridUs % q = 0
                            /\ \A p \in Halvings : gridUs % p = 0 => p <= q

Enter(dt) ==
    /\ host = "out" /\ steps < MaxSteps
    /\ host' = "work" /\ steps' = steps + 1
    /\ LET stepUs == Snap(dt, sitlLocalGyroGridUs)
       IN  /\ st' = [stepUs |-> stepUs, gridUs |-> sitlLocalGyroGridUs,
                     remainingUs |-> 0, pids |-> pidRuns]
           /\ given' = given + stepUs
    /\ UNCHANGED <<sitlVirtualTimeUs, gStepRemainderUs, boots, disarms, gLocalMotorPacket>>
    /\ UNCHANGED <<gyroVars, rcVars, armVars, latches>>

\* Mutant of Begin: the remainder of the last step is dropped
BeginAfresh ==
    LET q == localStepQuantumUs(st.gridUs)
    IN  /\ st' = [st EXCEPT !.remainingUs = st.stepUs]
        /\ gStepRemainderUs' = st.stepUs % q

\* What this step runs and what it leaves for the next one.  gridUs was read
\* before the deferred work
Begin ==
    LET q         == localStepQuantumUs(st.gridUs)
        remaining == st.stepUs + gStepRemainderUs
    IN  /\ st' = [st EXCEPT !.remainingUs = remaining]
        /\ gStepRemainderUs' = remaining % q

\* The deferred work (a reboot, a reload or another aircraft may bring another
\* denominator; the last two do not wait for the disarm), the sensors, and the
\* RC cache, which is valid from here on and keeps the host's switches for all
\* the frames of this step
DeferredWork(g) ==
    /\ host = "work" /\ host' = "run"
    /\ g.sample = gyro.sample
    /\ gyro' = g
    /\ gLocalRcValid' = TRUE /\ gLocalRc' \in Switches
    /\ Begin
    /\ UNCHANGED <<sitlVirtualTimeUs, given, anchor, gyroRuns, lastGyroUs, pidRuns>>
    /\ UNCHANGED <<gLocalRcAnnounceUs, sticks, armVars, latches, gLocalMotorPacket, bounds>>

-----------------------------------------------------------------------------
(* One quantum: sitlStepTime and a pass of the scheduler *)

TimeLeft(t) == anchor + (gyroRuns + 1) * gyro.sample - t

\* The PID loop runs on one sample in denom and sends its motor packet
\* (udpSend -> sitlLocalCaptureMotorPacket)
PidRun ==
    /\ pidRuns' = pidRuns + 1
    /\ gLocalMotorPacket' = pidRuns + 1

GyroPass(t) ==
    /\ TimeLeft(t) <= 0
    /\ gyroRuns' = gyroRuns + 1
    /\ lastGyroUs' = t
    /\ IF gyroRuns' % gyro.denom = gyro.denom \div 2
       THEN PidRun ELSE UNCHANGED <<pidRuns, gLocalMotorPacket>>
    /\ host' = "run"
    /\ UNCHANGED <<rcVars, armVars>>

\* tryArm with every frame while the switch is on (the arming checks may
\* refuse), with the latch that a DShot protocol would have taken; off disarms
Arming ==
    /\ armed' \in IF armed \/ ~sticks'.arm THEN {sticks'.arm} ELSE BOOLEAN
    /\ crashFlipModeActive' =
         (armed' /\ sticks'.box /\ (armed => crashFlipModeActive))

\* localRcFrameStatus: a frame is complete every RcPeriod, with the switches of
\* the cache, and the RX task acts on it
localRcFrameStatus(t) ==
    IF gLocalRcValid /\ t - gLocalRcAnnounceUs >= RcPeriod
    THEN /\ gLocalRcAnnounceUs' = t
         /\ sticks' = gLocalRc
         /\ Arming
    ELSE UNCHANGED <<gLocalRcAnnounceUs, sticks, armVars>>

TaskPass(t) ==
    /\ TimeLeft(t) > GuardUs
    /\ localRcFrameStatus(t)
    /\ host' = "run"
    /\ UNCHANGED <<gyroRuns, lastGyroUs, pidRuns, gLocalMotorPacket, gLocalRcValid, gLocalRc>>

\* Too near the deadline for another task; nearer than SpinUs the scheduler
\* polls a clock that stands still
NearPass(t) ==
    /\ 0 < TimeLeft(t) /\ TimeLeft(t) <= GuardUs
    /\ host' = IF TimeLeft(t) < SpinUs THEN "spin" ELSE "run"
    /\ UNCHANGED <<gyroRuns, lastGyroUs, pidRuns, gLocalMotorPacket, rcVars, armVars>>

RunQuantum ==
    LET q == localStepQuantumUs(st.gridUs)
        t == sitlVirtualTimeUs + q
    IN  /\ host = "run" /\ st.remainingUs >= q
        /\ sitlVirtualTimeUs' = t
        /\ st' = [st EXCEPT !.remainingUs = @ - q]
        /\ GyroPass(t) \/ TaskPass(t) \/ NearPass(t)
        /\ UNCHANGED <<gStepRemainderUs, given, gyro, anchor, latches, bounds>>

RunDone ==
    /\ host = "run" /\ st.remainingUs < localStepQuantumUs(st.gridUs)
    /\ host' = "latch"
    /\ UNCHANGED <<clockVars, gyroVars, rcVars, armVars, latches, gLocalMotorPacket,
                   st, bounds>>

-----------------------------------------------------------------------------
(* The end of a step *)

\* Mutant: the box alone decides, not the arm edge
localUpdateCrashFlipLatchByBox ==
    /\ host = "latch" /\ host' = "take"
    /\ gLocalCrashFlipLatched' = (armed /\ sticks.box)
    /\ gLocalWasArmed' = armed
    /\ UNCHANGED <<clockVars, gyroVars, rcVars, armVars, gLocalMotorPacket, st, bounds>>

localUpdateCrashFlipLatch ==
    /\ host = "latch" /\ host' = "take"
    /\ gLocalCrashFlipLatched' =
         (armed /\ sticks.box /\ (gLocalWasArmed => gLocalCrashFlipLatched))
    /\ gLocalWasArmed' = armed
    /\ UNCHANGED <<clockVars, gyroVars, rcVars, armVars, gLocalMotorPacket, st, bounds>>

\* Mutant: the slot is read and not emptied
sitlLocalTakeMotorPacketKeeping == UNCHANGED gLocalMotorPacket

sitlLocalTakeMotorPacket == gLocalMotorPacket' = 0

\* The host is handed the packet of the last PID run, if there was one since
\* the last take, and the step returns
HandOver ==
    /\ host = "take" /\ host' = "out"
    /\ sitlLocalTakeMotorPacket
    /\ UNCHANGED <<clockVars, gyroVars, rcVars, armVars, latches, st, bounds>>

-----------------------------------------------------------------------------
(* Others *)

\* disarm() by a firmware reboot on the MSP thread, or by sitl_local_disarm
Disarm ==
    /\ armed /\ disarms < MaxDisarms
    /\ armed' = FALSE /\ crashFlipModeActive' = FALSE
    /\ disarms' = disarms + 1
    /\ UNCHANGED <<clockVars, gyroVars, rcVars, latches, gLocalMotorPacket, host, st>>
    /\ UNCHANGED <<steps, boots>>

\* sitl_local_shutdown and another sitl_local_init: the scheduler is set up at
\* the present clock, with another rate if the environment says so
Reinit(g) ==
    /\ host = "out" /\ boots < MaxBoots
    /\ boots' = boots + 1
    /\ gyro' = g
    /\ anchor' = sitlVirtualTimeUs /\ gyroRuns' = 0 /\ lastGyroUs' = sitlVirtualTimeUs
    /\ gLocalRcValid' = FALSE /\ gLocalRcAnnounceUs' = sitlVirtualTimeUs
    /\ gLocalRc' = AllOff
    /\ UNCHANGED <<clockVars, pidRuns, sticks, armVars, latches, gLocalMotorPacket>>
    /\ UNCHANGED <<host, st, steps, disarms>>

\* The bounds are used up: not a deadlock of the code
Finished ==
    /\ host = "out" /\ steps = MaxSteps
    /\ UNCHANGED vars

Next == \/ \E dt \in Dts : Enter(dt)
        \/ \E g \in Rates : DeferredWork(g) \/ Reinit(g)
        \/ RunQuantum \/ RunDone
        \/ localUpdateCrashFlipLatch \/ HandOver
        \/ Disarm \/ Finished

Spec == Init /\ [][Next]_vars

-----------------------------------------------------------------------------
(* Properties *)

\* No microsecond of the host's (snapped) steps is lost or run twice, whatever
\* their lengths and across a change of rate: it is in the clock, in what is
\* left of the running step, or in the carried remainder.
StepTimeIsConserved ==
    sitlVirtualTimeUs
        + (CASE host = "work"              -> st.stepUs + gStepRemainderUs
             [] host \in {"run", "spin"}   -> st.remainingUs
             [] OTHER                      -> gStepRemainderUs) = given

\* Gyro periods on which a quantum ends whatever the PID denominator: multiples
\* of 25 us that no configured denominator makes a multiple of 50 or 100 us
OnGrid(s) ==
    /\ s % 25 = 0
    /\ \A g \in Rates : g.sample = s =>
         \A p \in {50, MaxQuantum} : GridOf(g) % p = 0 => s % p = 0

\* The gyro is served once for every deadline, never before it and less than a
\* quantum after it, and no step returns with a deadline behind it, at every
\* rate that BF_SITL_GYRO_HZ takes (10 kHz at most, main_windows.c:86).  It is
\* served exactly on the deadline, and the scheduler never polls for one that
\* lies between two quanta, when the gyro period is one of OnGrid; the quantum
\* divides the loop period, and that is another period than the gyro's.
GyroKeepsPace ==
    LET due == anchor + gyroRuns * gyro.sample
    IN  gyro.sample >= MaxQuantum =>
          /\ lastGyroUs \in due .. due + MaxQuantum - 1
          /\ sitlVirtualTimeUs < due + gyro.sample
          /\ OnGrid(gyro.sample) => lastGyroUs = due /\ host # "spin"

\* What the code says of every rate: "every realtime deadline falls exactly on
\* a step" (sitl_local.c:1097-1098).  With a 4 kHz gyro and a PID loop at half
\* its rate it does not.
GyroOnDeadline == lastGyroUs = anchor + gyroRuns * gyro.sample

\* A real receiver's cadence (sitl_local.c:2015): below 4.7 kHz a pass is left
\* for RX after every gyro run, on the grid or off it, and a due frame reaches
\* the firmware within two quanta and the guard time.
RcFramesOnTime ==
    /\ gyro.sample >= 2 * MaxQuantum + GuardUs
    /\ host \in {"out", "latch", "take"} /\ gLocalRcValid
    => sitlVirtualTimeUs - gLocalRcAnnounceUs < RcPeriod + GuardUs + 2 * MaxQuantum

\* The length that a step needs to be sure of a PID run: a loop period, and a
\* quantum more in the step whose deferred work changed the loop period
SureOfPid ==
    st.stepUs >= IF sitlLocalGyroGridUs = st.gridUs THEN st.gridUs
                 ELSE sitlLocalGyroGridUs + MaxQuantum

\* No motor output is handed to the host twice or later than in the step of its
\* PID run, and a step of a loop period or more is handed one (at the rates of
\* GyroKeepsPace), wherever it begins and whatever the remainder.
MotorsAreFresh ==
    host = "take" =>
        /\ gLocalMotorPacket # 0 => gLocalMotorPacket = pidRuns /\ pidRuns > st.pids
        /\ gyro.sample >= MaxQuantum /\ SureOfPid => gLocalMotorPacket # 0

\* Crash flip is engaged only if the firmware would have latched it: the box
\* was on when the craft armed and ever since (sitl_local.h:248).
FlipOnlyIfOnAtArming ==
    host = "take" /\ gLocalCrashFlipLatched /\ armed => crashFlipModeActive
=============================================================================
