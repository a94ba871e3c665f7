---------------------------- MODULE SimTelemetry ----------------------------
(***************************************************************************)
(* What the host tells the flight controller about battery and motors      *)
(* (src/src/udplink_windows.c) and the bridges over which the firmware     *)
(* reads it (src/src/wincompat.c): the battery meters, the motor speeds    *)
(* with the lowpass of the RPM filter, the ESC telemetry, and what a       *)
(* restart or an in-process reboot clears of it.                           *)
(*                                                                         *)
(* Everything runs on the host's stepping thread: an action is the feeding *)
(* of one step, or one scheduler task of a step, in any order.  Frequencies *)
(* and voltages are small integers; what a PT1 filter does to them is to   *)
(* move a part of the way, never past the input.                           *)
(*                                                                         *)
(* External: battery.c's stock update and presence detection, the OSD's    *)
(* frame state and statistics, arming.                                     *)
(***************************************************************************)
EXTENDS Integers, FiniteSets

CONSTANTS
    Motors,         \* SITL_SIM_MOTOR_COUNT motors
    Packets,        \* what the host sends with a step
    Looptimes,      \* gyro.targetLooptime values a configuration asks for
    LpfHz,          \* rpm_filter_lpf_hz values
    DefaultVolts, RestTemp,     \* initial values: 4S, an ESC at rest
    MinPack,        \* voltages from here on are a battery, not USB
    StableReads,    \* equal readings before the stock code calls it stable
    FilterScale,    \* the lag of a filter of 1 Hz in a loop of 1 time unit
    MaxTemp,        \* 255: what fits the byte of the DSHOT telemetry
    MaxInputs, MaxBoots, MaxCharge     \* bounds

ASSUME TelemetryAssumption ==
    /\ Motors # {} /\ IsFiniteSet(Motors)
    /\ Looptimes \subseteq Nat \ {0} /\ Looptimes # {}
    /\ LpfHz \subseteq Nat \ {0} /\ LpfHz # {}
    /\ DefaultVolts \in Nat \ {0} /\ MinPack \in Nat \ {0}
    /\ StableReads \in Nat /\ FilterScale \in Nat /\ MaxCharge \in Nat
    /\ MaxTemp \in Nat /\ RestTemp \in 1 .. MaxTemp
    /\ \A p \in Packets : /\ p.voltage \in Int /\ p.current \in Int
                          /\ p.rpm \in [Motors -> Int] /\ p.temperature \in [Motors -> Int]

VARIABLES
    sitlBatteryVoltage, sitlBatteryCurrent, sitlMotorRpm, sitlMahDrawn,
    sitlMotorTemperature,
    maxTemp,                        \* dshotTelemetryState, the peak per motor
    gSimMotorFreqLpf,               \* the smoothed frequency and the gain of its filter
    gSimMotorFreqLpfLooptimeUs,     \* the looptime the filters were made for
    gSimMotorFreqLpfReady,
    targetLooptime, lpfHz,          \* gyro.targetLooptime and rpmFilterConfig()
    meter, amperage,                \* what the voltage and current meters show
    steady,                         \* equal readings of the voltage in a row
    batteryCellCount,
    osdState, maxCurrent,           \* osdState, the statistics' max_current
    control,                        \* PID and attitude leftovers are in RAM
    running, armed,
    boots, inputs,                  \* bound counters
    charge, peak, drawn,            \* history: charge drawn, highest current metered and
                                    \* OSD frame drawn since the last power-up
    looped                          \* history: the control loop ran since the last boot

host == <<sitlBatteryVoltage, sitlBatteryCurrent, sitlMotorRpm, sitlMotorTemperature, maxTemp>>
lpf  == <<gSimMotorFreqLpf, gSimMotorFreqLpfLooptimeUs, gSimMotorFreqLpfReady>>
cfg  == <<targetLooptime, lpfHz>>
pack == <<meter, steady, batteryCellCount>>
session == <<sitlMahDrawn, amperage, osdState, maxCurrent, charge, peak, drawn>>
controlLoop == <<control, looped>>
telemetryVars == <<host, lpf, cfg, pack, session, controlLoop, running, armed, boots, inputs>>

Greater(a, b) == IF a > b THEN a ELSE b

TelemetryInit ==
    /\ sitlBatteryVoltage = DefaultVolts /\ sitlBatteryCurrent = 0
    /\ sitlMotorRpm = [m \in Motors |-> 0] /\ sitlMahDrawn = 0
    /\ sitlMotorTemperature = [m \in Motors |-> RestTemp]
    /\ maxTemp = [m \in Motors |-> 0]
    /\ gSimMotorFreqLpf = [m \in Motors |-> [out |-> 0, lag |-> 1]]
    /\ gSimMotorFreqLpfLooptimeUs = 0 /\ gSimMotorFreqLpfReady = FALSE
    /\ targetLooptime = 0 /\ lpfHz \in LpfHz
    /\ meter = 0 /\ amperage = 0 /\ steady = 0 /\ batteryCellCount = 0
    /\ osdState = "init" /\ maxCurrent = 0
    /\ control = FALSE /\ running = FALSE /\ armed = FALSE
    /\ boots = 0 /\ inputs = 0
    /\ charge = 0 /\ peak = 0 /\ drawn = FALSE /\ looped = FALSE
-----------------------------------------------------------------------------
(* The host's data and the getters of the bridge.                           *)

\* simTelemetryEscTemperatureCelsius
EscTemperature(t) == IF t > MaxTemp THEN MaxTemp ELSE t

\* simTelemetrySet: values that mean "no data" leave the last ones standing
SimTelemetrySet(p) ==
    /\ sitlBatteryVoltage' = IF p.voltage > 0 THEN p.voltage ELSE sitlBatteryVoltage
    /\ sitlBatteryCurrent' = IF p.current >= 0 THEN p.current ELSE sitlBatteryCurrent
    /\ sitlMotorRpm' = [m \in Motors |-> IF p.rpm[m] >= 0 THEN p.rpm[m] ELSE sitlMotorRpm[m]]
    /\ sitlMotorTemperature' = [m \in Motors |-> IF p.temperature[m] > 0 THEN p.temperature[m]
                                                 ELSE sitlMotorTemperature[m]]

\* sitlLocalApplyDshotTelemetry: the DSHOT state nothing else fills in
ApplyDshotTelemetry ==
    maxTemp' = [m \in Motors |-> Greater(maxTemp[m], EscTemperature(sitlMotorTemperature'[m]))]

\* sitl_local_step hands the packet over
Feed(p) ==
    /\ running /\ inputs < MaxInputs /\ inputs' = inputs + 1
    /\ SimTelemetrySet(p) /\ ApplyDshotTelemetry
    /\ UNCHANGED <<lpf, cfg, pack, session, controlLoop, running, armed, boots>>

Spinning == {m \in Motors : sitlMotorRpm[m] > 0}
\* Mutant: a motor at rest, or not reported, counts as the slowest.
MinMotorFrequencyOfAll ==
    CHOOSE hz \in {sitlMotorRpm[m] : m \in Motors} : \A m \in Motors : hz <= sitlMotorRpm[m]
\* getMinMotorFrequencyHz; with no motor spinning the firmware's own, 0
MinMotorFrequency ==
    IF Spinning = {} THEN 0
    ELSE CHOOSE hz \in {sitlMotorRpm[m] : m \in Spinning} : \A m \in Spinning : hz <= sitlMotorRpm[m]

SumOver[S \in SUBSET Motors] ==
    IF S = {} THEN 0 ELSE LET m == CHOOSE x \in S : TRUE IN sitlMotorRpm[m] + SumOver[S \ {m}]
\* getDshotRpmAverage
DshotRpmAverage == IF Spinning = {} THEN 0 ELSE SumOver[Spinning] \div Cardinality(Spinning)
-----------------------------------------------------------------------------
(* The lowpass in front of the RPM filter.                                  *)

\* pt1FilterGain: the higher the cutoff and the slower the loop, the more of the
\* way per call
Lag(hz, looptime) == Greater(1, FilterScale \div (hz * looptime))
\* pt1FilterApply
Toward(y, x, lag) == IF x > y THEN y + Greater(1, (x - y) \div lag)
                     ELSE IF x < y THEN y - Greater(1, (y - x) \div lag) ELSE y

\* sitlSimMotorFreqLpfInit: made at the first reading and for another looptime
LpfInit ==
    IF gSimMotorFreqLpfReady /\ gSimMotorFreqLpfLooptimeUs = targetLooptime
    THEN gSimMotorFreqLpf
    ELSE [m \in Motors |-> [out |-> 0, lag |-> Lag(lpfHz, targetLooptime)]]

\* getMotorFrequencyHz for every motor: each reading moves the filters on
GetMotorFrequencies ==
    /\ gSimMotorFreqLpf' = [m \in Motors |->
           [LpfInit[m] EXCEPT !.out = Toward(LpfInit[m].out, sitlMotorRpm[m], LpfInit[m].lag)]]
    /\ gSimMotorFreqLpfReady' = TRUE
    /\ gSimMotorFreqLpfLooptimeUs' = targetLooptime

\* The control loop: the RPM filter reads, the PID controller leaves its state
ControlLoop ==
    /\ running
    /\ GetMotorFrequencies
    /\ control' = TRUE /\ looped' = TRUE
    /\ UNCHANGED <<host, cfg, pack, session, running, armed, boots, inputs>>

\* sitlLocalLogRpmInput, sitlLocalGetRpmFilterInfo, the burst recorder: readers
\* that only report
Diagnostics ==
    /\ running
    /\ GetMotorFrequencies
    /\ UNCHANGED <<host, cfg, pack, session, controlLoop, running, armed, boots, inputs>>

\* sitlLocalRunBootProfileInit: a reload takes the looptime from the PID denominator
RederiveLooptime ==
    /\ running /\ inputs < MaxInputs /\ inputs' = inputs + 1
    /\ targetLooptime' \in Looptimes
    /\ UNCHANGED <<host, lpf, lpfHz, pack, session, controlLoop, running, armed, boots>>

\* A new cutoff; the filters keep the gain they were made with
SetLpfHz ==
    /\ running /\ inputs < MaxInputs /\ inputs' = inputs + 1
    /\ lpfHz' \in LpfHz
    /\ UNCHANGED <<host, lpf, targetLooptime, pack, session, controlLoop, running, armed, boots>>
-----------------------------------------------------------------------------
(* The battery.                                                             *)

Present(v) == v >= MinPack
\* batteryUpdatePresence of a meter that shows v, stable for n readings
Presence(v, n) ==
    batteryCellCount' = IF n < StableReads THEN batteryCellCount
                        ELSE IF ~Present(v) THEN 0
                        ELSE IF batteryCellCount = 0 THEN v ELSE batteryCellCount

\* Mutant: no probe of the voltage task, as in the stock firmware.
BatteryUpdateVoltageStock ==
    /\ running
    /\ meter' = sitlBatteryVoltage
    /\ steady' = IF sitlBatteryVoltage # meter THEN 0
                 ELSE IF steady < StableReads THEN steady + 1 ELSE steady
    /\ UNCHANGED <<batteryCellCount, host, lpf, cfg, session, controlLoop, running, armed,
                   boots, inputs>>

\* batteryUpdateVoltage: the stock update reads sitlBatteryVoltageRead, then the
\* probe, armed or not, until there is a cell count
BatteryUpdateVoltage ==
    /\ running
    /\ meter' = sitlBatteryVoltage
    /\ steady' = IF sitlBatteryVoltage # meter THEN 0
                 ELSE IF steady < StableReads THEN steady + 1 ELSE steady
    /\ IF batteryCellCount = 0 THEN Presence(meter', steady') ELSE UNCHANGED batteryCellCount
    /\ UNCHANGED <<host, lpf, cfg, session, controlLoop, running, armed, boots, inputs>>

\* taskBatteryAlerts probes while disarmed
BatteryAlerts ==
    /\ running /\ ~armed
    /\ Presence(meter, steady)
    /\ UNCHANGED <<host, lpf, cfg, meter, steady, session, controlLoop, running, armed, boots, inputs>>

\* sitlBatteryCurrentRefresh integrates, sitlBatteryCurrentRead reports
BatteryUpdateCurrent ==
    /\ running /\ sitlMahDrawn + sitlBatteryCurrent <= MaxCharge
    /\ sitlMahDrawn' = sitlMahDrawn + sitlBatteryCurrent
    /\ amperage' = sitlBatteryCurrent
    /\ charge' = charge + sitlBatteryCurrent
    /\ peak' = Greater(peak, sitlBatteryCurrent)
    /\ UNCHANGED <<host, lpf, cfg, pack, osdState, maxCurrent, drawn, controlLoop, running, armed,
                   boots, inputs>>
-----------------------------------------------------------------------------
(* Arming, the OSD, and power-up.                                           *)

\* Arming clears the statistics of the OSD
Arm ==
    /\ running /\ ~armed /\ inputs < MaxInputs /\ inputs' = inputs + 1
    /\ armed' = TRUE /\ maxCurrent' = 0
    /\ UNCHANGED <<host, lpf, cfg, pack, sitlMahDrawn, amperage, osdState, charge, peak, drawn, controlLoop,
                   running, boots>>

Disarm ==
    /\ armed /\ armed' = FALSE
    /\ UNCHANGED <<host, lpf, cfg, pack, session, controlLoop, running, boots, inputs>>

\* The splash is drawn from OSD_STATE_INIT; armed, the statistics follow the meter
OsdTask ==
    /\ running
    /\ osdState' = "process" /\ drawn' = TRUE
    /\ maxCurrent' = IF armed THEN Greater(maxCurrent, amperage) ELSE maxCurrent
    /\ UNCHANGED <<host, lpf, cfg, pack, sitlMahDrawn, amperage, charge, peak, controlLoop, running, armed,
                   boots, inputs>>

\* Mutant: the charge is left out of the reset.
ResetOsdRuntimeStateKeepsCharge ==
    /\ osdState' = "init" /\ maxCurrent' = 0
    /\ UNCHANGED sitlMahDrawn
\* sitlLocalResetOsdRuntimeState
ResetOsdRuntimeState ==
    /\ osdState' = "init" /\ maxCurrent' = 0
    /\ sitlMahDrawn' = 0

PowerUp == charge' = 0 /\ peak' = amperage' /\ drawn' = FALSE

\* localRunPendingReboot: the loop, and the cell count, stay as they are
Reboot ==
    /\ running /\ ~armed /\ inputs < MaxInputs /\ inputs' = inputs + 1
    /\ ResetOsdRuntimeState
    /\ UNCHANGED amperage
    /\ PowerUp
    /\ UNCHANGED <<host, lpf, cfg, pack, controlLoop, running, armed, boots>>

Shutdown ==
    /\ running /\ running' = FALSE
    /\ UNCHANGED <<host, lpf, cfg, pack, session, controlLoop, armed, boots, inputs>>

\* sitlLocalResetVolatileControlState, before every init() but the first
ResetVolatileControlState == control' = FALSE /\ ResetOsdRuntimeState

\* sitl_local_init; batteryInit forgets the pack.  The data of the last host, the
\* peak temperatures and the filters of the speeds survive
Boot ==
    /\ ~running /\ boots < MaxBoots
    /\ boots' = boots + 1
    /\ IF boots > 0 THEN ResetVolatileControlState
       ELSE UNCHANGED <<control, osdState, maxCurrent, sitlMahDrawn>>
    /\ meter' = 0 /\ amperage' = 0 /\ steady' = 0 /\ batteryCellCount' = 0
    /\ PowerUp /\ looped' = FALSE
    /\ targetLooptime' \in Looptimes
    /\ running' = TRUE /\ armed' = FALSE
    /\ UNCHANGED <<host, lpf, lpfHz, inputs>>
-----------------------------------------------------------------------------
TelemetryNext ==
    \/ \E p \in Packets : Feed(p)
    \/ ControlLoop \/ Diagnostics \/ RederiveLooptime \/ SetLpfHz
    \/ BatteryUpdateVoltage \/ BatteryAlerts \/ BatteryUpdateCurrent
    \/ Arm \/ Disarm \/ OsdTask
    \/ Reboot \/ Shutdown \/ Boot

TelemetrySpec == TelemetryInit /\ [][TelemetryNext]_telemetryVars
(* The scheduler of a stepped controller runs its tasks; no one has to disarm.  *)
FairTelemetrySpec ==
    TelemetrySpec /\ WF_telemetryVars(ControlLoop) /\ WF_telemetryVars(BatteryUpdateVoltage)
-----------------------------------------------------------------------------
TelemetryTypeOK ==
    /\ sitlBatteryVoltage \in Nat \ {0} /\ sitlBatteryCurrent \in Nat
    /\ sitlMotorRpm \in [Motors -> Nat] /\ sitlMotorTemperature \in [Motors -> Nat \ {0}]
    /\ sitlMahDrawn \in 0 .. MaxCharge /\ maxTemp \in [Motors -> 0 .. MaxTemp]
    /\ gSimMotorFreqLpf \in [Motors -> [out : Nat, lag : Nat \ {0}]]
    /\ gSimMotorFreqLpfReady \in BOOLEAN /\ {running, armed, control, drawn, looped} \subseteq BOOLEAN
    /\ osdState \in {"init", "process"}

(* What the pilot reads is of this power-up, after a restart as after an    *)
(* in-process reboot: the charge is what was metered since, the highest     *)
(* current is one the meter showed since, and the splash is still to be     *)
(* drawn until the first frame; a restarted control loop finds nothing of   *)
(* the last flight in its state.  The summaries of the motor speeds leave   *)
(* out the motors that the host does not report as spinning.                *)
ReportsAreOfThisPowerUp ==
    /\ TelemetryTypeOK
    /\ sitlMahDrawn = charge
    /\ maxCurrent <= peak
    /\ running => (osdState = "init" <=> ~drawn) /\ (control => looped)
    /\ Spinning # {} => MinMotorFrequency > 0 /\ MinMotorFrequency <= DshotRpmAverage

(* What the host keeps sending arrives.  A pack gets its cell count though  *)
(* the pilot arms at once and never disarms again, and the smoothed speed   *)
(* comes to be the speed that is sent, whoever else reads it.               *)
SteadyDataArrives ==
    /\ (running /\ Present(sitlBatteryVoltage)) ~>
           (batteryCellCount # 0 \/ ~running \/ ~Present(sitlBatteryVoltage))
    /\ <>[]running => <>[](\A m \in Motors : gSimMotorFreqLpf[m].out = sitlMotorRpm[m])

(* The comment of the burst recorder (sitl_local.c:413): "Only reads and a  *)
(* memcpy happen here".  A report would leave the control loop's estimate   *)
(* of the speeds alone.                                                     *)
ReadersOnlyRead == [][Diagnostics => UNCHANGED lpf]_telemetryVars
=============================================================================
