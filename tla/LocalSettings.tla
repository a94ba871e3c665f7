--------------------------- MODULE LocalSettings ----------------------------
(***************************************************************************)
(* What becomes of a setting in the LOCAL flight controller: from the      *)
(* configurator, the CLI, the host's setters or an EEPROM file into the    *)
(* RAM records (pg), and from there into what the flight loop runs on:     *)
(* the gyro filter chain, the D-term chain, the RC processing, the mixer   *)
(* and the list of mode conditions.                                        *)
(*                                                                         *)
(* The chains hold filter state.  Rebuilding one under a running loop      *)
(* shakes the aircraft, so wincompat.c remembers the settings in snapshots *)
(* and rebuilds a chain when they differ.  The configurator is served on   *)
(* the MSP thread; its handlers write the records first and ask for the    *)
(* rebuild afterwards.  Reloads, path switches and reboots are applied on  *)
(* the host's thread, at the start of a step.  LocalConfig models how they *)
(* interleave with the writes of the EEPROM; here each is one step.        *)
(*                                                                         *)
(* External: the handlers of msp.c around the renamed calls, changePid-    *)
(* Profile (ends in pidInit) and changeControlRateProfile (ends in         *)
(* initRcProcessing), the EEPROM driver.                                   *)
(***************************************************************************)
EXTENDS ModeRanges, Sequences

CONSTANTS Paths,        \* EEPROM files, one per aircraft
          BootPath,     \* BF_SITL_EEPROM when the process starts
          NoFile,       \* a file that does not exist yet
          Aircraft,     \* settings the files may hold when the process starts
          Default,      \* factory settings
          Conditions,   \* bound: what the configurator writes into a slot
          MaxEdits,     \* bound: settings changed
          MaxRequests   \* bound: path switches, reloads and reboots

Level    == 0 .. 1      \* the values of a group of settings, told apart
Settings == [filter  : Level,   \* gyroConfig, dynNotchConfig, rpmFilterConfig, useDshotTelemetry
             profile : Level,   \* the PID profile and pidConfig
             rates   : Rates,   \* the rate profile, rcControlsConfig and rxConfig
             mixer   : Level,   \* mixer mode, motors and servos
             threeD  : BOOLEAN, \* FEATURE_3D
             modes   : Tables]

ASSUME SettingsConstants ==
    /\ BootPath \in Paths /\ NoFile \notin Settings
    /\ Conditions \subseteq Condition /\ Aircraft \subseteq Settings /\ Default \in Settings
    /\ MaxEdits \in Nat /\ MaxRequests \in Nat

Chains == {"gyro", "dterm", "rc"}

\* The settings a chain is built from
Input(s, c) == CASE c = "gyro"  -> s.filter
                 [] c = "dterm" -> s.profile
                 [] c = "rc"    -> <<s.rates, s.profile>>
Inputs(s) == [c \in Chains |-> Input(s, c)]

\* The settings the mixer and the motors are set up from
MixerInput(s) == <<s.mixer, s.threeD>>

VARIABLES
    \* settings
    pg, eepromData, file, env,
    \* what the flight loop runs on
    chain,                     \* chain -> the settings it was built from
    flying,                    \* chains that hold the state of a running loop
    mixer,                     \* the settings the mixer and motors were set up from
    activeMacs,                \* slots on the list of active conditions
    \* wincompat.c's snapshots, one per chain
    snapshot,
    \* requests and threads
    gLocalPathPending, gLocalPendingEepromPath, gLocalReloadPending,
    gLocalRebootPending, gLocalPendingEepromWrite,
    gLocalRunning, armed,
    handler,                   \* renamed calls the MSP handler has still to make
    \* bounds used up
    edits, requests,
    \* history
    touched                    \* chains whose settings changed since they were built

requested == <<gLocalPathPending, gLocalPendingEepromPath, gLocalReloadPending, gLocalRebootPending>>
bounds    == <<edits, requests>>
stored    == <<eepromData, file, env>>
loop      == <<chain, flying, touched>>
vars      == <<pg, stored, loop, mixer, activeMacs, snapshot, requested, gLocalPendingEepromWrite,
               gLocalRunning, armed, handler, bounds>>

TypeOK ==
    /\ pg \in Settings /\ eepromData \in Settings
    /\ DOMAIN file = Paths /\ \A p \in Paths : file[p] = NoFile \/ file[p] \in Settings
    /\ env \in Paths
    /\ DOMAIN chain = Chains /\ DOMAIN snapshot = Chains
    /\ flying \subseteq Chains /\ touched \subseteq Chains
    /\ mixer \in Level \X BOOLEAN /\ activeMacs \subseteq Slots
    /\ gLocalPendingEepromPath \in Paths
    /\ {gLocalPathPending, gLocalReloadPending, gLocalRebootPending, gLocalPendingEepromWrite,
        gLocalRunning, armed} \subseteq BOOLEAN
    /\ handler \in {<<>>, <<"gyro", "dterm">>, <<"dterm">>, <<"rc">>}
    /\ edits \in 0 .. MaxEdits /\ requests \in 0 .. MaxRequests

\* Give the loop the settings new, with the chains of rebuilt built again
Run(new, rebuilt) ==
    /\ pg' = new
    /\ chain' = [c \in Chains |-> IF c \in rebuilt THEN Input(new, c) ELSE chain[c]]
    /\ flying' = flying \ rebuilt
    /\ touched' = {c \in Chains \ rebuilt : c \in touched \/ Input(new, c) # Input(pg, c)}

Init ==
    /\ \E s \in Aircraft, rest \in [Paths \ {BootPath} -> Aircraft \cup {NoFile}] :
          /\ file = [p \in Paths |-> IF p = BootPath THEN s ELSE rest[p]]
          /\ pg = s /\ eepromData = s
          /\ chain = Inputs(s) /\ snapshot = Inputs(s)
          /\ mixer = MixerInput(s) /\ activeMacs = ActiveMacs(s.modes)
    /\ env = BootPath /\ flying = {} /\ touched = {}
    /\ gLocalPathPending = FALSE /\ gLocalPendingEepromPath = BootPath
    /\ gLocalReloadPending = FALSE /\ gLocalRebootPending = FALSE
    /\ gLocalPendingEepromWrite = FALSE
    /\ gLocalRunning = TRUE /\ armed = FALSE
    /\ handler = <<>> /\ edits = 0 /\ requests = 0

NextEdit    == edits < MaxEdits /\ edits' = edits + 1
NextRequest == requests < MaxRequests /\ requests' = requests + 1

-----------------------------------------------------------------------------
(* The configurator and the CLI, on the MSP thread *)

\* A handler of msp.c writes the records it was sent ...
Edit(new, calls) ==
    /\ gLocalRunning /\ handler = <<>> /\ NextEdit
    /\ Run(new, {})
    /\ handler' = calls
    /\ UNCHANGED <<stored, mixer, snapshot, requested, gLocalPendingEepromWrite,
                   gLocalRunning, armed, requests>>

\* ... MSP_SET_FILTER_CONFIG, which also holds the D-term filters of the profile
MspSetFilterConfig ==
    /\ \E f \in Level, p \in Level :
          Edit([pg EXCEPT !.filter = f, !.profile = p], <<"gyro", "dterm">>)
    /\ UNCHANGED activeMacs

MspSetRcTuning ==
    /\ \E r \in {0, StoredMax} : Edit([pg EXCEPT !.rates.rcRate = r], <<"rc">>)
    /\ UNCHANGED activeMacs

\* A change that asks for no rebuild: gains, the mixer, or any setting of the CLI
SetInRam ==
    /\ \E v \in Level : \/ Edit([pg EXCEPT !.filter = v], <<>>)
                        \/ Edit([pg EXCEPT !.profile = v], <<>>)
                        \/ Edit([pg EXCEPT !.mixer = v], <<>>)
    /\ UNCHANGED activeMacs

\* MSP_SET_MODE_RANGE: one slot, then rcControlsInit
MspSetModeRange ==
    \E i \in Slots, mac \in Conditions :
       /\ Edit([pg EXCEPT !.modes[i] = mac], <<>>)
       /\ activeMacs' = ActiveMacs(pg'.modes)

\* Mutant: the snapshot is not taken again after the rebuild
CallWithoutSnapshot(c) ==
    /\ handler # <<>> /\ Head(handler) = c /\ handler' = Tail(handler)
    /\ Run(pg, IF snapshot[c] # Input(pg, c) THEN {c} ELSE {})
    /\ snapshot' = snapshot
    /\ UNCHANGED <<stored, mixer, activeMacs, requested, gLocalPendingEepromWrite,
                   gLocalRunning, armed, bounds>>

\* ... and calls sitlMspGyroInitFilters, sitlMspPidInitFilters or
\* sitlMspInitRcProcessing, which rebuild when the snapshot differs
Call(c) ==
    /\ handler # <<>> /\ Head(handler) = c /\ handler' = Tail(handler)
    /\ LET changed == snapshot[c] # Input(pg, c)
       IN  /\ Run(pg, IF changed THEN {c} ELSE {})
           /\ snapshot' = IF changed THEN [snapshot EXCEPT ![c] = Input(pg, c)] ELSE snapshot
    /\ UNCHANGED <<stored, mixer, activeMacs, requested, gLocalPendingEepromWrite,
                   gLocalRunning, armed, bounds>>

\* MSP_EEPROM_WRITE while disarmed: write, and no re-read (sitlMspReadEEPROM);
\* or the write that a setter left to this thread.  An unchanged image is not written
Persist == IF eepromData = pg THEN UNCHANGED <<eepromData, file>>
           ELSE eepromData' = pg /\ file' = [file EXCEPT ![env] = pg]

Save ==
    /\ gLocalRunning /\ handler = <<>>
    /\ ~armed \/ gLocalPendingEepromWrite
    /\ gLocalPendingEepromWrite' = FALSE
    /\ Persist
    /\ UNCHANGED <<pg, env, loop, mixer, activeMacs, snapshot, requested, gLocalRunning, armed,
                   handler, bounds>>

\* sitlLocalRequestReboot: disarm, and leave the rest to the next step
RequestReboot ==
    /\ gLocalRunning /\ handler = <<>> /\ NextRequest
    /\ armed' = FALSE /\ gLocalRebootPending' = TRUE
    /\ UNCHANGED <<pg, env, loop, mixer, activeMacs, snapshot, gLocalPathPending,
                   gLocalPendingEepromPath, gLocalReloadPending, gLocalPendingEepromWrite,
                   gLocalRunning, handler, edits>>

systemReset == RequestReboot /\ UNCHANGED <<eepromData, file>>

\* The bootloader is a reboot that writes the records first
systemResetToBootloader == RequestReboot /\ Persist

-----------------------------------------------------------------------------
(* The host's setters and requests, between two steps *)

\* sitlLocalRequestEepromWrite after a change in RAM
HostEdit(new) ==
    /\ gLocalRunning /\ NextEdit
    /\ Run(new, {})
    /\ gLocalPendingEepromWrite' = TRUE
    /\ UNCHANGED <<stored, snapshot, requested, gLocalRunning, armed, handler, requests>>

\* The rates go into the records; the RC processing is not rebuilt
sitl_local_set_rate(shown) ==
    /\ HostEdit([pg EXCEPT !.rates = SetRate(pg.rates, shown)])
    /\ UNCHANGED <<mixer, activeMacs>>

sitl_local_set_rate_mode(type) ==
    /\ HostEdit([pg EXCEPT !.rates.rates_type = type])
    /\ UNCHANGED <<mixer, activeMacs>>

\* Refused while armed.  The mixer is set up again for the mode that runs, not
\* for the one that may stand in the records
sitl_local_set_3d_enabled(enabled) ==
    /\ ~armed
    /\ HostEdit([pg EXCEPT !.threeD = enabled])
    /\ mixer' = <<mixer[1], enabled>>
    /\ UNCHANGED activeMacs

\* sitl_local_set_mode_range, and sitl_local_set_arm_switch for BOXARM.  A
\* failure leaves the records as the search found them, with no refresh
sitl_local_set_mode_range(box, aux, start, end) ==
    LET done == SetRange(pg.modes, box, aux, start, end)
    IN  /\ HostEdit([pg EXCEPT !.modes = done.table])
        /\ done.ret = 0
        /\ activeMacs' = ActiveMacs(done.table)
        /\ UNCHANGED mixer

RangeRefused(box, aux, start, end) ==
    LET done == SetRange(pg.modes, box, aux, start, end)
    IN  /\ gLocalRunning /\ NextEdit /\ done.ret = -1
        /\ Run([pg EXCEPT !.modes = done.table], {})
        /\ UNCHANGED <<stored, mixer, activeMacs, snapshot, requested, gLocalPendingEepromWrite,
                       gLocalRunning, armed, handler, requests>>

sitl_local_set_eeprom_path(p) ==
    /\ NextRequest
    /\ gLocalPathPending' = TRUE /\ gLocalPendingEepromPath' = p
    /\ UNCHANGED <<pg, stored, loop, mixer, activeMacs, snapshot, gLocalReloadPending,
                   gLocalRebootPending, gLocalPendingEepromWrite, gLocalRunning, armed,
                   handler, edits>>

sitl_local_reload_config ==
    /\ gLocalRunning /\ NextRequest
    /\ gLocalReloadPending' = TRUE
    /\ UNCHANGED <<pg, stored, loop, mixer, activeMacs, snapshot, gLocalPathPending,
                   gLocalPendingEepromPath, gLocalRebootPending, gLocalPendingEepromWrite,
                   gLocalRunning, armed, handler, edits>>

\* Another program rewrites the file of the aircraft in flight
FileReplaced ==
    /\ NextEdit
    /\ \E s \in Aircraft : file' = [file EXCEPT ![env] = s]
    /\ UNCHANGED <<pg, eepromData, env, loop, mixer, activeMacs, snapshot, requested,
                   gLocalPendingEepromWrite, gLocalRunning, armed, handler, requests>>

-----------------------------------------------------------------------------
(* sitl_local_step: the deferred work, then the scheduler passes *)

WorkPending == gLocalPathPending \/ gLocalReloadPending \/ gLocalRebootPending

\* Mutant: the snapshots are taken when the file has been loaded
GyroReferenceLate(new) == new.filter

\* localRunPendingReloadInternal compares with the settings it found in RAM,
\* not with those the running chain was built from
GyroReference(new) == pg.filter

\* Mutant: the profile-derived part of the boot is left out
BootReapplyNoMixer(new) == mixer' = mixer

\* sitlLocalRunBootReapply and sitlLocalRunBootProfileInit: the mixer and motors
BootReapply(new) == mixer' = MixerInput(new)

\* localRunPendingReloadInternal: save the aircraft being left, switch, snapshot,
\* open the file; the same image ends the work.  Otherwise load the values (a
\* reboot without a switch does not) and rebuild what changed.  The list of mode
\* conditions is not made again
localRunPendingReloadInternal(rereadEeprom) ==
    LET flushed == IF eepromData = pg THEN file ELSE [file EXCEPT ![env] = pg]
        target  == IF gLocalPathPending THEN gLocalPendingEepromPath ELSE env
        fresh   == flushed[target] = NoFile
        found   == IF fresh THEN Default ELSE flushed[target]
        reads   == rereadEeprom \/ gLocalPathPending
        new     == IF reads THEN found ELSE pg
        rebuilt == (IF reads THEN {"dterm", "rc"} ELSE {})
                   \cup (IF new.filter # GyroReference(new) THEN {"gyro"} ELSE {})
                   \cup (IF new.profile # pg.profile THEN {"dterm"} ELSE {})
    IN  /\ env' = target
        /\ file' = [flushed EXCEPT ![target] = found]
        /\ eepromData' = found
        /\ gLocalPathPending' = FALSE /\ gLocalReloadPending' = FALSE
        /\ gLocalPendingEepromWrite' = FALSE
        /\ IF ~fresh /\ found = pg
           THEN /\ snapshot' = [snapshot EXCEPT !["gyro"] = pg.filter, !["dterm"] = pg.profile]
                /\ UNCHANGED <<pg, loop, mixer>>
           ELSE /\ Run(new, rebuilt)
                /\ BootReapply(new)
                /\ snapshot' = Inputs(new)
        /\ UNCHANGED <<activeMacs, gLocalPendingEepromPath, gLocalRunning, armed, handler, bounds>>

localRunPendingReboot ==
    /\ gLocalRunning /\ gLocalRebootPending /\ ~armed
    /\ gLocalRebootPending' = FALSE
    /\ localRunPendingReloadInternal(FALSE)

localRunPendingReload ==
    /\ gLocalRunning /\ ~gLocalRebootPending
    /\ gLocalPathPending \/ gLocalReloadPending
    /\ localRunPendingReloadInternal(TRUE)
    /\ UNCHANGED gLocalRebootPending

\* The passes of a step: the chains take up state, the pilot arms or disarms
SchedulerPass ==
    /\ gLocalRunning
    /\ flying' = Chains /\ armed' \in BOOLEAN
    /\ UNCHANGED <<pg, stored, chain, touched, mixer, activeMacs, snapshot, requested,
                   gLocalPendingEepromWrite, gLocalRunning, handler, bounds>>

-----------------------------------------------------------------------------
(* sitl_local_shutdown and sitl_local_init *)

\* The MSP thread ends between two commands; then the flush
sitl_local_shutdown ==
    /\ gLocalRunning /\ handler = <<>>
    /\ gLocalRunning' = FALSE /\ gLocalPendingEepromWrite' = FALSE
    /\ Persist
    /\ UNCHANGED <<pg, env, loop, mixer, activeMacs, snapshot, requested, armed, handler, bounds>>

\* The boot: a pending path first, then everything built from the file, and the
\* snapshots of what the chains were built from
sitl_local_init ==
    /\ ~gLocalRunning
    /\ LET target == IF gLocalPathPending THEN gLocalPendingEepromPath ELSE env
           \* a missing file is created from the flash image that is still there
           found  == IF file[target] = NoFile THEN eepromData ELSE file[target]
       IN  /\ env' = target
           /\ file' = [file EXCEPT ![target] = found]
           /\ eepromData' = found
           /\ Run(found, Chains)
           /\ snapshot' = Inputs(found)
           /\ mixer' = MixerInput(found) /\ activeMacs' = ActiveMacs(found.modes)
    /\ gLocalPathPending' = FALSE /\ gLocalPendingEepromPath' = BootPath
    /\ gLocalReloadPending' = FALSE /\ gLocalRebootPending' = FALSE
    /\ gLocalPendingEepromWrite' = FALSE
    /\ gLocalRunning' = TRUE /\ armed' = FALSE
    /\ UNCHANGED <<handler, bounds>>

-----------------------------------------------------------------------------
Msp  == \/ MspSetFilterConfig \/ MspSetRcTuning \/ SetInRam \/ MspSetModeRange
        \/ \E c \in Chains : Call(c)
        \/ Save \/ systemReset \/ systemResetToBootloader

Auxs == Channels \cup {SITL_LOCAL_MAX_RC_CHANNELS, NoAux}

Host == \/ \E shown \in {1, 2000} : sitl_local_set_rate(shown)
        \/ \E type \in RateTypes : sitl_local_set_rate_mode(type)
        \/ \E on \in BOOLEAN : sitl_local_set_3d_enabled(on)
        \/ \E box \in Boxes, aux \in Auxs, start, end \in RangeSteps :
              sitl_local_set_mode_range(box, aux, start, end) \/ RangeRefused(box, aux, start, end)
        \/ \E p \in Paths : sitl_local_set_eeprom_path(p)
        \/ sitl_local_reload_config \/ FileReplaced
        \/ localRunPendingReboot \/ localRunPendingReload \/ SchedulerPass
        \/ sitl_local_shutdown \/ sitl_local_init

Next == Msp \/ Host

SettingsSpec == Init /\ [][Next]_vars

-----------------------------------------------------------------------------
(* Properties *)

InStep == chain = Inputs(pg) /\ mixer = MixerInput(pg)

LoadsFile == WorkPending /\ (pg' # pg \/ file[gLocalPendingEepromPath] = NoFile)

\* A running filter chain loses its state only when its settings changed after
\* it was built: no save, no configurator burst, no reload "injects a step"
\* otherwise (wincompat.c:910-919).  A reload that loads another configuration
\* rebuilds the D-term chain and the RC processing in any case.
ChainsKeepFlying ==
    [][\A c \in flying \ flying' :
          \/ ~gLocalRunning
          \/ c \in touched \/ Input(pg', c) # Input(pg, c)
          \/ c # "gyro" /\ LoadsFile]_vars

\* A controller whose chains and mixer agree with its settings still agrees with
\* them when a reload, a path switch or a reboot has been applied, whatever
\* handler of the MSP thread it came in between.
WorkStaysInStep ==
    /\ []TypeOK
    /\ [][WorkPending /\ InStep /\ UNCHANGED <<edits, handler>> => InStep']_vars

\* A setter of the host touches what it names: the other boxes keep their
\* conditions, a usable range is read back as it was set, a
\* refusal changes nothing, and a rate that is written back as it was read
\* stays as it is (within the limit of its type).
SettersAreLocal ==
    [][/\ pg'.modes # pg.modes =>
             \A box \in Boxes, aux \in Auxs, start, end \in RangeSteps :
                /\ sitl_local_set_mode_range(box, aux, start, end) =>
                      /\ OtherConditions(pg'.modes, box) = OtherConditions(pg.modes, box)
                      /\ aux # NoAux /\ start < end => GetRange(pg'.modes, box) = <<aux, start, end>>
                      /\ aux = NoAux => GetRange(pg'.modes, box) = <<NoAux, 0, 0>>
                /\ ~RangeRefused(box, aux, start, end)
       /\ pg'.rates # pg.rates /\ pg.rates.rcRate <= rc_rate_limit(pg.rates.rates_type)
             => ~sitl_local_set_rate(GetRate(pg.rates))]_vars

\* "boot-time settings (filters, mixer, features, ...) apply on 'Save and
\* Reboot'" (wincompat.c:1536-1537).  They do not: the reboot has just written
\* the file it compares with the settings, finds it the same and returns.
RebootApplies ==
    [][gLocalRebootPending /\ ~gLocalRebootPending' /\ gLocalRunning => InStep']_vars
=============================================================================
