---------------------------- MODULE LocalConfig -----------------------------
(***************************************************************************)
(* The configuration of the in-process (LOCAL) flight controller: the RAM  *)
(* records (pg), the virtual flash (eepromData), the EEPROM files, one per *)
(* aircraft, and the requests that change them.                            *)
(*                                                                         *)
(* The host thread steps the firmware; between two scheduler passes it     *)
(* applies what was requested: a reboot, a reload, a switch to another     *)
(* file.  The MSP thread serves the configurator and does the writes that  *)
(* were deferred to it.  Both call writeEEPROM on the same handle.         *)
(*                                                                         *)
(* A configuration is the aircraft it belongs to, the number of its latest *)
(* edit, and whether it holds the settings the LOCAL link pins.            *)
(*                                                                         *)
(* External: the firmware's writeEEPROM, configUnlock, configLock and      *)
(* loadEEPROM, and the parser of MSP and CLI commands.                     *)
(***************************************************************************)
EXTENDS Naturals

CONSTANTS Paths,        \* EEPROM files, one per aircraft
          BootPath,     \* BF_SITL_EEPROM when the process starts
          Starts,       \* how a process may start: the files that do not exist yet,
                        \* and how much of each bound is used up
          NONE,         \* no file, closed handle, erased flash
          MaxEdits,     \* bound: settings changed
          MaxRequests,  \* bound: path switches, reloads and reboots
          MaxBoots      \* bound: sitl_local_init calls

Config == [owner : Paths, rev : 0 .. MaxEdits, pinned : BOOLEAN]

ASSUME ConfigConstants ==
    /\ BootPath \in Paths
    /\ \A s \in Starts : /\ s.missing \subseteq Paths /\ s.edits \in 0 .. MaxEdits
                         /\ s.requests \in 0 .. MaxRequests /\ s.boots \in 0 .. MaxBoots
    /\ NONE \notin Paths /\ NONE \notin Config
    /\ MaxEdits \in Nat /\ MaxRequests \in Nat /\ MaxBoots \in Nat

Default(p) == [owner |-> p, rev |-> 0, pinned |-> FALSE]

\* What the LOCAL link sets in any configuration it runs: the virtual receiver,
\* the ADC meters, the PWM protocol and the DShot telemetry flag
Pinned(c) == [c EXCEPT !.pinned = TRUE]

VARIABLES
    \* configuration
    pg,                        \* the RAM records the flight loop uses
    derived,                   \* the aircraft the mixer and the motors were set up from
    eepromData,                \* the flash image
    file,                      \* the EEPROM files
    handle,                    \* the file the open handle points at, or NONE
    env,                       \* BF_SITL_EEPROM
    \* requests
    gLocalPathPending, gLocalPendingEepromPath,
    gLocalReloadPending, gLocalRebootPending, gLocalRepinPending,
    gLocalPendingReset, gLocalPendingEepromWrite,
    \* threads
    gLocalRunning,
    host,                      \* where the host thread is
    work,                      \* the config work it is doing
    mspAfter,                  \* what the MSP thread does after its write
    writing,                   \* thread -> progress of its writeEEPROM
    armed,
    \* bounds used up
    edits, requests, boots,
    \* history
    asked,                     \* file selected at the latest deferred edit, and its number
    overlapped,                \* a write of the MSP thread has run into the host's EEPROM
                               \* work, or that work into such a write
    carried                    \* a boot has met a file that does not exist while the flash
                               \* image was that of an earlier boot

flags   == <<gLocalPathPending, gLocalPendingEepromPath, gLocalReloadPending,
             gLocalRebootPending, gLocalRepinPending, gLocalPendingReset,
             gLocalPendingEepromWrite>>
flash   == <<eepromData, file, handle>>
bounds  == <<edits, requests, boots>>
history == <<asked, overlapped, carried>>
vars    == <<pg, derived, flash, env, flags, gLocalRunning, host, work, mspAfter,
             writing, armed, bounds, history>>

NoWork  == [kind |-> "none", switched |-> FALSE, fresh |-> FALSE]

TypeOK ==
    /\ pg \in Config
    /\ derived \in Paths
    /\ eepromData \in Config \cup {NONE}
    /\ file \in [Paths -> Config \cup {NONE}]
    /\ handle \in Paths \cup {NONE} /\ env \in Paths
    /\ gLocalPathPending \in BOOLEAN /\ gLocalPendingEepromPath \in Paths \cup {NONE}
    /\ gLocalReloadPending \in BOOLEAN /\ gLocalRebootPending \in BOOLEAN
    /\ gLocalRepinPending \in BOOLEAN /\ gLocalPendingReset \in BOOLEAN
    /\ gLocalPendingEepromWrite \in BOOLEAN
    /\ gLocalRunning \in BOOLEAN
    /\ host \in {"off", "idle", "step", "flush", "switch", "open", "validate", "load", "apply",
                 "pass", "closing"}
    /\ work \in [kind : {"none", "reload", "reboot"}, switched : BOOLEAN, fresh : BOOLEAN]
    /\ mspAfter \in {"none", "done", "repin", "reboot"}
    /\ writing \in [{"host", "msp"} -> {"no", "begin", "copy", "lock"}]
    /\ armed \in BOOLEAN
    /\ edits \in 0 .. MaxEdits /\ requests \in 0 .. MaxRequests /\ boots \in 0 .. MaxBoots
    /\ asked \in Paths \X (0 .. MaxEdits) /\ overlapped \in BOOLEAN /\ carried \in BOOLEAN

Init ==
    /\ pg = Default(BootPath) /\ derived = BootPath
    /\ eepromData = NONE /\ handle = NONE /\ env = BootPath
    /\ \E s \in Starts :
          /\ file = [p \in Paths |-> IF p \in s.missing THEN NONE ELSE Default(p)]
          /\ edits = s.edits /\ requests = s.requests /\ boots = s.boots
    /\ gLocalPathPending = FALSE /\ gLocalPendingEepromPath = NONE
    /\ gLocalReloadPending = FALSE /\ gLocalRebootPending = FALSE
    /\ gLocalRepinPending = FALSE /\ gLocalPendingReset = FALSE
    /\ gLocalPendingEepromWrite = FALSE
    /\ gLocalRunning = FALSE /\ host = "off" /\ work = NoWork /\ mspAfter = "none"
    /\ writing = [t \in {"host", "msp"} |-> "no"]
    /\ armed = FALSE
    /\ asked = <<BootPath, 0>> /\ overlapped = FALSE /\ carried = FALSE

-----------------------------------------------------------------------------
(* The firmware's EEPROM driver (external) *)

\* configUnlock: open the file BF_SITL_EEPROM names and load it into the flash
\* image, or create it from the image; refused while a handle is open
configUnlock(image) ==
    /\ handle' = IF handle = NONE THEN env ELSE handle
    /\ file' = IF handle = NONE /\ file[env] = NONE THEN [file EXCEPT ![env] = image] ELSE file
    /\ eepromData' = IF handle = NONE /\ file[env] # NONE THEN file[env] ELSE image

\* configLock: write the image to the open file and close it
configLock ==
    /\ file' = IF handle = NONE THEN file ELSE [file EXCEPT ![handle] = eepromData]
    /\ handle' = NONE
    /\ UNCHANGED eepromData

\* writeEEPROM goes through the driver only when the records differ from the image
StartWrite(t) == writing' = [writing EXCEPT ![t] = IF pg = eepromData THEN "no" ELSE "begin"]
Written(t)    == writing[t] = "no"

writeEEPROM(t) ==
    /\ \/ writing[t] = "begin" /\ configUnlock(eepromData)
          /\ writing' = [writing EXCEPT ![t] = "copy"]
       \/ writing[t] = "copy" /\ eepromData' = pg /\ UNCHANGED <<file, handle>>
          /\ writing' = [writing EXCEPT ![t] = "lock"]
       \/ writing[t] = "lock" /\ configLock
          /\ writing' = [writing EXCEPT ![t] = "no"]
    /\ UNCHANGED <<pg, derived, env, flags, gLocalRunning, host, work, mspAfter,
                   armed, bounds, history>>

\* The host thread saves, selects or loads a file
AtEeprom == host \in {"flush", "switch", "open", "validate", "load"}

-----------------------------------------------------------------------------
(* Host thread: the calls of the host application *)

\* sitl_local_set_eeprom_path, before the first boot or between two steps
sitl_local_set_eeprom_path(p) ==
    /\ host \in {"off", "idle"} /\ requests < MaxRequests
    /\ gLocalPendingEepromPath' = p /\ gLocalPathPending' = TRUE
    /\ requests' = requests + 1
    /\ UNCHANGED <<pg, derived, flash, env, gLocalReloadPending, gLocalRebootPending,
                   gLocalRepinPending, gLocalPendingReset, gLocalPendingEepromWrite,
                   gLocalRunning, host, work, mspAfter, writing, armed, edits, boots, history>>

sitl_local_reload_config ==
    /\ host = "idle" /\ gLocalRunning /\ requests < MaxRequests
    /\ gLocalReloadPending' = TRUE
    /\ requests' = requests + 1
    /\ UNCHANGED <<pg, derived, flash, env, gLocalPathPending, gLocalPendingEepromPath,
                   gLocalRebootPending, gLocalRepinPending, gLocalPendingReset,
                   gLocalPendingEepromWrite, gLocalRunning, host, work, mspAfter, writing,
                   armed, edits, boots, history>>

NextEdit == edits < MaxEdits /\ edits' = edits + 1

\* A setter of the host (set_rate, set_rate_mode, ...), or the firmware's own
\* write of its statistics: change pg and leave the write to the MSP thread
DeferredEdit ==
    /\ host \in {"idle", "pass"} /\ gLocalRunning /\ NextEdit
    /\ pg' = [pg EXCEPT !.rev = edits']
    /\ gLocalPendingEepromWrite' = TRUE
    /\ asked' = <<env, edits'>>
    /\ UNCHANGED <<derived, flash, env, gLocalPathPending, gLocalPendingEepromPath,
                   gLocalReloadPending, gLocalRebootPending, gLocalRepinPending,
                   gLocalPendingReset, gLocalRunning, host, work, mspAfter, writing,
                   armed, requests, boots, overlapped, carried>>

-----------------------------------------------------------------------------
(* Host thread: sitl_local_step *)

Begin(kind) ==
    /\ host' = "flush" /\ work' = [NoWork EXCEPT !.kind = kind]
    /\ gLocalReloadPending' = FALSE /\ gLocalPendingEepromWrite' = FALSE
    /\ StartWrite("host")
    /\ overlapped' = (overlapped \/ ~Written("msp"))
    /\ UNCHANGED <<derived, flash, env, gLocalPathPending, gLocalPendingEepromPath,
                   gLocalPendingReset, gLocalRunning, mspAfter, armed, bounds, asked, carried>>

\* localRepinOverrides, run when a configurator save asked for it
Repinned == IF gLocalRepinPending THEN Pinned(pg) ELSE pg

\* Mutant: the re-pin waits for the disarm
EnterStepDisarmed ==
    /\ host = "idle" /\ gLocalRunning
    /\ host' = "step"
    /\ gLocalRepinPending' = (gLocalRepinPending /\ armed)
    /\ pg' = IF gLocalRepinPending /\ ~armed THEN Pinned(pg) ELSE pg
    /\ UNCHANGED <<derived, flash, env, gLocalPathPending, gLocalPendingEepromPath,
                   gLocalReloadPending, gLocalRebootPending, gLocalPendingReset,
                   gLocalPendingEepromWrite, gLocalRunning, work, mspAfter, writing,
                   armed, bounds, history>>

\* Entry of the step: the re-pin comes first, armed or not
EnterStep ==
    /\ host = "idle" /\ gLocalRunning
    /\ host' = "step"
    /\ gLocalRepinPending' = FALSE
    /\ pg' = Repinned
    /\ UNCHANGED <<derived, flash, env, gLocalPathPending, gLocalPendingEepromPath,
                   gLocalReloadPending, gLocalRebootPending, gLocalPendingReset,
                   gLocalPendingEepromWrite, gLocalRunning, work, mspAfter, writing,
                   armed, bounds, history>>

\* localRunPendingReboot: only while disarmed
StartReboot ==
    /\ host = "step"
    /\ gLocalRebootPending /\ ~armed
    /\ gLocalRebootPending' = FALSE
    /\ Begin("reboot")
    /\ UNCHANGED <<pg, gLocalRepinPending>>

\* localRunPendingReload
StartReload ==
    /\ host = "step"
    /\ ~gLocalRebootPending
    /\ gLocalReloadPending \/ gLocalPathPending
    /\ Begin("reload")
    /\ UNCHANGED <<pg, gLocalRepinPending, gLocalRebootPending>>

\* Nothing to apply, or a reboot that waits for the disarm
StartPass ==
    /\ host = "step"
    /\ IF gLocalRebootPending THEN armed ELSE ~gLocalReloadPending /\ ~gLocalPathPending
    /\ host' = "pass" /\ work' = NoWork
    /\ UNCHANGED <<pg, derived, flash, env, flags, gLocalRunning, mspAfter,
                   writing, armed, bounds, history>>

\* localFlushEepromWrite after its write: close a handle that is still open
Flushed ==
    /\ host = "flush" /\ Written("host")
    /\ configLock
    /\ host' = "switch"
    /\ UNCHANGED <<pg, derived, env, flags, gLocalRunning, work, mspAfter, writing,
                   armed, bounds, history>>

\* Mutant: the flash image is not erased for a new aircraft
SwitchKeepingImage ==
    /\ host = "switch"
    /\ gLocalPathPending' = FALSE
    /\ LET p     == gLocalPendingEepromPath
           fresh == gLocalPathPending /\ file[p] = NONE
       IN  /\ work' = [work EXCEPT !.switched = gLocalPathPending, !.fresh = fresh]
           /\ eepromData' = eepromData
           /\ env' = IF gLocalPathPending THEN p ELSE env
    /\ host' = "open"
    /\ UNCHANGED <<pg, derived, file, handle, gLocalPendingEepromPath, gLocalReloadPending,
                   gLocalRebootPending, gLocalRepinPending, gLocalPendingReset,
                   gLocalPendingEepromWrite, gLocalRunning, mspAfter, writing, armed, bounds, history>>

\* The switch of localRunPendingReloadInternal: a new file starts from erased flash
Switch ==
    /\ host = "switch"
    /\ gLocalPathPending' = FALSE
    /\ LET p     == gLocalPendingEepromPath
           fresh == gLocalPathPending /\ file[p] = NONE
       IN  /\ work' = [work EXCEPT !.switched = gLocalPathPending, !.fresh = fresh]
           /\ eepromData' = IF fresh THEN NONE ELSE eepromData
           /\ env' = IF gLocalPathPending THEN p ELSE env
    /\ host' = "open"
    /\ UNCHANGED <<pg, derived, file, handle, gLocalPendingEepromPath, gLocalReloadPending,
                   gLocalRebootPending, gLocalRepinPending, gLocalPendingReset,
                   gLocalPendingEepromWrite, gLocalRunning, mspAfter, writing, armed, bounds, history>>

\* Open and load the selected file.  An unchanged image ends the work here
OpenFile ==
    /\ host = "open"
    /\ configUnlock(eepromData)
    /\ host' = IF work.fresh THEN "validate"
                ELSE IF eepromData' = eepromData THEN "pass" ELSE "load"
    /\ UNCHANGED <<pg, derived, env, flags, gLocalRunning, work, mspAfter, writing,
                   armed, bounds, history>>

\* ensureEEPROMStructureIsValid: an erased image becomes the factory defaults
Validate ==
    /\ host = "validate"
    /\ IF eepromData = NONE
       THEN /\ pg' = Default(env) /\ eepromData' = Default(env)
            /\ file' = IF handle = NONE THEN file ELSE [file EXCEPT ![handle] = Default(env)]
            /\ handle' = NONE
       ELSE UNCHANGED <<pg, flash>>
    /\ host' = "load"
    /\ UNCHANGED <<derived, env, flags, gLocalRunning, work, mspAfter, writing,
                   armed, bounds, history>>

\* Mutant: a reboot never reads, not even a file it has just switched to
LoadUnlessReboot ==
    /\ host = "load"
    /\ pg' = IF work.kind = "reload" /\ eepromData # NONE THEN eepromData ELSE pg
    /\ host' = "apply"
    /\ UNCHANGED <<derived, flash, env, flags, gLocalRunning, work, mspAfter,
                   writing, armed, bounds, history>>

\* loadEEPROM; a reboot does not read again what it has just written
Load ==
    /\ host = "load"
    /\ pg' = IF (work.kind = "reload" \/ work.switched) /\ eepromData # NONE THEN eepromData ELSE pg
    /\ host' = "apply"
    /\ UNCHANGED <<derived, flash, env, flags, gLocalRunning, work, mspAfter,
                   writing, armed, bounds, history>>

\* localApplyLinkOverrides, sitlLocalRunBootReapply, sitlLocalRunBootProfileInit
Apply ==
    /\ host = "apply"
    /\ pg' = Pinned(pg)
    /\ derived' = pg.owner
    /\ host' = "pass"
    /\ UNCHANGED <<flash, env, flags, gLocalRunning, work, mspAfter, writing,
                   armed, bounds, history>>

\* The scheduler passes of the step; they may arm and disarm
SchedulerPass ==
    /\ host = "pass"
    /\ armed' \in BOOLEAN
    /\ host' = "idle" /\ work' = NoWork
    /\ UNCHANGED <<pg, derived, flash, env, flags, gLocalRunning, mspAfter,
                   writing, bounds, history>>

-----------------------------------------------------------------------------
(* Host thread: sitl_local_shutdown and sitl_local_init *)

\* Mutant: the pending write is forgotten instead of done
ShutdownQuietly ==
    /\ host = "idle" /\ gLocalRunning /\ mspAfter = "none" /\ boots < MaxBoots
    /\ gLocalRunning' = FALSE /\ host' = "closing"
    /\ gLocalPendingEepromWrite' = FALSE
    /\ UNCHANGED <<pg, derived, flash, env, gLocalPathPending, gLocalPendingEepromPath,
                   gLocalReloadPending, gLocalRebootPending, gLocalRepinPending,
                   gLocalPendingReset, work, mspAfter, writing, armed, bounds, history>>

\* Stop the MSP thread (it ends at the top of its loop), then flush
sitl_local_shutdown ==
    /\ host = "idle" /\ gLocalRunning /\ mspAfter = "none" /\ boots < MaxBoots
    /\ gLocalRunning' = FALSE /\ host' = "closing"
    /\ gLocalPendingEepromWrite' = FALSE
    /\ StartWrite("host")
    /\ UNCHANGED <<pg, derived, flash, env, gLocalPathPending, gLocalPendingEepromPath,
                   gLocalReloadPending, gLocalRebootPending, gLocalRepinPending,
                   gLocalPendingReset, work, mspAfter, armed, bounds, history>>

ShutdownFlushed ==
    /\ host = "closing" /\ Written("host")
    /\ configLock
    /\ host' = "off"
    /\ UNCHANGED <<pg, derived, env, flags, gLocalRunning, work, mspAfter, writing,
                   armed, bounds, history>>

\* Mutant: the boot keeps the flash image of the previous run
InitKeepingImage ==
    /\ host = "off" /\ boots < MaxBoots
    /\ LET p     == IF gLocalPathPending THEN gLocalPendingEepromPath ELSE env
           image == IF eepromData # NONE THEN eepromData
                    ELSE IF file[p] # NONE THEN file[p] ELSE Default(p)
       IN  /\ env' = p
           /\ handle' = IF file[p] = NONE /\ eepromData = NONE THEN NONE ELSE p
           /\ carried' = (carried \/ (file[p] = NONE /\ eepromData # NONE))
           /\ file' = [file EXCEPT ![p] = image]
           /\ eepromData' = image
           /\ pg' = Pinned(image)
           /\ derived' = image.owner
    /\ gLocalPathPending' = FALSE /\ gLocalPendingEepromPath' = NONE
    /\ gLocalReloadPending' = FALSE /\ gLocalRebootPending' = FALSE
    /\ gLocalRepinPending' = FALSE /\ gLocalPendingReset' = FALSE
    /\ gLocalPendingEepromWrite' = FALSE
    /\ gLocalRunning' = TRUE /\ host' = "idle" /\ armed' = FALSE
    /\ boots' = boots + 1
    /\ UNCHANGED <<work, mspAfter, writing, edits, requests, asked, overlapped>>

\* Boot: the pending path, the flags, the EEPROM, the link overrides.  The file
\* is opened as by configUnlock; an erased image becomes the factory defaults
sitl_local_init ==
    /\ host = "off" /\ boots < MaxBoots
    /\ LET p     == IF gLocalPathPending THEN gLocalPendingEepromPath ELSE env
           image == IF file[p] # NONE THEN file[p]
                    ELSE IF eepromData # NONE THEN eepromData ELSE Default(p)
       IN  /\ env' = p
           /\ handle' = IF file[p] = NONE /\ eepromData = NONE THEN NONE ELSE p
           /\ carried' = (carried \/ (file[p] = NONE /\ eepromData # NONE))
           /\ file' = [file EXCEPT ![p] = image]
           /\ eepromData' = image
           /\ pg' = Pinned(image)
           /\ derived' = image.owner
    /\ gLocalPathPending' = FALSE /\ gLocalPendingEepromPath' = NONE
    /\ gLocalReloadPending' = FALSE /\ gLocalRebootPending' = FALSE
    /\ gLocalRepinPending' = FALSE /\ gLocalPendingReset' = FALSE
    /\ gLocalPendingEepromWrite' = FALSE
    /\ gLocalRunning' = TRUE /\ host' = "idle" /\ armed' = FALSE
    /\ boots' = boots + 1
    /\ UNCHANGED <<work, mspAfter, writing, edits, requests, asked, overlapped>>

-----------------------------------------------------------------------------
(* MSP thread *)

\* The configurator or the CLI changes settings in RAM, perhaps pinned ones
MspEdit ==
    /\ mspAfter = "none" /\ gLocalRunning /\ NextEdit
    /\ \E keep \in BOOLEAN : pg' = [pg EXCEPT !.rev = edits', !.pinned = IF keep THEN @ ELSE FALSE]
    /\ UNCHANGED <<derived, flash, env, flags, gLocalRunning, host, work, mspAfter,
                   writing, armed, requests, boots, history>>

\* A write of the MSP thread, whatever the host thread is doing
MspWrite(after) ==
    /\ mspAfter = "none" /\ gLocalRunning
    /\ StartWrite("msp") /\ mspAfter' = after
    /\ overlapped' = (overlapped \/ (AtEeprom /\ pg # eepromData))
    /\ UNCHANGED <<pg, derived, flash, env, gLocalPathPending, gLocalPendingEepromPath,
                   gLocalReloadPending, gLocalRebootPending, gLocalRepinPending,
                   gLocalRunning, host, work, armed, edits, boots, asked, carried>>

\* MSP_EEPROM_WRITE, refused by the firmware while armed
sitlMspWriteEEPROM ==
    /\ ~armed
    /\ MspWrite("repin")
    /\ UNCHANGED <<gLocalPendingReset, gLocalPendingEepromWrite, requests>>

\* MSP_SET_REBOOT and the request for the bootloader
sitlSystemReset ==
    /\ requests < MaxRequests /\ requests' = requests + 1
    /\ MspWrite("reboot")
    /\ UNCHANGED <<gLocalPendingReset, gLocalPendingEepromWrite>>

\* The two deferred writes of localMspThreadProc: the request is taken first
TakeReset ==
    /\ gLocalPendingReset /\ gLocalPendingReset' = FALSE
    /\ MspWrite("done")
    /\ UNCHANGED <<gLocalPendingEepromWrite, requests>>

TakeEepromWrite ==
    /\ gLocalPendingEepromWrite /\ gLocalPendingEepromWrite' = FALSE
    /\ MspWrite("done")
    /\ UNCHANGED <<gLocalPendingReset, requests>>

\* sitlLocalRequestReboot: disarm and leave the rest to the next step
RequestReboot == armed' = FALSE /\ gLocalRebootPending' = TRUE

\* What follows the write: nothing, the re-pin request, or the reboot, from
\* which sitlLocalRebootJump returns to the top of the loop
AfterWrite ==
    /\ mspAfter # "none" /\ Written("msp")
    /\ mspAfter' = "none"
    /\ gLocalRepinPending' = (gLocalRepinPending \/ mspAfter = "repin")
    /\ IF mspAfter = "reboot" THEN RequestReboot ELSE UNCHANGED <<armed, gLocalRebootPending>>
    /\ UNCHANGED <<pg, derived, flash, env, gLocalPathPending, gLocalPendingEepromPath,
                   gLocalReloadPending, gLocalPendingReset, gLocalPendingEepromWrite,
                   gLocalRunning, host, work, writing, bounds, history>>

\* A reboot from the CLI (on the MSP thread) or the CMS menu (in a scheduler
\* pass), after "save" has asked for a deferred write
systemReset ==
    /\ \/ gLocalRunning /\ mspAfter = "none"
       \/ host = "pass"
    /\ requests < MaxRequests /\ requests' = requests + 1
    /\ \E save \in BOOLEAN : gLocalPendingEepromWrite' = (gLocalPendingEepromWrite \/ save)
    /\ gLocalPendingReset' = TRUE
    /\ RequestReboot
    /\ UNCHANGED <<pg, derived, flash, env, gLocalPathPending, gLocalPendingEepromPath,
                   gLocalReloadPending, gLocalRepinPending, gLocalRunning, host, work,
                   mspAfter, writing, edits, boots, history>>

-----------------------------------------------------------------------------
Host == \/ \E p \in Paths : sitl_local_set_eeprom_path(p)
        \/ sitl_local_reload_config \/ DeferredEdit
        \/ EnterStep \/ StartReboot \/ StartReload \/ StartPass
        \/ Flushed \/ Switch \/ OpenFile \/ Validate \/ Load \/ Apply \/ SchedulerPass
        \/ sitl_local_shutdown \/ ShutdownFlushed \/ sitl_local_init

Msp == \/ MspEdit \/ sitlMspWriteEEPROM \/ sitlSystemReset \/ systemReset
       \/ TakeReset \/ TakeEepromWrite \/ AfterWrite

Next == Host \/ Msp \/ writeEEPROM("host") \/ writeEEPROM("msp")

Spec == Init /\ [][Next]_vars

\* The host keeps stepping while the controller runs and finishes what it has
\* begun; the MSP thread keeps running.  Strong fairness for its two deferred
\* writes: it looks at both requests on every pass of its loop, whatever else the
\* configurator makes it do in between
Fairness ==
    /\ WF_vars(EnterStep \/ StartReboot \/ StartReload \/ StartPass \/ Flushed \/ Switch
               \/ OpenFile \/ Validate \/ Load \/ Apply \/ SchedulerPass \/ ShutdownFlushed)
    /\ WF_vars(writeEEPROM("host")) /\ WF_vars(writeEEPROM("msp"))
    /\ WF_vars(AfterWrite) /\ SF_vars(TakeReset) /\ SF_vars(TakeEepromWrite)

FairSpec == Spec /\ Fairness

-----------------------------------------------------------------------------
(* Properties *)

\* "The aircraft being left is saved to its own file" (README.md:352) and never
\* into another one: whatever is requested in whatever order, a file holds a
\* configuration of its own aircraft.  Only two things can break it: a write of
\* the MSP thread that overlaps the host's EEPROM work, which no lock prevents,
\* and a later boot of the process with a file that does not exist, which is
\* created from the image of the aircraft before.
FileOfItsAircraft ==
    TypeOK /\ (overlapped \/ carried \/ \A p \in Paths : file[p] # NONE => file[p].owner = p)

\* When the scheduler runs, the aircraft it flies, in the records and in the
\* mixer set up from them, is the one whose file was selected, unless a later
\* switch is still pending, or one of the same two things has happened.
SelectedAircraftFlown ==
    \/ overlapped \/ carried
    \/ host = "pass" /\ ~gLocalPathPending => pg.owner = env /\ derived = env

\* A change whose write was deferred reaches the file that was selected when it
\* was made, whatever switch, reboot, shutdown or boot comes in between, unless
\* the two threads' EEPROM work overlaps.
DeferredEditPersists ==
    \A p \in Paths, r \in 1 .. MaxEdits :
        asked = <<p, r>> ~> overlapped \/ (file[p] # NONE /\ file[p].rev >= r)

\* A save that stored unpinned settings is followed by a re-pin, armed or not.
SaveIsRepinned == gLocalRepinPending ~> (pg.pinned \/ ~gLocalRunning)
=============================================================================
