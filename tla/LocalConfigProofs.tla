------------------------- MODULE LocalConfigProofs --------------------------
(***************************************************************************)
(* Whose configuration is where, and that no deferred edit is dropped:     *)
(* proofs about LocalConfig for any number of aircraft, edits, requests    *)
(* and boots, from any of the starts.                                      *)
(***************************************************************************)
EXTENDS LocalConfig, TLAPS

-----------------------------------------------------------------------------
(* The inductive invariant *)

\* Where the threads can be.
Phases ==
    /\ gLocalRunning <=> host \notin {"off", "closing"}
    /\ mspAfter # "none" => host \notin {"off", "closing"}
    /\ writing["msp"] # "no" => mspAfter # "none"
    /\ writing["host"] # "no" => host \in {"flush", "closing"}
    /\ gLocalPathPending => gLocalPendingEepromPath # NONE

\* As long as no write has run into the other thread's EEPROM work, the MSP
\* thread writes only while the host thread is not at the EEPROM.
Apart == writing["msp"] # "no" => host \in {"idle", "step", "pass", "apply"}

\* The handle is at the selected file, and closed while another is selected.
HandleAtEnv ==
    /\ handle \in {NONE, env}
    /\ host \in {"off", "switch", "open"} => handle = NONE

\* The aircraft in RAM is the selected one, but for the time from the switch to
\* the load; the mixer is set up from it, but for the time until it is applied;
\* the image is that of the aircraft in RAM until the file is opened.
OwnersAgree ==
    /\ host \notin {"open", "validate", "load"} \/ ~work.switched => pg.owner = env
    /\ host \notin {"validate", "load", "apply"} => derived = pg.owner
    /\ eepromData # NONE => eepromData.owner = IF host = "open" THEN pg.owner ELSE env
    /\ \A p \in Paths : file[p] # NONE => file[p].owner = p

\* What there is to load.  Only an aircraft without a file has no image.
Loadable ==
    /\ host \notin {"off", "open", "validate"} => file[env] # NONE /\ eepromData # NONE
    /\ host = "open" => IF work.fresh THEN file[env] = NONE /\ eepromData = NONE
                                      ELSE file[env] # NONE
    /\ host = "validate" => eepromData = NONE /\ handle = env

Files == HandleAtEnv /\ Loadable

ConfigInv ==
    /\ TypeOK /\ Phases
    /\ overlapped \/ (Apart /\ Files)
    /\ overlapped \/ carried \/ OwnersAgree
-----------------------------------------------------------------------------
(* Configurations *)

\* A configuration that is edited, pinned or reset is one, and keeps its owner.
LEMMA ConfigEdits ==
    /\ \A c \in Config, r \in 0 .. MaxEdits :
          [c EXCEPT !.rev = r] \in Config /\ [c EXCEPT !.rev = r].owner = c.owner
    /\ \A c \in Config, r \in 0 .. MaxEdits, b \in BOOLEAN :
          /\ [c EXCEPT !.rev = r, !.pinned = IF b THEN @ ELSE FALSE] \in Config
          /\ [c EXCEPT !.rev = r, !.pinned = IF b THEN @ ELSE FALSE].owner = c.owner
    /\ \A c \in Config : Pinned(c) \in Config /\ Pinned(c).owner = c.owner
    /\ \A p \in Paths : Default(p) \in Config /\ Default(p).owner = p
    /\ \A c \in Config : c # NONE /\ c.owner \in Paths /\ c.rev \in 0 .. MaxEdits
<1> USE ConfigConstants DEF ConfigConstants
<1>1. \A c \in Config, r \in 0 .. MaxEdits :
          [c EXCEPT !.rev = r] \in Config /\ [c EXCEPT !.rev = r].owner = c.owner
  BY DEF Config
<1>2. \A c \in Config, r \in 0 .. MaxEdits, b \in BOOLEAN :
          /\ [c EXCEPT !.rev = r, !.pinned = IF b THEN @ ELSE FALSE] \in Config
          /\ [c EXCEPT !.rev = r, !.pinned = IF b THEN @ ELSE FALSE].owner = c.owner
  BY DEF Config
<1>3. \A c \in Config : Pinned(c) \in Config /\ Pinned(c).owner = c.owner
  BY DEF Config, Pinned
<1>4. \A p \in Paths : Default(p) \in Config /\ Default(p).owner = p
  BY DEF Config, Default
<1>5. \A c \in Config : c # NONE /\ c.owner \in Paths /\ c.rev \in 0 .. MaxEdits
  BY DEF Config
<1>6. QED
  BY <1>1, <1>2, <1>3, <1>4, <1>5

\* The inductive invariant holds at start.
LEMMA ConfigInit == Init => ConfigInv
<1> SUFFICES ASSUME Init PROVE ConfigInv
  OBVIOUS
<1> USE ConfigConstants DEF ConfigConstants, Init
<1>1. PICK s \in Starts :
        /\ file = [p \in Paths |-> IF p \in s.missing THEN NONE ELSE Default(p)]
        /\ edits = s.edits /\ requests = s.requests /\ boots = s.boots
  BY Zenon
<1>2. /\ pg \in Config /\ pg.owner = BootPath /\ file \in [Paths -> Config \cup {NONE}]
      /\ \A p \in Paths : file[p] # NONE => file[p].owner = p
  BY <1>1, ConfigEdits
<1>3. edits \in 0 .. MaxEdits /\ requests \in 0 .. MaxRequests /\ boots \in 0 .. MaxBoots
  BY <1>1
<1>4. TypeOK
  <2>1. /\ derived \in Paths /\ asked \in Paths \X (0 .. MaxEdits)
        /\ eepromData = NONE /\ handle = NONE /\ env \in Paths
    OBVIOUS
  <2>2. /\ gLocalPathPending \in BOOLEAN /\ gLocalReloadPending \in BOOLEAN
        /\ gLocalRebootPending \in BOOLEAN /\ gLocalRepinPending \in BOOLEAN
        /\ gLocalPendingReset \in BOOLEAN /\ gLocalPendingEepromWrite \in BOOLEAN
        /\ gLocalRunning \in BOOLEAN /\ armed \in BOOLEAN
        /\ overlapped \in BOOLEAN /\ carried \in BOOLEAN
    BY Zenon
  <2>3. /\ gLocalPendingEepromPath = NONE
        /\ host = "off" /\ mspAfter = "none"
        /\ work \in [kind : {"none", "reload", "reboot"}, switched : BOOLEAN, fresh : BOOLEAN]
        /\ writing \in [{"host", "msp"} -> {"no", "begin", "copy", "lock"}]
    BY DEF NoWork
  <2>4. QED
    BY <1>2, <1>3, <2>1, <2>2, <2>3 DEF TypeOK
<1>5. Phases /\ Apart /\ Files /\ OwnersAgree
  BY <1>2 DEF Phases, Apart, Files, HandleAtEnv, OwnersAgree, Loadable
<1>6. QED
  BY <1>4, <1>5 DEF ConfigInv

-----------------------------------------------------------------------------
(* Types *)

\* TypeOK in four parts: the configurations and files, the requests, the
\* threads, and the bounds with the history.
Stores ==
    /\ pg \in Config /\ derived \in Paths
    /\ eepromData \in Config \cup {NONE} /\ file \in [Paths -> Config \cup {NONE}]
    /\ handle \in Paths \cup {NONE} /\ env \in Paths

Flags ==
    /\ gLocalPathPending \in BOOLEAN /\ gLocalReloadPending \in BOOLEAN
    /\ gLocalRebootPending \in BOOLEAN /\ gLocalRepinPending \in BOOLEAN
    /\ gLocalPendingReset \in BOOLEAN /\ gLocalPendingEepromWrite \in BOOLEAN
    /\ gLocalRunning \in BOOLEAN /\ armed \in BOOLEAN
    /\ overlapped \in BOOLEAN /\ carried \in BOOLEAN

Places ==
    /\ gLocalPendingEepromPath \in Paths \cup {NONE}
    /\ host \in {"off", "idle", "step", "flush", "switch", "open", "validate", "load", "apply",
                 "pass", "closing"}
    /\ work \in [kind : {"none", "reload", "reboot"}, switched : BOOLEAN, fresh : BOOLEAN]
    /\ mspAfter \in {"none", "done", "repin", "reboot"}
    /\ writing \in [{"host", "msp"} -> {"no", "begin", "copy", "lock"}]

Counts ==
    /\ edits \in 0 .. MaxEdits /\ requests \in 0 .. MaxRequests /\ boots \in 0 .. MaxBoots
    /\ asked \in Paths \X (0 .. MaxEdits)

\* The type invariant in four parts.
LEMMA TypeParts ==
    /\ TypeOK <=> Stores /\ Flags /\ Places /\ Counts
    /\ TypeOK' <=> Stores' /\ Flags' /\ Places' /\ Counts'
BY Zenon DEF TypeOK, Stores, Flags, Places, Counts

\* Starting, and doing, a writeEEPROM keeps the types.
LEMMA WriteTypes ==
    ASSUME TypeOK, NEW t \in {"host", "msp"}
    PROVE  /\ StartWrite(t) => writing' \in [{"host", "msp"} -> {"no", "begin", "copy", "lock"}]
           /\ \A u \in {"host", "msp"} : StartWrite(t) /\ u # t => writing'[u] = writing[u]
           /\ writeEEPROM(t) => TypeOK'
<1>1. StartWrite(t) => writing' \in [{"host", "msp"} -> {"no", "begin", "copy", "lock"}]
  BY DEF TypeOK, StartWrite
<1>2. \A u \in {"host", "msp"} : StartWrite(t) /\ u # t => writing'[u] = writing[u]
  BY DEF TypeOK, StartWrite
<1>3. ASSUME writeEEPROM(t) PROVE TypeOK'
  <2>1. /\ UNCHANGED <<pg, derived, env, flags, gLocalRunning, host, work, mspAfter, armed,
                     bounds, history>>
        /\ writing' \in [{"host", "msp"} -> {"no", "begin", "copy", "lock"}]
    BY <1>3 DEF TypeOK, writeEEPROM
  <2>2. /\ eepromData' \in Config \cup {NONE} /\ handle' \in Paths \cup {NONE}
        /\ file' \in [Paths -> Config \cup {NONE}]
    BY <1>3 DEF TypeOK, writeEEPROM, configUnlock, configLock
  <2>3. QED
    BY <2>1, <2>2 DEF TypeOK, flags, bounds, history
<1>4. QED
  BY <1>1, <1>2, <1>3

\* The steps of the host keep the types.
LEMMA TypeHost ==
    ASSUME TypeOK, Phases, Host PROVE TypeOK'
<1> USE DEF flags, flash, bounds, history
<1>0. ConfigEdits!1 /\ ConfigEdits!3 /\ ConfigEdits!4 /\ ConfigEdits!5
  BY ConfigEdits
<1>1. ASSUME NEW p \in Paths, sitl_local_set_eeprom_path(p) PROVE TypeOK'
  BY <1>1, ConfigConstants DEF ConfigConstants, sitl_local_set_eeprom_path, TypeOK
<1>2. CASE sitl_local_reload_config
  BY <1>2, ConfigConstants DEF ConfigConstants, sitl_local_reload_config, TypeOK
<1>3. CASE DeferredEdit
  <2>1. edits' \in 0 .. MaxEdits
    BY <1>3, ConfigConstants DEF ConfigConstants, DeferredEdit, NextEdit, TypeOK
  <2>2. pg' \in Config /\ asked' \in Paths \X (0 .. MaxEdits)
    BY <1>0, <1>3, <2>1 DEF DeferredEdit, TypeOK
  <2>3. QED
    BY <1>3, <2>1, <2>2 DEF DeferredEdit, TypeOK
<1>4. CASE EnterStep
  <2>1. pg' \in Config
    BY <1>0, <1>4 DEF EnterStep, Repinned, TypeOK
  <2>2. Stores'
    BY <1>4, <2>1, TypeParts DEF EnterStep, Stores
  <2>3. Flags'
    BY <1>4, TypeParts, Zenon DEF EnterStep, Flags
  <2>4. Places' /\ Counts'
    BY <1>4, TypeParts DEF EnterStep, Places, Counts
  <2>5. QED
    BY <2>2, <2>3, <2>4, TypeParts
<1>5. ASSUME NEW kind \in {"reboot", "reload"}, Begin(kind), pg' = pg,
             gLocalRepinPending' = gLocalRepinPending, gLocalRebootPending' \in BOOLEAN
      PROVE  TypeOK'
  <2>1. writing' \in [{"host", "msp"} -> {"no", "begin", "copy", "lock"}]
    BY <1>5, WriteTypes DEF Begin
  <2>2. work' \in [kind : {"none", "reload", "reboot"}, switched : BOOLEAN, fresh : BOOLEAN]
    BY <1>5 DEF Begin, NoWork
  <2>3. overlapped' \in BOOLEAN
    BY <1>5, Zenon DEF Begin, TypeOK
  <2>4. Stores' /\ Counts'
    BY <1>5, TypeParts DEF Begin, Stores, Counts
  <2>5. Flags'
    BY <1>5, <2>3, TypeParts, Zenon DEF Begin, Flags
  <2>6. Places'
    BY <1>5, <2>1, <2>2, TypeParts DEF Begin, Places
  <2>7. QED
    BY <2>4, <2>5, <2>6, TypeParts
<1>6. CASE StartReboot
  BY <1>5, <1>6 DEF StartReboot
<1>7. CASE StartReload
  BY <1>5, <1>7 DEF StartReload, TypeOK
<1>8. CASE StartPass
  BY <1>8 DEF StartPass, NoWork, TypeOK
<1>9. CASE Flushed
  BY <1>9 DEF Flushed, configLock, TypeOK
<1>10. CASE Switch
  <2> DEFINE fresh == gLocalPathPending /\ file[gLocalPendingEepromPath] = NONE
  <2>1. /\ host' = "open" /\ gLocalPathPending' = FALSE
        /\ work' = [work EXCEPT !.switched = gLocalPathPending, !.fresh = fresh]
        /\ eepromData' = IF fresh THEN NONE ELSE eepromData
        /\ env' = IF gLocalPathPending THEN gLocalPendingEepromPath ELSE env
        /\ UNCHANGED <<pg, derived, file, handle, gLocalPendingEepromPath, gLocalReloadPending,
                   gLocalRebootPending, gLocalRepinPending, gLocalPendingReset,
                   gLocalPendingEepromWrite, gLocalRunning, mspAfter, writing, armed,
                   bounds, history>>
    BY <1>10 DEF Switch
  <2>2. fresh \in BOOLEAN /\ gLocalPathPending \in BOOLEAN
    BY Zenon DEF TypeOK
  <2> HIDE DEF fresh
  <2>3. work' \in [kind : {"none", "reload", "reboot"}, switched : BOOLEAN, fresh : BOOLEAN]
    BY <2>1, <2>2 DEF TypeOK
  <2>4. env' \in Paths /\ eepromData' \in Config \cup {NONE}
    <3>1. gLocalPathPending => gLocalPendingEepromPath \in Paths
      BY DEF TypeOK, Phases
    <3>2. env \in Paths /\ eepromData \in Config \cup {NONE}
      BY DEF TypeOK
    <3>3. QED
      BY <2>1, <3>1, <3>2
  <2>5. Stores'
    BY <2>1, <2>4, TypeParts DEF Stores
  <2>6. Flags'
    BY <2>1, TypeParts, Zenon DEF Flags
  <2>7. Places' /\ Counts'
    BY <2>1, <2>3, TypeParts DEF Places, Counts
  <2>8. QED
    BY <2>5, <2>6, <2>7, TypeParts
<1>11. CASE OpenFile
  <2>1. /\ host' \in {"validate", "pass", "load"}
        /\ UNCHANGED <<pg, derived, env, flags, gLocalRunning, work, mspAfter, writing, armed, bounds, history>>
    BY <1>11 DEF OpenFile
  <2>2. /\ eepromData' \in Config \cup {NONE} /\ handle' \in Paths \cup {NONE}
        /\ file' \in [Paths -> Config \cup {NONE}]
    BY <1>11 DEF TypeOK, OpenFile, configUnlock
  <2>3. QED
    BY <2>1, <2>2 DEF TypeOK
<1>12. CASE Validate
  <2>1. /\ pg' \in Config
        /\ eepromData' \in Config \cup {NONE} /\ handle' \in Paths \cup {NONE}
        /\ file' \in [Paths -> Config \cup {NONE}]
    BY <1>0, <1>12 DEF Validate, TypeOK
  <2>2. QED
    BY <1>12, <2>1 DEF Validate, TypeOK
<1>13. CASE Load
  BY <1>13 DEF Load, TypeOK
<1>14. CASE Apply
  BY <1>0, <1>14 DEF Apply, TypeOK
<1>15. CASE SchedulerPass
  BY <1>15 DEF SchedulerPass, NoWork, TypeOK
<1>16. CASE sitl_local_shutdown
  <2>1. writing' \in [{"host", "msp"} -> {"no", "begin", "copy", "lock"}]
    BY <1>16, WriteTypes DEF sitl_local_shutdown
  <2>2. /\ gLocalRunning' = FALSE /\ host' = "closing" /\ gLocalPendingEepromWrite' = FALSE
        /\ UNCHANGED <<pg, derived, flash, env, gLocalPathPending, gLocalPendingEepromPath,
                   gLocalReloadPending, gLocalRebootPending, gLocalRepinPending,
                   gLocalPendingReset, work, mspAfter, armed, bounds, history>>
    BY <1>16 DEF sitl_local_shutdown
  <2>3. Stores' /\ Counts'
    BY <2>2, TypeParts DEF Stores, Counts
  <2>4. Flags'
    BY <2>2, TypeParts, Zenon DEF Flags
  <2>5. Places'
    BY <2>1, <2>2, TypeParts DEF Places
  <2>6. QED
    BY <2>3, <2>4, <2>5, TypeParts
<1>17. CASE ShutdownFlushed
  BY <1>17 DEF ShutdownFlushed, configLock, TypeOK
<1>18. CASE sitl_local_init
  <2> DEFINE p == IF gLocalPathPending THEN gLocalPendingEepromPath ELSE env
             image == IF file[p] # NONE THEN file[p]
                      ELSE IF eepromData # NONE THEN eepromData ELSE Default(p)
  <2>1. p \in Paths
    BY DEF TypeOK, Phases
  <2>2. image \in Config
    BY <1>0, <2>1 DEF TypeOK
  <2>3. /\ env' = p /\ handle' \in {NONE, p}
        /\ file' = [file EXCEPT ![p] = image]
        /\ eepromData' = image /\ pg' = Pinned(image)
        /\ derived' = image.owner
    BY <1>18 DEF sitl_local_init
  <2>4. /\ gLocalPathPending' = FALSE /\ gLocalPendingEepromPath' = NONE
        /\ gLocalReloadPending' = FALSE /\ gLocalRebootPending' = FALSE
        /\ gLocalRepinPending' = FALSE /\ gLocalPendingReset' = FALSE
        /\ gLocalPendingEepromWrite' = FALSE
        /\ gLocalRunning' = TRUE /\ host' = "idle" /\ armed' = FALSE
        /\ boots < MaxBoots /\ boots' = boots + 1
        /\ UNCHANGED <<work, mspAfter, writing, edits, requests, asked, overlapped>>
    BY <1>18 DEF sitl_local_init
  <2>5. carried' \in BOOLEAN
    BY <1>18, Zenon DEF sitl_local_init, TypeOK
  <2> HIDE DEF p, image
  <2>6. /\ pg' \in Config /\ derived' \in Paths
        /\ file' \in [Paths -> Config \cup {NONE}]
    BY <1>0, <2>1, <2>2, <2>3 DEF TypeOK
  <2>7. boots' \in 0 .. MaxBoots
    BY <2>4, ConfigConstants DEF TypeOK, ConfigConstants
  <2>8. QED
    BY <2>1, <2>2, <2>3, <2>4, <2>5, <2>6, <2>7 DEF TypeOK
<1>19. QED
  BY <1>1, <1>2, <1>3, <1>4, <1>6, <1>7, <1>8, <1>9, <1>10, <1>11, <1>12, <1>13, <1>14,
     <1>15, <1>16, <1>17, <1>18 DEF Host

\* The steps of the MSP thread keep the types.
LEMMA TypeMsp ==
    ASSUME TypeOK, Msp PROVE TypeOK'
<1> USE DEF flags, flash, bounds, history
<1>1. CASE MspEdit
  <2>1. edits' \in 0 .. MaxEdits
    BY <1>1, ConfigConstants DEF ConfigConstants, MspEdit, NextEdit, TypeOK
  <2>2. PICK keep \in BOOLEAN :
          pg' = [pg EXCEPT !.rev = edits', !.pinned = IF keep THEN @ ELSE FALSE]
    BY <1>1 DEF MspEdit
  <2>3. pg' \in Config
    BY <2>1, <2>2, ConfigEdits DEF TypeOK
  <2>4. QED
    BY <1>1, <2>1, <2>3 DEF MspEdit, NextEdit, TypeOK
<1>2. ASSUME NEW after \in {"done", "repin", "reboot"}, MspWrite(after),
             gLocalPendingReset' \in BOOLEAN, gLocalPendingEepromWrite' \in BOOLEAN,
             requests' \in 0 .. MaxRequests
      PROVE  TypeOK'
  <2>1. writing' \in [{"host", "msp"} -> {"no", "begin", "copy", "lock"}]
    BY <1>2, WriteTypes DEF MspWrite
  <2>2. overlapped' \in BOOLEAN
    BY <1>2, Zenon DEF MspWrite, TypeOK
  <2>3. QED
    BY <1>2, <2>1, <2>2 DEF MspWrite, TypeOK
<1>3. CASE sitlMspWriteEEPROM
  BY <1>2, <1>3 DEF sitlMspWriteEEPROM, TypeOK
<1>4. CASE sitlSystemReset
  BY <1>2, <1>4, ConfigConstants DEF sitlSystemReset, TypeOK, ConfigConstants
<1>5. CASE TakeReset
  BY <1>2, <1>5 DEF TakeReset, TypeOK
<1>6. CASE TakeEepromWrite
  BY <1>2, <1>6 DEF TakeEepromWrite, TypeOK
<1>7. CASE systemReset
  <2>1. gLocalPendingEepromWrite' \in BOOLEAN
    BY <1>7, Zenon DEF systemReset, TypeOK
  <2>2. requests' \in 0 .. MaxRequests
    BY <1>7, ConfigConstants DEF systemReset, TypeOK, ConfigConstants
  <2>3. /\ gLocalPendingReset' = TRUE /\ armed' = FALSE /\ gLocalRebootPending' = TRUE
        /\ UNCHANGED <<pg, derived, flash, env, gLocalPathPending, gLocalPendingEepromPath,
                   gLocalReloadPending, gLocalRepinPending, gLocalRunning, host, work,
                   mspAfter, writing, edits, boots, history>>
    BY <1>7 DEF systemReset, RequestReboot
  <2>4. Stores'
    BY <2>3, TypeParts DEF Stores
  <2>5. Flags'
    BY <2>1, <2>3, TypeParts, Zenon DEF Flags
  <2>6. Places' /\ Counts'
    BY <2>2, <2>3, TypeParts DEF Places, Counts
  <2>7. QED
    BY <2>4, <2>5, <2>6, TypeParts
<1>8. CASE AfterWrite
  <2>1. gLocalRepinPending' \in BOOLEAN
    BY <1>8, Zenon DEF AfterWrite, TypeOK
  <2>2. armed' \in BOOLEAN /\ gLocalRebootPending' \in BOOLEAN
    BY <1>8 DEF AfterWrite, RequestReboot, TypeOK
  <2>3. QED
    BY <1>8, <2>1, <2>2 DEF AfterWrite, TypeOK
<1>9. QED
  BY <1>1, <1>3, <1>4, <1>5, <1>6, <1>7, <1>8 DEF Msp

\* Every step keeps the types.
LEMMA TypeNext == TypeOK /\ Phases /\ Next => TypeOK'
<1> SUFFICES ASSUME TypeOK, Phases, Next PROVE TypeOK'
  OBVIOUS
<1>1. CASE Host
  BY <1>1, TypeHost
<1>2. CASE Msp
  BY <1>2, TypeMsp
<1>3. ASSUME NEW t \in {"host", "msp"}, writeEEPROM(t) PROVE TypeOK'
  BY <1>3, WriteTypes
<1>4. QED
  BY <1>1, <1>2, <1>3 DEF Next

-----------------------------------------------------------------------------
(* Where the threads are *)

\* A write of one thread advances that thread's write alone.
LEMMA WriteAlone ==
    ASSUME TypeOK, NEW t \in {"host", "msp"}, writeEEPROM(t)
    PROVE  /\ writing[t] # "no"
           /\ \A u \in {"host", "msp"} : writing'[u] # "no" => writing[u] # "no"
BY DEF writeEEPROM, TypeOK

\* The steps of the host keep the threads in their phases.
LEMMA PhasesHost ==
    ASSUME TypeOK, Phases, Host PROVE Phases'
<1> USE DEF flags, flash, bounds, history
<1>1. ASSUME NEW p \in Paths, sitl_local_set_eeprom_path(p) PROVE Phases'
  BY <1>1, ConfigConstants DEF ConfigConstants, sitl_local_set_eeprom_path, Phases
<1>2. CASE sitl_local_reload_config
  BY <1>2 DEF sitl_local_reload_config, Phases
<1>3. CASE DeferredEdit
  BY <1>3 DEF DeferredEdit, Phases
<1>4. CASE EnterStep
  BY <1>4 DEF EnterStep, Phases
<1>5. ASSUME NEW kind, Begin(kind), host = "step" PROVE Phases'
  <2>1. writing'["msp"] = writing["msp"]
    BY <1>5, WriteTypes DEF Begin
  <2>2. QED
    BY <1>5, <2>1 DEF Begin, Phases
<1>6. CASE StartReboot
  BY <1>5, <1>6 DEF StartReboot
<1>7. CASE StartReload
  BY <1>5, <1>7 DEF StartReload
<1>8. CASE StartPass
  BY <1>8 DEF StartPass, Phases
<1>9. CASE Flushed
  BY <1>9 DEF Flushed, Written, Phases
<1>10. CASE Switch
  BY <1>10 DEF Switch, Phases
<1>11. CASE OpenFile
  <2>1. host = "open" /\ host' \in {"validate", "pass", "load"}
    BY <1>11 DEF OpenFile
  <2>2. QED
    BY <1>11, <2>1 DEF OpenFile, Phases
<1>12. CASE Validate
  BY <1>12 DEF Validate, Phases
<1>13. CASE Load
  BY <1>13 DEF Load, Phases
<1>14. CASE Apply
  BY <1>14 DEF Apply, Phases
<1>15. CASE SchedulerPass
  BY <1>15 DEF SchedulerPass, Phases
<1>16. CASE sitl_local_shutdown
  <2>1. writing'["msp"] = "no"
    BY <1>16, WriteTypes DEF sitl_local_shutdown, Phases
  <2>2. QED
    BY <1>16, <2>1 DEF sitl_local_shutdown, Phases
<1>17. CASE ShutdownFlushed
  BY <1>17 DEF ShutdownFlushed, Written, Phases
<1>18. CASE sitl_local_init
  BY <1>18 DEF sitl_local_init, Phases
<1>19. QED
  BY <1>1, <1>2, <1>3, <1>4, <1>6, <1>7, <1>8, <1>9, <1>10, <1>11, <1>12, <1>13, <1>14,
     <1>15, <1>16, <1>17, <1>18 DEF Host

\* The steps of the MSP thread keep the threads in their phases.
LEMMA PhasesMsp ==
    ASSUME TypeOK, Phases, Msp PROVE Phases'
<1> USE DEF flags, flash, bounds, history
<1>1. CASE MspEdit
  BY <1>1 DEF MspEdit, Phases
<1>2. ASSUME NEW after \in {"done", "repin", "reboot"}, MspWrite(after) PROVE Phases'
  <2>1. gLocalRunning /\ host' = host /\ mspAfter' = after
    BY <1>2 DEF MspWrite
  <2>2. writing'["host"] = writing["host"]
    BY <1>2, WriteTypes DEF MspWrite
  <2>3. QED
    BY <1>2, <2>1, <2>2 DEF MspWrite, Phases
<1>3. CASE sitlMspWriteEEPROM
  BY <1>2, <1>3 DEF sitlMspWriteEEPROM
<1>4. CASE sitlSystemReset
  BY <1>2, <1>4 DEF sitlSystemReset
<1>5. CASE TakeReset
  BY <1>2, <1>5 DEF TakeReset
<1>6. CASE TakeEepromWrite
  BY <1>2, <1>6 DEF TakeEepromWrite
<1>7. CASE systemReset
  BY <1>7 DEF systemReset, Phases
<1>8. CASE AfterWrite
  BY <1>8 DEF AfterWrite, Written, Phases
<1>9. QED
  BY <1>1, <1>3, <1>4, <1>5, <1>6, <1>7, <1>8 DEF Msp

\* Every step keeps the threads in their phases.
LEMMA PhasesNext == TypeOK /\ Phases /\ Next => Phases'
<1> SUFFICES ASSUME TypeOK, Phases, Next PROVE Phases'
  OBVIOUS
<1>1. CASE Host
  BY <1>1, PhasesHost
<1>2. CASE Msp
  BY <1>2, PhasesMsp
<1>3. ASSUME NEW t \in {"host", "msp"}, writeEEPROM(t) PROVE Phases'
  BY <1>3, WriteAlone DEF writeEEPROM, Phases, flags
<1>4. QED
  BY <1>1, <1>2, <1>3 DEF Next

\* Neither kind of accident is ever forgotten.
LEMMA Remembered ==
    ASSUME TypeOK, Next
    PROVE  (overlapped => overlapped') /\ (carried => carried')
<1> USE DEF history
<1>1. CASE Host
  <2>1. ASSUME UNCHANGED history PROVE (overlapped => overlapped') /\ (carried => carried')
    BY <2>1
  <2>2. ASSUME NEW p \in Paths, sitl_local_set_eeprom_path(p) PROVE UNCHANGED history
    BY <2>2 DEF sitl_local_set_eeprom_path
  <2>3. CASE \/ sitl_local_reload_config \/ EnterStep \/ StartPass \/ Flushed \/ Switch
             \/ OpenFile \/ Validate
    BY <2>1, <2>3
       DEF sitl_local_reload_config, EnterStep, StartPass, Flushed, Switch, OpenFile, Validate
  <2>4. CASE \/ Load \/ Apply \/ SchedulerPass \/ sitl_local_shutdown \/ ShutdownFlushed
    BY <2>1, <2>4 DEF Load, Apply, SchedulerPass, sitl_local_shutdown, ShutdownFlushed
  <2>5. CASE DeferredEdit
    BY <2>5 DEF DeferredEdit
  <2>6. CASE StartReboot \/ StartReload
    <3>1. overlapped' = (overlapped \/ ~Written("msp")) /\ carried' = carried
      BY <2>6 DEF StartReboot, StartReload, Begin
    <3>2. QED
      BY <3>1, Zenon
  <2>7. CASE sitl_local_init
    <3>1. overlapped' = overlapped
      BY <2>7 DEF sitl_local_init
    <3>2. carried => carried'
      BY <2>7, Zenon DEF sitl_local_init
    <3>3. QED
      BY <3>1, <3>2
  <2>8. QED
    BY <1>1, <2>1, <2>2, <2>3, <2>4, <2>5, <2>6, <2>7, Zenon DEF Host
<1>2. CASE Msp
  <2>1. CASE MspEdit \/ systemReset \/ AfterWrite
    <3>1. MspEdit => UNCHANGED history
      BY DEF MspEdit
    <3>2. systemReset => UNCHANGED history
      BY DEF systemReset
    <3>3. AfterWrite => UNCHANGED history
      BY DEF AfterWrite
    <3>4. QED
      BY <2>1, <3>1, <3>2, <3>3
  <2>2. ASSUME NEW after, MspWrite(after)
        PROVE  (overlapped => overlapped') /\ (carried => carried')
    <3>1. /\ overlapped' = (overlapped \/ (AtEeprom /\ pg # eepromData))
          /\ carried' = carried
      BY <2>2 DEF MspWrite
    <3>2. QED
      BY <3>1, Zenon
  <2>3. QED
    BY <1>2, <2>1, <2>2
       DEF Msp, sitlMspWriteEEPROM, sitlSystemReset, TakeReset, TakeEepromWrite
<1>3. ASSUME NEW t \in {"host", "msp"}, writeEEPROM(t)
      PROVE  (overlapped => overlapped') /\ (carried => carried')
  BY <1>3 DEF writeEEPROM
<1>4. QED
  BY <1>1, <1>2, <1>3 DEF Next

\* While nothing overlaps, the MSP thread's writes keep clear of the host's
\* EEPROM work.
LEMMA ApartNext ==
    ASSUME TypeOK, Phases, Apart, Next, ~overlapped' PROVE Apart'
<1> USE DEF flags, flash, bounds, history
<1>1. ASSUME UNCHANGED <<host, writing>> PROVE Apart'
  BY <1>1 DEF Apart
<1>2. ASSUME writing' = writing, host' \in {"idle", "step", "pass", "apply"} PROVE Apart'
  BY <1>2 DEF Apart
<1>3. ASSUME writing' = writing,
             host \in {"off", "flush", "switch", "open", "validate", "load", "closing"}
      PROVE  Apart'
  BY <1>3 DEF Apart
<1>4. ASSUME StartWrite("host"), writing["msp"] = "no" PROVE Apart'
  BY <1>4, WriteTypes DEF Apart
<1>5. CASE Host
  <2>1. ASSUME NEW p \in Paths, sitl_local_set_eeprom_path(p) PROVE Apart'
    BY <1>1, <2>1 DEF sitl_local_set_eeprom_path
  <2>2. CASE sitl_local_reload_config \/ DeferredEdit
    BY <1>1, <2>2 DEF sitl_local_reload_config, DeferredEdit
  <2>3. CASE EnterStep \/ StartPass \/ Load \/ Apply \/ SchedulerPass
    BY <1>2, <2>3 DEF EnterStep, StartPass, Load, Apply, SchedulerPass
  <2>4. CASE StartReboot \/ StartReload
    <3>1. StartWrite("host") /\ overlapped' = (overlapped \/ ~Written("msp"))
      BY <2>4 DEF StartReboot, StartReload, Begin
    <3>2. Written("msp")
      BY <3>1, Zenon
    <3>3. QED
      BY <1>4, <3>1, <3>2 DEF Written
  <2>5. CASE Flushed \/ Switch \/ OpenFile \/ Validate \/ ShutdownFlushed \/ sitl_local_init
    BY <1>3, <2>5 DEF Flushed, Switch, OpenFile, Validate, ShutdownFlushed, sitl_local_init
  <2>6. CASE sitl_local_shutdown
    <3>1. StartWrite("host") /\ writing["msp"] = "no"
      BY <2>6 DEF sitl_local_shutdown, Phases
    <3>2. QED
      BY <1>4, <3>1
  <2>7. QED
    BY <1>5, <2>1, <2>2, <2>3, <2>4, <2>5, <2>6 DEF Host
<1>6. CASE Msp
  <2>1. CASE MspEdit \/ systemReset \/ AfterWrite
    BY <1>1, <2>1 DEF MspEdit, systemReset, AfterWrite
  <2>2. ASSUME NEW after, MspWrite(after) PROVE Apart'
    <3>1. /\ host' = host /\ gLocalRunning /\ StartWrite("msp")
          /\ overlapped' = (overlapped \/ (AtEeprom /\ pg # eepromData))
      BY <2>2 DEF MspWrite
    <3>2. ~(AtEeprom /\ pg # eepromData)
      BY <3>1, Zenon
    <3>3. CASE pg = eepromData
      BY <3>1, <3>3 DEF StartWrite, Apart, TypeOK
    <3>4. CASE ~AtEeprom
      BY <3>1, <3>4 DEF AtEeprom, Apart, Phases, TypeOK
    <3>5. QED
      BY <3>2, <3>3, <3>4
  <2>3. QED
    BY <1>6, <2>1, <2>2
       DEF Msp, sitlMspWriteEEPROM, sitlSystemReset, TakeReset, TakeEepromWrite
<1>7. ASSUME NEW t \in {"host", "msp"}, writeEEPROM(t) PROVE Apart'
  BY <1>7, WriteAlone DEF writeEEPROM, Apart
<1>8. QED
  BY <1>5, <1>6, <1>7 DEF Next

-----------------------------------------------------------------------------
(* Which file is open and what there is to load *)

\* A step that leaves the files, the image and the handle alone, and does not
\* enter or leave the time in which they are brought together.
LEMMA FilesFrame ==
    ASSUME Files, UNCHANGED <<eepromData, file, handle, env>>,
           \/ UNCHANGED <<host, work>>
           \/ /\ host  \notin {"off", "switch", "open", "validate", "load"}
              /\ host' \notin {"off", "switch", "open", "validate", "load"}
    PROVE  Files'
BY DEF Files, HandleAtEnv, Loadable

\* Where the writes are, and what the steps of a write do.
LEMMA WriteSteps ==
    ASSUME TypeOK, Phases, Apart, Files, NEW t \in {"host", "msp"}, writeEEPROM(t)
    PROVE  /\ host \in {"idle", "step", "pass", "apply", "flush", "closing"}
           /\ UNCHANGED <<pg, derived, env, host, work, edits, asked, gLocalPendingEepromWrite>>
           /\ \A u \in {"host", "msp"} : u # t => writing[u] = "no" /\ writing'[u] = "no"
           /\ file[env] # NONE /\ eepromData # NONE /\ handle' \in {NONE, env}
           /\ eepromData' \in {eepromData, file[env], pg}
           /\ \A p \in Paths : file'[p] = file[p] \/ (p = env /\ file'[p] = eepromData)
<1>1. /\ host \in {"idle", "step", "pass", "apply", "flush", "closing"}
      /\ \A u \in {"host", "msp"} : u # t => writing[u] = "no"
  BY WriteAlone DEF Phases, Apart
<1>2. /\ UNCHANGED <<pg, derived, env, host, work, edits, asked, gLocalPendingEepromWrite>>
      /\ \A u \in {"host", "msp"} : u # t => writing'[u] = "no"
  BY <1>1 DEF writeEEPROM, bounds, flags, history, TypeOK
<1>3. file[env] # NONE /\ eepromData # NONE /\ handle \in {NONE, env} /\ env \in Paths
  BY <1>1 DEF Files, Loadable, HandleAtEnv, TypeOK
<1>4. /\ handle' \in {NONE, env} /\ eepromData' \in {eepromData, file[env], pg}
      /\ \A p \in Paths : file'[p] = file[p] \/ (p = env /\ file'[p] = eepromData)
  <2>1. CASE writing[t] = "begin" /\ configUnlock(eepromData)
    BY <1>3, <2>1 DEF configUnlock
  <2>2. CASE writing[t] = "copy" /\ eepromData' = pg /\ UNCHANGED <<file, handle>>
    BY <1>3, <2>2
  <2>3. CASE writing[t] = "lock" /\ configLock
    BY <1>3, <2>3 DEF configLock, TypeOK
  <2>4. QED
    BY <2>1, <2>2, <2>3 DEF writeEEPROM
<1>5. QED
  BY <1>1, <1>2, <1>3, <1>4

\* The steps of the host keep the handle at the selected file.
LEMMA FilesHost ==
    ASSUME TypeOK, Phases, Files, Host PROVE Files'
<1> USE DEF flags, flash, bounds, history
<1>0. env \in Paths /\ pg # NONE /\ \A p \in Paths : Default(p) # NONE
  BY ConfigEdits DEF TypeOK
<1>1. ASSUME NEW p \in Paths, sitl_local_set_eeprom_path(p) PROVE Files'
  BY <1>1, FilesFrame DEF sitl_local_set_eeprom_path
<1>2. CASE sitl_local_reload_config
  BY <1>2, FilesFrame DEF sitl_local_reload_config
<1>3. CASE DeferredEdit
  BY <1>3, FilesFrame DEF DeferredEdit
<1>4. CASE EnterStep
  BY <1>4, FilesFrame DEF EnterStep
<1>5. CASE StartReboot
  BY <1>5, FilesFrame DEF StartReboot, Begin
<1>6. CASE StartReload
  BY <1>6, FilesFrame DEF StartReload, Begin
<1>7. CASE StartPass
  BY <1>7, FilesFrame DEF StartPass
<1>8. ASSUME host \in {"flush", "closing"}, host' \in {"switch", "off"}, configLock,
             UNCHANGED <<env, work>>
      PROVE  Files'
  <2>1. /\ \A p \in Paths : file'[p] = IF p = handle THEN eepromData ELSE file[p]
        /\ handle' = NONE /\ eepromData' = eepromData
    BY <1>8, ConfigConstants DEF configLock, TypeOK, ConfigConstants
  <2>2. eepromData # NONE /\ file[env] # NONE
    BY <1>8 DEF Files, Loadable
  <2>3. QED
    BY <1>0, <1>8, <2>1, <2>2 DEF Files, HandleAtEnv, Loadable
<1>9. CASE Flushed
  BY <1>8, <1>9 DEF Flushed
<1>10. CASE Switch
  <2> DEFINE fresh == gLocalPathPending /\ file[gLocalPendingEepromPath] = NONE
  <2>1. /\ host = "switch" /\ host' = "open"
        /\ work' = [work EXCEPT !.switched = gLocalPathPending, !.fresh = fresh]
        /\ eepromData' = IF fresh THEN NONE ELSE eepromData
        /\ env' = IF gLocalPathPending THEN gLocalPendingEepromPath ELSE env
        /\ UNCHANGED <<file, handle>>
    BY <1>10 DEF Switch
  <2>2. work'.fresh = fresh
    BY <2>1, Zenon DEF TypeOK
  <2>3. handle = NONE /\ file[env] # NONE
    BY <2>1 DEF Files, HandleAtEnv, Loadable
  <2>4. IF fresh THEN file'[env'] = NONE /\ eepromData' = NONE ELSE file'[env'] # NONE
    BY <2>1, <2>3
  <2>5. QED
    BY <2>1, <2>2, <2>3, <2>4 DEF Files, HandleAtEnv, Loadable
<1>11. CASE OpenFile
  <2>1. /\ host = "open" /\ handle = NONE /\ handle' = env
        /\ host' = IF work.fresh THEN "validate"
                    ELSE IF eepromData' = eepromData THEN "pass" ELSE "load"
        /\ eepromData' = IF file[env] # NONE THEN file[env] ELSE eepromData
        /\ file[env] # NONE => file' = file
        /\ UNCHANGED <<env, work>>
    BY <1>11 DEF OpenFile, configUnlock, Files, HandleAtEnv
  <2>2. CASE work.fresh
    <3>1. host' = "validate" /\ eepromData' = NONE
      BY <2>1, <2>2 DEF Files, Loadable
    <3>2. QED
      BY <2>1, <3>1 DEF Files, HandleAtEnv, Loadable
  <2>3. CASE ~work.fresh
    <3>1. file[env] # NONE /\ host' \in {"pass", "load"}
      BY <2>1, <2>3 DEF Files, Loadable
    <3>2. QED
      BY <2>1, <3>1 DEF Files, HandleAtEnv, Loadable
  <2>4. QED
    BY <2>2, <2>3
<1>12. CASE Validate
  <2>1. eepromData = NONE /\ handle = env /\ host = "validate" /\ handle # NONE
    BY <1>0, <1>12, ConfigConstants DEF Validate, Files, Loadable, ConfigConstants
  <2>2. /\ eepromData' = Default(env) /\ handle' = NONE
        /\ file'[env] = Default(env) /\ host' = "load" /\ UNCHANGED <<env, work>>
    BY <1>0, <1>12, <2>1 DEF Validate, TypeOK
  <2>3. QED
    BY <1>0, <2>2 DEF Files, HandleAtEnv, Loadable
<1>13. CASE Load
  BY <1>13 DEF Load, Files, HandleAtEnv, Loadable
<1>14. CASE Apply
  BY <1>14, FilesFrame DEF Apply
<1>15. CASE SchedulerPass
  BY <1>15, FilesFrame DEF SchedulerPass
<1>16. CASE sitl_local_shutdown
  BY <1>16, FilesFrame DEF sitl_local_shutdown
<1>17. CASE ShutdownFlushed
  BY <1>8, <1>17 DEF ShutdownFlushed
<1>18. CASE sitl_local_init
  <2> DEFINE p == IF gLocalPathPending THEN gLocalPendingEepromPath ELSE env
             image == IF file[p] # NONE THEN file[p]
                      ELSE IF eepromData # NONE THEN eepromData ELSE Default(p)
  <2>1. p \in Paths
    BY DEF TypeOK, Phases
  <2>2. /\ host' = "idle" /\ env' = p /\ handle' \in {NONE, p}
        /\ file' = [file EXCEPT ![p] = image] /\ eepromData' = image
    BY <1>18 DEF sitl_local_init
  <2>3. image # NONE
    BY <1>0, <2>1
  <2>4. file'[p] = image
    BY <2>1, <2>2 DEF TypeOK
  <2> HIDE DEF p, image
  <2>5. QED
    BY <2>2, <2>3, <2>4 DEF Files, HandleAtEnv, Loadable
<1>19. QED
  BY <1>1, <1>2, <1>3, <1>4, <1>5, <1>6, <1>7, <1>9, <1>10, <1>11, <1>12, <1>13,
     <1>14, <1>15, <1>16, <1>17, <1>18 DEF Host

\* So do the steps of the MSP thread, and those of a write.
LEMMA FilesNext ==
    ASSUME TypeOK, Phases, Apart, Files, Next PROVE Files'
<1> USE DEF flash, bounds, history
<1>1. CASE Host
  BY <1>1, FilesHost
<1>2. CASE Msp
  <2>1. MspEdit => Files'
    BY FilesFrame DEF MspEdit
  <2>2. ASSUME NEW after, MspWrite(after) PROVE Files'
    BY <2>2, FilesFrame DEF MspWrite
  <2>3. systemReset => Files'
    BY FilesFrame DEF systemReset
  <2>4. AfterWrite => Files'
    BY FilesFrame DEF AfterWrite
  <2>5. QED
    BY <1>2, <2>1, <2>2, <2>3, <2>4
       DEF Msp, sitlMspWriteEEPROM, sitlSystemReset, TakeReset, TakeEepromWrite
<1>3. ASSUME NEW t \in {"host", "msp"}, writeEEPROM(t) PROVE Files'
  <2>1. pg # NONE /\ env \in Paths
    BY ConfigEdits DEF TypeOK
  <2>2. QED
    BY <1>3, <2>1, WriteSteps DEF Files, HandleAtEnv, Loadable
<1>4. QED
  BY <1>1, <1>2, <1>3 DEF Next

-----------------------------------------------------------------------------
(* Whose configuration is where *)

\* A step that leaves the files, the image and the aircraft in RAM alone, and
\* does not enter or leave the time in which they are brought together.
LEMMA OwnersFrame ==
    ASSUME OwnersAgree, UNCHANGED <<eepromData, file, env>>, pg'.owner = pg.owner,
           \/ derived' = pg.owner
           \/ derived' = derived /\ (host' = host \/ host # "apply"),
           \/ UNCHANGED <<host, work>>
           \/ /\ host  \notin {"off", "switch", "open", "validate", "load"}
              /\ host' \notin {"off", "switch", "open", "validate", "load"}
              /\ work'.switched => work.switched
           \/ /\ host  \notin {"switch", "open", "validate", "load"}
              /\ host' \notin {"switch", "open", "validate", "load"}
              /\ UNCHANGED work
    PROVE  OwnersAgree'
BY DEF OwnersAgree

\* The steps of the host keep files, image and records with their aircraft.
LEMMA OwnersHost ==
    ASSUME TypeOK, Phases, Files, OwnersAgree, Host, ~carried' PROVE OwnersAgree'
<1> USE DEF flags, flash, bounds, history
<1>0. /\ \A p \in Paths : Default(p) # NONE /\ Default(p).owner = p
      /\ pg \in Config /\ Pinned(pg).owner = pg.owner /\ env \in Paths
      /\ NoWork.switched = FALSE
  BY ConfigEdits DEF TypeOK, NoWork
<1>1. ASSUME NEW p \in Paths, sitl_local_set_eeprom_path(p) PROVE OwnersAgree'
  BY <1>1, OwnersFrame DEF sitl_local_set_eeprom_path
<1>2. CASE sitl_local_reload_config
  BY <1>2, OwnersFrame DEF sitl_local_reload_config
<1>3. CASE DeferredEdit
  <2>1. edits' \in 0 .. MaxEdits
    BY <1>3, TypeHost DEF Host, TypeOK
  <2>2. pg'.owner = pg.owner
    BY <1>0, <1>3, <2>1, ConfigEdits DEF DeferredEdit
  <2>3. QED
    BY <1>3, <2>2, OwnersFrame DEF DeferredEdit
<1>4. CASE EnterStep
  BY <1>0, <1>4, OwnersFrame DEF EnterStep, Repinned
<1>5. ASSUME NEW kind, Begin(kind), host = "step", pg' = pg PROVE OwnersAgree'
  <2>1. work'.switched = FALSE
    BY <1>5 DEF Begin, NoWork
  <2>2. QED
    BY <1>5, <2>1, OwnersFrame DEF Begin
<1>6. CASE StartReboot \/ StartReload
  BY <1>5, <1>6 DEF StartReboot, StartReload
<1>7. CASE StartPass
  BY <1>0, <1>7, OwnersFrame DEF StartPass
<1>8. ASSUME host \in {"flush", "closing"}, host' \in {"switch", "off"}, configLock,
             UNCHANGED <<pg, derived, env, work>>
      PROVE  OwnersAgree'
  <2>1. /\ \A p \in Paths : file'[p] = IF p = handle THEN eepromData ELSE file[p]
        /\ eepromData' = eepromData
    BY <1>8, ConfigConstants DEF configLock, TypeOK, ConfigConstants
  <2>2. eepromData # NONE /\ eepromData.owner = env /\ handle \in {NONE, env}
    BY <1>8 DEF Files, HandleAtEnv, Loadable, OwnersAgree
  <2>3. QED
    BY <1>0, <1>8, <2>1, <2>2, ConfigConstants DEF OwnersAgree, ConfigConstants
<1>9. CASE Flushed
  BY <1>8, <1>9 DEF Flushed
<1>10. CASE Switch
  <2> DEFINE fresh == gLocalPathPending /\ file[gLocalPendingEepromPath] = NONE
  <2>1. /\ host = "switch" /\ host' = "open"
        /\ work' = [work EXCEPT !.switched = gLocalPathPending, !.fresh = fresh]
        /\ eepromData' = IF fresh THEN NONE ELSE eepromData
        /\ env' = IF gLocalPathPending THEN gLocalPendingEepromPath ELSE env
        /\ UNCHANGED <<pg, derived, file>>
    BY <1>10 DEF Switch
  <2>2. work'.switched = gLocalPathPending
    BY <2>1, Zenon DEF TypeOK
  <2>3. pg.owner = env /\ derived = pg.owner /\ eepromData.owner = env
    BY <2>1 DEF OwnersAgree, Files, Loadable
  <2>4. ~work'.switched => pg'.owner = env'
    BY <2>1, <2>2, <2>3
  <2>5. QED
    BY <2>1, <2>3, <2>4 DEF OwnersAgree
<1>11. CASE OpenFile
  <2>1. /\ host = "open" /\ handle = NONE /\ handle' = env
        /\ host' = IF work.fresh THEN "validate"
                    ELSE IF eepromData' = eepromData THEN "pass" ELSE "load"
        /\ eepromData' = IF file[env] # NONE THEN file[env] ELSE eepromData
        /\ file[env] # NONE => file' = file
        /\ UNCHANGED <<pg, derived, env, work>>
    BY <1>11 DEF OpenFile, configUnlock, Files, HandleAtEnv
  <2>2. CASE work.fresh
    <3>1. file[env] = NONE /\ eepromData = NONE
      BY <2>1, <2>2 DEF Files, Loadable
    <3>2. \A p \in Paths : file'[p] = file[p]
      BY <1>11, <2>1, <3>1 DEF OpenFile, configUnlock, TypeOK
    <3>3. host' = "validate" /\ eepromData' = NONE
      BY <2>1, <2>2, <3>1
    <3>4. QED
      BY <1>0, <2>1, <3>2, <3>3 DEF OwnersAgree
  <2>3. CASE ~work.fresh
    <3>1. file[env] # NONE /\ file' = file /\ eepromData' = file[env]
      BY <2>1, <2>3 DEF Files, Loadable
    <3>2. file[env].owner = env
      BY <1>0, <3>1 DEF OwnersAgree
    <3>3. \/ host' = "pass" /\ pg.owner = env
          \/ host' = "load"
      BY <2>1, <2>3, <3>1, <3>2 DEF OwnersAgree
    <3>4. QED
      BY <2>1, <3>1, <3>2, <3>3 DEF OwnersAgree
  <2>4. QED
    BY <2>2, <2>3
<1>12. CASE Validate
  <2>1. eepromData = NONE /\ handle = env /\ host = "validate" /\ handle # NONE
    BY <1>0, <1>12, ConfigConstants DEF Validate, Files, Loadable, ConfigConstants
  <2>2. /\ pg' = Default(env) /\ eepromData' = Default(env)
        /\ \A p \in Paths : file'[p] = IF p = env THEN Default(env) ELSE file[p]
        /\ host' = "load" /\ UNCHANGED <<derived, env, work>>
    BY <1>12, <2>1 DEF Validate, TypeOK
  <2>3. QED
    BY <1>0, <2>2 DEF OwnersAgree
<1>13. CASE Load
  <2>1. host = "load" /\ host' = "apply" /\ UNCHANGED <<derived, flash, env, work>>
    BY <1>13 DEF Load
  <2>2. eepromData # NONE /\ eepromData.owner = env
    BY <2>1 DEF Files, OwnersAgree, Loadable
  <2>3. pg'.owner = env
    BY <1>13, <2>1, <2>2 DEF Load, OwnersAgree
  <2>4. QED
    BY <2>1, <2>2, <2>3 DEF OwnersAgree
<1>14. CASE Apply
  BY <1>0, <1>14, OwnersFrame DEF Apply
<1>15. CASE SchedulerPass
  BY <1>0, <1>15, OwnersFrame DEF SchedulerPass
<1>16. CASE sitl_local_shutdown
  BY <1>16, OwnersFrame DEF sitl_local_shutdown
<1>17. CASE ShutdownFlushed
  BY <1>8, <1>17 DEF ShutdownFlushed
<1>18. CASE sitl_local_init
  <2> DEFINE p == IF gLocalPathPending THEN gLocalPendingEepromPath ELSE env
             image == IF file[p] # NONE THEN file[p]
                      ELSE IF eepromData # NONE THEN eepromData ELSE Default(p)
  <2>1. p \in Paths
    BY DEF TypeOK, Phases
  <2>2. /\ host' = "idle" /\ env' = p /\ file' = [file EXCEPT ![p] = image]
        /\ eepromData' = image /\ pg' = Pinned(image) /\ derived' = image.owner
        /\ carried' = (carried \/ (file[p] = NONE /\ eepromData # NONE))
    BY <1>18 DEF sitl_local_init
  <2>3. file[p] # NONE \/ eepromData = NONE
    BY <2>2, Zenon
  <2>4. image \in Config /\ image # NONE /\ image.owner = p
    <3>1. CASE file[p] # NONE
      <4>1. image = file[p] /\ file[p] \in Config
        BY <2>1, <3>1 DEF TypeOK
      <4>2. QED
        BY <2>1, <3>1, <4>1 DEF OwnersAgree
    <3>2. CASE file[p] = NONE
      <4>1. image = Default(p)
        BY <2>3, <3>2
      <4>2. QED
        BY <2>1, <4>1, ConfigEdits
    <3>3. QED
      BY <3>1, <3>2
  <2>5. \A q \in Paths : file'[q] = IF q = p THEN image ELSE file[q]
    BY <2>1, <2>2 DEF TypeOK
  <2> HIDE DEF p, image
  <2>6. pg'.owner = p
    BY <2>2, <2>4, ConfigEdits
  <2>7. QED
    BY <2>1, <2>2, <2>4, <2>5, <2>6 DEF OwnersAgree
<1>19. QED
  BY <1>1, <1>2, <1>3, <1>4, <1>6, <1>7, <1>9, <1>10, <1>11, <1>12, <1>13,
     <1>14, <1>15, <1>16, <1>17, <1>18 DEF Host

\* So do the steps of the MSP thread, and those of a write.
LEMMA OwnersNext ==
    ASSUME TypeOK, TypeOK', Phases, Apart, Files, OwnersAgree, Next, ~carried'
    PROVE  OwnersAgree'
<1> USE DEF flash, bounds, history
<1>1. CASE Host
  BY <1>1, OwnersHost
<1>2. CASE Msp
  <2>1. CASE MspEdit
    <3>1. PICK keep \in BOOLEAN :
            pg' = [pg EXCEPT !.rev = edits', !.pinned = IF keep THEN @ ELSE FALSE]
      BY <2>1 DEF MspEdit
    <3>2. pg \in Config /\ edits' \in 0 .. MaxEdits
      BY DEF TypeOK
    <3>3. pg'.owner = pg.owner
      BY <3>1, <3>2 DEF Config
    <3>4. QED
      BY <2>1, <3>3, OwnersFrame DEF MspEdit
  <2>2. ASSUME NEW after, MspWrite(after) PROVE OwnersAgree'
    BY <2>2, OwnersFrame DEF MspWrite
  <2>3. systemReset => OwnersAgree'
    BY OwnersFrame DEF systemReset
  <2>4. AfterWrite => OwnersAgree'
    BY OwnersFrame DEF AfterWrite
  <2>5. QED
    BY <1>2, <2>1, <2>2, <2>3, <2>4
       DEF Msp, sitlMspWriteEEPROM, sitlSystemReset, TakeReset, TakeEepromWrite
<1>3. ASSUME NEW t \in {"host", "msp"}, writeEEPROM(t) PROVE OwnersAgree'
  <2>1. /\ host \in {"idle", "step", "pass", "apply", "flush", "closing"}
        /\ UNCHANGED <<pg, derived, env, host, work>>
        /\ file[env] # NONE /\ eepromData # NONE
        /\ eepromData' \in {eepromData, file[env], pg}
        /\ \A p \in Paths : file'[p] = file[p] \/ (p = env /\ file'[p] = eepromData)
    BY <1>3, WriteSteps
  <2>2. /\ pg.owner = env /\ eepromData.owner = env /\ file[env].owner = env
        /\ env \in Paths
    BY <2>1 DEF OwnersAgree, TypeOK
  <2>3. QED
    BY <2>1, <2>2 DEF OwnersAgree
<1>4. QED
  BY <1>1, <1>2, <1>3 DEF Next

-----------------------------------------------------------------------------
(* Theorems *)

\* The inductive invariant of the configuration life cycle.
THEOREM ConfigInvariance == Spec => []ConfigInv
<1>1. Init => ConfigInv
  BY ConfigInit
<1>2. ConfigInv /\ [Next]_vars => ConfigInv'
  <2> SUFFICES ASSUME ConfigInv, [Next]_vars PROVE ConfigInv'
    OBVIOUS
  <2>1. TypeOK /\ Phases
    BY DEF ConfigInv
  <2>2. CASE UNCHANGED vars
    BY <2>2 DEF vars, flash, flags, bounds, history, ConfigInv, TypeOK, Phases, Apart, Files,
                HandleAtEnv, OwnersAgree, Loadable
  <2>3. CASE Next
    <3>1. TypeOK' /\ Phases' /\ (overlapped => overlapped') /\ (carried => carried')
      BY <2>1, <2>3, TypeNext, PhasesNext, Remembered
    <3>2. overlapped' \/ (Apart /\ Files /\ Apart' /\ Files')
      BY <2>1, <2>3, <3>1, ApartNext, FilesNext DEF ConfigInv
    <3>3. overlapped' \/ carried' \/ OwnersAgree'
      BY <2>1, <2>3, <3>1, <3>2, OwnersNext DEF ConfigInv
    <3>4. QED
      BY <3>1, <3>2, <3>3 DEF ConfigInv
  <2>4. QED
    BY <2>2, <2>3
<1>3. QED
  BY <1>1, <1>2, PTL DEF Spec

\* Under whatever path switches, reloads, reboots, saves and boots of the two
\* threads, every EEPROM file holds a configuration of its own aircraft: what the
\* flush before a switch writes goes to the aircraft that is being left.  Only a
\* write that overlaps the other thread's EEPROM work, or a later boot that meets
\* a new aircraft, can put it elsewhere.
THEOREM EveryFileOfItsAircraft == Spec => []FileOfItsAircraft
<1>1. ConfigInv => FileOfItsAircraft
  BY DEF ConfigInv, OwnersAgree, FileOfItsAircraft
<1>2. QED
  BY <1>1, ConfigInvariance, PTL

\* The flight loop runs the aircraft whose file is selected, with a mixer set up
\* from its settings, unless one of the same two things has happened.
THEOREM SelectedIsFlown == Spec => []SelectedAircraftFlown
<1>1. ConfigInv => SelectedAircraftFlown
  BY DEF ConfigInv, OwnersAgree, SelectedAircraftFlown
<1>2. QED
  BY <1>1, ConfigInvariance, PTL

-----------------------------------------------------------------------------
(* Deferred edits: the safety half of DeferredEditPersists.                 *)

\* An edit whose write was deferred is in the file that was selected when it was
\* made; or that file is still selected, the edit is in RAM, and a write of the
\* records is asked for or on its way.
Saved      == file[asked[1]] # NONE /\ asked[2] <= file[asked[1]].rev
Waiting    == gLocalPendingEepromWrite /\ host \in {"idle", "step", "pass"}
Holds(t)   == \/ writing[t] \in {"begin", "copy"}
              \/ writing[t] = "lock" /\ asked[2] <= eepromData.rev
InHand     == /\ env = asked[1] /\ asked[2] <= pg.rev
              /\ Waiting \/ Holds("host") \/ Holds("msp")
Held       == asked[2] = 0 \/ Saved \/ InHand

\* Only a write that overlaps the other thread's EEPROM work can lose the edit.
DeferredEditIsHeld == overlapped \/ Held

\* A write that has opened the file holds it, and only between its copy and its
\* lock does the image of an opened file differ from the file.
ImageInv ==
    /\ \A t \in {"host", "msp"} : writing[t] \in {"copy", "lock"} => handle = env
    /\ host \notin {"off", "open"} /\ (\A t \in {"host", "msp"} : writing[t] # "lock")
          => eepromData = file[env]
    /\ host = "open" /\ ~work.switched => eepromData = file[env]
    /\ host \in {"validate", "load"} \/ (host = "open" /\ work.fresh) => work.switched

\* Edits are numbered; the file is no newer than the image, the image no newer
\* than the records, but for the time from the switch to the load.
AgeInv ==
    /\ pg.rev <= edits /\ (eepromData # NONE => eepromData.rev <= edits)
    /\ \A p \in Paths : file[p] # NONE => file[p].rev <= edits
    /\ host \notin {"off", "open", "validate", "load"} => file[env].rev <= eepromData.rev
    /\ host \notin {"off", "validate", "load"} /\ eepromData # NONE => eepromData.rev <= pg.rev

HeldInv == ImageInv /\ AgeInv /\ Held

\* The numbers of edits that are compared.
LEMMA Numbered ==
    ASSUME TypeOK
    PROVE  /\ pg.rev \in Nat /\ edits \in Nat
           /\ eepromData # NONE => eepromData.rev \in Nat
           /\ \A p \in Paths : file[p] # NONE => file[p].rev \in Nat
           /\ env \in Paths /\ asked[1] \in Paths /\ asked[2] \in Nat
BY ConfigConstants DEF ConfigConstants, TypeOK, Config

\* A step that leaves image, files and writers alone, and no request for a
\* write behind.
LEMMA HeldFrame ==
    ASSUME TypeOK, HeldInv, UNCHANGED <<eepromData, file, handle, env, writing, asked>>,
           pg'.rev \in Nat, edits' \in Nat,
           pg.rev <= pg'.rev, pg'.rev <= edits', edits <= edits',
           Waiting => Waiting',
           \/ UNCHANGED <<host, work>>
           \/ /\ host  \notin {"off", "open", "validate", "load"}
              /\ host' \notin {"off", "open", "validate", "load"}
    PROVE  HeldInv'
<1>1. /\ pg.rev \in Nat /\ edits \in Nat
      /\ eepromData # NONE => eepromData.rev \in Nat
      /\ \A p \in Paths : file[p] # NONE => file[p].rev \in Nat
      /\ env \in Paths /\ asked[1] \in Paths /\ asked[2] \in Nat
  BY Numbered
<1>2. ImageInv'
  BY DEF HeldInv, ImageInv
<1>3. AgeInv'
  BY <1>1, ConfigConstants DEF HeldInv, AgeInv, TypeOK
<1>4. Held'
  BY <1>1 DEF HeldInv, Held, Saved, InHand, Holds
<1>5. QED
  BY <1>2, <1>3, <1>4 DEF HeldInv

\* A thread that starts to write, while none is writing, has the edit in hand,
\* or finds that the records are in the file already.
LEMMA HeldStart ==
    ASSUME TypeOK, Loadable, HeldInv, NEW t \in {"host", "msp"}, StartWrite(t),
           \A u \in {"host", "msp"} : writing[u] = "no",
           host \notin {"off", "open", "validate", "load"},
           host' \notin {"off", "open", "validate", "load"},
           UNCHANGED <<pg, eepromData, file, handle, env, edits, asked>>
    PROVE  HeldInv'
<1>1. /\ pg.rev \in Nat /\ edits \in Nat
      /\ eepromData # NONE => eepromData.rev \in Nat
      /\ \A p \in Paths : file[p] # NONE => file[p].rev \in Nat
      /\ env \in Paths /\ asked[1] \in Paths /\ asked[2] \in Nat
  BY Numbered
<1>2. writing'[t] = (IF pg = eepromData THEN "no" ELSE "begin")
      /\ \A u \in {"host", "msp"} : u # t => writing'[u] = "no"
  BY DEF StartWrite, TypeOK
<1>3. eepromData = file[env]
  BY DEF HeldInv, ImageInv
<1>4. ImageInv'
  BY <1>2, <1>3 DEF ImageInv
<1>5. AgeInv'
  BY DEF HeldInv, AgeInv
<1>6. Held'
  <2>1. CASE asked[2] = 0 \/ Saved
    BY <2>1 DEF Held, Saved
  <2>2. CASE InHand /\ pg = eepromData
    <3>1. file[env] # NONE
      BY <1>1 DEF Loadable
    <3>2. asked[1] = env /\ asked[2] <= file[env].rev
      BY <1>3, <2>2, <3>1 DEF InHand
    <3>3. Saved'
      BY <3>1, <3>2 DEF Saved
    <3>4. QED
      BY <3>3 DEF Held
  <2>3. CASE InHand /\ pg # eepromData
    <3>1. writing'[t] = "begin"
      BY <1>2, <2>3
    <3>2. Holds("host")' \/ Holds("msp")'
      BY <3>1 DEF Holds
    <3>3. InHand'
      BY <2>3, <3>2 DEF InHand
    <3>4. QED
      BY <3>3 DEF Held
  <2>4. QED
    BY <2>1, <2>2, <2>3 DEF HeldInv, Held
<1>7. QED
  BY <1>4, <1>5, <1>6 DEF HeldInv

\* Where no write waits and none is under way, the edit is in its file.
LEMMA NothingInHand ==
    ASSUME HeldInv, host \notin {"idle", "step", "pass"},
           writing["host"] = "no", writing["msp"] = "no"
    PROVE  asked[2] = 0 \/ Saved
BY DEF HeldInv, Held, InHand, Waiting, Holds

\* The steps of a write carry the edit from the records to the file.
LEMMA HeldWrite ==
    ASSUME TypeOK, Phases, Apart, Files, HeldInv, NEW t \in {"host", "msp"}, writeEEPROM(t)
    PROVE  HeldInv'
<1>1. /\ pg.rev \in Nat /\ edits \in Nat
      /\ eepromData # NONE => eepromData.rev \in Nat
      /\ \A p \in Paths : file[p] # NONE => file[p].rev \in Nat
      /\ env \in Paths /\ asked[1] \in Paths /\ asked[2] \in Nat
  BY Numbered
<1>2. host \in {"idle", "step", "pass", "apply", "flush", "closing"}
  BY WriteSteps
<1>3. /\ UNCHANGED <<pg, env, host, work, edits, asked, gLocalPendingEepromWrite>>
      /\ \A u \in {"host", "msp"} : u # t => writing[u] = "no" /\ writing'[u] = "no"
  BY WriteSteps
<1>4. /\ file[env] # NONE /\ eepromData # NONE
      /\ env \in Paths /\ pg \in Config /\ pg # NONE /\ handle \in {NONE, env} /\ env # NONE
  BY <1>2, ConfigEdits, ConfigConstants
     DEF Files, Loadable, HandleAtEnv, TypeOK, ConfigConstants
<1>5. CASE writing[t] = "begin"
  <2>1. eepromData = file[env]
    BY <1>2, <1>3, <1>5 DEF HeldInv, ImageInv
  <2>2. handle' = env /\ file' = file /\ eepromData' = eepromData /\ writing'[t] = "copy"
    BY <1>4, <1>5, <2>1 DEF writeEEPROM, configUnlock, TypeOK
  <2>3. ImageInv'
    BY <1>2, <1>3, <2>1, <2>2 DEF ImageInv
  <2>4. AgeInv'
    BY <1>3, <2>2 DEF HeldInv, AgeInv
  <2>5. Held'
    BY <1>3, <1>5, <2>2 DEF HeldInv, Held, Saved, InHand, Waiting, Holds
  <2>6. QED
    BY <2>3, <2>4, <2>5 DEF HeldInv
<1>6. CASE writing[t] = "copy"
  <2>1. eepromData' = pg /\ file' = file /\ handle' = handle /\ writing'[t] = "lock"
    BY <1>6 DEF writeEEPROM, TypeOK
  <2>2. handle = env
    BY <1>6 DEF HeldInv, ImageInv
  <2>3. ImageInv'
    BY <1>2, <1>3, <2>1, <2>2 DEF ImageInv
  <2>4. AgeInv'
    <3>1. file[env].rev <= eepromData.rev /\ eepromData.rev <= pg.rev
      BY <1>2, <1>4 DEF HeldInv, AgeInv
    <3>2. file[env].rev <= pg.rev
      BY <1>1, <1>4, <3>1
    <3>3. QED
      BY <1>1, <1>2, <1>3, <2>1, <3>2 DEF HeldInv, AgeInv
  <2>5. Held'
    BY <1>3, <1>4, <1>6, <2>1 DEF HeldInv, Held, Saved, InHand, Waiting, Holds
  <2>6. QED
    BY <2>3, <2>4, <2>5 DEF HeldInv
<1>7. CASE writing[t] = "lock"
  <2>1. handle = env
    BY <1>7 DEF HeldInv, ImageInv
  <2>2. /\ \A p \in Paths : file'[p] = IF p = env THEN eepromData ELSE file[p]
        /\ eepromData' = eepromData /\ writing'[t] = "no"
    BY <1>4, <1>7, <2>1 DEF writeEEPROM, configLock, TypeOK
  <2>3. ImageInv'
    BY <1>2, <1>3, <1>4, <2>2 DEF ImageInv
  <2>4. file[env].rev <= eepromData.rev /\ eepromData.rev <= pg.rev
    BY <1>2, <1>4 DEF HeldInv, AgeInv
  <2>5. AgeInv'
    <3>1. eepromData.rev <= edits
      BY <1>1, <1>4, <2>4 DEF HeldInv, AgeInv
    <3>2. QED
      BY <1>1, <1>2, <1>3, <1>4, <2>2, <2>4, <3>1 DEF HeldInv, AgeInv
  <2>6. Held'
    <3>1. CASE asked[2] = 0
      BY <1>3, <3>1 DEF Held
    <3>2. CASE Saved
      <4>1. file'[asked[1]] # NONE /\ asked[2] <= file'[asked[1]].rev
        BY <1>1, <1>4, <2>2, <2>4, <3>2 DEF Saved
      <4>2. QED
        BY <1>3, <4>1 DEF Held, Saved
    <3>3. CASE InHand /\ Waiting
      BY <1>3, <3>3 DEF Held, InHand, Waiting
    <3>4. CASE InHand /\ ~Waiting
      <4>1. Holds(t)
        BY <1>3, <3>4 DEF InHand, Holds
      <4>2. asked[2] <= eepromData.rev
        BY <1>7, <4>1 DEF Holds
      <4>3. asked[1] = env
        BY <3>4 DEF InHand
      <4>4. file'[asked[1]] = eepromData
        BY <1>1, <2>2, <4>3
      <4>5. QED
        BY <1>3, <1>4, <4>2, <4>4 DEF Held, Saved
    <3>5. QED
      BY <3>1, <3>2, <3>3, <3>4 DEF HeldInv, Held
  <2>7. QED
    BY <2>3, <2>5, <2>6 DEF HeldInv
<1>8. QED
  BY <1>5, <1>6, <1>7 DEF writeEEPROM

\* Closing the file while no write is under way changes no file.
LEMMA HeldClose ==
    ASSUME TypeOK, Files, HeldInv, configLock,
           host \in {"flush", "closing"}, host' \in {"switch", "off"},
           \A u \in {"host", "msp"} : writing[u] = "no",
           UNCHANGED <<pg, env, work, writing, edits, asked>>
    PROVE  HeldInv'
<1>1. eepromData = file[env] /\ handle \in {NONE, env} /\ env # NONE
  BY ConfigConstants DEF HeldInv, ImageInv, Files, HandleAtEnv, TypeOK, ConfigConstants
<1>2. UNCHANGED <<file, eepromData>>
  BY <1>1 DEF configLock, TypeOK
<1>3. asked[2] = 0 \/ Saved
  BY NothingInHand
<1>4. ImageInv'
  BY <1>1, <1>2 DEF HeldInv, ImageInv
<1>5. AgeInv'
  BY <1>2 DEF HeldInv, AgeInv
<1>6. Held'
  BY <1>2, <1>3 DEF Held, Saved
<1>7. QED
  BY <1>4, <1>5, <1>6 DEF HeldInv

\* An edit, a pinning or a reset of the records and the number it leaves.
LEMMA EditNumbers ==
    /\ \A c \in Config, r \in 0 .. MaxEdits : [c EXCEPT !.rev = r].rev = r
    /\ \A c \in Config, r \in 0 .. MaxEdits, b \in BOOLEAN :
          [c EXCEPT !.rev = r, !.pinned = IF b THEN @ ELSE FALSE].rev = r
    /\ \A c \in Config : Pinned(c).rev = c.rev
    /\ \A p \in Paths : Default(p).rev = 0
BY DEF Config, Pinned, Default

\* The steps of the host keep a deferred edit in the file or in hand.
LEMMA HeldHost ==
    ASSUME TypeOK, TypeOK', Phases, Apart, Files, HeldInv, Host, ~overlapped'
    PROVE  HeldInv'
<1> USE DEF flags, flash, bounds, history
<1>0. /\ pg.rev \in Nat /\ edits \in Nat
      /\ eepromData # NONE => eepromData.rev \in Nat
      /\ \A p \in Paths : file[p] # NONE => file[p].rev \in Nat
      /\ env \in Paths /\ asked[1] \in Paths /\ asked[2] \in Nat
  BY Numbered
<1>a. pg \in Config /\ Pinned(pg).rev = pg.rev
  BY EditNumbers DEF TypeOK
<1>b. pg.rev <= edits
  BY DEF HeldInv, AgeInv
<1>1. ASSUME NEW p \in Paths, sitl_local_set_eeprom_path(p) PROVE HeldInv'
  BY <1>0, <1>b, <1>1, HeldFrame DEF sitl_local_set_eeprom_path, Waiting
<1>2. CASE sitl_local_reload_config
  BY <1>0, <1>b, <1>2, HeldFrame DEF sitl_local_reload_config, Waiting
<1>3. CASE DeferredEdit
  <2>1. /\ host \in {"idle", "pass"} /\ gLocalPendingEepromWrite' = TRUE
        /\ edits' = edits + 1 /\ pg' = [pg EXCEPT !.rev = edits'] /\ asked' = <<env, edits'>>
        /\ UNCHANGED <<eepromData, file, handle, env, host, work, writing>>
    BY <1>3 DEF DeferredEdit, NextEdit
  <2>2. pg'.rev = edits'
    <3>1. edits' \in 0 .. MaxEdits
      BY DEF TypeOK
    <3>2. QED
      BY <1>a, <2>1, <3>1, EditNumbers
  <2>3. ImageInv'
    BY <2>1 DEF HeldInv, ImageInv
  <2>4. AgeInv'
    <3>1. \A p \in Paths : file[p] # NONE => file[p].rev <= edits + 1
      BY <1>0 DEF HeldInv, AgeInv
    <3>2. file[env].rev <= eepromData.rev /\ (eepromData # NONE => eepromData.rev <= pg.rev)
      BY <2>1 DEF HeldInv, AgeInv
    <3>3. eepromData # NONE => eepromData.rev <= edits + 1
      BY <1>0, <1>b, <3>2
    <3>4. edits' <= edits'
      BY <1>0, <2>1
    <3>5. QED
      BY <2>1, <2>2, <3>1, <3>2, <3>3, <3>4 DEF AgeInv
  <2>5. InHand'
    <3>1. asked'[1] = env /\ asked'[2] = edits' /\ edits' <= edits'
      BY <1>0, <2>1
    <3>2. QED
      BY <2>1, <2>2, <3>1 DEF InHand, Waiting
  <2>6. QED
    BY <2>3, <2>4, <2>5 DEF HeldInv, Held
<1>4. CASE EnterStep
  <2>1. pg'.rev = pg.rev
    BY <1>a, <1>4 DEF EnterStep, Repinned
  <2>2. QED
    BY <1>0, <1>b, <1>4, <2>1, HeldFrame DEF EnterStep, Waiting
<1>5. ASSUME NEW kind, Begin(kind), host = "step", pg' = pg PROVE HeldInv'
  <2>1. overlapped' = (overlapped \/ ~Written("msp"))
    BY <1>5 DEF Begin
  <2>2. Written("msp")
    BY <2>1, Zenon
  <2>3. \A u \in {"host", "msp"} : writing[u] = "no"
    BY <1>5, <2>2 DEF Written, Phases
  <2>4. QED
    BY <1>5, <2>3, HeldStart DEF Begin, Files
<1>6. CASE StartReboot
  BY <1>5, <1>6 DEF StartReboot
<1>7. CASE StartReload
  BY <1>5, <1>7 DEF StartReload
<1>8. CASE StartPass
  BY <1>0, <1>b, <1>8, HeldFrame DEF StartPass, Waiting
<1>9. CASE Flushed
  <2>1. \A u \in {"host", "msp"} : writing[u] = "no"
    BY <1>9 DEF Flushed, Written, Apart
  <2>2. QED
    BY <1>9, <2>1, HeldClose DEF Flushed
<1>10. CASE Switch
  <2> DEFINE fresh == gLocalPathPending /\ file[gLocalPendingEepromPath] = NONE
  <2>1. /\ host = "switch" /\ host' = "open"
        /\ work' = [work EXCEPT !.switched = gLocalPathPending, !.fresh = fresh]
        /\ eepromData' = IF fresh THEN NONE ELSE eepromData
        /\ env' = IF gLocalPathPending THEN gLocalPendingEepromPath ELSE env
        /\ UNCHANGED <<pg, file, handle, writing, edits, asked>>
    BY <1>10 DEF Switch
  <2>2. work'.switched = gLocalPathPending /\ work'.fresh = fresh
    BY <2>1, Zenon DEF TypeOK
  <2>3. \A u \in {"host", "msp"} : writing[u] = "no"
    BY <2>1 DEF Phases, Apart
  <2>4. eepromData = file[env] /\ (eepromData # NONE => eepromData.rev <= pg.rev)
    BY <2>1, <2>3 DEF HeldInv, ImageInv, AgeInv
  <2>5. asked[2] = 0 \/ Saved
    BY <2>1, <2>3, NothingInHand
  <2>6. ImageInv'
    <3>1. ~gLocalPathPending => eepromData' = file'[env']
      BY <2>1, <2>4
    <3>2. fresh => gLocalPathPending
      OBVIOUS
    <3> HIDE DEF fresh
    <3>3. QED
      BY <2>1, <2>2, <2>3, <3>1, <3>2 DEF ImageInv
  <2>7. AgeInv'
    BY <2>1, <2>4 DEF HeldInv, AgeInv
  <2>8. Held'
    BY <2>1, <2>5 DEF Held, Saved
  <2>9. QED
    BY <2>6, <2>7, <2>8 DEF HeldInv
<1>11. CASE OpenFile
  <2>1. /\ host = "open" /\ handle = NONE /\ handle' = env
        /\ host' = IF work.fresh THEN "validate"
                    ELSE IF eepromData' = eepromData THEN "pass" ELSE "load"
        /\ eepromData' = IF file[env] # NONE THEN file[env] ELSE eepromData
        /\ file[env] # NONE => file' = file
        /\ UNCHANGED <<pg, env, work, writing, edits, asked>>
    BY <1>11 DEF OpenFile, configUnlock, Files, HandleAtEnv
  <2>2. \A u \in {"host", "msp"} : writing[u] = "no"
    BY <2>1 DEF Phases, Apart
  <2>3. asked[2] = 0 \/ Saved
    BY <2>1, <2>2, NothingInHand
  <2>4. /\ file' = file /\ eepromData' = file[env]
        /\ work.fresh => eepromData' = NONE
        /\ ~work.fresh => file[env] # NONE
    <3>1. CASE work.fresh
      <4>1. file[env] = NONE /\ eepromData = NONE
        BY <2>1, <3>1 DEF Files, Loadable
      <4>2. file' = file
        BY <1>11, <2>1, <4>1 DEF OpenFile, configUnlock, TypeOK
      <4>3. QED
        BY <2>1, <3>1, <4>1, <4>2
    <3>2. CASE ~work.fresh
      BY <2>1, <3>2 DEF Files, Loadable
    <3>3. QED
      BY <3>1, <3>2
  <2>5. host' \in {"validate", "load"} => work.switched
    <3>1. work.fresh => work.switched
      BY <2>1 DEF HeldInv, ImageInv
    <3>2. ~work.switched => eepromData = file[env]
      BY <2>1 DEF HeldInv, ImageInv
    <3>3. QED
      BY <2>1, <2>4, <3>1, <3>2
  <2>6. ImageInv'
    BY <2>1, <2>2, <2>4, <2>5 DEF ImageInv
  <2>7. AgeInv'
    <3>1. \/ host' \in {"validate", "load"}
          \/ host' = "pass" /\ eepromData' = eepromData /\ file[env] # NONE
      <4>1. CASE work.fresh
        BY <2>1, <4>1
      <4>2. CASE ~work.fresh
        BY <2>1, <2>4, <4>2
      <4>3. QED
        BY <4>1, <4>2
    <3>2. eepromData # NONE => eepromData.rev <= pg.rev
      BY <2>1 DEF HeldInv, AgeInv
    <3>3. CASE host' \in {"validate", "load"}
      <4>1. eepromData' # NONE => eepromData'.rev <= edits
        BY <1>0, <2>4 DEF HeldInv, AgeInv
      <4>2. QED
        BY <2>1, <2>4, <3>3, <4>1 DEF HeldInv, AgeInv
    <3>4. CASE host' = "pass" /\ eepromData' = eepromData /\ file[env] # NONE
      <4>1. file'[env'] = eepromData' /\ eepromData'.rev <= eepromData'.rev
        BY <1>0, <2>1, <2>4, <3>4
      <4>2. QED
        BY <2>1, <2>4, <3>2, <3>4, <4>1 DEF HeldInv, AgeInv
    <3>5. QED
      BY <3>1, <3>3, <3>4
  <2>8. Held'
    BY <2>1, <2>3, <2>4 DEF Held, Saved
  <2>9. QED
    BY <2>6, <2>7, <2>8 DEF HeldInv
<1>12. CASE Validate
  <2>1. eepromData = NONE /\ handle = env /\ host = "validate" /\ handle # NONE
    BY <1>0, <1>12, ConfigConstants DEF Validate, Files, Loadable, ConfigConstants
  <2>2. /\ pg' = Default(env) /\ eepromData' = Default(env)
        /\ \A p \in Paths : file'[p] = IF p = env THEN Default(env) ELSE file[p]
        /\ host' = "load" /\ UNCHANGED <<env, work, writing, edits, asked>>
    BY <1>12, <2>1 DEF Validate, TypeOK
  <2>3. \A u \in {"host", "msp"} : writing[u] = "no"
    BY <2>1 DEF Phases, Apart
  <2>4. file[env] = NONE /\ work.switched
    BY <2>1, <2>3 DEF HeldInv, ImageInv
  <2>5. Default(env).rev = 0 /\ 0 <= edits
    BY <1>0, EditNumbers
  <2>6. asked[2] = 0 \/ Saved
    BY <2>1, <2>3, NothingInHand
  <2>7. ImageInv'
    BY <1>0, <2>2, <2>3, <2>4 DEF ImageInv
  <2>8. AgeInv'
    BY <2>2, <2>5 DEF HeldInv, AgeInv
  <2>9. Held'
    BY <1>0, <2>2, <2>4, <2>6 DEF Held, Saved
  <2>10. QED
    BY <2>7, <2>8, <2>9 DEF HeldInv
<1>13. CASE Load
  <2>1. host = "load" /\ host' = "apply"
        /\ UNCHANGED <<eepromData, file, handle, env, work, writing, edits, asked>>
    BY <1>13 DEF Load
  <2>2. \A u \in {"host", "msp"} : writing[u] = "no"
    BY <2>1 DEF Phases, Apart
  <2>3. eepromData = file[env] /\ eepromData # NONE /\ work.switched
    BY <2>1, <2>2 DEF HeldInv, ImageInv, Files, Loadable
  <2>4. pg' = eepromData
    BY <1>13, <2>3 DEF Load
  <2>5. asked[2] = 0 \/ Saved
    BY <2>1, <2>2, NothingInHand
  <2>6. ImageInv'
    BY <2>1, <2>2, <2>3 DEF ImageInv
  <2>7. AgeInv'
    <3>1. file[env].rev <= edits /\ eepromData.rev <= eepromData.rev
      BY <1>0, <2>3 DEF HeldInv, AgeInv
    <3>2. QED
      BY <2>1, <2>3, <2>4, <3>1 DEF HeldInv, AgeInv
  <2>8. Held'
    BY <2>1, <2>5 DEF Held, Saved
  <2>9. QED
    BY <2>6, <2>7, <2>8 DEF HeldInv
<1>14. CASE Apply
  <2>1. pg'.rev = pg.rev
    BY <1>a, <1>14 DEF Apply
  <2>2. QED
    BY <1>0, <1>b, <1>14, <2>1, HeldFrame DEF Apply, Waiting
<1>15. CASE SchedulerPass
  BY <1>0, <1>b, <1>15, HeldFrame DEF SchedulerPass, Waiting
<1>16. CASE sitl_local_shutdown
  <2>1. \A u \in {"host", "msp"} : writing[u] = "no"
    BY <1>16 DEF sitl_local_shutdown, Phases
  <2>2. QED
    BY <1>16, <2>1, HeldStart DEF sitl_local_shutdown, Files
<1>17. CASE ShutdownFlushed
  <2>1. \A u \in {"host", "msp"} : writing[u] = "no"
    BY <1>17 DEF ShutdownFlushed, Written, Phases
  <2>2. QED
    BY <1>17, <2>1, HeldClose DEF ShutdownFlushed
<1>18. CASE sitl_local_init
  <2> DEFINE p == IF gLocalPathPending THEN gLocalPendingEepromPath ELSE env
             image == IF file[p] # NONE THEN file[p]
                      ELSE IF eepromData # NONE THEN eepromData ELSE Default(p)
  <2>1. p \in Paths
    BY DEF TypeOK, Phases
  <2>2. /\ host = "off" /\ host' = "idle" /\ env' = p
        /\ file' = [file EXCEPT ![p] = image]
        /\ eepromData' = image /\ pg' = Pinned(image)
        /\ boots < MaxBoots /\ UNCHANGED <<work, writing, edits, asked>>
    BY <1>18 DEF sitl_local_init
  <2>3. \A u \in {"host", "msp"} : writing[u] = "no"
    BY <2>2 DEF Phases, Apart
  <2>4. asked[2] = 0 \/ Saved
    BY <2>2, <2>3, NothingInHand
  <2>5. image \in {file[p], eepromData, Default(p)}
    OBVIOUS
  <2>6. image \in Config /\ image # NONE /\ image.rev \in Nat /\ image.rev <= edits
    <3>1. Default(p) \in Config /\ Default(p) # NONE /\ Default(p).rev = 0 /\ 0 <= edits
      <4> HIDE DEF p
      <4>1. Default(p) \in Config /\ Default(p) # NONE
        BY <2>1, ConfigEdits
      <4>2. Default(p).rev = 0
        BY <2>1, EditNumbers
      <4>3. QED
        BY <1>0, <4>1, <4>2
    <3>2. image \in Config /\ image # NONE
      BY <2>1, <2>5, <3>1 DEF TypeOK
    <3>3. image.rev \in Nat /\ image.rev <= edits
      BY <1>0, <2>1, <2>5, <3>1, <3>2 DEF HeldInv, AgeInv
    <3>4. QED
      BY <3>2, <3>3
  <2>7. \A q \in Paths : file'[q] = IF q = p THEN image ELSE file[q]
    BY <2>1, <2>2 DEF TypeOK
  <2>8. file[p] # NONE => image = file[p]
    OBVIOUS
  <2> HIDE DEF p, image
  <2>9. pg'.rev = image.rev
    BY <2>2, <2>6, EditNumbers
  <2>10. ImageInv'
    BY <2>1, <2>2, <2>3, <2>7 DEF ImageInv
  <2>11. AgeInv'
    <3>1. image.rev <= image.rev
      BY <2>6
    <3>2. QED
      BY <2>1, <2>2, <2>6, <2>7, <2>9, <3>1 DEF HeldInv, AgeInv
  <2>12. Held'
    BY <1>0, <2>2, <2>4, <2>7, <2>8 DEF Held, Saved
  <2>13. QED
    BY <2>10, <2>11, <2>12 DEF HeldInv
<1>19. QED
  BY <1>1, <1>2, <1>3, <1>4, <1>6, <1>7, <1>8, <1>9, <1>10, <1>11, <1>12, <1>13, <1>14,
     <1>15, <1>16, <1>17, <1>18 DEF Host

\* So do the steps of the MSP thread.
LEMMA HeldMsp ==
    ASSUME TypeOK, TypeOK', Phases, Apart, Files, HeldInv, Msp, ~overlapped'
    PROVE  HeldInv'
<1> USE DEF flags, flash, bounds, history
<1>0. pg \in Config /\ pg.rev \in Nat /\ edits \in Nat /\ pg.rev <= edits
  BY Numbered DEF TypeOK, HeldInv, AgeInv
<1>1. CASE MspEdit
  <2>1. PICK keep \in BOOLEAN :
          pg' = [pg EXCEPT !.rev = edits', !.pinned = IF keep THEN @ ELSE FALSE]
    BY <1>1 DEF MspEdit
  <2>2. edits' = edits + 1 /\ edits' \in 0 .. MaxEdits
    BY <1>1 DEF MspEdit, NextEdit, TypeOK
  <2>3. pg'.rev = edits'
    BY <1>0, <2>1, <2>2, EditNumbers
  <2>4. /\ pg'.rev \in Nat /\ edits' \in Nat
        /\ pg.rev <= pg'.rev /\ pg'.rev <= edits' /\ edits <= edits'
    BY <1>0, <2>2, <2>3
  <2>5. QED
    BY <1>1, <2>3, <2>4, HeldFrame DEF MspEdit, Waiting
<1>2. ASSUME NEW after, MspWrite(after) PROVE HeldInv'
  <2>1. /\ StartWrite("msp") /\ mspAfter = "none" /\ gLocalRunning
        /\ UNCHANGED <<host, work, pg, eepromData, file, handle, env, edits, asked>>
        /\ overlapped' = (overlapped \/ (AtEeprom /\ pg # eepromData))
    BY <1>2 DEF MspWrite
  <2>2. ~(AtEeprom /\ pg # eepromData)
    BY <2>1, Zenon
  <2>3. CASE ~AtEeprom
    <3>1. host \notin {"off", "closing", "flush", "open", "validate", "load"}
      BY <2>1, <2>3 DEF AtEeprom, Phases
    <3>2. \A u \in {"host", "msp"} : writing[u] = "no"
      BY <2>1, <3>1 DEF Phases
    <3>3. QED
      BY <2>1, <3>1, <3>2, HeldStart DEF Files
  <2>4. CASE AtEeprom /\ pg = eepromData
    <3>1. writing' = writing
      BY <2>1, <2>4 DEF StartWrite, Phases, TypeOK
    <3>2. ~Waiting
      BY <2>4 DEF AtEeprom, Waiting
    <3>3. QED
      BY <1>0, <2>1, <3>1, <3>2, HeldFrame
  <2>5. QED
    BY <2>2, <2>3, <2>4
<1>3. CASE systemReset
  <2>1. Waiting => Waiting'
    BY <1>3, Zenon DEF systemReset, Waiting
  <2>2. QED
    BY <1>0, <1>3, <2>1, HeldFrame DEF systemReset
<1>4. CASE AfterWrite
  BY <1>0, <1>4, HeldFrame DEF AfterWrite, Waiting
<1>5. QED
  BY <1>1, <1>2, <1>3, <1>4 DEF Msp, sitlMspWriteEEPROM, sitlSystemReset, TakeReset,
                               TakeEepromWrite

\* A change whose write was deferred is never dropped, by whatever switch,
\* reload, reboot, shutdown or boot: until it is in the file that was selected
\* when it was made, that file stays selected and the change is in RAM with its
\* write requested or under way.  Only an overlap of the two threads' EEPROM work
\* can lose it.
THEOREM EveryDeferredEditIsHeld == Spec => []DeferredEditIsHeld
<1>1. Init /\ ConfigInv => HeldInv
  <2> SUFFICES ASSUME Init, ConfigInv PROVE HeldInv
    OBVIOUS
  <2>1. PICK s \in Starts :
          file = [p \in Paths |-> IF p \in s.missing THEN NONE ELSE Default(p)]
    BY Zenon DEF Init
  <2>2. /\ host = "off" /\ eepromData = NONE /\ work = NoWork /\ asked[2] = 0
        /\ \A u \in {"host", "msp"} : writing[u] = "no"
        /\ pg = Default(BootPath)
    BY DEF Init
  <2>3. edits \in Nat /\ 0 <= edits
    BY Numbered DEF ConfigInv
  <2>4. \A p \in Paths : Default(p).rev = 0
    BY EditNumbers
  <2>5. ImageInv
    BY <2>2 DEF ImageInv
  <2>6. AgeInv
    BY <2>1, <2>2, <2>3, <2>4, ConfigConstants DEF AgeInv, ConfigConstants
  <2>7. QED
    BY <2>2, <2>5, <2>6 DEF HeldInv, Held
<1>2. ConfigInv /\ ConfigInv' /\ (overlapped \/ HeldInv) /\ [Next]_vars
         => (overlapped \/ HeldInv)'
  <2> SUFFICES ASSUME ConfigInv, ConfigInv', overlapped \/ HeldInv, [Next]_vars, ~overlapped'
               PROVE  HeldInv'
    OBVIOUS
  <2>1. TypeOK /\ TypeOK' /\ Phases
    BY DEF ConfigInv
  <2>2. CASE UNCHANGED vars
    <3>1. HeldInv
      BY <2>2 DEF vars, history
    <3>2. QED
      BY <2>2, <3>1 DEF vars, flash, flags, bounds, history, HeldInv, ImageInv, AgeInv, Held,
                        Saved, InHand, Waiting, Holds
  <2>3. CASE Next
    <3>1. HeldInv /\ Apart /\ Files
      BY <2>1, <2>3, Remembered DEF ConfigInv
    <3>2. CASE Host
      BY <2>1, <3>1, <3>2, HeldHost
    <3>3. CASE Msp
      BY <2>1, <3>1, <3>3, HeldMsp
    <3>4. ASSUME NEW t \in {"host", "msp"}, writeEEPROM(t) PROVE HeldInv'
      BY <2>1, <3>1, <3>4, HeldWrite
    <3>5. QED
      BY <2>3, <3>2, <3>3, <3>4 DEF Next
  <2>4. QED
    BY <2>2, <2>3
<1>3. Spec => []ConfigInv
  BY ConfigInvariance
<1>4. (overlapped \/ HeldInv) => DeferredEditIsHeld
  BY DEF HeldInv, DeferredEditIsHeld
<1>5. QED
  BY <1>1, <1>2, <1>3, <1>4, PTL DEF Spec
=============================================================================
