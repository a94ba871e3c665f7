------------------------------ MODULE OsdFont ------------------------------
(***************************************************************************)
(* The font cache of src/src/sitl_osd.c.                                   *)
(*                                                                         *)
(* A font arrives one character at a time on the MSP thread                *)
(* (wrapWriteFontCharacter) while a host thread polls two getters.  Every  *)
(* getter first runs osdFontSyncWithPath: it writes a freshly completed    *)
(* font to osd_font.bin beside the EEPROM and, when BF_SITL_EEPROM points  *)
(* at another aircraft, drops the live font and loads that aircraft's.     *)
(* Memory is protected by gOsdCrit; the file work is done outside of it,   *)
(* so a getter is several steps here, and characters fall between them.    *)
(*                                                                         *)
(* The 54 bytes of a character are abstracted to the font they come from:  *)
(* a font is a function from character to source, torn when it names two.  *)
(***************************************************************************)
EXTENDS Integers, FiniteSets

CONSTANTS
    Aircraft,       \* directories BF_SITL_EEPROM can point into
    NoPath,         \* no EEPROM path, or one without a directory part
    Stored,         \* aircraft whose directory holds a font at the start
    CharCount,      \* OSD_FONT_CHAR_COUNT
    MaxUploads,     \* fonts the configurator starts to flash
    MaxSwitches,    \* times the host points BF_SITL_EEPROM elsewhere
    MaxRestarts,    \* times the process dies and is started again
    MaxFaults       \* failed writes of osd_font.bin

ASSUME FontAssumption ==
    /\ NoPath \notin Aircraft
    /\ Stored \subseteq Aircraft
    /\ CharCount \in Nat \ {0}
    /\ {MaxUploads, MaxSwitches, MaxRestarts, MaxFaults} \subseteq Nat

Chars == 0 .. CharCount - 1
Paths == Aircraft \cup {NoPath}

NoFont == <<"none">>
Zeros == <<"zeros">>
StoredFont(a) == <<"stored", a>>
Flashed(u, p) == <<"flashed", u, p>>   \* while the cache belonged to path p
Sources == {Zeros} \cup {StoredFont(a) : a \in Aircraft}
                   \cup {Flashed(u, p) : u \in 1 .. MaxUploads, p \in Paths}
OneFont(s) == [c \in Chars |-> s]
Fonts == [Chars -> Sources]

VARIABLES
    envPath,            \* directory of BF_SITL_EEPROM, as osdFontPath derives it
    files,              \* osd_font.bin of each aircraft, NoFont when absent or short
    gFontBytes, gFontSeen, gFontRevision, gFontPath, gFontPendingSave,
    upload,             \* the configurator: font being flashed and next address
    getter,             \* the host thread inside a getter: step and locals
    gFontSaveScratch,
    hostFont, hostRevision, \* what the host renders with, the revision it polled
    switches, restarts, faults,     \* bound counters
    lateSave, lateLoad      \* history: a pending font was saved incomplete,
                            \* a stored font was adopted during an upload

cache == <<gFontBytes, gFontSeen, gFontRevision, gFontPath, gFontPendingSave>>
host == <<hostFont, hostRevision>>
bounds == <<switches, restarts, faults>>
fontHistory == <<lateSave, lateLoad>>
fontVars == <<envPath, files, cache, upload, getter, gFontSaveScratch, host,
              bounds, fontHistory>>

Complete == gFontSeen = Chars
Idle == [at |-> "idle", call |-> "none", old |-> NoPath, new |-> NoPath,
         save |-> FALSE, load |-> FALSE]
NoUpload == [font |-> 0, next |-> 0]
Origin(s) == IF s[1] = "flashed" THEN <<s[1], s[2]>> ELSE s
Whole(f) == \A c, d \in Chars : Origin(f[c]) = Origin(f[d])

FontInit ==
    /\ envPath \in Paths
    /\ files = [a \in Aircraft |->
                    IF a \in Stored THEN OneFont(StoredFont(a)) ELSE NoFont]
    /\ gFontBytes = OneFont(Zeros) /\ gFontSeen = {} /\ gFontRevision = 0
    /\ gFontPath = NoPath /\ gFontPendingSave = FALSE
    /\ upload = NoUpload
    /\ getter = Idle
    /\ gFontSaveScratch = OneFont(Zeros)
    /\ hostFont = NoFont /\ hostRevision = 0
    /\ switches = 0 /\ restarts = 0 /\ faults = 0
    /\ lateSave = FALSE /\ lateLoad = FALSE

-----------------------------------------------------------------------------
(* The MSP thread.                                                          *)

\* Mutant: address 0 does not drop the previous font.
CacheCharacterKeepsBitmap(addr, source) ==
    LET seen == gFontSeen \cup {addr}
    IN  /\ gFontBytes' = [gFontBytes EXCEPT ![addr] = source]
        /\ gFontSeen' = seen
        /\ gFontRevision' = gFontRevision + 1
        /\ gFontPendingSave' = (gFontPendingSave \/ seen = Chars)

(* wrapWriteFontCharacter under gOsdCrit: address 0 drops the previous font,*)
(* the last missing character makes the font pending.                       *)
CacheCharacter(addr, source) ==
    LET kept == IF addr = 0 THEN {} ELSE gFontSeen
        seen == kept \cup {addr}
    IN  /\ gFontBytes' = [gFontBytes EXCEPT ![addr] = source]
        /\ gFontSeen' = seen
        /\ gFontRevision' = gFontRevision + 1
        /\ gFontPendingSave' = (gFontPendingSave \/ seen = Chars)

(* The configurator's flash: MSP_OSD_CHAR_WRITE for address 0 upwards.  The *)
(* cache answers for the upload whatever the real driver says.              *)
WriteFontCharacter ==
    /\ upload.font > 0
    /\ CacheCharacter(upload.next, Flashed(upload.font, gFontPath))
    /\ upload' = [upload EXCEPT !.next = (@ + 1) % CharCount,
                                !.font = IF upload.next + 1 = CharCount THEN -@ ELSE @]
    /\ UNCHANGED <<envPath, files, gFontPath, getter, gFontSaveScratch, host,
                   bounds, fontHistory>>

(* A negative font number is the last one flashed, with nothing running.    *)
StartUpload ==
    /\ upload.font <= 0
    /\ -upload.font < MaxUploads
    /\ upload' = [font |-> 1 - upload.font, next |-> 0]
    /\ UNCHANGED <<envPath, files, cache, getter, gFontSaveScratch, host,
                   bounds, fontHistory>>

(* The configurator is closed in the middle of a flash.                     *)
AbortUpload ==
    /\ upload.font > 0
    /\ upload' = [font |-> -upload.font, next |-> 0]
    /\ UNCHANGED <<envPath, files, cache, getter, gFontSaveScratch, host,
                   bounds, fontHistory>>

Uploading == upload.font > 0 /\ upload.next > 0
-----------------------------------------------------------------------------
(* The host thread.                                                         *)

SwitchAircraft(p) ==
    /\ switches < MaxSwitches
    /\ p # envPath
    /\ envPath' = p
    /\ switches' = switches + 1
    /\ UNCHANGED <<files, cache, upload, getter, gFontSaveScratch, host,
                   restarts, faults, fontHistory>>

\* Mutant: the bitmap survives a change of aircraft.
SyncWithPathKeepsFont(call) ==
    /\ getter.at = "idle"
    /\ gFontSaveScratch' = IF gFontPendingSave THEN gFontBytes ELSE gFontSaveScratch
    /\ gFontPendingSave' = FALSE
    /\ gFontPath' = envPath
    /\ getter' = [at |-> "files", call |-> call, old |-> gFontPath,
                  new |-> envPath, save |-> gFontPendingSave,
                  load |-> envPath # gFontPath /\ envPath # NoPath]
    /\ lateSave' = (lateSave \/ (gFontPendingSave /\ ~Complete))
    /\ UNCHANGED <<envPath, files, gFontBytes, gFontSeen, gFontRevision, upload,
                   host, bounds, lateLoad>>

(* osdFontSyncWithPath, the part under gOsdCrit.                            *)
SyncWithPath(call) ==
    LET moved == envPath # gFontPath
    IN  /\ getter.at = "idle"
        /\ gFontSaveScratch' = IF gFontPendingSave THEN gFontBytes ELSE gFontSaveScratch
        /\ gFontPendingSave' = FALSE
        /\ gFontPath' = envPath
        /\ gFontSeen' = IF moved THEN {} ELSE gFontSeen
        /\ getter' = [at |-> "files", call |-> call, old |-> gFontPath,
                      new |-> envPath, save |-> gFontPendingSave,
                      load |-> moved /\ envPath # NoPath]
        /\ lateSave' = (lateSave \/ (gFontPendingSave /\ ~Complete))
        /\ UNCHANGED <<envPath, files, gFontBytes, gFontRevision, upload, host,
                       bounds, lateLoad>>

\* Mutant: a pending font is written to the aircraft that is current now.
SavePathNow == getter.new
(* "Save where the font was flashed from."                                  *)
SavePath == getter.old

(* osdFontWriteFile: opening with "wb" empties the file, so a failed write  *)
(* leaves a short one that is never loaded; a failed open leaves it alone.  *)
SaveFont ==
    IF getter.save /\ SavePath # NoPath
    THEN \/ /\ files' = [files EXCEPT ![SavePath] = gFontSaveScratch]
            /\ UNCHANGED faults
         \/ /\ faults < MaxFaults
            /\ faults' = faults + 1
            /\ files' \in {files, [files EXCEPT ![SavePath] = NoFont]}
    ELSE UNCHANGED <<files, faults>>

(* The file work of osdFontSyncWithPath, outside the lock: write the font   *)
(* that was pending, then read the one of the new directory.                *)
SyncFiles ==
    /\ getter.at = "files"
    /\ SaveFont
    /\ IF getter.load /\ files[getter.new] # NoFont
       THEN /\ gFontSaveScratch' = files[getter.new]
            /\ getter' = [getter EXCEPT !.at = "adopt"]
       ELSE /\ getter' = [getter EXCEPT !.at = "read"]
            /\ UNCHANGED gFontSaveScratch
    /\ UNCHANGED <<envPath, cache, upload, host, switches, restarts, fontHistory>>

\* Mutant: adopting a font does not bump the revision a host polls.
AdoptStoredSilently ==
    /\ getter.at = "adopt"
    /\ gFontBytes' = gFontSaveScratch
    /\ gFontSeen' = Chars
    /\ getter' = [getter EXCEPT !.at = "read"]
    /\ lateLoad' = (lateLoad \/ Uploading)
    /\ UNCHANGED <<envPath, files, gFontRevision, gFontPath, gFontPendingSave,
                   upload, gFontSaveScratch, host, bounds, lateSave>>

(* The end of osdFontLoadFile, under the lock again.                        *)
AdoptStored ==
    /\ getter.at = "adopt"
    /\ gFontBytes' = gFontSaveScratch
    /\ gFontSeen' = Chars
    /\ gFontRevision' = gFontRevision + 1
    /\ getter' = [getter EXCEPT !.at = "read"]
    /\ lateLoad' = (lateLoad \/ Uploading)
    /\ UNCHANGED <<envPath, files, gFontPath, gFontPendingSave, upload,
                   gFontSaveScratch, host, bounds, lateSave>>

(* sitl_local_get_osd_font_revision returns; a host that sees a value other *)
(* than the last one reads the font with its next call.                     *)
ReportedRevision == IF Complete THEN gFontRevision ELSE 0

ReturnRevision ==
    /\ getter.at = "read" /\ getter.call = "revision"
    /\ hostRevision' = ReportedRevision
    /\ getter' = IF ReportedRevision \in {0, hostRevision} THEN Idle
                 ELSE [Idle EXCEPT !.call = "font"]
    /\ UNCHANGED <<envPath, files, cache, upload, gFontSaveScratch, hostFont,
                   bounds, fontHistory>>

(* sitl_local_get_osd_font returns a copy taken under the lock, or nothing. *)
ReturnFont ==
    /\ getter.at = "read" /\ getter.call = "font"
    /\ hostFont' = IF Complete THEN gFontBytes ELSE hostFont
    /\ getter' = Idle
    /\ UNCHANGED <<envPath, files, cache, upload, gFontSaveScratch, hostRevision,
                   bounds, fontHistory>>

(* Enters a getter: the revision, unless its last answer said to read.      *)
PollFont == SyncWithPath(IF getter.call = "font" THEN "font" ELSE "revision")

(* The process ends wherever its threads are and is started again; only the *)
(* files are left.                                                          *)
Restart ==
    /\ restarts < MaxRestarts
    /\ restarts' = restarts + 1
    /\ gFontBytes' = OneFont(Zeros) /\ gFontSeen' = {} /\ gFontRevision' = 0
    /\ gFontPath' = NoPath /\ gFontPendingSave' = FALSE
    /\ upload' = [font |-> IF upload.font > 0 THEN -upload.font ELSE upload.font,
                  next |-> 0]
    /\ getter' = Idle
    /\ gFontSaveScratch' = OneFont(Zeros)
    /\ hostFont' = NoFont /\ hostRevision' = 0
    /\ UNCHANGED <<envPath, files, switches, faults, fontHistory>>

FontNext ==
    \/ WriteFontCharacter \/ StartUpload \/ AbortUpload
    \/ \E p \in Paths : SwitchAircraft(p)
    \/ PollFont \/ SyncFiles \/ AdoptStored \/ ReturnRevision \/ ReturnFont
    \/ Restart

FontSpec == FontInit /\ [][FontNext]_fontVars

(* The host polls the revision every rendered frame, and its calls return.  *)
HostThread == PollFont \/ SyncFiles \/ AdoptStored \/ ReturnRevision \/ ReturnFont
FairFontSpec == FontSpec /\ WF_fontVars(HostThread)
-----------------------------------------------------------------------------
FontTypeOK ==
    /\ envPath \in Paths /\ gFontPath \in Paths
    /\ files \in [Aircraft -> Fonts \cup {NoFont}]
    /\ gFontBytes \in Fonts /\ gFontSeen \subseteq Chars
    /\ gFontRevision \in Nat /\ gFontPendingSave \in BOOLEAN
    /\ upload \in [font : -MaxUploads .. MaxUploads, next : Chars]
    /\ getter \in [at : {"idle", "files", "adopt", "read"}, call : {"none", "revision", "font"},
                   old : Paths, new : Paths, save : BOOLEAN, load : BOOLEAN]
    /\ gFontSaveScratch \in Fonts
    /\ hostFont \in Fonts \cup {NoFont}

(* An aircraft's osd_font.bin never holds a character stored with, or       *)
(* flashed for, another aircraft, whatever is half flashed or still to be   *)
(* saved when the path moves: only the bitmap that osdFontSyncWithPath      *)
(* clears and the old path it remembers keep them apart.                    *)
BelongsTo(s, a) == s = StoredFont(a) \/ \E u \in 1 .. MaxUploads : s = Flashed(u, a)
FontsDoNotTravel ==
    /\ FontTypeOK
    /\ \A a \in Aircraft : files[a] # NoFont =>
          \A c \in Chars : BelongsTo(files[a][c], a)

(* A font torn between two uploads reaches the host or the disk only after  *)
(* one of two overlaps: a pending font that was no longer complete was      *)
(* saved, or a stored font was adopted while another one was being flashed. *)
OnlyOverlapsTear ==
    lateSave \/ lateLoad \/
        /\ hostFont # NoFont => Whole(hostFont)
        /\ \A a \in Aircraft : files[a] # NoFont => Whole(files[a])

(* When the configurator and the player have come to rest, the host renders *)
(* with the live font and the aircraft's file holds it, unless a write of   *)
(* that file failed.                                                        *)
FontReachesHostAndDisk ==
    <>[](Complete => /\ hostFont = gFontBytes
                     /\ faults > 0 \/ gFontPath = NoPath
                        \/ files[gFontPath] = gFontBytes)

(* What the comments of wrapWriteFontCharacter and sitl_local_get_osd_font  *)
(* say of the copy a host is given.                                         *)
HostFontIsWhole == hostFont # NoFont => Whole(hostFont)
=============================================================================
