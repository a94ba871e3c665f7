---------------------------- MODULE BlackboxLogs ----------------------------
(***************************************************************************)
(* The rolling folder of blackbox logs in LOCAL mode (wincompat.c): the    *)
(* flight thread creates logs under numbers from a counter, and two        *)
(* threads tidy the folder up.  The MSP thread does it on request after    *)
(* every new log; the host does it when it boots, selects a folder or      *)
(* changes the cap, and then sets the counter to what is left.             *)
(*                                                                         *)
(* Host and flight thread are one: the host calls sitl_local_step.         *)
(*                                                                         *)
(* External: the file system, in which a file that is open can be neither  *)
(* renamed nor removed and a rename does not replace a file (Windows), and *)
(* the firmware, which keeps at most one log open.  A log is known by the  *)
(* order of its creation, so that a property can speak of its age.         *)
(***************************************************************************)
EXTENDS Integers, Sequences, FiniteSets

CONSTANTS Dirs,            \* blackbox folders
          DefaultDir,      \* BF_SITL_BLACKBOX_DIR, or the one under LOCALAPPDATA
          Nums,            \* bound: log numbers, 1..n
          Caps,            \* values of gBlackboxMaxLogs, 0 for no limit
          EnvCap,          \* BF_SITL_BLACKBOX_MAX_LOGS, or -1
          MaxTracked,      \* SITL_BLACKBOX_MAX_TRACKED
          MaxLogs,         \* bound: logs created, the ones found included
          MaxCalls         \* bound: host calls

ASSUME LogConstants ==
    /\ Nums = 1 .. Cardinality(Nums) /\ IsFiniteSet(Nums)
    /\ Caps \subseteq Nat /\ EnvCap \in Caps \cup {-1}
    /\ DefaultDir \in Dirs
    /\ MaxTracked \in Nat /\ MaxLogs \in Nat /\ MaxCalls \in Nat

VARIABLES
    folder,                     \* folder[d][n]: the log under that number, or 0
    gBlackboxDir,               \* the folder the host selected, or ""
    gBlackboxMaxLogs,
    gBlackboxNextNumberValue,   \* number of the newest log
    gBlackboxOpenLogName,       \* path of the log created last, or <<>>
    gBlackboxPruneRequest,
    gBlackboxScanLock,          \* who holds it
    open,                       \* the log that is open, or 0
    job,                        \* per thread: its sitlBlackboxEnforce
    created, calls,             \* bounds used up
    tidiedOpen,                 \* history: the host tidied up the folder of the open log
    truncated                   \* history: a scan left logs of the folder out

logVars == <<folder, gBlackboxDir, gBlackboxMaxLogs, gBlackboxNextNumberValue,
             gBlackboxOpenLogName, gBlackboxPruneRequest, gBlackboxScanLock,
             open, job, created, calls, tidiedOpen, truncated>>

settings == <<gBlackboxDir, gBlackboxMaxLogs>>
naming   == <<gBlackboxNextNumberValue, gBlackboxOpenLogName>>
history  == <<tidiedOpen, truncated>>

Threads == {"host", "msp"}
Ids     == 0 .. MaxLogs
Jobs    == [pc : {"idle", "lock", "remove", "rename", "seed"},
            dir : Dirs \cup {"none"}, keep : Caps \cup {-1},
            logs : Seq(Nums), first : Nat, i : Nat \ {0}]
NoJob   == [pc |-> "idle", dir |-> "none", keep |-> -1, logs |-> <<>>, first |-> 0, i |-> 1]

\* The variables have their types, and the scan lock is held by the thread that
\* walks the folder.
LogTypeOK ==
    /\ folder \in [Dirs -> [Nums -> Ids]]
    /\ gBlackboxDir \in Dirs \cup {""} /\ gBlackboxMaxLogs \in Caps
    /\ gBlackboxNextNumberValue \in Nat
    /\ gBlackboxOpenLogName \in {<<>>} \cup (Dirs \X Nums)
    /\ gBlackboxPruneRequest \in BOOLEAN
    /\ gBlackboxScanLock \in Threads \cup {"free"}
    /\ open \in Ids
    /\ job \in [Threads -> Jobs]
    /\ created \in Ids /\ calls \in 0 .. MaxCalls
    /\ tidiedOpen \in BOOLEAN /\ truncated \in BOOLEAN
    /\ \A t \in Threads : gBlackboxScanLock = t <=> job[t].pc \in {"remove", "rename"}

-----------------------------------------------------------------------------
(* The folder *)

sitlBlackboxDir == IF gBlackboxDir # "" THEN gBlackboxDir ELSE DefaultDir

Numbers(d) == {n \in Nums : folder[d][n] # 0}
Locked(d, n) == folder[d][n] # 0 /\ folder[d][n] = open

\* The host's cap as sitlBlackboxEnforce wants it
Keep(cap) == IF cap > 0 THEN cap ELSE -1

\* The name in the scan against the path of the open log.  The path has its
\* directory and the name in the scan has none: they are never the same
IsOpenLog(n) == <<n>> = gBlackboxOpenLogName

\* Folders as an earlier process may have left them: any numbers, in age order
LeftBehind ==
    {f \in [Nums -> Ids] :
        \E N \in SUBSET Nums :
            /\ Cardinality(N) <= MaxLogs
            /\ f = [n \in Nums |-> IF n \in N THEN Cardinality({m \in N : m <= n}) ELSE 0]}

LogInit ==
    /\ gBlackboxDir = ""
    /\ gBlackboxMaxLogs \in IF EnvCap >= 0 THEN {EnvCap} ELSE Caps
    /\ \E f \in LeftBehind :
          /\ folder = [d \in Dirs |-> IF d = DefaultDir THEN f ELSE [n \in Nums |-> 0]]
          /\ created = Cardinality({n \in Nums : f[n] # 0})
    /\ gBlackboxNextNumberValue = 0 /\ gBlackboxOpenLogName = <<>>
    /\ gBlackboxPruneRequest = FALSE /\ gBlackboxScanLock = "free"
    /\ open = 0
    /\ job = [t \in Threads |-> IF t = "host"
                THEN [NoJob EXCEPT !.pc = "lock", !.dir = DefaultDir,
                                   !.keep = Keep(gBlackboxMaxLogs)]
                ELSE NoJob]
    /\ calls = 0 /\ tidiedOpen = FALSE /\ truncated = FALSE

-----------------------------------------------------------------------------
(* sitlBlackboxEnforce, on either thread *)

\* Mutant of sitlBlackboxCollect: newest first
CollectUnsorted(S) ==
    CHOOSE logs \in [1 .. Cardinality(S) -> S] :
        \A i, k \in 1 .. Cardinality(S) : i < k => logs[i] > logs[k]

\* What a scan of a folder may find: all its logs, or any MaxTracked of them
Tracked(d) == IF Cardinality(Numbers(d)) <= MaxTracked THEN {Numbers(d)}
              ELSE {S \in SUBSET Numbers(d) : Cardinality(S) = MaxTracked}

\* sitlBlackboxCollect: the logs that were found, sorted by number
sitlBlackboxCollect(S) ==
    CHOOSE logs \in [1 .. Cardinality(S) -> S] :
        \A i, k \in 1 .. Cardinality(S) : i < k => logs[i] < logs[k]

\* The scan lock is taken and the folder read
Scan(t) ==
    /\ job[t].pc = "lock" /\ gBlackboxScanLock = "free"
    /\ gBlackboxScanLock' = t
    /\ \E S \in Tracked(job[t].dir) :
          LET logs == sitlBlackboxCollect(S)
              keep == job[t].keep
          IN  /\ job' = [job EXCEPT ![t].pc = "remove", ![t].logs = logs, ![t].i = 1,
                           ![t].first = IF keep >= 0 /\ Len(logs) > keep
                                        THEN Len(logs) - keep ELSE 0]
              /\ truncated' = (truncated \/ S # Numbers(job[t].dir))
    /\ tidiedOpen' = (tidiedOpen \/ (t = "host" /\ \E n \in Nums : Locked(job[t].dir, n)))
    /\ UNCHANGED <<folder, settings, naming, gBlackboxPruneRequest, open, created, calls>>

\* Mutant of Prune: one log too few
PruneAllButOne(t) ==
    LET j == job[t]
    IN  /\ j.pc = "remove" /\ j.i < j.first
        /\ IF IsOpenLog(j.logs[j.i]) \/ Locked(j.dir, j.logs[j.i])
           THEN UNCHANGED folder
           ELSE folder' = [folder EXCEPT ![j.dir][j.logs[j.i]] = 0]
        /\ job' = [job EXCEPT ![t].i = @ + 1]
        /\ UNCHANGED <<settings, naming, gBlackboxPruneRequest, gBlackboxScanLock,
                       open, created, calls, history>>

\* The oldest logs, down to keep, one after the other
Prune(t) ==
    LET j == job[t]
    IN  /\ j.pc = "remove" /\ j.i <= j.first
        /\ IF IsOpenLog(j.logs[j.i]) \/ Locked(j.dir, j.logs[j.i])
           THEN UNCHANGED folder
           ELSE folder' = [folder EXCEPT ![j.dir][j.logs[j.i]] = 0]
        /\ job' = [job EXCEPT ![t].i = @ + 1]
        /\ UNCHANGED <<settings, naming, gBlackboxPruneRequest, gBlackboxScanLock,
                       open, created, calls, history>>

Pruned(t) ==
    /\ job[t].pc = "remove" /\ job[t].i > job[t].first
    /\ job' = [job EXCEPT ![t].pc = "rename", ![t].i = job[t].first + 1]
    /\ UNCHANGED <<folder, settings, naming, gBlackboxPruneRequest, gBlackboxScanLock,
                   open, created, calls, history>>

\* The number a survivor is to get
Target(j) == j.i - j.first

\* The survivors, renumbered 1, 2, ... in the order of their numbers
Rename(t) ==
    LET j == job[t]
        n == j.logs[j.i]
        m == Target(j)
    IN  /\ j.pc = "rename" /\ j.i <= Len(j.logs)
        /\ IF IsOpenLog(n) \/ n = m \/ folder[j.dir][n] = 0 \/ Locked(j.dir, n) \/ folder[j.dir][m] # 0
           THEN UNCHANGED folder
           ELSE folder' = [folder EXCEPT ![j.dir][n] = 0, ![j.dir][m] = folder[j.dir][n]]
        /\ job' = [job EXCEPT ![t].i = @ + 1]
        /\ UNCHANGED <<settings, naming, gBlackboxPruneRequest, gBlackboxScanLock,
                       open, created, calls, history>>

\* The lock is released; the MSP thread is done, the host has a counter to set
Renamed(t) ==
    /\ job[t].pc = "rename" /\ job[t].i > Len(job[t].logs)
    /\ gBlackboxScanLock' = "free"
    /\ job' = [job EXCEPT ![t] = IF t = "msp" THEN NoJob ELSE [@ EXCEPT !.pc = "seed"]]
    /\ UNCHANGED <<folder, settings, naming, gBlackboxPruneRequest, open, created, calls, history>>

-----------------------------------------------------------------------------
(* Host *)

Start(t, d, cap) ==
    job' = [job EXCEPT ![t] = [NoJob EXCEPT !.pc = "lock", !.dir = d, !.keep = Keep(cap)]]

HostCall ==
    /\ job["host"].pc = "idle" /\ calls < MaxCalls
    /\ calls' = calls + 1

\* The cap of the environment replaces one that the host has set
sitlBlackboxReadMaxLogsSetting == IF EnvCap >= 0 THEN EnvCap ELSE gBlackboxMaxLogs

\* The cap, and the housekeeping of the folder
blackboxVirtualOpen ==
    /\ HostCall
    /\ gBlackboxMaxLogs' = sitlBlackboxReadMaxLogsSetting
    /\ Start("host", sitlBlackboxDir', gBlackboxMaxLogs')
    /\ UNCHANGED <<folder, naming, gBlackboxPruneRequest,
                   gBlackboxScanLock, open, created, history>>

\* Another folder, or "" for the default; another boot opens the one it has
sitl_local_set_blackbox_dir(d) ==
    /\ gBlackboxDir' = d
    /\ blackboxVirtualOpen

sitl_local_set_blackbox_max_logs(cap) ==
    /\ HostCall
    /\ gBlackboxMaxLogs' = cap
    /\ Start("host", sitlBlackboxDir, cap)
    /\ UNCHANGED <<folder, gBlackboxDir, naming, gBlackboxPruneRequest,
                   gBlackboxScanLock, open, created, history>>

\* The counter becomes the number of logs left
Seed ==
    LET j == job["host"]
    IN  /\ j.pc = "seed"
        /\ gBlackboxNextNumberValue' = Len(j.logs) - j.first
        /\ job' = [job EXCEPT !["host"] = NoJob]
        /\ UNCHANGED <<folder, settings, gBlackboxOpenLogName, gBlackboxPruneRequest,
                       gBlackboxScanLock, open, created, calls, history>>

-----------------------------------------------------------------------------
(* Flight thread *)

\* sitlBlackboxSeedFromDisk: the highest of the numbers that were seen
Highest(seen) == IF seen = {} THEN 0 ELSE CHOOSE n \in seen : \A m \in seen : m <= n

\* Mutant of sitlBlackboxNextNumber: the counter is read before it is advanced
NextNumberPost(seen) == IF gBlackboxNextNumberValue <= 0 THEN 1 ELSE gBlackboxNextNumberValue

\* sitlBlackboxNextNumber: a counter that is not set yet is read from the folder
sitlBlackboxNextNumber(seen) ==
    (IF gBlackboxNextNumberValue <= 0 THEN Highest(seen) ELSE gBlackboxNextNumberValue) + 1

CanOpen(seen) ==
    /\ job["host"].pc = "idle" /\ open = 0
    /\ gBlackboxNextNumberValue <= 0 => gBlackboxScanLock = "free"
    /\ sitlBlackboxNextNumber(seen) \in Nums
    /\ truncated' = (truncated \/ (gBlackboxNextNumberValue <= 0 /\ seen # Numbers(sitlBlackboxDir)))

\* A new log, opened with "w": one that is there under this number is lost
sitlBlackboxFopen(seen) ==
    /\ CanOpen(seen) /\ created < MaxLogs
    /\ folder' = [folder EXCEPT ![sitlBlackboxDir][sitlBlackboxNextNumber(seen)] = created + 1]
    /\ open' = created + 1 /\ created' = created + 1
    /\ gBlackboxNextNumberValue' = sitlBlackboxNextNumber(seen)
    /\ gBlackboxOpenLogName' = <<sitlBlackboxDir, sitlBlackboxNextNumber(seen)>>
    /\ gBlackboxPruneRequest' = TRUE
    /\ UNCHANGED <<settings, gBlackboxScanLock, job, calls, tidiedOpen>>

\* fopen fails: the number is used up
FopenFails(seen) ==
    /\ CanOpen(seen)
    /\ gBlackboxNextNumberValue' = sitlBlackboxNextNumber(seen)
    /\ UNCHANGED <<folder, settings, gBlackboxOpenLogName, gBlackboxPruneRequest,
                   gBlackboxScanLock, open, job, created, calls, tidiedOpen>>

\* The firmware ends the log, or a reboot on the MSP thread does
Close ==
    /\ open # 0 /\ open' = 0
    /\ UNCHANGED <<folder, settings, naming, gBlackboxPruneRequest, gBlackboxScanLock,
                   job, created, calls, history>>

-----------------------------------------------------------------------------
(* MSP thread *)

\* sitlBlackboxTakePendingPrune, and the folder and cap of that moment
sitlBlackboxRunPendingPrune ==
    /\ job["msp"].pc = "idle" /\ gBlackboxPruneRequest
    /\ gBlackboxPruneRequest' = FALSE
    /\ Start("msp", sitlBlackboxDir, gBlackboxMaxLogs)
    /\ UNCHANGED <<folder, settings, naming, gBlackboxScanLock, open, created, calls, history>>

Enforce(t) == Scan(t) \/ Prune(t) \/ Pruned(t) \/ Rename(t) \/ Renamed(t)

LogNext ==
    \/ \E t \in Threads : Enforce(t)
    \/ \E d \in Dirs \cup {""} : sitl_local_set_blackbox_dir(d)
    \/ \E cap \in Caps : sitl_local_set_blackbox_max_logs(cap)
    \/ \E seen \in Tracked(sitlBlackboxDir) : sitlBlackboxFopen(seen) \/ FopenFails(seen)
    \/ Seed \/ Close \/ sitlBlackboxRunPendingPrune

LogSpec == LogInit /\ [][LogNext]_logVars

\* Both threads run; nobody has to log or to call
Fairness == /\ WF_logVars(Enforce("host") \/ Seed)
            /\ WF_logVars(Enforce("msp")) /\ WF_logVars(sitlBlackboxRunPendingPrune)

FairLogSpec == LogSpec /\ Fairness

-----------------------------------------------------------------------------
(* Properties *)

\* The numbering has gone wrong.  The host tidied up a folder with the open log
\* in it, which sitl_local.h:271 asks it not to do for a change of the folder
\* and nothing does for a change of the cap, or a scan left logs of a folder out
\* (wincompat.c:1831)
Strayed == tidiedOpen \/ truncated

\* No log takes the place of another
NoneReplaced == \A d \in Dirs : \A n \in Numbers(d) : folder'[d][n] \in {folder[d][n], 0}

\* "per-folder numbering never overwrites existing logs" (wincompat.c:2122): a
\* log that disappears from its number was removed or renamed, never replaced,
\* until the numbering has gone wrong for one of the two reasons of Strayed.
NeverOverwritten ==
    [][NoneReplaced \/ Strayed']_logVars

\* "it can never collide with a file that is still to move" (wincompat.c:1861):
\* a survivor that is renamed finds its new number free.
RenumberingIsFree ==
    \A t \in Threads :
        LET j == job[t] IN
        j.pc = "rename" /\ j.i <= Len(j.logs) =>
            Target(j) = j.logs[j.i] \/ folder[j.dir][Target(j)] = 0

\* "sorted by their log number (= their age order)" (wincompat.c:1821): what
\* the housekeeping takes for the oldest logs are the oldest logs, whatever the
\* threads do at the same time, until the numbering has gone wrong for one of
\* the two reasons of Strayed.
NumbersFollowAge ==
    /\ LogTypeOK
    /\ \/ Strayed
       \/ /\ \A d \in Dirs : \A m, n \in Numbers(d) : m < n => folder[d][m] < folder[d][n]
          /\ RenumberingIsFree

\* "a long session can never fill the disk" (wincompat.c:2165): a folder in use
\* that holds more closed logs than the cap is brought back to it, until the
\* numbering has gone wrong for one of the two reasons of Strayed.
Over == /\ gBlackboxMaxLogs > 0
        /\ Cardinality({n \in Numbers(sitlBlackboxDir) : ~Locked(sitlBlackboxDir, n)}) > gBlackboxMaxLogs

CapIsRestored == Over ~> ~Over \/ Strayed

\* "The cap is applied immediately (the oldest logs are deleted)"
\* (wincompat.c:2163-2164), and numbering "never overwrites existing logs" (2122):
\* once a host has set another cap than the environment's, a log being written
\* or not, logs are deleted from the old end, and none is written over.
CapDeletesTheOldest == [][gBlackboxMaxLogs # EnvCap => NoneReplaced]_logVars
=============================================================================
