----------------------------- MODULE OsdCanvas -----------------------------
(***************************************************************************)
(* The OSD canvas of src/src/sitl_osd.c: a wrapper around the MSP          *)
(* displayport that mirrors what the firmware draws, and the host API that *)
(* reads the committed frame and places elements.                          *)
(*                                                                         *)
(* The OSD task (external: osd.c) runs on the thread that steps the flight *)
(* controller; it clears the screen, draws the active elements one by one  *)
(* and commits with drawScreen.  Another host thread polls the revision,   *)
(* copies frames and moves elements at any moment.  gOsdCrit makes one     *)
(* action of a publish and of a copy.  In-process restarts run the boot    *)
(* hooks again, possibly with another canvas size.                         *)
(***************************************************************************)
EXTENDS Integers, Sequences, FiniteSets

CONSTANTS
    MAX_COLS, MAX_ROWS,     \* SITL_LOCAL_OSD_MAX_COLS, _ROWS
    SD_COLS, SD_ROWS,       \* OSD_SD_COLS, OSD_SD_ROWS
    Reported,               \* sizes <<cols, rows>> a displayport may report
    TextItems, SysItems,    \* elements drawn by writeString, by writeSys
    TextLength,             \* characters of a text element
    Inputs,                 \* coordinates a host passes
    MaxDraws, MaxBoots, MaxSets     \* bounds

Items == TextItems \cup SysItems

ASSUME CanvasAssumption ==
    /\ MAX_COLS \in Nat \ {0} /\ MAX_ROWS \in Nat \ {0}
    /\ SD_COLS \in 1 .. MAX_COLS /\ SD_ROWS \in 1 .. MAX_ROWS
    /\ Reported \subseteq Nat \X Nat
    /\ TextItems \cap SysItems = {}
    /\ TextLength \in Nat /\ Inputs \subseteq Int
    /\ {MaxDraws, MaxBoots, MaxSets} \subseteq Nat

VARIABLES
    gCols, gRows, gLive, gPublished, gRevision, gFrameCount, gActive,
    gRealVTable,    \* the table the wrapper delegates to
    vTable,         \* the table installed in the displayport
    running,        \* FEATURE_OSD was on when this boot's tasks were enabled
    itemPos,        \* osdElementConfig()->item_pos
    activeItems,    \* what osdAnalyzeActiveElements last found visible
    task,           \* where the OSD task is, and the elements it has not drawn
    hostFrame,      \* the host's copy, with the revision it came with
    strokes,        \* history: drawn since the last clearScreen, in order
    committed,      \* history: the strokes of the last committed frame
    boots, sets     \* bound counters

canvas == <<gCols, gRows, gLive, gPublished, gRevision, gFrameCount, gActive,
            gRealVTable, vTable>>
history == <<strokes, committed>>
vars == <<canvas, running, itemPos, activeItems, task, hostFrame, history,
          boots, sets>>

BLANK == <<"blank">>
CellOf(i) == IF i \in SysItems THEN <<"sys", i>> ELSE <<"char", i>>
Cells == (0 .. MAX_COLS - 1) \X (0 .. MAX_ROWS - 1)
Indices == 0 .. MAX_COLS * MAX_ROWS - 1
InCanvas(x, y) == x < gCols /\ y < gRows
\* Mutant: rows are packed by the width of the canvas.
PackedIndex(x, y) == y * gCols + x
\* Where osdPublish puts the cell in column x of row y.
Index(x, y) == y * MAX_COLS + x

Hidden == [x |-> 0, y |-> 0, visible |-> FALSE]
Lesser(a, b) == IF a < b THEN a ELSE b
Clamp(v, size) == IF v < 0 THEN 0
                  ELSE IF v >= size THEN (IF size > 0 THEN size - 1 ELSE 0) ELSE v

NoFrame == [cols |-> 0, rows |-> 0, active |-> FALSE, revision |-> 0,
            frames |-> 0, cell |-> [n \in Indices |-> BLANK]]
BlankLive == [c \in Cells |-> BLANK]

Init ==
    /\ gCols = 0 /\ gRows = 0 /\ gLive = BlankLive /\ gPublished = NoFrame
    /\ gRevision = 0 /\ gFrameCount = 0 /\ gActive = FALSE
    /\ gRealVTable = "none" /\ vTable = "none"
    /\ running = FALSE
    /\ itemPos = [i \in Items |-> Hidden] /\ activeItems = {}
    /\ task = [at |-> "off", left |-> {}]
    /\ hostFrame = NoFrame
    /\ strokes = <<>> /\ committed = <<>>
    /\ boots = 0 /\ sets = 0
-----------------------------------------------------------------------------
(* Boot.                                                                    *)

(* sitlOsdEnableFeature: the stored feature bit, or the hook unless         *)
(* BF_SITL_OSD=0.                                                           *)
EnableFeature(stored, envOff) == stored \/ ~envOff

(* A reported size the host API cannot carry is replaced by the SD canvas.  *)
Usable(size, max, sd) == IF size = 0 \/ size > max THEN sd ELSE size

(* Mutant: the frame of a new boot keeps the revision of the last one.      *)
DisplayPortMspInitSameRevision(size) ==
    /\ vTable' = "osd"
    /\ gRealVTable' = "real"
    /\ gCols' = Usable(size[1], MAX_COLS, SD_COLS)
    /\ gRows' = Usable(size[2], MAX_ROWS, SD_ROWS)
    /\ gLive' = BlankLive
    /\ gPublished' = [NoFrame EXCEPT !.cols = gCols', !.rows = gRows',
                                     !.active = TRUE, !.revision = gRevision]
    /\ gActive' = TRUE
    /\ UNCHANGED <<gFrameCount, gRevision>>

(* displayPortMspInit.  Whether displayInit() has restored the real table   *)
(* or left the wrapper's in place, the wrapper never delegates to itself.   *)
DisplayPortMspInit(size) ==
    /\ vTable' = "osd"
    /\ \E found \in {"real", vTable} \ {"none"} :
          gRealVTable' = IF found # "osd" THEN found ELSE gRealVTable
    /\ gCols' = Usable(size[1], MAX_COLS, SD_COLS)
    /\ gRows' = Usable(size[2], MAX_ROWS, SD_ROWS)
    /\ gLive' = BlankLive
    /\ gRevision' = gRevision + 1
    /\ gPublished' = [NoFrame EXCEPT !.cols = gCols', !.rows = gRows',
                                     !.active = TRUE, !.revision = gRevision']
    /\ gActive' = TRUE
    /\ UNCHANGED gFrameCount

(* External: osdInit clamps the stored positions to the canvas.             *)
OnCanvas(p) == [p EXCEPT !.x = Lesser(@, gCols' - 1), !.y = Lesser(@, gRows' - 1)]
Visible(pos) == {i \in Items : pos[i].visible}

(* The OSD part of a boot or an in-process restart: the feature hook, then  *)
(* fc/init.c, which builds the displayport only with FEATURE_OSD set.       *)
Boot(size, stored, envOff) ==
    /\ boots < MaxBoots
    /\ gFrameCount <= MaxDraws - 2
    /\ boots' = boots + 1
    /\ running' = EnableFeature(stored, envOff)
    /\ IF EnableFeature(stored, envOff)
       THEN /\ DisplayPortMspInit(size)
            /\ itemPos' = [i \in Items |-> OnCanvas(itemPos[i])]
            /\ activeItems' = Visible(itemPos')
            /\ task' = [at |-> "clear", left |-> {}]
            /\ strokes' = <<>> /\ committed' = <<>>
       ELSE /\ task' = [at |-> "off", left |-> {}]
            /\ UNCHANGED <<canvas, itemPos, activeItems, history>>
    /\ UNCHANGED <<hostFrame, sets>>
-----------------------------------------------------------------------------
(* The OSD task through the wrapper table.                                  *)

\* Mutant: clearScreen is passed on without clearing the mirror.
WrapClearScreenOnlyReal ==
    /\ task.at = "clear"
    /\ task' = [at |-> "draw", left |-> activeItems]
    /\ strokes' = <<>>
    /\ UNCHANGED <<canvas, running, itemPos, activeItems, hostFrame, committed,
                   boots, sets>>

WrapClearScreen ==
    /\ task.at = "clear"
    /\ gLive' = BlankLive
    /\ task' = [at |-> "draw", left |-> activeItems]
    /\ strokes' = <<>>
    /\ UNCHANGED <<gCols, gRows, gPublished, gRevision, gFrameCount, gActive,
                   gRealVTable, vTable, running, itemPos, activeItems, hostFrame,
                   committed, boots, sets>>

(* writeString stops at the right edge; osdPut ignores cells off the canvas.*)
Touched(i, p) ==
    {c \in Cells : /\ InCanvas(c[1], c[2]) /\ c[2] = p.y
                   /\ c[1] \in p.x .. p.x + (IF i \in TextItems THEN TextLength ELSE 1) - 1}

(* External: one call of the element drawing.  The list was built before,   *)
(* the position is read now.                                                *)
DrawElement(i) ==
    /\ task.at = "draw" /\ i \in task.left
    /\ gLive' = [c \in Cells |-> IF c \in Touched(i, itemPos[i]) THEN CellOf(i) ELSE gLive[c]]
    /\ strokes' = Append(strokes, [item |-> i, x |-> itemPos[i].x, y |-> itemPos[i].y])
    /\ task' = [task EXCEPT !.left = @ \ {i}]
    /\ UNCHANGED <<gCols, gRows, gPublished, gRevision, gFrameCount, gActive,
                   gRealVTable, vTable, running, itemPos, activeItems, hostFrame,
                   committed, boots, sets>>

(* osdPublish under gOsdCrit: the frame carries the count of the commits    *)
(* before it, wrapDrawScreen counts this one afterwards.                    *)
WrapDrawScreen ==
    /\ task.at = "draw" /\ task.left = {}
    /\ gFrameCount < MaxDraws
    /\ gRevision' = gRevision + 1
    /\ gPublished' = [gPublished EXCEPT
            !.cols = gCols, !.rows = gRows, !.active = TRUE,
            !.frames = gFrameCount, !.revision = gRevision',
            !.cell = [n \in Indices |->
                IF \E c \in Cells : InCanvas(c[1], c[2]) /\ Index(c[1], c[2]) = n
                THEN gLive[CHOOSE c \in Cells :
                                InCanvas(c[1], c[2]) /\ Index(c[1], c[2]) = n]
                ELSE @[n]]]
    /\ committed' = strokes
    /\ task' = [task EXCEPT !.at = "count"]
    /\ UNCHANGED <<gCols, gRows, gLive, gFrameCount, gActive, gRealVTable, vTable,
                   running, itemPos, activeItems, hostFrame, strokes, boots, sets>>

CountFrame ==
    /\ task.at = "count"
    /\ gFrameCount' = gFrameCount + 1
    /\ task' = [task EXCEPT !.at = "clear"]
    /\ UNCHANGED <<gCols, gRows, gLive, gPublished, gRevision, gActive,
                   gRealVTable, vTable, running, itemPos, activeItems, hostFrame,
                   history, boots, sets>>
-----------------------------------------------------------------------------
(* The host.                                                                *)

\* Mutant: the element list is not rebuilt.
SetElementOnlyStores(i, col, row, visible) ==
    /\ gActive /\ sets < MaxSets /\ gFrameCount <= MaxDraws - 2
    /\ itemPos' = [itemPos EXCEPT ![i] =
            [x |-> Clamp(col, gCols), y |-> Clamp(row, gRows), visible |-> visible]]
    /\ sets' = sets + 1
    /\ UNCHANGED <<canvas, running, activeItems, task, hostFrame, history, boots>>

(* sitl_local_set_osd_element: clamped to the canvas, analysed at once.     *)
SetElement(i, col, row, visible) ==
    /\ gActive /\ sets < MaxSets /\ gFrameCount <= MaxDraws - 2
    /\ itemPos' = [itemPos EXCEPT ![i] =
            [x |-> Clamp(col, gCols), y |-> Clamp(row, gRows), visible |-> visible]]
    /\ activeItems' = Visible(itemPos')
    /\ sets' = sets + 1
    /\ UNCHANGED <<canvas, running, task, hostFrame, history, boots>>

(* sitl_local_get_osd_revision, then sitl_local_get_osd_frame if it moved.  *)
PolledRevision == IF gActive THEN gPublished.revision ELSE 0

Poll ==
    /\ hostFrame' = IF gActive /\ PolledRevision # hostFrame.revision
                    THEN gPublished ELSE hostFrame
    /\ UNCHANGED <<canvas, running, itemPos, activeItems, task, history, boots, sets>>

OsdTask == WrapClearScreen \/ (\E i \in Items : DrawElement(i)) \/ WrapDrawScreen \/ CountFrame
CanvasNext ==
    \/ \E size \in Reported, stored, envOff \in BOOLEAN : Boot(size, stored, envOff)
    \/ WrapClearScreen \/ \E i \in Items : DrawElement(i)
    \/ WrapDrawScreen \/ CountFrame
    \/ \E i \in Items, col, row \in Inputs, visible \in BOOLEAN :
          SetElement(i, col, row, visible)
    \/ Poll

CanvasSpec == Init /\ [][CanvasNext]_vars

(* The host keeps stepping, which runs the OSD task, and keeps polling.     *)
FairCanvasSpec == CanvasSpec /\ WF_vars(OsdTask) /\ WF_vars(Poll)
-----------------------------------------------------------------------------
Shown == {BLANK} \cup {CellOf(i) : i \in Items}
Frame == [cols : 0 .. MAX_COLS, rows : 0 .. MAX_ROWS, active : BOOLEAN,
          revision : Nat, frames : Nat, cell : [Indices -> Shown]]
Stroke == [item : Items, x : Nat, y : Nat]

TypeOK ==
    /\ gCols \in 0 .. MAX_COLS /\ gRows \in 0 .. MAX_ROWS
    /\ gLive \in [Cells -> Shown] /\ gPublished \in Frame /\ hostFrame \in Frame
    /\ gRevision \in Nat /\ gFrameCount \in Nat
    /\ gRealVTable \in {"none", "real"}     \* never the wrapper's own
    /\ vTable \in {"none", "osd"}
    /\ itemPos \in [Items -> [x : Nat, y : Nat, visible : BOOLEAN]]
    /\ task \in [at : {"off", "clear", "draw", "count"}, left : SUBSET Items]
    /\ activeItems \subseteq Items
    /\ strokes \in Seq(Stroke) /\ committed \in Seq(Stroke)

Covers(s, x, y) ==
    /\ s.y = y
    /\ x \in s.x .. s.x + (IF s.item \in TextItems THEN TextLength ELSE 1) - 1
LastCover(q, x, y) ==
    LET hits == {n \in DOMAIN q : Covers(q[n], x, y)}
    IN  IF hits = {} THEN BLANK
        ELSE CellOf(q[CHOOSE n \in hits : \A m \in hits : m <= n].item)

(* The host is offered the last committed screen and nothing else: every    *)
(* cell of the canvas shows the last element drawn over it since the clear  *)
(* of that frame, and what an earlier, larger canvas held is gone.          *)
PublishedIsTheCommittedScreen ==
    /\ TypeOK
    /\ \A c \in Cells :
          gPublished.cell[c[2] * MAX_COLS + c[1]] =
             IF c[1] < gPublished.cols /\ c[2] < gPublished.rows
             THEN LastCover(committed, c[1], c[2]) ELSE BLANK

(* A revision names one frame: a host that skips the copy because the       *)
(* revision did not move misses nothing, restarts included.                 *)
RevisionNamesOneFrame ==
    hostFrame.revision = gPublished.revision => hostFrame = gPublished

(* An element the host has placed ends up in the host's own copy, at the    *)
(* place it was clamped to, while the OSD runs and no other covers it.      *)
AloneAt(i) ==
    \A j \in Visible(itemPos) \ {i} :
        ~Covers([item |-> j, x |-> itemPos[j].x, y |-> itemPos[j].y],
                itemPos[i].x, itemPos[i].y)
PlacedElementReachesHost ==
    <>[](running => \A i \in Visible(itemPos) : AloneAt(i) =>
            hostFrame.cell[itemPos[i].y * MAX_COLS + itemPos[i].x] = CellOf(i))

(* The layout of sitl_local_osd_frame_t that the header documents.          *)
FrameLayoutIsPacked ==
    \A c \in Cells : c[1] < gPublished.cols /\ c[2] < gPublished.rows =>
        gPublished.cell[c[2] * gPublished.cols + c[1]] = LastCover(committed, c[1], c[2])
=============================================================================
