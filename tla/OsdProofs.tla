----------------------------- MODULE OsdProofs -----------------------------
(***************************************************************************)
(* Proofs about the two halves of sitl_osd.c, which share no state.        *)
(*                                                                         *)
(* OsdCanvas, for every canvas, every set of elements and any number of    *)
(* frames, boots and edits: what the host is offered is the last committed *)
(* screen, cell for cell, and a revision names one frame.                  *)
(*                                                                         *)
(* OsdFont, for any number of aircraft, characters, uploads, changes of    *)
(* path, restarts and failed writes: no character of a font reaches        *)
(* another aircraft's file, and a torn font reaches the host or the disk   *)
(* only after one of the two overlaps that the properties name.            *)
(***************************************************************************)
EXTENDS OsdCanvas, OsdFont, TLAPS

-----------------------------------------------------------------------------
(* The canvas: the invariant *)

Hits(q, c) == {n \in DOMAIN q : Covers(q[n], c[1], c[2])}

\* A cell that was drawn over was drawn over last by someone.
HasLast(q) == \A c \in Cells : Hits(q, c) # {} => \E n \in Hits(q, c) : \A m \in Hits(q, c) : m <= n

\* The mirror shows the strokes since the last clear, within the canvas.
LiveShowsStrokes ==
    \A c \in Cells : gLive[c] = IF InCanvas(c[1], c[2]) THEN LastCover(strokes, c[1], c[2]) ELSE BLANK

\* The published frame has the size of the canvas and shows the committed ones.
PublishedShowsCommitted ==
    /\ gPublished.cols = gCols /\ gPublished.rows = gRows
    /\ \A c \in Cells : gPublished.cell[Index(c[1], c[2])] =
          IF InCanvas(c[1], c[2]) THEN LastCover(committed, c[1], c[2]) ELSE BLANK

\* Revisions grow with the frames; the host's copy is an older frame or this one.
RevisionsGrow ==
    /\ gPublished.revision = gRevision
    /\ hostFrame.revision <= gRevision
    /\ hostFrame.revision = gRevision => hostFrame = gPublished

CanvasInv ==
    /\ TypeOK
    /\ HasLast(strokes)
    /\ LiveShowsStrokes
    /\ PublishedShowsCommitted
    /\ RevisionsGrow

-----------------------------------------------------------------------------
(* The layout of a frame *)

\* A cell is a column and a row.
LEMMA CellParts ==
    ASSUME NEW c \in Cells
    PROVE  /\ c[1] \in 0 .. MAX_COLS - 1 /\ c[2] \in 0 .. MAX_ROWS - 1
           /\ c = <<c[1], c[2]>>
BY DEF Cells

\* Rows do not overlap: a cell of a lower row lies before every cell of a higher.
LEMMA RowsApart ==
    ASSUME NEW w \in Nat \ {0}, NEW x \in 0 .. w - 1, NEW y \in Nat, NEW z \in Nat, y < z
    PROVE  y * w \in Nat /\ z * w \in Nat /\ y * w + x < z * w
<1>1. y * w \in Nat /\ z * w \in Nat /\ (y + 1) * w = y * w + w
  BY SMT
<1>2. z >= y + 1 => z * w >= (y + 1) * w
  BY SMT
<1>3. QED
  BY <1>1, <1>2

\* The layout of a frame has a place for every cell.
LEMMA IndexInRange ==
    ASSUME NEW c \in Cells
    PROVE  Index(c[1], c[2]) \in Indices
<1>1. c[1] \in 0 .. MAX_COLS - 1 /\ c[2] \in 0 .. MAX_ROWS - 1
  BY CellParts
<1>2. MAX_COLS \in Nat \ {0} /\ MAX_ROWS \in Nat \ {0}
  BY CanvasAssumption DEF CanvasAssumption
<1> DEFINE x == c[1]
           y == c[2]
<1>3. x \in 0 .. MAX_COLS - 1 /\ y \in Nat /\ y < MAX_ROWS
  BY <1>1, <1>2
<1> HIDE DEF x, y
<1>4. y * MAX_COLS \in Nat /\ MAX_ROWS * MAX_COLS \in Nat /\ y * MAX_COLS + x < MAX_ROWS * MAX_COLS
  BY <1>2, <1>3, RowsApart
<1>5. MAX_COLS * MAX_ROWS = MAX_ROWS * MAX_COLS
  BY <1>2, SMT
<1>6. Index(x, y) \in Indices
  BY <1>2, <1>3, <1>4, <1>5 DEF Index, Indices
<1>7. QED
  BY <1>6 DEF x, y

\* No two cells share a place in the frame.
LEMMA IndexInjective ==
    ASSUME NEW c \in Cells, NEW d \in Cells, Index(c[1], c[2]) = Index(d[1], d[2])
    PROVE  c = d
<1> DEFINE x == c[1]
           y == c[2]
           v == d[1]
           w == d[2]
<1>1. MAX_COLS \in Nat \ {0} /\ MAX_ROWS \in Nat \ {0}
  BY CanvasAssumption DEF CanvasAssumption
<1>2. x \in 0 .. MAX_COLS - 1 /\ y \in Nat /\ v \in 0 .. MAX_COLS - 1 /\ w \in Nat
  BY <1>1, CellParts
<1>3. y * MAX_COLS + x = w * MAX_COLS + v
  BY DEF Index
<1>4. c = <<x, y>> /\ d = <<v, w>>
  BY CellParts
<1> HIDE DEF x, y, v, w
<1>5. ~(y < w)
  <2> SUFFICES ASSUME y < w PROVE FALSE
    OBVIOUS
  <2>1. y * MAX_COLS + x < w * MAX_COLS /\ w * MAX_COLS \in Nat /\ y * MAX_COLS \in Nat
    BY <1>1, <1>2, RowsApart
  <2>2. QED
    BY <1>1, <1>2, <1>3, <2>1
<1>6. ~(w < y)
  <2> SUFFICES ASSUME w < y PROVE FALSE
    OBVIOUS
  <2>1. w * MAX_COLS + v < y * MAX_COLS /\ w * MAX_COLS \in Nat /\ y * MAX_COLS \in Nat
    BY <1>1, <1>2, RowsApart
  <2>2. QED
    BY <1>1, <1>2, <1>3, <2>1
<1>7. y = w
  BY <1>2, <1>5, <1>6
<1>8. x = v
  <2>1. y * MAX_COLS \in Nat
    BY <1>1, <1>2, SMT
  <2>2. QED
    BY <1>1, <1>2, <1>3, <1>7, <2>1
<1>9. QED
  BY <1>4, <1>7, <1>8

-----------------------------------------------------------------------------
(* Drawing *)

\* One stroke more: it covers what it covers, and the rest stays as it was.
LEMMA LastCoverAppend ==
    ASSUME NEW q \in Seq(Stroke), HasLast(q), NEW s \in Stroke, NEW c \in Cells
    PROVE  LET r == Append(q, s)
           IN  /\ LastCover(r, c[1], c[2]) =
                    IF Covers(s, c[1], c[2]) THEN CellOf(s.item) ELSE LastCover(q, c[1], c[2])
               /\ Hits(r, c) # {} => \E n \in Hits(r, c) : \A m \in Hits(r, c) : m <= n
<1> DEFINE r == Append(q, s)
           k == Len(q) + 1
<1>1. /\ Len(q) \in Nat /\ DOMAIN q = 1 .. Len(q) /\ DOMAIN r = 1 .. k
      /\ r[k] = s /\ \A n \in 1 .. Len(q) : r[n] = q[n]
  OBVIOUS
<1> HIDE DEF r
<1>2. \A n \in Hits(r, c) : n \in 1 .. k
  BY <1>1 DEF Hits
<1>3. CASE Covers(s, c[1], c[2])
  <2>1. k \in Hits(r, c) /\ \A m \in Hits(r, c) : m <= k
    BY <1>1, <1>2, <1>3 DEF Hits
  <2>2. \A n \in Hits(r, c) : (\A m \in Hits(r, c) : m <= n) => n = k
    BY <1>1, <1>2, <2>1
  <2>3. (CHOOSE n \in Hits(r, c) : \A m \in Hits(r, c) : m <= n) = k
    BY <2>1, <2>2
  <2>4. LastCover(r, c[1], c[2]) = CellOf(s.item)
    <3>1. LastCover(r, c[1], c[2]) =
            IF Hits(r, c) = {} THEN BLANK
            ELSE CellOf(r[CHOOSE n \in Hits(r, c) : \A m \in Hits(r, c) : m <= n].item)
      BY DEF LastCover, Hits
    <3>2. QED
      BY <1>1, <2>1, <2>3, <3>1
  <2>5. QED
    BY <1>3, <2>1, <2>4 DEF r
<1>4. CASE ~Covers(s, c[1], c[2])
  <2>1. Hits(r, c) = Hits(q, c)
    BY <1>1, <1>4 DEF Hits
  <2>2. Hits(r, c) # {} => \E n \in Hits(r, c) : \A m \in Hits(r, c) : m <= n
    BY <2>1 DEF HasLast
  <2>3. LastCover(r, c[1], c[2]) = LastCover(q, c[1], c[2])
    <3> DEFINE H == Hits(q, c)
               last == CHOOSE n \in H : \A m \in H : m <= n
    <3>1. LastCover(q, c[1], c[2]) = IF H = {} THEN BLANK ELSE CellOf(q[last].item)
      BY DEF LastCover, Hits
    <3>2. LastCover(r, c[1], c[2]) = IF H = {} THEN BLANK ELSE CellOf(r[last].item)
      <4>1. LastCover(r, c[1], c[2]) =
              IF Hits(r, c) = {} THEN BLANK
              ELSE CellOf(r[CHOOSE n \in Hits(r, c) : \A m \in Hits(r, c) : m <= n].item)
        BY DEF LastCover, Hits
      <4>2. QED
        BY <2>1, <4>1
    <3>3. H # {} => last \in H
      BY <2>1, <2>2
    <3>4. H \subseteq DOMAIN q
      BY DEF Hits
    <3> HIDE DEF H, last
    <3>5. H # {} => r[last] = q[last]
      BY <1>1, <3>3, <3>4
    <3>6. QED
      BY <3>1, <3>2, <3>5
  <2>4. QED
    BY <1>4, <2>2, <2>3 DEF r
<1>5. QED
  BY <1>3, <1>4

\* Nothing drawn covers nothing.
LEMMA NothingDrawn ==
    /\ HasLast(<<>>)
    /\ \A c \in Cells : LastCover(<<>>, c[1], c[2]) = BLANK
<1>1. \A c \in Cells : Hits(<<>>, c) = {}
  BY DEF Hits
<1>2. \A c \in Cells : LastCover(<<>>, c[1], c[2]) = BLANK
  BY <1>1 DEF LastCover, Hits
<1>3. QED
  BY <1>1, <1>2 DEF HasLast

-----------------------------------------------------------------------------
(* Types *)

\* Blank screens, no frame and the cells of items have their types.
LEMMA BlankIsShown ==
    /\ BlankLive \in [Cells -> Shown]
    /\ NoFrame \in Frame
    /\ \A i \in Items : CellOf(i) \in Shown
    /\ MAX_COLS \in Nat \ {0} /\ MAX_ROWS \in Nat \ {0}
<1>1. BLANK \in Shown
  BY DEF Shown
<1>2. [n \in Indices |-> BLANK] \in [Indices -> Shown]
  BY <1>1
<1>3. MAX_COLS \in Nat \ {0} /\ MAX_ROWS \in Nat \ {0}
  BY CanvasAssumption DEF CanvasAssumption
<1> DEFINE cells == [n \in Indices |-> BLANK]
<1> HIDE DEF cells, Shown
<1>4. cells \in [Indices -> Shown]
  BY <1>2 DEF cells
<1>5. [cols |-> 0, rows |-> 0, active |-> FALSE, revision |-> 0, frames |-> 0, cell |-> cells] \in Frame
  BY <1>3, <1>4 DEF Frame
<1>6. NoFrame \in Frame
  BY <1>5 DEF NoFrame, cells
<1>7. \A i \in Items : CellOf(i) \in Shown
  BY DEF Shown
<1>8. QED
  BY <1>1, <1>3, <1>6, <1>7 DEF BlankLive

\* A size that the host API cannot carry never reaches the canvas.
LEMMA UsableSize ==
    ASSUME NEW size \in Reported
    PROVE  /\ Usable(size[1], MAX_COLS, SD_COLS) \in 1 .. MAX_COLS
           /\ Usable(size[2], MAX_ROWS, SD_ROWS) \in 1 .. MAX_ROWS
<1>1. size[1] \in Nat /\ size[2] \in Nat
  BY CanvasAssumption DEF CanvasAssumption
<1>2. /\ SD_COLS \in 1 .. MAX_COLS /\ SD_ROWS \in 1 .. MAX_ROWS
      /\ MAX_COLS \in Nat /\ MAX_ROWS \in Nat
  BY CanvasAssumption DEF CanvasAssumption
<1>3. QED
  BY <1>1, <1>2 DEF Usable

\* What a boot with the OSD leaves in the mirror and the frame.
LEMMA BootedCanvas ==
    ASSUME TypeOK, NEW size \in Reported, DisplayPortMspInit(size)
    PROVE  /\ gCols' \in 1 .. MAX_COLS /\ gRows' \in 1 .. MAX_ROWS
           /\ gLive' = BlankLive /\ gRevision' = gRevision + 1
           /\ gPublished' \in Frame
           /\ gPublished'.cols = gCols' /\ gPublished'.rows = gRows'
           /\ gPublished'.revision = gRevision' /\ gPublished'.cell = NoFrame.cell
           /\ gRealVTable' = "real" \/ gRealVTable' = gRealVTable
           /\ vTable' = "osd"
<1>1. gCols' \in 1 .. MAX_COLS /\ gRows' \in 1 .. MAX_ROWS
  BY UsableSize DEF DisplayPortMspInit
<1>2. gLive' = BlankLive /\ gRevision' = gRevision + 1 /\ vTable' = "osd" /\ gRevision' \in Nat
  BY DEF DisplayPortMspInit, TypeOK
<1>3. /\ gPublished' = [NoFrame EXCEPT !.cols = gCols', !.rows = gRows',
                                       !.active = TRUE, !.revision = gRevision']
  BY DEF DisplayPortMspInit
<1>4. NoFrame \in Frame
  BY BlankIsShown
<1>5. gCols' \in 0 .. MAX_COLS /\ gRows' \in 0 .. MAX_ROWS
  BY <1>1, BlankIsShown
<1> HIDE DEF NoFrame
<1>6. /\ gPublished' \in Frame
      /\ gPublished'.cols = gCols' /\ gPublished'.rows = gRows'
      /\ gPublished'.revision = gRevision' /\ gPublished'.cell = NoFrame.cell
  BY <1>2, <1>3, <1>4, <1>5 DEF Frame
<1>7. gRealVTable' = "real" \/ gRealVTable' = gRealVTable
  BY DEF DisplayPortMspInit, TypeOK
<1>8. QED
  BY <1>1, <1>2, <1>6, <1>7

\* A position that osdInit clamps stays a position.
LEMMA LesserInside ==
    ASSUME NEW v \in Nat, NEW max \in Nat, NEW size \in 1 .. max
    PROVE  Lesser(v, size - 1) \in Nat
BY DEF Lesser

\* Types of the canvas at start.
LEMMA TypesInit == Init => TypeOK
<1> SUFFICES ASSUME Init PROVE TypeOK
  OBVIOUS
<1>1. itemPos \in [Items -> [x : Nat, y : Nat, visible : BOOLEAN]]
  BY DEF Init, Hidden
<1>2. /\ gLive \in [Cells -> Shown] /\ gPublished \in Frame /\ hostFrame \in Frame
      /\ gCols \in 0 .. MAX_COLS /\ gRows \in 0 .. MAX_ROWS
  BY BlankIsShown DEF Init
<1>3. strokes \in Seq(Stroke) /\ committed \in Seq(Stroke)
  BY DEF Init
<1>4. QED
  BY <1>1, <1>2, <1>3 DEF Init, TypeOK

\* Every step keeps the types of the canvas.
LEMMA TypesNext == TypeOK /\ [CanvasNext]_vars => TypeOK'
<1> SUFFICES ASSUME TypeOK, [CanvasNext]_vars PROVE TypeOK'
  OBVIOUS
<1> USE DEF canvas, history
<1>0. /\ gCols \in 0 .. MAX_COLS /\ gRows \in 0 .. MAX_ROWS
      /\ gLive \in [Cells -> Shown] /\ gPublished \in Frame /\ hostFrame \in Frame
      /\ gRevision \in Nat /\ gFrameCount \in Nat
      /\ gRealVTable \in {"none", "real"} /\ vTable \in {"none", "osd"}
      /\ itemPos \in [Items -> [x : Nat, y : Nat, visible : BOOLEAN]]
      /\ task \in [at : {"off", "clear", "draw", "count"}, left : SUBSET Items]
      /\ activeItems \subseteq Items
      /\ strokes \in Seq(Stroke) /\ committed \in Seq(Stroke)
  BY DEF TypeOK
<1>1. ASSUME NEW size \in Reported, NEW stored \in BOOLEAN, NEW envOff \in BOOLEAN,
             Boot(size, stored, envOff)
      PROVE  TypeOK'
  <2>1. CASE EnableFeature(stored, envOff)
    <3>1. /\ DisplayPortMspInit(size)
          /\ itemPos' = [i \in Items |-> OnCanvas(itemPos[i])]
          /\ activeItems' = Visible(itemPos')
          /\ task' = [at |-> "clear", left |-> {}]
          /\ strokes' = <<>> /\ committed' = <<>> /\ hostFrame' = hostFrame
      BY <1>1, <2>1 DEF Boot
    <3>2. /\ gCols' \in 1 .. MAX_COLS /\ gRows' \in 1 .. MAX_ROWS
          /\ gLive' = BlankLive /\ gRevision' = gRevision + 1
          /\ gPublished' \in Frame
          /\ gRealVTable' = "real" \/ gRealVTable' = gRealVTable
          /\ vTable' = "osd"
      BY <3>1, BootedCanvas
    <3>3. \A p \in [x : Nat, y : Nat, visible : BOOLEAN] :
             OnCanvas(p) \in [x : Nat, y : Nat, visible : BOOLEAN]
      <4> SUFFICES ASSUME NEW p \in [x : Nat, y : Nat, visible : BOOLEAN]
                   PROVE  OnCanvas(p) \in [x : Nat, y : Nat, visible : BOOLEAN]
        OBVIOUS
      <4>1. Lesser(p.x, gCols' - 1) \in Nat /\ Lesser(p.y, gRows' - 1) \in Nat
        <5>1. MAX_COLS \in Nat /\ MAX_ROWS \in Nat
          BY BlankIsShown
        <5>2. p.x \in Nat /\ p.y \in Nat
          OBVIOUS
        <5>3. QED
          BY <3>2, <5>1, <5>2, LesserInside
      <4>2. QED
        BY <4>1 DEF OnCanvas
    <3>4. itemPos' \in [Items -> [x : Nat, y : Nat, visible : BOOLEAN]]
      BY <1>0, <3>1, <3>3
    <3>5. gFrameCount' = gFrameCount
      BY <3>1 DEF DisplayPortMspInit
    <3>6. BlankLive \in [Cells -> Shown] /\ MAX_COLS \in Nat /\ MAX_ROWS \in Nat
      BY BlankIsShown
    <3>7. gCols' \in 0 .. MAX_COLS /\ gRows' \in 0 .. MAX_ROWS /\ gRevision' \in Nat
      BY <1>0, <3>2, <3>6
    <3>8. activeItems' \subseteq Items
      BY <3>1 DEF Visible
    <3>9. QED
      BY <1>0, <3>1, <3>2, <3>4, <3>5, <3>6, <3>7, <3>8 DEF TypeOK
  <2>2. CASE ~EnableFeature(stored, envOff)
    BY <1>0, <1>1, <2>2 DEF Boot, TypeOK
  <2>3. QED
    BY <2>1, <2>2
<1>2. CASE WrapClearScreen
  BY <1>0, <1>2, BlankIsShown DEF WrapClearScreen, TypeOK
<1>3. ASSUME NEW i \in Items, DrawElement(i) PROVE TypeOK'
  <2>1. gLive' \in [Cells -> Shown]
    <3>1. gLive' = [c \in Cells |-> IF c \in Touched(i, itemPos[i]) THEN CellOf(i) ELSE gLive[c]]
          /\ CellOf(i) \in Shown
      BY <1>3, BlankIsShown DEF DrawElement
    <3>2. QED
      BY <1>0, <3>1
  <2>2. strokes' \in Seq(Stroke)
    <3>1. [item |-> i, x |-> itemPos[i].x, y |-> itemPos[i].y] \in Stroke
      BY <1>0 DEF Stroke
    <3> DEFINE s == [item |-> i, x |-> itemPos[i].x, y |-> itemPos[i].y]
    <3>2. strokes' = Append(strokes, s) /\ s \in Stroke
      BY <1>3, <3>1 DEF DrawElement
    <3> HIDE DEF s, Stroke
    <3>3. QED
      BY <1>0, <3>2
  <2>3. task' \in [at : {"off", "clear", "draw", "count"}, left : SUBSET Items]
    <3>1. task' = [task EXCEPT !.left = @ \ {i}]
      BY <1>3 DEF DrawElement
    <3>2. task.left \ {i} \in SUBSET Items
      BY <1>0
    <3>3. QED
      BY <1>0, <3>1, <3>2
  <2>4. QED
    BY <1>0, <1>3, <2>1, <2>2, <2>3 DEF DrawElement, TypeOK
<1>4. CASE WrapDrawScreen
  <2> DEFINE cells == [n \in Indices |->
                IF \E c \in Cells : InCanvas(c[1], c[2]) /\ Index(c[1], c[2]) = n
                THEN gLive[CHOOSE c \in Cells :
                                InCanvas(c[1], c[2]) /\ Index(c[1], c[2]) = n]
                ELSE gPublished.cell[n]]
  <2>1. /\ gPublished' = [gPublished EXCEPT
                !.cols = gCols, !.rows = gRows, !.active = TRUE,
                !.frames = gFrameCount, !.revision = gRevision', !.cell = cells]
        /\ gRevision' = gRevision + 1
        /\ task' = [task EXCEPT !.at = "count"] /\ committed' = strokes
    BY <1>4 DEF WrapDrawScreen
  <2>2. cells \in [Indices -> Shown]
    <3>1. gPublished.cell \in [Indices -> Shown]
      BY <1>0 DEF Frame
    <3>2. \A n \in Indices : gPublished.cell[n] \in Shown
      BY <3>1
    <3>3. \A n \in Indices :
             (\E c \in Cells : InCanvas(c[1], c[2]) /\ Index(c[1], c[2]) = n) =>
             (CHOOSE c \in Cells : InCanvas(c[1], c[2]) /\ Index(c[1], c[2]) = n) \in Cells
      BY Zenon
    <3>4. \A c \in Cells : gLive[c] \in Shown
      BY <1>0
    <3>5. \A n \in Indices :
             (IF \E c \in Cells : InCanvas(c[1], c[2]) /\ Index(c[1], c[2]) = n
              THEN gLive[CHOOSE c \in Cells : InCanvas(c[1], c[2]) /\ Index(c[1], c[2]) = n]
              ELSE gPublished.cell[n]) \in Shown
      BY <3>2, <3>3, <3>4, Zenon
    <3>6. QED
      BY <3>5
  <2> HIDE DEF cells
  <2>3. gPublished' \in Frame
    <3>1. gRevision' \in Nat
      BY <1>0, <2>1
    <3>2. [cols |-> gCols, rows |-> gRows, active |-> TRUE, revision |-> gRevision',
           frames |-> gFrameCount, cell |-> cells] \in Frame
      BY <1>0, <2>2, <3>1 DEF Frame
    <3>3. gPublished' = [cols |-> gCols, rows |-> gRows, active |-> TRUE, revision |-> gRevision',
                         frames |-> gFrameCount, cell |-> cells]
      BY <1>0, <2>1 DEF Frame
    <3>4. QED
      BY <3>2, <3>3
  <2>4. task' \in [at : {"off", "clear", "draw", "count"}, left : SUBSET Items]
    BY <1>0, <2>1
  <2>5. UNCHANGED <<gCols, gRows, gLive, hostFrame, gFrameCount, gRealVTable, vTable,
                    itemPos, activeItems, strokes>>
    BY <1>4 DEF WrapDrawScreen
  <2>6. gRevision' \in Nat /\ committed' \in Seq(Stroke)
    BY <1>0, <2>1
  <2>7. QED
    BY <1>0, <2>3, <2>4, <2>5, <2>6 DEF TypeOK
<1>5. CASE CountFrame
  <2>1. task' \in [at : {"off", "clear", "draw", "count"}, left : SUBSET Items]
    BY <1>0, <1>5 DEF CountFrame
  <2>2. gFrameCount' \in Nat
    BY <1>0, <1>5 DEF CountFrame
  <2>3. UNCHANGED <<gCols, gRows, gLive, gPublished, hostFrame, gRevision, gRealVTable, vTable,
                    itemPos, activeItems, strokes, committed>>
    BY <1>5 DEF CountFrame
  <2>4. QED
    BY <1>0, <2>1, <2>2, <2>3 DEF TypeOK
<1>6. ASSUME NEW i \in Items, NEW col \in Inputs, NEW row \in Inputs, NEW visible \in BOOLEAN,
             SetElement(i, col, row, visible)
      PROVE  TypeOK'
  <2>1. itemPos' = [itemPos EXCEPT ![i] =
            [x |-> Clamp(col, gCols), y |-> Clamp(row, gRows), visible |-> visible]]
    BY <1>6 DEF SetElement
  <2>2. Clamp(col, gCols) \in Nat /\ Clamp(row, gRows) \in Nat
    <3>1. col \in Int /\ row \in Int /\ gCols \in Nat /\ gRows \in Nat
      BY <1>0, BlankIsShown, CanvasAssumption DEF CanvasAssumption
    <3>2. QED
      BY <3>1 DEF Clamp
  <2> DEFINE p == [x |-> Clamp(col, gCols), y |-> Clamp(row, gRows), visible |-> visible]
  <2>3. p \in [x : Nat, y : Nat, visible : BOOLEAN]
    BY <2>2
  <2>4. itemPos' = [itemPos EXCEPT ![i] = p]
    BY <2>1
  <2> HIDE DEF p
  <2>5. itemPos' \in [Items -> [x : Nat, y : Nat, visible : BOOLEAN]]
    BY <1>0, <2>3, <2>4
  <2>6. activeItems' \subseteq Items
    BY <1>6 DEF SetElement, Visible
  <2>7. QED
    BY <1>0, <1>6, <2>5, <2>6 DEF SetElement, TypeOK
<1>7. CASE Poll
  BY <1>0, <1>7 DEF Poll, TypeOK
<1>8. CASE UNCHANGED vars
  BY <1>0, <1>8 DEF vars, TypeOK
<1>9. QED
  BY <1>1, <1>2, <1>3, <1>4, <1>5, <1>6, <1>7, <1>8 DEF CanvasNext

-----------------------------------------------------------------------------
(* Every step keeps the invariant *)

\* A boot, with the OSD or without, keeps the invariant of the canvas.
LEMMA BootCanvas ==
    ASSUME CanvasInv, NEW size \in Reported, NEW stored \in BOOLEAN, NEW envOff \in BOOLEAN,
           Boot(size, stored, envOff)
    PROVE  (HasLast(strokes) /\ LiveShowsStrokes /\ PublishedShowsCommitted /\ RevisionsGrow)'
<1>1. CASE EnableFeature(stored, envOff)
  <2>1. DisplayPortMspInit(size) /\ strokes' = <<>> /\ committed' = <<>> /\ hostFrame' = hostFrame
    BY <1>1 DEF Boot
  <2>2. /\ gLive' = BlankLive /\ gRevision' = gRevision + 1
        /\ gPublished'.cols = gCols' /\ gPublished'.rows = gRows'
        /\ gPublished'.revision = gRevision' /\ gPublished'.cell = NoFrame.cell
    BY <2>1, BootedCanvas DEF CanvasInv
  <2>3. HasLast(strokes')
    BY <2>1, NothingDrawn
  <2>4. \A c \in Cells : gLive'[c] = BLANK /\ LastCover(strokes', c[1], c[2]) = BLANK
                         /\ LastCover(committed', c[1], c[2]) = BLANK
    BY <2>1, <2>2, NothingDrawn DEF BlankLive
  <2>5. LiveShowsStrokes'
    BY <2>4 DEF LiveShowsStrokes
  <2>6. \A c \in Cells : gPublished'.cell[Index(c[1], c[2])] = BLANK
    <3>1. \A n \in Indices : NoFrame.cell[n] = BLANK
      BY DEF NoFrame
    <3>2. QED
      BY <2>2, <3>1, IndexInRange
  <2>7. PublishedShowsCommitted'
    BY <2>2, <2>4, <2>6 DEF PublishedShowsCommitted
  <2>8. RevisionsGrow'
    <3>1. hostFrame.revision \in Nat /\ gRevision \in Nat /\ hostFrame.revision <= gRevision
      BY DEF CanvasInv, TypeOK, RevisionsGrow, Frame
    <3>2. hostFrame'.revision = hostFrame.revision
      BY <2>1
    <3>3. hostFrame'.revision <= gRevision' /\ hostFrame'.revision # gRevision'
      BY <2>2, <3>1, <3>2
    <3>4. QED
      BY <2>2, <3>3 DEF RevisionsGrow
  <2>9. QED
    BY <2>3, <2>5, <2>7, <2>8
<1>2. CASE ~EnableFeature(stored, envOff)
  BY <1>2 DEF Boot, CanvasInv, canvas, history, LiveShowsStrokes, PublishedShowsCommitted,
     RevisionsGrow, InCanvas
<1>3. QED
  BY <1>1, <1>2

\* One element: the mirror and the strokes agree again, within the canvas.
LEMMA DrawCanvas ==
    ASSUME CanvasInv, NEW i \in Items, DrawElement(i)
    PROVE  HasLast(strokes)' /\ LiveShowsStrokes'
<1> DEFINE p == itemPos[i]
           s == [item |-> i, x |-> p.x, y |-> p.y]
<1>1. /\ gLive' = [c \in Cells |-> IF c \in Touched(i, p) THEN CellOf(i) ELSE gLive[c]]
      /\ strokes' = Append(strokes, s)
      /\ gCols' = gCols /\ gRows' = gRows
  BY DEF DrawElement
<1>2. strokes \in Seq(Stroke) /\ HasLast(strokes)
  BY DEF CanvasInv, TypeOK
<1>3. s \in Stroke
  BY DEF CanvasInv, TypeOK, Stroke
<1>4. \A c \in Cells : c \in Touched(i, p) <=> InCanvas(c[1], c[2]) /\ Covers(s, c[1], c[2])
  BY DEF Touched, Covers
<1>5. s.item = i
  OBVIOUS
<1> HIDE DEF s, p
<1>6. \A c \in Cells :
        /\ LastCover(strokes', c[1], c[2]) =
             IF Covers(s, c[1], c[2]) THEN CellOf(i) ELSE LastCover(strokes, c[1], c[2])
        /\ Hits(strokes', c) # {} => \E n \in Hits(strokes', c) : \A m \in Hits(strokes', c) : m <= n
  BY <1>1, <1>2, <1>3, <1>5, LastCoverAppend
<1>7. HasLast(strokes')
  BY <1>6 DEF HasLast
<1>8. ASSUME NEW c \in Cells
      PROVE  gLive'[c] = IF InCanvas(c[1], c[2]) THEN LastCover(strokes', c[1], c[2]) ELSE BLANK
  <2>1. gLive[c] = IF InCanvas(c[1], c[2]) THEN LastCover(strokes, c[1], c[2]) ELSE BLANK
    BY DEF CanvasInv, LiveShowsStrokes
  <2>2. gLive'[c] = IF c \in Touched(i, p) THEN CellOf(i) ELSE gLive[c]
    BY <1>1
  <2>3. QED
    BY <1>4, <1>6, <2>1, <2>2
<1>9. LiveShowsStrokes'
  BY <1>1, <1>8 DEF LiveShowsStrokes, InCanvas
<1>10. QED
  BY <1>7, <1>9

\* A publish packs the mirror: each cell of the canvas lands at its own place
\* and what lies outside it stays blank.
LEMMA DrawScreenCanvas ==
    ASSUME CanvasInv, WrapDrawScreen
    PROVE  PublishedShowsCommitted' /\ RevisionsGrow'
<1> DEFINE At(c) == InCanvas(c[1], c[2])
           cells == [n \in Indices |->
              IF \E c \in Cells : InCanvas(c[1], c[2]) /\ Index(c[1], c[2]) = n
              THEN gLive[CHOOSE c \in Cells : InCanvas(c[1], c[2]) /\ Index(c[1], c[2]) = n]
              ELSE gPublished.cell[n]]
<1>1. /\ gPublished' = [gPublished EXCEPT
              !.cols = gCols, !.rows = gRows, !.active = TRUE,
              !.frames = gFrameCount, !.revision = gRevision', !.cell = cells]
      /\ gRevision' = gRevision + 1 /\ committed' = strokes
      /\ UNCHANGED <<gCols, gRows, hostFrame>>
  BY DEF WrapDrawScreen
<1>2. gPublished \in Frame /\ gRevision \in Nat /\ hostFrame \in Frame
  BY DEF CanvasInv, TypeOK
<1>3. ASSUME NEW c \in Cells
      PROVE  cells[Index(c[1], c[2])] =
               IF InCanvas(c[1], c[2]) THEN LastCover(strokes, c[1], c[2]) ELSE BLANK
  <2> DEFINE n == Index(c[1], c[2])
  <2>1. n \in Indices
    BY IndexInRange
  <2>2. \A d \in Cells : Index(d[1], d[2]) = n => d = c
    BY IndexInjective
  <2> HIDE DEF n
  <2>3. cells[n] = IF \E d \in Cells : InCanvas(d[1], d[2]) /\ Index(d[1], d[2]) = n
                   THEN gLive[CHOOSE d \in Cells : InCanvas(d[1], d[2]) /\ Index(d[1], d[2]) = n]
                   ELSE gPublished.cell[n]
    BY <2>1
  <2> HIDE DEF cells
  <2>4. CASE InCanvas(c[1], c[2])
    <3>1. InCanvas(c[1], c[2]) /\ Index(c[1], c[2]) = n
      BY <2>4 DEF n
    <3>2. (CHOOSE d \in Cells : InCanvas(d[1], d[2]) /\ Index(d[1], d[2]) = n) = c
      BY <2>2, <3>1
    <3>3. cells[n] = gLive[c]
      BY <2>3, <3>1, <3>2
    <3>4. gLive[c] = LastCover(strokes, c[1], c[2])
      BY <2>4 DEF CanvasInv, LiveShowsStrokes
    <3>5. QED
      BY <2>4, <3>3, <3>4 DEF n
  <2>5. CASE ~InCanvas(c[1], c[2])
    <3>1. ~\E d \in Cells : InCanvas(d[1], d[2]) /\ Index(d[1], d[2]) = n
      BY <2>2, <2>5
    <3>2. cells[n] = gPublished.cell[n]
      BY <2>3, <3>1
    <3>3. gPublished.cell[Index(c[1], c[2])] = BLANK
      BY <2>5 DEF CanvasInv, PublishedShowsCommitted
    <3>4. QED
      BY <2>5, <3>2, <3>3 DEF n
  <2>6. QED
    BY <2>4, <2>5
<1> HIDE DEF cells
<1>4. /\ gPublished'.cols = gCols /\ gPublished'.rows = gRows
      /\ gPublished'.revision = gRevision' /\ gPublished'.cell = cells
  BY <1>1, <1>2 DEF Frame
<1>5. PublishedShowsCommitted'
  BY <1>1, <1>3, <1>4 DEF PublishedShowsCommitted, InCanvas
<1>6. RevisionsGrow'
  <2>1. hostFrame.revision \in Nat /\ hostFrame.revision <= gRevision
    BY <1>2 DEF Frame, CanvasInv, RevisionsGrow
  <2>2. hostFrame'.revision = hostFrame.revision
    BY <1>1
  <2>3. hostFrame'.revision <= gRevision' /\ hostFrame'.revision # gRevision'
    BY <1>1, <1>2, <2>1, <2>2
  <2>4. QED
    BY <1>4, <2>3 DEF RevisionsGrow
<1>7. QED
  BY <1>5, <1>6

\* Every step keeps the invariant of the canvas.
LEMMA CanvasInvNext == CanvasInv /\ [CanvasNext]_vars => CanvasInv'
<1> SUFFICES ASSUME CanvasInv, [CanvasNext]_vars
             PROVE  (HasLast(strokes) /\ LiveShowsStrokes /\ PublishedShowsCommitted /\ RevisionsGrow)'
  BY TypesNext DEF CanvasInv
<1> USE DEF canvas, history
<1>0. HasLast(strokes) /\ LiveShowsStrokes /\ PublishedShowsCommitted /\ RevisionsGrow
  BY DEF CanvasInv
<1>a. ASSUME UNCHANGED strokes PROVE HasLast(strokes)'
  BY <1>0, <1>a
<1>b. ASSUME UNCHANGED <<gCols, gRows, gLive, strokes>> PROVE LiveShowsStrokes'
  BY <1>0, <1>b DEF LiveShowsStrokes, InCanvas
<1>c. ASSUME UNCHANGED <<gCols, gRows, gPublished, committed>> PROVE PublishedShowsCommitted'
  BY <1>0, <1>c DEF PublishedShowsCommitted, InCanvas
<1>d. ASSUME UNCHANGED <<gPublished, gRevision, hostFrame>> PROVE RevisionsGrow'
  BY <1>0, <1>d DEF RevisionsGrow
<1>1. ASSUME NEW size \in Reported, NEW stored \in BOOLEAN, NEW envOff \in BOOLEAN,
             Boot(size, stored, envOff)
      PROVE  (HasLast(strokes) /\ LiveShowsStrokes /\ PublishedShowsCommitted /\ RevisionsGrow)'
  BY <1>1, BootCanvas
<1>2. CASE WrapClearScreen
  <2>1. gLive' = BlankLive /\ strokes' = <<>>
    BY <1>2 DEF WrapClearScreen
  <2>2. HasLast(strokes') /\ LiveShowsStrokes'
    BY <2>1, NothingDrawn DEF LiveShowsStrokes, BlankLive
  <2>3. QED
    BY <1>2, <1>c, <1>d, <2>2 DEF WrapClearScreen
<1>3. ASSUME NEW i \in Items, DrawElement(i)
      PROVE  (HasLast(strokes) /\ LiveShowsStrokes /\ PublishedShowsCommitted /\ RevisionsGrow)'
  <2>1. HasLast(strokes)' /\ LiveShowsStrokes'
    BY <1>3, DrawCanvas
  <2>2. QED
    BY <1>3, <1>c, <1>d, <2>1 DEF DrawElement
<1>4. CASE WrapDrawScreen
  <2>1. PublishedShowsCommitted' /\ RevisionsGrow'
    BY <1>4, DrawScreenCanvas
  <2>2. QED
    BY <1>4, <1>a, <1>b, <2>1 DEF WrapDrawScreen
<1>5. CASE CountFrame
  BY <1>5, <1>a, <1>b, <1>c, <1>d DEF CountFrame
<1>6. ASSUME NEW i \in Items, NEW col \in Inputs, NEW row \in Inputs, NEW visible \in BOOLEAN,
             SetElement(i, col, row, visible)
      PROVE  (HasLast(strokes) /\ LiveShowsStrokes /\ PublishedShowsCommitted /\ RevisionsGrow)'
  BY <1>6, <1>a, <1>b, <1>c, <1>d DEF SetElement
<1>7. CASE Poll
  <2>1. hostFrame' \in {hostFrame, gPublished} /\ UNCHANGED canvas
    BY <1>7 DEF Poll
  <2>2. gRevision \in Nat
    BY DEF CanvasInv, TypeOK
  <2>3. RevisionsGrow'
    BY <1>0, <2>1, <2>2 DEF RevisionsGrow
  <2>4. QED
    BY <1>7, <1>a, <1>b, <1>c, <2>3 DEF Poll
<1>8. CASE UNCHANGED vars
  BY <1>8, <1>a, <1>b, <1>c, <1>d DEF vars
<1>9. QED
  BY <1>1, <1>2, <1>3, <1>4, <1>5, <1>6, <1>7, <1>8 DEF CanvasNext

\* It holds at start.
LEMMA CanvasInvInit == Init => CanvasInv
<1> SUFFICES ASSUME Init PROVE HasLast(strokes) /\ LiveShowsStrokes /\ PublishedShowsCommitted /\ RevisionsGrow
  BY TypesInit DEF CanvasInv
<1>1. HasLast(strokes) /\ \A c \in Cells : LastCover(strokes, c[1], c[2]) = BLANK
  BY NothingDrawn DEF Init
<1>2. gLive = BlankLive /\ gPublished = NoFrame /\ hostFrame = NoFrame /\ gRevision = 0
      /\ committed = strokes /\ gCols = 0 /\ gRows = 0
  BY DEF Init
<1>3. LiveShowsStrokes
  BY <1>1, <1>2 DEF LiveShowsStrokes, BlankLive
<1>4. NoFrame.revision = 0 /\ NoFrame.cols = 0 /\ NoFrame.rows = 0
      /\ \A n \in Indices : NoFrame.cell[n] = BLANK
  BY DEF NoFrame
<1>5. PublishedShowsCommitted
  BY <1>1, <1>2, <1>4, IndexInRange DEF PublishedShowsCommitted
<1>6. RevisionsGrow
  BY <1>2, <1>4 DEF RevisionsGrow
<1>7. QED
  BY <1>1, <1>3, <1>5, <1>6

\* The invariant of the canvas holds in every reachable state.
THEOREM CanvasInvariance == CanvasSpec => []CanvasInv
BY CanvasInvInit, CanvasInvNext, PTL DEF CanvasSpec

\* The host is offered the last committed screen, cell for cell, at the places
\* of the frame's layout, and nothing of an earlier or larger canvas.
THEOREM ScreenIsPublished == CanvasSpec => []PublishedIsTheCommittedScreen
<1>1. CanvasInv => PublishedIsTheCommittedScreen
  BY DEF CanvasInv, PublishedShowsCommitted, PublishedIsTheCommittedScreen, Index, InCanvas
<1>2. QED
  BY CanvasInvariance, <1>1, PTL

\* A host that skips the copy because the revision did not move misses nothing,
\* through commits, edits and restarts with another canvas.
THEOREM RevisionIsAName == CanvasSpec => []RevisionNamesOneFrame
<1>1. CanvasInv => RevisionNamesOneFrame
  BY DEF CanvasInv, RevisionsGrow, RevisionNamesOneFrame
<1>2. QED
  BY CanvasInvariance, <1>1, PTL

-----------------------------------------------------------------------------
(* The font: what the cache, the scratch buffer and the getter hold for whom *)

AllBelongTo(f, p) == \A c \in Chars : BelongsTo(f[c], p)

\* What the lock lets a getter rely on: the cache belongs to the path that its
\* call read, for only a getter moves it.
GetterKnowsPath ==
    /\ getter.at \in {"files", "adopt"} => gFontPath = getter.new
    /\ getter.load => getter.new \in Aircraft

\* The characters seen are of the aircraft the cache belongs to; a pending font
\* is so with all its bytes, even when a new upload has dropped the bitmap.
CacheOwned ==
    /\ \A c \in gFontSeen : BelongsTo(gFontBytes[c], gFontPath)
    /\ gFontPendingSave => AllBelongTo(gFontBytes, gFontPath)

\* The scratch buffer between two sections of a getter.
ScratchOwned ==
    /\ getter.at = "files" /\ getter.save => AllBelongTo(gFontSaveScratch, getter.old)
    /\ getter.at = "adopt" => AllBelongTo(gFontSaveScratch, getter.new)

FilesOwned == \A a \in Aircraft : files[a] # NoFont => AllBelongTo(files[a], a)

OwnInv == FontTypeOK /\ GetterKnowsPath /\ CacheOwned /\ ScratchOwned /\ FilesOwned

\* While a font is being flashed, what has been seen is of this upload and lies
\* below the next address: a bitmap cleared in the middle is never filled again.
FlashedSoFar ==
    Uploading => \A c \in gFontSeen : c < upload.next /\ Origin(gFontBytes[c]) = <<"flashed", upload.font>>

\* Every copy that the host or the disk can be given is whole.
WholeCopies ==
    /\ Complete => Whole(gFontBytes)
    /\ getter.at = "files" /\ getter.save => Whole(gFontSaveScratch)
    /\ getter.at = "adopt" => Whole(gFontSaveScratch)
    /\ hostFont # NoFont => Whole(hostFont)
    /\ \A a \in Aircraft : files[a] # NoFont => Whole(files[a])

TearInv == lateSave \/ lateLoad \/ (FlashedSoFar /\ WholeCopies)

-----------------------------------------------------------------------------
(* Types *)

\* A character that is flashed has a source.
LEMMA FlashedIsSource ==
    ASSUME NEW u \in 1 .. MaxUploads, NEW p \in Paths
    PROVE  Flashed(u, p) \in Sources
BY DEF Sources

\* Fonts and files that are replaced keep their types.
LEMMA NewFontAndFile ==
    ASSUME NEW f \in Fonts, NEW g \in [Aircraft -> Fonts \cup {NoFont}], NEW a \in Aircraft
    PROVE  /\ [g EXCEPT ![a] = f] \in [Aircraft -> Fonts \cup {NoFont}]
           /\ [g EXCEPT ![a] = NoFont] \in [Aircraft -> Fonts \cup {NoFont}]
<1> HIDE DEF Fonts, NoFont
<1>1. QED
  OBVIOUS

\* The empty cache is a font.
LEMMA ZerosAreAFont == OneFont(Zeros) \in Fonts
<1>1. Zeros \in Sources
  BY DEF Sources
<1>2. QED
  BY <1>1 DEF OneFont, Fonts

\* Types of the font at start.
LEMMA FontTypesInit == FontInit => FontTypeOK
<1> SUFFICES ASSUME FontInit PROVE FontTypeOK
  OBVIOUS
<1>1. OneFont(Zeros) \in Fonts
  BY ZerosAreAFont
<1>2. files \in [Aircraft -> Fonts \cup {NoFont}]
  <2>1. \A a \in Aircraft : OneFont(StoredFont(a)) \in Fonts
    BY DEF Sources, OneFont, Fonts
  <2> HIDE DEF Fonts
  <2>2. QED
    BY <2>1 DEF FontInit
<1>3. upload \in [font : -MaxUploads .. MaxUploads, next : Chars]
  BY FontAssumption DEF FontInit, NoUpload, FontAssumption, Chars
<1>4. getter \in [at : {"idle", "files", "adopt", "read"}, call : {"none", "revision", "font"},
                  old : Paths, new : Paths, save : BOOLEAN, load : BOOLEAN]
  BY DEF FontInit, Idle, Paths
<1>5. gFontSeen \subseteq Chars /\ gFontRevision \in Nat /\ gFontPendingSave \in BOOLEAN
  BY DEF FontInit
<1>6. envPath \in Paths /\ gFontPath \in Paths
  BY DEF FontInit, Paths
<1>7. QED
  BY <1>1, <1>2, <1>3, <1>4, <1>5, <1>6 DEF FontInit, FontTypeOK

\* Every step keeps the types of the font.
LEMMA FontTypesNext == FontTypeOK /\ GetterKnowsPath /\ [FontNext]_fontVars => FontTypeOK'
<1> SUFFICES ASSUME FontTypeOK, GetterKnowsPath, [FontNext]_fontVars PROVE FontTypeOK'
  OBVIOUS
<1> USE DEF cache, host, bounds, fontHistory
<1>0. /\ envPath \in Paths /\ gFontPath \in Paths
      /\ files \in [Aircraft -> Fonts \cup {NoFont}]
      /\ gFontBytes \in Fonts /\ gFontSeen \subseteq Chars
      /\ gFontRevision \in Nat /\ gFontPendingSave \in BOOLEAN
      /\ upload \in [font : -MaxUploads .. MaxUploads, next : Chars]
      /\ getter \in [at : {"idle", "files", "adopt", "read"}, call : {"none", "revision", "font"},
                     old : Paths, new : Paths, save : BOOLEAN, load : BOOLEAN]
      /\ gFontSaveScratch \in Fonts
      /\ hostFont \in Fonts \cup {NoFont}
      /\ upload.font \in -MaxUploads .. MaxUploads /\ upload.next \in Chars
      /\ MaxUploads \in Nat /\ CharCount \in Nat \ {0}
  BY FontAssumption DEF FontTypeOK, FontAssumption
<1>1. CASE WriteFontCharacter
  <2> DEFINE source == Flashed(upload.font, gFontPath)
  <2>1. source \in Sources
    BY <1>0, <1>1, FlashedIsSource DEF WriteFontCharacter
  <2>2. gFontBytes' = [gFontBytes EXCEPT ![upload.next] = source]
    BY <1>1 DEF WriteFontCharacter, CacheCharacter
  <2> HIDE DEF source
  <2>3. gFontBytes' \in Fonts
    BY <1>0, <2>1, <2>2 DEF Fonts
  <2>4. gFontSeen' \subseteq Chars /\ gFontRevision' \in Nat
    BY <1>0, <1>1 DEF WriteFontCharacter, CacheCharacter
  <2>5. gFontPendingSave' \in BOOLEAN
    BY <1>1, Zenon DEF WriteFontCharacter, CacheCharacter
  <2>6. (upload.next + 1) % CharCount \in Chars
    BY <1>0 DEF Chars
  <2>7. upload' \in [font : -MaxUploads .. MaxUploads, next : Chars]
    <3>1. upload' = [upload EXCEPT !.next = (@ + 1) % CharCount,
                                   !.font = IF upload.next + 1 = CharCount THEN -@ ELSE @]
      BY <1>1 DEF WriteFontCharacter
    <3>2. -upload.font \in -MaxUploads .. MaxUploads
      BY <1>0
    <3> HIDE DEF Chars
    <3>3. QED
      BY <1>0, <2>6, <3>1, <3>2
  <2>8. QED
    BY <1>0, <1>1, <2>3, <2>4, <2>5, <2>7 DEF WriteFontCharacter, FontTypeOK
<1>2. CASE StartUpload
  <2>1. upload' = [font |-> 1 - upload.font, next |-> 0] /\ upload.font <= 0 /\ -upload.font < MaxUploads
    BY <1>2 DEF StartUpload
  <2>2. upload' \in [font : -MaxUploads .. MaxUploads, next : Chars]
    BY <1>0, <2>1 DEF Chars
  <2>3. QED
    BY <1>0, <1>2, <2>2 DEF StartUpload, FontTypeOK
<1>3. CASE AbortUpload
  <2>1. upload' = [font |-> -upload.font, next |-> 0]
    BY <1>3 DEF AbortUpload
  <2>2. upload' \in [font : -MaxUploads .. MaxUploads, next : Chars]
    BY <1>0, <2>1 DEF Chars
  <2>3. QED
    BY <1>0, <1>3, <2>2 DEF AbortUpload, FontTypeOK
<1>4. ASSUME NEW p \in Paths, SwitchAircraft(p) PROVE FontTypeOK'
  BY <1>0, <1>4 DEF SwitchAircraft, FontTypeOK
<1>5. CASE PollFont
  <2>1. PICK call \in {"font", "revision"} : SyncWithPath(call)
    BY <1>5 DEF PollFont
  <2>2. getter' = [at |-> "files", call |-> call, old |-> gFontPath, new |-> envPath,
                   save |-> gFontPendingSave, load |-> envPath # gFontPath /\ envPath # NoPath]
    BY <2>1 DEF SyncWithPath
  <2>3. (envPath # gFontPath /\ envPath # NoPath) \in BOOLEAN
    OBVIOUS
  <2>4. getter' \in [at : {"idle", "files", "adopt", "read"}, call : {"none", "revision", "font"},
                     old : Paths, new : Paths, save : BOOLEAN, load : BOOLEAN]
    BY <1>0, <2>2, <2>3
  <2>5. QED
    BY <1>0, <2>1, <2>4 DEF SyncWithPath, FontTypeOK
<1>6. CASE SyncFiles
  <2>1. files' \in [Aircraft -> Fonts \cup {NoFont}]
    <3>1. CASE getter.save /\ SavePath # NoPath
      <4>1. getter.old \in Aircraft
        BY <1>0, <3>1 DEF SavePath, Paths
      <4>2. \/ files' = [files EXCEPT ![getter.old] = gFontSaveScratch]
            \/ files' = files \/ files' = [files EXCEPT ![getter.old] = NoFont]
        BY <1>6, <3>1 DEF SyncFiles, SaveFont, SavePath
      <4>3. QED
        BY <1>0, <4>1, <4>2, NewFontAndFile
    <3>2. CASE ~(getter.save /\ SavePath # NoPath)
      BY <1>0, <1>6, <3>2 DEF SyncFiles, SaveFont
    <3>3. QED
      BY <3>1, <3>2
  <2>2. /\ getter' \in {[getter EXCEPT !.at = "adopt"], [getter EXCEPT !.at = "read"]}
        /\ gFontSaveScratch' = gFontSaveScratch \/ gFontSaveScratch' = files[getter.new]
    BY <1>6 DEF SyncFiles
  <2>3. gFontSaveScratch' \in Fonts
    <3>1. CASE getter.load /\ files[getter.new] # NoFont
      <4>1. getter.new \in Aircraft /\ gFontSaveScratch' = files[getter.new]
        BY <1>6, <3>1 DEF SyncFiles, GetterKnowsPath
      <4> HIDE DEF Fonts, NoFont
      <4>2. QED
        BY <1>0, <3>1, <4>1
    <3>2. CASE ~(getter.load /\ files[getter.new] # NoFont)
      BY <1>0, <1>6, <3>2 DEF SyncFiles
    <3>3. QED
      BY <3>1, <3>2
  <2>4. getter' \in [at : {"idle", "files", "adopt", "read"}, call : {"none", "revision", "font"},
                     old : Paths, new : Paths, save : BOOLEAN, load : BOOLEAN]
    BY <1>0, <2>2
  <2>5. QED
    BY <1>0, <1>6, <2>1, <2>3, <2>4 DEF SyncFiles, FontTypeOK
<1>7. CASE AdoptStored
  BY <1>0, <1>7 DEF AdoptStored, FontTypeOK
<1>8. CASE ReturnRevision
  <2>1. getter' = Idle \/ getter' = [Idle EXCEPT !.call = "font"]
    BY <1>8 DEF ReturnRevision
  <2>2. getter' \in [at : {"idle", "files", "adopt", "read"}, call : {"none", "revision", "font"},
                     old : Paths, new : Paths, save : BOOLEAN, load : BOOLEAN]
    <3>1. Idle \in [at : {"idle", "files", "adopt", "read"}, call : {"none", "revision", "font"},
                   old : Paths, new : Paths, save : BOOLEAN, load : BOOLEAN]
      BY DEF Idle, Paths
    <3> HIDE DEF Idle
    <3>2. QED
      BY <2>1, <3>1
  <2>3. QED
    BY <1>0, <1>8, <2>2 DEF ReturnRevision, FontTypeOK
<1>9. CASE ReturnFont
  <2>1. getter' \in [at : {"idle", "files", "adopt", "read"}, call : {"none", "revision", "font"},
                     old : Paths, new : Paths, save : BOOLEAN, load : BOOLEAN]
    BY <1>9 DEF ReturnFont, Idle, Paths
  <2>2. QED
    BY <1>0, <1>9, <2>1 DEF ReturnFont, FontTypeOK
<1>10. CASE Restart
  <2>1. getter' \in [at : {"idle", "files", "adopt", "read"}, call : {"none", "revision", "font"},
                     old : Paths, new : Paths, save : BOOLEAN, load : BOOLEAN]
    BY <1>10 DEF Restart, Idle, Paths
  <2>2. upload' \in [font : -MaxUploads .. MaxUploads, next : Chars]
    BY <1>0, <1>10 DEF Restart, Chars
  <2>3. OneFont(Zeros) \in Fonts /\ NoPath \in Paths
    BY ZerosAreAFont DEF Paths
  <2>4. QED
    BY <1>0, <1>10, <2>1, <2>2, <2>3 DEF Restart, FontTypeOK
<1>11. CASE UNCHANGED fontVars
  BY <1>0, <1>11 DEF fontVars, FontTypeOK
<1>12. QED
  BY <1>1, <1>2, <1>3, <1>4, <1>5, <1>6, <1>7, <1>8, <1>9, <1>10, <1>11 DEF FontNext

-----------------------------------------------------------------------------
(* Fonts do not travel *)

\* What holds of two fonts holds of a file that gets either of them.
LEMMA SaveKeepsOwners ==
    ASSUME OwnInv, getter.at = "files", SaveFont
    PROVE  FilesOwned'
<1>1. files \in [Aircraft -> Fonts \cup {NoFont}] /\ gFontSaveScratch \in Fonts
  BY DEF OwnInv, FontTypeOK
<1>2. CASE getter.save /\ SavePath # NoPath
  <2> DEFINE b == getter.old
  <2>1. b \in Aircraft
    BY <1>2 DEF OwnInv, FontTypeOK, SavePath, Paths
  <2>2. AllBelongTo(gFontSaveScratch, b)
    BY <1>2 DEF OwnInv, ScratchOwned
  <2>3. \/ files' = [files EXCEPT ![b] = gFontSaveScratch]
        \/ files' = files
        \/ files' = [files EXCEPT ![b] = NoFont]
    BY <1>2 DEF SaveFont, SavePath
  <2> HIDE DEF b, NoFont, Fonts
  <2>4. SUFFICES ASSUME NEW a \in Aircraft, files'[a] # NoFont PROVE AllBelongTo(files'[a], a)
    BY DEF FilesOwned
  <2>5. files'[a] = files[a] \/ (a = b /\ files'[a] = gFontSaveScratch)
    BY <1>1, <2>1, <2>3, <2>4
  <2>6. QED
    BY <2>2, <2>4, <2>5 DEF OwnInv, FilesOwned
<1>3. CASE ~(getter.save /\ SavePath # NoPath)
  BY <1>3 DEF SaveFont, OwnInv, FilesOwned
<1>4. QED
  BY <1>2, <1>3

\* Every step keeps characters with their aircraft.
LEMMA OwnNext == OwnInv /\ [FontNext]_fontVars => OwnInv'
<1> SUFFICES ASSUME OwnInv, [FontNext]_fontVars
             PROVE  (GetterKnowsPath /\ CacheOwned /\ ScratchOwned /\ FilesOwned)'
  BY FontTypesNext DEF OwnInv
<1> USE DEF cache, host, bounds, fontHistory
<1>0. /\ GetterKnowsPath /\ CacheOwned /\ ScratchOwned /\ FilesOwned
      /\ envPath \in Paths /\ gFontPath \in Paths /\ gFontBytes \in Fonts
      /\ gFontSeen \subseteq Chars /\ gFontPendingSave \in BOOLEAN
      /\ upload.font \in -MaxUploads .. MaxUploads /\ upload.next \in Chars
      /\ getter \in [at : {"idle", "files", "adopt", "read"}, call : {"none", "revision", "font"},
                     old : Paths, new : Paths, save : BOOLEAN, load : BOOLEAN]
      /\ MaxUploads \in Nat
  BY FontAssumption DEF OwnInv, FontTypeOK, FontAssumption
<1> USE <1>0
<1>a. ASSUME UNCHANGED <<getter, gFontPath, gFontSaveScratch>> PROVE GetterKnowsPath' /\ ScratchOwned'
  BY <1>a DEF GetterKnowsPath, ScratchOwned, AllBelongTo
<1>b. ASSUME UNCHANGED <<gFontBytes, gFontSeen, gFontPath, gFontPendingSave>> PROVE CacheOwned'
  BY <1>b DEF CacheOwned, AllBelongTo
<1>c. ASSUME UNCHANGED files PROVE FilesOwned'
  BY <1>c DEF FilesOwned
<1>d. ASSUME getter'.at \in {"idle", "read"},
             getter'.load => getter'.new \in Aircraft
      PROVE  GetterKnowsPath' /\ ScratchOwned'
  BY <1>d DEF GetterKnowsPath, ScratchOwned
<1>1. CASE WriteFontCharacter
  <2> DEFINE source == Flashed(upload.font, gFontPath)
             k == upload.next
  <2>1. BelongsTo(source, gFontPath) /\ k \in Chars
    BY <1>1 DEF WriteFontCharacter, BelongsTo
  <2>2. /\ gFontBytes' = [gFontBytes EXCEPT ![k] = source]
        /\ gFontSeen' \subseteq gFontSeen \cup {k}
        /\ gFontPendingSave' => gFontPendingSave \/ gFontSeen \cup {k} = Chars
        /\ gFontPath' = gFontPath
    BY <1>1 DEF WriteFontCharacter, CacheCharacter
  <2> HIDE DEF source, k
  <2>3. \A c \in Chars : gFontBytes'[c] = IF c = k THEN source ELSE gFontBytes[c]
    BY <2>1, <2>2 DEF Fonts
  <2>4. \A c \in gFontSeen \cup {k} : BelongsTo(gFontBytes'[c], gFontPath')
    BY <2>1, <2>2, <2>3 DEF CacheOwned
  <2>5. gFontPendingSave' => AllBelongTo(gFontBytes', gFontPath')
    BY <2>1, <2>2, <2>3, <2>4 DEF CacheOwned, AllBelongTo
  <2>6. CacheOwned'
    BY <2>2, <2>4, <2>5 DEF CacheOwned
  <2>7. QED
    BY <1>1, <1>a, <1>c, <2>6 DEF WriteFontCharacter
<1>2. CASE StartUpload
  BY <1>2, <1>a, <1>b, <1>c DEF StartUpload
<1>3. CASE AbortUpload
  BY <1>3, <1>a, <1>b, <1>c DEF AbortUpload
<1>4. ASSUME NEW p \in Paths, SwitchAircraft(p)
      PROVE  (GetterKnowsPath /\ CacheOwned /\ ScratchOwned /\ FilesOwned)'
  BY <1>4, <1>a, <1>b, <1>c DEF SwitchAircraft
<1>5. CASE PollFont
  <2>1. PICK call \in {"font", "revision"} : SyncWithPath(call)
    BY <1>5 DEF PollFont
  <2>2. /\ getter'.at = "files" /\ getter'.old = gFontPath /\ getter'.new = envPath
        /\ getter'.save = gFontPendingSave
        /\ getter'.load <=> envPath # gFontPath /\ envPath # NoPath
        /\ gFontPath' = envPath /\ gFontPendingSave' = FALSE
        /\ gFontBytes' = gFontBytes
        /\ gFontPendingSave => gFontSaveScratch' = gFontBytes
        /\ gFontSeen' = IF envPath # gFontPath THEN {} ELSE gFontSeen
    BY <2>1 DEF SyncWithPath
  <2>3. GetterKnowsPath'
    BY <2>2 DEF GetterKnowsPath, Paths
  <2>4. CacheOwned'
    BY <2>2 DEF CacheOwned
  <2>5. ScratchOwned'
    BY <2>2 DEF ScratchOwned, CacheOwned, AllBelongTo
  <2>6. QED
    BY <1>c, <2>1, <2>3, <2>4, <2>5 DEF SyncWithPath
<1>6. CASE SyncFiles
  <2>1. FilesOwned'
    BY <1>6, SaveKeepsOwners DEF SyncFiles
  <2>2. CASE getter.load /\ files[getter.new] # NoFont
    <3>1. /\ gFontSaveScratch' = files[getter.new] /\ getter' = [getter EXCEPT !.at = "adopt"]
          /\ gFontPath' = gFontPath
      BY <1>6, <2>2 DEF SyncFiles
    <3>2. getter'.at = "adopt" /\ getter'.new = getter.new /\ getter'.load = getter.load
      BY <3>1
    <3>3. AllBelongTo(gFontSaveScratch', getter'.new)
      BY <2>2, <3>1, <3>2 DEF FilesOwned, GetterKnowsPath
    <3>4. gFontPath = getter.new
      BY <1>6 DEF SyncFiles, GetterKnowsPath
    <3>5. GetterKnowsPath' /\ ScratchOwned'
      BY <3>1, <3>2, <3>3, <3>4 DEF GetterKnowsPath, ScratchOwned
    <3>6. QED
      BY <1>6, <1>b, <2>1, <3>5 DEF SyncFiles
  <2>3. CASE ~(getter.load /\ files[getter.new] # NoFont)
    <3>1. getter' = [getter EXCEPT !.at = "read"]
      BY <1>6, <2>3 DEF SyncFiles
    <3>2. getter'.at = "read" /\ getter'.load = getter.load /\ getter'.new = getter.new
      BY <3>1
    <3>3. QED
      BY <1>6, <1>b, <1>d, <2>1, <3>2 DEF SyncFiles, GetterKnowsPath
  <2>4. QED
    BY <2>2, <2>3
<1>7. CASE AdoptStored
  <2>1. /\ getter' = [getter EXCEPT !.at = "read"] /\ gFontBytes' = gFontSaveScratch
        /\ gFontSeen' = Chars /\ gFontPath' = gFontPath /\ getter.at = "adopt"
    BY <1>7 DEF AdoptStored
  <2>2. getter'.at = "read" /\ getter'.load = getter.load /\ getter'.new = getter.new
    BY <2>1
  <2>3. AllBelongTo(gFontBytes', gFontPath')
    BY <2>1 DEF ScratchOwned, GetterKnowsPath
  <2>4. CacheOwned'
    BY <2>1, <2>3 DEF CacheOwned, AllBelongTo
  <2>5. QED
    BY <1>7, <1>c, <1>d, <2>2, <2>4 DEF AdoptStored, GetterKnowsPath
<1>8. CASE ReturnRevision
  <2>1. getter'.at = "idle" /\ getter'.load = FALSE
    BY <1>8 DEF ReturnRevision, Idle
  <2>2. QED
    BY <1>8, <1>b, <1>c, <1>d, <2>1 DEF ReturnRevision
<1>9. CASE ReturnFont
  <2>1. getter'.at = "idle" /\ getter'.load = FALSE
    BY <1>9 DEF ReturnFont, Idle
  <2>2. QED
    BY <1>9, <1>b, <1>c, <1>d, <2>1 DEF ReturnFont
<1>10. CASE Restart
  <2>1. getter'.at = "idle" /\ getter'.load = FALSE
    BY <1>10 DEF Restart, Idle
  <2>2. CacheOwned'
    BY <1>10 DEF Restart, CacheOwned
  <2>3. QED
    BY <1>10, <1>c, <1>d, <2>1, <2>2 DEF Restart
<1>11. CASE UNCHANGED fontVars
  BY <1>11, <1>a, <1>b, <1>c DEF fontVars
<1>12. QED
  BY <1>1, <1>2, <1>3, <1>4, <1>5, <1>6, <1>7, <1>8, <1>9, <1>10, <1>11 DEF FontNext

\* They are with their aircraft at start.
LEMMA OwnInit == FontInit => OwnInv
<1> SUFFICES ASSUME FontInit PROVE GetterKnowsPath /\ CacheOwned /\ ScratchOwned /\ FilesOwned
  BY FontTypesInit DEF OwnInv
<1>1. getter.at = "idle" /\ getter.load = FALSE /\ gFontSeen = {} /\ gFontPendingSave = FALSE
  BY DEF FontInit, Idle
<1>2. FilesOwned
  BY DEF FontInit, FilesOwned, AllBelongTo, OneFont, BelongsTo
<1>3. QED
  BY <1>1, <1>2 DEF GetterKnowsPath, CacheOwned, ScratchOwned

\* Characters are with their aircraft in every reachable state.
THEOREM FontInvariance == FontSpec => []OwnInv
BY OwnInit, OwnNext, PTL DEF FontSpec

\* An aircraft's font file never holds a character stored with, or flashed for,
\* another aircraft, wherever the path moves between the sections of a getter.
THEOREM FontsStayHome == FontSpec => []FontsDoNotTravel
<1>1. OwnInv => FontsDoNotTravel
  BY DEF OwnInv, FilesOwned, AllBelongTo, FontsDoNotTravel
<1>2. QED
  BY FontInvariance, <1>1, PTL

-----------------------------------------------------------------------------
(* Only overlaps tear *)

\* A flashed character names its upload.
LEMMA OriginOfFlashed ==
    ASSUME NEW u, NEW p
    PROVE  Origin(Flashed(u, p)) = <<"flashed", u>>
BY DEF Origin, Flashed

\* One character of an upload: the first drops the font before, the last of an
\* unbroken upload leaves a whole one.
LEMMA TearWrite ==
    ASSUME OwnInv, FlashedSoFar, WholeCopies, WriteFontCharacter
    PROVE  FlashedSoFar' /\ (Complete => Whole(gFontBytes))'
<1> DEFINE u == upload.font
           k == upload.next
           source == Flashed(u, gFontPath)
<1>1. /\ gFontBytes \in Fonts /\ gFontSeen \subseteq Chars
      /\ upload \in [font : -MaxUploads .. MaxUploads, next : Chars]
      /\ u \in Int /\ k \in Chars /\ CharCount \in Nat \ {0} /\ MaxUploads \in Nat
  BY FontAssumption DEF OwnInv, FontTypeOK, FontAssumption
<1>2. /\ u > 0
      /\ gFontBytes' = [gFontBytes EXCEPT ![k] = source]
      /\ gFontSeen' = (IF k = 0 THEN {} ELSE gFontSeen) \cup {k}
      /\ upload' = [upload EXCEPT !.next = (@ + 1) % CharCount,
                                  !.font = IF upload.next + 1 = CharCount THEN -@ ELSE @]
  BY DEF WriteFontCharacter, CacheCharacter
<1>3. Origin(source) = <<"flashed", u>>
  BY OriginOfFlashed
<1>4. k # 0 => Uploading
  BY <1>1, <1>2 DEF Uploading, Chars
<1>5. upload'.next = (k + 1) % CharCount /\ upload'.font = IF k + 1 = CharCount THEN -u ELSE u
  BY <1>1, <1>2
<1> HIDE DEF source
<1>6. \A c \in Chars : gFontBytes'[c] = IF c = k THEN source ELSE gFontBytes[c]
  BY <1>1, <1>2 DEF Fonts
<1>7. \A c \in gFontSeen' : c <= k /\ Origin(gFontBytes'[c]) = <<"flashed", u>>
  <2> SUFFICES ASSUME NEW c \in gFontSeen' PROVE c <= k /\ Origin(gFontBytes'[c]) = <<"flashed", u>>
    OBVIOUS
  <2>1. CASE c = k
    <3>1. k <= k
      BY <1>1 DEF Chars
    <3>2. QED
      BY <1>1, <1>3, <1>6, <2>1, <3>1
  <2>2. CASE c # k
    <3>1. c \in gFontSeen /\ k # 0
      BY <1>2, <2>2
    <3>2. c < upload.next /\ Origin(gFontBytes[c]) = <<"flashed", u>>
      BY <1>4, <3>1 DEF FlashedSoFar
    <3>3. gFontBytes'[c] = gFontBytes[c]
      BY <1>1, <1>6, <2>2, <3>1
    <3>4. c <= k
      BY <1>1, <3>1, <3>2 DEF Chars
    <3>5. QED
      BY <3>2, <3>3, <3>4
  <2>3. QED
    BY <2>1, <2>2
<1>8. FlashedSoFar'
  <2> SUFFICES ASSUME Uploading', NEW c \in gFontSeen'
               PROVE  c < upload'.next /\ Origin(gFontBytes'[c]) = <<"flashed", upload'.font>>
    BY DEF FlashedSoFar
  <2>1. upload'.font > 0
    BY DEF Uploading
  <2>2. k + 1 # CharCount /\ upload'.font = u
    BY <1>1, <1>2, <1>5, <2>1
  <2>3. upload'.next = k + 1
    <3>1. k + 1 \in 0 .. CharCount - 1
      BY <1>1, <2>2 DEF Chars
    <3>2. (k + 1) % CharCount = k + 1
      BY <1>1, <3>1
    <3>3. QED
      BY <1>5, <3>2
  <2>4. c \in Chars /\ c <= k
    BY <1>1, <1>2, <1>7
  <2>5. c < k + 1
    BY <1>1, <2>4 DEF Chars
  <2>6. QED
    BY <1>7, <2>2, <2>3, <2>5
<1>9. Complete' => Whole(gFontBytes')
  BY <1>7 DEF Complete, Whole
<1>10. QED
  BY <1>8, <1>9

\* The file work: what is written and what is read is whole.
LEMMA TearFiles ==
    ASSUME OwnInv, WholeCopies, SyncFiles
    PROVE  /\ \A a \in Aircraft : files'[a] # NoFont => Whole(files'[a])
           /\ getter'.at = "adopt" => Whole(gFontSaveScratch')
<1>1. /\ files \in [Aircraft -> Fonts \cup {NoFont}]
      /\ getter \in [at : {"idle", "files", "adopt", "read"}, call : {"none", "revision", "font"},
                     old : Paths, new : Paths, save : BOOLEAN, load : BOOLEAN]
      /\ getter.at = "files"
  BY DEF OwnInv, FontTypeOK, SyncFiles
<1>2. ASSUME NEW a \in Aircraft, files'[a] # NoFont PROVE Whole(files'[a])
  <2>1. CASE getter.save /\ SavePath # NoPath
    <3> DEFINE b == getter.old
    <3>1. b \in Aircraft
      BY <1>1, <2>1 DEF SavePath, Paths
    <3>2. \/ files' = [files EXCEPT ![b] = gFontSaveScratch]
          \/ files' = files
          \/ files' = [files EXCEPT ![b] = NoFont]
      BY <2>1 DEF SyncFiles, SaveFont, SavePath
    <3> HIDE DEF b, NoFont, Fonts
    <3>3. files'[a] = files[a] \/ (a = b /\ files'[a] = gFontSaveScratch)
      BY <1>1, <1>2, <3>1, <3>2
    <3>4. Whole(gFontSaveScratch)
      BY <1>1, <2>1 DEF WholeCopies
    <3>5. QED
      BY <1>2, <3>3, <3>4 DEF WholeCopies
  <2>2. CASE ~(getter.save /\ SavePath # NoPath)
    <3>1. files' = files
      BY <2>2 DEF SyncFiles, SaveFont
    <3>2. QED
      BY <1>2, <3>1 DEF WholeCopies
  <2>3. QED
    BY <2>1, <2>2
<1>3. ASSUME getter'.at = "adopt" PROVE Whole(gFontSaveScratch')
  <2>1. getter.load /\ files[getter.new] # NoFont /\ gFontSaveScratch' = files[getter.new]
    <3>1. CASE ~(getter.load /\ files[getter.new] # NoFont)
      <4>1. getter' = [getter EXCEPT !.at = "read"]
        BY <3>1 DEF SyncFiles
      <4>2. QED
        BY <1>1, <1>3, <4>1
    <3>2. QED
      BY <3>1 DEF SyncFiles
  <2>2. QED
    BY <2>1 DEF WholeCopies, OwnInv, GetterKnowsPath
<1>4. QED
  BY <1>2, <1>3

\* The two overlaps are history: a step never forgets one.
LEMMA OverlapsStay ==
    ASSUME [FontNext]_fontVars
    PROVE  (lateSave => lateSave') /\ (lateLoad => lateLoad')
<1>1. lateSave => lateSave'
  <2>1. UNCHANGED lateSave \/ PollFont
    BY DEF FontNext, WriteFontCharacter, StartUpload, AbortUpload, SwitchAircraft, SyncFiles,
       AdoptStored, ReturnRevision, ReturnFont, Restart, fontVars, fontHistory
  <2>2. PollFont => (lateSave => lateSave')
    BY Zenon DEF PollFont, SyncWithPath
  <2>3. QED
    BY <2>1, <2>2
<1>2. lateLoad => lateLoad'
  <2>1. UNCHANGED lateLoad \/ AdoptStored
    BY DEF FontNext, WriteFontCharacter, StartUpload, AbortUpload, SwitchAircraft, PollFont,
       SyncWithPath, SyncFiles, ReturnRevision, ReturnFont, Restart, fontVars, fontHistory
  <2>2. AdoptStored => (lateLoad => lateLoad')
    BY Zenon DEF AdoptStored
  <2>3. QED
    BY <2>1, <2>2
<1>3. QED
  BY <1>1, <1>2

\* Every step but the two overlaps keeps the copies whole.
LEMMA TearNext == OwnInv /\ TearInv /\ [FontNext]_fontVars => TearInv'
<1> SUFFICES ASSUME OwnInv, FlashedSoFar, WholeCopies, [FontNext]_fontVars, ~lateSave', ~lateLoad'
             PROVE  FlashedSoFar' /\ WholeCopies'
  BY OverlapsStay DEF TearInv
<1> USE DEF cache, host, bounds, fontHistory
<1>0. /\ upload \in [font : -MaxUploads .. MaxUploads, next : Chars]
      /\ getter \in [at : {"idle", "files", "adopt", "read"}, call : {"none", "revision", "font"},
                     old : Paths, new : Paths, save : BOOLEAN, load : BOOLEAN]
  BY DEF OwnInv, FontTypeOK
<1>a. ASSUME UNCHANGED <<gFontBytes, gFontSeen, getter, gFontSaveScratch, hostFont, files>>
      PROVE  WholeCopies'
  BY <1>a DEF WholeCopies, Complete
<1>b. ASSUME UNCHANGED <<gFontBytes, gFontSeen, upload>> PROVE FlashedSoFar'
  BY <1>b DEF FlashedSoFar, Uploading
<1>1. CASE WriteFontCharacter
  <2>1. FlashedSoFar' /\ (Complete => Whole(gFontBytes))'
    BY <1>1, TearWrite
  <2>2. UNCHANGED <<getter, gFontSaveScratch, hostFont, files>>
    BY <1>1 DEF WriteFontCharacter
  <2>3. QED
    BY <2>1, <2>2 DEF WholeCopies
<1>2. CASE StartUpload
  <2>1. ~Uploading'
    BY <1>2 DEF StartUpload, Uploading
  <2>2. QED
    BY <1>2, <1>a, <2>1 DEF StartUpload, FlashedSoFar
<1>3. CASE AbortUpload
  <2>1. ~Uploading'
    BY <1>3 DEF AbortUpload, Uploading
  <2>2. QED
    BY <1>3, <1>a, <2>1 DEF AbortUpload, FlashedSoFar
<1>4. ASSUME NEW p \in Paths, SwitchAircraft(p) PROVE FlashedSoFar' /\ WholeCopies'
  BY <1>4, <1>a, <1>b DEF SwitchAircraft
<1>5. CASE PollFont
  <2>1. PICK call \in {"font", "revision"} : SyncWithPath(call)
    BY <1>5 DEF PollFont
  <2>2. /\ getter'.at = "files" /\ getter'.save = gFontPendingSave
        /\ gFontBytes' = gFontBytes /\ upload' = upload
        /\ gFontPendingSave => gFontSaveScratch' = gFontBytes
        /\ gFontSeen' \in {{}, gFontSeen}
        /\ hostFont' = hostFont /\ files' = files
    BY <2>1 DEF SyncWithPath
  <2>3. gFontPendingSave => Complete
    BY <2>1 DEF SyncWithPath
  <2>4. Complete' => Complete
    <3>1. 0 \in Chars
      BY FontAssumption DEF FontAssumption, Chars
    <3>2. QED
      BY <2>2, <3>1 DEF Complete
  <2>5. WholeCopies'
    BY <2>2, <2>3, <2>4 DEF WholeCopies
  <2>6. FlashedSoFar'
    BY <2>2 DEF FlashedSoFar, Uploading
  <2>7. QED
    BY <2>5, <2>6
<1>6. CASE SyncFiles
  <2>1. /\ \A a \in Aircraft : files'[a] # NoFont => Whole(files'[a])
        /\ getter'.at = "adopt" => Whole(gFontSaveScratch')
    BY <1>6, TearFiles
  <2>2. getter'.at \in {"adopt", "read"}
    BY <1>0, <1>6 DEF SyncFiles
  <2>3. UNCHANGED <<gFontBytes, gFontSeen, upload, hostFont>>
    BY <1>6 DEF SyncFiles
  <2>4. WholeCopies'
    BY <2>1, <2>2, <2>3 DEF WholeCopies, Complete
  <2>5. QED
    BY <1>b, <2>3, <2>4
<1>7. CASE AdoptStored
  <2>1. /\ getter.at = "adopt" /\ gFontBytes' = gFontSaveScratch /\ ~Uploading
        /\ UNCHANGED <<upload, hostFont, files>>
    BY <1>7 DEF AdoptStored
  <2>2. getter'.at = "read"
    BY <1>0, <1>7 DEF AdoptStored
  <2>3. Whole(gFontBytes')
    BY <2>1 DEF WholeCopies
  <2>4. WholeCopies'
    BY <2>1, <2>2, <2>3 DEF WholeCopies
  <2>5. FlashedSoFar'
    BY <2>1 DEF FlashedSoFar, Uploading
  <2>6. QED
    BY <2>4, <2>5
<1>8. CASE ReturnRevision
  <2>1. getter'.at = "idle"
    BY <1>8 DEF ReturnRevision, Idle
  <2>2. UNCHANGED <<gFontBytes, gFontSeen, upload, hostFont, files>>
    BY <1>8 DEF ReturnRevision
  <2>3. QED
    BY <1>b, <2>1, <2>2 DEF WholeCopies, Complete
<1>9. CASE ReturnFont
  <2>1. getter'.at = "idle"
    BY <1>9 DEF ReturnFont, Idle
  <2>2. UNCHANGED <<gFontBytes, gFontSeen, upload, files>>
        /\ hostFont' = IF Complete THEN gFontBytes ELSE hostFont
    BY <1>9 DEF ReturnFont
  <2>3. hostFont' # NoFont => Whole(hostFont')
    BY <2>2 DEF WholeCopies
  <2>4. WholeCopies'
    BY <2>1, <2>2, <2>3 DEF WholeCopies, Complete
  <2>5. QED
    BY <1>b, <2>2, <2>4
<1>10. CASE Restart
  <2>1. getter'.at = "idle" /\ hostFont' = NoFont /\ files' = files /\ ~Uploading'
        /\ gFontBytes' = OneFont(Zeros)
    BY <1>10 DEF Restart, Idle, Uploading
  <2>2. Whole(gFontBytes')
    BY <2>1 DEF Whole, OneFont
  <2>3. WholeCopies'
    BY <2>1, <2>2 DEF WholeCopies
  <2>4. QED
    BY <2>1, <2>3 DEF FlashedSoFar
<1>11. CASE UNCHANGED fontVars
  BY <1>11, <1>a, <1>b DEF fontVars
<1>12. QED
  BY <1>1, <1>2, <1>3, <1>4, <1>5, <1>6, <1>7, <1>8, <1>9, <1>10, <1>11 DEF FontNext

\* Every copy is whole at start.
LEMMA TearInit == FontInit => TearInv
<1> SUFFICES ASSUME FontInit PROVE FlashedSoFar /\ WholeCopies
  BY DEF TearInv
<1>1. ~Uploading /\ getter.at = "idle" /\ hostFont = NoFont
  BY DEF FontInit, Uploading, NoUpload, Idle
<1>2. Whole(OneFont(Zeros)) /\ \A a \in Aircraft : Whole(OneFont(StoredFont(a)))
  BY DEF Whole, OneFont
<1>3. \A a \in Aircraft : files[a] # NoFont => Whole(files[a])
  BY <1>2 DEF FontInit
<1>4. QED
  BY <1>1, <1>2, <1>3 DEF FontInit, FlashedSoFar, WholeCopies

\* A font torn between two uploads reaches the host or the disk only after a
\* pending font was saved incomplete or a stored one adopted during an upload:
\* no other interleaving of the configurator, the getters and the path does it.
THEOREM TearingNeedsOverlap == FontSpec => []OnlyOverlapsTear
<1>1. TearInv => OnlyOverlapsTear
  BY DEF TearInv, WholeCopies, OnlyOverlapsTear
<1>2. QED
  BY FontInvariance, TearInit, TearNext, <1>1, PTL DEF FontSpec
=============================================================================
