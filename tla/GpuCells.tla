------------------------------ MODULE GpuCells ------------------------------
(***************************************************************************)
(* The text of a Gpu (components/gpu.cpp) and what its frame shows of it      *)
(* (io/frame.cpp).  A cell has a character, and is locked when the right half  *)
(* of a wide character covers it.  Every write goes to the cell and, unless    *)
(* the cell is locked or the frame off, to the terminal.                      *)
(*                                                                           *)
(* Positions are <<x, y>>, from <<1, 1>> on.  Colours are in ColorMap.        *)
(***************************************************************************)
EXTENDS Integers, SequencesExt, FiniteSetsExt

CONSTANTS
  Char, WideChar,         \* the characters, and those of two columns
  Blank,                  \* the space
  FirstSize, FrameSizes,  \* sizes of the terminal's window, as <<width, height>>
  GpuMaxInt,              \* the largest int
  Texts, Fills, Copies,   \* what Lua passes to set, fill and copy
  MaxDraws                \* bound: calls and changes of the window

Half   == "half"     \* what the terminal shows of a wide character, behind it
GpuInt == (-GpuMaxInt - 1)..GpuMaxInt

\* (A fill of a negative size draws nothing, as one of none does.)
ASSUME GpuAssumption ==
  /\ WideChar \subseteq Char /\ Blank \in Char \ WideChar /\ Half \notin Char
  /\ GpuMaxInt \in Nat \ {0} /\ MaxDraws \in Nat
  /\ FrameSizes \subseteq (1..GpuMaxInt) \X (1..GpuMaxInt) /\ FirstSize \in FrameSizes
  /\ \A t \in Texts : t.text \in Seq(Char)
  /\ \A f \in Fills : f.value \in Char /\ f.size \in Nat \X Nat
  /\ Copies \subseteq [x : GpuInt, y : GpuInt, width : GpuInt, height : GpuInt, dx : GpuInt, dy : GpuInt]

VARIABLES
  view,      \* cells  _cells, a function on the positions of the resolution
             \* term   what the terminal shows at each position of its window
             \* on     Frame::_isOn
             \* stale  (history) positions of cells never written to the terminal
  frameSize, \* Frame::size()
  draws,
  cut        \* history: a wide character lost one of its halves

gpuCellVars == <<view, frameSize, draws, cut>>

Grid(size) == (1..size[1]) \X (1..size[2])
Rows(size) == [i \in 1..(size[1] * size[2]) |->
                 <<((i - 1) % size[1]) + 1, ((i - 1) \div size[1]) + 1>>]
Left(p)  == <<p[1] - 1, p[2]>>
Right(p) == <<p[1] + 1, p[2]>>
Below(p) == <<p[1], p[2] + 1>>

Columns(c) == IF c \in WideChar THEN 2 ELSE 1
Cell(c)    == [value |-> c, locked |-> FALSE]
Locked     == [value |-> Blank, locked |-> TRUE]

_width  == Max({p[1] : p \in DOMAIN view.cells})
_height == Max({p[2] : p \in DOMAIN view.cells})

\* A gpu just bound to its screen.
GpuCellsInit ==
  /\ view = [cells |-> [p \in Grid(FirstSize) |-> Cell(Blank)],
               term  |-> [p \in Grid(FirstSize) |-> Blank],
               on |-> TRUE, stale |-> {}]
  /\ frameSize = FirstSize /\ draws = 0 /\ cut = FALSE

-----------------------------------------------------------------------------
(* The frame *)

\* A character on the terminal: of a wide one that it hits, nothing is left.
Shown(term, p, c) ==
  LET last == IF c \in WideChar THEN Right(p) ELSE p
  IN  [o \in DOMAIN term |->
         CASE o = p -> c
           [] o = last /\ o # p -> Half
           [] (o = Left(p) /\ term[p] = Half) \/ (o = Right(last) /\ term[o] = Half) -> Blank
           [] OTHER -> term[o]]

\* Frame::write
write(s, p, cell) ==
  IF cell.locked \/ ~s.on \/ p \notin DOMAIN s.term THEN s
  ELSE [s EXCEPT !.term = Shown(@, p, cell.value),
                 !.stale = @ \ {p, IF Columns(cell.value) > 1 THEN Right(p) ELSE p}]

clear(s) == [s EXCEPT !.term = [p \in DOMAIN @ |-> Blank]]

\* Gpu::invalidate: all cells again, row by row.
invalidate(s) ==
  LET all == Rows(<<_width, _height>>)
      after[n \in 0..Len(all)] ==
        IF n = 0 THEN [clear(s) EXCEPT !.stale = IF s.on THEN {} ELSE @]
        ELSE write(after[n - 1], all[n], s.cells[all[n]])
  IN  after[Len(all)]

-----------------------------------------------------------------------------
(* Gpu::set: a cell, unless it is locked and not forced *)

Free(s, p, force) == p \in DOMAIN s.cells /\ (force \/ ~s.cells[p].locked)

\* Mutant: the cell behind a wide character stays locked when that is replaced.
setNarrowLocked(s, p, cell, force) ==
  IF ~Free(s, p, force) THEN s
  ELSE [write(s, p, cell) EXCEPT !.cells[p] = cell]

\* The cell behind a wide character that is replaced is unlocked.
setNarrow(s, p, cell, force) ==
  LET unlocked == IF s.cells[p].value \in WideChar /\ Right(p) \in DOMAIN s.cells
                  THEN [s EXCEPT !.cells[Right(p)].locked = FALSE] ELSE s
  IN  IF ~Free(s, p, force) THEN s
      ELSE [write(unlocked, p, cell) EXCEPT !.cells[p] = cell]

\* One that has no room before the edge is left out unless forced.
setWide(s, p, cell, force) ==
  IF ~Free(s, p, force) \/ (Right(p) \notin DOMAIN s.cells /\ ~force) THEN s
  ELSE [write(setNarrow(s, Right(p), Locked, force), p, cell) EXCEPT !.cells[p] = cell]

set(s, p, cell, force) ==
  IF Columns(cell.value) > 1 THEN setWide(s, p, cell, force) ELSE setNarrow(s, p, cell, force)

\* One cell after the other: ops are where, and what.
Painted(s, ops, force) ==
  LET after[n \in 0..Len(ops)] ==
        IF n = 0 THEN s ELSE set(after[n - 1], ops[n].at, ops[n].cell, force)
  IN  after[Len(ops)]

\* A text from t.at on; every character moves on by its columns, drawn or not.
setText(s, t) ==
  LET at[i \in DOMAIN t.text] ==
        CASE i = 1 -> t.at
          [] i > 1 /\ t.vertical -> Below(at[i - 1])
          [] i > 1 /\ ~t.vertical -> <<at[i - 1][1] + Columns(t.text[i - 1]), at[i - 1][2]>>
  IN  Painted(s, [i \in DOMAIN t.text |-> [at |-> at[i], cell |-> Cell(t.text[i])]], FALSE)

\* f.size[1] times the character in each row: a wide one fills twice the columns.
fill(s, f) ==
  LET Place(o) == <<f.at[1] + (o[1] - 1) * Columns(f.value), f.at[2] + o[2] - 1>>
      all == Rows(f.size)
  IN  Painted(s, [i \in DOMAIN all |-> [at |-> Place(all[i]), cell |-> Cell(f.value)]], FALSE)

-----------------------------------------------------------------------------
(* Gpu::copy *)

GWrap(n) == ((n + GpuMaxInt + 1) % (2 * GpuMaxInt + 2)) - GpuMaxInt - 1

\* What is copied, along one axis of n cells: the first position, how many, and the
\* first position it goes to.  A start before the edge is moved there.
Span(from, count, by, n) ==
  LET adj == GWrap((IF from > 1 THEN from ELSE 1) - from)
      f   == GWrap(from + adj)
      c   == GWrap(count - adj)
      to  == GWrap(f + GWrap(by - adj))
  IN  [from |-> f, to |-> to,
       count |-> IF c <= 0 \/ to > n \/ GWrap(to + c) < 1 \/ f > n \/ GWrap(f + c) < 1 THEN 0
                 ELSE IF c < n - f + 1 THEN c ELSE n - f + 1]

SpanX(a) == Span(a.x, a.width, a.dx, _width)
SpanY(a) == Span(a.y, a.height, a.dy, _height)
Moves(a) == /\ SpanX(a).count > 0 /\ SpanY(a).count > 0
            /\ SpanX(a).from # SpanX(a).to \/ SpanY(a).from # SpanY(a).to
Target(a, p) == <<p[1] - SpanX(a).from + SpanX(a).to, p[2] - SpanY(a).from + SpanY(a).to>>
InOrder(a) ==
  LET all == Rows(<<SpanX(a).count, SpanY(a).count>>)
  IN  [i \in DOMAIN all |-> <<SpanX(a).from + all[i][1] - 1, SpanY(a).from + all[i][2] - 1>>]

\* Mutant: the cells are not buffered first.
copyInPlace(s, a) ==
  FoldLeft(LAMBDA t, p : set(t, Target(a, p), t.cells[p], TRUE), s, InOrder(a))

\* The cells are buffered, then set at their targets, locks and all.
copy(s, a) ==
  LET all == InOrder(a)
  IN  Painted(s, [i \in DOMAIN all |-> [at |-> Target(a, all[i]), cell |-> s.cells[all[i]]]], TRUE)

-----------------------------------------------------------------------------
(* Actions *)

\* A locked cell is one behind a wide character, and there is one behind each.
Paired(grid) ==
  \A p \in DOMAIN grid :
    /\ grid[p].locked <=> (Left(p) \in DOMAIN grid /\ grid[Left(p)].value \in WideChar)
    /\ grid[p].value \in WideChar => Right(p) \in DOMAIN grid

Draw(s) == /\ draws < MaxDraws /\ draws' = draws + 1
           /\ view' = s

SetText(t) == Draw(setText(view, t)) /\ UNCHANGED <<frameSize, cut>>
Fill(f)    == Draw(fill(view, f)) /\ UNCHANGED <<frameSize, cut>>

Copy(a) ==
  /\ Draw(IF Moves(a) THEN copy(view, a) ELSE view)
  /\ cut' = (cut \/ ~Paired(view'.cells))
  /\ UNCHANGED frameSize

\* resizeBuffer: what is inside both sizes is kept, and nothing is drawn.
Resized(s, size) ==
  [s EXCEPT !.cells = [p \in Grid(size) |-> IF p \in DOMAIN s.cells THEN s.cells[p] ELSE Cell(Blank)],
            !.stale = (@ \cup (Grid(size) \ DOMAIN s.cells)) \cap Grid(size)]

\* setResolution and setViewport; bind does it with the size of the frame.
SetResolution(size) ==
  /\ size[1] <= frameSize[1] /\ size[2] <= frameSize[2]
  /\ size # <<_width, _height>>
  /\ Draw(Resized(view, size))
  /\ cut' = (cut \/ ~Paired(view'.cells))
  /\ UNCHANGED frameSize

\* The window has another size: Frame::winched passes it on to the gpu.
Winched(size) ==
  LET s == [view EXCEPT !.term = [p \in Grid(size) |-> IF p \in DOMAIN @ THEN @[p] ELSE Blank]]
  IN  /\ frameSize' = size /\ size # frameSize
      /\ Draw(IF size = <<_width, _height>> THEN s ELSE Resized(s, size))
      /\ cut' = (cut \/ ~Paired(view'.cells))

\* turnOn, turnOff; and setDepth and setPaletteColor, which draw everything anew.
TurnOn  == ~view.on /\ Draw(invalidate([view EXCEPT !.on = TRUE])) /\ UNCHANGED <<frameSize, cut>>
TurnOff == view.on /\ Draw(clear([view EXCEPT !.on = FALSE])) /\ UNCHANGED <<frameSize, cut>>
Repaint == Draw(invalidate(view)) /\ UNCHANGED <<frameSize, cut>>

GpuCellsNext ==
  \/ \E t \in Texts : SetText(t)
  \/ \E f \in Fills : Fill(f)
  \/ \E a \in Copies : Copy(a)
  \/ \E size \in FrameSizes : SetResolution(size) \/ Winched(size)
  \/ TurnOn \/ TurnOff \/ Repaint

GpuCellsSpec == GpuCellsInit /\ [][GpuCellsNext]_gpuCellVars

-----------------------------------------------------------------------------
(* Properties *)

\* What a program reads back with get is what the screen shows, and the cells that
\* cannot be written are just those behind a wide character: except for cells that a
\* change of size has made and nobody has written, and as long as no copy or change of
\* size has cut a wide character in two (gpu.cpp:287 and 560 do).
ShownAsRead ==
  view.on /\ ~cut =>
    \A p \in DOMAIN view.cells \ view.stale :
      view.term[p] = IF view.cells[p].locked THEN Half ELSE view.cells[p].value

\* A copy of a rectangle moves what was there before, overlapping or not, by the offset
\* asked for, the parts outside of the screen left out; nothing else changes, but next
\* to a wide character.  (Not so where the rectangle starts before the screen, whose
\* cells are moved less far; or where it ends, or would when moved, beyond the largest
\* int: then nothing is copied, gpu.cpp:254 and 260.)
InInts(a) == /\ a.x >= 1 /\ a.x + a.width <= GpuMaxInt /\ a.x + a.width + a.dx <= GpuMaxInt
             /\ a.y >= 1 /\ a.y + a.height <= GpuMaxInt /\ a.y + a.height + a.dy <= GpuMaxInt
CopyMovesRegion ==
  [][\A a \in Copies : Copy(a) /\ InInts(a) =>
       \A p \in DOMAIN view.cells :
         LET from == <<p[1] - a.dx, p[2] - a.dy>>
             asked == from[1] \in (a.x)..(a.x + a.width - 1) /\ from[2] \in (a.y)..(a.y + a.height - 1)
             touched == \E q \in {Left(p), p, Right(p)} \cap DOMAIN view.cells :
                          {view.cells[q].value, view'.cells[q].value} \cap WideChar # {}
         IN  touched \/ view'.cells[p] = IF asked /\ from \in DOMAIN view.cells
                                           THEN view.cells[from] ELSE view.cells[p]]_gpuCellVars
=============================================================================
