---------------------------- MODULE CursorProofs ----------------------------
(***************************************************************************)
(* For every terminal that CursorAssumption admits, the cursor stays on    *)
(* the pad and is shown whenever a key is awaited, and a scrolling loop    *)
(* comes closer to its end with every iteration, the last column excepted. *)
(* What Enter would bet on covers the numbers that the cursor is seen on.  *)
(***************************************************************************)
EXTENDS MCBoard, WellFoundedInduction, TLAPS

\* The loops before the present one are done, the present one is not.
LoopsInOrder ==
  /\ loop # Reading => Pends(loop)
  /\ \A i \in Loop : loop = Reading \/ i < loop => ~ Pends(i)

CursorInv == TypeOK /\ LoopsInOrder

LEMMA EndXType == EndX \in Nat /\ EndX + ScreenCols = PadCols - 1
BY CursorAssumption DEF EndX, PadCols, JumpX

(***************************************************************************)
(* Resume leaves the loops in order if those it does not look at are done. *)
(***************************************************************************)
LEMMA ResumeOrder ==
  ASSUME NEW l \in Loop, Resume(l), \A j \in ToRight .. l - 1 : ~ Pends(j)'
  PROVE  LoopsInOrder' /\ loop' \in {Reading} \cup Loop
<1>1. CASE loop' = Reading /\ \A i \in l..ToUp : ~ Pends(i)'
  <2>1. \A i \in Loop : ~ Pends(i)'
    <3> TAKE i \in Loop
    <3>1. i \in l..ToUp \/ i \in ToRight .. l - 1
      BY DEF Loop, ToRight, ToUp
    <3> QED
      BY <1>1, <3>1
  <2> QED
    BY <1>1, <2>1 DEF LoopsInOrder
<1>2. ASSUME NEW i \in l..ToUp, loop' = i, Pends(i)', \A j \in l .. i - 1 : ~ Pends(j)'
      PROVE  LoopsInOrder' /\ loop' \in {Reading} \cup Loop
  <2>1. loop' \in Loop /\ loop' # Reading
    BY <1>2 DEF Loop, ToRight, ToUp, Reading
  <2>2. ASSUME NEW j \in Loop, j < loop'
        PROVE  ~ Pends(j)'
    <3>1. j \in l .. i - 1 \/ j \in ToRight .. l - 1
      BY <1>2, <2>2 DEF Loop, ToRight, ToUp
    <3> QED
      BY <1>2, <3>1
  <2>3. Pends(loop)'
    BY <1>2 DEF Pends
  <2> QED
    BY <2>1, <2>2, <2>3 DEF LoopsInOrder
<1> QED
  BY <1>1, <1>2 DEF Resume

LEMMA CursorInvInit == CursorInit => CursorInv
<1> SUFFICES ASSUME CursorInit PROVE TypeOK /\ LoopsInOrder
  BY DEF CursorInv
<1>1. TypeOK
  BY EndXType DEF CursorInit, TypeOK, PadCols, PadRows
<1>2. \A i \in Loop : ~ Pends(i)
  BY CursorAssumption DEF CursorInit, Pends, JumpX, PadCols
<1> QED
  BY <1>1, <1>2 DEF LoopsInOrder, CursorInit

\* A key finds all loops done, and all of them are tested after it.
LEMMA KeyKeeps == CursorInv /\ Key => CursorInv'
<1> SUFFICES ASSUME CursorInv, Key PROVE CursorInv'
  OBVIOUS
<1>1. /\ cursor_x' \in 0 .. PadCols - 1
      /\ cursor_y' \in 0 .. PadRows - 1
      /\ viewport_x' \in 0..EndX
      /\ viewport_y' \in 0 .. PadRows - 1
  BY EndXType, CursorAssumption
     DEF CursorInv, TypeOK, Key, Home, End, PageDown, PageUp, Up, Down, Right, Left, Move,
         Jump, Moved, PadCols, PadRows, JumpX
<1>2. Resume(ToRight)
  BY DEF Key, Home, End, PageDown, PageUp, Up, Down, Right, Left, Move, Jump
<1>3. ToRight \in Loop /\ ToRight .. ToRight - 1 = {}
  BY DEF Loop, ToRight, ToUp
<1>4. LoopsInOrder' /\ loop' \in {Reading} \cup Loop
  BY <1>2, <1>3, ResumeOrder
<1> QED
  BY <1>1, <1>4 DEF CursorInv, TypeOK

(***************************************************************************)
(* An iteration keeps the cursor within the edges the earlier loops have   *)
(* seen to: here a terminal needs more columns than a jump, and two rows.  *)
(***************************************************************************)
LEMMA ScrollKeeps == CursorInv /\ ScrollStep => CursorInv'
<1> SUFFICES ASSUME CursorInv, ScrollStep PROVE CursorInv'
  OBVIOUS
<1> USE CursorAssumption, EndXType DEF CursorInv, TypeOK
<1>1. CASE ScrollRight
  <2>1. viewport_x' \in 0..EndX /\ UNCHANGED <<cursor_x, cursor_y, viewport_y>>
    BY <1>1 DEF ScrollRight, Scroll, JumpX
  <2>2. Resume(ToRight)
    BY <1>1 DEF ScrollRight, Scroll
  <2>3. ToRight \in Loop /\ ToRight .. ToRight - 1 = {}
    BY DEF Loop, ToRight, ToUp
  <2>4. LoopsInOrder' /\ loop' \in {Reading} \cup Loop
    BY <2>2, <2>3, ResumeOrder
  <2> QED
    BY <2>1, <2>4
<1>2. CASE ScrollLeft
  <2>1. Pends(ToLeft) /\ ToLeft # Reading
    BY <1>2 DEF ScrollLeft, Scroll, LoopsInOrder, ToLeft, Reading
  <2>2. cursor_x < viewport_x
    BY <2>1 DEF Pends, ToRight, ToLeft, ToDown, ToUp
  <2>3. viewport_x' \in 0..EndX /\ UNCHANGED <<cursor_x, cursor_y, viewport_y>>
    BY <1>2, <2>2 DEF ScrollLeft, Scroll, JumpX, PadCols
  <2>4. Resume(ToLeft)
    BY <1>2 DEF ScrollLeft, Scroll
  <2>5. ~ Pends(ToRight)'
    BY <1>2, <2>3 DEF ScrollLeft, Scroll, Pends, JumpX, PadCols, ToRight, ToLeft, ToDown,
       ToUp
  <2>6. ToLeft \in Loop /\ ToRight .. ToLeft - 1 = {ToRight}
    BY DEF Loop, ToRight, ToLeft, ToUp
  <2>7. LoopsInOrder' /\ loop' \in {Reading} \cup Loop
    BY <2>4, <2>5, <2>6, ResumeOrder
  <2> QED
    BY <2>3, <2>7
<1>3. CASE ScrollDown
  <2>1. Pends(ToDown) /\ ToDown # Reading /\ ~ Pends(ToRight) /\ ~ Pends(ToLeft)
    BY <1>3 DEF ScrollDown, Scroll, LoopsInOrder, Loop, ToRight, ToLeft, ToDown, ToUp,
       Reading
  <2>2. cursor_y > viewport_y + ScreenRows - 1
    BY <2>1 DEF Pends, ToRight, ToLeft, ToDown, ToUp
  <2>3. /\ viewport_y' \in 0 .. PadRows - 1
        /\ UNCHANGED <<cursor_x, cursor_y, viewport_x>>
    BY <1>3, <2>2 DEF ScrollDown, Scroll, JumpY, PadRows
  <2>4. Resume(ToDown)
    BY <1>3 DEF ScrollDown, Scroll
  <2>5. ~ Pends(ToRight)' /\ ~ Pends(ToLeft)'
    BY <2>1, <2>3 DEF Pends, ToRight, ToLeft, ToDown, ToUp
  <2>6. ToDown \in Loop /\ ToRight .. ToDown - 1 = {ToRight, ToLeft}
    BY DEF Loop, ToRight, ToLeft, ToDown, ToUp
  <2>7. LoopsInOrder' /\ loop' \in {Reading} \cup Loop
    BY <2>4, <2>5, <2>6, ResumeOrder
  <2> QED
    BY <2>3, <2>7
<1>4. CASE ScrollUp
  <2>1. /\ Pends(ToUp) /\ ToUp # Reading
        /\ ~ Pends(ToRight) /\ ~ Pends(ToLeft) /\ ~ Pends(ToDown)
    BY <1>4 DEF ScrollUp, Scroll, LoopsInOrder, Loop, ToRight, ToLeft, ToDown, ToUp,
       Reading
  <2>2. /\ viewport_y' \in 0 .. PadRows - 1
        /\ UNCHANGED <<cursor_x, cursor_y, viewport_x>>
    BY <1>4 DEF ScrollUp, Scroll, JumpY, PadRows
  <2>3. Resume(ToUp)
    BY <1>4 DEF ScrollUp, Scroll
  <2>4. ~ Pends(ToRight)' /\ ~ Pends(ToLeft)'
    BY <2>1, <2>2 DEF Pends, ToRight, ToLeft, ToDown, ToUp
  <2>5. ~ Pends(ToDown)'
    BY <1>4, <2>2 DEF ScrollUp, Scroll, Pends, JumpY, PadRows, ToRight, ToLeft, ToDown,
       ToUp
  <2>6. ToUp \in Loop /\ ToRight .. ToUp - 1 = {ToRight, ToLeft, ToDown}
    BY DEF Loop, ToRight, ToLeft, ToDown, ToUp
  <2>7. LoopsInOrder' /\ loop' \in {Reading} \cup Loop
    BY <2>3, <2>4, <2>5, <2>6, ResumeOrder
  <2> QED
    BY <2>2, <2>7
<1> QED
  BY <1>1, <1>2, <1>3, <1>4 DEF ScrollStep

LEMMA CursorInvStep == CursorInv /\ [CursorNext]_cursorVars => CursorInv'
<1> SUFFICES ASSUME CursorInv, [CursorNext]_cursorVars PROVE CursorInv'
  OBVIOUS
<1>1. CASE UNCHANGED cursorVars
  BY <1>1 DEF CursorInv, TypeOK, LoopsInOrder, Pends, cursorVars
<1> QED
  BY <1>1, KeyKeeps, ScrollKeeps DEF CursorNext

(***************************************************************************)
(* Whatever keys are pressed, cursor and viewport stay on the pad.         *)
(***************************************************************************)
THEOREM CursorOnPad == CursorSpec => []TypeOK
<1>1. CursorInv => TypeOK
  BY DEF CursorInv
<1> QED
  BY CursorInvInit, CursorInvStep, <1>1, PTL DEF CursorSpec

(***************************************************************************)
(* handleKeyboard waits for a key only when the screen shows the cursor.   *)
(***************************************************************************)
THEOREM CursorAlwaysShown == CursorSpec => []CursorShown
<1>1. CursorInv => CursorShown
  <2> SUFFICES ASSUME CursorInv, loop = Reading
               PROVE  /\ cursor_x \in viewport_x .. viewport_x + ScreenCols - 1
                      /\ cursor_y \in viewport_y .. viewport_y + ScreenRows - 1
    BY DEF CursorShown
  <2>1. ~ Pends(ToRight) /\ ~ Pends(ToLeft) /\ ~ Pends(ToDown) /\ ~ Pends(ToUp)
    BY DEF CursorInv, LoopsInOrder, Loop, ToRight, ToLeft, ToDown, ToUp
  <2> QED
    BY <2>1, CursorAssumption, EndXType
       DEF CursorInv, TypeOK, Pends, ToRight, ToLeft, ToDown, ToUp, PadCols, PadRows
<1> QED
  BY CursorInvInit, CursorInvStep, <1>1, PTL DEF CursorSpec

(***************************************************************************)
(* Outside the last column an iteration of a loop of handleKeyboard moves  *)
(* the viewport towards the cursor: right or down while the cursor is      *)
(* beyond the far edge, left or up onto the cursor or before it otherwise. *)
(***************************************************************************)
Approaches ==
  ScrollStep /\ cursor_x # PadCols - 1 =>
    \/ loop = ToRight /\ viewport_x' > viewport_x
    \/ loop = ToLeft  /\ viewport_x' <= cursor_x
    \/ loop = ToDown  /\ viewport_y' > viewport_y
    \/ loop = ToUp    /\ viewport_y' <= cursor_y

THEOREM LoopsApproach == CursorSpec => [][Approaches]_cursorVars
<1>1. CursorInv => [Approaches]_cursorVars
  <2> SUFFICES ASSUME CursorInv, ScrollStep, cursor_x # PadCols - 1
               PROVE  \/ loop = ToRight /\ viewport_x' > viewport_x
                      \/ loop = ToLeft  /\ viewport_x' <= cursor_x
                      \/ loop = ToDown  /\ viewport_y' > viewport_y
                      \/ loop = ToUp    /\ viewport_y' <= cursor_y
    BY DEF Approaches
  <2> USE CursorAssumption, EndXType DEF CursorInv, TypeOK
  <2>1. loop # Reading /\ Pends(loop)
    BY DEF ScrollStep, ScrollRight, ScrollLeft, ScrollDown, ScrollUp, Scroll,
           LoopsInOrder, Reading, ToRight, ToLeft, ToDown, ToUp
  <2>2. CASE ScrollRight
    BY <2>1, <2>2 DEF ScrollRight, Scroll, Pends, JumpX, PadCols, ToRight, ToLeft, ToDown,
       ToUp
  <2>3. CASE ScrollLeft
    BY <2>3 DEF ScrollLeft, Scroll, JumpX, PadCols
  <2>4. CASE ScrollDown
    BY <2>1, <2>4 DEF ScrollDown, Scroll, Pends, JumpY, PadRows, ToRight, ToLeft, ToDown,
       ToUp
  <2>5. CASE ScrollUp
    BY <2>5 DEF ScrollUp, Scroll, JumpY, PadRows
  <2> QED
    BY <2>2, <2>3, <2>4, <2>5 DEF ScrollStep
<1> QED
  BY CursorInvInit, CursorInvStep, <1>1, PTL DEF CursorSpec

-----------------------------------------------------------------------------
(***************************************************************************)
(* What the cursor points at.  Coverage first: the index arithmetic of     *)
(* each kind of box against the cells of the table.                        *)
(***************************************************************************)
USE DEF Plenos, Verticales, Horizontales, Calles, Docenas, Lineas, Colores, Paridades,
        Mitades

Agrees(b, n) == BoxHasNumber(b, n) <=> n \in CellsOf(b)

LEMMA PlenoCoverage == \A b \in Plenos : \A n \in Pocket : Agrees(b, n)
<1> SUFFICES ASSUME NEW b \in Plenos, NEW n \in Pocket PROVE Agrees(b, n)
  OBVIOUS
<1>1. CellsOf(b) = {b}
  BY DEF CellsOf
<1>2. BoxHasNumber(b, n) <=> b = n
  BY DEF BoxHasNumber
<1> QED
  BY <1>1, <1>2 DEF Agrees

LEMMA VerticalCoverage == \A b \in Verticales : \A n \in Pocket : Agrees(b, n)
BY SMTT(30) DEF Agrees, Pocket, BoxHasNumber, CellsOf, Cell, VerticalHas

LEMMA HorizontalCoverage == \A b \in Horizontales : \A n \in Pocket : Agrees(b, n)
BY SMTT(30) DEF Agrees, Pocket, BoxHasNumber, CellsOf, Cell

LEMMA CalleCoverage == \A b \in Calles : \A n \in Pocket : Agrees(b, n)
BY SMTT(30) DEF Agrees, Pocket, BoxHasNumber, CellsOf, Cell

LEMMA DocenaCoverage == \A b \in Docenas : \A n \in Pocket : Agrees(b, n)
<1> SUFFICES ASSUME NEW b \in Docenas, NEW n \in Pocket PROVE Agrees(b, n)
  OBVIOUS
<1>1. CellsOf(b) = {Cell(c, r) : c \in 4 * (b - 106) .. 4 * (b - 106) + 3, r \in 0..2}
  BY DEF CellsOf
<1>2. BoxHasNumber(b, n) <=> n # 0 /\ (n - 1) \div 12 = b - 106
  BY DEF BoxHasNumber
<1>3. ASSUME NEW c \in 4 * (b - 106) .. 4 * (b - 106) + 3, NEW r \in 0..2, n = Cell(c, r)
      PROVE  n # 0 /\ (n - 1) \div 12 = b - 106
  BY <1>3 DEF Cell
<1>4. ASSUME n # 0, (n - 1) \div 12 = b - 106
      PROVE  /\ (n - 1) \div 3 \in 4 * (b - 106) .. 4 * (b - 106) + 3
             /\ (n - 1) % 3 \in 0..2
             /\ n = Cell((n - 1) \div 3, (n - 1) % 3)
  BY <1>4 DEF Cell, Pocket
<1> QED
  BY <1>1, <1>2, <1>3, <1>4 DEF Agrees

LEMMA LineaCoverage == \A b \in Lineas : \A n \in Pocket : Agrees(b, n)
BY SMTT(30) DEF Agrees, Pocket, BoxHasNumber, CellsOf, Cell

LEMMA ColorCoverage == \A b \in Colores : \A n \in Pocket : Agrees(b, n)
BY SMTT(30) DEF Agrees, Pocket, BoxHasNumber, CellsOf, Rojos

LEMMA ParidadCoverage == \A b \in Paridades : \A n \in Pocket : Agrees(b, n)
BY SMTT(30) DEF Agrees, Pocket, BoxHasNumber, CellsOf

LEMMA Coverage == \A b \in LayoutBox \ Mitades : \A n \in Pocket : Agrees(b, n)
<1>1. LayoutBox \ Mitades = Plenos \cup Verticales \cup Horizontales \cup Calles \cup Docenas
                              \cup Lineas \cup Colores \cup Paridades
  BY DEF LayoutBox
<1> QED
  BY <1>1, PlenoCoverage, VerticalCoverage, HorizontalCoverage, CalleCoverage, DocenaCoverage,
     LineaCoverage, ColorCoverage, ParidadCoverage

HIDE DEF Plenos, Verticales, Horizontales, Calles, Docenas, Lineas, Colores, Paridades,
         Mitades

(***************************************************************************)
(* Sets of naturals have least elements.                                   *)
(***************************************************************************)
LEMMA LeastOf ==
  ASSUME NEW S \in SUBSET Nat, S # {}
  PROVE  \E m \in S : \A k \in S : m <= k
<1> DEFINE R == OpToRel(<, Nat)
<1>1. IsWellFoundedOn(R, Nat)
  BY NatLessThanWellFounded
<1> HIDE DEF R
<1>2. PICK m \in S : \A k \in S : ~ (<<k, m>> \in R)
  BY <1>1, WFMin
<1>3. \A k \in S : k < m => <<k, m>> \in R
  BY DEF R, OpToRel
<1>4. S \subseteq Nat
  OBVIOUS
<1>5. \A k \in S : ~ (k < m)
  BY <1>2, <1>3
<1>6. \A k \in S : m <= k
  BY <1>4, <1>5
<1> QED
  BY <1>6

(***************************************************************************)
(* The search of askForBet: the frame it returns contains the position, and *)
(* no earlier one does.                                                    *)
(***************************************************************************)
LEMMA HitFound ==
  ASSUME NEW x \in Int, NEW y \in Int, BoxAt(x, y) # NoBox
  PROVE  /\ BoxAt(x, y) \in Hits(x, y)
         /\ \A k \in Hits(x, y) : BoxAt(x, y) <= k
         /\ BoxAt(x, y) \in LayoutBox
<1> DEFINE H == Hits(x, y)
<1>1. H \subseteq LayoutBox /\ LayoutBox \subseteq Nat
  BY DEF Hits, LayoutBox
<1>2. H # {}
  BY DEF BoxAt
<1>3. \E m \in H : \A k \in H : m <= k
  BY <1>1, <1>2, LeastOf
<1> QED
  BY <1>1, <1>2, <1>3 DEF BoxAt

LEMMA FirstHit ==
  ASSUME NEW x \in Int, NEW y \in Int, NEW b \in LayoutBox, b = BoxAt(x, y)
  PROVE  /\ IsInside(FrameOf(b), x, y)
         /\ \A c \in LayoutBox : c < b => ~ IsInside(FrameOf(c), x, y)
<1>1. b # NoBox
  BY DEF NoBox, LayoutBox
<1>2. b \in Hits(x, y) /\ \A k \in Hits(x, y) : b <= k
  BY <1>1, HitFound
<1>3. \A k \in Hits(x, y) : k \in Nat /\ b \in Nat
  BY DEF Hits, LayoutBox
<1>4. \A k \in Hits(x, y) : ~ (k < b)
  BY <1>2, <1>3
<1> QED
  BY <1>2, <1>4 DEF Hits

(***************************************************************************)
(* On any terminal, whatever box Enter would bet on, the halves excepted:  *)
(* Board::boxHasNumber gives it exactly the numbers of its cells.          *)
(***************************************************************************)
THEOREM CoverageSafe == CursorSpec => []CoverageMatchesTable
<1>1. TypeOK => CoverageMatchesTable
  <2> SUFFICES ASSUME TypeOK, NEW b \in Pointed PROVE CoverageOk[b]
    BY DEF CoverageMatchesTable
  <2>1. /\ cursor_x \in 0 .. PadCols - 1 /\ cursor_y \in 0 .. PadRows - 1
        /\ cursor_x \in Int /\ cursor_y \in Int
    BY DEF TypeOK
  <2>2. b = BoxAt(cursor_x, cursor_y) /\ b # NoBox
    BY <2>1 DEF Pointed, BoxUnder
  <2>3. b \in LayoutBox
    BY <2>1, <2>2, HitFound
  <2> QED
    BY <2>3, Coverage DEF CoverageOk, Agrees
<1> QED
  BY CursorOnPad, <1>1, PTL

(***************************************************************************)
(* The table's cells as column and row, and the frames of the boxes there. *)
(***************************************************************************)
Column == 0..11
Row == 0..2
\* Cells of the table and their frames
LEMMA CellOf == \A n \in 1..36 : \E c \in Column, r \in Row : n = Cell(c, r)
<1> SUFFICES ASSUME NEW n \in 1..36 PROVE \E c \in Column, r \in Row : n = Cell(c, r)
  OBVIOUS
<1>1. (n - 1) \div 3 \in Column /\ (n - 1) % 3 \in Row /\ n = Cell((n - 1) \div 3, (n - 1) % 3)
  BY DEF Column, Row, Cell
<1> QED
  BY <1>1

LEMMA Disjoint ==
  \A b \in LayoutBox :
    /\ b \in Verticales => b # 0 /\ b \notin Plenos \ {0}
    /\ b \in Horizontales => b # 0 /\ b \notin Plenos \ {0} /\ b \notin Verticales
    /\ b \in Calles => b # 0 /\ b \notin Plenos \ {0} /\ b \notin Verticales /\ b \notin Horizontales
    /\ b \in Docenas => b # 0 /\ b \notin Plenos \ {0} /\ b \notin Verticales /\ b \notin Horizontales
                        /\ b \notin Calles
    /\ b \in Lineas => b # 0 /\ b \notin Plenos \ {0} /\ b \notin Verticales /\ b \notin Horizontales
                        /\ b \notin Calles /\ b \notin Docenas
BY DEF LayoutBox, Plenos, Verticales, Horizontales, Calles, Docenas, Lineas

LEMMA Frames ==
  ASSUME NEW b \in LayoutBox
  PROVE  /\ b = 0 => FrameOf(b) = Frame(0, 3, 12, 16)
         /\ b \in Plenos \ {0} =>
              FrameOf(b) = Frame(12 + 12 * ((b - 1) \div 3), RowY((b - 1) % 3), 12, 6)
         /\ b \in Verticales =>
              FrameOf(b) = Frame(12 + 12 * ((b - 37) \div 2), RowY((b - 37) % 2), 11, 1)
         /\ b \in Horizontales =>
              FrameOf(b) = Frame(23 + 12 * ((b - 61) \div 3), RowY((b - 61) % 3), 2, 5)
         /\ b \in Calles => FrameOf(b) = Frame(12 + 12 * (b - 94), 3, 11, 1)
         /\ b \in Docenas => FrameOf(b) = Frame(12 + 48 * (b - 106), 0, 48, 4)
         /\ b \in Lineas => FrameOf(b) = Frame(155, RowY(b - 109), 13, 6)
<1>1. b \in Plenos \ {0} => b # 0
  OBVIOUS
<1> QED
  BY <1>1, Disjoint, Zenon DEF FrameOf

LEMMA CellFrame ==
  ASSUME NEW c \in Column, NEW r \in Row
  PROVE  /\ Cell(c, r) \in 1..36
         /\ FrameOf(Cell(c, r)) = Frame(12 + 12 * c, 13 - 5 * r, 12, 6)
<1>1. Cell(c, r) \in 1..36 /\ (Cell(c, r) - 1) \div 3 = c /\ (Cell(c, r) - 1) % 3 = r
  BY DEF Column, Row, Cell
<1>2. RowY(r) = 13 - 5 * r
  BY DEF Row, RowY
<1>3. Cell(c, r) \in Plenos \ {0} /\ Cell(c, r) \in LayoutBox
  BY <1>1 DEF Plenos, LayoutBox
<1>4. FrameOf(Cell(c, r))
        = Frame(12 + 12 * ((Cell(c, r) - 1) \div 3), RowY((Cell(c, r) - 1) % 3), 12, 6)
  BY <1>3, Frames
<1> QED
  BY <1>1, <1>2, <1>4

LEMMA CellTouched ==
  ASSUME NEW x \in Int, NEW y \in Int, NEW c \in Column, NEW r \in Row
  PROVE  Cell(c, r) \in Touched(x, y) <=>
           x \in 11 + 12 * c .. 24 + 12 * c /\ y \in 13 - 5 * r .. 18 - 5 * r
<1>1. Cell(c, r) \in Pocket
  BY CellFrame DEF Pocket
<1> QED
  BY <1>1, CellFrame DEF Touched, Frame, Column, Row
LEMMA CellInside ==
  ASSUME NEW x \in Int, NEW y \in Int, NEW c \in Column, NEW r \in Row
  PROVE  IsInside(FrameOf(Cell(c, r)), x, y) <=>
           x \in 13 + 12 * c .. 22 + 12 * c /\ y \in 14 - 5 * r .. 17 - 5 * r
  BY CellFrame DEF IsInside, Frame, Column, Row
LEMMA ZeroTouched ==
  ASSUME NEW x \in Int, NEW y \in Int
  PROVE  0 \in Touched(x, y) <=> x \in -1 .. 12 /\ y \in 3 .. 18
<1>1. FrameOf(0) = Frame(0, 3, 12, 16)
  BY Frames DEF LayoutBox
<1> QED
  BY <1>1 DEF Touched, Frame, Pocket
LEMMA TouchedAre ==
  ASSUME NEW x, NEW y, NEW T \in SUBSET Pocket,
         0 \in Touched(x, y) <=> 0 \in T,
         \A c \in Column, r \in Row : Cell(c, r) \in Touched(x, y) <=> Cell(c, r) \in T
  PROVE  Touched(x, y) = T
<1>1. \A n \in Pocket : n = 0 \/ \E c \in Column, r \in Row : n = Cell(c, r)
  BY CellOf DEF Pocket
<1>2. Touched(x, y) \subseteq Pocket
  BY DEF Touched
<1> QED
  BY <1>1, <1>2

(***************************************************************************)
(* What each kind of box covers, where the search finds it first.          *)
(***************************************************************************)
LEMMA OnPleno ==
  ASSUME NEW x \in Int, NEW y \in Int, NEW b \in Plenos, b = BoxAt(x, y)
  PROVE  Covered(b) = Touched(x, y)
<1> DEFINE T == {b}
<1>3. b \in LayoutBox
  BY DEF LayoutBox, Plenos
<1>4. IsInside(FrameOf(b), x, y)
  BY <1>3, FirstHit
<1>0. T \in SUBSET Pocket
  BY DEF Pocket, Plenos
<1>1. ASSUME b = 0 PROVE Touched(x, y) = T
  <2>1. x \in 1..10 /\ y \in 4..17
    BY <1>1, <1>4, Frames DEF IsInside, Frame, LayoutBox
  <2>2. \A c \in Column, r \in Row : Cell(c, r) \notin Touched(x, y) /\ Cell(c, r) # 0
    BY <2>1, CellTouched DEF Column, Cell, Row
  <2>3. 0 \in Touched(x, y) /\ 0 \in T /\ \A c \in Column, r \in Row : Cell(c, r) \notin T
    BY <1>1, <2>1, <2>2, ZeroTouched
  <2> HIDE DEF T
  <2> QED
    BY <1>0, <2>2, <2>3, TouchedAre
<1>2. ASSUME b # 0 PROVE Touched(x, y) = T
  <2>1. PICK c \in Column, r \in Row : b = Cell(c, r)
    BY <1>2, CellOf DEF Plenos
  <2>2. x \in 13 + 12 * c .. 22 + 12 * c /\ y \in 14 - 5 * r .. 17 - 5 * r
    BY <1>4, <2>1, CellInside
  <2>3. \A d \in Column, s \in Row : Cell(d, s) \in Touched(x, y) <=> Cell(d, s) \in T
    BY <2>1, <2>2, CellTouched DEF Column, Row, Cell
  <2>4. 0 \notin Touched(x, y) /\ 0 \notin T
    BY <1>2, <2>2, ZeroTouched DEF Column
  <2> HIDE DEF T
  <2> QED
    BY <1>0, <2>3, <2>4, TouchedAre
<1>5. \A n \in Pocket : BoxHasNumber(b, n) <=> n \in T
  BY DEF BoxHasNumber, Plenos, Verticales, Horizontales, Calles, Docenas, Lineas, Colores,
         Paridades, Mitades
<1>6. Covered(b) = T
  BY <1>0, <1>5 DEF Covered
<1> QED
  BY <1>1, <1>2, <1>6

LEMMA VerticalIndex ==
  ASSUME NEW b \in Verticales
  PROVE  \E c \in Column, r \in 0..1 : b = 37 + 2 * c + r
<1> DEFINE c == (b - 37) \div 2
           r == (b - 37) % 2
<1> USE DEF Verticales
<1>1. c \in Column
  BY DEF Column
<1>2. r \in 0..1
  OBVIOUS
<1>3. b = 37 + 2 * c + r
  OBVIOUS
<1> HIDE DEF c, r
<1> QED
  BY <1>1, <1>2, <1>3

LEMMA OnVertical ==
  ASSUME NEW x \in Int, NEW y \in Int, NEW b \in Verticales, b = BoxAt(x, y)
  PROVE  Covered(b) = Touched(x, y)
<1>1. PICK c \in Column, r \in 0..1 : b = 37 + 2 * c + r
  BY VerticalIndex
<1>2. r \in Row /\ r + 1 \in Row /\ b \in LayoutBox
  BY DEF Row, Verticales, LayoutBox
<1>3. (b - 37) \div 2 = c /\ (b - 37) % 2 = r
  BY <1>1 DEF Column
<1>4. RowY(r) = 13 - 5 * r
  BY DEF RowY
<1>5. FrameOf(b) = Frame(12 + 12 * c, 13 - 5 * r, 11, 1)
  BY <1>2, <1>3, <1>4, Frames
<1>6. x \in 13 + 12 * c .. 22 + 12 * c /\ y \in 13 - 5 * r .. 14 - 5 * r
  BY <1>2, <1>5, FirstHit DEF IsInside, Frame, Column
<1>7. ~ IsInside(FrameOf(Cell(c, r)), x, y)
  <2>1. Cell(c, r) \in LayoutBox /\ Cell(c, r) < b
    BY <1>2, CellFrame DEF LayoutBox, Verticales
  <2> QED
    BY <1>2, <2>1, FirstHit
<1>8. y = 13 - 5 * r
  BY <1>2, <1>6, <1>7, CellInside DEF Column
<1> DEFINE T == {Cell(c, r), Cell(c, r + 1)}
<1>9. T \in SUBSET Pocket /\ 0 \notin T
  BY <1>2, CellFrame DEF Pocket
<1>10. \A d \in Column, s \in Row : Cell(d, s) \in Touched(x, y) <=> Cell(d, s) \in T
  BY <1>2, <1>6, <1>8, CellTouched DEF Column, Row, Cell
<1>11. 0 \notin Touched(x, y)
  BY <1>6, ZeroTouched DEF Column
<1>12. \A n \in Pocket : BoxHasNumber(b, n) <=> n \in T
  <2>1. \A n \in Pocket : BoxHasNumber(b, n) <=> n # 0 /\ VerticalHas(b, n)
    BY DEF BoxHasNumber, Plenos, Verticales, Horizontales, Calles, Docenas, Lineas, Colores,
           Paridades, Mitades
  <2>2. \A n \in Pocket : n # 0 => (VerticalHas(b, n) <=> n \in T)
    BY <1>3 DEF VerticalHas, Cell, Column, Pocket
  <2> QED
    BY <1>9, <2>1, <2>2
<1> HIDE DEF T
<1>13. Touched(x, y) = T
  BY <1>9, <1>10, <1>11, TouchedAre
<1>14. Covered(b) = T
  BY <1>9, <1>12 DEF Covered
<1> QED
  BY <1>13, <1>14

LEMMA HorizontalIndex ==
  ASSUME NEW b \in Horizontales
  PROVE  \E c \in 0..10, r \in Row : b = 61 + 3 * c + r
<1> DEFINE c == (b - 61) \div 3
           r == (b - 61) % 3
<1> USE DEF Horizontales
<1>1. c \in 0..10
  OBVIOUS
<1>2. r \in Row
  BY DEF Row
<1>3. b = 61 + 3 * c + r
  OBVIOUS
<1> HIDE DEF c, r
<1> QED
  BY <1>1, <1>2, <1>3

LEMMA OnHorizontal ==
  ASSUME NEW x \in Int, NEW y \in Int, NEW b \in Horizontales, b = BoxAt(x, y)
  PROVE  Covered(b) = Touched(x, y)
<1>1. PICK c \in 0..10, r \in Row : b = 61 + 3 * c + r
  BY HorizontalIndex
<1>2. c \in Column /\ c + 1 \in Column /\ b \in LayoutBox
  BY DEF Column, Horizontales, LayoutBox
<1>3. (b - 61) \div 3 = c /\ (b - 61) % 3 = r
  BY <1>1 DEF Row
<1>4. RowY(r) = 13 - 5 * r
  BY DEF RowY, Row
<1>5. FrameOf(b) = Frame(23 + 12 * c, 13 - 5 * r, 2, 5)
  BY <1>2, <1>3, <1>4, Frames
<1>6. x \in 23 + 12 * c .. 25 + 12 * c /\ y \in 14 - 5 * r .. 17 - 5 * r
  BY <1>2, <1>5, FirstHit DEF IsInside, Frame, Row
<1>7. ~ IsInside(FrameOf(Cell(c + 1, r)), x, y)
  <2>1. Cell(c + 1, r) \in LayoutBox /\ Cell(c + 1, r) < b
    BY <1>2, CellFrame DEF LayoutBox, Horizontales
  <2> QED
    BY <1>2, <2>1, FirstHit
<1>8. x \in 23 + 12 * c .. 24 + 12 * c
  BY <1>2, <1>6, <1>7, CellInside DEF Row
<1> DEFINE T == {Cell(c, r), Cell(c + 1, r)}
<1>9. T \in SUBSET Pocket /\ 0 \notin T
  BY <1>2, CellFrame DEF Pocket
<1>10. \A d \in Column, s \in Row : Cell(d, s) \in Touched(x, y) <=> Cell(d, s) \in T
  BY <1>2, <1>6, <1>8, CellTouched DEF Column, Row, Cell
<1>11. 0 \notin Touched(x, y)
  BY <1>6, ZeroTouched
<1>12. \A n \in Pocket : BoxHasNumber(b, n) <=> n \in T
  <2>1. \A n \in Pocket : BoxHasNumber(b, n) <=> n # 0 /\ n \in {b - 60, b - 57}
    BY DEF BoxHasNumber, Plenos, Verticales, Horizontales, Calles, Docenas, Lineas, Colores,
           Paridades, Mitades
  <2> QED
    BY <1>1, <2>1 DEF Cell, Row
<1> HIDE DEF T
<1>13. Touched(x, y) = T
  BY <1>9, <1>10, <1>11, TouchedAre
<1>14. Covered(b) = T
  BY <1>9, <1>12 DEF Covered
<1> QED
  BY <1>13, <1>14

LEMMA OnCalle ==
  ASSUME NEW x \in Int, NEW y \in Int, NEW b \in Calles, b = BoxAt(x, y)
  PROVE  Touched(x, y) = {3 * (b - 93)} /\ Touched(x, y) \subseteq Covered(b)
<1> DEFINE c == b - 94
<1>2. c \in Column /\ 2 \in Row /\ b \in LayoutBox
  BY DEF Column, Row, Calles, LayoutBox
<1>5. FrameOf(b) = Frame(12 + 12 * c, 3, 11, 1)
  BY <1>2, Frames
<1> HIDE DEF c
<1>6. x \in 13 + 12 * c .. 22 + 12 * c /\ y \in 3..4
  BY <1>2, <1>5, FirstHit DEF IsInside, Frame, Column
<1>7. ~ IsInside(FrameOf(Cell(c, 2)), x, y)
  <2>1. Cell(c, 2) \in LayoutBox /\ Cell(c, 2) < b
    BY <1>2, CellFrame DEF LayoutBox, Calles
  <2> QED
    BY <1>2, <2>1, FirstHit
<1>8. y = 3
  BY <1>2, <1>6, <1>7, CellInside
<1> DEFINE T == {Cell(c, 2)}
<1>9. T \in SUBSET Pocket /\ 0 \notin T
  BY <1>2, CellFrame DEF Pocket
<1>10. \A d \in Column, s \in Row : Cell(d, s) \in Touched(x, y) <=> Cell(d, s) \in T
  BY <1>2, <1>6, <1>8, CellTouched DEF Column, Row, Cell
<1>11. 0 \notin Touched(x, y)
  BY <1>2, <1>6, ZeroTouched DEF Column
<1>12. BoxHasNumber(b, Cell(c, 2))
  <2>1. Cell(c, 2) # 0 /\ (Cell(c, 2) - 1) \div 3 = b - 94
    BY <1>2 DEF Cell, Column, c
  <2> QED
    BY <2>1 DEF BoxHasNumber
<1>13. Touched(x, y) = T
  <2> HIDE DEF T
  <2> QED
    BY <1>9, <1>10, <1>11, TouchedAre
<1>14. T \subseteq Covered(b)
  BY <1>9, <1>12 DEF Covered
<1>15. Cell(c, 2) = 3 * (b - 93)
  BY DEF c, Cell, Calles
<1> QED
  BY <1>13, <1>14, <1>15

LEMMA OnDocena ==
  ASSUME NEW x \in Int, NEW y \in Int, NEW b \in Docenas, b = BoxAt(x, y), NEW n \in 1..36,
         InColumnsOf(n, x)
  PROVE  n \in Covered(b)
<1>1. PICK c \in Column, r \in Row : n = Cell(c, r)
  BY CellOf
<1>2. b \in LayoutBox
  BY DEF LayoutBox, Docenas
<1>3. x \in 13 + 48 * (b - 106) .. 58 + 48 * (b - 106)
  <2>1. FrameOf(b) = Frame(12 + 48 * (b - 106), 0, 48, 4)
    BY <1>2, Frames
  <2>2. IsInside(FrameOf(b), x, y)
    BY <1>2, FirstHit
  <2>3. b \in Int
    BY <1>2 DEF LayoutBox
  <2> QED
    BY <2>1, <2>2, <2>3 DEF IsInside, Frame
<1>4. x \in 13 + 12 * c .. 22 + 12 * c
  BY <1>1, CellFrame DEF InColumnsOf, Frame, Column
<1>5. c \in 4 * (b - 106) .. 4 * (b - 106) + 3
  BY <1>3, <1>4 DEF Column, Docenas
<1>6. (n - 1) \div 12 = b - 106
  BY <1>1, <1>5 DEF Cell, Row, Column, Docenas
<1> QED
  BY <1>6 DEF Covered, BoxHasNumber, Pocket

LEMMA OnLinea ==
  ASSUME NEW x \in Int, NEW y \in Int, NEW b \in Lineas, b = BoxAt(x, y), NEW n \in 1..36,
         InRowsOf(n, y)
  PROVE  n \in Covered(b)
<1>1. PICK c \in Column, r \in Row : n = Cell(c, r)
  BY CellOf
<1>2. b \in LayoutBox
  BY DEF LayoutBox, Lineas
<1>3. RowY(b - 109) = 13 - 5 * (b - 109)
  BY DEF RowY, Lineas
<1>4. y \in 14 - 5 * (b - 109) .. 17 - 5 * (b - 109)
  <2>1. FrameOf(b) = Frame(155, 13 - 5 * (b - 109), 13, 6)
    BY <1>2, <1>3, Frames
  <2>2. IsInside(FrameOf(b), x, y)
    BY <1>2, FirstHit
  <2>3. b \in Int
    BY <1>2 DEF LayoutBox
  <2> QED
    BY <2>1, <2>2, <2>3 DEF IsInside, Frame
<1>5. y \in 14 - 5 * r .. 17 - 5 * r
  BY <1>1, CellFrame DEF InRowsOf, Frame, Row
<1>6. (n - 1) % 3 = b - 109
  BY <1>1, <1>4, <1>5 DEF Cell, Row, Column, Lineas
<1> QED
  BY <1>6 DEF Covered, BoxHasNumber, Pocket

LEMMA SightSafe ==
  ASSUME NEW x \in Int, NEW y \in Int
  PROVE  OnSight(x, y)
BY OnPleno, OnVertical, OnHorizontal, OnCalle, OnDocena, OnLinea DEF OnSight

(***************************************************************************)
(* On any terminal, wherever the cursor gets, the box that askForBet finds *)
(* under it covers the numbers it is seen on.                              *)
(***************************************************************************)
THEOREM PointedSafe == CursorSpec => []PointedNumbers
<1>1. TypeOK => PointedNumbers
  <2> SUFFICES ASSUME TypeOK PROVE PointedNumbers
    OBVIOUS
  <2>1. /\ cursor_x \in 0 .. PadCols - 1 /\ cursor_y \in 0 .. PadRows - 1
        /\ cursor_x \in Int /\ cursor_y \in Int
    BY DEF TypeOK
  <2>2. BetsOnSight[cursor_x][cursor_y] = OnSight(cursor_x, cursor_y)
    BY <2>1 DEF BetsOnSight
  <2> QED
    BY <2>1, <2>2, SightSafe DEF PointedNumbers
<1> QED
  BY CursorOnPad, <1>1, PTL
=============================================================================
