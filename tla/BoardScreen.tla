----------------------------- MODULE BoardScreen ----------------------------
(***************************************************************************)
(* The betting board on the client's screen: where each box lies           *)
(* (Interface::startInterface), which box a position belongs to            *)
(* (DrawBox::isInside and the search of Interface::askForBet), and where   *)
(* the slips of a box are drawn (Interface::drawBox).                      *)
(***************************************************************************)
EXTENDS BoardLayout

Frame(x, y, w, h) == [x |-> x, y |-> y, w |-> w, h |-> h]

\* The upper edge of the j-th row of numbers, the lowest row being 0.
RowY(j) == 3 + 5 * (2 - j)

\* The loops of startInterface, read backwards: box b is dboxes[b].
FrameOf(b) ==
  CASE b = 0              -> Frame(0, 3, 12, 16)
    [] b \in Plenos \ {0} -> Frame(12 + 12 * ((b - 1) \div 3), RowY((b - 1) % 3), 12, 6)
    [] b \in Verticales   -> Frame(12 + 12 * ((b - 37) \div 2), RowY((b - 37) % 2), 11, 1)
    [] b \in Horizontales -> Frame(23 + 12 * ((b - 61) \div 3), RowY((b - 61) % 3), 2, 5)
    [] b \in Calles       -> Frame(12 + 12 * (b - 94), 3, 11, 1)
    [] b \in Docenas      -> Frame(12 + 48 * (b - 106), 0, 48, 4)
    [] b \in Lineas       -> Frame(155, RowY(b - 109), 13, 6)
    [] OTHER              -> Frame(28 * (b - 112), 18, 28, 7)

IsInside(f, x, y) ==
  \/ f.w <= 2 /\ x \in f.x .. f.x + f.w /\ y \in f.y + 1 .. f.y + f.h - 1
  \/ f.w > 2 /\ f.h <= 2 /\ x \in f.x + 1 .. f.x + f.w - 1 /\ y \in f.y .. f.y + f.h
  \/ f.w > 2 /\ f.h > 2 /\ x \in f.x + 1 .. f.x + f.w - 2 /\ y \in f.y + 1 .. f.y + f.h - 2

Hits(x, y) == {b \in LayoutBox : IsInside(FrameOf(b), x, y)}

NoBox == 118

\* A search that lets later boxes overrule earlier ones.
BoxAtLast(x, y) ==
  IF Hits(x, y) = {} THEN NoBox
  ELSE CHOOSE b \in Hits(x, y) : \A c \in Hits(x, y) : c <= b

\* The first box that contains the position: frames overlap.
BoxAt(x, y) ==
  IF Hits(x, y) = {} THEN NoBox
  ELSE CHOOSE b \in Hits(x, y) : \A c \in Hits(x, y) : b <= c

(***************************************************************************)
(* The reference: the numbers whose cell, its border of two columns and    *)
(* one row included, is touched by a position.                             *)
(***************************************************************************)
Touched(x, y) ==
  {n \in Pocket : LET f == FrameOf(n)
                  IN  x \in f.x - 1 .. f.x + f.w /\ y \in f.y .. f.y + f.h - 1}

-----------------------------------------------------------------------------
(***************************************************************************)
(* Drawing the slips of a box: a spiral that starts in the upper left      *)
(* corner and turns at limits that close in.  A slip takes two columns.    *)
(***************************************************************************)
Corner(f) ==
  [dx |-> IF f.w > 2 THEN 1 ELSE 0, dy |-> IF f.h > 2 THEN 1 ELSE 0,
   xway |-> 2, yway |-> 0, left |-> 1, right |-> f.w - 2,
   top |-> IF f.h > 2 THEN 1 ELSE 0, bottom |-> f.h - 1]

\* From moving along a row to moving along a column.
TurnX(s) ==
  LET way == IF s.xway > 0 THEN 1 ELSE -1
  IN  [s EXCEPT !.xway = 0, !.yway = way, !.dy = @ + way,
                !.right = IF way = 1 THEN @ - 2 ELSE @,
                !.left = IF way = -1 THEN @ + 2 ELSE @]

\* The upper limit left where it was: the spiral would meet its first row.
TurnYHigh(s) ==
  LET way == IF s.yway > 0 THEN -2 ELSE 2
  IN  [s EXCEPT !.yway = 0, !.xway = way, !.dx = @ + way,
                !.bottom = IF way = -2 THEN @ - 1 ELSE @]

TurnY(s) ==
  LET way == IF s.yway > 0 THEN -2 ELSE 2
  IN  [s EXCEPT !.yway = 0, !.xway = way, !.dx = @ + way,
                !.bottom = IF way = -2 THEN @ - 1 ELSE @,
                !.top = IF way = 2 THEN @ + 1 ELSE @]

Advance(s) ==
  LET dx == s.dx + s.xway
      dy == s.dy + s.yway
  IN  CASE s.xway # 0 /\ (dx >= s.right \/ dx < s.left)  -> TurnX(s)
        [] s.yway # 0 /\ (dy = s.bottom \/ dy <= s.top)  -> TurnY(s)
        [] OTHER -> [s EXCEPT !.dx = dx, !.dy = dy]

\* Where slip i of a box is drawn, the first being slip 0.
SlipPlaces(b) ==
  LET place[i \in 0 .. MaxBetsOf(b) - 1] ==
        IF i = 0 THEN Corner(FrameOf(b)) ELSE Advance(place[i - 1])
  IN  place
=============================================================================
