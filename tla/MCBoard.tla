------------------------------- MODULE MCBoard ------------------------------
(***************************************************************************)
(* What lies under the cursor, for every position it reaches: what Board   *)
(* says of the box that Enter would bet on, and what Interface draws there.*)
(***************************************************************************)
EXTENDS Cursor

BoxUnder == [x \in 0 .. PadCols - 1 |-> [y \in 0 .. PadRows - 1 |-> BoxAt(x, y)]]

ASSUME EveryBoxIsUnderSomething ==
  {BoxUnder[x][y] : x \in 0 .. PadCols - 1, y \in 0 .. PadRows - 1} = LayoutBox \cup {NoBox}

\* The box the cursor is on, if any.
Pointed == {BoxUnder[cursor_x][cursor_y]} \ {NoBox}

CoverageOk == [b \in LayoutBox |->
  b \notin Mitades => \A n \in Pocket : BoxHasNumber(b, n) <=> n \in CellsOf(b)]

(***************************************************************************)
(* Outside the two halves, the index arithmetic of Board::boxHasNumber     *)
(* gives exactly the cells the bet covers on the table.                    *)
(***************************************************************************)
CoverageMatchesTable == \A b \in Pointed : CoverageOk[b]

(***************************************************************************)
(* Outside the two halves every bet is equally fair: rate times numbers    *)
(* covered is 36 (the constructor's pay rates against the coverage), so    *)
(* the zero is the bank's only edge.                                       *)
(***************************************************************************)
ASSUME RatesEquallyFair ==
  \A b \in LayoutBox \ Mitades : PayRateOf(b) * Cardinality(Covered(b)) = 36

\* The pairs and the streets: lines between cells, with hardly room for slips.
Lines == Verticales \cup Horizontales \cup Calles

OnBox(b, i) ==
  LET f == FrameOf(b)
      s == SlipPlaces(b)[i]
  IN  \A k \in 0..1 : BoxAt(f.x + s.dx + k, f.y + s.dy) = b

Apart(s, t) == s.dy # t.dy \/ s.dx - t.dx \notin -1..1

SlipsOk == [b \in LayoutBox |->
  LET place == SlipPlaces(b)
      last  == MaxBetsOf(b) - 1
  IN  /\ \A i \in 0..last : OnBox(b, i) \/ (b \in Lines /\ i = last)
      /\ \A i \in 0..last : \A j \in 0 .. i - 1 : Apart(place[i], place[j])]

(***************************************************************************)
(* A full box (the maximum of Board::Board) drawn by Interface::drawBox:   *)
(* no slip covers another, and every slip lies where Enter would bet on    *)
(* that very box, but for the last slip of a pair or a street, which falls *)
(* on the cell next to it.                                                 *)
(***************************************************************************)
SlipsReadable == \A b \in Pointed : SlipsOk[b]

(***************************************************************************)
(* What the comments of Board.cpp (line 40) and Board.h (line 24) say of   *)
(* boxes 116 and 117: they are the two halves, Menores and Mayores.        *)
(***************************************************************************)
HalvesCoverHalf == \A b \in Pointed \cap Mitades : Covered(b) = CellsOf(b)
=============================================================================
