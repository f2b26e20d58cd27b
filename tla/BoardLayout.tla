---------------------------- MODULE BoardLayout ----------------------------
(***************************************************************************)
(* The fixed geometry of the betting board: 118 boxes over the numbers     *)
(* 0..36, the numbers each box covers (Board::boxHasNumber), its pay rate  *)
(* and the number of players it can hold (Board::Board).                   *)
(*                                                                         *)
(* The code decides coverage with unsigned arithmetic on the box index.    *)
(* The reference definition below goes the other way round: it lays the    *)
(* numbers out on the 12 x 3 table and says which cells each kind of bet   *)
(* touches.  The two are compared on every box and every number.           *)
(***************************************************************************)
EXTENDS Integers, FiniteSets

LayoutBox == 0..117
Pocket    == 0..36

Plenos     == 0..36
Verticales == 37..60
Horizontales == 61..93
Calles     == 94..105
Docenas    == 106..108
Lineas     == 109..111
Colores    == 112..113
Paridades  == 114..115
Mitades    == 116..117

Rojos == {1, 3, 5, 7, 9, 12, 14, 16, 18, 19, 21, 23, 25, 27, 30, 32, 34, 36}

\* The subtraction left out: the two pairs of a column would be exchanged.
VerticalHasExchanged(b, n) ==
  /\ (n - 1) \div 3 = (b - 37) \div 2
  /\ n % 3 = (b - 37) % 2 \/ n % 3 = 2

(***************************************************************************)
(* The unsigned subtraction 1 - number % 3 wraps when number % 3 = 2; the  *)
(* wrapped value equals neither 0 nor 1, as -1 does here.                  *)
(***************************************************************************)
VerticalHas(b, n) ==
  /\ (n - 1) \div 3 = (b - 37) \div 2
  /\ 1 - (n % 3) = (b - 37) % 2 \/ n % 3 = 2

PayRateOf(b) ==
  CASE b \in Plenos -> 36
    [] b \in Verticales \cup Horizontales -> 18
    [] b \in Calles -> 12
    [] b \in Docenas \cup Lineas -> 3
    [] OTHER -> 2

MaxBetsOf(b) ==
  CASE b \in Plenos \cup Docenas \cup Lineas -> 18
    [] b \in Verticales \cup Calles -> 5
    [] b \in Horizontales -> 4
    [] OTHER -> 60

BoxHasNumber(b, n) ==
  \/ b \in Plenos /\ b = n
  \/ /\ n # 0
     /\ \/ b \in Verticales   /\ VerticalHas(b, n)
        \/ b \in Horizontales /\ n \in {b - 60, b - 57}
        \/ b \in Calles       /\ (n - 1) \div 3 = b - 94
        \/ b \in Docenas      /\ (n - 1) \div 12 = b - 106
        \/ b \in Lineas       /\ (n - 1) % 3 = b - 109
        \/ b \in Colores      /\ (n \in Rojos) = (b = 112)
        \/ b \in Paridades    /\ n % 2 = b - 114
        \/ b \in Mitades      /\ (n - 1) % 18 = b - 116

Covered(b) == {n \in Pocket : BoxHasNumber(b, n)}

-----------------------------------------------------------------------------
(***************************************************************************)
(* The reference: column c in 0..11 and row r in 0..2 hold 3c + r + 1.     *)
(***************************************************************************)
Cell(c, r) == 3 * c + r + 1

CellsOf(b) ==
  CASE b \in Plenos       -> {b}
    [] b \in Verticales   -> LET c == (b - 37) \div 2
                                 r == (b - 37) % 2
                             IN  {Cell(c, r), Cell(c, r + 1)}
    [] b \in Horizontales -> LET c == (b - 61) \div 3
                                 r == (b - 61) % 3
                             IN  {Cell(c, r), Cell(c + 1, r)}
    [] b \in Calles       -> {Cell(b - 94, r) : r \in 0..2}
    [] b \in Docenas      -> {Cell(c, r) : c \in 4 * (b - 106) .. 4 * (b - 106) + 3,
                                           r \in 0..2}
    [] b \in Lineas       -> {Cell(c, b - 109) : c \in 0..11}
    [] b = 112            -> Rojos
    [] b = 113            -> 1..36 \ Rojos
    [] b = 114            -> {2 * k : k \in 1..18}
    [] b = 115            -> {2 * k - 1 : k \in 1..18}
    [] b = 116            -> 1..18
    [] b = 117            -> 19..36
=============================================================================
