------------------------------- MODULE Board -------------------------------
(***************************************************************************)
(* The betting board as a value: for every box and player, the amount the  *)
(* player has on the box, or Null when Box::bets has no entry for him.     *)
(* Board and Box hold no lock; the modules that use these operators decide *)
(* in which order the threads of the program apply them.                   *)
(*                                                                         *)
(* The server builds its board with the configured limit, the client with  *)
(* the default 0 (no limit), so the limit is an argument.                  *)
(***************************************************************************)
EXTENDS Integers, FiniteSets

CONSTANTS
  Player,    \* player ids; the program orders bets by id
  NumBoxes,  \* 118 in the program
  MaxBets,   \* box -> how many players it holds (Box::max_bets)
  Null       \* no entry

Box == 0 .. NumBoxes - 1

ASSUME BoardAssumption ==
  /\ Player \subseteq Nat
  /\ IsFiniteSet(Player)
  /\ NumBoxes \in Nat \ {0}
  /\ MaxBets \in [Box -> Nat]
  /\ Null \notin Int

Boards == [Box -> [Player -> Nat \cup {Null}]]

EmptyBoard == [b \in Box |-> [p \in Player |-> Null]]

HasBet(board, b, p) == board[b][p] # Null

Bettors(board, b) == {p \in Player : HasBet(board, b, p)}

\* What operator[] of Box::bets yields: a missing entry counts as 0.
Stake(board, b, p) == IF HasBet(board, b, p) THEN board[b][p] ELSE 0

(***************************************************************************)
(* Board::placeBet and the tests of Box::placeBet.                         *)
(***************************************************************************)
Admissible(limit, a) == limit = 0 \/ (a > 0 /\ a <= limit)

\* Only the new amount is held against the limit, not the accumulated one.
AcceptsUnsummed(board, limit, b, p, a) ==
  /\ Admissible(limit, a)
  /\ \/ HasBet(board, b, p)
     \/ /\ ~ HasBet(board, b, p)
        /\ Cardinality(Bettors(board, b)) < MaxBets[b]

Accepts(board, limit, b, p, a) ==
  /\ Admissible(limit, a)
  /\ \/ /\ HasBet(board, b, p)
        /\ limit = 0 \/ Stake(board, b, p) + a <= limit
     \/ /\ ~ HasBet(board, b, p)
        /\ Cardinality(Bettors(board, b)) < MaxBets[b]

\* The assignment that ends Box::placeBet.
Placed(board, b, p, a) == [board EXCEPT ![b][p] = Stake(board, b, p) + a]

\* Box::grabBets: the box is left empty ...
Grabbed(board, b) == [board EXCEPT ![b] = [p \in Player |-> Null]]

\* ... and its entries are handed over, multiplied by a rate.
Slip == [box : Box, player : Player, amount : Nat]

Slips(board, b, rate) ==
  {[box |-> b, player |-> p, amount |-> Stake(board, b, p) * rate] :
     p \in Bettors(board, b)}

(***************************************************************************)
(* The multimap of collected bets is walked by player id; the entries of   *)
(* one player keep the order in which the boxes were visited.              *)
(***************************************************************************)
Precedes(s, t) ==
  s.player < t.player \/ (s.player = t.player /\ s.box <= t.box)

First(slips, s) == s \in slips /\ \A t \in slips : Precedes(s, t)
=============================================================================
