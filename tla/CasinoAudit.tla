----------------------------- MODULE CasinoAudit ---------------------------
(***************************************************************************)
(* The accounts of one round.  A sheet is taken when the number is drawn:  *)
(* the board, what every player owns and what the bank owns.  When         *)
(* Crupier::payBets has returned, everybody must own what the sheet and    *)
(* the number say, although the croupier works through two collections,    *)
(* box by box and player by player, while listeners go on billing.         *)
(*                                                                         *)
(* The sheet is history: it is read by no step of the server.              *)
(***************************************************************************)
EXTENDS Casino, Functions

VARIABLE sheet  \* Null while there is nothing to account for

auditVars == <<vars, sheet>>

\* A stake that is on the board but not billed yet is spent already.
Worth(p) ==
  CASE players[p] = Null -> Null
    [] players[p] # Null /\ lpc[p] \in {"confirm", "bill"} -> players[p] - msg[p].amount
    [] players[p] # Null /\ lpc[p] = "billWrite" -> held[p] - msg[p].amount
    [] OTHER -> players[p]

\* Both threads have read the funds of one player and neither has written:
\* one of the two updates will be lost.
Overlap ==
  /\ cpc' = "payWrite"
  /\ \E s \in recollected' : First(recollected', s) /\ lpc'[s.player] = "billWrite"

\* The sheet loses its meaning when a stake is placed after the draw, when
\* a player leaves, when an update of funds is lost, or when the bank breaks
\* and leaves the rest unpaid.
Voided ==
  \/ Overlap
  \/ \E p \in Player : lpc[p] = "commit" /\ lpc'[p] # "commit"
  \/ \E p \in Player : lpc[p] = "delete" /\ lpc'[p] # "delete"
  \/ bancarrota'

AuditInit == Init /\ sheet = Null

\* The number is drawn.
Draws == cpc = "spin" /\ cpc' = "losers"

AuditNext ==
  /\ Next
  /\ \/ /\ Draws
        /\ sheet' = [board  |-> bets,
                     worth  |-> [p \in Player |-> Worth(p)],
                     bank   |-> budget,
                     number |-> winner']
     \/ /\ ~ Draws
        /\ cpc = "clean" \/ Voided
        /\ sheet' = Null
     \/ /\ ~ Draws
        /\ cpc # "clean" /\ ~ Voided
        /\ UNCHANGED sheet

AuditSpec == AuditInit /\ [][AuditNext]_auditVars

-----------------------------------------------------------------------------
\* What the sheet and the number say of player p's stakes, box by box.
Prizes(p) == [b \in Box |-> IF sheet.number \in Covers[b]
                            THEN Stake(sheet.board, b, p) * PayRate[b] ELSE 0]

Losses(p) == [b \in Box |-> IF sheet.number \in Covers[b]
                            THEN 0 ELSE Stake(sheet.board, b, p)]

Won(p)    == SumFunction(Prizes(p))
LostBy(p) == SumFunction(Losses(p))

(***************************************************************************)
(* After Crupier::payBets: every player who sat at the draw has been paid  *)
(* each of his winning stakes once at its box's rate and nothing else, the *)
(* bank has taken every losing stake and paid every prize, and the board   *)
(* is empty even before cleanBets.                                         *)
(***************************************************************************)
RoundSettled ==
  sheet # Null /\ cpc = "clean" =>
    /\ \A p \in Player :
         sheet.worth[p] # Null => Worth(p) = sheet.worth[p] + Won(p)
    /\ budget = sheet.bank + SumFunction([p \in Player |-> LostBy(p)])
                           - SumFunction([p \in Player |-> Won(p)])
    /\ bets = EmptyBoard
=============================================================================
