------------------------------ MODULE Service ------------------------------
(***************************************************************************)
(* What the server owes one client, and what it may count on: one question *)
(* at a time, each answered once; a bet accepted is billed, that very bet, *)
(* and the bill told, before the next bet is answered; no bet before the   *)
(* client is in the player table, none after its farewell.                 *)
(***************************************************************************)
CONSTANTS Bets, JoinQuestion, QuitQuestion, Null

VARIABLES
  stage,     \* over, unheard, confirmed, seated, refused, left
  question,  \* what the client has asked and is not answered yet, or Null
  debt       \* the accepted bet that is not billed yet, or Null

serviceVars == <<stage, question, debt>>

ServiceInit ==
  /\ stage \in {"over", "unheard"}
  /\ question = Null
  /\ debt = Null

\* The connection is accepted.
Begin ==
  /\ stage = "over"
  /\ stage' = "unheard"
  /\ UNCHANGED <<question, debt>>

AskJoin ==
  /\ stage = "unheard"
  /\ question = Null
  /\ question' = JoinQuestion
  /\ UNCHANGED <<stage, debt>>

AnswerJoin ==
  /\ stage = "unheard"
  /\ question = JoinQuestion
  /\ question' = Null
  /\ stage' \in {"confirmed", "refused"}
  /\ UNCHANGED debt

\* The client is told of itself.
Introduce ==
  /\ stage = "confirmed"
  /\ stage' = "seated"
  /\ UNCHANGED <<question, debt>>

Ask ==
  /\ stage \in {"confirmed", "seated"}
  /\ question = Null
  /\ question' \in Bets \cup {QuitQuestion}
  /\ UNCHANGED <<stage, debt>>

AnswerBet ==
  /\ stage = "seated"
  /\ question \in Bets
  /\ debt = Null
  /\ debt' \in {Null, question}
  /\ question' = Null
  /\ UNCHANGED stage

\* The stake is taken and the new funds are told.
Bill ==
  /\ debt # Null
  /\ debt' = Null
  /\ UNCHANGED <<stage, question>>

Farewell ==
  /\ stage = "seated"
  /\ question = QuitQuestion
  /\ debt = Null
  /\ stage' = "left"
  /\ question' = Null
  /\ UNCHANGED debt

\* Either end may close the connection, or break off, at any time.
End ==
  /\ stage # "over"
  /\ stage' = "over"
  /\ question' = Null
  /\ debt' = Null

ServiceNext ==
  \/ Begin \/ AskJoin \/ AnswerJoin \/ Introduce \/ Ask \/ AnswerBet \/ Bill \/ Farewell
  \/ End

ServiceSpec == ServiceInit /\ [][ServiceNext]_serviceVars
=============================================================================
