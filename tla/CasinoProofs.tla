---------------------------- MODULE CasinoProofs ---------------------------
(***************************************************************************)
(* What holds of Casino for every number of players and boxes, every       *)
(* limit, wheel and budget, and every way of leaving.                      *)
(*                                                                         *)
(* The safety invariants checked on small instances are proved here.  None *)
(* is inductive as it stands; each has a strengthening of its own, named   *)
(* after it, and all rest on the type invariant and on ServedIsSeated.     *)
(* The visit of each client is shown to implement Service, and a round to  *)
(* come closer to its end with every step of the croupier.                 *)
(***************************************************************************)
EXTENDS Casino, FiniteSetTheorems, WellFoundedInduction, TLAPS

-----------------------------------------------------------------------------
(* The operators of the board. *)

(***************************************************************************)
(* A stake is a natural number, whether or not the box has an entry.       *)
(***************************************************************************)
LEMMA StakeNat ==
  ASSUME NEW board \in Boards, NEW b \in Box, NEW p \in Player
  PROVE  Stake(board, b, p) \in Nat
BY DEF Stake, HasBet, Boards

LEMMA GrabbedType ==
  ASSUME NEW board \in Boards, NEW b \in Box
  PROVE  Grabbed(board, b) \in Boards
BY DEF Grabbed, Boards

LEMMA PlacedType ==
  ASSUME NEW board \in Boards, NEW b \in Box, NEW p \in Player, NEW a \in Nat
  PROVE  Placed(board, b, p, a) \in Boards
<1>1. Stake(board, b, p) + a \in Nat
  BY StakeNat
<1> QED
  BY <1>1 DEF Placed, Boards

(***************************************************************************)
(* Handing over a box (Box::grabBets and the multiplication by its rate)   *)
(* yields slips of that box.                                               *)
(***************************************************************************)
LEMMA SlipsType ==
  ASSUME NEW board \in Boards, NEW b \in Box, NEW rate \in Nat
  PROVE  /\ Slips(board, b, rate) \subseteq Slip
         /\ \A s \in Slips(board, b, rate) : s.box = b
<1>1. \A p \in Player : Stake(board, b, p) * rate \in Nat
  BY StakeNat
<1> QED
  BY <1>1 DEF Slips, Slip, Bettors

LEMMA NextBoxType ==
  ASSUME cbox \in Box, NEW phase, NextBoxOr(phase)
  PROVE  cbox' \in Box /\ cpc' \in {phase, cpc}
<1>1. NumBoxes \in Nat \ {0}
  BY BoardAssumption
<1> QED
  BY <1>1 DEF NextBoxOr, Box

LEMMA SendType ==
  ASSUME TypeOK, NEW S, SendTo(S)
  PROVE  /\ isConn' \in [Player -> BOOLEAN]
         /\ peer' \in [Player -> Peer]
BY DEF TypeOK, SendTo, Pinged, Peer, EndedPeer

LEMMA AnswerType ==
  ASSUME TypeOK, NEW p \in Player, NEW stage \in OpenPeer, Answer(p, stage)
  PROVE  /\ isConn' \in [Player -> BOOLEAN]
         /\ peer' \in [Player -> Peer]
BY DEF TypeOK, Answer, Pinged, Peer, EndedPeer

-----------------------------------------------------------------------------
(* Types, the player table and the message being handled. *)

BetPC == {"check", "commit", "deny", "confirm", "bill", "billWrite", "tellBet",
          "tellFunds"}

\* The message a listener handles as a bet is one.
BetInHand == \A p \in Player : lpc[p] \in BetPC => msg[p] \in BetMessage

CoreInv == TypeOK /\ ServedIsSeated /\ BetInHand

LEMMA BetTyped ==
  ASSUME NEW m \in Message, m.type = "bet"
  PROVE  m \in BetMessage
BY DEF Message, ShortMessage

LEMMA BetFields ==
  ASSUME NEW m \in BetMessage
  PROVE  m \in Message /\ m.box \in Box /\ m.amount \in Nat
BY CasinoAssumption DEF Message, BetMessage

LEMMA CrupierType ==
  ASSUME CoreInv, CrupierStep
  PROVE  TypeOK'
<1> USE BoardAssumption, CasinoAssumption DEF CoreInv, TypeOK, shared, counters,
   keyboards, CrupierOnly
<1>1. CASE WaitConnections
  BY <1>1 DEF WaitConnections, CrupierPC
<1>2. CASE StartBets
  BY <1>2, SendType DEF StartBets, Broadcast, CrupierPC
<1>3. CASE StopBets
  BY <1>3, SendType DEF StopBets, Broadcast, CrupierPC
<1>4. CASE Spin
  <2>1. isConn' \in [Player -> BOOLEAN] /\ peer' \in [Player -> Peer]
    BY <1>4, SendType DEF Spin, Broadcast
  <2>2. cbox' \in Box /\ cpc' \in CrupierPC /\ winner' \in Number
    BY <1>4 DEF Spin, Box, CrupierPC
  <2> QED
    BY <1>4, <2>1, <2>2 DEF Spin
<1>5. CASE GrabLosers
  <2>1. cbox' \in Box /\ cpc' \in CrupierPC
    BY <1>5, NextBoxType DEF GrabLosers, CrupierPC
  <2>2. bets' \in Boards /\ recollected' \subseteq Slip
    BY <1>5, GrabbedType, SlipsType DEF GrabLosers
  <2> QED
    BY <1>5, <2>1, <2>2 DEF GrabLosers
<1>6. CASE Collect
  <2>1. budget' \in Int
    BY <1>6 DEF Collect, Slip
  <2> QED
    BY <1>6, <2>1 DEF Collect, CrupierPC
<1>7. CASE GrabWinners
  <2>1. cbox' \in Box /\ cpc' \in CrupierPC
    BY <1>7, NextBoxType DEF GrabWinners, CrupierPC
  <2>2. PayRate[cbox] \in Nat
    BY CasinoAssumption
  <2>3. bets' \in Boards /\ recollected' \subseteq Slip
    BY <1>7, <2>2, GrabbedType, SlipsType DEF GrabWinners
  <2> QED
    BY <1>7, <2>1, <2>3 DEF GrabWinners
<1>8. CASE Pay
  <2>1. \A s \in recollected : s.amount \in Int /\ s.player \in Player
    BY DEF Slip
  <2>2. budget' \in Int
    BY <1>8, <2>1 DEF Pay
  <2>3. \A s \in recollected : players[s.player] # Null => players[s.player] \in Int
    BY <2>1
  <2>4. purse' \in Int
    BY <1>8, <2>3 DEF Pay
  <2> QED
    BY <1>8, <2>2, <2>4 DEF Pay, RoundOver, CrupierPC
<1>9. CASE PayWrite
  <2>1. PICK s \in recollected :
          players' = [players EXCEPT ![s.player] = IF @ = Null THEN Null ELSE purse + s.amount]
    BY <1>9 DEF PayWrite
  <2>2. s.player \in Player /\ purse + s.amount \in Int
    BY DEF Slip
  <2>3. players' \in [Player -> Int \cup {Null}]
    BY <2>1, <2>2
  <2> QED
    BY <1>9, <2>3 DEF PayWrite, CrupierPC
<1>10. CASE TellPaid
  <2>1. isConn' \in [Player -> BOOLEAN] /\ peer' \in [Player -> Peer]
    BY <1>10, SendType DEF TellPaid, Broadcast
  <2> QED
    BY <1>10, <2>1 DEF TellPaid, CrupierPC
<1>11. CASE CleanBets
  <2>1. cbox' \in Box /\ cpc' \in CrupierPC
    BY <1>11, NextBoxType DEF CleanBets, CrupierPC
  <2>2. bets' \in Boards
    BY <1>11, GrabbedType DEF CleanBets
  <2> QED
    BY <1>11, <2>1, <2>2 DEF CleanBets
<1>12. CASE NotifyBroke
  BY <1>12, SendType DEF NotifyBroke, Broadcast, CrupierPC
<1>13. CASE Expel
  <2>1. isConn' \in [Player -> BOOLEAN] /\ peer' \in [Player -> Peer]
    BY <1>13, SendType DEF Expel, Broadcast
  <2>2. dismissed' \subseteq Player
    BY <1>13 DEF Expel, Connected
  <2>3. cpc' \in CrupierPC /\ budget' \in Int
    BY <1>13 DEF Expel, CrupierPC
  <2>4. bancarrota' \in BOOLEAN
    BY <1>13, Zenon DEF Expel
  <2>5. UNCHANGED <<players, bets, crashed, purse, cbox, winner, recollected, input,
                    lpc, msg, roster, held, wire, sent, handled, sessions>>
    BY <1>13 DEF Expel
  <2> QED
    BY <2>1, <2>2, <2>3, <2>4, <2>5
<1> QED
  BY <1>1, <1>2, <1>3, <1>4, <1>5, <1>6, <1>7, <1>8, <1>9, <1>10, <1>11, <1>12,
     <1>13 DEF CrupierStep

(***************************************************************************)
(* The step of a listener leaves the croupier and the other listeners      *)
(* alone.                                                                  *)
(***************************************************************************)
LEMMA GotoType ==
  ASSUME TypeOK, NEW p \in Player, NEW pc \in ListenerPC, Goto(p, pc)
  PROVE  /\ lpc' \in [Player -> ListenerPC]
         /\ lpc'[p] = pc
         /\ \A q \in Player \ {p} : lpc'[q] = lpc[q]
BY DEF TypeOK, Goto

LEMMA DispatchType ==
  ASSUME TypeOK, NEW p \in Player, NEW m \in Message,
         lpc[p] \in {"enrolRecv", "serveRecv"}, Dispatch(p, m)
  PROVE  /\ lpc' \in [Player -> ListenerPC]
         /\ lpc'[p] \in {"admit", "enrol", "check", "serve"}
         /\ lpc'[p] = "check" => m \in BetMessage
         /\ lpc'[p] \in ServePC => lpc[p] = "serveRecv"
         /\ \A q \in Player \ {p} : lpc'[q] = lpc[q]
         /\ handled' \in [Player -> Nat]
<1>1. CASE lpc[p] = "enrolRecv" /\ m.type = "join"
  <2>1. Goto(p, "admit")
    BY <1>1 DEF Dispatch
  <2>2. handled' \in [Player -> Nat]
    BY <1>1 DEF Dispatch, TypeOK
  <2> QED
    BY <2>1, <2>2, GotoType DEF ListenerPC, EnrolPC, ServePC
<1>2. CASE lpc[p] = "enrolRecv" /\ m.type # "join"
  <2>1. Goto(p, "enrol")
    BY <1>2 DEF Dispatch
  <2>2. handled' \in [Player -> Nat]
    BY <1>2 DEF Dispatch, TypeOK
  <2> QED
    BY <2>1, <2>2, GotoType DEF ListenerPC, EnrolPC, ServePC
<1>3. CASE lpc[p] = "serveRecv" /\ m.type = "bet"
  <2>1. Goto(p, "check")
    BY <1>3 DEF Dispatch
  <2>2. handled' \in [Player -> Nat]
    BY <1>3 DEF Dispatch, TypeOK
  <2> QED
    BY <1>3, <2>1, <2>2, GotoType, BetTyped DEF ListenerPC, ServePC
<1>4. CASE lpc[p] = "serveRecv" /\ m.type # "bet"
  <2>1. Goto(p, "serve")
    BY <1>4 DEF Dispatch
  <2>2. handled' \in [Player -> Nat]
    BY <1>4 DEF Dispatch, TypeOK
  <2> QED
    BY <1>4, <2>1, <2>2, GotoType DEF ListenerPC, ServePC
<1> QED
  BY <1>1, <1>2, <1>3, <1>4

LEMMA ListenerType ==
  ASSUME CoreInv, NEW p \in Player, ListenerStep(p)
  PROVE  TypeOK'
<1> USE BoardAssumption, CasinoAssumption DEF CoreInv, shared, crupier, counters,
   keyboards
<1>1. CASE EnrolLoop(p)
  <2>1. lpc' \in [Player -> ListenerPC]
    BY <1>1 DEF EnrolLoop, Goto, TypeOK, ListenerPC, EnrolPC, LeavePC
  <2> QED
    BY <1>1, <2>1 DEF EnrolLoop, TypeOK
<1>2. CASE RecvMessage(p)
  <2>1. wire[p] \in Message
    BY <1>2 DEF RecvMessage, TypeOK
  <2>2. lpc' \in [Player -> ListenerPC] /\ handled' \in [Player -> Nat]
    BY <1>2, <2>1, DispatchType DEF RecvMessage
  <2> QED
    BY <1>2, <2>1, <2>2 DEF RecvMessage, TypeOK
<1>3. CASE RecvEnd(p)
  <2>1. lpc' \in [Player -> ListenerPC] /\ handled' \in [Player -> Nat]
    BY <1>3, DispatchType DEF RecvEnd, TypeOK
  <2> QED
    BY <1>3, <2>1 DEF RecvEnd, TypeOK
<1>4. CASE Admit(p)
  <2>1. lpc' \in [Player -> ListenerPC]
    BY <1>4 DEF Admit, Goto, TypeOK, ListenerPC, EnrolPC
  <2> QED
    BY <1>4, <2>1 DEF Admit, TypeOK
<1>5. CASE Insert(p)
  BY <1>5 DEF Insert, Goto, TypeOK, ListenerPC, ServePC
<1>6. CASE Refuse(p)
  <2>1. isConn' \in [Player -> BOOLEAN] /\ peer' \in [Player -> Peer]
    BY <1>6, AnswerType DEF Refuse, OpenPeer
  <2> QED
    BY <1>6, <2>1 DEF Refuse, Goto, TypeOK, ListenerPC, LeavePC
<1>7. CASE ConfirmJoin(p)
  <2>1. isConn' \in [Player -> BOOLEAN] /\ peer' \in [Player -> Peer]
    BY <1>7, AnswerType DEF ConfirmJoin, OpenPeer
  <2> QED
    BY <1>7, <2>1 DEF ConfirmJoin, Goto, TypeOK, ListenerPC, ServePC
<1>8. CASE SendPlayerId(p) \/ NotifyNewPlayer(p)
  <2>1. isConn' \in [Player -> BOOLEAN] /\ peer' \in [Player -> Peer]
    BY <1>8, SendType DEF SendPlayerId, NotifyNewPlayer, Broadcast
  <2>2. lpc' \in [Player -> ListenerPC]
    BY <1>8 DEF SendPlayerId, NotifyNewPlayer, Goto, TypeOK, ListenerPC, ServePC
  <2> QED
    BY <1>8, <2>1, <2>2 DEF SendPlayerId, NotifyNewPlayer, TypeOK
<1>9. CASE CopyList(p)
  BY <1>9 DEF CopyList, Goto, TypeOK, ListenerPC, ServePC, Seated
<1>10. CASE CallRoll(p)
  <2>1. isConn' \in [Player -> BOOLEAN] /\ peer' \in [Player -> Peer]
    BY <1>10, SendType DEF CallRoll, TypeOK
  <2>2. lpc' \in [Player -> ListenerPC] /\ roster' \in [Player -> SUBSET Player]
    BY <1>10 DEF CallRoll, Goto, TypeOK, ListenerPC, ServePC
  <2>3. crashed' \in BOOLEAN
    BY <1>10, Zenon DEF CallRoll, TypeOK
  <2> QED
    BY <1>10, <2>1, <2>2, <2>3 DEF CallRoll, TypeOK
<1>11. CASE ServeLoop(p)
  <2>1. lpc' \in [Player -> ListenerPC]
    BY <1>11 DEF ServeLoop, Goto, TypeOK, ListenerPC, ServePC, LeavePC
  <2> QED
    BY <1>11, <2>1 DEF ServeLoop, TypeOK
<1>12. CASE Check(p)
  <2>1. lpc' \in [Player -> ListenerPC]
    BY <1>12 DEF Check, Goto, TypeOK, ListenerPC, ServePC
  <2> QED
    BY <1>12, <2>1 DEF Check, TypeOK
<1>13. CASE Commit(p)
  <2>1. msg[p].box \in Box /\ msg[p].amount \in Nat
    BY <1>13, BetFields DEF Commit, BetInHand, BetPC
  <2>2. bets' \in Boards
    BY <1>13, <2>1, PlacedType DEF Commit, TypeOK
  <2> QED
    BY <1>13, <2>2 DEF Commit, Goto, TypeOK, ListenerPC, ServePC
<1>14. CASE Deny(p)
  <2>1. isConn' \in [Player -> BOOLEAN] /\ peer' \in [Player -> Peer]
    BY <1>14, AnswerType DEF Deny, OpenPeer
  <2> QED
    BY <1>14, <2>1 DEF Deny, Goto, TypeOK, ListenerPC, ServePC
<1>15. CASE Confirm(p)
  <2>1. isConn' \in [Player -> BOOLEAN] /\ peer' \in [Player -> Peer]
    BY <1>15, AnswerType DEF Confirm, OpenPeer
  <2> QED
    BY <1>15, <2>1 DEF Confirm, Goto, TypeOK, ListenerPC, ServePC
<1>16. CASE Bill(p)
  <2>1. players[p] \in Int
    BY <1>16 DEF Bill, ServedIsSeated, ServePC, TypeOK
  <2> QED
    BY <1>16, <2>1 DEF Bill, Goto, TypeOK, ListenerPC, ServePC
<1>17. CASE BillWrite(p)
  <2>1. msg[p].amount \in Nat
    BY <1>17, BetFields DEF BillWrite, BetInHand, BetPC
  <2>2. players' \in [Player -> Int \cup {Null}]
    BY <1>17, <2>1 DEF BillWrite, TypeOK
  <2> QED
    BY <1>17, <2>2 DEF BillWrite, Goto, TypeOK, ListenerPC, ServePC
<1>18. CASE NotifyNewBet(p) \/ NotifyFunds(p)
  <2>1. isConn' \in [Player -> BOOLEAN] /\ peer' \in [Player -> Peer]
    BY <1>18, SendType DEF NotifyNewBet, NotifyFunds, Broadcast
  <2>2. lpc' \in [Player -> ListenerPC]
    BY <1>18 DEF NotifyNewBet, NotifyFunds, Goto, TypeOK, ListenerPC, ServePC
  <2> QED
    BY <1>18, <2>1, <2>2 DEF NotifyNewBet, NotifyFunds, TypeOK
<1>19. CASE Depart(p)
  <2>1. isConn' \in [Player -> BOOLEAN] /\ peer' \in [Player -> Peer]
    BY <1>19, SendType DEF Depart, Broadcast, TypeOK
  <2>2. lpc' \in [Player -> ListenerPC]
    BY <1>19 DEF Depart, Goto, TypeOK, ListenerPC, LeavePC
  <2>3. crashed' \in BOOLEAN
    BY <1>19, Zenon DEF Depart, TypeOK
  <2> QED
    BY <1>19, <2>1, <2>2, <2>3 DEF Depart, TypeOK
<1>20. CASE Delete(p)
  BY <1>20 DEF Delete, Goto, TypeOK, ListenerPC, LeavePC
<1>21. CASE Close(p)
  <2>1. peer' \in [Player -> Peer]
    BY <1>21 DEF Close, TypeOK, Peer
  <2> QED
    BY <1>21, <2>1 DEF Close, Goto, TypeOK, ListenerPC
<1> QED
  BY <1>1, <1>2, <1>3, <1>4, <1>5, <1>6, <1>7, <1>8, <1>9, <1>10, <1>11, <1>12,
     <1>13, <1>14, <1>15, <1>16, <1>17, <1>18, <1>19, <1>20, <1>21 DEF ListenerStep

LEMMA ClientType ==
  ASSUME CoreInv, NEW p \in Player, ClientStep(p)
  PROVE  TypeOK'
<1> USE DEF CoreInv, TypeOK, shared, crupier, counters, keyboards, ServerIdle
<1>1. CASE Connect(p)
  BY <1>1 DEF Connect, Goto, ListenerPC, EnrolPC, Peer, OpenPeer, Message, ShortMessage
<1>2. CASE Join(p)
  BY <1>2 DEF Join, ClientSends, Peer, OpenPeer, Message, ShortMessage
<1>3. CASE Ask(p)
  BY <1>3 DEF Ask, Dialog, Peer, OpenPeer
<1>4. CASE Decline(p)
  BY <1>4 DEF Decline, Dialog, Peer, OpenPeer
<1>5. CASE Bet(p)
  <2>1. PICK b \in Box, a \in Amount :
          ClientSends(p, [type |-> "bet", box |-> b, amount |-> a], "asking", "waiting")
    BY <1>5 DEF Bet
  <2>2. [type |-> "bet", box |-> b, amount |-> a] \in Message
    BY DEF Message, BetMessage
  <2> QED
    BY <1>5, <2>1, <2>2 DEF Bet, ClientSends, Peer, OpenPeer
<1>6. CASE Esc(p)
  BY <1>6 DEF Esc, ClientSends, Peer, OpenPeer, Message, ShortMessage
<1>7. CASE Hangup(p)
  BY <1>7 DEF Hangup, Peer, EndedPeer
<1>8. CASE HearStop(p)
  BY <1>8 DEF HearStop
<1>9. CASE Reset(p)
  BY <1>9 DEF Reset, Peer, EndedPeer
<1> QED
  BY <1>1, <1>2, <1>3, <1>4, <1>5, <1>6, <1>7, <1>8, <1>9 DEF ClientStep

(***************************************************************************)
(* Who touches what: the croupier no listener's state and no player's seat,*)
(* a listener only its own player, a client neither.                       *)
(***************************************************************************)
LEMMA CrupierFrame ==
  ASSUME TypeOK, CrupierStep
  PROVE  /\ UNCHANGED <<lpc, msg, roster, held, wire, sent, handled, sessions>>
         /\ \A p \in Player : players[p] # Null => players'[p] # Null
<1>1. UNCHANGED <<lpc, msg, roster, held, wire, sent, handled, sessions>>
  BY DEF CrupierStep, WaitConnections, StartBets, StopBets, Spin, GrabLosers, Collect,
         GrabWinners, Pay, PayWrite, TellPaid, CleanBets, NotifyBroke, Expel, CrupierOnly,
         counters
<1>2. CASE PayWrite
  <2>1. PICK s \in recollected :
          players' = [players EXCEPT ![s.player] = IF @ = Null THEN Null ELSE purse + s.amount]
    BY <1>2 DEF PayWrite
  <2>2. purse + s.amount \in Int
    BY DEF Slip, TypeOK
  <2> QED
    BY <1>1, <2>1, <2>2, BoardAssumption DEF TypeOK
<1>3. CASE ~ PayWrite
  <2>1. UNCHANGED players
    BY <1>3 DEF CrupierStep, WaitConnections, StartBets, StopBets, Spin, GrabLosers,
                Collect, GrabWinners, Pay, TellPaid, CleanBets, NotifyBroke, Expel, shared
  <2> QED
    BY <1>1, <2>1
<1> QED
  BY <1>2, <1>3

LEMMA ListenerFrame ==
  ASSUME TypeOK, NEW p \in Player, ListenerStep(p)
  PROVE  /\ UNCHANGED crupier
         /\ \A q \in Player \ {p} : /\ lpc'[q] = lpc[q]
                                    /\ msg'[q] = msg[q]
                                    /\ players'[q] = players[q]
BY DEF TypeOK, ListenerStep, EnrolLoop, RecvMessage, RecvEnd, Admit, Insert, Refuse,
       ConfirmJoin, SendPlayerId, NotifyNewPlayer, CopyList, CallRoll, ServeLoop, Check,
       Commit, Deny, Confirm, Bill, BillWrite, NotifyNewBet, NotifyFunds, Depart, Delete,
       Close, Dispatch, Goto, crupier, shared

LEMMA ClientFrame ==
  ASSUME TypeOK, NEW p \in Player, ClientStep(p)
  PROVE  /\ UNCHANGED <<shared, crupier, roster, held, handled>>
         /\ \A q \in Player \ {p} : lpc'[q] = lpc[q] /\ msg'[q] = msg[q]
         /\ (lpc'[p] = lpc[p] /\ msg'[p] = msg[p]) \/ lpc'[p] = "enrol"
BY DEF TypeOK, ClientStep, Connect, Join, Ask, Decline, Bet, Esc, Hangup, HearStop, Reset,
       ClientSends, Dialog, ServerIdle, Goto

(***************************************************************************)
(* The step of a listener that ends in the serving loop began there, or it *)
(* has just registered its player.                                         *)
(***************************************************************************)
LEMMA ListenerOwn ==
  ASSUME CoreInv, NEW p \in Player, ListenerStep(p)
  PROVE  /\ lpc'[p] \in ServePC => players'[p] # Null
         /\ lpc'[p] \in BetPC => msg'[p] \in BetMessage
<1> USE BoardAssumption DEF CoreInv, shared, crupier
<1> SUFFICES ASSUME lpc'[p] \in ServePC
             PROVE  /\ players'[p] # Null
                    /\ lpc'[p] \in BetPC => msg'[p] \in BetMessage
  BY DEF ServePC, BetPC
<1>1. CASE RecvMessage(p)
  <2>1. wire[p] \in Message
    BY <1>1 DEF RecvMessage, TypeOK
  <2>2. msg'[p] = wire[p] /\ UNCHANGED players
    BY <1>1 DEF RecvMessage, TypeOK
  <2> QED
    BY <1>1, <2>1, <2>2, DispatchType DEF RecvMessage, ServedIsSeated, ServePC, BetPC
<1>2. CASE RecvEnd(p)
  <2>1. msg[p] \in Message /\ UNCHANGED <<msg, players>>
    BY <1>2 DEF RecvEnd, TypeOK
  <2> QED
    BY <1>2, <2>1, DispatchType DEF RecvEnd, ServedIsSeated, ServePC, BetPC
<1>3. CASE Insert(p)
  BY <1>3, CasinoAssumption DEF Insert, Goto, TypeOK, BetPC
<1>4. CASE BillWrite(p)
  <2>1. msg[p].amount \in Nat
    BY <1>4, BetFields DEF BillWrite, BetInHand, BetPC
  <2>2. players'[p] # Null
    BY <1>4, <2>1 DEF BillWrite, TypeOK
  <2> QED
    BY <1>4, <2>2 DEF BillWrite, Goto, TypeOK, BetInHand, BetPC
<1>5. CASE EnrolLoop(p) \/ Admit(p) \/ Refuse(p) \/ Delete(p) \/ Close(p)
  BY <1>5 DEF EnrolLoop, Admit, Refuse, Delete, Close, Goto, TypeOK, ServePC
<1>6. CASE ConfirmJoin(p) \/ SendPlayerId(p) \/ NotifyNewPlayer(p) \/ CopyList(p)
           \/ CallRoll(p) \/ ServeLoop(p)
           \/ Deny(p) \/ Depart(p)
  BY <1>6 DEF ConfirmJoin, SendPlayerId, NotifyNewPlayer, CopyList, CallRoll, ServeLoop,
              Deny, Depart, Goto, TypeOK, ServePC, BetPC, ServedIsSeated
<1>7. CASE Check(p) \/ Commit(p) \/ Confirm(p) \/ Bill(p) \/ NotifyNewBet(p)
           \/ NotifyFunds(p)
  BY <1>7 DEF Check, Commit, Confirm, Bill, NotifyNewBet, NotifyFunds, Goto, TypeOK,
              ServePC, BetPC, ServedIsSeated, BetInHand
<1> QED
  BY <1>1, <1>2, <1>3, <1>4, <1>5, <1>6, <1>7 DEF ListenerStep

LEMMA CoreInit == Init => CoreInv
<1> SUFFICES ASSUME Init PROVE CoreInv
  OBVIOUS
<1>1. EmptyBoard \in Boards
  BY DEF EmptyBoard, Boards
<1>2. TypeOK
  <2>1. crashed \in BOOLEAN /\ bancarrota \in BOOLEAN /\ isConn \in [Player -> BOOLEAN]
    BY Zenon DEF Init
  <2>2. cpc \in CrupierPC /\ cbox \in Box /\ budget \in Int /\ bets \in Boards
    BY <1>1, BoardAssumption, CasinoAssumption DEF Init, CrupierPC, Box
  <2>3. /\ lpc \in [Player -> ListenerPC]
        /\ msg \in [Player -> Message]
        /\ peer \in [Player -> Peer]
    BY DEF Init, ListenerPC, Message, ShortMessage, Peer
  <2> QED
    BY <2>1, <2>2, <2>3 DEF Init, TypeOK
<1>3. ServedIsSeated /\ BetInHand
  BY DEF Init, ServedIsSeated, BetInHand, ServePC, BetPC
<1> QED
  BY <1>2, <1>3 DEF CoreInv

LEMMA CoreStep == CoreInv /\ [Next]_vars => CoreInv'
<1> SUFFICES ASSUME CoreInv, [Next]_vars PROVE CoreInv'
  OBVIOUS
<1>1. CASE CrupierStep
  BY <1>1, CrupierType, CrupierFrame DEF CoreInv, ServedIsSeated, BetInHand
<1>2. ASSUME NEW p \in Player, ListenerStep(p) PROVE CoreInv'
  <2>1. TypeOK'
    BY <1>2, ListenerType
  <2>2. ServedIsSeated' /\ BetInHand'
    BY <1>2, ListenerFrame, ListenerOwn DEF CoreInv, ServedIsSeated, BetInHand
  <2> QED
    BY <2>1, <2>2 DEF CoreInv
<1>3. ASSUME NEW p \in Player, ClientStep(p) PROVE CoreInv'
  <2>1. TypeOK'
    BY <1>3, ClientType
  <2>2. UNCHANGED players
    BY <1>3, ClientFrame DEF CoreInv, shared
  <2>3. ServedIsSeated' /\ BetInHand'
    BY <1>3, <2>2, ClientFrame DEF CoreInv, ServedIsSeated, BetInHand, ServePC, BetPC
  <2> QED
    BY <2>1, <2>3 DEF CoreInv
<1>4. CASE UNCHANGED vars
  BY <1>4 DEF vars, shared, crupier, keyboards, counters, CoreInv, TypeOK, ServedIsSeated,
              BetInHand
<1> QED
  BY <1>1, <1>2, <1>3, <1>4 DEF Next

(***************************************************************************)
(* Every variable of the server keeps its type, whatever the threads do.   *)
(***************************************************************************)
THEOREM TypeCorrect == Spec => []TypeOK
<1>1. CoreInv => TypeOK
  BY DEF CoreInv
<1> QED
  BY CoreInit, CoreStep, <1>1, PTL DEF Spec

(***************************************************************************)
(* A listener that serves a player finds him in the player table: none of  *)
(* the lookups it makes for him dereferences a missing player.             *)
(***************************************************************************)
THEOREM ServedSafe == Spec => []ServedIsSeated
<1>1. CoreInv => ServedIsSeated
  BY DEF CoreInv
<1> QED
  BY CoreInit, CoreStep, <1>1, PTL DEF Spec

-----------------------------------------------------------------------------
(* The limit of a stake. *)

\* What the test of Box::placeBet found is still true at its assignment.
RoomKept ==
  MaxAmount # 0 =>
    \A p \in Player :
      lpc[p] = "commit" => Stake(bets, msg[p].box, p) + msg[p].amount <= MaxAmount

LimitInv == CoreInv /\ StakeWithinLimit /\ RoomKept

LEMMA AcceptedFits ==
  ASSUME NEW board \in Boards, NEW limit \in Nat \ {0}, NEW b \in Box, NEW p \in Player,
         NEW a \in Nat, Accepts(board, limit, b, p, a)
  PROVE  Stake(board, b, p) + a <= limit
BY DEF Accepts, Admissible, Stake

(***************************************************************************)
(* Emptying a box lowers stakes, placing a bet raises one.                 *)
(***************************************************************************)
LEMMA GrabbedStake ==
  ASSUME NEW board \in Boards, NEW b \in Box, NEW c \in Box, NEW p \in Player
  PROVE  Stake(Grabbed(board, b), c, p) <= Stake(board, c, p)
BY DEF Grabbed, Stake, HasBet, Boards

LEMMA PlacedStake ==
  ASSUME NEW board \in Boards, NEW b \in Box, NEW p \in Player, NEW a \in Nat,
         NEW c \in Box, NEW q \in Player
  PROVE  Stake(Placed(board, b, p, a), c, q) =
           IF c = b /\ q = p THEN Stake(board, b, p) + a ELSE Stake(board, c, q)
<1>1. Stake(board, b, p) + a \in Nat
  BY StakeNat
<1>2. CASE c = b /\ q = p
  BY <1>1, <1>2, BoardAssumption DEF Placed, Boards, Stake, HasBet
<1>3. CASE ~ (c = b /\ q = p)
  <2>1. Placed(board, b, p, a)[c][q] = board[c][q]
    BY <1>3 DEF Placed, Boards
  <2> QED
    BY <1>3, <2>1 DEF Stake, HasBet
<1> QED
  BY <1>2, <1>3

LEMMA CrupierBets ==
  ASSUME CoreInv, CrupierStep
  PROVE  bets' = bets \/ \E b \in Box : bets' = Grabbed(bets, b)
BY DEF CoreInv, TypeOK, CrupierStep, WaitConnections, StartBets, StopBets, Spin,
       GrabLosers, Collect, GrabWinners, Pay, PayWrite, TellPaid, CleanBets, NotifyBroke,
       Expel, shared

LEMMA ListenerBets ==
  ASSUME NEW p \in Player, ListenerStep(p)
  PROVE  bets' = bets \/ Commit(p)
BY DEF ListenerStep, EnrolLoop, RecvMessage, RecvEnd, Admit, Insert, Refuse, ConfirmJoin,
       SendPlayerId, NotifyNewPlayer, CopyList, CallRoll, ServeLoop, Check, Deny, Confirm,
       Bill, BillWrite, NotifyNewBet, NotifyFunds, Depart, Delete, Close, shared

LEMMA ListenerCommit ==
  ASSUME TypeOK, NEW p \in Player, ListenerStep(p), lpc'[p] = "commit"
  PROVE  Check(p) /\ Accepts(bets, MaxAmount, msg[p].box, p, msg[p].amount)
<1>1. Check(p)
  <2>1. ~ (RecvMessage(p) \/ RecvEnd(p))
    BY DispatchType DEF RecvMessage, RecvEnd, TypeOK
  <2> QED
    BY <2>1 DEF TypeOK, ListenerStep, EnrolLoop, Admit, Insert, Refuse, ConfirmJoin,
                SendPlayerId, NotifyNewPlayer, CopyList, CallRoll, ServeLoop, Commit,
                Deny, Confirm, Bill, BillWrite, NotifyNewBet, NotifyFunds, Depart, Delete,
                Close, Goto
<1>2. Accepts(bets, MaxAmount, msg[p].box, p, msg[p].amount)
  BY <1>1 DEF Check, Goto, TypeOK
<1> QED
  BY <1>1, <1>2

LEMMA LimitStep == LimitInv /\ [Next]_vars => LimitInv'
<1> SUFFICES ASSUME LimitInv, [Next]_vars, MaxAmount # 0
             PROVE  StakeWithinLimit' /\ RoomKept'
  BY CoreStep DEF LimitInv, StakeWithinLimit, RoomKept
<1> USE DEF LimitInv
<1>0. CoreInv /\ TypeOK /\ MaxAmount \in Nat \ {0} /\ bets \in Boards
  BY CasinoAssumption DEF CoreInv, TypeOK
<1>1. \A p \in Player : lpc[p] = "commit" => msg[p].box \in Box /\ msg[p].amount \in Nat
  BY <1>0, BetFields DEF CoreInv, BetInHand, BetPC
<1>2. \A b \in Box, p \in Player : Stake(bets, b, p) \in Nat
  BY <1>0, StakeNat
<1>3. ASSUME NEW b \in Box, bets' = Grabbed(bets, b), UNCHANGED <<lpc, msg>>
      PROVE  StakeWithinLimit' /\ RoomKept'
  <2>1. bets' \in Boards
    BY <1>0, <1>3, GrabbedType
  <2>2. \A c \in Box, p \in Player :
          Stake(bets', c, p) \in Nat /\ Stake(bets', c, p) <= Stake(bets, c, p)
    BY <1>0, <1>3, <2>1, GrabbedStake, StakeNat
  <2> QED
    BY <1>0, <1>1, <1>2, <1>3, <2>2 DEF StakeWithinLimit, RoomKept
<1>4. CASE CrupierStep
  BY <1>0, <1>3, <1>4, CrupierBets, CrupierFrame DEF StakeWithinLimit, RoomKept
<1>5. ASSUME NEW p \in Player, ListenerStep(p) PROVE StakeWithinLimit' /\ RoomKept'
  <2>1. \A q \in Player \ {p} : lpc'[q] = lpc[q] /\ msg'[q] = msg[q]
    BY <1>0, <1>5, ListenerFrame
  <2>2. CASE bets' = bets
    <3>1. lpc'[p] = "commit" =>
            /\ msg'[p] = msg[p]
            /\ Stake(bets, msg[p].box, p) + msg[p].amount <= MaxAmount
      <4> SUFFICES ASSUME lpc'[p] = "commit"
                   PROVE  /\ msg'[p] = msg[p]
                          /\ Stake(bets, msg[p].box, p) + msg[p].amount <= MaxAmount
        OBVIOUS
      <4>1. Check(p) /\ Accepts(bets, MaxAmount, msg[p].box, p, msg[p].amount)
        BY <1>0, <1>5, ListenerCommit
      <4>2. msg[p].box \in Box /\ msg[p].amount \in Nat
        BY <1>0, <4>1, BetFields DEF Check, CoreInv, BetInHand, BetPC
      <4> QED
        BY <1>0, <4>1, <4>2, AcceptedFits DEF Check
    <3> QED
      BY <2>1, <2>2, <3>1 DEF StakeWithinLimit, RoomKept
  <2>3. CASE Commit(p)
    <3>1. /\ lpc[p] = "commit" /\ lpc'[p] = "confirm"
          /\ bets' = Placed(bets, msg[p].box, p, msg[p].amount)
      BY <1>0, <2>3 DEF Commit, Goto, TypeOK
    <3>2. \A c \in Box, q \in Player :
            Stake(bets', c, q) = IF c = msg[p].box /\ q = p
                                 THEN Stake(bets, msg[p].box, p) + msg[p].amount
                                 ELSE Stake(bets, c, q)
      BY <1>0, <1>1, <3>1, PlacedStake
    <3>3. StakeWithinLimit'
      BY <1>0, <3>1, <3>2 DEF StakeWithinLimit, RoomKept
    <3>4. RoomKept'
      BY <1>1, <2>1, <3>1, <3>2 DEF RoomKept
    <3> QED
      BY <3>3, <3>4
  <2> QED
    BY <1>5, <2>2, <2>3, ListenerBets
<1>6. ASSUME NEW p \in Player, ClientStep(p) PROVE StakeWithinLimit' /\ RoomKept'
  <2>1. bets' = bets /\ \A q \in Player : lpc'[q] = "commit" =>
                          lpc[q] = "commit" /\ msg'[q] = msg[q]
    BY <1>0, <1>6, ClientFrame DEF shared
  <2> QED
    BY <2>1 DEF StakeWithinLimit, RoomKept
<1>7. CASE UNCHANGED vars
  BY <1>7 DEF vars, shared, StakeWithinLimit, RoomKept
<1> QED
  BY <1>4, <1>5, <1>6, <1>7 DEF Next

(***************************************************************************)
(* No player ever has more than MaxBet on a box, although Box::placeBet    *)
(* tests and assigns without a lock and the croupier grabs in between, and *)
(* although a listener may handle the last bet again.                      *)
(***************************************************************************)
THEOREM StakesLimited == Spec => []StakeWithinLimit
<1>1. Init => LimitInv
  <2> SUFFICES ASSUME Init PROVE StakeWithinLimit /\ RoomKept
    BY CoreInit DEF LimitInv
  <2>1. \A b \in Box, p \in Player : Stake(bets, b, p) = 0
    BY DEF Init, EmptyBoard, Stake, HasBet
  <2> QED
    BY <2>1, CasinoAssumption DEF Init, StakeWithinLimit, RoomKept
<1>2. LimitInv => StakeWithinLimit
  BY DEF LimitInv
<1> QED
  BY <1>1, <1>2, LimitStep, PTL DEF Spec

-----------------------------------------------------------------------------
(* The bank and its collections. *)

\* bancarrota is set exactly from the payment that breaks the bank until
\* its funds are restored.
BankInv ==
  /\ BankSolvent
  /\ cpc \in {"broke", "expel"} => bancarrota
  /\ bancarrota => cpc \in {"clean", "broke", "expel"}

LEMMA BankStep == TypeOK /\ BankInv /\ [Next]_vars => BankInv'
<1> SUFFICES ASSUME TypeOK, BankInv, [Next]_vars PROVE BankInv'
  OBVIOUS
<1>1. CASE UNCHANGED crupier
  BY <1>1 DEF crupier, BankInv, BankSolvent
<1>2. CASE CrupierStep
  <2> USE DEF BankInv, BankSolvent
  <2>1. CASE WaitConnections \/ StartBets \/ StopBets \/ Spin \/ GrabLosers \/ GrabWinners
             \/ PayWrite \/ TellPaid
    BY <2>1 DEF WaitConnections, StartBets, StopBets, Spin, GrabLosers, GrabWinners,
                PayWrite, TellPaid, NextBoxOr
  <2>2. CASE Collect
    <3>1. \A s \in recollected : s.amount \in Nat
      BY DEF TypeOK, Slip
    <3> QED
      BY <2>2, <3>1 DEF Collect, TypeOK
  <2>3. CASE Pay
    <3>1. \A s \in recollected : s.amount \in Nat
      BY DEF TypeOK, Slip
    <3> QED
      BY <2>3, <3>1 DEF Pay, RoundOver, Bankrupts, TypeOK
  <2>4. CASE CleanBets
    BY <2>4 DEF CleanBets, NextBoxOr
  <2>5. CASE NotifyBroke
    BY <2>5 DEF NotifyBroke
  <2>6. CASE Expel
    BY <2>6, CasinoAssumption DEF Expel
  <2> QED
    BY <1>2, <2>1, <2>2, <2>3, <2>4, <2>5, <2>6 DEF CrupierStep
<1>3. ASSUME NEW p \in Player, ListenerStep(p) \/ ClientStep(p) PROVE UNCHANGED crupier
  BY <1>3, ListenerFrame, ClientFrame
<1> QED
  BY <1>1, <1>2, <1>3 DEF Next, vars

(***************************************************************************)
(* The bank never opens a round, takes or pays with nothing left.          *)
(***************************************************************************)
THEOREM BankAlwaysSolvent == Spec => []BankSolvent
<1>1. Init => BankInv
  BY CasinoAssumption DEF Init, BankInv, BankSolvent
<1>2. BankInv => BankSolvent
  BY DEF BankInv
<1> QED
  BY <1>1, <1>2, BankStep, TypeCorrect, PTL DEF Spec

\* Between the settlements the collection is empty, so each of the two
\* collections starts from nothing.
SlipsInv ==
  /\ SlipsMatchNumber
  /\ cpc \in {"wait", "start", "betting", "spin", "clean", "broke", "expel"}
       => recollected = {}
  /\ cpc = "losers" => \A s \in recollected : winner \notin Covers[s.box]
  /\ cpc = "winners" => \A s \in recollected : winner \in Covers[s.box]

LEMMA SlipsStep == TypeOK /\ SlipsInv /\ [Next]_vars => SlipsInv'
<1> SUFFICES ASSUME TypeOK, SlipsInv, [Next]_vars PROVE SlipsInv'
  OBVIOUS
<1>1. CASE UNCHANGED crupier
  BY <1>1 DEF crupier, SlipsInv, SlipsMatchNumber
<1>2. CASE CrupierStep
  <2> USE DEF SlipsInv, SlipsMatchNumber
  <2>1. CASE WaitConnections \/ StartBets \/ StopBets \/ Spin \/ NotifyBroke \/ Expel
    BY <2>1 DEF WaitConnections, StartBets, StopBets, Spin, NotifyBroke, Expel
  <2>2. CASE GrabLosers
    <3>1. \A s \in Slips(bets, cbox, 1) : s.box = cbox
      BY SlipsType DEF TypeOK
    <3>2. cpc' \in {"losers", "collect"} /\ winner' = winner
      BY <2>2 DEF GrabLosers, NextBoxOr
    <3>3. \A s \in recollected' : winner \notin Covers[s.box]
      BY <2>2, <3>1 DEF GrabLosers
    <3> QED
      BY <3>2, <3>3
  <2>3. CASE Collect
    BY <2>3 DEF Collect
  <2>4. CASE GrabWinners
    <3>1. \A s \in Slips(bets, cbox, PayRate[cbox]) : s.box = cbox
      BY SlipsType, CasinoAssumption DEF TypeOK
    <3>2. cpc' \in {"winners", "pay"} /\ winner' = winner
      BY <2>4 DEF GrabWinners, NextBoxOr
    <3>3. \A s \in recollected' : winner \in Covers[s.box]
      BY <2>4, <3>1 DEF GrabWinners
    <3> QED
      BY <3>2, <3>3
  <2>5. CASE Pay
    BY <2>5 DEF Pay, RoundOver
  <2>6. CASE PayWrite
    BY <2>6 DEF PayWrite
  <2>7. CASE TellPaid
    BY <2>7 DEF TellPaid
  <2>8. CASE CleanBets
    BY <2>8 DEF CleanBets, NextBoxOr
  <2> QED
    BY <1>2, <2>1, <2>2, <2>3, <2>4, <2>5, <2>6, <2>7, <2>8 DEF CrupierStep
<1>3. ASSUME NEW p \in Player, ListenerStep(p) \/ ClientStep(p) PROVE UNCHANGED crupier
  BY <1>3, ListenerFrame, ClientFrame
<1> QED
  BY <1>1, <1>2, <1>3 DEF Next, vars

(***************************************************************************)
(* The bank takes only from boxes that lost and pays only boxes that won,  *)
(* also when bets arrive while it goes through the board.                  *)
(***************************************************************************)
THEOREM SlipsAlwaysMatch == Spec => []SlipsMatchNumber
<1>1. Init => SlipsInv
  BY DEF Init, SlipsInv, SlipsMatchNumber
<1>2. SlipsInv => SlipsMatchNumber
  BY DEF SlipsInv
<1> QED
  BY <1>1, <1>2, SlipsStep, TypeCorrect, PTL DEF Spec

-----------------------------------------------------------------------------
(***************************************************************************)
(* The end of a round.  Crupier::playGame goes through its phases in       *)
(* order, and through each loop of payBets and cleanBets for as long as    *)
(* there are boxes or slips left; no listener and no client has a hand in  *)
(* either, though the table the loops go through is theirs too.            *)
(***************************************************************************)
PhasesLeft ==
  [betting |-> 6, spin |-> 5, losers |-> 4, collect |-> 3, winners |-> 2,
   pay |-> 1, payWrite |-> 1, tellPaid |-> 1, clean |-> 0]

InRound == DOMAIN PhasesLeft

\* In the current phase: a box is one step, a slip collected one, paid three.
StepsLeft ==
  CASE cpc \in {"losers", "winners", "clean"} -> NumBoxes - cbox
    [] cpc = "collect"  -> Cardinality(recollected)
    [] cpc = "pay"      -> 3 * Cardinality(recollected)
    [] cpc = "payWrite" -> 3 * Cardinality(recollected) - 1
    [] cpc = "tellPaid" -> 3 * Cardinality(recollected) - 2
    [] OTHER            -> 0

Closer ==
  /\ cpc' \in InRound
  /\ \/ PhasesLeft[cpc'] < PhasesLeft[cpc]
     \/ PhasesLeft[cpc'] = PhasesLeft[cpc] /\ StepsLeft' < StepsLeft

(***************************************************************************)
(* Every step of the croupier in a round brings its end closer, is its     *)
(* end, or is the end of the process; every other step leaves it where it  *)
(* was.                                                                    *)
(***************************************************************************)
RoundAdvances ==
  cpc \in InRound =>
    IF CrupierStep THEN Closer \/ cpc' \in {"wait", "broke"} \/ crashed'
                   ELSE UNCHANGED <<cpc, cbox, recollected>>

RoundsClose == [][RoundAdvances]_vars

(***************************************************************************)
(* The steps left are a number, never below zero, and the turn of the      *)
(* croupier is never without its slip: while there are slips one comes     *)
(* first, and between charging the budget and telling the player there is  *)
(* one.                                                                    *)
(***************************************************************************)
TurnGoesOn ==
  /\ StepsLeft \in Nat
  /\ recollected # {} => \E s \in recollected : First(recollected, s)
  /\ cpc \in {"payWrite", "tellPaid"} => recollected # {}

RoundInv ==
  /\ IsFiniteSet(recollected)
  /\ cpc \in {"payWrite", "tellPaid"} => recollected # {}

\* A set of natural numbers has a least one.
LEMMA Least ==
  ASSUME NEW S \in SUBSET Nat, S # {}
  PROVE  \E n \in S : \A k \in S : n <= k
<1> DEFINE R == OpToRel(<, Nat)
<1>1. IsWellFoundedOn(R, Nat)
  BY NatLessThanWellFounded
<1>2. \A i, j \in Nat : i < j => <<i, j>> \in R
  BY DEF OpToRel
<1> HIDE DEF R
<1>3. PICK n \in S : \A k \in S : ~ (<<k, n>> \in R)
  BY <1>1, WFMin
<1>4. ASSUME NEW k \in S PROVE n <= k
  <2>1. k \in Nat /\ n \in Nat
    OBVIOUS
  <2>2. ~ (k < n)
    BY <1>2, <1>3, <2>1
  <2> QED
    BY <2>1, <2>2
<1> QED
  BY <1>4

LEMMA SlipFirst ==
  ASSUME recollected \subseteq Slip, recollected # {}
  PROVE  \E s \in recollected : First(recollected, s)
<1>1. Player \subseteq Nat /\ Box \subseteq Nat
  BY BoardAssumption DEF Box
<1>2. \A s \in recollected : s.player \in Nat /\ s.box \in Nat
  BY <1>1 DEF Slip
<1>3. PICK n \in {s.player : s \in recollected} :
        \A k \in {s.player : s \in recollected} : n <= k
  BY <1>2, Least
<1>4. PICK c \in {s.box : s \in {t \in recollected : t.player = n}} :
        \A k \in {s.box : s \in {t \in recollected : t.player = n}} : c <= k
  BY <1>2, <1>3, Least
<1>5. PICK s \in recollected : s.player = n /\ s.box = c
  BY <1>4
<1>6. ASSUME NEW t \in recollected PROVE Precedes(s, t)
  <2>1. n <= t.player /\ (t.player = n => c <= t.box)
    BY <1>3, <1>4
  <2> QED
    BY <1>2, <1>5, <2>1 DEF Precedes
<1> QED
  BY <1>5, <1>6 DEF First

LEMMA SlipsFinite ==
  ASSUME NEW board, NEW b, NEW rate
  PROVE  IsFiniteSet(Slips(board, b, rate))
<1> DEFINE f == [p \in Bettors(board, b) |->
                   [box |-> b, player |-> p, amount |-> Stake(board, b, p) * rate]]
<1>1. IsFiniteSet(Bettors(board, b))
  BY BoardAssumption, FS_Subset DEF Bettors
<1>2. f \in Surjection(Bettors(board, b), Slips(board, b, rate))
  BY DEF Slips, Surjection
<1> QED
  BY <1>1, <1>2, FS_Surjection

LEMMA NextBoxValue ==
  ASSUME cbox \in Box, NEW phase, NextBoxOr(phase)
  PROVE  \/ cbox + 1 < NumBoxes /\ cbox' = cbox + 1 /\ cpc' = cpc
         \/ cbox + 1 = NumBoxes /\ cbox' = 0 /\ cpc' = phase
<1>1. NumBoxes \in Nat \ {0} /\ cbox \in Nat /\ cbox <= NumBoxes - 1
  BY BoardAssumption DEF Box
<1>2. CASE cbox + 1 = NumBoxes
  <2>1. NumBoxes % NumBoxes = 0
    BY <1>1
  <2> QED
    BY <1>2, <2>1 DEF NextBoxOr
<1>3. CASE cbox + 1 < NumBoxes
  <2>1. (cbox + 1) % NumBoxes = cbox + 1
    BY <1>1, <1>3
  <2> QED
    BY <1>1, <1>3, <2>1 DEF NextBoxOr
<1> QED
  BY <1>1, <1>2, <1>3

LEMMA RoundStep == TypeOK /\ RoundInv /\ [Next]_vars => RoundInv'
<1> SUFFICES ASSUME TypeOK, RoundInv, [Next]_vars PROVE RoundInv'
  OBVIOUS
<1> USE DEF RoundInv
<1>1. CASE UNCHANGED crupier
  BY <1>1 DEF crupier
<1>2. ASSUME NEW p \in Player, ListenerStep(p) \/ ClientStep(p) PROVE UNCHANGED crupier
  BY <1>2, ListenerFrame, ClientFrame
<1>3. CASE CrupierStep
  <2>1. CASE WaitConnections \/ StartBets \/ StopBets \/ Spin \/ NotifyBroke \/ Expel
    BY <2>1 DEF WaitConnections, StartBets, StopBets, Spin, NotifyBroke, Expel
  <2>2. CASE GrabLosers \/ GrabWinners
    <3>1. cpc' \notin {"payWrite", "tellPaid"}
      BY <2>2 DEF GrabLosers, GrabWinners, NextBoxOr
    <3>2. \/ recollected' = recollected
          \/ \E rate : recollected' = recollected \cup Slips(bets, cbox, rate)
      BY <2>2 DEF GrabLosers, GrabWinners
    <3>3. IsFiniteSet(recollected')
      BY <3>2, SlipsFinite, FS_Union
    <3> QED
      BY <3>1, <3>3
  <2>3. CASE Collect
    BY <2>3, FS_RemoveElement DEF Collect
  <2>4. CASE Pay
    BY <2>4, FS_EmptySet DEF Pay, RoundOver
  <2>5. CASE PayWrite
    BY <2>5 DEF PayWrite
  <2>6. CASE TellPaid
    BY <2>6, FS_RemoveElement DEF TellPaid
  <2>7. CASE CleanBets
    BY <2>7 DEF CleanBets, NextBoxOr
  <2> QED
    BY <1>3, <2>1, <2>2, <2>3, <2>4, <2>5, <2>6, <2>7 DEF CrupierStep
<1> QED
  BY <1>1, <1>2, <1>3 DEF Next, vars

LEMMA RoundTurn == TypeOK /\ RoundInv => TurnGoesOn
<1> SUFFICES ASSUME TypeOK, RoundInv PROVE TurnGoesOn
  OBVIOUS
<1>1. Cardinality(recollected) \in Nat /\ (recollected # {} => Cardinality(recollected) # 0)
  BY FS_CardinalityType, FS_EmptySet DEF RoundInv
<1>2. NumBoxes - cbox \in Nat
  BY BoardAssumption DEF TypeOK, Box
<1>3. StepsLeft \in Nat
  BY <1>1, <1>2 DEF StepsLeft, RoundInv
<1>4. recollected # {} => \E s \in recollected : First(recollected, s)
  BY SlipFirst DEF TypeOK
<1> QED
  BY <1>3, <1>4 DEF TurnGoesOn, RoundInv

\* A slip done with is one slip less.
LEMMA SlipLess ==
  ASSUME RoundInv, NEW s \in recollected, recollected' = recollected \ {s}
  PROVE  /\ Cardinality(recollected) \in Nat /\ Cardinality(recollected') \in Nat
         /\ Cardinality(recollected') < Cardinality(recollected)
<1>1. IsFiniteSet(recollected) /\ IsFiniteSet(recollected')
  BY FS_RemoveElement DEF RoundInv
<1>2. Cardinality(recollected') = Cardinality(recollected) - 1
  BY <1>1, FS_RemoveElement
<1> QED
  BY <1>1, <1>2, FS_CardinalityType

LEMMA RoundCloser ==
  ASSUME TypeOK, RoundInv, CrupierStep, cpc \in InRound
  PROVE  Closer \/ cpc' \in {"wait", "broke"} \/ crashed'
<1> USE DEF InRound, PhasesLeft
<1>1. NumBoxes \in Nat \ {0} /\ cbox \in Nat /\ cbox <= NumBoxes - 1
  BY BoardAssumption DEF Box, TypeOK
<1>2. CASE StopBets \/ Spin
  BY <1>2 DEF StopBets, Spin, Closer
<1>3. ASSUME NEW phase, NextBoxOr(phase), cpc \in {"losers", "winners", "clean"},
             \/ phase \in {"wait", "broke"}
             \/ phase \in InRound /\ PhasesLeft[phase] < PhasesLeft[cpc]
      PROVE  Closer \/ cpc' \in {"wait", "broke"}
  <2>1. CASE cbox + 1 < NumBoxes /\ cbox' = cbox + 1 /\ cpc' = cpc
    <3>1. StepsLeft = NumBoxes - cbox /\ StepsLeft' = NumBoxes - cbox'
      BY <1>3, <2>1 DEF StepsLeft
    <3> QED
      BY <1>1, <1>3, <2>1, <3>1 DEF Closer
  <2>2. CASE cpc' = phase
    BY <1>3, <2>2 DEF Closer
  <2> QED
    BY <1>3, <2>1, <2>2, NextBoxValue DEF TypeOK
<1>4. CASE GrabLosers
  BY <1>3, <1>4 DEF GrabLosers
<1>5. CASE GrabWinners
  BY <1>3, <1>5 DEF GrabWinners
<1>6. CASE CleanBets
  BY <1>3, <1>6 DEF CleanBets
<1>7. CASE Collect
  <2>1. CASE recollected = {} /\ cpc' = "winners"
    BY <1>7, <2>1 DEF Collect, Closer
  <2>2. ASSUME NEW s \in recollected, recollected' = recollected \ {s}, cpc' = cpc
        PROVE  Closer
    <3>1. cpc = "collect" /\ Cardinality(recollected') < Cardinality(recollected)
      BY <1>7, <2>2, SlipLess DEF Collect
    <3> QED
      BY <2>2, <3>1 DEF StepsLeft, Closer
  <2> QED
    BY <1>7, <2>1, <2>2 DEF Collect
<1>8. CASE Pay
  <2>1. CASE cpc' = "clean"
    BY <1>8, <2>1 DEF Pay, Closer
  <2>2. CASE cpc' = "payWrite" /\ recollected' = recollected
    <3>1. Cardinality(recollected) \in Nat
      BY FS_CardinalityType DEF RoundInv
    <3>2. cpc = "pay"
      BY <1>8 DEF Pay
    <3> QED
      BY <2>2, <3>1, <3>2 DEF StepsLeft, Closer
  <2> QED
    BY <1>8, <2>1, <2>2 DEF Pay, RoundOver
<1>9. CASE PayWrite
  <2>1. Cardinality(recollected) \in Nat
    BY FS_CardinalityType DEF RoundInv
  <2> QED
    BY <1>9, <2>1 DEF PayWrite, StepsLeft, Closer
<1>10. CASE TellPaid
  <2>1. cpc = "tellPaid"
    BY <1>10 DEF TellPaid
  <2>2. ASSUME NEW s \in recollected, recollected' = recollected \ {s}, cpc' = "pay"
        PROVE  Closer
    <3>1. /\ Cardinality(recollected) \in Nat /\ Cardinality(recollected') = Cardinality(recollected) - 1
      BY <2>2, FS_CardinalityType, FS_RemoveElement DEF RoundInv
    <3>2. StepsLeft = 3 * Cardinality(recollected) - 2 /\ StepsLeft' = 3 * Cardinality(recollected')
      BY <2>1, <2>2 DEF StepsLeft
    <3> QED
      BY <2>1, <2>2, <3>1, <3>2 DEF Closer
  <2> QED
    BY <1>10, <2>2 DEF TellPaid
<1>11. ~ WaitConnections /\ ~ StartBets /\ ~ NotifyBroke /\ ~ Expel
  BY DEF WaitConnections, StartBets, NotifyBroke, Expel
<1> QED
  BY <1>2, <1>4, <1>5, <1>6, <1>7, <1>8, <1>9, <1>10, <1>11 DEF CrupierStep

LEMMA RoundSafe == Spec => [](TypeOK /\ RoundInv)
<1>1. Init => RoundInv
  BY FS_EmptySet DEF Init, RoundInv
<1> QED
  BY <1>1, RoundStep, TypeCorrect, PTL DEF Spec

(***************************************************************************)
(* A round that goes on is never without a step to take and, taking it,    *)
(* comes closer to its end.  Of RoundEnds only the scheduling is left: the *)
(* pairs of phases and steps are well-founded, so the croupier's steps are *)
(* finitely many.                                                          *)
(***************************************************************************)
THEOREM TurnSafe == Spec => []TurnGoesOn
BY RoundSafe, RoundTurn, PTL

THEOREM RoundsCloseSafe == Spec => RoundsClose
<1>1. TypeOK /\ RoundInv /\ [Next]_vars => [RoundAdvances]_vars
  <2> SUFFICES ASSUME TypeOK, RoundInv, Next, cpc \in InRound
               PROVE  IF CrupierStep THEN Closer \/ cpc' \in {"wait", "broke"} \/ crashed'
                                     ELSE UNCHANGED <<cpc, cbox, recollected>>
    BY DEF RoundAdvances
  <2>1. CASE CrupierStep
    BY <2>1, RoundCloser
  <2>2. CASE ~ CrupierStep
    <3>1. PICK p \in Player : ListenerStep(p) \/ ClientStep(p)
      BY <2>2 DEF Next
    <3>2. UNCHANGED crupier
      BY <3>1, ListenerFrame, ClientFrame
    <3> QED
      BY <2>2, <3>2 DEF crupier
  <2> QED
    BY <2>1, <2>2
<1> QED
  BY <1>1, RoundSafe, PTL DEF Spec, RoundsClose

-----------------------------------------------------------------------------
(* Questions and answers. *)

AnswerPC == {"admit", "insert", "refuse", "confirmJoin", "check", "commit", "deny",
             "confirm"}

\* From the question to its answer the client waits and sends nothing more.
QuestionInv ==
  \A p \in Player :
    /\ peer[p] = "none" => wire[p] = Null
    /\ peer[p] \in OpenPeer =>
         /\ lpc[p] \in AnswerPC => peer[p] = "waiting" /\ wire[p] = Null
         /\ wire[p] # Null /\ wire[p].type # "quit" => peer[p] = "waiting"

\* What a send may do to the other end.
Pings(p) == peer'[p] = peer[p] \/ (peer[p] = "closed" /\ peer'[p] = "pinged")

\* QuestionInv for one client, after a step.
Orderly(p) ==
  /\ peer'[p] = "none" => wire'[p] = Null
  /\ peer'[p] \in OpenPeer =>
       /\ lpc'[p] \in AnswerPC => peer'[p] = "waiting" /\ wire'[p] = Null
       /\ wire'[p] # Null /\ wire'[p].type # "quit" => peer'[p] = "waiting"

LEMMA SendPings ==
  ASSUME TypeOK, NEW S, SendTo(S), NEW p \in Player
  PROVE  Pings(p)
BY DEF TypeOK, SendTo, Pinged, Pings

LEMMA CrupierPings ==
  ASSUME TypeOK, CrupierStep, NEW p \in Player
  PROVE  Pings(p)
<1>1. UNCHANGED peer \/ Broadcast
  BY DEF CrupierStep, WaitConnections, StartBets, StopBets, Spin, GrabLosers, Collect,
         GrabWinners, Pay, PayWrite, TellPaid, CleanBets, NotifyBroke, Expel
<1> QED
  BY <1>1, SendPings DEF Broadcast, Pings

LEMMA ListenerPings ==
  ASSUME TypeOK, NEW p \in Player, ListenerStep(p), NEW q \in Player \ {p}
  PROVE  Pings(q) /\ wire'[q] = wire[q] /\ lpc'[q] = lpc[q]
<1>1. wire'[q] = wire[q]
  BY DEF TypeOK, ListenerStep, EnrolLoop, RecvMessage, RecvEnd, Admit, Insert, Refuse,
         ConfirmJoin, SendPlayerId, NotifyNewPlayer, CopyList, CallRoll, ServeLoop, Check,
         Commit, Deny, Confirm, Bill, BillWrite, NotifyNewBet, NotifyFunds, Depart,
         Delete, Close
<1>2. \/ UNCHANGED peer
      \/ Close(p)
      \/ \E S \in SUBSET Player : SendTo(S)
      \/ \E stage \in OpenPeer : Answer(p, stage)
  <2>1. Connected \in SUBSET Player /\ {p} \in SUBSET Player /\ {} \in SUBSET Player
    BY DEF Connected
  <2>2. CASE Refuse(p) \/ ConfirmJoin(p) \/ Deny(p) \/ Confirm(p)
    BY <2>2 DEF Refuse, ConfirmJoin, Deny, Confirm, OpenPeer
  <2>3. CASE SendPlayerId(p) \/ NotifyNewPlayer(p) \/ NotifyNewBet(p)
             \/ NotifyFunds(p) \/ Depart(p)
    BY <2>1, <2>3 DEF SendPlayerId, NotifyNewPlayer, NotifyNewBet, NotifyFunds, Depart,
                      Broadcast
  <2>4. CASE CallRoll(p)
    BY <2>1, <2>4 DEF CallRoll
  <2>5. CASE ~ (Refuse(p) \/ ConfirmJoin(p) \/ Deny(p) \/ Confirm(p)
                \/ SendPlayerId(p) \/ NotifyNewPlayer(p)
                \/ NotifyNewBet(p) \/ NotifyFunds(p) \/ Depart(p) \/ CallRoll(p))
    BY <2>5 DEF ListenerStep, EnrolLoop, RecvMessage, RecvEnd, Admit, Insert, CopyList,
                ServeLoop, Check, Commit, Bill, BillWrite, Delete
  <2> QED
    BY <2>2, <2>3, <2>4, <2>5
<1>3. \A stage \in OpenPeer : Answer(p, stage) => Pings(q)
  BY DEF TypeOK, Answer, Pinged, Pings
<1>4. Close(p) => Pings(q)
  BY DEF TypeOK, Close, Pings
<1>5. Pings(q)
  BY <1>2, <1>3, <1>4, SendPings DEF Pings
<1> QED
  BY <1>1, <1>5, ListenerFrame

LEMMA ListenerOrderly ==
  ASSUME TypeOK, QuestionInv, NEW p \in Player, ListenerStep(p)
  PROVE  Orderly(p)
<1>1. CASE RecvMessage(p)
  <2>1. wire[p] \in Message /\ wire[p] # Null /\ wire'[p] = Null /\ peer' = peer
    BY <1>1 DEF RecvMessage, TypeOK
  <2>2. lpc'[p] \in AnswerPC => wire[p].type # "quit"
    BY <1>1, <2>1 DEF RecvMessage, Dispatch, Goto, TypeOK, AnswerPC
  <2> QED
    BY <2>1, <2>2 DEF QuestionInv, Orderly, OpenPeer
<1>2. CASE RecvEnd(p)
  <2>1. peer'[p] \in EndedPeer
    BY <1>2 DEF RecvEnd
  <2> QED
    BY <2>1 DEF Orderly, EndedPeer, OpenPeer
<1>3. CASE Close(p)
  BY <1>3 DEF Close, Orderly, TypeOK, OpenPeer
<1>4. CASE Refuse(p) \/ ConfirmJoin(p) \/ Deny(p) \/ Confirm(p)
  <2>1. lpc[p] \in AnswerPC /\ lpc'[p] \notin AnswerPC /\ wire' = wire
    BY <1>4 DEF Refuse, ConfirmJoin, Deny, Confirm, Goto, TypeOK, AnswerPC
  <2>2. PICK stage \in OpenPeer : Answer(p, stage)
    BY <1>4 DEF Refuse, ConfirmJoin, Deny, Confirm, OpenPeer
  <2>3. CASE peer[p] = "waiting"
    BY <2>1, <2>3 DEF QuestionInv, Orderly, OpenPeer
  <2>4. CASE peer[p] # "waiting"
    <3>1. peer'[p] \notin OpenPeer /\ (peer'[p] = "none" => peer[p] = "none")
      BY <2>1, <2>2, <2>4 DEF QuestionInv, Answer, Pinged, TypeOK, OpenPeer
    <3> QED
      BY <2>1, <3>1 DEF QuestionInv, Orderly
  <2> QED
    BY <2>3, <2>4
<1>5. CASE EnrolLoop(p) \/ Admit(p) \/ Insert(p) \/ CopyList(p) \/ ServeLoop(p) \/ Check(p)
           \/ Commit(p) \/ Bill(p) \/ BillWrite(p) \/ Delete(p)
  <2>1. UNCHANGED <<peer, wire>> /\ (lpc'[p] \in AnswerPC => lpc[p] \in AnswerPC)
    BY <1>5 DEF EnrolLoop, Admit, Insert, CopyList, ServeLoop, Check, Commit, Bill,
                BillWrite, Delete, Goto, TypeOK, AnswerPC
  <2> QED
    BY <2>1 DEF QuestionInv, Orderly
<1>6. CASE SendPlayerId(p) \/ NotifyNewPlayer(p) \/ CallRoll(p) \/ NotifyNewBet(p)
           \/ NotifyFunds(p) \/ Depart(p)
  <2>1. wire' = wire /\ lpc'[p] \notin AnswerPC
    BY <1>6 DEF SendPlayerId, NotifyNewPlayer, CallRoll, NotifyNewBet, NotifyFunds,
                Depart, Goto, TypeOK, AnswerPC
  <2>2. Pings(p)
    BY <1>6, SendPings DEF SendPlayerId, NotifyNewPlayer, CallRoll, NotifyNewBet,
                           NotifyFunds, Depart, Broadcast, Pings
  <2> QED
    BY <2>1, <2>2 DEF QuestionInv, Orderly, Pings, OpenPeer
<1> QED
  BY <1>1, <1>2, <1>3, <1>4, <1>5, <1>6 DEF ListenerStep

LEMMA ClientOrderly ==
  ASSUME TypeOK, QuestionInv, NEW p \in Player, ClientStep(p)
  PROVE  \A q \in Player : Orderly(q)
<1> USE DEF QuestionInv, Orderly, TypeOK, OpenPeer, AnswerPC
<1>1. CASE Connect(p)
  BY <1>1 DEF Connect, Goto
<1>2. CASE Join(p)
  BY <1>2, BoardAssumption DEF Join, ClientSends
<1>3. CASE Ask(p) \/ Decline(p)
  BY <1>3 DEF Ask, Decline, Dialog
<1>4. CASE Bet(p)
  BY <1>4, BoardAssumption DEF Bet, ClientSends
<1>5. CASE Esc(p)
  BY <1>5, BoardAssumption DEF Esc, ClientSends
<1>6. CASE Hangup(p) \/ HearStop(p) \/ Reset(p)
  BY <1>6 DEF Hangup, HearStop, Reset
<1> QED
  BY <1>1, <1>2, <1>3, <1>4, <1>5, <1>6 DEF ClientStep

LEMMA QuestionStep == TypeOK /\ QuestionInv /\ [Next]_vars => QuestionInv'
<1> SUFFICES ASSUME TypeOK, QuestionInv, [Next]_vars PROVE \A q \in Player : Orderly(q)
  BY DEF QuestionInv, Orderly
<1>1. CASE CrupierStep
  <2>1. UNCHANGED <<lpc, wire>> /\ \A q \in Player : Pings(q)
    BY <1>1, CrupierFrame, CrupierPings
  <2> QED
    BY <2>1 DEF QuestionInv, Orderly, Pings, OpenPeer
<1>2. ASSUME NEW p \in Player, ListenerStep(p) PROVE \A q \in Player : Orderly(q)
  <2>1. \A q \in Player \ {p} : Pings(q) /\ wire'[q] = wire[q] /\ lpc'[q] = lpc[q]
    BY <1>2, ListenerPings
  <2>2. \A q \in Player \ {p} : Orderly(q)
    BY <2>1 DEF QuestionInv, Orderly, Pings, OpenPeer
  <2> QED
    BY <1>2, <2>2, ListenerOrderly
<1>3. CASE UNCHANGED vars
  BY <1>3 DEF vars, QuestionInv, Orderly
<1> QED
  BY <1>1, <1>2, <1>3, ClientOrderly DEF Next

-----------------------------------------------------------------------------
(***************************************************************************)
(* The farewell of a connection lost before its join.                      *)
(***************************************************************************)
Before == {"enrol", "enrolRecv"}

\* Before the join is read: nothing has come in, nothing but the join is under
\* way, and is_connected tells the end of the connection.
Unread(p) ==
  /\ msg[p].type = "ok"
  /\ wire[p] # Null => wire[p].type = "join"
  /\ peer[p] \in {"fresh", "waiting"} \cup EndedPeer
  /\ ~ isConn[p] => peer[p] \in EndedPeer

LostInv ==
  \A p \in Player :
    /\ lpc[p] \in Before => Unread(p)
    /\ lpc[p] = "depart" /\ players[p] = Null => peer[p] \in EndedPeer /\ msg[p].type = "ok"

\* LostInv for one client, after a step.
Parted(p) ==
  /\ lpc'[p] \in Before => Unread(p)'
  /\ lpc'[p] = "depart" /\ players'[p] = Null => peer'[p] \in EndedPeer /\ msg'[p].type = "ok"

\* What a send may find out about its stream.
Learns(p) == isConn'[p] = isConn[p] \/ isConn'[p] = (peer[p] # "reset")

LEMMA SendLearns ==
  ASSUME TypeOK, NEW S, SendTo(S), NEW p \in Player
  PROVE  Learns(p)
BY DEF TypeOK, SendTo, Learns

LEMMA AnswerLearns ==
  ASSUME TypeOK, NEW q \in Player, NEW stage, Answer(q, stage), NEW p \in Player
  PROVE  Learns(p)
BY DEF TypeOK, Answer, Learns

LEMMA CrupierLearns ==
  ASSUME TypeOK, CrupierStep, NEW p \in Player
  PROVE  Learns(p)
<1>1. UNCHANGED isConn \/ Broadcast
  BY DEF CrupierStep, WaitConnections, StartBets, StopBets, Spin, GrabLosers, Collect,
         GrabWinners, Pay, PayWrite, TellPaid, CleanBets, NotifyBroke, Expel
<1> QED
  BY <1>1, SendLearns DEF Broadcast, Learns

LEMMA ListenerLearns ==
  ASSUME TypeOK, NEW p \in Player, ListenerStep(p), NEW q \in Player \ {p}
  PROVE  Learns(q)
<1>1. CASE Refuse(p) \/ ConfirmJoin(p) \/ Deny(p) \/ Confirm(p)
  BY <1>1, AnswerLearns DEF Refuse, ConfirmJoin, Deny, Confirm
<1>2. CASE SendPlayerId(p) \/ NotifyNewPlayer(p) \/ CallRoll(p) \/ NotifyNewBet(p)
           \/ NotifyFunds(p) \/ Depart(p)
  BY <1>2, SendLearns DEF SendPlayerId, NotifyNewPlayer, CallRoll, NotifyNewBet, NotifyFunds,
                          Depart, Broadcast, Learns
<1>3. CASE RecvMessage(p) \/ RecvEnd(p) \/ Close(p)
  BY <1>3 DEF RecvMessage, RecvEnd, Close, Learns, TypeOK
<1>4. CASE EnrolLoop(p) \/ Admit(p) \/ Insert(p) \/ CopyList(p) \/ ServeLoop(p) \/ Check(p)
           \/ Commit(p) \/ Bill(p) \/ BillWrite(p) \/ Delete(p)
  BY <1>4 DEF EnrolLoop, Admit, Insert, CopyList, ServeLoop, Check, Commit, Bill, BillWrite,
              Delete, Learns
<1> QED
  BY <1>1, <1>2, <1>3, <1>4 DEF ListenerStep

\* Who stays where he is keeps LostInv, whatever is sent to him.
LEMMA PartedKept ==
  ASSUME TypeOK, LostInv, NEW p \in Player, Learns(p), Pings(p),
         lpc'[p] = lpc[p], msg'[p] = msg[p], wire'[p] = wire[p],
         players[p] # Null => players'[p] # Null
  PROVE  Parted(p)
BY DEF LostInv, Parted, Unread, Learns, Pings, EndedPeer, TypeOK

LEMMA ListenerParted ==
  ASSUME CoreInv, LostInv, NEW p \in Player, ListenerStep(p)
  PROVE  Parted(p)
<1> USE DEF CoreInv, LostInv
<1>1. CASE EnrolLoop(p)
  BY <1>1 DEF EnrolLoop, Goto, Parted, Unread, Before, shared, TypeOK
<1>2. CASE RecvMessage(p)
  <2>1. lpc[p] = "enrolRecv" => lpc'[p] = "admit"
    BY <1>2 DEF RecvMessage, Dispatch, Goto, Unread, Before, TypeOK
  <2>2. lpc[p] = "serveRecv" => lpc'[p] \in {"check", "serve"}
    BY <1>2 DEF RecvMessage, Dispatch, Goto, TypeOK
  <2> QED
    BY <1>2, <2>1, <2>2 DEF RecvMessage, Parted, Before
<1>3. CASE RecvEnd(p)
  <2>1. lpc[p] = "enrolRecv" => lpc'[p] = "enrol"
    BY <1>3 DEF RecvEnd, Dispatch, Goto, Unread, Before, TypeOK
  <2>2. lpc[p] = "serveRecv" => lpc'[p] \in {"check", "serve"}
    BY <1>3 DEF RecvEnd, Dispatch, Goto, TypeOK
  <2>3. UNCHANGED <<msg, wire, peer>> /\ peer[p] \in EndedPeer
    BY <1>3 DEF RecvEnd
  <2> QED
    BY <1>3, <2>1, <2>2, <2>3 DEF RecvEnd, Parted, Unread, Before
<1>4. CASE ServeLoop(p)
  <2>1. players'[p] # Null
    BY <1>4 DEF ServeLoop, ServedIsSeated, ServePC, shared
  <2> QED
    BY <1>4, <2>1 DEF ServeLoop, Goto, Parted, Before, TypeOK
<1>5. CASE ~ (EnrolLoop(p) \/ RecvMessage(p) \/ RecvEnd(p) \/ ServeLoop(p) \/ Depart(p))
  <2>1. lpc'[p] \notin Before \cup {"depart"}
    BY <1>5 DEF ListenerStep, Admit, Insert, Refuse, ConfirmJoin, SendPlayerId,
      NotifyNewPlayer, CopyList, CallRoll, Check, Commit, Deny, Confirm, Bill, BillWrite,
      NotifyNewBet, NotifyFunds, Delete, Close, Goto, Before, TypeOK
  <2> QED
    BY <2>1 DEF Parted
<1>6. CASE Depart(p)
  <2>1. CASE players[p] # Null
    BY <1>6, <2>1 DEF Depart, Goto, Parted, Before, TypeOK
  <2>2. CASE players[p] = Null
    BY <1>6, <2>2 DEF Depart, Parted, Before
  <2> QED
    BY <2>1, <2>2
<1> QED
  BY <1>1, <1>2, <1>3, <1>4, <1>5, <1>6

LEMMA ClientParted ==
  ASSUME TypeOK, QuestionInv, LostInv, NEW p \in Player, ClientStep(p)
  PROVE  \A q \in Player : Parted(q)
<1> USE DEF LostInv, Parted, Unread, TypeOK, Before, EndedPeer, ServerIdle, shared
<1>1. CASE Connect(p)
  BY <1>1 DEF Connect, Goto, QuestionInv
<1>2. CASE Join(p)
  BY <1>2, BoardAssumption DEF Join, ClientSends
<1>3. CASE Ask(p) \/ Decline(p)
  BY <1>3 DEF Ask, Decline, Dialog
<1>4. CASE Bet(p)
  BY <1>4, BoardAssumption DEF Bet, ClientSends
<1>5. CASE Esc(p)
  BY <1>5, BoardAssumption DEF Esc, ClientSends
<1>6. CASE Hangup(p) \/ HearStop(p) \/ Reset(p)
  BY <1>6 DEF Hangup, HearStop, Reset
<1> QED
  BY <1>1, <1>2, <1>3, <1>4, <1>5, <1>6 DEF ClientStep

LEMMA LostStep == CoreInv /\ QuestionInv /\ LostInv /\ [Next]_vars => LostInv'
<1> SUFFICES ASSUME CoreInv, QuestionInv, LostInv, [Next]_vars
             PROVE  \A q \in Player : Parted(q)
  BY DEF LostInv, Parted
<1> USE DEF CoreInv
<1>1. CASE CrupierStep
  BY <1>1, CrupierFrame, CrupierPings, CrupierLearns, PartedKept
<1>2. ASSUME NEW p \in Player, ListenerStep(p) PROVE \A q \in Player : Parted(q)
  BY <1>2, ListenerFrame, ListenerPings, ListenerLearns, PartedKept, ListenerParted
<1>3. CASE UNCHANGED vars
  BY <1>3 DEF vars, shared, LostInv, Parted, Unread
<1> QED
  BY <1>1, <1>2, <1>3, ClientParted DEF Next

(***************************************************************************)
(* However the croupier's broadcasts fall between the tests of the loops,  *)
(* the farewell misses its player for one reason only: the connection was  *)
(* lost before the join was read.                                          *)
(***************************************************************************)
THEOREM FarewellsMiss == Spec => []LostBeforeJoin
<1>1. Init => CoreInv /\ QuestionInv /\ LostInv
  BY CoreInit DEF Init, QuestionInv, LostInv, Before, OpenPeer
<1>2. LostInv => LostBeforeJoin
  BY DEF LostInv, LostBeforeJoin
<1>3. CoreInv /\ QuestionInv /\ [Next]_vars => QuestionInv'
  BY QuestionStep DEF CoreInv
<1> QED
  BY <1>1, <1>2, <1>3, CoreStep, LostStep, PTL DEF Spec

-----------------------------------------------------------------------------
(***************************************************************************)
(* A visit: what a client with an open connection, its listener and the    *)
(* line between them are about, from the door to the farewell.  Of three   *)
(* things that could hold a message, the line, the listener and the client *)
(* that waits for an answer, it is always settled which one does.          *)
(***************************************************************************)
JoinMessage == [type |-> "join"]

AtDoor(p) ==
  /\ lpc[p] \in Before
  /\ msg[p].type = "ok"
  /\ \/ peer[p] = "fresh" /\ wire[p] = Null
     \/ peer[p] = "waiting" /\ wire[p] = JoinMessage

Judged(p) ==
  /\ lpc[p] \in {"admit", "insert", "refuse", "confirmJoin"}
  /\ msg[p] = JoinMessage /\ peer[p] = "waiting" /\ wire[p] = Null

AtEase(p) ==
  /\ lpc[p] \in ServePC \ AnswerPC
  /\ msg[p] # Quit
  /\ \/ peer[p] \in {"idle", "asking"} /\ wire[p] = Null
     \/ peer[p] = "waiting" /\ wire[p] \in BetMessage
     \/ peer[p] = "gone" /\ wire[p] = Quit

Deciding(p) ==
  /\ lpc[p] \in {"check", "commit", "deny", "confirm"}
  /\ msg[p] \in BetMessage /\ peer[p] = "waiting" /\ wire[p] = Null

Parting(p) ==
  /\ lpc[p] \in {"serve", "depart", "delete", "close"}
  /\ msg[p] = Quit /\ peer[p] = "gone" /\ wire[p] = Null

TurnedAway(p) ==
  /\ lpc[p] = "close"
  /\ msg[p] = JoinMessage /\ peer[p] = "gone" /\ wire[p] = Null

Visit(p) ==
  peer[p] \in OpenPeer =>
    /\ isConn[p]
    /\ AtDoor(p) \/ Judged(p) \/ AtEase(p) \/ Deciding(p) \/ Parting(p) \/ TurnedAway(p)

VisitInv == \A p \in Player : Visit(p)

LEMMA MessageKinds ==
  ASSUME NEW m \in Message
  PROVE  /\ m # Null
         /\ m \in BetMessage <=> m.type = "bet"
         /\ m = Quit <=> m.type = "quit"
         /\ m = JoinMessage <=> m.type = "join"
<1>1. m # Null
  BY CasinoAssumption
<1>2. CASE m \in BetMessage
  <2>1. m.type = "bet"
    BY <1>2 DEF BetMessage
  <2> QED
    BY <1>1, <1>2, <2>1 DEF Quit, JoinMessage
<1>3. CASE m \in ShortMessage
  <2>1. PICK t \in {"ok", "join", "quit"} : m = [type |-> t]
    BY <1>3 DEF ShortMessage
  <2>2. m \in BetMessage => m.type = "bet"
    BY DEF BetMessage
  <2> QED
    BY <1>1, <2>1, <2>2 DEF Quit, JoinMessage
<1> QED
  BY <1>2, <1>3 DEF Message

\* A client that is only sent to, if at all, is where it was.
LEMMA VisitKept ==
  ASSUME TypeOK, NEW p \in Player, Visit(p), Learns(p), Pings(p),
         lpc'[p] = lpc[p], msg'[p] = msg[p], wire'[p] = wire[p]
  PROVE  Visit(p)'
BY DEF Visit, AtDoor, Judged, AtEase, Deciding, Parting, TurnedAway, Learns, Pings, OpenPeer,
       TypeOK

\* The answer to a client that waits, the next place and the next state being its own.
LEMMA Answered ==
  ASSUME TypeOK, NEW p \in Player, NEW after, NEW pc, peer[p] = "waiting", Answer(p, after),
         Goto(p, pc)
  PROVE  peer'[p] = after /\ isConn'[p] /\ lpc'[p] = pc
BY DEF Answer, Goto, TypeOK

LEMMA ListenerVisit ==
  ASSUME CoreInv, NEW p \in Player, Visit(p), ListenerStep(p)
  PROVE  Visit(p)'
<1> USE DEF AnswerPC, ServePC, Before
<1> SUFFICES ASSUME peer'[p] \in OpenPeer
             PROVE  /\ isConn'[p]
                    /\ \/ AtDoor(p)' \/ Judged(p)' \/ AtEase(p)' \/ Deciding(p)' \/ Parting(p)'
                       \/ TurnedAway(p)'
  BY DEF Visit
<1>1. TypeOK /\ msg[p] \in Message
  BY DEF CoreInv, TypeOK
<1>2. peer[p] \in OpenPeer
  BY <1>1 DEF ListenerStep, EnrolLoop, RecvMessage, RecvEnd, Admit, Insert, Refuse, ConfirmJoin,
     SendPlayerId, NotifyNewPlayer, CopyList, CallRoll, ServeLoop, Check, Commit, Deny, Confirm,
     Bill, BillWrite, NotifyNewBet, NotifyFunds, Depart, Delete, Close, Answer, Pinged, SendTo,
     Broadcast, TypeOK, OpenPeer
<1>3. /\ isConn[p]
      /\ AtDoor(p) \/ Judged(p) \/ AtEase(p) \/ Deciding(p) \/ Parting(p) \/ TurnedAway(p)
  BY <1>2 DEF Visit
<1>4. JoinMessage # Quit /\ \A m \in BetMessage : m # Quit /\ m \in Message
  BY BetFields, MessageKinds DEF JoinMessage, Quit, BetMessage
<1>5. CASE EnrolLoop(p)
  <2>1. AtDoor(p)
    BY <1>3, <1>5 DEF EnrolLoop, Judged, AtEase, Deciding, Parting, TurnedAway
  <2> QED
    BY <1>1, <1>3, <1>5, <2>1 DEF EnrolLoop, Goto, AtDoor, TypeOK
<1>6. CASE RecvMessage(p)
  <2>1. /\ wire[p] \in Message /\ wire[p] # Null /\ msg'[p] = wire[p] /\ wire'[p] = Null
        /\ isConn'[p] /\ peer' = peer /\ lpc[p] \in {"enrolRecv", "serveRecv"}
    BY <1>1, <1>6 DEF RecvMessage, TypeOK
  <2>2. CASE AtDoor(p)
    <3>1. lpc'[p] = "admit"
      BY <1>1, <1>6, <2>1, <2>2 DEF RecvMessage, Dispatch, Goto, AtDoor, JoinMessage, TypeOK
    <3> QED
      BY <2>1, <2>2, <3>1 DEF AtDoor, Judged
  <2>3. CASE AtEase(p)
    <3>1. lpc[p] = "serveRecv"
      BY <2>1, <2>3 DEF AtEase
    <3>2. CASE wire[p].type = "bet"
      <4>1. lpc'[p] = "check" /\ peer[p] = "waiting" /\ wire[p] \in BetMessage
        BY <1>1, <1>4, <1>6, <2>1, <2>3, <3>1, <3>2, MessageKinds
        DEF RecvMessage, Dispatch, Goto, AtEase, TypeOK
      <4> QED
        BY <2>1, <4>1 DEF Deciding
    <3>3. CASE wire[p].type # "bet"
      <4>1. lpc'[p] = "serve" /\ peer[p] = "gone" /\ wire[p] = Quit
        BY <1>1, <1>6, <2>1, <2>3, <3>1, <3>3, MessageKinds
        DEF RecvMessage, Dispatch, Goto, AtEase, TypeOK
      <4> QED
        BY <2>1, <4>1 DEF Parting
    <3> QED
      BY <3>2, <3>3
  <2> QED
    BY <1>3, <2>1, <2>2, <2>3 DEF Judged, Deciding, Parting, TurnedAway
<1>7. CASE RecvEnd(p)
  BY <1>2, <1>7 DEF RecvEnd, OpenPeer, EndedPeer
<1>8. CASE Admit(p) \/ Insert(p)
  <2>1. Judged(p)
    BY <1>3, <1>8 DEF Admit, Insert, AtDoor, AtEase, Deciding, Parting, TurnedAway
  <2> QED
    BY <1>1, <1>3, <1>8, <2>1 DEF Admit, Insert, Goto, Judged, TypeOK
<1>9. CASE Refuse(p) \/ ConfirmJoin(p)
  <2>1. Judged(p)
    BY <1>3, <1>9 DEF Refuse, ConfirmJoin, AtDoor, AtEase, Deciding, Parting, TurnedAway
  <2>2. UNCHANGED <<msg, wire>> /\ peer[p] = "waiting"
    BY <1>9, <2>1 DEF Refuse, ConfirmJoin, Judged
  <2>3. CASE Refuse(p)
    BY <1>1, <2>1, <2>2, <2>3, Answered DEF Refuse, Judged, TurnedAway
  <2>4. CASE ConfirmJoin(p)
    BY <1>1, <1>4, <2>1, <2>2, <2>4, Answered DEF ConfirmJoin, Judged, AtEase
  <2> QED
    BY <1>9, <2>3, <2>4
<1>10. CASE SendPlayerId(p) \/ NotifyNewPlayer(p) \/ CopyList(p) \/ CallRoll(p) \/ Bill(p)
            \/ BillWrite(p) \/ NotifyNewBet(p) \/ NotifyFunds(p)
  <2>1. AtEase(p)
    BY <1>3, <1>10 DEF SendPlayerId, NotifyNewPlayer, CopyList, CallRoll, Bill, BillWrite,
       NotifyNewBet, NotifyFunds, AtDoor, Judged, Deciding, Parting, TurnedAway
  <2>2. UNCHANGED <<msg, wire>> /\ lpc'[p] \in ServePC \ AnswerPC
    BY <1>1, <1>10, <2>1 DEF SendPlayerId, NotifyNewPlayer, CopyList, CallRoll, Bill, BillWrite,
       NotifyNewBet, NotifyFunds, Goto, AtEase, TypeOK
  <2>3. Pings(p) /\ Learns(p)
    BY <1>1, <1>10, SendPings, SendLearns DEF SendPlayerId, NotifyNewPlayer, CopyList, CallRoll,
       Bill, BillWrite, NotifyNewBet, NotifyFunds, Broadcast, Pings, Learns
  <2> QED
    BY <1>1, <1>2, <1>3, <2>1, <2>2, <2>3 DEF AtEase, Pings, Learns, OpenPeer
<1>11. CASE ServeLoop(p)
  <2>1. /\ UNCHANGED <<msg, wire, peer, isConn>>
        /\ lpc'[p] = IF msg[p] # Quit THEN "serveRecv" ELSE "depart"
    BY <1>1, <1>3, <1>11, MessageKinds DEF ServeLoop, Goto, TypeOK
  <2>2. AtEase(p) \/ Parting(p)
    BY <1>3, <1>11 DEF ServeLoop, AtDoor, Judged, Deciding, TurnedAway
  <2> QED
    BY <1>3, <2>1, <2>2 DEF AtEase, Parting
<1>12. CASE Check(p) \/ Commit(p) \/ Deny(p) \/ Confirm(p)
  <2>1. Deciding(p)
    BY <1>3, <1>12 DEF Check, Commit, Deny, Confirm, AtDoor, Judged, AtEase, Parting, TurnedAway
  <2>2. UNCHANGED <<msg, wire>>
    BY <1>12 DEF Check, Commit, Deny, Confirm
  <2>3. CASE Check(p) \/ Commit(p)
    BY <1>1, <1>3, <2>1, <2>2, <2>3 DEF Check, Commit, Goto, Deciding, TypeOK
  <2>4. CASE Deny(p) \/ Confirm(p)
    BY <1>1, <1>4, <2>1, <2>2, <2>4, Answered DEF Deny, Confirm, Deciding, AtEase
  <2> QED
    BY <1>12, <2>3, <2>4
<1>13. CASE Depart(p) \/ Delete(p)
  <2>1. Parting(p)
    BY <1>3, <1>13 DEF Depart, Delete, AtDoor, Judged, AtEase, Deciding, TurnedAway
  <2>2. UNCHANGED <<msg, wire>> /\ lpc'[p] \in {"depart", "delete", "close"}
    BY <1>1, <1>13, <2>1 DEF Depart, Delete, Goto, Parting, TypeOK
  <2>3. Pings(p) /\ Learns(p)
    BY <1>1, <1>13, SendPings, SendLearns DEF Depart, Delete, Broadcast, Pings, Learns
  <2> QED
    BY <1>1, <1>2, <1>3, <2>1, <2>2, <2>3 DEF Parting, Pings, Learns, OpenPeer
<1>14. CASE Close(p)
  BY <1>1, <1>14 DEF Close, TypeOK, OpenPeer
<1> QED
  BY <1>5, <1>6, <1>7, <1>8, <1>9, <1>10, <1>11, <1>12, <1>13, <1>14 DEF ListenerStep

LEMMA ClientVisit ==
  ASSUME TypeOK, QuestionInv, VisitInv, NEW p \in Player, ClientStep(p), NEW q \in Player
  PROVE  Visit(q)'
<1> USE DEF VisitInv, TypeOK
<1>1. Visit(q)
  OBVIOUS
<1>2. CASE UNCHANGED <<peer[q], wire[q], lpc[q], msg[q], isConn[q]>>
  BY <1>1, <1>2 DEF Visit, AtDoor, Judged, AtEase, Deciding, Parting, TurnedAway
<1>3. CASE q # p
  <2>1. UNCHANGED <<peer[q], wire[q], lpc[q], msg[q], isConn[q]>>
    BY <1>3 DEF ClientStep, Connect, Join, Ask, Decline, Bet, Esc, Hangup, HearStop, Reset,
       ClientSends, Dialog, Goto
  <2> QED
    BY <1>2, <2>1
<1>4. CASE q = p /\ Connect(p)
  BY <1>4 DEF Connect, Goto, QuestionInv, Visit, AtDoor, Before
<1>5. CASE q = p /\ Join(p)
  <2>1. AtDoor(p) /\ isConn[p]
    BY <1>1, <1>5 DEF Join, ClientSends, Visit, OpenPeer, Judged, AtEase, Deciding, Parting,
       TurnedAway
  <2> QED
    BY <1>5, <2>1 DEF Join, ClientSends, Visit, AtDoor, JoinMessage
<1>6. CASE q = p /\ (Ask(p) \/ Decline(p) \/ Bet(p) \/ Esc(p))
  <2>1. AtEase(p) /\ isConn[p] /\ peer[p] \in {"idle", "asking"}
    BY <1>1, <1>6 DEF Ask, Decline, Dialog, Bet, Esc, ClientSends, Visit, OpenPeer, AtDoor, Judged,
       Deciding, Parting, TurnedAway
  <2>2. UNCHANGED <<lpc, msg, isConn>>
    BY <1>6 DEF Ask, Decline, Dialog, Bet, Esc, ClientSends
  <2>3. CASE Ask(p) \/ Decline(p)
    BY <1>6, <2>1, <2>2, <2>3 DEF Ask, Decline, Dialog, Visit, AtEase
  <2>4. CASE Bet(p)
    <3>1. PICK b \in Box, a \in Amount :
            ClientSends(p, [type |-> "bet", box |-> b, amount |-> a], "asking", "waiting")
      BY <2>4 DEF Bet
    <3>2. [type |-> "bet", box |-> b, amount |-> a] \in BetMessage
      BY DEF BetMessage
    <3> QED
      BY <1>6, <2>1, <2>2, <3>1, <3>2 DEF ClientSends, Visit, AtEase
  <2>5. CASE Esc(p)
    BY <1>6, <2>1, <2>2, <2>5 DEF Esc, ClientSends, Visit, AtEase, Quit
  <2> QED
    BY <1>6, <2>3, <2>4, <2>5
<1>7. CASE q = p /\ (Hangup(p) \/ HearStop(p) \/ Reset(p))
  <2>1. peer'[p] \notin OpenPeer \/ UNCHANGED <<peer, wire, lpc, msg, isConn>>
    BY <1>7 DEF Hangup, HearStop, Reset, OpenPeer
  <2> QED
    BY <1>2, <1>7, <2>1 DEF Visit
<1> QED
  BY <1>3, <1>4, <1>5, <1>6, <1>7 DEF ClientStep

LEMMA VisitStep == CoreInv /\ QuestionInv /\ VisitInv /\ [Next]_vars => VisitInv'
<1> SUFFICES ASSUME CoreInv, QuestionInv, VisitInv, [Next]_vars, NEW q \in Player
             PROVE  Visit(q)'
  BY DEF VisitInv
<1>1. TypeOK /\ Visit(q)
  BY DEF CoreInv, VisitInv
<1>2. CASE CrupierStep
  BY <1>1, <1>2, CrupierFrame, CrupierPings, CrupierLearns, VisitKept
<1>3. ASSUME NEW p \in Player, ListenerStep(p) PROVE Visit(q)'
  BY <1>1, <1>3, ListenerFrame, ListenerPings, ListenerLearns, VisitKept, ListenerVisit
<1>4. CASE UNCHANGED vars
  BY <1>1, <1>4, VisitKept DEF vars, Learns, Pings
<1> QED
  BY <1>1, <1>2, <1>3, <1>4, ClientVisit DEF Next

(***************************************************************************)
(* Each step is one of Service for each client, or none.                   *)
(***************************************************************************)
LEMMA ServedStill ==
  ASSUME TypeOK, NEW p \in Player, Pings(p),
         lpc'[p] = lpc[p], msg'[p] = msg[p], wire'[p] = wire[p]
  PROVE  UNCHANGED Served(p)!serviceVars
BY DEF Served!serviceVars, ServiceStage, Question, Debt, Pings, OpenPeer

LEMMA ListenerServed ==
  ASSUME CoreInv, NEW p \in Player, Visit(p), Visit(p)', ListenerStep(p)
  PROVE  [Served(p)!ServiceNext]_(Served(p)!serviceVars)
<1> USE DEF AnswerPC, ServePC, EnrolPC, Before
<1>1. TypeOK /\ msg[p] \in Message
  BY DEF CoreInv, TypeOK
<1>2. CASE peer'[p] \notin OpenPeer
  <2>1. /\ ServiceStage(p)' = "over" /\ Question(p)' = Null /\ Debt(p)' = Null
    BY <1>2 DEF ServiceStage, Question, Debt, OpenPeer
  <2>2. CASE peer[p] \in OpenPeer
    <3>1. ServiceStage(p) # "over"
      BY <2>2 DEF ServiceStage
    <3> QED
      BY <2>1, <3>1 DEF Served!ServiceNext, Served!End
  <2>3. CASE peer[p] \notin OpenPeer
    BY <2>1, <2>3 DEF ServiceStage, Question, Debt, OpenPeer, Served!serviceVars
  <2> QED
    BY <2>2, <2>3
<1>3. ASSUME peer'[p] \in OpenPeer
      PROVE  [Served(p)!ServiceNext]_(Served(p)!serviceVars)
  <2>1. peer[p] \in OpenPeer
    BY <1>1, <1>3 DEF ListenerStep, EnrolLoop, RecvMessage, RecvEnd, Admit, Insert, Refuse, ConfirmJoin,
       SendPlayerId, NotifyNewPlayer, CopyList, CallRoll, ServeLoop, Check, Commit, Deny, Confirm,
       Bill, BillWrite, NotifyNewBet, NotifyFunds, Depart, Delete, Close, Answer, Pinged, SendTo,
       Broadcast, TypeOK, OpenPeer
  <2>2. /\ isConn[p]
        /\ AtDoor(p) \/ Judged(p) \/ AtEase(p) \/ Deciding(p) \/ Parting(p) \/ TurnedAway(p)
    BY <2>1 DEF Visit
  <2>3. JoinMessage # Quit /\ \A m \in BetMessage : m # Quit /\ m # Null /\ m \in Message
    BY BetFields, MessageKinds DEF JoinMessage, Quit, BetMessage
  <2>4. CASE EnrolLoop(p) \/ Admit(p) \/ Insert(p)
    <3>1. /\ UNCHANGED <<peer, wire, msg>>
          /\ lpc[p] \in EnrolPC /\ lpc'[p] \in EnrolPC \cup {"confirmJoin"}
      <4>1. AtDoor(p) \/ ~ EnrolLoop(p)
        BY <2>2 DEF EnrolLoop, Judged, AtEase, Deciding, Parting, TurnedAway
      <4> QED
        BY <1>1, <2>2, <2>4, <4>1 DEF EnrolLoop, Admit, Insert, Goto, AtDoor, TypeOK
    <3> QED
      BY <3>1 DEF ServiceStage, Question, Debt, Served!serviceVars
  <2>5. CASE RecvMessage(p)
    <3>1. /\ wire[p] # Null /\ msg'[p] = wire[p] /\ wire'[p] = Null
          /\ peer' = peer /\ lpc[p] \in {"enrolRecv", "serveRecv"}
      BY <1>1, <2>5 DEF RecvMessage, TypeOK
    <3>2. lpc'[p] \in {"admit", "enrol", "check", "serve"}
      BY <1>1, <2>5, <3>1 DEF RecvMessage, Dispatch, Goto, TypeOK
    <3>3. lpc[p] \in EnrolPC <=> lpc'[p] \in EnrolPC
      BY <1>1, <2>5, <3>1 DEF RecvMessage, Dispatch, Goto, TypeOK
    <3>4. ServiceStage(p)' = ServiceStage(p) /\ Debt(p)' = Debt(p)
      BY <2>1, <3>1, <3>2, <3>3 DEF ServiceStage, Debt
    <3>5. Question(p)' = Question(p)
      BY <3>1, <3>2 DEF Question
    <3> QED
      BY <3>4, <3>5 DEF Served!serviceVars
  <2>6. CASE RecvEnd(p)
    BY <2>1, <2>6 DEF RecvEnd, OpenPeer, EndedPeer
  <2>7. CASE Refuse(p) \/ ConfirmJoin(p)
    <3>1. Judged(p)
      BY <2>2, <2>7 DEF Refuse, ConfirmJoin, AtDoor, AtEase, Deciding, Parting, TurnedAway
    <3>2. /\ msg[p] = JoinMessage /\ peer[p] = "waiting" /\ wire[p] = Null
          /\ UNCHANGED <<msg, wire>>
      BY <2>7, <3>1 DEF Refuse, ConfirmJoin, Judged
    <3>3. \/ peer'[p] = "gone" /\ lpc'[p] = "close"
          \/ peer'[p] = "idle" /\ lpc'[p] = "sendId"
      BY <1>1, <2>7, <3>2, Answered DEF Refuse, ConfirmJoin
    <3>4. ServiceStage(p) = "unheard" /\ Question(p) = JoinMessage /\ Debt(p) = Null
      BY <2>7, <3>2 DEF Refuse, ConfirmJoin, ServiceStage, Question, Debt, OpenPeer
    <3>5. ServiceStage(p)' \in {"confirmed", "refused"} /\ Question(p)' = Null /\ Debt(p)' = Null
      BY <2>3, <3>2, <3>3 DEF ServiceStage, Question, Debt, OpenPeer
    <3> QED
      BY <3>4, <3>5 DEF Served!ServiceNext, Served!AnswerJoin, JoinMessage
  <2>8. CASE SendPlayerId(p) \/ NotifyNewPlayer(p) \/ CopyList(p) \/ CallRoll(p) \/ Bill(p)
             \/ BillWrite(p) \/ NotifyNewBet(p) \/ NotifyFunds(p)
    <3>1. AtEase(p)
      BY <2>2, <2>8 DEF SendPlayerId, NotifyNewPlayer, CopyList, CallRoll, Bill, BillWrite,
         NotifyNewBet, NotifyFunds, AtDoor, Judged, Deciding, Parting, TurnedAway
    <3>2. Pings(p) /\ UNCHANGED <<msg, wire>>
      BY <1>1, <2>8, SendPings DEF SendPlayerId, NotifyNewPlayer, CopyList, CallRoll,
         Bill, BillWrite, NotifyNewBet, NotifyFunds, Broadcast, Pings
    <3>3. peer'[p] = peer[p] /\ msg[p] # Null
      BY <1>1, <2>1, <3>2, MessageKinds DEF Pings, OpenPeer
    <3>4. /\ lpc[p] \in ServePC \ {"confirmJoin"}
          /\ lpc'[p] \in ServePC \ {"confirmJoin"}
      BY <1>1, <2>8 DEF SendPlayerId, NotifyNewPlayer, CopyList, CallRoll, Bill, BillWrite,
         NotifyNewBet, NotifyFunds, Goto, TypeOK
    <3>5. Question(p)' = Question(p)
      BY <3>2, <3>3, <3>4 DEF Question
    <3>6. CASE NotifyNewPlayer(p)
      <4>1. lpc[p] = "tellNew" /\ lpc'[p] = "list"
        BY <1>1, <3>6 DEF NotifyNewPlayer, Goto, TypeOK
      <4>2. /\ ServiceStage(p) = "confirmed" /\ ServiceStage(p)' = "seated"
            /\ Debt(p) = Null /\ Debt(p)' = Null
        BY <2>1, <3>3, <4>1 DEF ServiceStage, Debt
      <4> QED
        BY <3>5, <4>2 DEF Served!ServiceNext, Served!Introduce
    <3>7. CASE NotifyFunds(p)
      <4>1. lpc[p] = "tellFunds" /\ lpc'[p] = "serve"
        BY <1>1, <3>7 DEF NotifyFunds, Goto, TypeOK
      <4>2. /\ ServiceStage(p)' = ServiceStage(p)
            /\ Debt(p) # Null /\ Debt(p)' = Null
        BY <2>1, <3>3, <4>1 DEF ServiceStage, Debt
      <4> QED
        BY <3>5, <4>2 DEF Served!ServiceNext, Served!Bill
    <3>8. CASE SendPlayerId(p) \/ CopyList(p) \/ CallRoll(p) \/ Bill(p)
               \/ BillWrite(p) \/ NotifyNewBet(p)
      <4>1. \/ lpc[p] = "sendId" /\ lpc'[p] = "tellNew"
            \/ lpc[p] \in {"list", "roll"} /\ lpc'[p] \in {"list", "roll", "serve"}
            \/ /\ lpc[p] \in {"bill", "billWrite", "tellBet"}
               /\ lpc'[p] \in {"billWrite", "tellBet", "tellFunds"}
        BY <1>1, <3>8 DEF SendPlayerId, CopyList, CallRoll, Bill, BillWrite,
           NotifyNewBet, Goto, TypeOK
      <4>2. ServiceStage(p)' = ServiceStage(p) /\ Debt(p)' = Debt(p)
        BY <2>1, <3>2, <3>3, <4>1 DEF ServiceStage, Debt
      <4> QED
        BY <3>5, <4>2 DEF Served!serviceVars
    <3> QED
      BY <2>8, <3>6, <3>7, <3>8
  <2>9. CASE ServeLoop(p) \/ Check(p) \/ Commit(p)
    <3>1. UNCHANGED <<peer, wire, msg>>
      BY <2>9 DEF ServeLoop, Check, Commit
    <3>2. /\ lpc[p] \in {"serve", "check", "commit"}
          /\ lpc'[p] \in {"serveRecv", "depart", "commit", "deny", "confirm"}
      BY <1>1, <2>9 DEF ServeLoop, Check, Commit, Goto, TypeOK
    <3> QED
      BY <3>1, <3>2 DEF ServiceStage, Question, Debt, Served!serviceVars
  <2>10. CASE Deny(p) \/ Confirm(p)
    <3>1. Deciding(p)
      BY <2>2, <2>10 DEF Deny, Confirm, AtDoor, Judged, AtEase, Parting, TurnedAway
    <3>2. /\ msg[p] \in BetMessage /\ peer[p] = "waiting" /\ wire[p] = Null
          /\ UNCHANGED <<msg, wire>>
      BY <2>10, <3>1 DEF Deny, Confirm, Deciding
    <3>3. peer'[p] = "idle" /\ lpc'[p] \in {"serve", "bill"}
      BY <1>1, <2>10, <3>2, Answered DEF Deny, Confirm
    <3>4. ServiceStage(p) = "seated" /\ Question(p) = msg[p] /\ Debt(p) = Null
      BY <2>10, <3>2 DEF Deny, Confirm, ServiceStage, Question, Debt, OpenPeer
    <3>5. /\ ServiceStage(p)' = "seated" /\ Question(p)' = Null
          /\ Debt(p)' \in {Null, msg[p]}
      BY <3>2, <3>3 DEF ServiceStage, Question, Debt, OpenPeer
    <3> QED
      BY <3>2, <3>4, <3>5 DEF Served!ServiceNext, Served!AnswerBet
  <2>11. CASE Depart(p) \/ Delete(p)
    <3>1. Parting(p)
      BY <2>2, <2>11 DEF Depart, Delete, AtDoor, Judged, AtEase, Deciding, TurnedAway
    <3>2. /\ msg[p] = Quit /\ peer[p] = "gone" /\ wire[p] = Null
          /\ UNCHANGED <<msg, wire>>
      BY <2>11, <3>1 DEF Depart, Delete, Parting
    <3>3. Pings(p)
      BY <1>1, <2>11, SendPings DEF Depart, Delete, Broadcast, Pings
    <3>4. peer'[p] = "gone"
      BY <3>2, <3>3 DEF Pings
    <3>5. CASE Depart(p) /\ players[p] # Null
      <4>1. lpc[p] = "depart" /\ lpc'[p] = "delete"
        BY <1>1, <3>5 DEF Depart, Goto, TypeOK
      <4>2. ServiceStage(p) = "seated" /\ Question(p) = Quit /\ Debt(p) = Null
        BY <3>2, <4>1 DEF ServiceStage, Question, Debt, OpenPeer
      <4>3. ServiceStage(p)' = "left" /\ Question(p)' = Null /\ Debt(p)' = Null
        BY <3>4, <4>1 DEF ServiceStage, Question, Debt, OpenPeer
      <4> QED
        BY <4>2, <4>3 DEF Served!ServiceNext, Served!Farewell
    <3>6. CASE Depart(p) /\ players[p] = Null
      <4>1. lpc' = lpc
        BY <3>6 DEF Depart
      <4> QED
        BY <3>2, <3>4, <4>1 DEF ServiceStage, Question, Debt, Served!serviceVars
    <3>7. CASE Delete(p)
      <4>1. lpc[p] = "delete" /\ lpc'[p] = "close"
        BY <1>1, <3>7 DEF Delete, Goto, TypeOK
      <4> QED
        BY <3>2, <3>4, <4>1 DEF ServiceStage, Question, Debt, Served!serviceVars
    <3> QED
      BY <2>11, <3>5, <3>6, <3>7
  <2>12. CASE Close(p)
    BY <1>1, <1>3, <2>12 DEF Close, TypeOK, OpenPeer
  <2> QED
    BY <2>4, <2>5, <2>6, <2>7, <2>8, <2>9, <2>10, <2>11, <2>12 DEF ListenerStep
<1> QED
  BY <1>2, <1>3

LEMMA ClientServed ==
  ASSUME TypeOK, QuestionInv, NEW p \in Player, Visit(p), ClientStep(p)
  PROVE  [Served(p)!ServiceNext]_(Served(p)!serviceVars)
<1> USE DEF TypeOK
<1>1. CASE Connect(p)
  <2>1. /\ peer[p] = "none" /\ peer'[p] = "fresh" /\ lpc'[p] = "enrol"
        /\ wire'[p] = wire[p]
    BY <1>1 DEF Connect, Goto
  <2>2. ServiceStage(p) = "over" /\ Question(p) = Null /\ Debt(p) = Null
    BY <2>1 DEF ServiceStage, Question, Debt, OpenPeer
  <2>3. ServiceStage(p)' = "unheard" /\ Question(p)' = Null /\ Debt(p)' = Null
    BY <2>1 DEF ServiceStage, Question, Debt, OpenPeer, EnrolPC
  <2> QED
    BY <2>2, <2>3 DEF Served!ServiceNext, Served!Begin
<1>2. CASE Join(p)
  <2>1. AtDoor(p)
    BY <1>2 DEF Join, ClientSends, Visit, OpenPeer, Judged, AtEase, Deciding, Parting, TurnedAway
  <2>2. /\ peer[p] = "fresh" /\ peer'[p] = "waiting" /\ wire'[p] = JoinMessage
        /\ UNCHANGED <<lpc, msg>>
    BY <1>2 DEF Join, ClientSends, JoinMessage
  <2>3. lpc[p] \in EnrolPC /\ JoinMessage # Null
    BY <2>1, MessageKinds DEF AtDoor, Before, EnrolPC, JoinMessage, Message, ShortMessage
  <2>4. ServiceStage(p) = "unheard" /\ Question(p) = Null /\ Debt(p) = Null
    BY <2>2, <2>3 DEF ServiceStage, Question, Debt, OpenPeer, EnrolPC
  <2>5. ServiceStage(p)' = "unheard" /\ Question(p)' = JoinMessage /\ Debt(p)' = Null
    BY <2>2, <2>3 DEF ServiceStage, Question, Debt, OpenPeer, EnrolPC
  <2> QED
    BY <2>4, <2>5 DEF Served!ServiceNext, Served!AskJoin, JoinMessage
<1>3. CASE Ask(p) \/ Decline(p)
  <2>1. /\ {peer[p], peer'[p]} \subseteq {"idle", "asking"}
        /\ UNCHANGED <<lpc, msg, wire>>
    BY <1>3 DEF Ask, Decline, Dialog
  <2> QED
    BY <2>1 DEF ServiceStage, Question, Debt, OpenPeer, Served!serviceVars
<1>4. CASE Bet(p) \/ Esc(p)
  <2>1. PICK m \in BetMessage \cup {Quit} :
          /\ peer[p] \in {"idle", "asking"}
          /\ peer'[p] = IF m = Quit THEN "gone" ELSE "waiting"
          /\ wire'[p] = m
          /\ UNCHANGED <<lpc, msg>>
    <3>1. CASE Bet(p)
      <4>1. PICK b \in Box, a \in Amount :
              ClientSends(p, [type |-> "bet", box |-> b, amount |-> a], "asking", "waiting")
        BY <3>1 DEF Bet
      <4>2. /\ [type |-> "bet", box |-> b, amount |-> a] \in BetMessage
            /\ [type |-> "bet", box |-> b, amount |-> a] # Quit
        BY DEF BetMessage, Quit
      <4> QED
        BY <4>1, <4>2 DEF ClientSends
    <3>2. CASE Esc(p)
      BY <3>2 DEF Esc, ClientSends, Quit
    <3> QED
      BY <1>4, <3>1, <3>2
  <2>2. AtEase(p) /\ m # Null
    <3>1. m # Null
      BY MessageKinds DEF Message, ShortMessage, Quit
    <3> QED
      BY <2>1, <3>1 DEF Visit, OpenPeer, AtDoor, Judged, Deciding, Parting, TurnedAway
  <2>3. /\ ServiceStage(p) \in {"confirmed", "seated"}
        /\ ServiceStage(p)' = ServiceStage(p) /\ Debt(p)' = Debt(p)
    BY <2>1, <2>2 DEF AtEase, ServePC, AnswerPC, EnrolPC, ServiceStage, Debt, OpenPeer
  <2>4. Question(p) = Null /\ Question(p)' = m
    BY <2>1, <2>2 DEF Question, AtEase, ServePC, AnswerPC
  <2> QED
    BY <2>3, <2>4 DEF Served!ServiceNext, Served!Ask
<1>5. CASE Hangup(p)
  <2>1. peer[p] \in OpenPeer /\ peer'[p] = "closed"
    BY <1>5 DEF Hangup
  <2>2. ServiceStage(p) # "over"
    BY <2>1 DEF ServiceStage
  <2>3. ServiceStage(p)' = "over" /\ Question(p)' = Null /\ Debt(p)' = Null
    BY <2>1 DEF ServiceStage, Question, Debt, OpenPeer
  <2> QED
    BY <2>2, <2>3 DEF Served!ServiceNext, Served!End
<1>6. CASE HearStop(p) \/ Reset(p)
  <2>1. /\ peer'[p] = peer[p] \/ {peer[p], peer'[p]} \subseteq EndedPeer
        /\ UNCHANGED <<lpc, msg, wire>>
    BY <1>6 DEF HearStop, Reset, EndedPeer
  <2> QED
    BY <2>1 DEF ServiceStage, Question, Debt, OpenPeer, EndedPeer, Served!serviceVars
<1> QED
  BY <1>1, <1>2, <1>3, <1>4, <1>5, <1>6 DEF ClientStep

LEMMA ServedStep ==
  ASSUME CoreInv, QuestionInv, VisitInv, VisitInv', [Next]_vars, NEW q \in Player
  PROVE  [Served(q)!ServiceNext]_(Served(q)!serviceVars)
<1>1. TypeOK /\ Visit(q) /\ Visit(q)'
  BY DEF CoreInv, VisitInv
<1>2. CASE CrupierStep
  BY <1>1, <1>2, CrupierFrame, CrupierPings, ServedStill
<1>3. ASSUME NEW p \in Player, ListenerStep(p)
      PROVE  [Served(q)!ServiceNext]_(Served(q)!serviceVars)
  <2>1. CASE p = q
    BY <1>1, <1>3, <2>1, ListenerServed
  <2>2. CASE p # q
    BY <1>1, <1>3, <2>2, ListenerFrame, ListenerPings, ServedStill
  <2> QED
    BY <2>1, <2>2
<1>4. ASSUME NEW p \in Player, ClientStep(p)
      PROVE  [Served(q)!ServiceNext]_(Served(q)!serviceVars)
  <2>1. CASE p = q
    BY <1>1, <1>4, <2>1, ClientServed
  <2>2. CASE p # q
    <3>1. UNCHANGED <<peer[q], wire[q], lpc[q], msg[q]>>
      BY <1>1, <1>4, <2>2 DEF ClientStep, Connect, Join, Ask, Decline, Bet, Esc, Hangup, HearStop,
         Reset, ClientSends, Dialog, Goto, TypeOK
    <3> QED
      BY <1>1, <3>1, ServedStill DEF Pings
  <2> QED
    BY <2>1, <2>2
<1>5. CASE UNCHANGED vars
  BY <1>1, <1>5, ServedStill DEF vars, Pings
<1> QED
  BY <1>2, <1>3, <1>4, <1>5 DEF Next

(***************************************************************************)
(* The server implements Service for each of its clients, for every number *)
(* of them and whatever the others do: one answer to each question, and    *)
(* each accepted bet billed, that very bet, before the next is answered.   *)
(***************************************************************************)
THEOREM ServesEachSafe == Spec => ServesEach
<1> DEFINE Serves == \A p \in Player : [Served(p)!ServiceNext]_(Served(p)!serviceVars)
           Starts == \A p \in Player : Served(p)!ServiceInit
<1>1. Init => CoreInv /\ QuestionInv /\ VisitInv /\ Starts
  <2> SUFFICES ASSUME Init PROVE CoreInv /\ QuestionInv /\ VisitInv /\ Starts
    OBVIOUS
  <2>1. CoreInv /\ QuestionInv /\ VisitInv
    BY CoreInit DEF Init, QuestionInv, VisitInv, Visit, OpenPeer, Before
  <2>2. Starts
    BY DEF Init, Served!ServiceInit, ServiceStage, Question, Debt, OpenPeer
  <2> QED
    BY <2>1, <2>2
<1>2. CoreInv /\ QuestionInv /\ [Next]_vars => QuestionInv'
  BY QuestionStep DEF CoreInv
<1>3. CoreInv /\ QuestionInv /\ VisitInv /\ VisitInv' /\ [Next]_vars => [Serves]_vars
  BY ServedStep
<1> QED
  BY <1>1, <1>2, <1>3, CoreStep, VisitStep, PTL DEF Spec, ServesEach

-----------------------------------------------------------------------------
(***************************************************************************)
(* Bets handled again.                                                     *)
(***************************************************************************)
UnderWay(w) == IF w # Null /\ w.type = "bet" THEN 1 ELSE 0

\* Each bet sent is under way until it is handled, and then it is not.
Counted(p) == peer[p] \notin EndedPeer => handled[p] + UnderWay(wire[p]) <= sent[p]

CountInv == \A p \in Player : Counted(p)

LEMMA CountKept ==
  ASSUME TypeOK, NEW p \in Player, Counted(p), Pings(p),
         wire'[p] = wire[p], handled'[p] = handled[p], sent'[p] = sent[p]
  PROVE  Counted(p)'
BY DEF Counted, Pings, EndedPeer

LEMMA ListenerCounts ==
  ASSUME TypeOK, NEW p \in Player, ListenerStep(p), NEW q \in Player \ {p}
  PROVE  handled'[q] = handled[q] /\ sent'[q] = sent[q]
BY DEF TypeOK, ListenerStep, EnrolLoop, RecvMessage, RecvEnd, Admit, Insert, Refuse,
       ConfirmJoin, SendPlayerId, NotifyNewPlayer, CopyList, CallRoll, ServeLoop, Check,
       Commit, Deny, Confirm, Bill, BillWrite, NotifyNewBet, NotifyFunds, Depart, Delete,
       Close, Dispatch, counters

LEMMA ListenerCounted ==
  ASSUME TypeOK, NEW p \in Player, Counted(p), ListenerStep(p)
  PROVE  Counted(p)'
<1>1. CASE RecvMessage(p)
  <2>1. wire[p] # Null /\ wire'[p] = Null /\ UNCHANGED <<peer, sent>>
    BY <1>1 DEF RecvMessage, TypeOK
  <2>2. handled'[p] = handled[p]
        \/ (wire[p].type = "bet" /\ handled'[p] = handled[p] + 1)
    BY <1>1 DEF RecvMessage, Dispatch, TypeOK
  <2>3. handled[p] \in Nat /\ sent[p] \in Nat
    BY DEF TypeOK
  <2> QED
    BY <2>1, <2>2, <2>3 DEF Counted, UnderWay
<1>2. CASE RecvEnd(p)
  BY <1>2 DEF RecvEnd, Counted
<1>3. CASE Close(p)
  <2>1. handled'[p] = 0 /\ sent'[p] = 0 /\ wire'[p] = Null
    BY <1>3 DEF Close, TypeOK
  <2> QED
    BY <2>1 DEF Counted, UnderWay
<1>4. CASE Refuse(p) \/ ConfirmJoin(p) \/ Deny(p) \/ Confirm(p)
  <2>1. UNCHANGED <<wire, handled, sent>>
    BY <1>4 DEF Refuse, ConfirmJoin, Deny, Confirm, counters
  <2>2. PICK stage \in OpenPeer : Answer(p, stage)
    BY <1>4 DEF Refuse, ConfirmJoin, Deny, Confirm, OpenPeer
  <2>3. peer[p] \in EndedPeer => peer'[p] \in EndedPeer
    BY <2>2 DEF Answer, Pinged, EndedPeer, TypeOK
  <2> QED
    BY <2>1, <2>3 DEF Counted
<1>5. CASE SendPlayerId(p) \/ NotifyNewPlayer(p) \/ CallRoll(p) \/ NotifyNewBet(p)
           \/ NotifyFunds(p) \/ Depart(p)
  <2>1. UNCHANGED <<wire, handled, sent>>
    BY <1>5 DEF SendPlayerId, NotifyNewPlayer, CallRoll, NotifyNewBet, NotifyFunds, Depart,
                counters
  <2>2. Pings(p)
    BY <1>5, SendPings DEF SendPlayerId, NotifyNewPlayer, CallRoll, NotifyNewBet,
                           NotifyFunds, Depart, Broadcast, Pings
  <2> QED
    BY <2>1, <2>2, CountKept
<1>6. CASE EnrolLoop(p) \/ Admit(p) \/ Insert(p) \/ CopyList(p) \/ ServeLoop(p) \/ Check(p)
           \/ Commit(p) \/ Bill(p) \/ BillWrite(p) \/ Delete(p)
  BY <1>6 DEF EnrolLoop, Admit, Insert, CopyList, ServeLoop, Check, Commit, Bill, BillWrite,
              Delete, counters, Counted
<1> QED
  BY <1>1, <1>2, <1>3, <1>4, <1>5, <1>6 DEF ListenerStep

LEMMA ClientCounted ==
  ASSUME TypeOK, CountInv, NEW p \in Player, ClientStep(p), NEW q \in Player
  PROVE  Counted(q)'
<1> USE DEF CountInv, Counted, TypeOK, ServerIdle
<1>1. CASE Connect(p)
  BY <1>1 DEF Connect, EndedPeer
<1>2. CASE Join(p) \/ Esc(p)
  BY <1>2, BoardAssumption DEF Join, Esc, ClientSends, EndedPeer, UnderWay
<1>3. CASE Ask(p) \/ Decline(p)
  BY <1>3 DEF Ask, Decline, Dialog, EndedPeer
<1>4. CASE Bet(p)
  <2>1. PICK b \in Box, a \in Amount :
          ClientSends(p, [type |-> "bet", box |-> b, amount |-> a], "asking", "waiting")
    BY <1>4 DEF Bet
  <2>2. wire[p] = Null /\ peer[p] = "asking" /\ handled' = handled
    BY <2>1 DEF ClientSends
  <2>3. UnderWay(wire[p]) = 0 /\ UnderWay(wire'[p]) \in {0, 1}
    BY <2>2 DEF UnderWay
  <2>4. sent' = [sent EXCEPT ![p] = @ + 1]
    BY <1>4 DEF Bet
  <2>5. CASE q = p
    BY <2>2, <2>3, <2>4, <2>5 DEF EndedPeer
  <2>6. CASE q # p
    BY <2>1, <2>2, <2>4, <2>6 DEF ClientSends
  <2> QED
    BY <2>5, <2>6
<1>5. CASE Hangup(p) \/ HearStop(p) \/ Reset(p)
  BY <1>5 DEF Hangup, HearStop, Reset, EndedPeer
<1> QED
  BY <1>1, <1>2, <1>3, <1>4, <1>5 DEF ClientStep

LEMMA CountStep == TypeOK /\ CountInv /\ [Next]_vars => CountInv'
<1> SUFFICES ASSUME TypeOK, CountInv, [Next]_vars, NEW q \in Player PROVE Counted(q)'
  BY DEF CountInv
<1>1. CASE CrupierStep
  BY <1>1, CrupierFrame, CrupierPings, CountKept DEF CountInv
<1>2. ASSUME NEW p \in Player, ListenerStep(p) PROVE Counted(q)'
  BY <1>2, ListenerPings, ListenerCounts, ListenerCounted, CountKept DEF CountInv
<1>3. CASE UNCHANGED vars
  BY <1>3 DEF vars, counters, CountInv, Counted
<1> QED
  BY <1>1, <1>2, <1>3, ClientCounted DEF Next

(***************************************************************************)
(* A client whose connection lasts is charged for no bet twice, however    *)
(* many it sends: its bets are handled one by one as they come in.         *)
(***************************************************************************)
THEOREM HandledOnce == Spec => []RepeatsOnlyAtEnd
<1>1. Init => CountInv
  BY DEF Init, CountInv, Counted, UnderWay
<1>2. TypeOK /\ CountInv => RepeatsOnlyAtEnd
  <2> SUFFICES ASSUME TypeOK, CountInv, NEW p \in Player, handled[p] > sent[p]
               PROVE  peer[p] \in EndedPeer
    BY DEF RepeatsOnlyAtEnd
  <2>1. handled[p] \in Nat /\ sent[p] \in Nat /\ UnderWay(wire[p]) \in {0, 1}
    BY DEF TypeOK, UnderWay
  <2> QED
    BY <2>1 DEF CountInv, Counted
<1> QED
  BY <1>1, <1>2, CountStep, TypeCorrect, PTL DEF Spec

=============================================================================
