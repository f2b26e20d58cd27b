-------------------------- MODULE CasinoMirrorProofs -------------------------
(***************************************************************************)
(* What the clients' tables know and show, for any number of players,      *)
(* boxes, rounds and connections under one id.                             *)
(*                                                                         *)
(* A client's table is complete because whoever is announced is announced  *)
(* to all who listen, and whoever was announced before is in the list; in  *)
(* between he is in the table or in the roster that is still to be sent    *)
(* (KnowInv).  Its board agrees with the server's while bets are taken: a  *)
(* bet is shown, or being told, or there was no room for it (ShownInv).    *)
(***************************************************************************)
EXTENDS CasinoMirror, CasinoProofs

-----------------------------------------------------------------------------
(* What the steps of the casino do to those who listen. *)

\* The labels of a listener whose client is in the second loop.
Heeding == (ServePC \ {"confirmJoin"}) \cup {"depart"}

BaseInv == CoreInv /\ QuestionInv /\ LostInv

LEMMA BaseInit == Init => BaseInv
BY CoreInit DEF Init, QuestionInv, LostInv, Before, OpenPeer, BaseInv

LEMMA BaseStep == BaseInv /\ [Next]_vars => BaseInv'
BY CoreStep, QuestionStep, LostStep DEF BaseInv, CoreInv

(***************************************************************************)
(* The croupier seats nobody: what is paid to a player who has left is     *)
(* written nowhere.                                                        *)
(***************************************************************************)
LEMMA CrupierSeats ==
  ASSUME TypeOK, CrupierStep, NEW q \in Player, players[q] = Null
  PROVE  players'[q] = Null
<1>1. CASE PayWrite
  <2>1. PICK s \in recollected :
          players' = [players EXCEPT ![s.player] = IF @ = Null THEN Null ELSE purse + s.amount]
    BY <1>1 DEF PayWrite
  <2>2. s.player \in Player
    BY DEF Slip, TypeOK
  <2> QED
    BY <2>1, <2>2 DEF TypeOK
<1>2. CASE ~ PayWrite
  BY <1>2 DEF CrupierStep, WaitConnections, StartBets, StopBets, Spin, GrabLosers,
              Collect, GrabWinners, Pay, TellPaid, CleanBets, NotifyBroke, Expel, shared
<1> QED
  BY <1>1, <1>2

\* Everybody is to be told of q, and has been.
Told(q) == players[q] # Null /\ lpc[q] \notin Unannounced \cup {"delete"}

(***************************************************************************)
(* A listener that comes to a label others rely on comes from the one      *)
(* before it (the sequence of calls in notifyNewPlayer, sendPlayersList    *)
(* and the farewell).                                                      *)
(***************************************************************************)
LEMMA ListenerPath ==
  ASSUME CoreInv, LostInv, NEW p \in Player, ListenerStep(p)
  PROVE  /\ Told(p)' => Told(p) \/ (lpc[p] = "tellNew" /\ lpc'[p] = "list")
         /\ lpc'[p] \in Heeding =>
              \/ lpc[p] \in Heeding
              \/ lpc'[p] = "sendId"
              \/ peer'[p] \in EndedPeer
         /\ lpc'[p] \in Heeding \ Entering /\ lpc[p] \in Entering => lpc[p] = "roll"
         /\ lpc'[p] = "roll" => \/ lpc[p] = "roll" /\ roster'[p] = roster[p]
                                \/ lpc[p] = "list" /\ roster'[p] = Seated \ {p}
         /\ lpc'[p] = "list" => lpc[p] = "tellNew"
         /\ lpc[p] = "depart" /\ lpc'[p] # "depart" => lpc'[p] = "delete"
<1> USE DEF CoreInv, Heeding, Entering, Told, Unannounced, ServePC, shared
<1>1. CASE EnrolLoop(p)
  <2>1. lpc'[p] = "depart" => ~ isConn[p] /\ peer'[p] = peer[p]
    BY <1>1 DEF EnrolLoop, Goto, TypeOK, LostInv, Before, Unread
  <2>2. lpc'[p] = "depart" => peer'[p] \in EndedPeer
    BY <1>1, <2>1 DEF EnrolLoop, LostInv, Before, Unread
  <2> QED
    BY <1>1, <2>2 DEF EnrolLoop, Goto, TypeOK
<1>2. CASE RecvMessage(p)
  BY <1>2 DEF RecvMessage, Dispatch, Goto, TypeOK
<1>3. CASE RecvEnd(p)
  BY <1>3 DEF RecvEnd, Dispatch, Goto, TypeOK
<1>4. CASE Admit(p) \/ Insert(p) \/ Refuse(p) \/ ConfirmJoin(p)
  BY <1>4 DEF Admit, Insert, Refuse, ConfirmJoin, Goto, TypeOK
<1>5. CASE SendPlayerId(p) \/ NotifyNewPlayer(p)
  BY <1>5 DEF SendPlayerId, NotifyNewPlayer, Goto, TypeOK
<1>6. CASE CopyList(p)
  BY <1>6 DEF CopyList, Goto, TypeOK
<1>7. CASE CallRoll(p)
  BY <1>7 DEF CallRoll, Goto, TypeOK
<1>8. CASE ServeLoop(p) \/ Check(p) \/ Commit(p) \/ Deny(p) \/ Confirm(p) \/ Bill(p)
  BY <1>8 DEF ServeLoop, Check, Commit, Deny, Confirm, Bill, Goto, TypeOK
<1>9. CASE BillWrite(p)
  <2>1. players[p] # Null
    BY <1>9 DEF BillWrite, ServedIsSeated
  <2> QED
    BY <1>9, <2>1 DEF BillWrite, Goto, TypeOK
<1>10. CASE NotifyNewBet(p) \/ NotifyFunds(p) \/ Depart(p)
  BY <1>10 DEF NotifyNewBet, NotifyFunds, Depart, Goto, TypeOK
<1>11. CASE Delete(p) \/ Close(p)
  BY <1>11 DEF Delete, Close, Goto, TypeOK
<1> QED
  BY <1>1, <1>2, <1>3, <1>4, <1>5, <1>6, <1>7, <1>8, <1>9, <1>10, <1>11 DEF ListenerStep

(***************************************************************************)
(* A connection that has ended stays so, and who was told to leave is not  *)
(* called back, until the descriptor is used again.                        *)
(***************************************************************************)
LEMMA ListenerEnds ==
  ASSUME TypeOK, NEW p \in Player, ListenerStep(p)
  PROVE  /\ peer'[p] \in OpenPeer => peer[p] \in OpenPeer
         /\ \A q \in dismissed : q \in dismissed' \/ lpc'[q] = "none"
<1> USE DEF OpenPeer, keyboards, TypeOK
<1>1. CASE Refuse(p) \/ ConfirmJoin(p) \/ Deny(p) \/ Confirm(p)
  BY <1>1 DEF Refuse, ConfirmJoin, Deny, Confirm, Answer, Pinged
<1>2. CASE SendPlayerId(p) \/ NotifyNewPlayer(p) \/ CallRoll(p) \/ NotifyNewBet(p)
           \/ NotifyFunds(p) \/ Depart(p)
  BY <1>2 DEF SendPlayerId, NotifyNewPlayer, CallRoll, NotifyNewBet, NotifyFunds, Depart,
              Broadcast, SendTo, Pinged
<1>3. CASE RecvMessage(p) \/ RecvEnd(p) \/ EnrolLoop(p) \/ Admit(p) \/ Insert(p) \/ CopyList(p)
           \/ ServeLoop(p) \/ Check(p) \/ Commit(p) \/ Bill(p) \/ BillWrite(p) \/ Delete(p)
  BY <1>3 DEF RecvMessage, RecvEnd, EnrolLoop, Admit, Insert, CopyList, ServeLoop, Check,
              Commit, Bill, BillWrite, Delete
<1>4. CASE Close(p)
  BY <1>4 DEF Close, Goto
<1> QED
  BY <1>1, <1>2, <1>3, <1>4 DEF ListenerStep

LEMMA CrupierEnds ==
  ASSUME TypeOK, CrupierStep
  PROVE  dismissed \subseteq dismissed'
BY DEF CrupierStep, WaitConnections, StartBets, StopBets, Spin, GrabLosers, Collect,
       GrabWinners, Pay, PayWrite, TellPaid, CleanBets, NotifyBroke, Expel, keyboards

LEMMA ClientEnds ==
  ASSUME TypeOK, NEW p \in Player, ClientStep(p), NEW q \in Player
  PROVE  /\ UNCHANGED dismissed
         /\ lpc'[q] = lpc[q] \/ (lpc[q] = "none" /\ lpc'[q] = "enrol")
         /\ peer'[q] \in OpenPeer => peer[q] \in OpenPeer \/ lpc'[q] = "enrol"
BY DEF TypeOK, ClientStep, Connect, Join, Ask, Decline, Bet, Esc, Hangup, HearStop, Reset,
       ClientSends, Dialog, Goto, OpenPeer, keyboards

(***************************************************************************)
(* The same for every step: a client begins to listen when its own         *)
(* listener has confirmed its join.                                        *)
(***************************************************************************)
Path(p) ==
  /\ Told(p)' => Told(p) \/ p \in From("tellNew")
  /\ p \in Listening' => p \in Listening \/ lpc'[p] = "sendId"
  /\ lpc'[p] \in Heeding \ Entering /\ lpc[p] \in Entering => lpc[p] = "roll"
  /\ lpc'[p] = "roll" => \/ lpc[p] = "roll" /\ roster'[p] = roster[p]
                         \/ lpc[p] = "list" /\ roster'[p] = Seated \ {p}
  /\ lpc'[p] = "list" => lpc[p] = "list" \/ p \in From("tellNew")
  /\ p \in From("depart") => lpc'[p] = "delete"

LEMMA StepPath ==
  ASSUME BaseInv, [Next]_vars, NEW q \in Player
  PROVE  Path(q)
<1> USE DEF BaseInv, CoreInv, Path, Told, From, Listening
<1>1. CASE CrupierStep
  <2>1. UNCHANGED <<lpc, roster>> /\ (Told(q)' => Told(q))
    BY <1>1, CrupierFrame, CrupierSeats
  <2>2. q \in Listening' => q \in Listening
    BY <1>1, <2>1, CrupierPings, CrupierEnds DEF Pings, OpenPeer
  <2> QED
    BY <2>1, <2>2 DEF Heeding
<1>2. ASSUME NEW p \in Player, ListenerStep(p), q # p PROVE Path(q)
  <2>1. lpc'[q] = lpc[q] /\ players'[q] = players[q]
    BY <1>2, ListenerFrame
  <2>2. roster'[q] = roster[q]
    BY <1>2 DEF ListenerStep, EnrolLoop, RecvMessage, RecvEnd, Admit, Insert, Refuse,
       ConfirmJoin, SendPlayerId, NotifyNewPlayer, CopyList, CallRoll, ServeLoop, Check,
       Commit, Deny, Confirm, Bill, BillWrite, NotifyNewBet, NotifyFunds, Depart, Delete,
       Close, TypeOK
  <2>3. q \in Listening' => q \in Listening
    BY <1>2, <2>1, ListenerPings, ListenerEnds DEF Pings, OpenPeer, ServePC
  <2> QED
    BY <2>1, <2>2, <2>3 DEF Heeding
<1>3. CASE ListenerStep(q)
  <2>1. q \in Listening' => q \in Listening \/ lpc'[q] = "sendId"
    BY <1>3, ListenerPath, ListenerEnds DEF Heeding, OpenPeer, EndedPeer, ServePC
  <2> QED
    BY <1>3, <2>1, ListenerPath
<1>4. ASSUME NEW p \in Player, ClientStep(p) PROVE Path(q)
  <2>1. UNCHANGED <<players, roster, dismissed>>
    BY <1>4, ClientFrame, ClientEnds DEF shared
  <2>2. lpc'[q] = lpc[q] \/ (lpc[q] = "none" /\ lpc'[q] = "enrol")
    BY <1>4, ClientEnds
  <2>3. q \in Listening' => q \in Listening
    BY <1>4, <2>1, <2>2, ClientEnds DEF ServePC
  <2> QED
    BY <2>1, <2>2, <2>3 DEF Heeding, ServePC, Unannounced
<1>5. CASE UNCHANGED vars
  BY <1>5 DEF vars, shared, keyboards, Heeding
<1> QED
  BY <1>1, <1>2, <1>3, <1>4, <1>5 DEF Next

-----------------------------------------------------------------------------
(* Who knows whom. *)

\* Those to be told of and told are in the table of a client that has been
\* entered, or in the list that its listener is about to send it.
KnowInv ==
  \A p \in Listening, q \in Player : Told(q) =>
    /\ lpc[p] \notin Entering => q \in known[p]
    /\ lpc[p] = "roll" => q \in known[p] \cup roster[p]
    /\ lpc[p] = "list" /\ q = p => q \in known[p]

LEMMA KnowStep ==
  ASSUME BaseInv, KnowInv, [Next /\ MirrorStep]_mirrorVars
  PROVE  KnowInv'
<1>1. CASE Next /\ MirrorStep
  <2> SUFFICES ASSUME NEW p \in Listening', NEW q \in Player, Told(q)'
               PROVE  /\ lpc'[p] \notin Entering => q \in known'[p]
                      /\ lpc'[p] = "roll" => q \in known'[p] \cup roster'[p]
                      /\ lpc'[p] = "list" /\ q = p => q \in known'[p]
    BY DEF KnowInv
  <2>1. p \in Player /\ lpc'[p] \in Heeding
    BY DEF Listening, Heeding
  <2>2. Path(p) /\ Path(q)
    BY <1>1, <2>1, StepPath
  <2>3. known'[p] = Knows(p)
    BY <1>1, <2>1 DEF MirrorStep
  <2>4. q \notin From("depart")
    BY <2>2 DEF Path, Told
  <2>5. CASE q \in From("tellNew")
    BY <2>3, <2>4, <2>5 DEF Knows
  <2>6. CASE q \notin From("tellNew")
    <3>1. Told(q)
      BY <2>2, <2>6 DEF Path
    <3>2. q \in known[p] => q \in known'[p]
      BY <2>3, <2>4 DEF Knows
    <3>3. CASE p \notin Listening
      BY <2>2, <3>3 DEF Path, Entering
    <3>4. CASE p \in Listening
      <4>1. ASSUME lpc'[p] \notin Entering PROVE q \in known'[p]
        <5>1. CASE lpc[p] \notin Entering
          BY <3>1, <3>2, <3>4, <5>1 DEF KnowInv
        <5>2. CASE lpc[p] \in Entering
          <6>1. p \in From("roll") /\ lpc[p] = "roll"
            BY <2>1, <2>2, <4>1, <5>2 DEF Path, From, Entering
          <6>2. q \in known[p] \cup roster[p]
            BY <3>1, <3>4, <6>1 DEF KnowInv
          <6> QED
            BY <2>3, <2>4, <6>1, <6>2 DEF Knows
        <5> QED
          BY <5>1, <5>2
      <4>2. ASSUME lpc'[p] = "roll" PROVE q \in known'[p] \cup roster'[p]
        <5>1. CASE lpc[p] = "roll" /\ roster'[p] = roster[p]
          BY <3>1, <3>2, <3>4, <5>1 DEF KnowInv
        <5>2. CASE lpc[p] = "list" /\ roster'[p] = Seated \ {p}
          <6>1. q = p => q \in known[p]
            BY <3>1, <3>4, <5>2 DEF KnowInv
          <6> QED
            BY <3>1, <3>2, <5>2, <6>1 DEF Told, Seated
        <5> QED
          BY <2>2, <4>2, <5>1, <5>2 DEF Path
      <4>3. ASSUME lpc'[p] = "list", q = p PROVE q \in known'[p]
        <5>1. lpc[p] = "list"
          BY <2>2, <2>6, <4>3 DEF Path
        <5> QED
          BY <3>1, <3>2, <3>4, <4>3, <5>1 DEF KnowInv
      <4> QED
        BY <4>1, <4>2, <4>3
    <3> QED
      BY <3>3, <3>4
  <2> QED
    BY <2>5, <2>6
<1>2. CASE UNCHANGED mirrorVars
  BY <1>2 DEF mirrorVars, vars, shared, keyboards, KnowInv, Listening, Told
<1> QED
  BY <1>1, <1>2

LEMMA MirrorNext == [Next /\ MirrorStep]_mirrorVars => [Next]_vars
BY DEF mirrorVars

(***************************************************************************)
(* However the announcements of others fall between the sends that enter a *)
(* newcomer, its client ends up with everybody who was announced: the list *)
(* is copied after its own announcement, and the stream keeps the order.   *)
(***************************************************************************)
THEOREM TablesComplete == MirrorSpec => []EnteredKnowsAll
<1>1. Init /\ MirrorInit => BaseInv /\ KnowInv
  BY BaseInit DEF Init, KnowInv, Listening, ServePC
<1>2. BaseInv /\ KnowInv /\ [Next /\ MirrorStep]_mirrorVars => BaseInv' /\ KnowInv'
  BY BaseStep, KnowStep, MirrorNext
<1>3. KnowInv => EnteredKnowsAll
  BY DEF KnowInv, EnteredKnowsAll, Told
<1> QED
  BY <1>1, <1>2, <1>3, PTL DEF MirrorSpec

-----------------------------------------------------------------------------
(* Who stays in the tables. *)

(***************************************************************************)
(* One who is seated and not leaving does not lose his seat, and leaves by *)
(* the farewell.                                                           *)
(***************************************************************************)
LEMMA SeatKept ==
  ASSUME BaseInv, [Next]_vars, NEW q \in Player, players[q] # Null, lpc[q] # "delete"
  PROVE  /\ players'[q] # Null
         /\ lpc'[q] = "delete" => q \in From("depart")
<1> USE DEF BaseInv, CoreInv, From
<1>1. CASE CrupierStep
  BY <1>1, CrupierFrame
<1>2. ASSUME NEW p \in Player, ListenerStep(p), q # p
      PROVE  players'[q] # Null /\ lpc'[q] # "delete"
  BY <1>2, ListenerFrame
<1>3. CASE ListenerStep(q)
  <2>1. CASE Insert(q)
    BY <2>1, BoardAssumption, CasinoAssumption DEF Insert, Goto, TypeOK
  <2>2. CASE BillWrite(q)
    <3>1. CoreInv'
      BY CoreStep
    <3> QED
      BY <2>2, <3>1 DEF BillWrite, Goto, TypeOK, ServedIsSeated, ServePC
  <2>3. CASE Depart(q)
    BY <2>3 DEF Depart, Goto, TypeOK
  <2>4. CASE RecvMessage(q) \/ RecvEnd(q)
    BY <2>4 DEF RecvMessage, RecvEnd, Dispatch, Goto, TypeOK, shared
  <2>5. CASE ~ (Insert(q) \/ BillWrite(q) \/ Depart(q) \/ RecvMessage(q) \/ RecvEnd(q))
    BY <1>3, <2>5 DEF ListenerStep, EnrolLoop, Admit, Refuse, ConfirmJoin, SendPlayerId,
       NotifyNewPlayer, CopyList, CallRoll, ServeLoop, Check, Commit, Deny, Confirm, Bill,
       NotifyNewBet, NotifyFunds, Delete, Close, Goto, TypeOK, shared
  <2> QED
    BY <2>1, <2>2, <2>3, <2>4, <2>5
<1>4. ASSUME NEW p \in Player, ClientStep(p)
      PROVE  players'[q] # Null /\ lpc'[q] # "delete"
  BY <1>4, ClientFrame, ClientEnds DEF shared
<1>5. CASE UNCHANGED vars
  BY <1>5 DEF vars, shared
<1> QED
  BY <1>1, <1>2, <1>3, <1>4, <1>5 DEF Next

\* The ghosts that a list is about to make.
Listed ==
  {pq \in Player \X Player :
     pq[1] \in From("roll") /\ pq[2] \in roster[pq[1]] /\ lpc[pq[2]] = "delete"}

(***************************************************************************)
(* A list is sent only while all in it are in the player table.            *)
(***************************************************************************)
LEMMA RollCalled ==
  ASSUME BaseInv, [Next]_vars, NEW p \in From("roll"), NEW q \in roster[p]
  PROVE  q \in Player /\ players[q] # Null /\ (lpc'[q] = "delete" => lpc[q] = "delete")
<1> USE DEF BaseInv, CoreInv, From
<1>1. CASE ListenerStep(p)
  <2>1. CallRoll(p)
    BY <1>1 DEF ListenerStep, EnrolLoop, RecvMessage, RecvEnd, Admit, Insert, Refuse,
       ConfirmJoin, SendPlayerId, NotifyNewPlayer, CopyList, ServeLoop, Check,
       Commit, Deny, Confirm, Bill, BillWrite, NotifyNewBet, NotifyFunds, Depart, Delete,
       Close
  <2>2. q \in Seated /\ lpc'[p] = "serve"
    BY <2>1 DEF CallRoll, Goto, TypeOK
  <2> QED
    BY <1>1, <2>2, ListenerFrame DEF Seated
<1>2. CASE CrupierStep \/ UNCHANGED vars
  BY <1>2, CrupierFrame DEF vars
<1>3. ASSUME NEW r \in Player, ListenerStep(r), r # p PROVE FALSE
  BY <1>3, ListenerFrame
<1>4. ASSUME NEW r \in Player, ClientStep(r) PROVE FALSE
  BY <1>4, ClientEnds
<1> QED
  BY <1>1, <1>2, <1>3, <1>4 DEF Next

LEMMA GhostStep ==
  ASSUME BaseInv, [Next /\ MirrorStep]_mirrorVars
  PROVE  Ghosts' \subseteq Ghosts \cup Listed
<1>1. CASE Next /\ MirrorStep
  <2> SUFFICES ASSUME NEW p \in Player, NEW q \in Player,
                      q \in known'[p], players'[q] = Null \/ lpc'[q] = "delete",
                      <<p, q>> \notin Ghosts
               PROVE  p \in From("roll") /\ q \in roster[p] /\ lpc[q] = "delete"
    BY DEF Ghosts, Listed
  <2>1. q \in Knows(p)
    BY <1>1 DEF MirrorStep
  <2>2. CASE q \in known[p]
    <3>1. players[q] # Null /\ lpc[q] # "delete"
      BY <2>2 DEF Ghosts
    <3> QED
      BY <1>1, <2>1, <3>1, SeatKept DEF Knows
  <2>3. CASE q \in From("tellNew")
    <3>1. players[q] # Null /\ lpc[q] = "tellNew"
      BY <2>3 DEF From, BaseInv, CoreInv, ServedIsSeated, ServePC
    <3> QED
      BY <1>1, <2>1, <3>1, SeatKept DEF Knows
  <2>4. CASE p \in From("roll") /\ q \in roster[p]
    <3>1. players[q] # Null
      BY <1>1, <2>4, RollCalled
    <3>2. CASE lpc[q] = "delete"
      BY <2>4, <3>2
    <3>3. CASE lpc[q] # "delete"
      BY <1>1, <2>1, <3>1, <3>3, SeatKept DEF Knows
    <3> QED
      BY <3>2, <3>3
  <2> QED
    BY <2>1, <2>2, <2>3, <2>4 DEF Knows
<1>2. CASE UNCHANGED mirrorVars
  BY <1>2 DEF mirrorVars, vars, shared, Ghosts
<1> QED
  BY <1>1, <1>2

(***************************************************************************)
(* A player stays in a client's table after his farewell in one way only:  *)
(* the list sent to that client was copied with him in it and is sent      *)
(* between his farewell and his deletion.                                  *)
(***************************************************************************)
THEOREM GhostsExplained == MirrorSpec => GhostsAreListed
<1>1. BaseInv /\ [Next /\ MirrorStep]_mirrorVars => BaseInv'
  BY BaseStep, MirrorNext
<1>2. BaseInv /\ [Next /\ MirrorStep]_mirrorVars
        => [Ghosts' \subseteq Ghosts \cup {pq \in Player \X Player :
              pq[1] \in From("roll") /\ pq[2] \in roster[pq[1]] /\ lpc[pq[2]] = "delete"}]_mirrorVars
  BY GhostStep DEF Listed
<1> QED
  BY BaseInit, <1>1, <1>2, PTL DEF MirrorSpec, GhostsAreListed

-----------------------------------------------------------------------------
(* Whom a client looks up. *)

MirrorType == drawn \in [Player -> Boards] /\ even \subseteq Player

\* The client's Board::placeBet has room for the bet q has just made.
Fits(p, q) == Accepts(drawn[p], 0, msg[q].box, q, msg[q].amount)

(***************************************************************************)
(* What becomes of a client's board at a step: emptied, or one bet drawn,  *)
(* or left.                                                                *)
(***************************************************************************)
LEMMA DrawsCases ==
  ASSUME NEW p \in Player
  PROVE  \/ Opens /\ Draws(p) = EmptyBoard
         \/ \E q \in From("tellBet") :
              ~ Opens /\ Draws(p) = Placed(drawn[p], msg[q].box, q, msg[q].amount)
         \/ ~ Opens /\ Draws(p) = drawn[p] /\ \A q \in From("tellBet") : ~ Fits(p, q)
<1>1. CASE Opens
  BY <1>1 DEF Draws
<1>2. CASE ~ Opens /\ \E q \in From("tellBet") : Fits(p, q)
  <2>1. PICK q \in From("tellBet") : q = CHOOSE r \in From("tellBet") : TRUE
    BY <1>2
  <2>2. Draws(p) = Placed(drawn[p], msg[q].box, q, msg[q].amount)
    BY <1>2, <2>1 DEF Draws, BetDrawn, Fits
  <2> QED
    BY <1>2, <2>2
<1>3. CASE ~ Opens /\ \A q \in From("tellBet") : ~ Fits(p, q)
  BY <1>3 DEF Draws, BetDrawn, Fits
<1> QED
  BY <1>1, <1>2, <1>3

LEMMA TellingBet ==
  ASSUME BaseInv, NEW q \in From("tellBet")
  PROVE  /\ q \in Player /\ lpc[q] = "tellBet"
         /\ msg[q].box \in Box /\ msg[q].amount \in Nat
BY BetFields DEF From, BaseInv, CoreInv, BetInHand, BetPC

LEMMA EmptyType == EmptyBoard \in Boards
BY DEF EmptyBoard, Boards

LEMMA DrawsType ==
  ASSUME BaseInv, MirrorType, NEW p \in Player
  PROVE  /\ Draws(p) \in Boards
         /\ \A b \in Box, x \in Player :
              HasBet(Draws(p), b, x) => x \in From("tellBet") \/ HasBet(drawn[p], b, x)
<1>1. CASE Draws(p) = EmptyBoard
  BY <1>1, EmptyType DEF EmptyBoard, HasBet
<1>2. CASE Draws(p) = drawn[p]
  BY <1>2 DEF MirrorType
<1>3. ASSUME NEW q \in From("tellBet"), Draws(p) = Placed(drawn[p], msg[q].box, q, msg[q].amount)
      PROVE  /\ Draws(p) \in Boards
             /\ \A b \in Box, x \in Player :
                  HasBet(Draws(p), b, x) => x \in From("tellBet") \/ HasBet(drawn[p], b, x)
  <2>1. q \in Player /\ msg[q].box \in Box /\ msg[q].amount \in Nat /\ drawn[p] \in Boards
    BY TellingBet DEF MirrorType
  <2>2. Draws(p) \in Boards
    BY <1>3, <2>1, PlacedType
  <2>3. \A b \in Box, x \in Player \ {q} : Draws(p)[b][x] = drawn[p][b][x]
    BY <1>3, <2>1 DEF Placed, Boards
  <2> QED
    BY <2>2, <2>3 DEF HasBet
<1> QED
  BY <1>1, <1>2, <1>3, DrawsCases

LEMMA MirrorTyped ==
  ASSUME BaseInv, MirrorType, [Next /\ MirrorStep]_mirrorVars
  PROVE  MirrorType'
<1>1. CASE Next /\ MirrorStep
  <2>1. drawn' \in [Player -> Boards]
    BY <1>1, DrawsType, EmptyType DEF MirrorStep
  <2>2. even' \subseteq Player
    <3>1. CASE even' = Listening
      BY <3>1 DEF Listening
    <3>2. CASE even' = even \cap Listening' \/ even' = {}
      BY <3>2 DEF MirrorType
    <3> QED
      BY <1>1, <3>1, <3>2 DEF MirrorStep
  <2> QED
    BY <2>1, <2>2 DEF MirrorType
<1>2. CASE UNCHANGED mirrorVars
  BY <1>2 DEF mirrorVars, MirrorType
<1> QED
  BY <1>1, <1>2

(***************************************************************************)
(* The croupier tells the funds of one player, whom he has found seated.   *)
(***************************************************************************)
LEMMA PaidIsSeated ==
  ASSUME BaseInv, [Next]_vars, cpc = "tellPaid", cpc' = "pay",
         NEW s \in recollected \ recollected'
  PROVE  s.player \in Player /\ players[s.player] # Null
<1>1. CrupierStep
  BY ListenerFrame, ClientFrame DEF Next, BaseInv, CoreInv, crupier, vars
<1>2. TellPaid
  BY <1>1 DEF CrupierStep, WaitConnections, StartBets, StopBets, Spin, GrabLosers, Collect,
              GrabWinners, Pay, PayWrite, CleanBets, NotifyBroke, Expel
<1>3. PICK t \in recollected : players[t.player] # Null /\ recollected' = recollected \ {t}
  BY <1>2 DEF TellPaid
<1>4. s = t
  BY <1>3
<1> QED
  BY <1>3, <1>4 DEF BaseInv, CoreInv, TypeOK, Slip

LEMMA LooksStep ==
  ASSUME BaseInv, KnowInv, MirrorType, [Next]_vars,
         NEW p \in Listening, lpc[p] \notin Entering
  PROVE  Mentioned(p) \subseteq
           known[p] \cup {q \in Player : lpc[q] \in Unannounced \cup {"delete"}}
                    \cup {q \in Player : \E b \in Box : HasBet(drawn[p], b, q)}
<1> SUFFICES ASSUME NEW x \in Mentioned(p),
                    ~ \E b \in Box : x \in Player /\ HasBet(drawn[p], b, x)
             PROVE  x \in known[p] \cup {q \in Player : lpc[q] \in Unannounced \cup {"delete"}}
  OBVIOUS
<1>1. \A q \in Player : Told(q) => q \in known[p]
  BY DEF KnowInv
<1>2. \A q \in Player : lpc[q] \in {"tellBet", "tellFunds"} => Told(q)
  BY DEF Told, Unannounced, BaseInv, CoreInv, ServedIsSeated, ServePC
<1>3. CASE x \in From("tellFunds")
  BY <1>1, <1>2, <1>3 DEF From
<1>4. ASSUME NEW q \in From("tellBet"), x \in Bettors(Draws(p), msg[q].box)
      PROVE  x \in known[p]
  <2>1. p \in Player /\ x \in Player /\ msg[q].box \in Box
    BY <1>4, TellingBet DEF Bettors, Listening
  <2>2. x \in From("tellBet")
    BY <1>4, <2>1, DrawsType DEF Bettors
  <2> QED
    BY <1>1, <1>2, <2>2 DEF From
<1>5. ASSUME cpc = "tellPaid", cpc' = "pay", NEW s \in recollected \ recollected', x = s.player
      PROVE  x \in known[p] \cup {q \in Player : lpc[q] \in Unannounced \cup {"delete"}}
  BY <1>1, <1>5, PaidIsSeated DEF Told
<1>6. CASE x = p
  <2>1. players[p] # Null
    BY DEF Listening, BaseInv, CoreInv, ServedIsSeated, LostInv, OpenPeer, EndedPeer
  <2>2. p \in Player /\ lpc[p] \notin Unannounced \cup {"delete"}
    BY DEF Listening, Unannounced, Entering, ServePC
  <2> QED
    BY <1>1, <1>6, <2>1, <2>2 DEF Told
<1> QED
  <2>1. \/ x \in From("tellFunds")
        \/ \E q \in From("tellBet") : x \in Bettors(Draws(p), msg[q].box)
        \/ /\ cpc = "tellPaid" /\ cpc' = "pay"
           /\ \E s \in recollected \ recollected' : x = s.player
        \/ x = p
    BY DEF Mentioned
  <2>2. CASE \E q \in From("tellBet") : x \in Bettors(Draws(p), msg[q].box)
    BY <1>4, <2>2
  <2>3. CASE /\ cpc = "tellPaid" /\ cpc' = "pay"
             /\ \E s \in recollected \ recollected' : x = s.player
    BY <1>5, <2>3
  <2> QED
    BY <1>3, <1>6, <2>1, <2>2, <2>3

(***************************************************************************)
(* Beyond the entering, a client dereferences a missing player only for a  *)
(* bet of one who has left, or a payment that falls in his leaving or in   *)
(* the entering of the next one with his id: all other broadcasts are of   *)
(* players that the client has been told of.                               *)
(***************************************************************************)
THEOREM LookupsExplained == MirrorSpec => LooksUpKnown
<1>1. Init /\ MirrorInit => BaseInv /\ KnowInv /\ MirrorType
  <2>1. Init => BaseInv
    BY BaseInit
  <2>2. Init => KnowInv
    BY DEF Init, KnowInv, Listening, ServePC
  <2>3. MirrorInit => MirrorType
    BY EmptyType DEF MirrorInit, MirrorType
  <2> QED
    BY <2>1, <2>2, <2>3
<1>2. BaseInv /\ KnowInv /\ MirrorType /\ [Next /\ MirrorStep]_mirrorVars
        => BaseInv' /\ KnowInv' /\ MirrorType'
  BY BaseStep, KnowStep, MirrorTyped, MirrorNext
<1>3. BaseInv /\ KnowInv /\ MirrorType /\ [Next /\ MirrorStep]_mirrorVars
        => [\A p \in Listening :
              \/ lpc[p] \in Entering
              \/ Mentioned(p) \subseteq
                   known[p] \cup {q \in Player : lpc[q] \in Unannounced \cup {"delete"}}
                            \cup {q \in Player : \E b \in Box : HasBet(drawn[p], b, q)}]_mirrorVars
  BY LooksStep, MirrorNext
<1> QED
  BY <1>1, <1>2, <1>3, PTL DEF MirrorSpec, LooksUpKnown

-----------------------------------------------------------------------------
(* What the boards show. *)

Taking == {"betting", "spin"}

\* A bet of q on box b is on the server's board and not told yet.
Pending(b, q) == q \in Untold /\ msg[q].box = b

PendingAmount(b, q) == IF Pending(b, q) THEN msg[q].amount ELSE 0

\* Client p has no room for another player on box b.
Full(p, b) == Cardinality(Bettors(drawn[p], b)) >= MaxBets[b]

\* What p shows of q on box b, with what is still to be told, is what he has
\* there; or p had no room for him.
Shown(p, b, q) ==
  /\ HasBet(drawn[p], b, q) => HasBet(bets, b, q)
  /\ Pending(b, q) => HasBet(bets, b, q)
  /\ \/ Stake(drawn[p], b, q) + PendingAmount(b, q) = Stake(bets, b, q)
     \/ HasBet(bets, b, q) /\ ~ HasBet(drawn[p], b, q) /\ Full(p, b)

ShownInv ==
  cpc \in Taking => \A p \in even, b \in Box, q \in Player : Shown(p, b, q)

LEMMA BettorsFinite ==
  ASSUME NEW board, NEW b
  PROVE  IsFiniteSet(Bettors(board, b)) /\ Cardinality(Bettors(board, b)) \in Nat
<1>1. IsFiniteSet(Player) /\ Bettors(board, b) \in SUBSET Player
  BY BoardAssumption DEF Bettors
<1> QED
  BY <1>1, FS_Subset, FS_CardinalityType

(***************************************************************************)
(* A board that has no room has none while it only fills.                  *)
(***************************************************************************)
LEMMA FullKept ==
  ASSUME NEW p, NEW b \in Box, Full(p, b),
         \A q \in Player : HasBet(drawn[p], b, q) => HasBet(drawn'[p], b, q)
  PROVE  Full(p, b)'
<1>1. Bettors(drawn[p], b) \in SUBSET Bettors(drawn'[p], b)
  BY DEF Bettors
<1>2. Cardinality(Bettors(drawn[p], b)) <= Cardinality(Bettors(drawn'[p], b))
  BY <1>1, BettorsFinite, FS_Subset
<1>3. MaxBets[b] \in Nat
  BY BoardAssumption
<1> QED
  BY <1>2, <1>3, BettorsFinite DEF Full

LEMMA ShownKept ==
  ASSUME NEW p, NEW b, NEW q, Shown(p, b, q),
         bets'[b][q] = bets[b][q], drawn'[p][b][q] = drawn[p][b][q],
         Full(p, b) => Full(p, b)',
         Pending(b, q)' <=> Pending(b, q), Pending(b, q) => msg'[q] = msg[q]
  PROVE  Shown(p, b, q)'
BY DEF Shown, HasBet, Stake, PendingAmount

(***************************************************************************)
(* Nothing is told: the client's board stays.                              *)
(***************************************************************************)
LEMMA ShownQuietly ==
  ASSUME BaseInv, NEW p \in Player, NEW b \in Box, NEW q \in Player, Shown(p, b, q),
         UNCHANGED bets, drawn'[p] = drawn[p],
         \A r \in Player : r \in Untold' <=> r \in Untold,
         \A r \in Untold : msg'[r] = msg[r]
  PROVE  Shown(p, b, q)'
<1>1. Full(p, b) => Full(p, b)'
  BY DEF Full
<1>2. Pending(b, q)' <=> Pending(b, q)
  BY DEF Pending
<1>3. Pending(b, q) => msg'[q] = msg[q]
  BY DEF Pending
<1> QED
  BY <1>1, <1>2, <1>3, ShownKept

\* Only the listener that announces a bet leaves that place.
LEMMA TellOne ==
  ASSUME BaseInv, NEW r \in Player, ListenerStep(r)
  PROVE  /\ NotifyNewBet(r) => From("tellBet") = {r}
         /\ ~ NotifyNewBet(r) => From("tellBet") = {}
<1> USE DEF BaseInv, CoreInv, From
<1>1. \A q \in Player \ {r} : lpc'[q] = lpc[q]
  BY ListenerFrame
<1>2. CASE NotifyNewBet(r)
  BY <1>1, <1>2 DEF NotifyNewBet, Goto, TypeOK
<1>3. CASE ~ NotifyNewBet(r)
  <2>1. lpc[r] = "tellBet" => lpc'[r] = "tellBet"
    BY <1>3 DEF ListenerStep, EnrolLoop, RecvMessage, RecvEnd, Admit, Insert, Refuse,
       ConfirmJoin, SendPlayerId, NotifyNewPlayer, CopyList, CallRoll, ServeLoop, Check,
       Commit, Deny, Confirm, Bill, BillWrite, NotifyFunds, Depart, Delete, Close
  <2> QED
    BY <1>1, <1>3, <2>1
<1> QED
  BY <1>2, <1>3

(***************************************************************************)
(* A bet is told: the client draws it, or has no room for it.              *)
(***************************************************************************)
LEMMA ShownTold ==
  ASSUME BaseInv, MirrorType, NEW r \in Player, ListenerStep(r), NotifyNewBet(r),
         NEW p \in Player, drawn'[p] = BetDrawn(p),
         \A c \in Box, x \in Player : Shown(p, c, x),
         NEW b \in Box, NEW q \in Player
  PROVE  Shown(p, b, q)'
<1> DEFINE box == msg[r].box
           amount == msg[r].amount
<1>1. From("tellBet") = {r}
  BY TellOne
<1>2. box \in Box /\ amount \in Nat /\ drawn[p] \in Boards /\ bets \in Boards
  BY <1>1, TellingBet DEF MirrorType, BaseInv, CoreInv, TypeOK
<1>3. UNCHANGED <<bets, msg>> /\ \A x \in Player \ {r} : lpc'[x] = lpc[x]
  BY ListenerFrame DEF NotifyNewBet, shared, BaseInv, CoreInv
<1>4. r \in Untold /\ r \notin Untold' /\ \A x \in Player \ {r} : x \in Untold' <=> x \in Untold
  BY <1>3 DEF NotifyNewBet, Goto, Untold, BaseInv, CoreInv, TypeOK
<1>5. \/ Fits(p, r) /\ drawn'[p] = Placed(drawn[p], box, r, amount)
      \/ ~ Fits(p, r) /\ drawn'[p] = drawn[p]
  BY <1>1 DEF BetDrawn, Fits
<1>6. ASSUME NEW c \in Box, NEW x \in Player, ~ (c = box /\ x = r)
      PROVE  drawn'[p][c][x] = drawn[p][c][x]
  BY <1>2, <1>5, <1>6 DEF Placed, Boards
<1>7. Fits(p, r) => HasBet(drawn'[p], box, r)
                    /\ Stake(drawn'[p], box, r) = Stake(drawn[p], box, r) + amount
  <2>1. Stake(drawn[p], box, r) + amount \in Nat
    BY <1>2, StakeNat
  <2>2. SUFFICES ASSUME Fits(p, r)
                 PROVE  drawn'[p][box][r] = Stake(drawn[p], box, r) + amount
    BY <2>1, BoardAssumption DEF HasBet, Stake
  <2> QED
    BY <1>2, <1>5, <2>2 DEF Placed, Boards
<1>8. ASSUME NEW c \in Box, Full(p, c) PROVE Full(p, c)'
  <2>1. \A x \in Player : HasBet(drawn[p], c, x) => HasBet(drawn'[p], c, x)
    BY <1>5, <1>6, <1>7 DEF HasBet
  <2> QED
    BY <1>8, <2>1, FullKept
<1>9. CASE ~ (b = box /\ q = r)
  <2>1. Pending(b, q)' <=> Pending(b, q)
    BY <1>3, <1>4, <1>9 DEF Pending
  <2> QED
    BY <1>3, <1>6, <1>8, <1>9, <2>1, ShownKept
<1>10. CASE b = box /\ q = r
  <2>1. Pending(b, q) /\ ~ Pending(b, q)' /\ PendingAmount(b, q) = amount /\ Shown(p, b, q)
    BY <1>4, <1>10 DEF Pending, PendingAmount
  <2>2. HasBet(bets, b, q) /\ HasBet(bets', b, q) /\ Stake(bets', b, q) = Stake(bets, b, q)
    BY <1>3, <2>1 DEF Shown
  <2>3. PendingAmount(b, q)' = 0
    BY <2>1 DEF PendingAmount
  <2>4. Stake(drawn[p], b, q) \in Nat /\ Stake(bets, b, q) \in Nat
    BY <1>2, StakeNat
  <2>5. CASE Fits(p, r)
    <3>1. ~ (~ HasBet(drawn[p], b, q) /\ Full(p, b))
      <4>1. MaxBets[b] \in Nat /\ Cardinality(Bettors(drawn[p], b)) \in Nat
        BY BettorsFinite, BoardAssumption
      <4> QED
        BY <1>10, <2>5, <4>1 DEF Fits, Accepts, Full
    <3>2. Stake(drawn[p], b, q) + amount = Stake(bets, b, q)
      BY <2>1, <3>1 DEF Shown
    <3>3. Stake(drawn'[p], b, q) + 0 = Stake(bets', b, q)
      BY <1>2, <1>7, <1>10, <2>2, <2>4, <2>5, <3>2
    <3> QED
      BY <1>7, <1>10, <2>1, <2>2, <2>3, <2>5, <3>3 DEF Shown
  <2>6. CASE ~ Fits(p, r)
    <3>1. ~ HasBet(drawn[p], b, q) /\ Full(p, b)
      <4>1. MaxBets[b] \in Nat /\ Cardinality(Bettors(drawn[p], b)) \in Nat
        BY BettorsFinite, BoardAssumption
      <4> QED
        BY <1>10, <2>6, <4>1 DEF Fits, Accepts, Admissible, Full
    <3> QED
      BY <1>5, <1>8, <2>1, <2>2, <2>6, <3>1 DEF Shown
  <2> QED
    BY <2>5, <2>6
<1> QED
  BY <1>9, <1>10

(***************************************************************************)
(* A bet is placed: from now on it is still to be told.                    *)
(***************************************************************************)
LEMMA ShownPlaced ==
  ASSUME BaseInv, MirrorType, NEW r \in Player, ListenerStep(r), Commit(r),
         NEW p \in Player, drawn'[p] = drawn[p],
         \A c \in Box, x \in Player : Shown(p, c, x),
         NEW b \in Box, NEW q \in Player
  PROVE  Shown(p, b, q)'
<1> DEFINE box == msg[r].box
           amount == msg[r].amount
<1>1. box \in Box /\ amount \in Nat /\ drawn[p] \in Boards /\ bets \in Boards
  BY BetFields DEF MirrorType, BaseInv, CoreInv, TypeOK, BetInHand, BetPC, Commit
<1>2. bets' = Placed(bets, box, r, amount) /\ UNCHANGED msg
  BY DEF Commit
<1>3. r \notin Untold /\ r \in Untold' /\ \A x \in Player \ {r} : x \in Untold' <=> x \in Untold
  BY DEF Commit, Goto, Untold, BaseInv, CoreInv, TypeOK
<1>4. Full(p, b) => Full(p, b)'
  BY DEF Full
<1>5. CASE q # r
  <2>1. bets'[b][q] = bets[b][q]
    BY <1>1, <1>2, <1>5 DEF Placed, Boards
  <2>2. Pending(b, q)' <=> Pending(b, q)
    BY <1>2, <1>3, <1>5 DEF Pending
  <2> QED
    BY <1>2, <1>4, <2>1, <2>2, ShownKept
<1>6. CASE q = r /\ b # box
  <2>1. bets'[b][q] = bets[b][q]
    BY <1>1, <1>2, <1>6 DEF Placed, Boards
  <2>2. ~ Pending(b, q)' /\ ~ Pending(b, q)
    BY <1>2, <1>6 DEF Pending
  <2> QED
    BY <1>4, <2>1, <2>2, ShownKept
<1>7. CASE q = r /\ b = box
  <2>1. /\ Shown(p, b, q) /\ ~ Pending(b, q) /\ PendingAmount(b, q) = 0
        /\ Pending(b, q)' /\ PendingAmount(b, q)' = amount
    BY <1>2, <1>3, <1>7 DEF Pending, PendingAmount
  <2>2. Stake(drawn[p], b, q) \in Nat /\ Stake(bets, b, q) \in Nat
    BY <1>1, StakeNat
  <2>3. bets'[b][q] = Stake(bets, b, q) + amount
    BY <1>1, <1>2, <1>7 DEF Placed, Boards
  <2>4. HasBet(bets', b, q) /\ Stake(bets', b, q) = Stake(bets, b, q) + amount
    BY <1>1, <2>2, <2>3, BoardAssumption DEF HasBet, Stake
  <2>5. CASE Stake(drawn[p], b, q) + 0 = Stake(bets, b, q)
    <3>1. Stake(drawn'[p], b, q) + amount = Stake(bets', b, q)
      BY <1>1, <2>2, <2>4, <2>5
    <3> QED
      BY <2>1, <2>4, <3>1 DEF Shown
  <2>6. CASE ~ HasBet(drawn[p], b, q) /\ Full(p, b)
    BY <1>4, <2>1, <2>4, <2>6 DEF Shown
  <2> QED
    BY <2>1, <2>5, <2>6 DEF Shown
<1> QED
  BY <1>5, <1>6, <1>7

(***************************************************************************)
(* Between the placing of a bet and its telling the listener keeps the     *)
(* message.                                                                *)
(***************************************************************************)
LEMMA ListenerUntold ==
  ASSUME BaseInv, NEW r \in Player, ListenerStep(r), ~ Commit(r), ~ NotifyNewBet(r)
  PROVE  /\ UNCHANGED bets
         /\ \A q \in Player : q \in Untold' <=> q \in Untold
         /\ \A q \in Untold : msg'[q] = msg[q]
<1> USE DEF BaseInv, CoreInv
<1>1. UNCHANGED bets
  BY ListenerBets
<1>2. \A q \in Player \ {r} : lpc'[q] = lpc[q] /\ msg'[q] = msg[q]
  BY ListenerFrame
<1>3. (r \in Untold' <=> r \in Untold) /\ (r \in Untold => msg'[r] = msg[r])
  <2>1. CASE RecvMessage(r) \/ RecvEnd(r)
    BY <2>1 DEF RecvMessage, RecvEnd, Dispatch, Goto, Untold, TypeOK
  <2>2. CASE ~ (RecvMessage(r) \/ RecvEnd(r))
    BY <2>2 DEF ListenerStep, EnrolLoop, Admit, Insert, Refuse, ConfirmJoin, SendPlayerId,
       NotifyNewPlayer, CopyList, CallRoll, ServeLoop, Check, Deny, Confirm, Bill, BillWrite,
       NotifyFunds, Depart, Delete, Close, Goto, Untold, TypeOK
  <2> QED
    BY <2>1, <2>2
<1> QED
  BY <1>1, <1>2, <1>3 DEF Untold

(***************************************************************************)
(* Who is in the phase of bets: betting opens by StartBets, and is over    *)
(* only by the croupier's own steps.                                       *)
(***************************************************************************)
LEMMA TakingPhase ==
  ASSUME BaseInv, Next
  PROVE  /\ Opens => StartBets
         /\ ~ Opens /\ cpc' \in Taking => cpc \in Taking
         /\ CrupierStep /\ cpc \in Taking /\ cpc' \in Taking => UNCHANGED bets
<1>1. CrupierStep \/ UNCHANGED cpc
  BY ListenerFrame, ClientFrame DEF Next, BaseInv, CoreInv, crupier
<1>2. CrupierStep => /\ Opens => StartBets
                     /\ ~ Opens /\ cpc' \in Taking => cpc \in Taking
                     /\ cpc \in Taking /\ cpc' \in Taking => UNCHANGED bets
  BY DEF CrupierStep, WaitConnections, StartBets, StopBets, Spin, GrabLosers, Collect,
         GrabWinners, Pay, PayWrite, TellPaid, CleanBets, NotifyBroke, Expel, NextBoxOr,
         RoundOver, shared, Opens, Taking
<1> QED
  BY <1>1, <1>2 DEF Opens, Taking

LEMMA ShownStep ==
  ASSUME BaseInv, MirrorType, ShownInv, [Next /\ MirrorStep]_mirrorVars
  PROVE  ShownInv'
<1>1. CASE Next /\ MirrorStep
  <2> SUFFICES ASSUME cpc' \in Taking, NEW p \in even', NEW b \in Box, NEW q \in Player
               PROVE  Shown(p, b, q)'
    BY DEF ShownInv
  <2>1. CASE Opens
    <3>1. even' = Listening /\ bets = EmptyBoard /\ Untold = {}
      BY <1>1, <2>1 DEF MirrorStep
    <3>2. UNCHANGED <<bets, lpc>>
      BY <1>1, <2>1, TakingPhase DEF StartBets, CrupierOnly, shared
    <3>3. drawn'[p] = EmptyBoard
      BY <1>1, <2>1, <3>1 DEF MirrorStep, Draws, Listening
    <3>4. ~ Pending(b, q)' /\ PendingAmount(b, q)' = 0
      BY <3>1, <3>2 DEF Pending, PendingAmount, Untold
    <3>5. ~ HasBet(EmptyBoard, b, q) /\ Stake(EmptyBoard, b, q) = 0
      BY DEF EmptyBoard, HasBet, Stake
    <3> QED
      BY <3>1, <3>2, <3>3, <3>4, <3>5 DEF Shown
  <2>2. CASE ~ Opens
    <3>1. cpc \in Taking
      BY <1>1, <2>2, TakingPhase
    <3>2. p \in even /\ p \in Listening'
      BY <1>1, <2>2 DEF MirrorStep, Taking
    <3>3. p \in Player /\ drawn'[p] = BetDrawn(p)
      BY <1>1, <2>2, <3>2 DEF MirrorStep, Draws, Listening
    <3>4. \A c \in Box, x \in Player : Shown(p, c, x)
      BY <3>1, <3>2 DEF ShownInv
    <3>5. From("tellBet") = {} => drawn'[p] = drawn[p]
      BY <3>3 DEF BetDrawn
    <3>6. CASE CrupierStep
      <4>1. UNCHANGED <<bets, lpc, msg>>
        BY <1>1, <3>1, <3>6, TakingPhase, CrupierFrame DEF BaseInv, CoreInv
      <4>2. From("tellBet") = {}
        BY <4>1 DEF From
      <4> QED
        BY <3>3, <3>4, <3>5, <4>1, <4>2, ShownQuietly DEF Untold
    <3>7. ASSUME NEW r \in Player, ListenerStep(r) PROVE Shown(p, b, q)'
      <4>1. CASE NotifyNewBet(r)
        BY <3>3, <3>4, <3>7, <4>1, ShownTold
      <4>2. CASE Commit(r)
        <5>1. ~ NotifyNewBet(r)
          BY <4>2 DEF Commit, NotifyNewBet
        <5> QED
          BY <3>3, <3>4, <3>5, <3>7, <4>2, <5>1, TellOne, ShownPlaced
      <4>3. CASE ~ NotifyNewBet(r) /\ ~ Commit(r)
        BY <3>3, <3>4, <3>5, <3>7, <4>3, TellOne, ListenerUntold, ShownQuietly
      <4> QED
        BY <4>1, <4>2, <4>3
    <3>8. ASSUME NEW r \in Player, ClientStep(r) PROVE Shown(p, b, q)'
      <4>1. UNCHANGED bets
        BY <3>8, ClientFrame DEF BaseInv, CoreInv, shared
      <4>2. \A x \in Player : lpc'[x] = lpc[x] \/ (lpc[x] = "none" /\ lpc'[x] = "enrol")
        BY <3>8, ClientEnds DEF BaseInv, CoreInv
      <4>3. From("tellBet") = {} /\ \A x \in Player : x \in Untold' <=> x \in Untold
        BY <4>2 DEF From, Untold
      <4>4. \A x \in Untold : msg'[x] = msg[x]
        BY <3>8, <4>2, ClientFrame DEF Untold, BaseInv, CoreInv
      <4> QED
        BY <3>3, <3>4, <3>5, <4>1, <4>3, <4>4, ShownQuietly
    <3> QED
      BY <1>1, <3>6, <3>7, <3>8 DEF Next
  <2> QED
    BY <2>1, <2>2
<1>2. CASE UNCHANGED mirrorVars
  BY <1>2 DEF mirrorVars, vars, shared, crupier, ShownInv, Shown, Pending, PendingAmount,
              Untold, Full
<1> QED
  BY <1>1, <1>2

(***************************************************************************)
(* In any round that opens with an empty board, every client that was in   *)
(* at the opening shows the server's board, bet by bet, in whatever order  *)
(* the listeners place and tell them; what it does not show are players it *)
(* has no room for, on a box where the server has let in too many.         *)
(***************************************************************************)
THEOREM BoardsAgree == MirrorSpec => []BoardShown
<1>1. Init /\ MirrorInit => BaseInv /\ MirrorType /\ ShownInv
  <2>1. Init => BaseInv
    BY BaseInit
  <2>2. MirrorInit => MirrorType /\ ShownInv
    BY EmptyType DEF MirrorInit, MirrorType, ShownInv
  <2> QED
    BY <2>1, <2>2
<1>2. BaseInv /\ MirrorType /\ ShownInv /\ [Next /\ MirrorStep]_mirrorVars
        => BaseInv' /\ MirrorType' /\ ShownInv'
  BY BaseStep, MirrorTyped, ShownStep, MirrorNext
<1>3. BaseInv /\ MirrorType /\ ShownInv => BoardShown
  <2> SUFFICES ASSUME BaseInv, MirrorType, ShownInv, cpc \in Taking,
                      NEW p \in even, NEW b \in Box, NEW q \in Player \ Untold
               PROVE  \/ Stake(drawn[p], b, q) = Stake(bets, b, q)
                      \/ Overfull(b) /\ ~ HasBet(drawn[p], b, q)
    BY DEF BoardShown, Taking
  <2>1. Shown(p, b, q) /\ PendingAmount(b, q) = 0
    BY DEF ShownInv, Pending, PendingAmount
  <2>2. drawn[p] \in Boards /\ bets \in Boards
    BY DEF MirrorType, BaseInv, CoreInv, TypeOK
  <2>3. CASE Stake(drawn[p], b, q) + 0 = Stake(bets, b, q)
    BY <2>2, <2>3, StakeNat
  <2>4. CASE HasBet(bets, b, q) /\ ~ HasBet(drawn[p], b, q) /\ Full(p, b)
    <3>1. \A x \in Player : HasBet(drawn[p], b, x) => HasBet(bets, b, x)
      BY DEF ShownInv, Shown
    <3>2. /\ Bettors(drawn[p], b) \in SUBSET Bettors(bets, b)
          /\ q \in Bettors(bets, b) /\ q \notin Bettors(drawn[p], b)
      BY <2>4, <3>1 DEF Bettors
    <3>3. /\ Cardinality(Bettors(drawn[p], b)) <= Cardinality(Bettors(bets, b))
          /\ Cardinality(Bettors(drawn[p], b)) # Cardinality(Bettors(bets, b))
      BY <3>2, BettorsFinite, FS_Subset
    <3>4. MaxBets[b] \in Nat
      BY BoardAssumption
    <3> QED
      BY <2>4, <3>3, <3>4, BettorsFinite DEF Full, Overfull
  <2> QED
    BY <2>1, <2>3, <2>4 DEF Shown
<1> QED
  BY <1>1, <1>2, <1>3, PTL DEF MirrorSpec
=============================================================================
