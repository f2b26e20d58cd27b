------------------------------- MODULE Casino ------------------------------
(***************************************************************************)
(* The money of the roulette server: the main thread, which plays the      *)
(* croupier (server.cpp, Crupier.cpp), and one listener thread per         *)
(* connected client (RulaxServerConnectionManager::listenClient), working  *)
(* without locks on the same board, the same player table and the same     *)
(* streams.                                                                *)
(*                                                                         *)
(* Each step of a thread is one access to shared state: one call on a map  *)
(* of the board or of the player table, one send, one recv.  A member      *)
(* function that makes two such calls takes two steps.                     *)
(*                                                                         *)
(* Every client comes from its own host and its id is its descriptor.      *)
(***************************************************************************)
EXTENDS Board

CONSTANTS
  Number,        \* pockets of the wheel
  Covers,        \* box -> the numbers that make it win (Board::boxHasNumber)
  PayRate,       \* box -> pay rate
  MaxAmount,     \* MaxBet of server.cfg, 0 for no limit
  MaxPlayers,    \* MaxPlayers of server.cfg, 0 for no limit
  InitialFunds,  \* InitialFunds of server.cfg
  Budget,        \* InitialFunds * BudgetRate
  Amount,        \* the amounts clients bet
  Exits,         \* how clients leave: "esc" (CS_PLAYER_QUIT), "drop" (close)
  MaxSent,       \* bound: bets sent over one connection
  MaxHandled,    \* bound: bets handled for one connection before a reset arrives
  MaxSessions    \* bound: connections made with one descriptor

BetMessage == [type : {"bet"}, box : Box, amount : Amount]
ShortMessage == [type : {"ok", "join", "quit"}]
Message == BetMessage \cup ShortMessage

ASSUME CasinoAssumption ==
  /\ Covers \in [Box -> SUBSET Number]
  /\ Number # {}
  /\ PayRate \in [Box -> Nat]
  /\ MaxAmount \in Nat
  /\ MaxPlayers \in Nat
  /\ InitialFunds \in Nat
  /\ Budget \in Nat \ {0}
  /\ Amount \subseteq Nat
  /\ Exits \subseteq {"esc", "drop"}
  /\ MaxSent \in Nat /\ MaxHandled \in Nat /\ MaxSessions \in Nat
  /\ MaxHandled > MaxSent
  /\ Null \notin Message

VARIABLES
  \* shared
  players,      \* player table: funds, or Null when the id is not registered
  bets,         \* the server's board
  crashed,      \* a missing player was dereferenced; the process is gone
  \* croupier (main thread)
  cpc, cbox,
  winner,     \* the number payBets works with, Null when it is not running
  recollected, bancarrota, budget,
  purse,      \* the funds it has read and is about to overwrite
  \* listener threads
  lpc, msg, isConn,
  roster,     \* the copy of the player table a listener is sending
  held,       \* the funds a listener has read and is about to overwrite
  \* clients and the network
  peer, wire,
  input,      \* the clients at whose keyboard bets can be made
  dismissed,  \* the clients told to leave
  \* counters behind the bounds
  sent, handled, sessions

shared == <<players, bets, crashed>>
crupier == <<cpc, cbox, winner, recollected, bancarrota, budget, purse>>
keyboards == <<input, dismissed>>
counters == <<sent, handled, sessions>>
vars == <<shared, crupier, lpc, msg, isConn, roster, held, peer, wire,
          keyboards, counters>>

-----------------------------------------------------------------------------
CrupierPC ==
  {"wait", "start", "betting", "spin", "losers", "collect", "winners", "pay",
   "payWrite", "tellPaid", "clean", "broke", "expel"}

EnrolPC == {"enrol", "enrolRecv", "admit", "refuse", "insert"}
ServePC ==
  {"confirmJoin", "sendId", "tellNew", "list", "roll", "serve", "serveRecv",
   "check", "commit", "deny", "confirm", "bill", "billWrite",
   "tellBet", "tellFunds"}
LeavePC == {"depart", "delete", "close"}
ListenerPC == {"none"} \cup EnrolPC \cup ServePC \cup LeavePC

(***************************************************************************)
(* The client's end of a stream.  While it is open: not yet enrolled,      *)
(* awaiting a confirmation, at the keyboard, with the amount dialog open,  *)
(* or with nothing more to say.  Then closed; pinged, when the server has  *)
(* sent to it since; reset, when the answer to that has come in.  "leaked":*)
(* closeStream() found is_connected false and left the descriptor open, so *)
(* its number is never used again.                                         *)
(***************************************************************************)
OpenPeer == {"fresh", "waiting", "idle", "asking", "gone"}
EndedPeer == {"closed", "pinged", "reset"}
Peer == {"none", "leaked"} \cup OpenPeer \cup EndedPeer

Seated == {p \in Player : players[p] # Null}

\* The connections map: a stream stays in it until its listener erases it.
Connected == {p \in Player : lpc[p] # "none"}

Init ==
  /\ players = [p \in Player |-> Null]
  /\ bets = EmptyBoard
  /\ crashed = FALSE
  /\ cpc = "wait"
  /\ cbox = 0
  /\ winner = Null
  /\ recollected = {}
  /\ bancarrota = FALSE
  /\ budget = Budget
  /\ purse = 0
  /\ lpc = [p \in Player |-> "none"]
  /\ msg = [p \in Player |-> [type |-> "ok"]]
  /\ isConn = [p \in Player |-> FALSE]
  /\ peer = [p \in Player |-> "none"]
  /\ wire = [p \in Player |-> Null]
  /\ roster = [p \in Player |-> {}]
  /\ held = [p \in Player |-> 0]
  /\ input = {}
  /\ dismissed = {}
  /\ sent = [p \in Player |-> 0]
  /\ handled = [p \in Player |-> 0]
  /\ sessions = [p \in Player |-> 0]

-----------------------------------------------------------------------------
(***************************************************************************)
(* Sending (RulaxNetStream::operator<<).  Sends to a closed peer succeed   *)
(* until its reset is in, then they fail.  Every send overwrites           *)
(* is_connected, also for a stream whose listener has just seen the end of *)
(* the connection.                                                         *)
(***************************************************************************)
Pinged(S) == [p \in Player |->
  IF p \in S /\ peer[p] = "closed" THEN "pinged" ELSE peer[p]]

\* The result of send() not looked at.
SendToBlind(S) ==
  /\ isConn' = [p \in Player |-> p \in S \/ isConn[p]]
  /\ peer' = Pinged(S)

SendTo(S) ==
  /\ isConn' = [p \in Player |-> IF p \in S THEN peer[p] # "reset" ELSE isConn[p]]
  /\ peer' = Pinged(S)

Broadcast == SendTo(Connected)

\* A confirmation also lets the waiting client go on.
Answer(p, stage) ==
  /\ isConn' = [isConn EXCEPT ![p] = peer[p] # "reset"]
  /\ peer' = IF peer[p] = "waiting" THEN [peer EXCEPT ![p] = stage] ELSE Pinged({p})

-----------------------------------------------------------------------------
(***************************************************************************)
(* The croupier.                                                           *)
(***************************************************************************)
CrupierOnly == UNCHANGED <<lpc, msg, roster, held, wire, counters>>

WaitConnections ==
  /\ cpc = "wait"
  /\ Connected # {}
  /\ cpc' = "start"
  /\ CrupierOnly
  /\ UNCHANGED <<purse, shared, cbox, winner, recollected, bancarrota, budget,
                 isConn, peer, keyboards>>

(***************************************************************************)
(* The clients that have been told they are in enable their keyboard when  *)
(* they hear this; they disable it, some time later, when they hear that   *)
(* betting is over (HearStop).                                             *)
(***************************************************************************)
StartBets ==
  /\ cpc = "start"
  /\ cpc' = "betting"
  /\ Broadcast
  /\ input' = {p \in Player : lpc[p] \in ServePC \ {"confirmJoin"}} \ dismissed
  /\ CrupierOnly
  /\ UNCHANGED <<purse, shared, cbox, winner, recollected, bancarrota, budget, dismissed>>

StopBets ==
  /\ cpc = "betting"
  /\ cpc' = "spin"
  /\ Broadcast
  /\ CrupierOnly
  /\ UNCHANGED <<purse, shared, cbox, winner, recollected, bancarrota, budget, keyboards>>

Spin ==
  /\ cpc = "spin"
  /\ winner' \in Number
  /\ cpc' = "losers"
  /\ cbox' = 0
  /\ Broadcast
  /\ CrupierOnly
  /\ UNCHANGED <<purse, shared, recollected, bancarrota, budget, keyboards>>

\* The loop that never leaves its last box.
NextBoxForever(phase) ==
  /\ cbox' = (cbox + 1) % NumBoxes
  /\ cpc' = IF cbox = NumBoxes THEN phase ELSE cpc

\* A loop over the boxes: one box per step, then on to the next phase.
NextBoxOr(phase) ==
  /\ cbox' = (cbox + 1) % NumBoxes
  /\ cpc' = IF cbox + 1 = NumBoxes THEN phase ELSE cpc

GrabLosers ==
  /\ cpc = "losers"
  /\ NextBoxOr("collect")
  /\ \/ /\ winner \notin Covers[cbox]
        /\ recollected' = recollected \cup Slips(bets, cbox, 1)
        /\ bets' = Grabbed(bets, cbox)
     \/ /\ winner \in Covers[cbox]
        /\ UNCHANGED <<recollected, bets>>
  /\ CrupierOnly
  /\ UNCHANGED <<purse, players, crashed, winner, bancarrota, budget, isConn, peer,
                 keyboards>>

\* The winning boxes not told from the others.
GrabWinnersAll ==
  /\ cpc = "winners"
  /\ NextBoxOr("pay")
  /\ recollected' = recollected \cup Slips(bets, cbox, PayRate[cbox])
  /\ bets' = Grabbed(bets, cbox)
  /\ CrupierOnly
  /\ UNCHANGED <<purse, players, crashed, winner, bancarrota, budget, isConn, peer,
                 keyboards>>

\* Only the first of the losing stakes entered into the budget.
CollectFirst ==
  /\ cpc = "collect"
  /\ cpc' = "winners"
  /\ recollected' = {}
  /\ \/ \E s \in recollected : First(recollected, s) /\ budget' = budget + s.amount
     \/ recollected = {} /\ UNCHANGED budget
  /\ CrupierOnly
  /\ UNCHANGED <<purse, shared, cbox, winner, bancarrota, isConn, peer, keyboards>>

Collect ==
  /\ cpc = "collect"
  /\ \/ \E s \in recollected :
          /\ First(recollected, s)
          /\ budget' = budget + s.amount
          /\ recollected' = recollected \ {s}
          /\ UNCHANGED cpc
     \/ /\ recollected = {}
        /\ cpc' = "winners"
        /\ UNCHANGED <<budget, recollected>>
  /\ CrupierOnly
  /\ UNCHANGED <<purse, shared, cbox, winner, bancarrota, isConn, peer, keyboards>>

GrabWinners ==
  /\ cpc = "winners"
  /\ NextBoxOr("pay")
  /\ \/ /\ winner \in Covers[cbox]
        /\ recollected' = recollected \cup Slips(bets, cbox, PayRate[cbox])
        /\ bets' = Grabbed(bets, cbox)
     \/ /\ winner \notin Covers[cbox]
        /\ UNCHANGED <<recollected, bets>>
  /\ CrupierOnly
  /\ UNCHANGED <<purse, players, crashed, winner, bancarrota, budget, isConn, peer,
                 keyboards>>

(***************************************************************************)
(* One turn of the pay loop of Crupier::payBets.  The budget is charged    *)
(* first; if that empties it the round ends there, the rest unpaid.  A     *)
(* missing player is a null dereference.  His funds are read, increased    *)
(* and written back, as a listener's bill does, under no lock.             *)
(***************************************************************************)
\* A bank left with nothing taken for solvent.
BankruptsBelow(s) == budget - s.amount < 0

Bankrupts(s) == budget - s.amount <= 0

\* payBets returns.
RoundOver == cpc' = "clean" /\ winner' = Null

Pay ==
  /\ cpc = "pay"
  /\ \/ \E s \in recollected :
          /\ First(recollected, s)
          /\ budget' = budget - s.amount
          /\ \/ /\ Bankrupts(s)
                /\ bancarrota' = TRUE
                /\ recollected' = {}
                /\ RoundOver
                /\ UNCHANGED <<purse, crashed>>
             \/ /\ ~ Bankrupts(s)
                /\ players[s.player] # Null
                /\ purse' = players[s.player]
                /\ cpc' = "payWrite"
                /\ UNCHANGED <<recollected, bancarrota, winner, crashed>>
             \/ /\ ~ Bankrupts(s)
                /\ players[s.player] = Null
                /\ crashed' = TRUE
                /\ UNCHANGED <<purse, recollected, bancarrota, winner, cpc>>
     \/ /\ recollected = {}
        /\ RoundOver
        /\ UNCHANGED <<budget, purse, recollected, bancarrota, crashed>>
  /\ CrupierOnly
  /\ UNCHANGED <<players, bets, cbox, isConn, peer, keyboards>>

\* If the player was deleted meanwhile the write goes to freed memory.
PayWrite ==
  /\ cpc = "payWrite"
  /\ \E s \in recollected :
       /\ First(recollected, s)
       /\ players' = [players EXCEPT ![s.player] =
                        IF @ = Null THEN Null ELSE purse + s.amount]
  /\ purse' = 0
  /\ cpc' = "tellPaid"
  /\ CrupierOnly
  /\ UNCHANGED <<bets, crashed, cbox, winner, recollected, bancarrota, budget,
                 isConn, peer, keyboards>>

\* notifyPlayerFunds for the player just paid; his entry is done with.
TellPaid ==
  /\ cpc = "tellPaid"
  /\ \E s \in recollected :
       /\ First(recollected, s)
       /\ \/ /\ players[s.player] # Null
             /\ recollected' = recollected \ {s}
             /\ cpc' = "pay"
             /\ Broadcast
             /\ UNCHANGED crashed
          \/ /\ players[s.player] = Null
             /\ crashed' = TRUE
             /\ UNCHANGED <<recollected, cpc, isConn, peer>>
  /\ CrupierOnly
  /\ UNCHANGED <<purse, players, bets, cbox, winner, bancarrota, budget, keyboards>>

CleanBets ==
  /\ cpc = "clean"
  /\ NextBoxOr(IF bancarrota THEN "broke" ELSE "wait")
  /\ bets' = Grabbed(bets, cbox)
  /\ CrupierOnly
  /\ UNCHANGED <<purse, players, crashed, winner, recollected, bancarrota, budget,
                 isConn, peer, keyboards>>

NotifyBroke ==
  /\ cpc = "broke"
  /\ cpc' = "expel"
  /\ Broadcast
  /\ CrupierOnly
  /\ UNCHANGED <<purse, shared, cbox, winner, recollected, bancarrota, budget, keyboards>>

\* SC_PLAYERS_DISCONNECT to whoever is connected, then the funds are restored.
Expel ==
  /\ cpc = "expel"
  /\ cpc' = "wait"
  /\ Broadcast
  /\ dismissed' = dismissed \cup Connected
  /\ budget' = Budget
  /\ bancarrota' = FALSE
  /\ CrupierOnly
  /\ UNCHANGED <<purse, shared, cbox, winner, recollected, input>>

CrupierStep ==
  \/ WaitConnections \/ StartBets \/ StopBets \/ Spin \/ GrabLosers \/ Collect
  \/ GrabWinners \/ Pay \/ PayWrite \/ TellPaid \/ CleanBets \/ NotifyBroke \/ Expel

-----------------------------------------------------------------------------
(***************************************************************************)
(* A listener thread.  First the loop that waits for the enrolment.        *)
(***************************************************************************)
Goto(p, pc) == lpc' = [lpc EXCEPT ![p] = pc]

EnrolLoop(p) ==
  /\ lpc[p] = "enrol"
  /\ Goto(p, IF isConn[p] /\ msg[p].type # "quit" THEN "enrolRecv" ELSE "depart")
  /\ UNCHANGED <<shared, crupier, msg, isConn, roster, held, peer, wire, keyboards,
                 counters>>

\* Where the body of either loop goes after a recv, by the type of message.
Dispatch(p, m) ==
  /\ Goto(p, CASE lpc[p] = "enrolRecv" /\ m.type = "join" -> "admit"
               [] lpc[p] = "enrolRecv" /\ m.type # "join" -> "enrol"
               [] lpc[p] = "serveRecv" /\ m.type = "bet"  -> "check"
               [] lpc[p] = "serveRecv" /\ m.type # "bet"  -> "serve")
  /\ handled' = [handled EXCEPT ![p] =
       IF lpc[p] = "serveRecv" /\ m.type = "bet" THEN @ + 1 ELSE @]

RecvMessage(p) ==
  /\ lpc[p] \in {"enrolRecv", "serveRecv"}
  /\ wire[p] # Null
  /\ msg' = [msg EXCEPT ![p] = wire[p]]
  /\ wire' = [wire EXCEPT ![p] = Null]
  /\ isConn' = [isConn EXCEPT ![p] = TRUE]
  /\ Dispatch(p, wire[p])
  /\ UNCHANGED <<shared, crupier, roster, held, peer, keyboards, sent, sessions>>

\* A recv that does not wait.
RecvUnwaited(p) ==
  /\ lpc[p] \in {"enrolRecv", "serveRecv"}
  /\ wire[p] = Null
  /\ handled[p] < MaxHandled
  /\ isConn' = [isConn EXCEPT ![p] = FALSE]
  /\ Dispatch(p, msg[p])
  /\ UNCHANGED <<shared, crupier, msg, roster, held, peer, wire, keyboards, sent, sessions>>

(***************************************************************************)
(* The recv that finds the connection gone leaves the message buffer as it *)
(* was, and the body of the loop looks at the buffer, not at is_connected. *)
(***************************************************************************)
RecvEnd(p) ==
  /\ lpc[p] \in {"enrolRecv", "serveRecv"}
  /\ wire[p] = Null
  /\ peer[p] \in EndedPeer
  /\ handled[p] < MaxHandled \/ peer[p] = "reset"
  /\ isConn' = [isConn EXCEPT ![p] = FALSE]
  /\ Dispatch(p, msg[p])
  /\ UNCHANGED <<shared, crupier, msg, roster, held, peer, wire, keyboards, sent, sessions>>

\* PlayerManager::addPlayer, its test ...
HasRoom == MaxPlayers = 0 \/ Cardinality(Seated) <= MaxPlayers

Admit(p) ==
  /\ lpc[p] = "admit"
  /\ Goto(p, IF HasRoom THEN "insert" ELSE "refuse")
  /\ UNCHANGED <<shared, crupier, msg, isConn, roster, held, peer, wire, keyboards,
                 counters>>

\* ... and its insertion.
Insert(p) ==
  /\ lpc[p] = "insert"
  /\ players' = [players EXCEPT ![p] = InitialFunds]
  /\ Goto(p, "confirmJoin")
  /\ UNCHANGED <<bets, crashed, crupier, msg, isConn, roster, held, peer, wire,
                 keyboards, counters>>

\* connection_allowed left set after a refusal.
RefuseStays(p) ==
  /\ lpc[p] = "refuse"
  /\ Answer(p, "gone")
  /\ dismissed' = dismissed \cup {p}
  /\ Goto(p, "serve")
  /\ UNCHANGED <<shared, crupier, msg, roster, held, wire, input, counters>>

\* The refused player was never registered: only the stream is closed.
Refuse(p) ==
  /\ lpc[p] = "refuse"
  /\ Answer(p, "gone")
  /\ dismissed' = dismissed \cup {p}
  /\ Goto(p, "close")
  /\ UNCHANGED <<shared, crupier, msg, roster, held, wire, input, counters>>

ConfirmJoin(p) ==
  /\ lpc[p] = "confirmJoin"
  /\ Answer(p, "idle")
  /\ Goto(p, "sendId")
  /\ UNCHANGED <<shared, crupier, msg, roster, held, wire, keyboards, counters>>

\* The newcomer not announced.
SendIdOnly(p) ==
  /\ lpc[p] = "sendId"
  /\ SendTo({p})
  /\ Goto(p, "list")
  /\ UNCHANGED <<shared, crupier, msg, roster, held, wire, keyboards, counters>>

SendPlayerId(p) ==
  /\ lpc[p] = "sendId"
  /\ SendTo({p})
  /\ Goto(p, "tellNew")
  /\ UNCHANGED <<shared, crupier, msg, roster, held, wire, keyboards, counters>>

NotifyNewPlayer(p) ==
  /\ lpc[p] = "tellNew"
  /\ Broadcast
  /\ Goto(p, "list")
  /\ UNCHANGED <<shared, crupier, msg, roster, held, wire, keyboards, counters>>

\* sendPlayersList copies the table ...
CopyList(p) ==
  /\ lpc[p] = "list"
  /\ roster' = [roster EXCEPT ![p] = Seated \ {p}]
  /\ Goto(p, "roll")
  /\ UNCHANGED <<shared, crupier, msg, isConn, held, peer, wire, keyboards, counters>>

\* ... and looks up the names of the players in the copy.
CallRoll(p) ==
  /\ lpc[p] = "roll"
  /\ \/ /\ roster[p] \subseteq Seated
        /\ roster' = [roster EXCEPT ![p] = {}]
        /\ SendTo(IF roster[p] = {} THEN {} ELSE {p})
        /\ Goto(p, "serve")
        /\ UNCHANGED crashed
     \/ /\ ~ (roster[p] \subseteq Seated)
        /\ crashed' = TRUE
        /\ UNCHANGED <<roster, isConn, peer, lpc>>
  /\ UNCHANGED <<players, bets, crupier, msg, held, wire, keyboards, counters>>

-----------------------------------------------------------------------------
(***************************************************************************)
(* The loop that serves an enrolled player.                                *)
(***************************************************************************)
ServeLoop(p) ==
  /\ lpc[p] = "serve"
  /\ Goto(p, IF isConn[p] /\ msg[p].type # "quit" THEN "serveRecv" ELSE "depart")
  /\ UNCHANGED <<shared, crupier, msg, isConn, roster, held, peer, wire, keyboards,
                 counters>>

Check(p) ==
  /\ lpc[p] = "check"
  /\ Goto(p, IF Accepts(bets, MaxAmount, msg[p].box, p, msg[p].amount)
             THEN "commit" ELSE "deny")
  /\ UNCHANGED <<shared, crupier, msg, isConn, roster, held, peer, wire, keyboards,
                 counters>>

Commit(p) ==
  /\ lpc[p] = "commit"
  /\ bets' = Placed(bets, msg[p].box, p, msg[p].amount)
  /\ Goto(p, "confirm")
  /\ UNCHANGED <<players, crashed, crupier, msg, isConn, roster, held, peer, wire,
                 keyboards, counters>>

\* A denied bet not answered.
DenySilently(p) ==
  /\ lpc[p] = "deny"
  /\ Goto(p, "serve")
  /\ UNCHANGED <<shared, crupier, msg, isConn, roster, held, peer, wire, keyboards,
                 counters>>

\* The denial falling through to the acceptance.
DenyThenConfirm(p) ==
  /\ lpc[p] = "deny"
  /\ Answer(p, "idle")
  /\ Goto(p, "confirm")
  /\ UNCHANGED <<shared, crupier, msg, roster, held, wire, keyboards, counters>>

Deny(p) ==
  /\ lpc[p] = "deny"
  /\ Answer(p, "idle")
  /\ Goto(p, "serve")
  /\ UNCHANGED <<shared, crupier, msg, roster, held, wire, keyboards, counters>>

Confirm(p) ==
  /\ lpc[p] = "confirm"
  /\ Answer(p, "idle")
  /\ Goto(p, "bill")
  /\ UNCHANGED <<shared, crupier, msg, roster, held, wire, keyboards, counters>>

Bill(p) ==
  /\ lpc[p] = "bill"
  /\ held' = [held EXCEPT ![p] = players[p]]
  /\ Goto(p, "billWrite")
  /\ UNCHANGED <<shared, crupier, msg, isConn, roster, peer, wire, keyboards, counters>>

BillWrite(p) ==
  /\ lpc[p] = "billWrite"
  /\ players' = [players EXCEPT ![p] = held[p] - msg[p].amount]
  /\ held' = [held EXCEPT ![p] = 0]
  /\ Goto(p, "tellBet")
  /\ UNCHANGED <<bets, crashed, crupier, msg, isConn, roster, peer, wire, keyboards,
                 counters>>

NotifyNewBet(p) ==
  /\ lpc[p] = "tellBet"
  /\ Broadcast
  /\ Goto(p, "tellFunds")
  /\ UNCHANGED <<shared, crupier, msg, roster, held, wire, keyboards, counters>>

NotifyFunds(p) ==
  /\ lpc[p] = "tellFunds"
  /\ Broadcast
  /\ Goto(p, "serve")
  /\ UNCHANGED <<shared, crupier, msg, roster, held, wire, keyboards, counters>>

-----------------------------------------------------------------------------
\* A listener that returns early when its connection is gone.
DepartEarly(p) ==
  /\ lpc[p] = "depart"
  /\ \/ /\ isConn[p]
        /\ Broadcast
        /\ Goto(p, "delete")
     \/ /\ ~ isConn[p]
        /\ Goto(p, "none")
        /\ UNCHANGED <<isConn, peer>>
  /\ UNCHANGED <<shared, crupier, msg, roster, held, wire, keyboards, counters>>

(***************************************************************************)
(* Leaving.  The player's name is read for the farewell message: for a     *)
(* connection that ended before it enrolled, that is a null dereference.   *)
(* His bets stay on the board.                                             *)
(***************************************************************************)
Depart(p) ==
  /\ lpc[p] = "depart"
  /\ \/ /\ players[p] # Null
        /\ Broadcast
        /\ Goto(p, "delete")
        /\ UNCHANGED crashed
     \/ /\ players[p] = Null
        /\ crashed' = TRUE
        /\ UNCHANGED <<lpc, isConn, peer>>
  /\ UNCHANGED <<players, bets, crupier, msg, roster, held, wire, keyboards, counters>>

\* The loop entered once more after the player was deleted.
DeleteThenAgain(p) ==
  /\ lpc[p] = "delete"
  /\ players' = [players EXCEPT ![p] = Null]
  /\ Goto(p, IF isConn[p] THEN "serve" ELSE "close")
  /\ UNCHANGED <<bets, crashed, crupier, msg, isConn, roster, held, peer, wire,
                 keyboards, counters>>

Delete(p) ==
  /\ lpc[p] = "delete"
  /\ players' = [players EXCEPT ![p] = Null]
  /\ Goto(p, "close")
  /\ UNCHANGED <<bets, crashed, crupier, msg, isConn, roster, held, peer, wire,
                 keyboards, counters>>

\* closeStream() and the erasure from the connections map.
Close(p) ==
  /\ lpc[p] = "close"
  /\ peer' = [peer EXCEPT ![p] = IF isConn[p] THEN "none" ELSE "leaked"]
  /\ isConn' = [isConn EXCEPT ![p] = FALSE]
  /\ wire' = [wire EXCEPT ![p] = Null]
  /\ input' = input \ {p}
  /\ dismissed' = dismissed \ {p}
  /\ sent' = [sent EXCEPT ![p] = 0]
  /\ handled' = [handled EXCEPT ![p] = 0]
  /\ Goto(p, "none")
  /\ UNCHANGED <<shared, crupier, msg, roster, held, sessions>>

ListenerStep(p) ==
  \/ EnrolLoop(p) \/ RecvMessage(p) \/ RecvEnd(p)
  \/ Admit(p) \/ Insert(p) \/ Refuse(p) \/ ConfirmJoin(p)
  \/ SendPlayerId(p) \/ NotifyNewPlayer(p) \/ CopyList(p) \/ CallRoll(p)
  \/ ServeLoop(p) \/ Check(p) \/ Commit(p) \/ Deny(p) \/ Confirm(p)
  \/ Bill(p) \/ BillWrite(p) \/ NotifyNewBet(p) \/ NotifyFunds(p)
  \/ Depart(p) \/ Delete(p) \/ Close(p)

-----------------------------------------------------------------------------
(***************************************************************************)
(* The clients: what the client program may do to the server.              *)
(***************************************************************************)
ServerIdle == UNCHANGED <<shared, crupier, roster, held, handled>>

\* accept(), the new entry in the connections map and the listener thread.
Connect(p) ==
  /\ peer[p] = "none"
  /\ lpc[p] = "none"
  /\ sessions[p] < MaxSessions
  /\ sessions' = [sessions EXCEPT ![p] = @ + 1]
  /\ peer' = [peer EXCEPT ![p] = "fresh"]
  /\ isConn' = [isConn EXCEPT ![p] = TRUE]
  /\ msg' = [msg EXCEPT ![p] = [type |-> "ok"]]
  /\ Goto(p, "enrol")
  /\ ServerIdle
  /\ UNCHANGED <<wire, keyboards, sent>>

ClientSends(p, m, from, to) ==
  /\ peer[p] = from
  /\ wire[p] = Null
  /\ wire' = [wire EXCEPT ![p] = m]
  /\ peer' = [peer EXCEPT ![p] = to]
  /\ ServerIdle
  /\ UNCHANGED <<lpc, msg, isConn, keyboards, sessions>>

Join(p) ==
  /\ ClientSends(p, [type |-> "join"], "fresh", "waiting")
  /\ UNCHANGED sent

Dialog(p, from, to) ==
  /\ peer[p] = from
  /\ peer' = [peer EXCEPT ![p] = to]
  /\ ServerIdle
  /\ UNCHANGED <<lpc, msg, isConn, wire, keyboards, sent, sessions>>

\* The amount dialog opens only while input is enabled, and stays open.
Ask(p) == p \in input /\ sent[p] < MaxSent /\ Dialog(p, "idle", "asking")

\* The client finds its funds insufficient.
Decline(p) == Dialog(p, "asking", "idle")

Bet(p) ==
  /\ \E b \in Box, a \in Amount :
       ClientSends(p, [type |-> "bet", box |-> b, amount |-> a], "asking", "waiting")
  /\ sent' = [sent EXCEPT ![p] = @ + 1]

Esc(p) ==
  /\ "esc" \in Exits
  /\ p \in input
  /\ ClientSends(p, [type |-> "quit"], "idle", "gone")
  /\ UNCHANGED sent

\* Told to leave, or by force.
Hangup(p) ==
  /\ p \in dismissed \/ "drop" \in Exits
  /\ peer[p] \in OpenPeer
  /\ peer' = [peer EXCEPT ![p] = "closed"]
  /\ input' = input \ {p}
  /\ ServerIdle
  /\ UNCHANGED <<lpc, msg, isConn, wire, dismissed, sent, sessions>>

\* The end of betting reaches the client.
HearStop(p) ==
  /\ p \in input
  /\ cpc # "betting"
  /\ input' = input \ {p}
  /\ ServerIdle
  /\ UNCHANGED <<lpc, msg, isConn, peer, wire, dismissed, sent, sessions>>

\* The answer to what was sent to a closed client reaches the server.
Reset(p) ==
  /\ peer[p] = "pinged"
  /\ peer' = [peer EXCEPT ![p] = "reset"]
  /\ ServerIdle
  /\ UNCHANGED <<lpc, msg, isConn, wire, keyboards, sent, sessions>>

ClientStep(p) ==
  \/ Connect(p) \/ Join(p) \/ Ask(p) \/ Decline(p) \/ Bet(p) \/ Esc(p)
  \/ Hangup(p) \/ HearStop(p) \/ Reset(p)

-----------------------------------------------------------------------------
Next ==
  /\ ~ crashed
  /\ \/ CrupierStep
     \/ \E p \in Player : ListenerStep(p)
     \/ \E p \in Player : ClientStep(p)

Spec == Init /\ [][Next]_vars

(***************************************************************************)
(* The operating system runs every thread of the server (the pauses of the *)
(* croupier end); the network delivers what is on its way; a client that   *)
(* was told to leave closes its connection.  Users owe nothing.            *)
(***************************************************************************)
Fairness ==
  /\ WF_vars(~ crashed /\ CrupierStep)
  /\ \A p \in Player :
       /\ WF_vars(~ crashed /\ ListenerStep(p))
       /\ WF_vars(~ crashed /\ Reset(p))
       /\ WF_vars(~ crashed /\ p \in dismissed /\ Hangup(p))

FairSpec == Spec /\ Fairness

-----------------------------------------------------------------------------
TypeOK ==
  /\ players \in [Player -> Int \cup {Null}]
  /\ bets \in Boards
  /\ crashed \in BOOLEAN
  /\ cpc \in CrupierPC
  /\ cbox \in Box
  /\ winner \in Number \cup {Null}
  /\ recollected \subseteq Slip
  /\ bancarrota \in BOOLEAN
  /\ budget \in Int
  /\ lpc \in [Player -> ListenerPC]
  /\ msg \in [Player -> Message]
  /\ isConn \in [Player -> BOOLEAN]
  /\ purse \in Int
  /\ held \in [Player -> Int]
  /\ roster \in [Player -> SUBSET Player]
  /\ peer \in [Player -> Peer]
  /\ wire \in [Player -> Message \cup {Null}]
  /\ input \subseteq Player
  /\ dismissed \subseteq Player
  /\ sent \in [Player -> Nat]
  /\ handled \in [Player -> Nat]
  /\ sessions \in [Player -> Nat]

-----------------------------------------------------------------------------
(***************************************************************************)
(* Whatever order the listener and the croupier take, and whatever stale   *)
(* message is handled again, no player has more than MaxBet on a box: the  *)
(* room found by the test of Box::placeBet is still there at its           *)
(* assignment, because only his own listener adds to a player's stake.     *)
(***************************************************************************)
StakeWithinLimit ==
  MaxAmount # 0 => \A b \in Box, p \in Player : Stake(bets, b, p) <= MaxAmount

(***************************************************************************)
(* The bank is without money only between the payment that broke it and    *)
(* the restoring of its funds: no round is opened, and nobody is paid, by  *)
(* a bank that has nothing (payBets returning true, the loop of main).     *)
(***************************************************************************)
BankSolvent == budget <= 0 => bancarrota /\ cpc \in {"clean", "broke", "expel"}

(***************************************************************************)
(* payBets walks two collections held in one variable.  Even with bets     *)
(* arriving during the walk, what it takes for the bank comes from boxes   *)
(* that lost and what it pays from boxes that won.                         *)
(***************************************************************************)
SlipsMatchNumber ==
  /\ cpc = "collect" => \A s \in recollected : winner \notin Covers[s.box]
  /\ cpc \in {"pay", "payWrite",
       "tellPaid"} => \A s \in recollected : winner \in Covers[s.box]

(***************************************************************************)
(* A listener that serves a player finds him in the player table at every  *)
(* lookup it makes for him (bill, notifyNewBet, notifyPlayerFunds,         *)
(* notifyNewPlayer, sendPlayerId): the refusal of addPlayer and the        *)
(* deletion on leaving keep unregistered ids out of the serving loop.      *)
(***************************************************************************)
ServedIsSeated == \A p \in Player : lpc[p] \in ServePC => players[p] # Null

(***************************************************************************)
(* What the server owes each client (Service), read off its listener and   *)
(* the connection between them.  A client whose connection has ended is    *)
(* owed nothing; a question is one while it is on its way and until its    *)
(* answer is sent.                                                         *)
(***************************************************************************)
Quit == [type |-> "quit"]

ServiceStage(p) ==
  IF peer[p] \notin OpenPeer THEN "over" ELSE
  CASE lpc[p] \in EnrolPC \cup {"confirmJoin"} -> "unheard"
    [] lpc[p] \in {"sendId", "tellNew"} -> "confirmed"
    [] lpc[p] = "close" /\ msg[p] # Quit -> "refused"
    [] lpc[p] = "delete" -> "left"
    [] lpc[p] = "close" /\ msg[p] = Quit -> "left"
    [] OTHER -> "seated"

Question(p) ==
  IF peer[p] = "waiting" \/ (peer[p] = "gone" /\ lpc[p] \notin {"delete", "close"})
  THEN IF wire[p] # Null THEN wire[p] ELSE msg[p]
  ELSE Null

Debt(p) ==
  IF peer[p] \in OpenPeer /\ lpc[p] \in {"bill", "billWrite", "tellBet", "tellFunds"}
  THEN msg[p] ELSE Null

Served(p) == INSTANCE Service WITH
  Bets <- BetMessage, JoinQuestion <- [type |-> "join"], QuitQuestion <- Quit,
  stage <- ServiceStage(p), question <- Question(p), debt <- Debt(p)

(***************************************************************************)
(* The server serves each of its clients as Service says, whatever the     *)
(* others and the croupier do in between: in particular no confirmation is *)
(* sent to a client that is not waiting for one, which is what             *)
(* RulaxClientConnectionManager.cpp:90 relies on.                          *)
(***************************************************************************)
ServesEach ==
  /\ \A p \in Player : Served(p)!ServiceInit
  /\ [][\A p \in Player : [Served(p)!ServiceNext]_(Served(p)!serviceVars)]_vars

(***************************************************************************)
(* The recv that finds the connection gone leaves the last bet in the      *)
(* buffer, and the loop handles it once more, at each such recv.  No other *)
(* bet is ever handled twice: a client whose connection lasts is charged   *)
(* for the bets it sent and no others.                                     *)
(***************************************************************************)
RepeatsOnlyAtEnd ==
  \A p \in Player : handled[p] > sent[p] => peer[p] \in EndedPeer

(***************************************************************************)
(* The farewell looks up the name of its player.  The one listener that    *)
(* finds none there is that of a connection lost before the enrolment:     *)
(* refusals and second farewells, with a player deleted before, do not     *)
(* get there.                                                              *)
(***************************************************************************)
LostBeforeJoin ==
  \A p \in Player :
    lpc[p] = "depart" /\ players[p] = Null => peer[p] \in EndedPeer /\ msg[p].type = "ok"

(***************************************************************************)
(* Every round that was opened ends (notifyStartBets to cleanBets),        *)
(* however the clients bet meanwhile, unless the server crashes.           *)
(***************************************************************************)
RoundEnds == cpc = "betting" ~> (cpc \in {"wait", "broke"} \/ crashed)

(***************************************************************************)
(* A client that waits for a confirmation (waitConfirmation) gets it, or   *)
(* loses the connection.                                                   *)
(***************************************************************************)
BetAnswered ==
  \A p \in Player : peer[p] = "waiting" ~> (peer[p] # "waiting" \/ crashed)

(***************************************************************************)
(* Although every send overwrites what the listener learned from its recv, *)
(* the listener of a closed connection ends in the long run and its        *)
(* player leaves the table.                                                *)
(***************************************************************************)
ClosedIsRemoved ==
  \A p \in Player :
    peer[p] \in EndedPeer ~> ((lpc[p] = "none" /\ players[p] = Null) \/ crashed)

(***************************************************************************)
(* Everybody who was connected when the bank broke leaves.                 *)
(***************************************************************************)
DismissedLeaves ==
  \A p \in Player : p \in dismissed ~> (p \notin dismissed \/ crashed)

-----------------------------------------------------------------------------
(***************************************************************************)
(* What the documentation and the comments say, and the code does not do.  *)
(***************************************************************************)

\* README.client: Esc exits "in an elegant way".  The croupier does not
\* crash on the bets of a client that left.
EscIsElegant == crashed => cpc \notin {"pay", "tellPaid"}
=============================================================================
