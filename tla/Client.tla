------------------------------- MODULE Client ------------------------------
(***************************************************************************)
(* The client program on a network connection: its main thread             *)
(* (client.cpp), the thread that listens to the server (listenServer) and  *)
(* the thread of the keyboard (handleKeyboard), with the mutexes and       *)
(* conditions between them, and the server as far as this client meets it. *)
(*                                                                         *)
(* A critical section is one step: nobody sees the inside of it.  The one  *)
(* that lasts is the amount dialog, which keeps the screen until the user  *)
(* has answered (kpc = "dialog"); all drawing waits for it.                *)
(***************************************************************************)
EXTENDS Integers, Sequences

CONSTANTS
  Amount,        \* the amounts a user types
  InitialFunds,  \* what a new player is given
  Prize,         \* what the croupier pays at a time
  Null,          \* no value
  MaxRounds      \* bound: rounds the server opens

Confirmation == [type : {"ok", "no"}, re : {"join", "bet"}]
Account == [type : {"info", "funds"}, funds : Int]
Notice == [type : {"join", "start", "stop", "broke", "out", "gone"}]
Message == Confirmation \cup Account \cup Notice
Request == [type : {"join", "quit", "bet"}, amount : Amount \cup {0}]

ASSUME ClientAssumption ==
  /\ Amount \subseteq Nat
  /\ InitialFunds \in Nat
  /\ Prize \in Nat
  /\ Null \notin Int /\ Null \notin {"ok", "no"}
  /\ Null \notin Confirmation /\ Null \notin Request
  /\ MaxRounds \in Nat

VARIABLES
  \* the server
  stage,     \* of this client: unheard, confirmed, seated, refused, left
  phase,     \* of the round
  rounds,
  funds,     \* the player's funds
  debt,      \* a confirmed stake that is not billed yet
  verdict,   \* the answer to the last request
  \* the connection
  peer,      \* the server's end: open, closed, pinged (sent to since), reset
  request,   \* what the server has not read yet
  inbox,     \* what the client has not read yet
  conn,      \* is_connected
  closed,    \* closeStream() has closed the descriptor
  \* listenServer
  lpc, msg,
  last,      \* last_confirmation with what it responds to, Null once cleared
  asleep,    \* the threads waiting for confirmation_arrived
  mirror,    \* the funds of the local player in the client's table
  input,     \* input_enabled
  \* handleKeyboard
  kpc, key, stake,
  result,    \* what bet() or join() returned
  \* main
  mpc,
  \* history
  known,     \* the client has been told of itself
  late,      \* bets sent while input was disabled
  down       \* a missing player was dereferenced

server == <<stage, phase, rounds, funds, debt, verdict>>
wire == <<peer, request, inbox>>
stream == <<conn, closed>>
slot == <<last, asleep, result>>
screen == <<mirror, input>>
listener == <<lpc, msg>>
keyboard == <<kpc, key, stake>>
history == <<known, late, down>>
vars == <<server, wire, stream, slot, screen, listener, keyboard, mpc, history>>

-----------------------------------------------------------------------------
ListenerPC ==
  {"joinRecv", "joinStore", "joinWake", "judge", "recv", "handle", "draw",
   "wake", "enable", "farewell", "close", "ended"}
KeyboardPC ==
  {"none", "first", "loop", "held", "act", "dialog", "compare", "ask",
   "waiting", "told", "key", "ended"}
MainPC == {"start", "waiting", "joinK", "joinL", "done"}

Init ==
  /\ stage = "unheard"
  /\ phase = "idle"
  /\ rounds = 0
  /\ funds = InitialFunds
  /\ debt = Null
  /\ verdict = Null
  /\ peer = "open"
  /\ request = Null
  /\ inbox = <<>>
  /\ conn = TRUE
  /\ closed = FALSE
  /\ lpc = "joinRecv"
  /\ msg = [type |-> "join"]
  \* Not initialised by the constructor: main may find any answer there.
  /\ last \in {Null} \cup {[type |-> v, re |-> "join"] : v \in {"ok", "no"}}
  /\ asleep = {}
  /\ mirror = Null
  /\ input = FALSE
  /\ kpc = "none"
  /\ key = "none"
  /\ stake = 0
  /\ result = Null
  /\ mpc = "start"
  /\ known = FALSE
  /\ late = 0
  /\ down = FALSE

-----------------------------------------------------------------------------
(***************************************************************************)
(* The server: the listener of this client and the croupier.  Messages     *)
(* that only make the client draw (the winner, other players) are left out.*)
(***************************************************************************)
Tell(m) == inbox' = Append(inbox, m)

ServerOnly ==
  /\ peer = "open"
  /\ UNCHANGED <<stream, slot, screen, listener, keyboard, mpc, history>>

AnswerJoin ==
  /\ request # Null /\ request.type = "join"
  /\ stage = "unheard"
  /\ \E v \in {"ok", "no"} :
       /\ Tell([type |-> v, re |-> "join"])
       /\ stage' = IF v = "ok" THEN "confirmed" ELSE "refused"
  /\ request' = Null
  /\ ServerOnly
  /\ UNCHANGED <<phase, rounds, funds, debt, verdict, peer>>

\* sendPlayerId and notifyNewPlayer; a broadcast can come before them.
Introduce ==
  /\ stage = "confirmed"
  /\ stage' = "seated"
  /\ Tell([type |-> "info", funds |-> funds])
  /\ ServerOnly
  /\ UNCHANGED <<phase, rounds, funds, debt, verdict, peer, request>>

AnswerBet ==
  /\ request # Null /\ request.type = "bet"
  /\ stage = "seated"
  /\ debt = Null
  /\ \E v \in {"ok", "no"} :
       /\ Tell([type |-> v, re |-> "bet"])
       /\ \/ v = "ok" /\ debt' = request.amount
          \/ v = "no" /\ debt' = Null
       /\ verdict' = v
  /\ request' = Null
  /\ ServerOnly
  /\ UNCHANGED <<stage, phase, rounds, funds, peer>>

Bill ==
  /\ debt # Null
  /\ funds' = funds - debt
  /\ debt' = Null
  /\ Tell([type |-> "funds", funds |-> funds'])
  /\ ServerOnly
  /\ UNCHANGED <<stage, phase, rounds, verdict, peer, request>>

\* The farewell is broadcast to the leaving client as well.
AcceptQuit ==
  /\ request # Null /\ request.type = "quit"
  /\ stage = "seated"
  /\ debt = Null
  /\ stage' = "left"
  /\ request' = Null
  /\ Tell([type |-> "gone"])
  /\ ServerOnly
  /\ UNCHANGED <<phase, rounds, funds, debt, verdict, peer>>

Announce(from, to, m) ==
  /\ phase = from
  /\ phase' = to
  /\ Tell([type |-> m])
  /\ rounds' = IF m = "start" THEN rounds + 1 ELSE rounds
  /\ ServerOnly
  /\ UNCHANGED <<stage, funds, debt, verdict, peer, request>>

Pay ==
  /\ phase = "settle"
  /\ stage = "seated"
  /\ phase' = "idle"
  /\ funds' = funds + Prize
  /\ Tell([type |-> "funds", funds |-> funds'])
  /\ ServerOnly
  /\ UNCHANGED <<stage, rounds, debt, verdict, peer, request>>

Round ==
  \/ rounds < MaxRounds /\ Announce("idle", "betting", "start")
  \/ Announce("betting", "settle", "stop")
  \/ Announce("settle", "broke", "broke")
  \/ Announce("broke", "over", "out")
  \/ Pay

\* After a refusal or a farewell, or because the server ends.  The round is
\* none of this client's any more.
ServerCloses ==
  /\ peer' = "closed"
  /\ phase' = "over"
  /\ request' = Null
  /\ debt' = Null
  /\ ServerOnly
  /\ UNCHANGED <<stage, rounds, funds, verdict, inbox>>

\* The reset takes what the client had not read with it.
Reset ==
  /\ peer = "pinged"
  /\ peer' = "reset"
  /\ inbox' = <<>>
  /\ UNCHANGED <<server, request, stream, slot, screen, listener, keyboard, mpc, history>>

ServerListens ==
  \/ AnswerJoin \/ Introduce \/ AnswerBet \/ Bill \/ AcceptQuit
  \/ (stage \in {"refused", "left"} \/ closed) /\ ServerCloses

ServerStep == ServerListens \/ Round \/ ServerCloses

-----------------------------------------------------------------------------
(***************************************************************************)
(* Sending (RulaxNetStream::operator<<).  What follows a quit is not read; *)
(* anything else sent before its time would push out the request before it.*)
(***************************************************************************)
Resigned == stage = "left" \/ (request # Null /\ request.type = "quit")

Send(m) ==
  \/ /\ closed \/ peer = "reset"
     /\ conn' = FALSE
     /\ UNCHANGED <<peer, request>>
  \/ /\ ~ closed /\ peer = "open"
     /\ conn' = TRUE
     /\ request' = IF Resigned THEN request ELSE m
     /\ UNCHANGED peer
  \/ /\ ~ closed /\ peer \in {"closed", "pinged"}
     /\ conn' = TRUE
     /\ peer' = "pinged"
     /\ UNCHANGED request

\* The confirmation not cleared on return.
ReturnUncleared ==
  /\ result' = last.type
  /\ UNCHANGED last

(***************************************************************************)
(* join() and bet(): confirmation_mutex is held from before the send, so   *)
(* the answer cannot come in before the wait.  waitConfirmation() returns  *)
(* when the last confirmation is of the type it waits for, and resets it.  *)
(***************************************************************************)
Return ==
  /\ result' = last.type
  /\ last' = Null

Responds(type) == last # Null /\ last.re = type

AskServer(t, m) ==
  /\ Send(m)
  /\ \/ Responds(m.type) /\ Return /\ UNCHANGED asleep
     \/ /\ ~ Responds(m.type)
        /\ asleep' = asleep \cup {t}
        /\ result' = Null
        /\ UNCHANGED last
  /\ verdict' = Null

\* The loop around pthread_cond_wait.
Awake(t, type) ==
  /\ t \notin asleep
  /\ \/ Responds(type) /\ Return /\ UNCHANGED asleep
     \/ ~ Responds(type) /\ asleep' = asleep \cup {t} /\ UNCHANGED <<last, result>>

-----------------------------------------------------------------------------
(***************************************************************************)
(* main                                                                    *)
(***************************************************************************)
MainOnly == UNCHANGED <<screen, listener, keyboard, history, closed, inbox>>

MainGoesOn == mpc' = IF result' = Null THEN "waiting" ELSE
                       IF result' = "ok" THEN "joinK" ELSE "joinL"

JoinGame ==
  /\ mpc = "start"
  /\ AskServer("main", [type |-> "join", amount |-> 0])
  /\ MainGoesOn
  /\ MainOnly
  /\ UNCHANGED <<stage, phase, rounds, funds, debt>>

JoinWait ==
  /\ mpc = "waiting"
  /\ Awake("main", "join")
  /\ MainGoesOn
  /\ MainOnly
  /\ UNCHANGED <<server, peer, request, conn>>

ScreenFree == kpc # "dialog"

MainMoves(from, to) ==
  /\ mpc = from
  /\ mpc' = to
  /\ MainOnly
  /\ UNCHANGED <<server, slot, peer, request, conn>>

\* getThreadId waits until listenServer has started the interface.
JoinKeyboard == kpc = "ended" /\ MainMoves("joinK", "joinL")

JoinListener == lpc = "ended" /\ MainMoves("joinL", "done")

MainStep == JoinGame \/ JoinWait \/ JoinKeyboard \/ JoinListener

-----------------------------------------------------------------------------
(***************************************************************************)
(* listenServer                                                            *)
(***************************************************************************)
LGoto(label) == lpc' = label

\* The test of the loop, taken with the step before it.
Again == LGoto(IF conn /\ msg.type # "out" THEN "recv" ELSE "farewell")

ListenerOnly == UNCHANGED <<server, keyboard, mpc, result>>

LMoves(from, to) ==
  /\ lpc = from
  /\ LGoto(to)
  /\ ListenerOnly
  /\ UNCHANGED <<wire, stream, slot, screen, msg, known, late, down>>

LDone(from) ==
  /\ lpc = from
  /\ Again
  /\ ListenerOnly
  /\ UNCHANGED <<wire, stream, slot, screen, msg, known, late, down>>

(***************************************************************************)
(* recv().  When it fails the old message is left in the buffer, and       *)
(* handled once more.                                                      *)
(***************************************************************************)
Receive(from, to) ==
  /\ lpc = from
  /\ \/ /\ inbox # <<>>
        /\ msg' = Head(inbox)
        /\ inbox' = Tail(inbox)
        /\ conn' = TRUE
     \/ /\ inbox = <<>> /\ peer # "open"
        /\ conn' = FALSE
        /\ UNCHANGED <<msg, inbox>>
  /\ LGoto(to)
  /\ ListenerOnly
  /\ UNCHANGED <<peer, request, closed, slot, screen, known, late, down>>

IsConfirmation == msg.type \in {"ok", "no"}

\* Under confirmation_mutex; the broadcast follows its release.
Store(from, to) ==
  /\ lpc = from
  /\ IsConfirmation
  /\ last' = msg
  /\ LGoto(to)
  /\ ListenerOnly
  /\ UNCHANGED <<wire, stream, asleep, screen, msg, known, late, down>>

\* pthread_cond_signal in its place.
WakeOne ==
  /\ \/ asleep = {} /\ UNCHANGED asleep
     \/ \E t \in asleep : asleep' = asleep \ {t}
  /\ ListenerOnly
  /\ UNCHANGED <<wire, stream, last, screen, msg, known, late, down>>

Broadcast ==
  /\ asleep' = {}
  /\ ListenerOnly
  /\ UNCHANGED <<wire, stream, last, screen, msg, known, late, down>>

\* Until the answer to join() is in, or the connection at its end.
JoinLoop ==
  \/ Receive("joinRecv", "joinStore")
  \/ Store("joinStore", "joinWake")
  \/ /\ ~ IsConfirmation
     /\ LMoves("joinStore", IF conn /\ msg.type # "out" THEN "joinRecv" ELSE "judge")
  \/ lpc = "joinWake" /\ LGoto("judge") /\ Broadcast

\* startInterface() and the keyboard's thread, when the server has agreed.
Judge ==
  /\ lpc = "judge"
  /\ \/ msg.type = "ok" /\ Again /\ kpc' = "first"
     \/ msg.type # "ok" /\ LGoto("close") /\ UNCHANGED kpc
  /\ UNCHANGED <<server, wire, stream, slot, mirror, input, msg, key, stake, mpc,
                 history>>

\* Drawn before it is entered.
DrawFunds ==
  /\ lpc = "handle"
  /\ msg.type \in {"info", "funds"}
  /\ mirror' = msg.funds
  /\ known' = TRUE
  /\ down' = (mirror = Null)
  /\ LGoto("draw")
  /\ ListenerOnly
  /\ UNCHANGED <<wire, stream, slot, input, msg, late>>

\* The player's funds, as the server states them.
TakeFunds ==
  /\ lpc = "handle"
  /\ msg.type \in {"info", "funds"}
  /\ mirror' = msg.funds
  /\ known' = TRUE
  /\ LGoto("draw")
  /\ ListenerOnly
  /\ UNCHANGED <<wire, stream, slot, input, msg, late, down>>

TakeGone ==
  /\ lpc = "handle"
  /\ msg.type = "gone"
  /\ mirror' = Null
  /\ closed' = (closed \/ conn)
  /\ conn' = FALSE
  /\ LGoto("farewell")
  /\ ListenerOnly
  /\ UNCHANGED <<wire, slot, input, msg, known, late, down>>

(***************************************************************************)
(* The board is cleared and drawn, then the player's money: for a client   *)
(* not yet told of itself that is a null dereference.                      *)
(***************************************************************************)
TakeStart ==
  /\ lpc = "handle"
  /\ msg.type = "start"
  /\ ScreenFree
  /\ \/ mirror # Null /\ LGoto("enable") /\ UNCHANGED down
     \/ mirror = Null /\ down' = TRUE /\ UNCHANGED lpc
  /\ ListenerOnly
  /\ UNCHANGED <<wire, stream, slot, screen, msg, known, late>>

Enable ==
  /\ input' = TRUE
  /\ late' = 0
  /\ ListenerOnly
  /\ UNCHANGED <<wire, stream, slot, mirror, msg, known, down>>

\* Input is disabled first, then "NO VA MAS" is drawn.
TakeStop ==
  /\ lpc = "handle"
  /\ msg.type \in {"stop", "broke"}
  /\ input' = FALSE
  /\ LGoto("draw")
  /\ ListenerOnly
  /\ UNCHANGED <<wire, stream, slot, mirror, msg, known, late, down>>

\* The players' table, or a message in a window, redrawn.
Draw == ScreenFree /\ LDone("draw")

Serve ==
  \/ Receive("recv", "handle")
  \/ TakeFunds \/ TakeGone \/ TakeStart \/ TakeStop
  \/ msg.type = "out" /\ LDone("handle")
  \/ Draw
  \/ lpc = "enable" /\ Again /\ Enable
  \/ Store("handle", "wake")
  \/ lpc = "wake" /\ Again /\ Broadcast

CloseStream ==
  /\ lpc = "close"
  /\ closed' = (closed \/ conn)
  /\ conn' = FALSE
  /\ LGoto("ended")
  /\ ListenerOnly
  /\ UNCHANGED <<wire, slot, screen, msg, known, late, down>>

\* The keyboard not let go.
LeaveHeld ==
  \/ ScreenFree /\ LMoves("farewell", "close")
  \/ CloseStream

\* showDisconnected, then the keyboard is let go, then closeStream().
Leave ==
  \/ lpc = "farewell" /\ ScreenFree /\ LGoto("close") /\ Enable
  \/ CloseStream

ListenerStep == JoinLoop \/ Judge \/ Serve \/ Leave

-----------------------------------------------------------------------------
(***************************************************************************)
(* handleKeyboard                                                          *)
(***************************************************************************)
KGoto(label) == kpc' = label

KeyboardOnly == UNCHANGED <<screen, listener, mpc, known, closed, inbox>>

KMoves(from, to) ==
  /\ kpc = from
  /\ KGoto(to)
  /\ KeyboardOnly
  /\ UNCHANGED <<server, slot, peer, request, conn, stake, late, down>>

Presses(k) == key' = k /\ KMoves("key", "loop")

KeyPressed == \E k \in {"enter", "esc", "none"} : Presses(k)

\* The gate left out of the loop.
GateOnce ==
  \/ ~ conn /\ KMoves("loop", "ended") /\ UNCHANGED key
  \/ conn /\ key # "none" /\ KMoves("loop", "act") /\ UNCHANGED key
  \/ conn /\ key = "none" /\ KMoves("loop", "key") /\ UNCHANGED key

\* Past the condition only while input is enabled; a key from before is
\* dropped by the wait.  Nothing is done for it then.
Gate ==
  \/ ~ conn /\ KMoves("loop", "ended") /\ UNCHANGED key
  \/ conn /\ ~ input /\ KMoves("loop", "held") /\ key' = "none"
  \/ conn /\ input /\ key # "none" /\ KMoves("loop", "act") /\ UNCHANGED key
  \/ conn /\ input /\ key = "none" /\ KMoves("loop", "key") /\ UNCHANGED key
  \/ input /\ KMoves("held", "key") /\ UNCHANGED key

Resign ==
  /\ kpc = "act" /\ key = "esc"
  /\ Send([type |-> "quit", amount |-> 0])
  /\ KGoto("key")
  /\ key' = "none"
  /\ KeyboardOnly
  /\ UNCHANGED <<server, slot, stake, late, down>>

(***************************************************************************)
(* askForBet(): the dialog, the comparison with the funds as this client   *)
(* knows them, and bet().                                                  *)
(***************************************************************************)
AnswerDialog ==
  /\ kpc = "dialog"
  /\ stake' \in Amount
  /\ KGoto("compare")
  /\ KeyboardOnly
  /\ UNCHANGED <<server, slot, peer, request, conn, key, late, down>>

\* The funds not looked at.
CompareNothing ==
  /\ kpc = "compare"
  /\ KGoto("ask")
  /\ KeyboardOnly
  /\ UNCHANGED <<server, slot, peer, request, conn, key, stake, late, down>>

Compare ==
  /\ kpc = "compare"
  /\ \/ mirror = Null /\ down' = TRUE /\ UNCHANGED kpc
     \/ mirror # Null /\ KGoto(IF mirror < stake THEN "key" ELSE "ask") /\ UNCHANGED down
  /\ stake' = IF kpc' = "ask" THEN stake ELSE 0
  /\ KeyboardOnly
  /\ UNCHANGED <<server, slot, peer, request, conn, key, late>>

KeyboardGoesOn == KGoto(IF result' = Null THEN "waiting" ELSE "told")

\* bet() returning without its answer.
BetUnwaited ==
  /\ kpc = "ask"
  /\ AskServer("keyboard", [type |-> "bet", amount |-> stake])
  /\ late' = IF input THEN late ELSE late + 1
  /\ KGoto("told")
  /\ KeyboardOnly
  /\ UNCHANGED <<stage, phase, rounds, funds, debt, key, stake, down>>

Bet ==
  /\ kpc = "ask"
  /\ AskServer("keyboard", [type |-> "bet", amount |-> stake])
  /\ late' = IF input THEN late ELSE late + 1
  /\ KeyboardGoesOn
  /\ KeyboardOnly
  /\ UNCHANGED <<stage, phase, rounds, funds, debt, key, stake, down>>

BetWait ==
  /\ kpc = "waiting"
  /\ Awake("keyboard", "bet")
  /\ KeyboardGoesOn
  /\ KeyboardOnly
  /\ UNCHANGED <<server, peer, request, conn, key, stake, late, down>>

\* A denial is shown for a second.
BetOver ==
  /\ kpc = "told"
  /\ KGoto("key")
  /\ result' = Null
  /\ verdict' = Null
  /\ stake' = 0
  /\ KeyboardOnly
  /\ UNCHANGED <<stage, phase, rounds, funds, debt, last, asleep, peer, request, conn,
                 key, late, down>>

KeyboardStep ==
  \/ input /\ KMoves("first", "loop") /\ key' = "none"
  \/ Gate
  \/ key = "enter" /\ KMoves("act", "dialog") /\ key' = "none"
  \/ Resign \/ Compare \/ Bet \/ BetWait
  \/ BetOver

User == KeyPressed \/ AnswerDialog

-----------------------------------------------------------------------------
Running == mpc # "done" /\ ~ down

Next ==
  /\ Running
  /\ ServerStep \/ Reset \/ MainStep \/ ListenerStep \/ KeyboardStep \/ User

Spec == Init /\ [][Next]_vars

(***************************************************************************)
(* The threads of the client run, the server's listener answers, the reset *)
(* comes in; the user presses a key when asked to and answers the dialog.  *)
(* Who waits for the screen gets it: the user is not always in a dialog.   *)
(***************************************************************************)
Fairness ==
  /\ WF_vars(Running /\ MainStep)
  /\ SF_vars(Running /\ ListenerStep)
  /\ WF_vars(Running /\ KeyboardStep)
  /\ WF_vars(Running /\ User)
  /\ WF_vars(Running /\ Reset)
  /\ WF_vars(Running /\ ServerListens)

FairSpec == Spec /\ Fairness

-----------------------------------------------------------------------------
TypeOK ==
  /\ stage \in {"unheard", "confirmed", "seated", "refused", "left"}
  /\ phase \in {"idle", "betting", "settle", "broke", "over"}
  /\ rounds \in Nat
  /\ funds \in Int
  /\ debt = Null \/ debt \in Amount \cup {0}
  /\ verdict = Null \/ verdict \in {"ok", "no"}
  /\ peer \in {"open", "closed", "pinged", "reset"}
  /\ request = Null \/ request \in Request
  /\ inbox \in Seq(Message)
  /\ conn \in BOOLEAN /\ closed \in BOOLEAN
  /\ lpc \in ListenerPC
  /\ msg \in Message
  /\ last = Null \/ last \in Confirmation
  /\ asleep \subseteq {"main", "keyboard"}
  /\ mirror = Null \/ mirror \in Int
  /\ input \in BOOLEAN
  /\ kpc \in KeyboardPC
  /\ key \in {"none", "enter", "esc"}
  /\ stake \in Amount \cup {0}
  /\ result = Null \/ result \in {"ok", "no"}
  /\ mpc \in MainPC
  /\ known \in BOOLEAN /\ down \in BOOLEAN
  /\ late \in Nat

(***************************************************************************)
(* What the server owes this client (Service), and Casino's server each of *)
(* its own, while the server's end is open.                                *)
(***************************************************************************)
Asks(type, amount) == [type |-> type, amount |-> amount]

Served == INSTANCE Service WITH
  Bets <- {Asks("bet", a) : a \in Amount \cup {0}},
  JoinQuestion <- Asks("join", 0), QuitQuestion <- Asks("quit", 0),
  stage <- IF peer = "open" THEN stage ELSE "over",
  question <- request,
  debt <- IF debt = Null THEN Null ELSE Asks("bet", debt)

(***************************************************************************)
(* The client keeps to what the server counts on (Service), and what the   *)
(* server does for it is what Service promises: nothing is asked before    *)
(* the answer to the join, and no bet or quit while a request is still     *)
(* unanswered, whatever the main thread, the keyboard's and the end of     *)
(* betting do in between; each bet accepted is billed, that very bet,      *)
(* before the next one is answered.                                        *)
(***************************************************************************)
KeepsToService == Served!ServiceSpec

(***************************************************************************)
(* What bet() returns is the server's answer to this very bet, not one     *)
(* left over from the bet or the join before: the last confirmation is     *)
(* cleared on return and the mutex is taken before the send.  Only after   *)
(* the end of the connection, when the last message is handled again, can  *)
(* it be another.                                                          *)
(***************************************************************************)
AnswerIsTrue == kpc = "told" => result = verdict \/ peer # "open"

(***************************************************************************)
(* The client compares a bet with its copy of the funds, which lags behind *)
(* the server, and the server does not compare at all.  Since the bill of  *)
(* a bet is told before the next bet is confirmed, the copy lags by one    *)
(* stake at most, and no player overdraws his funds by more than that.     *)
(***************************************************************************)
OverdraftBounded == \E a \in Amount \cup {0} : funds + a >= 0

(***************************************************************************)
(* The dialog outlives the betting and holds the screen, so the message    *)
(* that betting is over hangs in its drawing.  Input is off by then: one   *)
(* bet at most goes out after it, until the next round opens.              *)
(***************************************************************************)
OneLateBet == late <= 1

(***************************************************************************)
(* The client dereferences missing players only at the edges: before it    *)
(* has been told of itself (a round opened between the confirmation and    *)
(* SC_PLAYERS_INFORMATION), or after its own farewell.                     *)
(***************************************************************************)
DownOnlyAtEdges == down => ~ known \/ stage = "left"

(***************************************************************************)
(* A bet is answered, or the connection has ended: the answer is found by  *)
(* the keyboard's thread however the broadcasts of the server and the      *)
(* drawing of the listener come in between.                                *)
(***************************************************************************)
Over == peer # "open" \/ closed

AnswerHeard == kpc = "waiting" ~> (kpc # "waiting" \/ Over \/ ~ Running)

(***************************************************************************)
(* Threads that the end of the connection leaves behind: one waiting for a *)
(* confirmation or for an interface that will not come, or the keyboard's, *)
(* whose send to the dead peer has set is_connected again.                 *)
(***************************************************************************)
Orphaned ==
  /\ lpc = "ended"
  /\ \/ kpc = "waiting" \/ mpc = "waiting"
     \/ kpc = "none" /\ mpc = "joinK"
     \/ kpc # "none" /\ conn

(***************************************************************************)
(* When the server goes away and the user goes on pressing keys, the       *)
(* client ends, unless one of its threads is orphaned.                     *)
(***************************************************************************)
ClientEnds == Over ~> (~ Running \/ Orphaned)
=============================================================================
