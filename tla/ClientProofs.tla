---------------------------- MODULE ClientProofs ---------------------------
(***************************************************************************)
(* For any amounts, funds and prizes and any number of rounds: the client  *)
(* sends one bet at most after betting is over, misses players only at the *)
(* edges of its game, returns the server's answer to this very bet, does   *)
(* not let its player overdraw his funds by more than a stake, and keeps   *)
(* to Service; and the answer to a bet reaches whoever waits for it.       *)
(*                                                                         *)
(* Two invariants carry the middle two.  AnswerInv follows the one answer to *)
(* a bet through the places it passes (inbox, buffer, last_confirmation)   *)
(* and says it is in one of them at most.  MoneyInv relates the copy that  *)
(* the client compares with to the account the server keeps, through the   *)
(* accounts on the wire: what is shown when a confirmation is read fits    *)
(* what was left after it.                                                 *)
(***************************************************************************)
EXTENDS Client, TLAPS

-----------------------------------------------------------------------------
\* A bet under way was let through the gate while input was enabled, and input
\* is enabled with the count at nought.
LateInv ==
  /\ late \in {0, 1}
  /\ input => late = 0
  /\ kpc \in {"act", "dialog", "compare", "ask"} => late = 0

LEMMA LateInit == Init => LateInv
BY DEF Init, LateInv

LEMMA LateKept ==
  ASSUME LateInv, UNCHANGED <<input, kpc, late>>
  PROVE  LateInv'
BY DEF LateInv

LEMMA LateServer ==
  ASSUME LateInv, ServerStep \/ Reset
  PROVE  LateInv'
<1>1. UNCHANGED <<input, kpc, late>>
  BY DEF ServerStep, ServerListens, Round, AnswerJoin, Introduce, AnswerBet, Bill, AcceptQuit,
    Announce, Pay, ServerCloses, ServerOnly, Reset, screen, keyboard, history
<1> QED
  BY <1>1, LateKept

LEMMA LateMain ==
  ASSUME LateInv, MainStep
  PROVE  LateInv'
<1>1. UNCHANGED <<input, kpc, late>>
  BY DEF MainStep, JoinGame, JoinWait, JoinKeyboard, JoinListener, MainMoves, MainOnly,
    screen, keyboard, history
<1> QED
  BY <1>1, LateKept

LEMMA LateListener ==
  ASSUME LateInv, ListenerStep
  PROVE  LateInv'
<1> USE DEF LateInv, ListenerOnly, screen, keyboard, history
<1>1. CASE JoinLoop
  BY <1>1 DEF JoinLoop, Receive, Store, LMoves, Broadcast
<1>2. CASE Judge
  BY <1>2 DEF Judge
<1>3. CASE Serve
  BY <1>3 DEF Serve, Receive, TakeFunds, TakeGone, TakeStart, TakeStop, Draw, LDone, Store,
    Enable, Broadcast
<1>4. CASE Leave
  BY <1>4 DEF Leave, Enable, CloseStream
<1> QED
  BY <1>1, <1>2, <1>3, <1>4 DEF ListenerStep

LEMMA LateKeyboard ==
  ASSUME LateInv, KeyboardStep \/ User
  PROVE  LateInv'
<1> USE DEF LateInv, KeyboardOnly, KMoves, KGoto, screen
<1>1. CASE KeyboardStep
  <2>1. CASE Bet
    BY <2>1 DEF Bet, KeyboardGoesOn
  <2>2. CASE ~ Bet
    BY <1>1, <2>2 DEF KeyboardStep, Gate, Resign, Compare, BetWait, BetOver, KeyboardGoesOn
  <2> QED
    BY <2>1, <2>2
<1>2. CASE User
  BY <1>2 DEF User, KeyPressed, Presses, AnswerDialog
<1> QED
  BY <1>1, <1>2

LEMMA LateStep == LateInv /\ [Next]_vars => LateInv'
<1>1. ASSUME LateInv, UNCHANGED vars PROVE LateInv'
  BY <1>1, LateKept DEF vars, screen, keyboard, history
<1> QED
  BY <1>1, LateServer, LateMain, LateListener, LateKeyboard DEF Next

(***************************************************************************)
(* Whatever the rounds and the user do, one bet at most goes out after     *)
(* betting is over.                                                        *)
(***************************************************************************)
THEOREM LateSafe == Spec => []OneLateBet
<1>1. LateInv => OneLateBet
  BY DEF LateInv, OneLateBet
<1> QED
  BY LateInit, LateStep, <1>1, PTL DEF Spec

-----------------------------------------------------------------------------
LEMMA MessageTypes ==
  /\ \A v \in {"ok", "no"}, t \in {"join", "bet"} :
       [type |-> v, re |-> t] \in Confirmation /\ [type |-> v, re |-> t] \in Message
  /\ \A t \in {"info", "funds"}, n \in Int : [type |-> t, funds |-> n] \in Message
  /\ \A t \in {"join", "start", "stop", "broke", "out", "gone"} : [type |-> t] \in Message
  /\ \A m \in Message : m.type \in {"ok", "no"} => m \in Confirmation
  /\ \A m \in Message : m.type \in {"info", "funds"} => m.funds \in Int
  /\ \A m \in Confirmation : m.type \in {"ok", "no"}
BY DEF Message, Confirmation, Account, Notice

LEMMA TypeInit == Init => TypeOK
<1> SUFFICES ASSUME Init PROVE TypeOK
  OBVIOUS
<1>1. msg \in Message /\ (last = Null \/ last \in Confirmation) /\ inbox \in Seq(Message)
  BY MessageTypes DEF Init
<1>2. funds \in Int /\ rounds \in Nat /\ late \in Nat
  BY ClientAssumption DEF Init
<1> QED
  BY <1>1, <1>2 DEF Init, TypeOK, ListenerPC, KeyboardPC, MainPC

LEMMA TypeTell ==
  ASSUME inbox \in Seq(Message), NEW m \in Message, Tell(m)
  PROVE  inbox' \in Seq(Message)
BY DEF Tell

LEMMA TypeBill ==
  ASSUME TypeOK, Bill
  PROVE  debt \in Nat /\ funds' \in Int
<1>0. debt \in Amount \cup {0}
  BY DEF TypeOK, Bill
<1>1. debt \in Nat
  BY <1>0, ClientAssumption
<1>2. funds \in Int /\ funds' = funds - debt
  BY DEF TypeOK, Bill
<1> QED
  BY <1>1, <1>2

LEMMA TypeServer ==
  ASSUME TypeOK, ServerStep \/ Reset
  PROVE  TypeOK'
<1> USE DEF TypeOK, ServerOnly, stream, slot, screen, listener, keyboard, history
<1>1. CASE AnswerJoin
  BY <1>1, MessageTypes, TypeTell DEF AnswerJoin
<1>2. CASE Introduce
  BY <1>2, MessageTypes, TypeTell DEF Introduce
<1>3. CASE AnswerBet
  BY <1>3, MessageTypes, TypeTell DEF AnswerBet, Request
<1>4. CASE Bill
  BY <1>4, TypeBill, MessageTypes, TypeTell DEF Bill
<1>5. CASE AcceptQuit
  BY <1>5, MessageTypes, TypeTell DEF AcceptQuit
<1>6. CASE Round
  <2>1. CASE Pay
    BY <2>1, ClientAssumption, MessageTypes, TypeTell DEF Pay
  <2>2. ASSUME NEW from, NEW to \in {"betting", "settle", "broke", "over"},
               NEW m \in {"start", "stop", "broke", "out"}, Announce(from, to, m)
        PROVE  TypeOK'
    <3>1. inbox' \in Seq(Message) /\ rounds' \in Nat
      BY <2>2, MessageTypes, TypeTell DEF Announce
    <3> QED
      BY <2>2, <3>1 DEF Announce
  <2> QED
    BY <1>6, <2>1, <2>2 DEF Round
<1>7. CASE ServerCloses
  BY <1>7 DEF ServerCloses
<1>8. CASE Reset
  BY <1>8 DEF Reset, server
<1> QED
  BY <1>1, <1>2, <1>3, <1>4, <1>5, <1>6, <1>7, <1>8 DEF ServerStep, ServerListens

LEMMA TypeSend ==
  ASSUME TypeOK, NEW m \in Request, Send(m)
  PROVE  /\ peer' \in {"open", "closed", "pinged", "reset"}
         /\ request' = Null \/ request' \in Request
         /\ conn' \in BOOLEAN
BY DEF TypeOK, Send

LEMMA TypeAsk ==
  ASSUME TypeOK, NEW t \in {"main", "keyboard"}, NEW m \in Request, AskServer(t, m)
  PROVE  /\ last' = Null \/ last' \in Confirmation
         /\ asleep' \subseteq {"main", "keyboard"}
         /\ result' = Null \/ result' \in {"ok", "no"}
         /\ verdict' = Null
BY MessageTypes DEF TypeOK, AskServer, Return, Responds

LEMMA TypeAwake ==
  ASSUME TypeOK, NEW t \in {"main", "keyboard"}, NEW r, Awake(t, r)
  PROVE  /\ last' = Null \/ last' \in Confirmation
         /\ asleep' \subseteq {"main", "keyboard"}
         /\ result' = Null \/ result' \in {"ok", "no"}
BY MessageTypes DEF TypeOK, Awake, Return, Responds

LEMMA TypeMain ==
  ASSUME TypeOK, MainStep
  PROVE  TypeOK'
<1> USE DEF TypeOK, MainOnly, MainGoesOn, MainPC, slot, screen, listener, keyboard, history
<1>1. CASE JoinGame
  <2>1. [type |-> "join", amount |-> 0] \in Request
    BY DEF Request
  <2> QED
    BY <1>1, <2>1, TypeAsk, TypeSend DEF JoinGame, AskServer
<1>2. CASE JoinWait
  BY <1>2, TypeAwake DEF JoinWait, server
<1>3. CASE JoinKeyboard \/ JoinListener
  <2>1. mpc' \in MainPC /\ UNCHANGED <<server, slot, screen, listener, keyboard, history>>
        /\ UNCHANGED <<peer, request, conn, closed, inbox>>
    BY <1>3 DEF JoinKeyboard, JoinListener, MainMoves
  <2> QED
    BY <2>1 DEF server
<1> QED
  BY <1>1, <1>2, <1>3 DEF MainStep

LEMMA TypeReceive ==
  ASSUME TypeOK, NEW from, NEW to \in ListenerPC, Receive(from, to)
  PROVE  TypeOK'
<1>0. conn' \in BOOLEAN
  BY DEF Receive
<1>1. inbox' \in Seq(Message) /\ msg' \in Message
  <2>1. inbox \in Seq(Message) /\ msg \in Message
    BY DEF TypeOK
  <2>2. CASE inbox # <<>> /\ msg' = Head(inbox) /\ inbox' = Tail(inbox)
    BY <2>1, <2>2
  <2>3. CASE UNCHANGED <<msg, inbox>>
    BY <2>1, <2>3
  <2> QED
    BY <2>2, <2>3 DEF Receive
<1>2. lpc' \in ListenerPC
  BY DEF Receive, LGoto
<1>3. UNCHANGED <<server, peer, request, closed, slot, screen, keyboard, mpc, history>>
  BY DEF Receive, ListenerOnly, slot, history
<1> QED
  BY <1>0, <1>1, <1>2, <1>3 DEF TypeOK, server, slot, screen, keyboard, history

\* What a listener's step that neither receives nor stores may change.
LEMMA TypeDrawn ==
  ASSUME TypeOK,
         UNCHANGED <<server, wire, msg, last, keyboard, mpc, result>>,
         asleep' \subseteq asleep,
         lpc' \in ListenerPC,
         conn' \in BOOLEAN, closed' \in BOOLEAN,
         mirror' = Null \/ mirror' \in Int, input' \in BOOLEAN,
         known' \in BOOLEAN, down' \in BOOLEAN, late' \in Nat
  PROVE  TypeOK'
<1>1. asleep' \subseteq {"main", "keyboard"}
  BY DEF TypeOK
<1> QED
  BY <1>1 DEF TypeOK, server, wire, keyboard

LEMMA TypeKept ==
  ASSUME TypeOK
  PROVE  /\ conn \in BOOLEAN /\ closed \in BOOLEAN
         /\ mirror = Null \/ mirror \in Int
         /\ input \in BOOLEAN
         /\ known \in BOOLEAN /\ down \in BOOLEAN /\ late \in Nat
BY DEF TypeOK

LEMMA TypeStore ==
  ASSUME TypeOK, NEW from, NEW to \in ListenerPC, Store(from, to)
  PROVE  TypeOK'
<1>1. last' = Null \/ last' \in Confirmation
  BY MessageTypes DEF TypeOK, Store, IsConfirmation
<1>2. lpc' \in ListenerPC
  BY DEF Store, LGoto
<1>3. UNCHANGED <<server, wire, stream, asleep, screen, msg, keyboard, mpc, result, history>>
  BY DEF Store, ListenerOnly, history
<1> QED
  BY <1>1, <1>2, <1>3 DEF TypeOK, server, wire, stream, screen, keyboard, history

LEMMA TypeListener ==
  ASSUME TypeOK, ListenerStep
  PROVE  TypeOK'
<1> USE DEF ListenerOnly, LGoto, ListenerPC, stream, slot, screen, history
<1>1. CASE JoinLoop
  <2>1. ASSUME NEW from, NEW to \in ListenerPC, LMoves(from, to) PROVE TypeOK'
    BY <2>1, TypeKept, TypeDrawn DEF LMoves
  <2>2. CASE lpc = "joinWake" /\ LGoto("judge") /\ Broadcast
    BY <2>2, TypeKept, TypeDrawn DEF Broadcast
  <2> QED
    BY <1>1, <2>1, <2>2, TypeReceive, TypeStore DEF JoinLoop
<1>2. CASE Judge
  <2>1. lpc' \in ListenerPC /\ kpc' \in KeyboardPC
    BY <1>2 DEF Judge, Again, KeyboardPC, TypeOK
  <2>2. UNCHANGED <<server, wire, stream, slot, screen, msg, key, stake, mpc, history>>
    BY <1>2 DEF Judge
  <2> QED
    BY <2>1, <2>2 DEF TypeOK, server, wire
<1>3. CASE Serve
  <2>1. CASE TakeFunds
    <3>1. mirror' \in Int
      BY <2>1, MessageTypes DEF TakeFunds, TypeOK
    <3> QED
      BY <2>1, <3>1, TypeKept, TypeDrawn DEF TakeFunds
  <2>2. CASE TakeGone
    <3>1. conn' \in BOOLEAN /\ closed' \in BOOLEAN
      BY <2>2, TypeKept DEF TakeGone
    <3> QED
      BY <2>2, <3>1, TypeKept, TypeDrawn DEF TakeGone
  <2>3. CASE TakeStart
    <3>1. lpc' \in ListenerPC /\ down' \in BOOLEAN
      BY <2>3, TypeKept DEF TakeStart, TypeOK
    <3> QED
      BY <2>3, <3>1, TypeKept, TypeDrawn DEF TakeStart
  <2>4. CASE TakeStop
    BY <2>4, TypeKept, TypeDrawn DEF TakeStop
  <2>5. ASSUME NEW from, LDone(from) PROVE TypeOK'
    BY <2>5, TypeKept, TypeDrawn DEF LDone, Again
  <2>6. CASE lpc = "enable" /\ Again /\ Enable
    BY <2>6, TypeKept, TypeDrawn DEF Again, Enable
  <2>7. CASE lpc = "wake" /\ Again /\ Broadcast
    BY <2>7, TypeKept, TypeDrawn DEF Again, Broadcast
  <2> QED
    BY <1>3, <2>1, <2>2, <2>3, <2>4, <2>5, <2>6, <2>7, TypeReceive, TypeStore
    DEF Serve, Draw
<1>4. CASE Leave
  <2>1. CASE LGoto("close") /\ Enable
    BY <2>1, TypeKept, TypeDrawn DEF Enable
  <2>2. CASE CloseStream
    <3>1. conn' \in BOOLEAN /\ closed' \in BOOLEAN
      BY <2>2, TypeKept DEF CloseStream
    <3> QED
      BY <2>2, <3>1, TypeKept, TypeDrawn DEF CloseStream
  <2> QED
    BY <1>4, <2>1, <2>2 DEF Leave
<1> QED
  BY <1>1, <1>2, <1>3, <1>4 DEF ListenerStep

\* What a step of the keyboard's thread that neither sends nor waits may change.
LEMMA TypePressed ==
  ASSUME TypeOK,
         UNCHANGED <<server, wire, stream, slot, screen, listener, mpc, known, late>>,
         kpc' \in KeyboardPC,
         key' \in {"none", "enter", "esc"},
         stake' \in Amount \cup {0},
         down' \in BOOLEAN
  PROVE  TypeOK'
BY DEF TypeOK, server, wire, stream, slot, screen, listener

LEMMA TypeMoves ==
  ASSUME TypeOK, NEW from, NEW to \in KeyboardPC, KMoves(from, to),
         key' \in {"none", "enter", "esc"}
  PROVE  TypeOK'
<1>1. stake' \in Amount \cup {0} /\ down' \in BOOLEAN /\ kpc' \in KeyboardPC
  BY DEF TypeOK, KMoves, KGoto
<1> QED
  BY <1>1, TypePressed DEF KMoves, KeyboardOnly, wire, stream

LEMMA TypeKeyboard ==
  ASSUME TypeOK, KeyboardStep \/ User
  PROVE  TypeOK'
<1> USE DEF KeyboardOnly, KeyboardGoesOn, KGoto, KeyboardPC
<1>0. key \in {"none", "enter", "esc"} /\ stake \in Amount \cup {0} /\ down \in BOOLEAN
      /\ kpc \in KeyboardPC
  BY DEF TypeOK
<1>1. CASE Gate
  BY <1>0, <1>1, TypeMoves DEF Gate
<1>2. CASE Resign
  <2>1. [type |-> "quit", amount |-> 0] \in Request
    BY DEF Request
  <2> QED
    BY <1>2, <2>1, TypeSend DEF Resign, TypeOK, server, slot, screen, listener
<1>3. CASE Compare
  <2>1. kpc' \in KeyboardPC /\ down' \in BOOLEAN /\ stake' \in Amount \cup {0}
    BY <1>0, <1>3 DEF Compare
  <2> QED
    BY <1>0, <1>3, <2>1, TypePressed DEF Compare, wire, stream
<1>4. CASE Bet
  <2>1. [type |-> "bet", amount |-> stake] \in Request
    BY <1>0 DEF Request
  <2> QED
    BY <1>4, <2>1, TypeAsk, TypeSend DEF Bet, AskServer, TypeOK, screen, listener
<1>5. CASE BetWait
  BY <1>5, TypeAwake DEF BetWait, TypeOK, server, screen, listener
<1>6. CASE BetOver
  BY <1>6 DEF BetOver, TypeOK, screen, listener
<1>7. CASE User
  <2>1. ASSUME NEW k \in {"enter", "esc", "none"}, Presses(k) PROVE TypeOK'
    BY <2>1, TypeMoves DEF Presses
  <2>2. CASE AnswerDialog
    BY <1>0, <2>2, TypePressed DEF AnswerDialog, wire, stream
  <2> QED
    BY <1>7, <2>1, <2>2 DEF User, KeyPressed
<1>8. ASSUME NEW from, NEW to \in {"loop", "dialog"}, KMoves(from, to), key' = "none"
      PROVE  TypeOK'
  BY <1>8, TypeMoves
<1> QED
  BY <1>1, <1>2, <1>3, <1>4, <1>5, <1>6, <1>7, <1>8 DEF KeyboardStep

LEMMA TypeStep == TypeOK /\ [Next]_vars => TypeOK'
<1>1. ASSUME TypeOK, UNCHANGED vars PROVE TypeOK'
  BY <1>1 DEF TypeOK, vars, server, wire, stream, slot, screen, listener, keyboard, history
<1> QED
  BY <1>1, TypeServer, TypeMain, TypeListener, TypeKeyboard DEF Next

(***************************************************************************)
(* Every variable keeps its type: nothing is stored as a confirmation that *)
(* is not one, and nothing is handled that the server does not send.       *)
(***************************************************************************)
THEOREM TypeSafe == Spec => []TypeOK
BY TypeInit, TypeStep, PTL DEF Spec

-----------------------------------------------------------------------------
\* The farewell to this client is nowhere before the server has let it go.
Present == {m \in Message : m.type # "gone"}

EdgeInv ==
  /\ stage # "left" => inbox \in Seq(Present) /\ msg \in Present
  /\ known /\ stage # "left" => mirror # Null
  /\ down => ~ known \/ stage = "left"

LEMMA EdgeInit == Init => EdgeInv
BY MessageTypes DEF Init, EdgeInv, Present

LEMMA EdgeKept ==
  ASSUME EdgeInv, UNCHANGED <<stage, inbox, msg, known, mirror, down>>
  PROVE  EdgeInv'
BY DEF EdgeInv

LEMMA EdgeTell ==
  ASSUME EdgeInv, TypeOK, NEW m \in Present, Tell(m), stage' # "left" => stage # "left",
         UNCHANGED <<msg, known, mirror, down>>
  PROVE  EdgeInv'
<1>1. ASSUME stage # "left" PROVE inbox' \in Seq(Present)
  BY <1>1 DEF EdgeInv, Tell
<1>2. down => ~ known \/ stage = "left"
  BY DEF EdgeInv
<1> QED
  BY <1>1, <1>2 DEF EdgeInv

LEMMA PresentMessages ==
  /\ \A v \in {"ok", "no"}, t \in {"join", "bet"} : [type |-> v, re |-> t] \in Present
  /\ \A t \in {"info", "funds"}, n \in Int : [type |-> t, funds |-> n] \in Present
  /\ \A t \in {"join", "start", "stop", "broke", "out"} : [type |-> t] \in Present
BY MessageTypes DEF Present

LEMMA EdgeServer ==
  ASSUME EdgeInv, TypeOK, ServerStep \/ Reset
  PROVE  EdgeInv'
<1> USE DEF ServerOnly, screen, listener, history
<1>1. CASE AnswerJoin
  BY <1>1, PresentMessages, EdgeTell DEF AnswerJoin
<1>2. CASE Introduce
  BY <1>2, PresentMessages, EdgeTell DEF Introduce, TypeOK
<1>3. CASE AnswerBet
  BY <1>3, PresentMessages, EdgeTell DEF AnswerBet
<1>4. CASE Bill
  <2>1. funds' \in Int
    BY <1>4, TypeBill
  <2> QED
    BY <1>4, <2>1, PresentMessages, EdgeTell DEF Bill
<1>5. CASE AcceptQuit
  BY <1>5 DEF AcceptQuit, EdgeInv
<1>6. CASE Round
  <2>1. CASE Pay
    <3>1. funds' \in Int
      BY <2>1, ClientAssumption DEF Pay, TypeOK
    <3> QED
      BY <2>1, <3>1, PresentMessages, EdgeTell DEF Pay
  <2>2. ASSUME NEW from, NEW to, NEW m \in {"start", "stop", "broke", "out"},
               Announce(from, to, m)
        PROVE  EdgeInv'
    BY <2>2, PresentMessages, EdgeTell DEF Announce
  <2> QED
    BY <1>6, <2>1, <2>2 DEF Round
<1>7. CASE ServerCloses
  BY <1>7, EdgeKept DEF ServerCloses
<1>8. CASE Reset
  BY <1>8 DEF Reset, EdgeInv, server
<1> QED
  BY <1>1, <1>2, <1>3, <1>4, <1>5, <1>6, <1>7, <1>8 DEF ServerStep, ServerListens

LEMMA EdgeMain ==
  ASSUME EdgeInv, MainStep
  PROVE  EdgeInv'
<1>1. UNCHANGED <<stage, inbox, msg, known, mirror, down>>
  BY DEF MainStep, JoinGame, JoinWait, JoinKeyboard, JoinListener, MainMoves, MainOnly, screen,
    listener, history, server
<1> QED
  BY <1>1, EdgeKept

LEMMA EdgeReceive ==
  ASSUME EdgeInv, NEW from, NEW to, Receive(from, to)
  PROVE  EdgeInv'
<1>1. UNCHANGED <<stage, known, mirror, down>>
  BY DEF Receive, ListenerOnly, server, screen
<1>2. ASSUME stage # "left" PROVE inbox' \in Seq(Present) /\ msg' \in Present
  <2>1. inbox \in Seq(Present) /\ msg \in Present
    BY <1>2 DEF EdgeInv
  <2>2. CASE inbox # <<>> /\ msg' = Head(inbox) /\ inbox' = Tail(inbox)
    BY <2>1, <2>2
  <2>3. CASE UNCHANGED <<msg, inbox>>
    BY <2>1, <2>3
  <2> QED
    BY <2>2, <2>3 DEF Receive
<1> QED
  BY <1>1, <1>2 DEF EdgeInv

LEMMA EdgeListener ==
  ASSUME EdgeInv, TypeOK, ~ down, ListenerStep
  PROVE  EdgeInv'
<1> USE DEF ListenerOnly, server, wire, screen, history
<1>1. ASSUME NEW from, NEW to, Store(from, to) \/ LMoves(from, to) PROVE EdgeInv'
  BY <1>1, EdgeKept DEF Store, LMoves
<1>2. CASE Broadcast \/ Enable \/ CloseStream \/ Judge \/ TakeStop
  BY <1>2, EdgeKept DEF Broadcast, Enable, CloseStream, Judge, TakeStop
<1>3. ASSUME NEW from, LDone(from) PROVE EdgeInv'
  BY <1>3, EdgeKept DEF LDone
<1>4. CASE TakeFunds
  <2>1. mirror' # Null
    BY <1>4, MessageTypes, ClientAssumption DEF TakeFunds, TypeOK
  <2> QED
    BY <1>4, <2>1 DEF TakeFunds, EdgeInv
<1>5. CASE TakeGone
  BY <1>5 DEF TakeGone, EdgeInv, Present
<1>6. CASE TakeStart
  BY <1>6 DEF TakeStart, EdgeInv
<1> QED
  BY <1>1, <1>2, <1>3, <1>4, <1>5, <1>6, EdgeReceive
  DEF ListenerStep, JoinLoop, Serve, Draw, Leave

LEMMA EdgeKeyboard ==
  ASSUME EdgeInv, ~ down, KeyboardStep \/ User
  PROVE  EdgeInv'
<1> USE DEF KeyboardOnly, server, screen, listener
<1>1. CASE Compare
  BY <1>1 DEF Compare, EdgeInv
<1>2. CASE Gate \/ Resign \/ Bet \/ BetWait \/ BetOver \/ User
  BY <1>2, EdgeKept DEF Gate, KMoves, Resign, Bet, BetWait, BetOver, User, KeyPressed, Presses,
    AnswerDialog
<1>3. ASSUME NEW from, NEW to, KMoves(from, to) PROVE EdgeInv'
  BY <1>3, EdgeKept DEF KMoves
<1> QED
  BY <1>1, <1>2, <1>3 DEF KeyboardStep

LEMMA EdgeStep == EdgeInv /\ TypeOK /\ [Next]_vars => EdgeInv'
<1>1. ASSUME EdgeInv, UNCHANGED vars PROVE EdgeInv'
  BY <1>1, EdgeKept DEF vars, server, wire, screen, listener, history
<1> QED
  BY <1>1, EdgeServer, EdgeMain, EdgeListener, EdgeKeyboard DEF Next, Running

(***************************************************************************)
(* Between the news of itself and its farewell, whatever is broadcast and  *)
(* however late it is read, the client dereferences no missing player.     *)
(***************************************************************************)
THEOREM EdgesSafe == Spec => []DownOnlyAtEdges
<1>1. EdgeInv => DownOnlyAtEdges
  BY DEF EdgeInv, DownOnlyAtEdges
<1> QED
  BY TypeInit, TypeStep, EdgeInit, EdgeStep, <1>1, PTL DEF Spec
-----------------------------------------------------------------------------
(***************************************************************************)
(* The one answer of the server to a bet, on its way to the keyboard.      *)
(***************************************************************************)
\* Nothing is answered before the join is, and no key read.
Silent == {m \in Message : m.type \notin {"ok", "no"}}

StartInv ==
  /\ mpc = "start" => stage = "unheard" /\ request = Null
  /\ stage = "unheard" => inbox \in Seq(Silent) /\ msg \in Silent /\ kpc = "none"
  /\ lpc \in {"joinRecv", "joinStore", "joinWake", "judge"} => kpc = "none"
  /\ lpc \in {"recv", "handle", "draw", "wake", "enable", "farewell"} => kpc # "none"

BetAnswer(m) == m.type \in {"ok", "no"} /\ m.re = "bet"

\* The places an answer to a bet passes through.
Coming(i) == BetAnswer(inbox[i])
Read == lpc \in {"joinStore", "handle"} /\ BetAnswer(msg)
Stored == last # Null /\ last.re = "bet"

Unanswered == (\A i \in 1 .. Len(inbox) : ~ Coming(i)) /\ ~ Read /\ ~ Stored

Asked == request # Null /\ request.type = "bet"

AnswerInv ==
  /\ kpc # "waiting" => Unanswered /\ ~ Asked
  /\ Asked => verdict = Null /\ Unanswered
  /\ \A i \in 1 .. Len(inbox) :
       Coming(i) => /\ inbox[i].type = verdict
                    /\ ~ Read /\ ~ Stored
                    /\ \A j \in 1 .. Len(inbox) : Coming(j) => j = i
  /\ Read => msg.type = verdict /\ ~ Stored
  /\ Stored => last.type = verdict
  /\ kpc = "told" => result = verdict
  /\ kpc = "waiting" /\ "keyboard" \notin asleep => Stored
  /\ lpc = "wake" => kpc = "waiting" /\ Stored /\ "keyboard" \in asleep

\* The one answer to the join is read before the keyboard's thread is there.
JoinAnswer(m) == m.type \in {"ok", "no"} /\ m.re = "join"

JoinInv ==
  /\ \A i \in 1 .. Len(inbox) :
       JoinAnswer(inbox[i]) => /\ kpc = "none" /\ ~ IsConfirmation
                               /\ \A j \in 1 .. Len(inbox) : JoinAnswer(inbox[j]) => j = i
  /\ lpc = "handle" /\ IsConfirmation => msg.re = "bet"
  /\ kpc = "told" => last = Null

-----------------------------------------------------------------------------
(***************************************************************************)
(* What each process leaves alone.                                         *)
(***************************************************************************)
LEMMA ServerLeaves ==
  ASSUME ServerStep \/ Reset
  PROVE  /\ peer = "open" \/ Reset
         /\ UNCHANGED <<conn, closed, last, asleep, result, mirror, input, lpc, msg, kpc, key, stake, mpc>>
BY DEF ServerStep, ServerListens, Round, AnswerJoin, Introduce, AnswerBet, Bill, AcceptQuit, Announce,
   Pay, ServerCloses, ServerOnly, Reset, stream, slot, screen, listener, keyboard

LEMMA MainLeaves ==
  ASSUME MainStep
  PROVE  UNCHANGED <<stage, phase, rounds, funds, debt, closed, inbox, mirror, input, lpc, msg, kpc, key,
                     stake>>
BY DEF MainStep, JoinGame, JoinWait, JoinKeyboard, JoinListener, MainMoves, MainOnly, server, screen,
   listener, keyboard

LEMMA ListenerLeaves ==
  ASSUME ListenerStep
  PROVE  UNCHANGED <<stage, phase, rounds, funds, debt, verdict, peer, request, result, key, stake, mpc>>
<1> USE DEF server, wire, slot, keyboard, ListenerOnly
<1>1. CASE JoinLoop
  BY <1>1 DEF JoinLoop, Receive, Store, LMoves, Broadcast
<1>2. CASE Judge
  BY <1>2 DEF Judge
<1>3. CASE Serve
  BY <1>3 DEF Serve, Receive, TakeFunds, TakeGone, TakeStart, TakeStop, Draw, LDone, Enable, Store,
     Broadcast
<1>4. CASE Leave
  BY <1>4 DEF Leave, Enable, CloseStream
<1> QED
  BY <1>1, <1>2, <1>3, <1>4 DEF ListenerStep

LEMMA KeyboardLeaves ==
  ASSUME KeyboardStep \/ User
  PROVE  /\ kpc # "none" /\ kpc' # "none"
         /\ UNCHANGED <<stage, phase, rounds, funds, debt, closed, inbox, mirror, input, lpc, msg, mpc>>
<1> USE DEF server, screen, listener, KeyboardOnly, KMoves, KGoto, KeyboardGoesOn
<1>1. CASE Gate
  BY <1>1 DEF Gate
<1>2. CASE Resign \/ Compare \/ Bet \/ BetWait \/ BetOver
  BY <1>2 DEF Resign, Compare, Bet, BetWait, BetOver
<1>3. CASE User
  BY <1>3 DEF User, KeyPressed, Presses, AnswerDialog
<1>4. ASSUME NEW from \in {"first", "act"}, NEW to \in {"loop", "dialog"}, KMoves(from, to)
      PROVE  kpc # "none" /\ kpc' # "none" /\ UNCHANGED <<stage, phase, rounds, funds, debt, closed, inbox, mirror, input,
                                         lpc, msg, mpc>>
  BY <1>4
<1> QED
  BY <1>1, <1>2, <1>3, <1>4 DEF KeyboardStep

LEMMA SendLeaves ==
  ASSUME NEW m, Send(m)
  PROVE  /\ peer' = "open" => peer = "open"
         /\ request' \in {request, m}
BY DEF Send

\* A connection that has ended does not come back.
LEMMA PeerStays ==
  ASSUME [Next]_vars, peer' = "open"
  PROVE  peer = "open"
<1>1. CASE UNCHANGED vars
  BY <1>1 DEF vars, wire
<1>2. CASE ServerStep \/ Reset
  BY <1>2, ServerLeaves DEF Reset
<1>3. CASE MainStep
  BY <1>3, SendLeaves DEF MainStep, JoinGame, AskServer, JoinWait, JoinKeyboard, JoinListener, MainMoves
<1>4. CASE ListenerStep
  BY <1>4, ListenerLeaves
<1>5. CASE KeyboardStep \/ User
  <2>1. CASE Resign \/ Bet
    BY <2>1, SendLeaves DEF Resign, Bet, AskServer
  <2>2. CASE Gate \/ Compare \/ BetWait \/ BetOver \/ User
    BY <2>2 DEF Gate, KMoves, Compare, BetWait, BetOver, User, KeyPressed, Presses, AnswerDialog
  <2>3. ASSUME NEW from, NEW to, KMoves(from, to) PROVE peer = "open"
    BY <2>3 DEF KMoves
  <2> QED
    BY <1>5, <2>1, <2>2, <2>3 DEF KeyboardStep
<1> QED
  BY <1>1, <1>2, <1>3, <1>4, <1>5 DEF Next

LEMMA Told ==
  ASSUME TypeOK, NEW m, Tell(m)
  PROVE  /\ Len(inbox) \in Nat /\ Len(inbox') = Len(inbox) + 1
         /\ \A i \in 1 .. Len(inbox) : inbox'[i] = inbox[i]
         /\ inbox'[Len(inbox) + 1] = m
BY DEF TypeOK, Tell

LEMMA Received ==
  ASSUME TypeOK, inbox # <<>>, inbox' = Tail(inbox)
  PROVE  /\ Len(inbox) \in Nat /\ Len(inbox) >= 1 /\ Len(inbox') = Len(inbox) - 1
         /\ \A i \in 1 .. Len(inbox') : inbox'[i] = inbox[i + 1]
         /\ Head(inbox) = inbox[1]
BY DEF TypeOK

-----------------------------------------------------------------------------
LEMMA StartInit == Init => StartInv
BY MessageTypes DEF Init, StartInv, Silent, Message, Notice

LEMMA SilentMessages ==
  /\ \A t \in {"info", "funds"}, n \in Int : [type |-> t, funds |-> n] \in Silent
  /\ \A t \in {"join", "start", "stop", "broke", "out", "gone"} : [type |-> t] \in Silent
BY MessageTypes DEF Silent

LEMMA StartServer ==
  ASSUME TypeOK, StartInv, ServerStep \/ Reset
  PROVE  StartInv'
<1>1. UNCHANGED <<lpc, msg, kpc, mpc>>
  BY ServerLeaves
<1>2. CASE Reset
  BY <1>1, <1>2 DEF Reset, StartInv, server
<1>3. ASSUME NEW m \in Silent, Tell(m), stage' = "unheard" => stage = "unheard",
             mpc = "start" => stage' = stage /\ request' = request
      PROVE  StartInv'
  <2>1. stage' = "unheard" => inbox' \in Seq(Silent)
    BY <1>3 DEF StartInv, Tell
  <2> QED
    BY <1>1, <1>3, <2>1 DEF StartInv
<1>4. CASE AnswerJoin
  BY <1>1, <1>4 DEF AnswerJoin, StartInv
<1>5. CASE Introduce
  BY <1>3, <1>5, SilentMessages DEF Introduce, TypeOK, StartInv
<1>6. CASE AnswerBet
  BY <1>1, <1>6 DEF AnswerBet, StartInv
<1>7. CASE Bill
  <2>1. funds' \in Int
    BY <1>7, TypeBill
  <2> QED
    BY <1>3, <1>7, <2>1, SilentMessages DEF Bill
<1>8. CASE AcceptQuit
  BY <1>3, <1>8, SilentMessages DEF AcceptQuit, StartInv
<1>9. CASE Pay
  <2>1. funds' \in Int
    BY <1>9, ClientAssumption DEF Pay, TypeOK
  <2> QED
    BY <1>3, <1>9, <2>1, SilentMessages DEF Pay
<1>10. ASSUME NEW from, NEW to, NEW m \in {"start", "stop", "broke", "out"}, Announce(from, to, m)
       PROVE  StartInv'
  BY <1>3, <1>10, SilentMessages DEF Announce
<1>11. CASE ServerCloses
  BY <1>1, <1>11 DEF ServerCloses, StartInv
<1> QED
  BY <1>2, <1>4, <1>5, <1>6, <1>7, <1>8, <1>9, <1>10, <1>11 DEF ServerStep, ServerListens, Round

LEMMA StartListener ==
  ASSUME TypeOK, StartInv, ListenerStep
  PROVE  StartInv'
<1>1. UNCHANGED <<stage, request, mpc>>
  BY ListenerLeaves
<1>2. ASSUME NEW to \in ListenerPC, LGoto(to), UNCHANGED <<inbox, msg, kpc>>,
             to \in {"joinRecv", "joinStore", "joinWake", "judge"} =>
               lpc \in {"joinRecv", "joinStore", "joinWake", "judge"},
             to \in {"recv", "handle", "draw", "wake", "enable", "farewell"} =>
               lpc \in {"recv", "handle", "draw", "wake", "enable", "farewell"}
      PROVE  StartInv'
  BY <1>1, <1>2 DEF StartInv, LGoto
<1>3. ASSUME Receive("joinRecv", "joinStore") \/ Receive("recv", "handle") PROVE StartInv'
  <2>1. ASSUME stage = "unheard" PROVE inbox' \in Seq(Silent) /\ msg' \in Silent
    <3>1. inbox \in Seq(Silent) /\ msg \in Silent
      BY <2>1 DEF StartInv
    <3>2. CASE inbox # <<>> /\ msg' = Head(inbox) /\ inbox' = Tail(inbox)
      BY <3>1, <3>2
    <3>3. CASE UNCHANGED <<msg, inbox>>
      BY <3>1, <3>3
    <3> QED
      BY <1>3, <3>2, <3>3 DEF Receive
  <2>2. UNCHANGED kpc
        /\ ((lpc' = "joinStore" /\ lpc = "joinRecv") \/ (lpc' = "handle" /\ lpc = "recv"))
    <3>1. ASSUME NEW from, NEW to, Receive(from, to) PROVE UNCHANGED kpc /\ lpc = from /\ lpc' = to
      BY <3>1 DEF Receive, LGoto, ListenerOnly, keyboard
    <3> QED
      BY <1>3, <3>1
  <2> QED
    BY <1>1, <2>1, <2>2 DEF StartInv
<1> USE DEF ListenerOnly, wire, listener, keyboard, ListenerPC
<1>4. CASE JoinLoop
  BY <1>2, <1>3, <1>4 DEF JoinLoop, Store, LMoves, LGoto, Broadcast
<1>5. CASE Judge
  <2>1. lpc' \notin {"joinRecv", "joinStore", "joinWake", "judge"} /\ UNCHANGED <<inbox, msg>>
    BY <1>5 DEF Judge, Again, LGoto
  <2>2. kpc' # kpc => stage # "unheard"
    BY <1>5 DEF Judge, StartInv, Silent
  <2>3. lpc' # "close" => kpc' # "none"
    BY <1>5 DEF Judge, LGoto
  <2> QED
    BY <1>1, <2>1, <2>2, <2>3 DEF StartInv
<1>6. CASE Serve
  <2>1. CASE TakeFunds \/ TakeGone \/ TakeStart \/ TakeStop
    <3>1. UNCHANGED <<inbox, msg, kpc>> /\ lpc = "handle"
      BY <2>1 DEF TakeFunds, TakeGone, TakeStart, TakeStop
    <3>2. lpc' \in {"draw", "farewell", "enable", "handle"}
      BY <2>1 DEF TakeFunds, TakeGone, TakeStart, TakeStop, LGoto
    <3> QED
      BY <1>2, <3>1, <3>2 DEF LGoto
  <2>2. CASE Serve /\ Again
    BY <1>2, <2>2 DEF Serve, Receive, Again, LGoto, LDone, Draw, Enable, Broadcast, Store,
       TakeFunds, TakeGone, TakeStart, TakeStop
  <2>3. CASE Store("handle", "wake")
    BY <1>2, <2>3 DEF Store
  <2>4. ASSUME NEW from, LDone(from) PROVE Again
    BY <2>4 DEF LDone
  <2> QED
    BY <1>3, <1>6, <2>1, <2>2, <2>3, <2>4 DEF Serve, Draw
<1>7. CASE Leave
  BY <1>2, <1>7 DEF Leave, Enable, CloseStream
<1> QED
  BY <1>4, <1>5, <1>6, <1>7 DEF ListenerStep

LEMMA StartStep == TypeOK /\ StartInv /\ [Next]_vars => StartInv'
<1> SUFFICES ASSUME TypeOK, StartInv, [Next]_vars PROVE StartInv'
  OBVIOUS
<1>1. CASE UNCHANGED vars
  BY <1>1 DEF vars, server, wire, listener, keyboard, StartInv
<1>2. CASE MainStep
  <2>1. mpc' = "start" => mpc = "start" /\ UNCHANGED request
    BY <1>2 DEF MainStep, JoinGame, MainGoesOn, JoinWait, JoinKeyboard, JoinListener, MainMoves
  <2>2. UNCHANGED <<stage, inbox, msg, kpc, lpc>>
    BY <1>2, MainLeaves
  <2> QED
    BY <2>1, <2>2 DEF StartInv
<1>3. CASE KeyboardStep \/ User
  <2>1. kpc # "none" /\ kpc' # "none" /\ UNCHANGED <<stage, inbox, msg, lpc, mpc>>
    BY <1>3, KeyboardLeaves
  <2> QED
    BY <2>1 DEF StartInv
<1> QED
  BY <1>1, <1>2, <1>3, StartServer, StartListener DEF Next

-----------------------------------------------------------------------------
LEMMA AnswerInit == Init => AnswerInv
BY ClientAssumption DEF Init, AnswerInv, Unanswered, Asked, Read, Stored, Coming, BetAnswer

LEMMA AnswerKept ==
  ASSUME AnswerInv, UNCHANGED <<inbox, msg, verdict>>, kpc = "told" => UNCHANGED result,
         Read' => Read,
         last' = last \/ (~ Stored /\ ~ Stored'),
         Asked' => Asked,
         "keyboard" \in asleep => "keyboard" \in asleep',
         lpc' = "wake" => lpc = "wake",
         kpc' = kpc \/ {kpc, kpc'} \cap {"waiting", "told"} = {}
  PROVE  AnswerInv'
<1>1. /\ \A i \in 1 .. Len(inbox) : Coming(i)' = Coming(i)
      /\ Stored' = Stored /\ (Stored => last' = last)
  BY DEF Coming, Stored
<1>2. Unanswered => Unanswered'
  BY <1>1 DEF Unanswered
<1>3. kpc' # "waiting" => kpc # "waiting"
  OBVIOUS
<1> QED
  BY <1>1, <1>2, <1>3 DEF AnswerInv

\* Any other message told.
LEMMA AnswerTold ==
  ASSUME TypeOK, AnswerInv, NEW m, Tell(m), ~ BetAnswer(m),
         UNCHANGED <<lpc, msg, last, verdict, kpc, result, asleep>>, Asked' => Asked
  PROVE  AnswerInv'
<1>1. /\ Len(inbox) \in Nat /\ Len(inbox') = Len(inbox) + 1
      /\ \A i \in 1 .. Len(inbox') : Coming(i)' => i \in 1 .. Len(inbox) /\ Coming(i) /\ inbox'[i] = inbox[i]
  BY Told DEF Coming
<1>2. Read' = Read /\ Stored' = Stored
  BY DEF Read, Stored
<1>3. Unanswered => Unanswered'
  BY <1>1, <1>2 DEF Unanswered
<1>4. ASSUME NEW i \in 1 .. Len(inbox'), Coming(i)'
      PROVE  /\ inbox'[i].type = verdict'
             /\ ~ Read' /\ ~ Stored'
             /\ \A j \in 1 .. Len(inbox') : Coming(j)' => j = i
  BY <1>1, <1>2, <1>4 DEF AnswerInv
<1> QED
  BY <1>2, <1>3, <1>4 DEF AnswerInv

LEMMA AnswerServer ==
  ASSUME TypeOK, AnswerInv, ServerStep
  PROVE  AnswerInv'
<1>1. UNCHANGED <<lpc, msg, last, kpc, result, asleep>>
  BY ServerLeaves
<1>2. ASSUME NEW m, Tell(m), m.type \notin {"ok", "no"} \/ m.re # "bet", UNCHANGED verdict,
             request' \in {request, Null}
      PROVE  AnswerInv'
  BY <1>1, <1>2, AnswerTold DEF BetAnswer, Asked
<1>3. CASE AnswerJoin
  BY <1>2, <1>3 DEF AnswerJoin
<1>4. CASE Introduce \/ Bill \/ AcceptQuit \/ Pay
  BY <1>2, <1>4 DEF Introduce, Bill, AcceptQuit, Pay
<1>5. ASSUME NEW from, NEW to, NEW m \in {"start", "stop", "broke", "out"}, Announce(from, to, m)
      PROVE  AnswerInv'
  BY <1>2, <1>5 DEF Announce
<1>6. CASE ServerCloses
  <2>1. ~ Asked'
    BY <1>6 DEF ServerCloses, Asked
  <2>2. Read' = Read /\ UNCHANGED <<inbox, verdict>>
    BY <1>1, <1>6 DEF ServerCloses, Read
  <2> QED
    BY <1>1, <2>1, <2>2, AnswerKept
<1>7. CASE AnswerBet
  <2>1. PICK v \in {"ok", "no"} : Tell([type |-> v, re |-> "bet"]) /\ verdict' = v
    BY <1>7 DEF AnswerBet
  <2>2. Unanswered /\ Asked /\ ~ Asked'
    BY <1>7 DEF AnswerBet, AnswerInv, Asked
  <2>3. /\ Len(inbox) \in Nat /\ Len(inbox') = Len(inbox) + 1
        /\ \A i \in 1 .. Len(inbox) : ~ Coming(i)'
        /\ inbox'[Len(inbox')].type = v
    BY <2>1, <2>2, Told DEF Coming, Unanswered
  <2>4. kpc = "waiting" /\ ~ Read' /\ ~ Stored'
    BY <1>1, <2>2 DEF AnswerInv, Unanswered, Read, Stored
  <2>5. \A i \in 1 .. Len(inbox') : Coming(i)' => i = Len(inbox')
    BY <2>3
  <2>6. "keyboard" \in asleep' /\ lpc' # "wake" /\ kpc' = "waiting"
    BY <1>1, <2>2, <2>4 DEF AnswerInv, Unanswered
  <2>7. verdict' = v
    BY <2>1
  <2> QED
    BY <2>2, <2>3, <2>4, <2>5, <2>6, <2>7 DEF AnswerInv
<1> QED
  BY <1>3, <1>4, <1>5, <1>6, <1>7 DEF ServerStep, ServerListens, Round

LEMMA AnswerMain ==
  ASSUME TypeOK, StartInv, AnswerInv, JoinInv, MainStep
  PROVE  AnswerInv'
<1>1. UNCHANGED <<inbox, lpc, msg, kpc>> /\ Read' = Read
  BY MainLeaves DEF Read
<1>2. CASE JoinGame
  <2>1. kpc = "none" /\ AskServer("main", [type |-> "join", amount |-> 0])
    BY <1>2 DEF JoinGame, StartInv
  <2>2. Unanswered /\ ~ Asked
    BY <2>1 DEF AnswerInv
  <2>3. ~ Asked'
    BY <2>1, <2>2, SendLeaves DEF AskServer, Asked
  <2>4. ~ Stored'
    BY <2>1, <2>2 DEF AskServer, Return, Unanswered, Stored
  <2>5. Unanswered'
    BY <1>1, <2>2, <2>4 DEF Unanswered, Coming
  <2> QED
    BY <1>1, <2>1, <2>3, <2>5 DEF AnswerInv, Unanswered
<1>3. CASE JoinWait
  <2>1. UNCHANGED <<request, verdict>> /\ (last' = last \/ (last' = Null /\ ~ Stored))
    <3>1. UNCHANGED <<request, verdict>> /\ Awake("main", "join")
      BY <1>3 DEF JoinWait, server
    <3>2. Responds("join") => ~ Stored
      BY DEF Responds, Stored
    <3> QED
      BY <3>1, <3>2 DEF Awake, Return
  <2>3. "keyboard" \in asleep => "keyboard" \in asleep'
    BY <1>3 DEF JoinWait, Awake
  <2>2. kpc = "told" => UNCHANGED result
    BY <1>3 DEF JoinWait, Awake, Responds, JoinInv
  <2> QED
    BY <1>1, <2>1, <2>2, <2>3, AnswerKept DEF Asked, Stored
<1>4. CASE JoinKeyboard \/ JoinListener
  <2>1. UNCHANGED <<request, verdict, last, result, asleep>>
    BY <1>4 DEF JoinKeyboard, JoinListener, MainMoves, server, slot
  <2> QED
    BY <1>1, <2>1, AnswerKept DEF Asked
<1> QED
  BY <1>2, <1>3, <1>4 DEF MainStep

LEMMA AnswerListener ==
  ASSUME TypeOK, StartInv, AnswerInv, JoinInv, ListenerStep, peer = "open"
  PROVE  AnswerInv'
<1>1. UNCHANGED <<verdict, request, result>> /\ Asked' = Asked
  BY ListenerLeaves DEF Asked
<1>2. ASSUME lpc' \notin {"joinStore", "handle", "wake"} \/ lpc' = lpc,
             UNCHANGED <<inbox, msg, last, asleep>>,
             kpc' = kpc \/ {kpc, kpc'} \cap {"waiting", "told"} = {}
      PROVE  AnswerInv'
  BY <1>1, <1>2, AnswerKept DEF Read
<1> USE DEF ListenerOnly, wire, slot, listener, keyboard
<1>3. ASSUME NEW from \in {"joinRecv", "recv"}, NEW to \in {"joinStore", "handle"}, Receive(from, to)
      PROVE  AnswerInv'
  <2>1. inbox # <<>> /\ msg' = Head(inbox) /\ inbox' = Tail(inbox) /\ UNCHANGED <<last, kpc, asleep>>
        /\ lpc = from /\ lpc' = to
    BY <1>3 DEF Receive, LGoto
  <2>2. /\ Len(inbox) \in Nat /\ Len(inbox) >= 1 /\ Len(inbox') = Len(inbox) - 1
        /\ \A i \in 1 .. Len(inbox') : inbox'[i] = inbox[i + 1]
        /\ msg' = inbox[1]
    BY <2>1, Received
  <2>3. ~ Read /\ (Read' <=> Coming(1)) /\ Stored' = Stored
    BY <2>1, <2>2 DEF Read, Stored, Coming
  <2>4. \A i \in 1 .. Len(inbox') : Coming(i)' <=> Coming(i + 1)
    BY <2>2 DEF Coming
  <2>5. 1 \in 1 .. Len(inbox) /\ \A i \in 1 .. Len(inbox') : i + 1 \in 1 .. Len(inbox)
    BY <2>2
  <2>6. Unanswered => Unanswered'
    BY <2>3, <2>4, <2>5 DEF Unanswered
  <2>7. Read' => msg'.type = verdict' /\ ~ Stored'
    BY <1>1, <2>2, <2>3, <2>5 DEF AnswerInv
  <2>8. ASSUME NEW i \in 1 .. Len(inbox'), Coming(i)'
        PROVE  /\ inbox'[i].type = verdict'
               /\ ~ Read' /\ ~ Stored'
               /\ \A j \in 1 .. Len(inbox') : Coming(j)' => j = i
    <3>1. Coming(i + 1) /\ i + 1 \in 1 .. Len(inbox)
      BY <2>4, <2>5, <2>8
    <3>2. inbox[i + 1].type = verdict /\ ~ Stored /\ \A j \in 1 .. Len(inbox) : Coming(j) => j = i + 1
      BY <3>1 DEF AnswerInv
    <3>3. ~ Coming(1)
      BY <2>2, <2>5, <3>2
    <3>4. \A j \in 1 .. Len(inbox') : Coming(j)' => j = i
      BY <2>2, <2>4, <2>5, <3>2
    <3> QED
      BY <1>1, <2>2, <2>3, <3>2, <3>3, <3>4
  <2> QED
    BY <1>1, <2>1, <2>3, <2>6, <2>7, <2>8 DEF AnswerInv
<1>4. ASSUME NEW from, NEW to, Store(from, to),
             (from = "joinStore" /\ to = "joinWake") \/ (from = "handle" /\ to = "wake")
      PROVE  AnswerInv'
  <2>1. /\ lpc = from /\ lpc' = to /\ last' = msg /\ IsConfirmation
        /\ UNCHANGED <<inbox, msg, kpc, asleep>>
    BY <1>4 DEF Store, LGoto
  <2>2. ~ Read' /\ \A i \in 1 .. Len(inbox) : Coming(i)' = Coming(i)
    BY <1>4, <2>1 DEF Read, Coming
  <2>3. Stored' => Read
    BY <1>4, <2>1 DEF Stored, Read, BetAnswer, IsConfirmation
  <2>4. Unanswered => Unanswered'
    BY <2>1, <2>2, <2>3 DEF Unanswered
  <2>5. CASE from = "handle"
    <3>0. msg.re = "bet" /\ msg # Null
      BY <2>1, <2>5, MessageTypes, ClientAssumption DEF JoinInv, IsConfirmation, TypeOK
    <3>1. Read /\ Stored'
      BY <2>1, <2>5, <3>0 DEF IsConfirmation, Read, BetAnswer, Stored
    <3>2. kpc = "waiting" /\ "keyboard" \in asleep
      BY <3>1 DEF AnswerInv, Unanswered
    <3>3. /\ kpc' = "waiting" /\ ~ Asked' /\ ~ Read' /\ last'.type = verdict'
          /\ \A i \in 1 .. Len(inbox) : ~ Coming(i)'
      BY <1>1, <2>1, <2>2, <3>1, <3>2 DEF AnswerInv, Unanswered
    <3> QED
      BY <2>1, <3>1, <3>2, <3>3 DEF AnswerInv
  <2>6. CASE from = "joinStore"
    <3>1. kpc = "none"
      BY <2>1, <2>6 DEF StartInv
    <3>2. lpc' = "joinWake"
      BY <1>4, <2>1, <2>6
    <3>3. Unanswered' /\ ~ Asked' /\ kpc' = "none"
      BY <1>1, <2>1, <2>4, <3>1 DEF AnswerInv
    <3> QED
      BY <3>2, <3>3 DEF AnswerInv, Unanswered
  <2> QED
    BY <1>4, <2>5, <2>6
<1>5. CASE JoinLoop
  <2>1. CASE lpc = "joinWake" /\ LGoto("judge") /\ Broadcast
    <3>1. kpc = "none" /\ ~ Read' /\ UNCHANGED <<inbox, msg, last, kpc>> /\ lpc' = "judge"
      BY <2>1 DEF StartInv, LGoto, Broadcast, Read
    <3>2. Unanswered'
      BY <3>1 DEF AnswerInv, Unanswered, Coming, Stored
    <3> QED
      BY <1>1, <3>1, <3>2 DEF AnswerInv, Unanswered
  <2>2. CASE ~ IsConfirmation /\ LMoves("joinStore", IF conn /\ msg.type # "out" THEN "joinRecv" ELSE "judge")
    BY <1>2, <2>2 DEF LMoves, LGoto
  <2>3. CASE Receive("joinRecv", "joinStore")
    BY <1>3, <2>3
  <2>4. CASE Store("joinStore", "joinWake")
    BY <1>4, <2>4
  <2> QED
    BY <1>5, <2>1, <2>2, <2>3, <2>4 DEF JoinLoop
<1>6. CASE Judge
  <2>1. kpc = "none" /\ kpc' \in {"none", "first"}
    BY <1>6 DEF Judge, StartInv
  <2>2. lpc' \in {"recv", "farewell", "close"} /\ UNCHANGED <<inbox, msg, last, asleep>>
    BY <1>6 DEF Judge, Again, LGoto
  <2> QED
    BY <1>2, <2>1, <2>2
<1>7. CASE Serve
  <2>1. CASE TakeFunds \/ TakeGone \/ TakeStart \/ TakeStop
    BY <1>2, <2>1 DEF TakeFunds, TakeGone, TakeStart, TakeStop, LGoto
  <2>2. CASE lpc = "enable" /\ Again /\ Enable
    BY <1>2, <2>2 DEF Again, LGoto, Enable
  <2>3. CASE lpc = "wake" /\ Again /\ Broadcast
    <3>1. kpc = "waiting" /\ Stored /\ UNCHANGED <<inbox, msg, last, kpc>>
          /\ lpc' \in {"recv", "farewell"}
      BY <2>3 DEF AnswerInv, Again, LGoto, Broadcast
    <3>2. Stored' /\ ~ Read' /\ \A i \in 1 .. Len(inbox) : ~ Coming(i) /\ ~ Coming(i)'
      BY <3>1 DEF AnswerInv, Read, Stored, Coming
    <3>3. ~ Asked
      BY <3>1 DEF AnswerInv, Unanswered
    <3> QED
      BY <1>1, <3>1, <3>2, <3>3 DEF AnswerInv
  <2>4. ASSUME NEW from, LDone(from) PROVE AnswerInv'
    BY <1>2, <2>4 DEF LDone, Again, LGoto
  <2> QED
    BY <1>3, <1>4, <1>7, <2>1, <2>2, <2>3, <2>4 DEF Serve, Draw
<1>8. CASE Leave
  BY <1>2, <1>8 DEF Leave, LGoto, Enable, CloseStream
<1> QED
  BY <1>5, <1>6, <1>7, <1>8 DEF ListenerStep

LEMMA AnswerKeyboard ==
  ASSUME TypeOK, AnswerInv, KeyboardStep \/ User
  PROVE  AnswerInv'
<1>1. UNCHANGED <<inbox, lpc, msg>> /\ Read' = Read
  BY KeyboardLeaves DEF Read
<1>2. \A i \in 1 .. Len(inbox) : Coming(i)' = Coming(i)
  BY <1>1 DEF Coming
<1> USE DEF KGoto, server, slot
<1>3. ASSUME NEW from, NEW to, {from, to} \cap {"waiting", "told"} = {}, KMoves(from, to)
      PROVE  AnswerInv'
  BY <1>1, <1>3, AnswerKept DEF KMoves, Asked
<1>4. CASE Gate
  BY <1>3, <1>4 DEF Gate
<1>5. CASE Resign
  <2>1. Asked' => Asked
    BY <1>5, SendLeaves DEF Resign, Asked
  <2> QED
    BY <1>1, <1>5, <2>1, AnswerKept DEF Resign
<1>6. CASE Compare
  BY <1>1, <1>6, AnswerKept DEF Compare, Asked
<1>7. CASE Bet
  <2>1. Unanswered /\ AskServer("keyboard", [type |-> "bet", amount |-> stake])
    BY <1>7 DEF Bet, AnswerInv
  <2>2. /\ verdict' = Null /\ result' = Null /\ UNCHANGED last /\ kpc' = "waiting"
        /\ "keyboard" \in asleep'
    BY <1>7, <2>1 DEF AskServer, Responds, Unanswered, Stored, Bet, KeyboardGoesOn
  <2>3. Unanswered'
    BY <1>1, <1>2, <2>1, <2>2 DEF Unanswered, Stored
  <2>4. lpc' # "wake"
    BY <1>1, <1>7 DEF Bet, AnswerInv
  <2> QED
    BY <2>2, <2>3, <2>4 DEF AnswerInv, Unanswered
<1>8. CASE BetWait
  <2>1. kpc = "waiting" /\ UNCHANGED <<request, verdict>> /\ Asked' = Asked
    BY <1>8 DEF BetWait, Asked
  <2>2. CASE Responds("bet") /\ Return
    <3>0. Stored /\ last' = Null /\ result' = last.type
      BY <2>2 DEF Responds, Return, Stored
    <3>5. lpc # "wake"
      BY <1>8 DEF BetWait, Awake, AnswerInv
    <3>1. Stored /\ result' = verdict /\ last' = Null /\ lpc # "wake"
      BY <3>0, <3>5 DEF AnswerInv
    <3>4. kpc' = "told"
      BY <1>8, <3>0, ClientAssumption, MessageTypes DEF BetWait, KeyboardGoesOn, Stored, TypeOK
    <3>2. ~ Asked /\ ~ Read /\ ~ Stored' /\ \A i \in 1 .. Len(inbox) : ~ Coming(i)
      BY <3>1 DEF AnswerInv, Unanswered, Stored
    <3>3. Unanswered'
      BY <1>1, <1>2, <3>2 DEF Unanswered
    <3> QED
      BY <1>1, <2>1, <3>1, <3>2, <3>3, <3>4 DEF AnswerInv, Unanswered
  <2>3. Responds("bet")
    BY <1>8 DEF BetWait, Awake, AnswerInv, Responds, Stored
  <2> QED
    BY <1>8, <2>2, <2>3 DEF BetWait, Awake
<1>9. CASE BetOver
  <2>1. kpc = "told" /\ kpc' = "key" /\ UNCHANGED <<last, asleep, request>>
    BY <1>9 DEF BetOver
  <2>2. Unanswered /\ ~ Asked
    BY <2>1 DEF AnswerInv
  <2>3. Unanswered' /\ ~ Asked'
    BY <1>1, <1>2, <2>1, <2>2 DEF Unanswered, Stored, Asked
  <2> QED
    BY <1>1, <2>1, <2>2, <2>3 DEF AnswerInv, Unanswered
<1>10. CASE User
  BY <1>1, <1>3, <1>10, AnswerKept DEF User, KeyPressed, Presses, AnswerDialog, Asked
<1> QED
  BY <1>3, <1>4, <1>5, <1>6, <1>7, <1>8, <1>9, <1>10 DEF KeyboardStep

-----------------------------------------------------------------------------
LEMMA JoinInit == Init => JoinInv
BY DEF Init, JoinInv

LEMMA JoinKept ==
  ASSUME JoinInv, UNCHANGED <<inbox, msg>>,
         kpc = "none" => kpc' = "none" \/ IsConfirmation,
         lpc' = "handle" => lpc = "handle",
         kpc' = "told" => (kpc = "told" /\ last' = last) \/ last' = Null
  PROVE  JoinInv'
<1>1. /\ IsConfirmation' = IsConfirmation
      /\ \A i \in 1 .. Len(inbox) : JoinAnswer(inbox[i])' = JoinAnswer(inbox[i])
  BY DEF IsConfirmation, JoinAnswer
<1> QED
  BY <1>1 DEF JoinInv

LEMMA JoinServer ==
  ASSUME TypeOK, StartInv, JoinInv, ServerStep
  PROVE  JoinInv'
<1>1. UNCHANGED <<lpc, msg, last, kpc>> /\ IsConfirmation' = IsConfirmation
  BY ServerLeaves DEF IsConfirmation
<1>2. ASSUME NEW m, Tell(m), m.type \in {"ok", "no"} => m.re = "bet" PROVE JoinInv'
  <2>1. /\ Len(inbox) \in Nat /\ Len(inbox') = Len(inbox) + 1
        /\ \A i \in 1 .. Len(inbox') :
             JoinAnswer(inbox'[i]) => i \in 1 .. Len(inbox) /\ JoinAnswer(inbox[i])
    BY <1>2, Told DEF JoinAnswer
  <2> QED
    BY <1>1, <2>1 DEF JoinInv
<1>3. CASE AnswerJoin
  <2>1. PICK v \in {"ok", "no"} : Tell([type |-> v, re |-> "join"])
    BY <1>3 DEF AnswerJoin
  <2>2. inbox \in Seq(Silent) /\ msg \in Silent /\ kpc = "none"
    BY <1>3 DEF AnswerJoin, StartInv
  <2>3. /\ Len(inbox) \in Nat /\ Len(inbox') = Len(inbox) + 1
        /\ \A i \in 1 .. Len(inbox) : inbox'[i] = inbox[i] /\ ~ JoinAnswer(inbox[i])
    BY <2>1, <2>2, Told DEF JoinAnswer, Silent
  <2>4. \A i \in 1 .. Len(inbox') : JoinAnswer(inbox'[i]) => i = Len(inbox')
    BY <2>3
  <2>5. ~ IsConfirmation
    BY <2>2 DEF Silent, IsConfirmation
  <2> QED
    BY <1>1, <2>2, <2>3, <2>4, <2>5 DEF JoinInv
<1>4. CASE Introduce \/ AnswerBet \/ Bill \/ AcceptQuit \/ Pay
  BY <1>2, <1>4 DEF Introduce, AnswerBet, Bill, AcceptQuit, Pay
<1>5. ASSUME NEW from, NEW to, NEW m \in {"start", "stop", "broke", "out"}, Announce(from, to, m)
      PROVE  JoinInv'
  BY <1>2, <1>5 DEF Announce
<1>6. CASE ServerCloses
  BY <1>1, <1>6, JoinKept DEF ServerCloses
<1> QED
  BY <1>3, <1>4, <1>5, <1>6 DEF ServerStep, ServerListens, Round

LEMMA JoinMain ==
  ASSUME StartInv, JoinInv, MainStep
  PROVE  JoinInv'
<1>1. UNCHANGED <<inbox, lpc, msg, kpc>>
  BY MainLeaves
<1>2. kpc = "told" => last' \in {last, Null}
  BY DEF MainStep, JoinGame, StartInv, JoinWait, Awake, Return, JoinKeyboard, JoinListener, MainMoves, slot
<1> QED
  BY <1>1, <1>2, JoinKept DEF JoinInv

LEMMA JoinListens ==
  ASSUME TypeOK, StartInv, AnswerInv, JoinInv, ListenerStep, peer = "open"
  PROVE  JoinInv'
<1>1. ASSUME UNCHANGED <<inbox, msg, kpc, last>>, lpc' = "handle" => lpc = "handle" PROVE JoinInv'
  BY <1>1, JoinKept DEF JoinInv
<1> USE DEF ListenerOnly, wire, slot, listener, keyboard
<1>2. ASSUME NEW from, NEW to, Receive(from, to),
             (from = "joinRecv" /\ to = "joinStore") \/ (from = "recv" /\ to = "handle")
      PROVE  JoinInv'
  <2>1. inbox # <<>> /\ msg' = Head(inbox) /\ inbox' = Tail(inbox) /\ UNCHANGED <<last, kpc>>
        /\ lpc = from /\ lpc' = to
    BY <1>2 DEF Receive, LGoto
  <2>2. /\ Len(inbox) \in Nat /\ Len(inbox) >= 1 /\ Len(inbox') = Len(inbox) - 1
        /\ \A i \in 1 .. Len(inbox') : inbox'[i] = inbox[i + 1]
        /\ msg' = inbox[1] /\ msg' \in Message
    BY <2>1, Received DEF TypeOK
  <2>3. 1 \in 1 .. Len(inbox) /\ \A i \in 1 .. Len(inbox') : i + 1 \in 1 .. Len(inbox)
    BY <2>2
  <2>4. IsConfirmation' => BetAnswer(msg') \/ JoinAnswer(msg')
    BY <2>2, MessageTypes DEF IsConfirmation, BetAnswer, JoinAnswer, Confirmation
  <2>5. kpc = "none" => ~ BetAnswer(msg')
    BY <2>2, <2>3 DEF AnswerInv, Unanswered, Coming
  <2>6. kpc # "none" => ~ JoinAnswer(msg')
    BY <2>2, <2>3 DEF JoinInv
  <2>7. ASSUME NEW i \in 1 .. Len(inbox'), JoinAnswer(inbox'[i])
        PROVE  /\ kpc' = "none" /\ ~ IsConfirmation'
               /\ \A j \in 1 .. Len(inbox') : JoinAnswer(inbox'[j]) => j = i
    <3>1. JoinAnswer(inbox[i + 1]) /\ i + 1 \in 1 .. Len(inbox)
      BY <2>2, <2>3, <2>7
    <3>2. kpc = "none" /\ \A j \in 1 .. Len(inbox) : JoinAnswer(inbox[j]) => j = i + 1
      BY <3>1 DEF JoinInv
    <3>3. ~ JoinAnswer(msg')
      BY <2>2, <2>3, <3>2
    <3>4. \A j \in 1 .. Len(inbox') : JoinAnswer(inbox'[j]) => j = i
      BY <2>2, <2>3, <3>2
    <3> QED
      BY <2>1, <2>4, <2>5, <3>2, <3>3, <3>4
  <2>8. lpc' = "handle" => kpc # "none"
    BY <1>2, <2>1 DEF StartInv
  <2>9. lpc' = "handle" /\ IsConfirmation' => msg'.re = "bet"
    BY <2>4, <2>6, <2>8 DEF BetAnswer
  <2>10. kpc' = "told" => last' = Null
    BY <2>1 DEF JoinInv
  <2> QED
    BY <2>7, <2>9, <2>10 DEF JoinInv
<1>3. ASSUME NEW from, NEW to, Store(from, to),
             (from = "joinStore" /\ to = "joinWake") \/ (from = "handle" /\ to = "wake")
      PROVE  JoinInv'
  <2>1. lpc = from /\ lpc' = to /\ IsConfirmation /\ UNCHANGED <<inbox, msg, kpc>>
    BY <1>3 DEF Store, LGoto
  <2>2. kpc # "told"
    <3>1. CASE lpc = "joinStore"
      BY <3>1 DEF StartInv
    <3>2. CASE lpc = "handle"
      <4>1. Read
        BY <2>1, <3>2 DEF JoinInv, Read, BetAnswer, IsConfirmation
      <4> QED
        BY <4>1 DEF AnswerInv, Unanswered
    <3> QED
      BY <1>3, <2>1, <3>1, <3>2
  <2>3. lpc' # "handle"
    BY <1>3, <2>1
  <2> QED
    BY <2>1, <2>2, <2>3, JoinKept
<1>4. CASE JoinLoop
  <2>1. ASSUME NEW to, to # "handle", LMoves("joinStore", to) PROVE JoinInv'
    BY <1>1, <2>1 DEF LMoves, LGoto
  <2>2. CASE LGoto("judge") /\ Broadcast
    BY <1>1, <2>2 DEF LGoto, Broadcast
  <2>3. CASE Receive("joinRecv", "joinStore")
    BY <1>2, <2>3
  <2>4. CASE Store("joinStore", "joinWake")
    BY <1>3, <2>4
  <2>5. (IF conn /\ msg.type # "out" THEN "joinRecv" ELSE "judge") # "handle"
    OBVIOUS
  <2> QED
    BY <1>4, <2>1, <2>2, <2>3, <2>4, <2>5 DEF JoinLoop
<1>5. CASE Judge
  <2>1. UNCHANGED <<inbox, msg, last>> /\ lpc' # "handle" /\ kpc = "none"
    BY <1>5 DEF Judge, Again, LGoto, StartInv
  <2>2. kpc' \in {"none", "first"} /\ (kpc' = "none" \/ IsConfirmation)
    BY <1>5, <2>1 DEF Judge, IsConfirmation
  <2> QED
    BY <2>1, <2>2, JoinKept
<1>6. CASE Serve
  <2>1. CASE TakeFunds \/ TakeGone \/ TakeStart \/ TakeStop
    BY <1>1, <2>1 DEF TakeFunds, TakeGone, TakeStart, TakeStop, LGoto
  <2>2. ASSUME Again, Enable \/ Broadcast PROVE JoinInv'
    BY <1>1, <2>2 DEF Again, LGoto, Enable, Broadcast
  <2>3. ASSUME NEW from, LDone(from) PROVE JoinInv'
    BY <1>1, <2>3 DEF LDone, Again, LGoto
  <2>4. CASE Receive("recv", "handle")
    BY <1>2, <2>4
  <2>5. CASE Store("handle", "wake")
    BY <1>3, <2>5
  <2> QED
    BY <1>6, <2>1, <2>2, <2>3, <2>4, <2>5 DEF Serve, Draw
<1>7. CASE Leave
  BY <1>1, <1>7 DEF Leave, LGoto, Enable, CloseStream
<1> QED
  BY <1>4, <1>5, <1>6, <1>7 DEF ListenerStep

LEMMA JoinKeyboarded ==
  ASSUME AnswerInv, JoinInv, KeyboardStep \/ User
  PROVE  JoinInv'
<1>1. kpc # "none" /\ UNCHANGED <<inbox, lpc, msg>>
  BY KeyboardLeaves
<1>2. kpc' = "told" => (kpc = "told" /\ last' = last) \/ last' = Null
  <2>1. ASSUME NEW from, NEW to, to # "told", KMoves(from, to) PROVE kpc' # "told"
    BY <2>1 DEF KMoves, KGoto
  <2>2. CASE Gate
    BY <2>1, <2>2 DEF Gate
  <2>3. CASE Resign \/ Compare \/ BetOver \/ AnswerDialog
    BY <2>3 DEF Resign, Compare, BetOver, AnswerDialog, KGoto
  <2>4. CASE Bet
    <3>1. ~ Stored /\ AskServer("keyboard", [type |-> "bet", amount |-> stake])
      BY <2>4 DEF Bet, AnswerInv, Unanswered
    <3>2. result' = Null
      BY <3>1 DEF AskServer, Stored, Responds
    <3>3. kpc' = IF result' = Null THEN "waiting" ELSE "told"
      BY <2>4 DEF Bet, KeyboardGoesOn, KGoto
    <3> QED
      BY <3>2, <3>3
  <2>5. CASE BetWait
    <3>1. Responds("bet")
      BY <2>5 DEF BetWait, Awake, AnswerInv, Responds, Stored
    <3> QED
      BY <2>5, <3>1 DEF BetWait, Awake, Return
  <2>6. CASE KeyPressed
    BY <2>1, <2>6 DEF KeyPressed, Presses
  <2> QED
    BY <2>1, <2>2, <2>3, <2>4, <2>5, <2>6 DEF KeyboardStep, User
<1> QED
  BY <1>1, <1>2, JoinKept

-----------------------------------------------------------------------------
\* While the server's end is open; what is handled after that may be an old
\* message.
TrueInv == TypeOK /\ StartInv /\ (peer = "open" => AnswerInv /\ JoinInv)

LEMMA TrueStep == TrueInv /\ [Next]_vars => TrueInv'
<1> SUFFICES ASSUME TrueInv, [Next]_vars PROVE TrueInv'
  OBVIOUS
<1>1. TypeOK /\ TypeOK' /\ StartInv /\ StartInv'
  BY TypeStep, StartStep DEF TrueInv
<1>2. ASSUME peer' = "open" PROVE AnswerInv' /\ JoinInv'
  <2>1. peer = "open" /\ AnswerInv /\ JoinInv
    BY <1>2, PeerStays DEF TrueInv
  <2>2. CASE UNCHANGED vars
    <3>1. UNCHANGED <<inbox, msg, verdict, result, last, request, asleep, lpc, kpc>>
      BY <2>2 DEF vars, server, wire, slot, listener, keyboard
    <3>2. Asked' = Asked /\ Read' = Read
      BY <3>1 DEF Asked, Read
    <3>3. kpc' = "told" => last' = Null
      BY <2>1, <3>1 DEF JoinInv
    <3> QED
      BY <2>1, <3>1, <3>2, <3>3, AnswerKept, JoinKept
  <2>3. CASE Reset
    BY <1>2, <2>3 DEF Reset
  <2>4. CASE ServerStep
    BY <1>1, <2>1, <2>4, AnswerServer, JoinServer
  <2>5. CASE MainStep
    BY <1>1, <2>1, <2>5, AnswerMain, JoinMain
  <2>6. CASE ListenerStep
    BY <1>1, <2>1, <2>6, AnswerListener, JoinListens
  <2>7. CASE KeyboardStep \/ User
    BY <1>1, <2>1, <2>7, AnswerKeyboard, JoinKeyboarded
  <2> QED
    BY <2>2, <2>3, <2>4, <2>5, <2>6, <2>7 DEF Next
<1> QED
  BY <1>1, <1>2 DEF TrueInv

LEMMA TrueSafe == Spec => []TrueInv
<1>1. Init => TrueInv
  BY TypeInit, StartInit, AnswerInit, JoinInit DEF TrueInv
<1> QED
  BY <1>1, TrueStep, PTL DEF Spec

(***************************************************************************)
(* Whatever else is broadcast and however the answers to the join and to   *)
(* earlier bets lie about, a bet returns the server's answer to itself     *)
(* while the connection lasts.                                             *)
(***************************************************************************)
THEOREM AnswerSafe == Spec => []AnswerIsTrue
<1>1. TrueInv => AnswerIsTrue
  BY DEF TrueInv, AnswerInv, AnswerIsTrue
<1> QED
  BY TrueSafe, <1>1, PTL

-----------------------------------------------------------------------------
(***************************************************************************)
(* The copy of the funds.  What is confirmed is owed already: funds less   *)
(* debt falls at a confirmation only.                                      *)
(***************************************************************************)
Net == IF debt = Null THEN funds ELSE funds - debt

\* A sum that overdraws the account by one stake at most.
Fits(n) == \E a \in Amount \cup {0} : n <= Net + a

IsAccount(m) == m.type \in {"info", "funds"}

\* The copy is n once the message in hand is handled.
InHand == lpc = "handle" /\ IsAccount(msg)

CopyIs(n) ==
  /\ InHand => msg.funds = n
  /\ ~ InHand => mirror = n

\* n is the copy once the messages before the k-th are handled.
Shown(k, n) ==
  \/ CopyIs(n) /\ \A j \in 1 .. (k - 1) : ~ IsAccount(inbox[j])
  \/ \E i \in 1 .. (k - 1) :
       /\ IsAccount(inbox[i]) /\ inbox[i].funds = n
       /\ \A j \in (i + 1) .. (k - 1) : ~ IsAccount(inbox[j])

\* The accounts from the k-th message on.
FitFrom(k) == \A i \in k .. Len(inbox) : IsAccount(inbox[i]) => Fits(inbox[i].funds)

\* What the copy can be before the next message is read.
FitNow ==
  /\ InHand => Fits(msg.funds)
  /\ mirror # Null => Fits(mirror)

\* The answer to the join comes before any account: it ends the loop that would
\* drop one.
JoinFirst ==
  lpc = "joinRecv" \/ (lpc = "joinStore" /\ ~ IsConfirmation) =>
    \E j \in 1 .. Len(inbox) :
      inbox[j].type \in {"ok", "no"} /\ \A i \in 1 .. (j - 1) : ~ IsAccount(inbox[i])

Seated ==
  /\ Shown(Len(inbox) + 1, funds)
  /\ Asked => Fits(request.amount)
  /\ kpc = "ask" => Fits(stake)
  /\ (\A i \in 1 .. Len(inbox) : ~ Coming(i)) => FitFrom(1) /\ FitNow
  /\ \A k \in 1 .. Len(inbox) :
       Coming(k) => FitFrom(k + 1) /\ \E n \in Int : Fits(n) /\ Shown(k, n)

Early ==
  /\ \A i \in 1 .. Len(inbox) : ~ IsAccount(inbox[i])
  /\ ~ IsAccount(msg) /\ mirror = Null /\ debt = Null
  /\ ~ Asked /\ kpc \notin {"ask", "waiting"}

Unseated == stage \in {"unheard", "confirmed", "refused"}

MoneyInv ==
  /\ Fits(0)
  /\ Unseated => Early
  /\ peer = "open" /\ stage # "unheard" => JoinFirst
  /\ peer = "open" /\ stage = "seated" => Seated

LEMMA AmountNat == \A a \in Amount \cup {0} : a \in Nat
BY ClientAssumption

LEMMA NetInt ==
  ASSUME TypeOK
  PROVE  Net \in Int /\ Net <= funds
<1>0. funds \in Int
  BY DEF TypeOK
<1>1. debt = Null \/ debt \in Amount \cup {0}
  BY DEF TypeOK
<1>2. CASE debt = Null
  BY <1>0, <1>2 DEF Net
<1>3. CASE debt # Null
  <2>1. debt \in Nat
    <3>1. debt \in Amount \cup {0}
      BY <1>1, <1>3
    <3> QED
      BY <3>1, ClientAssumption
  <2>2. Net = funds - debt
    BY <1>3 DEF Net
  <2> QED
    BY <1>0, <2>1, <2>2
<1> QED
  BY <1>2, <1>3

LEMMA NetIntNext ==
  ASSUME TypeOK'
  PROVE  Net' \in Int
<1>0. funds' \in Int
  BY DEF TypeOK
<1>1. debt' = Null \/ debt' \in Amount \cup {0}
  BY DEF TypeOK
<1>2. CASE debt' = Null
  BY <1>0, <1>2 DEF Net
<1>3. CASE debt' # Null
  <2>1. debt' \in Nat
    <3>1. debt' \in Amount \cup {0}
      BY <1>1, <1>3
    <3> QED
      BY <3>1, ClientAssumption
  <2>2. Net' = funds' - debt'
    BY <1>3 DEF Net
  <2> QED
    BY <1>0, <2>1, <2>2
<1> QED
  BY <1>2, <1>3

\* A smaller sum fits as well, and goes on to when no more is owed.
LEMMA FitsLess ==
  ASSUME TypeOK, NEW n \in Int, NEW m \in Int, m <= n, Fits(n)
  PROVE  Fits(m)
<1>1. PICK a \in Amount \cup {0} : n <= Net + a
  BY DEF Fits
<1>2. Net \in Int /\ a \in Int
  BY NetInt, ClientAssumption
<1>3. m <= Net + a
  BY <1>1, <1>2
<1> QED
  BY <1>3 DEF Fits

LEMMA FitsStill ==
  ASSUME TypeOK, TypeOK', Net' >= Net, NEW n \in Int, Fits(n)
  PROVE  Fits(n)'
<1>1. PICK a \in Amount \cup {0} : n <= Net + a
  BY DEF Fits
<1>2. Net \in Int /\ Net' \in Int /\ a \in Int
  BY NetInt, NetIntNext, ClientAssumption
<1>3. \A x, y \in Int : n <= x + a /\ y >= x => n <= y + a
  BY <1>2
<1>4. n <= Net' + a
  BY <1>1, <1>2, <1>3
<1> QED
  BY <1>4 DEF Fits

\* The funds overdraw what is left of them by the debt.
LEMMA FundsFit ==
  ASSUME NEW f \in Int, NEW d, d = Null \/ d \in Amount \cup {0}
  PROVE  \E a \in Amount \cup {0} : f <= (IF d = Null THEN f ELSE f - d) + a
<1>1. CASE d = Null
  <2>1. f <= f + 0
    OBVIOUS
  <2> QED
    BY <1>1, <2>1
<1>2. CASE d # Null
  <2>1. PICK a \in Amount \cup {0} : a = d
    BY <1>2
  <2>2. f <= (f - a) + a
    BY <2>1, AmountNat
  <2> QED
    BY <1>2, <2>1, <2>2
<1> QED
  BY <1>1, <1>2

LEMMA FitsFunds ==
  ASSUME TypeOK
  PROVE  Fits(funds)
<1>1. funds \in Int /\ (debt = Null \/ debt \in Amount \cup {0})
  BY DEF TypeOK
<1> QED
  BY <1>1, FundsFit DEF Fits, Net

LEMMA FitsFundsNext ==
  ASSUME TypeOK'
  PROVE  Fits(funds)'
<1>1. funds' \in Int /\ (debt' = Null \/ debt' \in Amount \cup {0})
  BY DEF TypeOK
<1> QED
  BY <1>1, FundsFit DEF Fits, Net

LEMMA AskedAmount ==
  ASSUME TypeOK, Asked
  PROVE  request.amount \in Int
<1>1. request \in Request
  BY DEF Asked, TypeOK
<1>2. request.amount \in Amount \cup {0}
  BY <1>1 DEF Request
<1> QED
  BY <1>2, AmountNat

LEMMA AccountFunds ==
  ASSUME TypeOK
  PROVE  /\ Len(inbox) \in Nat
         /\ \A i \in 1 .. Len(inbox) : inbox[i] \in Message
         /\ \A i \in 1 .. Len(inbox) : IsAccount(inbox[i]) => inbox[i].funds \in Int
         /\ IsAccount(msg) => msg.funds \in Int
<1>1. inbox \in Seq(Message) /\ msg \in Message
  BY DEF TypeOK
<1> QED
  BY <1>1, MessageTypes DEF IsAccount

-----------------------------------------------------------------------------
LEMMA MoneyInit == Init => MoneyInv
<1> SUFFICES ASSUME Init PROVE MoneyInv
  OBVIOUS
<1>1. Fits(0)
  <2>1. debt = Null /\ funds \in Nat
    BY ClientAssumption DEF Init
  <2>2. 0 <= Net + 0
    BY <2>1 DEF Net
  <2> QED
    BY <2>2 DEF Fits
<1>2. Early /\ stage = "unheard"
  BY DEF Init, Early, IsAccount, Asked
<1> QED
  BY <1>1, <1>2 DEF MoneyInv

\* What is shown depends on the messages before and on the copy.
LEMMA ShownSame ==
  ASSUME NEW k \in Int, NEW n, \A i \in 1 .. (k - 1) : inbox'[i] = inbox[i],
         CopyIs(n) => CopyIs(n)', Shown(k, n)
  PROVE  Shown(k, n)'
BY DEF Shown

LEMMA CopySame ==
  ASSUME UNCHANGED <<msg, mirror>>, InHand' <=> InHand, NEW n, CopyIs(n)
  PROVE  CopyIs(n)'
BY DEF CopyIs

\* The server's account as it was and nothing told or read.
LEMMA MoneyKept ==
  ASSUME TypeOK, TypeOK', MoneyInv,
         UNCHANGED <<stage, funds, debt, inbox, msg, mirror>>,
         InHand' <=> InHand,
         lpc' \in {"joinRecv", "joinStore"} => lpc' = lpc \/ (lpc = "joinStore" /\ ~ IsConfirmation),
         Asked' => \/ Asked /\ request' = request
                   \/ kpc = "ask" /\ request'.amount = stake,
         kpc' = "ask" => \/ kpc = "ask" /\ stake' = stake
                         \/ mirror # Null /\ (peer = "open" /\ stage = "seated" => Fits(stake')),
         kpc' = "waiting" => kpc \in {"waiting", "ask"},
         peer' = "open" => peer = "open"
  PROVE  MoneyInv'
<1>1. /\ Net' = Net
      /\ \A n : Fits(n)' <=> Fits(n)
  BY DEF Net, Fits
<1>2. /\ IsConfirmation' <=> IsConfirmation
      /\ \A i : IsAccount(inbox[i])' <=> IsAccount(inbox[i])
      /\ \A i : Coming(i)' <=> Coming(i)
      /\ IsAccount(msg)' <=> IsAccount(msg)
  BY DEF IsConfirmation, IsAccount, Coming
<1>3. Early => Early'
  BY <1>2 DEF Early
<1>4. JoinFirst => JoinFirst'
  BY <1>2 DEF JoinFirst
<1>5. ASSUME Seated, stage = "seated", peer = "open" PROVE Seated'
  <2>1. \A k \in Int : \A n : Shown(k, n) => Shown(k, n)'
    BY ShownSame, CopySame
  <2>2. Shown(Len(inbox) + 1, funds)'
    BY <1>5, <2>1, AccountFunds DEF Seated
  <2>3. Asked' => Fits(request.amount)'
    BY <1>1, <1>5 DEF Seated
  <2>4. kpc' = "ask" => Fits(stake)'
    BY <1>1, <1>5 DEF Seated
  <2>5. \A k : FitFrom(k) => FitFrom(k)'
    BY <1>1, <1>2 DEF FitFrom
  <2>6. FitNow => FitNow'
    BY <1>1 DEF FitNow
  <2>7. (\A i \in 1 .. Len(inbox') : ~ Coming(i)') => FitFrom(1)' /\ FitNow'
    BY <1>2, <1>5, <2>5, <2>6 DEF Seated
  <2>8. ASSUME NEW k \in 1 .. Len(inbox'), Coming(k)'
        PROVE  FitFrom(k + 1)' /\ \E n \in Int : Fits(n)' /\ Shown(k, n)'
    BY <1>1, <1>2, <1>5, <2>1, <2>5, <2>8 DEF Seated
  <2> QED
    BY <2>2, <2>3, <2>4, <2>7, <2>8 DEF Seated
<1> QED
  BY <1>1, <1>3, <1>4, <1>5 DEF MoneyInv, Unseated

-----------------------------------------------------------------------------
LEMMA NothingMoreOwed ==
  ASSUME TypeOK, TypeOK', MoneyInv, Net' >= Net
  PROVE  /\ Fits(0)'
         /\ \A n \in Int : Fits(n) => Fits(n)'
BY FitsStill DEF MoneyInv

\* The connection ends.
LEMMA MoneyClosed ==
  ASSUME TypeOK, TypeOK', MoneyInv, Net' >= Net, peer' # "open",
         Unseated' => Early'
  PROVE  MoneyInv'
BY NothingMoreOwed DEF MoneyInv

LEMMA JoinFirstTold ==
  ASSUME TypeOK, NEW m, Tell(m), UNCHANGED <<lpc, msg>>, JoinFirst
  PROVE  JoinFirst'
<1>1. /\ Len(inbox) \in Nat /\ Len(inbox') = Len(inbox) + 1
      /\ \A i \in 1 .. Len(inbox) : inbox'[i] = inbox[i]
  BY Told
<1>2. ASSUME NEW j \in 1 .. Len(inbox), inbox[j].type \in {"ok", "no"},
             \A i \in 1 .. (j - 1) : ~ IsAccount(inbox[i])
      PROVE  JoinFirst'
  <2>1. j \in 1 .. Len(inbox') /\ inbox'[j].type \in {"ok", "no"}
    BY <1>1, <1>2
  <2>2. \A i \in 1 .. (j - 1) : ~ IsAccount(inbox'[i])
    BY <1>1, <1>2
  <2> QED
    BY <2>1, <2>2 DEF JoinFirst, IsAccount
<1>3. CASE ~ (lpc = "joinRecv" \/ (lpc = "joinStore" /\ ~ IsConfirmation))
  BY <1>3 DEF JoinFirst, IsConfirmation
<1> QED
  BY <1>2, <1>3 DEF JoinFirst

\* What is shown once the message told is read.
LEMMA ShownTold ==
  ASSUME TypeOK, NEW m, Tell(m), UNCHANGED <<lpc, msg, mirror>>
  PROVE  /\ \A k \in 1 .. (Len(inbox) + 1) : \A n : Shown(k, n) => Shown(k, n)'
         /\ IsAccount(m) => Shown(Len(inbox) + 1, m.funds)'
         /\ ~ IsAccount(m) => \A n : Shown(Len(inbox) + 1, n) => Shown(Len(inbox) + 1, n)'
<1>1. /\ Len(inbox) \in Nat /\ Len(inbox') = Len(inbox) + 1
      /\ \A i \in 1 .. Len(inbox) : inbox'[i] = inbox[i]
      /\ inbox'[Len(inbox) + 1] = m
  BY Told
<1>2. \A n : CopyIs(n) => CopyIs(n)'
  BY CopySame DEF InHand, IsAccount
<1>3. ASSUME NEW k \in 1 .. (Len(inbox) + 1), NEW n, Shown(k, n) PROVE Shown(k, n)'
  <2>1. k \in Int /\ \A i \in 1 .. (k - 1) : inbox'[i] = inbox[i]
    BY <1>1
  <2> QED
    BY <1>2, <1>3, <2>1, ShownSame
<1>4. ASSUME IsAccount(m) PROVE Shown(Len(inbox) + 1, m.funds)'
  <2>1. /\ Len(inbox') \in 1 .. (Len(inbox') + 1 - 1)
        /\ IsAccount(inbox'[Len(inbox')]) /\ inbox'[Len(inbox')].funds = m.funds
        /\ \A j \in (Len(inbox') + 1) .. (Len(inbox') + 1 - 1) : ~ IsAccount(inbox'[j])
    BY <1>1, <1>4
  <2> QED
    BY <2>1 DEF Shown, IsAccount
<1>5. ASSUME ~ IsAccount(m), NEW n, Shown(Len(inbox) + 1, n) PROVE Shown(Len(inbox) + 1, n)'
  <2>1. \A j \in 1 .. Len(inbox') : j \notin 1 .. Len(inbox) => inbox'[j] = m
    BY <1>1
  <2>2. CASE CopyIs(n) /\ \A j \in 1 .. Len(inbox) : ~ IsAccount(inbox[j])
    <3>1. \A j \in 1 .. (Len(inbox') + 1 - 1) : ~ IsAccount(inbox'[j])
      BY <1>1, <1>5, <2>1, <2>2
    <3> QED
      BY <1>2, <2>2, <3>1 DEF Shown, IsAccount
  <2>3. ASSUME NEW i \in 1 .. Len(inbox), IsAccount(inbox[i]), inbox[i].funds = n,
               \A j \in (i + 1) .. Len(inbox) : ~ IsAccount(inbox[j])
        PROVE  Shown(Len(inbox) + 1, n)'
    <3>1. i \in 1 .. (Len(inbox') + 1 - 1) /\ IsAccount(inbox'[i]) /\ inbox'[i].funds = n
      BY <1>1, <2>3
    <3>2. \A j \in (i + 1) .. (Len(inbox') + 1 - 1) : ~ IsAccount(inbox'[j])
      BY <1>1, <1>5, <2>1, <2>3
    <3> QED
      BY <3>1, <3>2 DEF Shown, IsAccount
  <2>4. Len(inbox) + 1 - 1 = Len(inbox)
    BY <1>1
  <2> QED
    BY <1>5, <2>2, <2>3, <2>4 DEF Shown
<1> QED
  BY <1>3, <1>4, <1>5

\* What is confirmed is told with the account it was taken from.
LEMMA MoneyTold ==
  ASSUME TypeOK, TypeOK', MoneyInv, NEW m, Tell(m), m.type \notin {"ok", "no"},
         UNCHANGED <<lpc, msg, mirror, kpc, stake, peer>>,
         Net' >= Net,
         IsAccount(m) => m.funds = funds' /\ stage = "seated",
         ~ IsAccount(m) => funds' = funds,
         Unseated' => stage' = stage /\ debt' = debt,
         stage' = "seated" => stage = "seated",
         stage' # "unheard" => stage # "unheard",
         request' \in {request, Null}
  PROVE  MoneyInv'
<1>1. /\ Len(inbox) \in Nat /\ Len(inbox') = Len(inbox) + 1
      /\ \A i \in 1 .. Len(inbox) : inbox'[i] = inbox[i]
      /\ inbox'[Len(inbox) + 1] = m
  BY Told
<1>2. Fits(0)' /\ \A n \in Int : Fits(n) => Fits(n)'
  BY NothingMoreOwed
<1>3. InHand' <=> InHand
  BY DEF InHand, IsAccount
<1>4. Asked' => Asked /\ request' = request
  BY DEF Asked
<1>5. ASSUME Unseated' PROVE Early'
  <2>1. Early /\ ~ IsAccount(m)
    BY <1>5 DEF Unseated, MoneyInv
  <2>2. \A i \in 1 .. Len(inbox') : ~ IsAccount(inbox'[i])
    BY <1>1, <2>1 DEF Early
  <2> QED
    BY <1>4, <1>5, <2>1, <2>2 DEF Early, IsAccount
<1>6. peer' = "open" /\ stage' # "unheard" => JoinFirst'
  BY JoinFirstTold DEF MoneyInv
<1>7. ASSUME peer' = "open", stage' = "seated" PROVE Seated'
  <2>0. Seated
    BY <1>7 DEF MoneyInv
  <2>1. Shown(Len(inbox) + 1, funds)'
    BY <2>0, ShownTold DEF Seated
  <2>2. Asked' => Fits(request.amount)'
    <3>1. Asked => request.amount \in Int
      BY AskedAmount
    <3> QED
      BY <1>2, <1>4, <2>0, <3>1 DEF Seated
  <2>3. kpc' = "ask" => Fits(stake)'
    <3>1. stake \in Int
      BY ClientAssumption DEF TypeOK
    <3> QED
      BY <1>2, <2>0, <3>1 DEF Seated
  <2>4. /\ \A i \in 1 .. Len(inbox) : Coming(i)' <=> Coming(i)
        /\ \A i \in 1 .. Len(inbox') : Coming(i)' => i \in 1 .. Len(inbox)
    BY <1>1 DEF Coming, BetAnswer
  <2>5. ASSUME NEW k \in 1 .. (Len(inbox) + 1), FitFrom(k) PROVE FitFrom(k)'
    <3>1. ASSUME NEW i \in k .. Len(inbox'), IsAccount(inbox'[i]) PROVE Fits(inbox[i].funds)'
      <4>1. CASE i \in 1 .. Len(inbox)
        <5>1. IsAccount(inbox[i]) /\ i \in k .. Len(inbox)
          BY <1>1, <3>1, <4>1
        <5>2. Fits(inbox[i].funds) /\ inbox[i].funds \in Int
          BY <2>5, <4>1, <5>1, AccountFunds DEF FitFrom
        <5>3. inbox'[i].funds = inbox[i].funds
          BY <1>1, <4>1
        <5> QED
          BY <1>2, <5>2, <5>3
      <4>2. CASE i \notin 1 .. Len(inbox)
        <5>1. inbox'[i] = m
          BY <1>1, <3>1, <4>2
        <5>2. inbox'[i].funds = funds'
          BY <3>1, <5>1
        <5>3. Fits(funds)'
          BY FitsFundsNext
        <5> QED
          BY <5>2, <5>3 DEF Fits
      <4> QED
        BY <4>1, <4>2
    <3> QED
      BY <3>1 DEF FitFrom, IsAccount
  <2>6. FitNow => FitNow'
    <3>1. (InHand => msg.funds \in Int) /\ (mirror = Null \/ mirror \in Int)
      BY AccountFunds DEF InHand, TypeOK
    <3>2. InHand /\ Fits(msg.funds) => Fits(msg.funds)'
      BY <1>2, <3>1
    <3>3. mirror # Null /\ Fits(mirror) => Fits(mirror)'
      BY <1>2, <3>1
    <3> QED
      BY <1>3, <3>2, <3>3 DEF FitNow
  <2>7. (\A i \in 1 .. Len(inbox') : ~ Coming(i)') => FitFrom(1)' /\ FitNow'
    <3>1. 1 \in 1 .. (Len(inbox) + 1) /\ \A i \in 1 .. Len(inbox) : i \in 1 .. Len(inbox')
      BY <1>1
    <3> QED
      BY <2>0, <2>4, <2>5, <2>6, <3>1 DEF Seated
  <2>8. ASSUME NEW k \in 1 .. Len(inbox'), Coming(k)'
        PROVE  FitFrom(k + 1)' /\ \E n \in Int : Fits(n)' /\ Shown(k, n)'
    <3>1. k \in 1 .. Len(inbox) /\ Coming(k) /\ k + 1 \in 1 .. (Len(inbox) + 1)
          /\ k \in 1 .. (Len(inbox) + 1)
      BY <1>1, <2>4, <2>8
    <3>2. FitFrom(k + 1) /\ \E n \in Int : Fits(n) /\ Shown(k, n)
      BY <2>0, <3>1 DEF Seated
    <3>3. \E n \in Int : Fits(n)' /\ Shown(k, n)'
      BY <1>2, <3>1, <3>2, ShownTold
    <3> QED
      BY <2>5, <3>1, <3>2, <3>3
  <2> QED
    BY <2>1, <2>2, <2>3, <2>7, <2>8 DEF Seated
<1> QED
  BY <1>2, <1>5, <1>6, <1>7 DEF MoneyInv

\* Nothing that the client makes of a farewell matters here.
LEMMA MoneyLeft ==
  ASSUME TypeOK, TypeOK', MoneyInv, NEW m, Tell(m), UNCHANGED <<lpc, msg, peer>>,
         Net' >= Net, stage \in {"seated", "left"}, stage' = "left"
  PROVE  MoneyInv'
<1>1. Fits(0)'
  BY NothingMoreOwed
<1>2. peer' = "open" => JoinFirst'
  BY JoinFirstTold DEF MoneyInv
<1> QED
  BY <1>1, <1>2 DEF MoneyInv, Unseated

\* The answer to the join is told before anything that matters.
LEMMA MoneyJoined ==
  ASSUME TypeOK, TypeOK', StartInv, MoneyInv, AnswerJoin
  PROVE  MoneyInv'
<1>1. PICK v \in {"ok", "no"} : Tell([type |-> v, re |-> "join"])
  BY DEF AnswerJoin
<1>2. UNCHANGED <<lpc, msg, mirror, kpc, funds, debt>> /\ request' = Null
      /\ stage' \in {"confirmed", "refused"}
  BY DEF AnswerJoin, ServerOnly, screen, listener, keyboard
<1>3. Early
  BY DEF AnswerJoin, MoneyInv, Unseated
<1>4. /\ Len(inbox) \in Nat /\ Len(inbox') = Len(inbox) + 1
      /\ \A i \in 1 .. Len(inbox) : inbox'[i] = inbox[i]
      /\ inbox'[Len(inbox) + 1].type = v
  BY <1>1, Told
<1>5. Fits(0)'
  BY <1>2 DEF MoneyInv, Fits, Net
<1>6. Early'
  <2>1. \A i \in 1 .. Len(inbox') : ~ IsAccount(inbox'[i])
    BY <1>3, <1>4 DEF Early, IsAccount
  <2> QED
    BY <1>2, <1>3, <2>1 DEF Early, IsAccount, Asked
<1>7. JoinFirst'
  <2>1. /\ Len(inbox') \in 1 .. Len(inbox') /\ inbox'[Len(inbox')].type \in {"ok", "no"}
        /\ \A i \in 1 .. (Len(inbox') - 1) : ~ IsAccount(inbox'[i])
    BY <1>3, <1>4 DEF Early
  <2> QED
    BY <2>1 DEF JoinFirst, IsAccount
<1> QED
  BY <1>2, <1>5, <1>6, <1>7 DEF MoneyInv

\* The first account: no bet has been asked for.
LEMMA MoneyIntroduced ==
  ASSUME TypeOK, TypeOK', AnswerInv, MoneyInv, Introduce
  PROVE  MoneyInv'
<1>1. /\ UNCHANGED <<lpc, msg, mirror, kpc, funds, debt, request>>
      /\ stage = "confirmed" /\ stage' = "seated" /\ peer = "open"
      /\ Tell([type |-> "info", funds |-> funds])
  BY DEF Introduce, ServerOnly, screen, listener, keyboard
<1>2. Early /\ JoinFirst
  BY <1>1 DEF MoneyInv, Unseated
<1>3. PICK m : m = [type |-> "info", funds |-> funds]
  OBVIOUS
<1>4. /\ Len(inbox) \in Nat /\ Len(inbox') = Len(inbox) + 1
      /\ \A i \in 1 .. Len(inbox) : inbox'[i] = inbox[i]
      /\ inbox'[Len(inbox) + 1] = m
  BY <1>1, <1>3, Told
<1>5. Fits(0)'
  BY <1>1 DEF MoneyInv, Fits, Net
<1>6. JoinFirst'
  BY <1>1, <1>2, JoinFirstTold
<1>7. IsAccount(m) /\ m.funds = funds' /\ ~ BetAnswer(m)
  BY <1>1, <1>3 DEF IsAccount, BetAnswer
<1>8. Shown(Len(inbox) + 1, funds)'
  <2>1. Shown(Len(inbox) + 1, m.funds)'
    BY <1>1, <1>3, <1>7, ShownTold
  <2>2. m.funds = funds'
    BY <1>7
  <2> QED
    BY <2>1, <2>2 DEF Shown, CopyIs
<1>9. ~ Asked' /\ kpc' # "ask"
  BY <1>1, <1>2 DEF Early, Asked
<1>10. \A i \in 1 .. Len(inbox') : ~ Coming(i)'
  <2>1. Unanswered
    BY <1>2 DEF Early, AnswerInv
  <2> QED
    BY <1>4, <1>7, <2>1 DEF Unanswered, Coming
<1>11. FitFrom(1)'
  <2>1. Fits(funds)'
    BY FitsFundsNext
  <2>2. \A i \in 1 .. Len(inbox') : IsAccount(inbox'[i]) => inbox'[i].funds = funds'
    BY <1>2, <1>4, <1>7 DEF Early
  <2> QED
    BY <2>1, <2>2 DEF FitFrom, Fits, IsAccount
<1>12. FitNow'
  BY <1>1, <1>2 DEF FitNow, InHand, Early, IsAccount
<1> QED
  BY <1>1, <1>5, <1>6, <1>8, <1>9, <1>10, <1>11, <1>12 DEF MoneyInv, Seated, Unseated

\* A confirmation is the one step after which more is owed.  The bill of the bet
\* before has been told by then: the last account is that of the funds.
LEMMA MoneyAnswered ==
  ASSUME TypeOK, TypeOK', AnswerInv, MoneyInv, AnswerBet
  PROVE  MoneyInv'
<1>1. PICK v \in {"ok", "no"} :
        /\ Tell([type |-> v, re |-> "bet"])
        /\ (v = "ok" /\ debt' = request.amount) \/ (v = "no" /\ debt' = Null)
  BY DEF AnswerBet
<1>2. /\ UNCHANGED <<lpc, msg, mirror, kpc, funds, stage, peer>>
      /\ Asked /\ debt = Null /\ stage = "seated" /\ request' = Null /\ peer = "open"
  BY DEF AnswerBet, Asked, ServerOnly, screen, listener, keyboard
<1>3. Seated /\ JoinFirst
  BY <1>2 DEF MoneyInv
<1>4. PICK m : m = [type |-> v, re |-> "bet"]
  OBVIOUS
<1>5. /\ Len(inbox) \in Nat /\ Len(inbox') = Len(inbox) + 1
      /\ \A i \in 1 .. Len(inbox) : inbox'[i] = inbox[i]
      /\ inbox'[Len(inbox) + 1] = m
  BY <1>1, <1>4, Told
<1>6. Fits(0)'
  <2>1. CASE v = "ok" /\ debt' = request.amount
    <3>1. PICK p \in Int : p = request.amount
      BY <1>2, AskedAmount
    <3>2. PICK a \in Amount \cup {0} : p <= Net + a
      BY <1>2, <1>3, <3>1 DEF Seated, Fits
    <3>3. Net = funds /\ Net' = funds - p
      <4>1. debt' # Null
        BY <2>1, <3>1, ClientAssumption
      <4> QED
        BY <1>2, <2>1, <3>1, <4>1 DEF Net
    <3>4. funds \in Int /\ a \in Nat
      BY AmountNat DEF TypeOK
    <3>5. 0 <= (funds - p) + a
      BY <3>2, <3>3, <3>4
    <3> QED
      BY <3>3, <3>5 DEF Fits
  <2>2. CASE v = "no" /\ debt' = Null
    BY <1>2, <2>2 DEF MoneyInv, Fits, Net
  <2> QED
    BY <1>1, <2>1, <2>2
<1>7. JoinFirst'
  BY <1>1, <1>2, <1>3, JoinFirstTold
<1>8. Shown(Len(inbox) + 1, funds)
  BY <1>3 DEF Seated
<1>9. ~ IsAccount(m)
  BY <1>4 DEF IsAccount
<1>10. Shown(Len(inbox) + 1, funds)'
  <2>1. \A n : Shown(Len(inbox) + 1, n) => (Shown(Len(inbox) + 1, n))'
    BY <1>1, <1>2, <1>4, <1>9, ShownTold
  <2>2. PICK f : f = funds
    OBVIOUS
  <2>3. (Shown(Len(inbox) + 1, f))'
    BY <1>8, <2>1, <2>2 DEF Shown, CopyIs
  <2> QED
    BY <1>2, <2>2, <2>3 DEF Shown, CopyIs
<1>11. ~ Asked' /\ kpc' # "ask"
  BY <1>2 DEF Asked, AnswerInv
<1>12. Unanswered
  BY <1>2 DEF AnswerInv
<1>13. /\ Coming(Len(inbox))' /\ Len(inbox') \in 1 .. Len(inbox')
       /\ \A i \in 1 .. Len(inbox') : Coming(i)' => i = Len(inbox')
  BY <1>4, <1>5, <1>12 DEF Unanswered, Coming, BetAnswer
<1>14. ASSUME NEW k \in 1 .. Len(inbox'), Coming(k)'
       PROVE  FitFrom(k + 1)' /\ \E n \in Int : Fits(n)' /\ Shown(k, n)'
  <2>1. k = Len(inbox) + 1 /\ k = Len(inbox') /\ k \in 1 .. (Len(inbox) + 1)
    BY <1>5, <1>13, <1>14
  <2>2. FitFrom(k + 1)'
    BY <1>5, <2>1 DEF FitFrom
  <2>3. PICK f \in Int : f = funds
    BY DEF TypeOK
  <2>4. Fits(f)'
    BY <1>2, <2>3, FitsFundsNext DEF Fits
  <2>5. Shown(k, f)
    BY <1>8, <2>1, <2>3
  <2>6. Shown(k, f)'
    BY <1>1, <1>2, <2>1, <2>5, ShownTold
  <2> QED
    BY <2>2, <2>4, <2>6
<1> QED
  BY <1>2, <1>6, <1>7, <1>10, <1>11, <1>13, <1>14 DEF MoneyInv, Seated, Unseated

LEMMA MoneyServer ==
  ASSUME TypeOK, TypeOK', StartInv, MoneyInv, peer = "open" => AnswerInv, ServerStep \/ Reset
  PROVE  MoneyInv'
<1>1. UNCHANGED <<lpc, msg, mirror, kpc, stake>>
  BY ServerLeaves
<1>2. Net \in Int
  BY NetInt
<1>3. CASE Reset
  <2>1. Net' >= Net /\ UNCHANGED <<stage, debt, request>> /\ peer' # "open" /\ inbox' = <<>>
    BY <1>2, <1>3 DEF Reset, server, Net
  <2>2. Unseated' => Early'
    BY <1>1, <2>1 DEF MoneyInv, Unseated, Early, IsAccount, Asked
  <2> QED
    BY <2>1, <2>2, MoneyClosed
<1>4. CASE ServerCloses
  <2>1. /\ UNCHANGED <<stage, funds, inbox>> /\ peer' # "open" /\ request' = Null /\ debt' = Null
    BY <1>4 DEF ServerCloses
  <2>2. Net' >= Net
    <3>1. Net' = funds /\ funds \in Int
      BY <2>1 DEF Net, TypeOK
    <3> QED
      BY <1>2, <3>1, NetInt
  <2>3. Unseated' => Early'
    BY <1>1, <2>1 DEF MoneyInv, Unseated, Early, IsAccount, Asked
  <2> QED
    BY <2>1, <2>2, <2>3, MoneyClosed
<1>5. CASE AnswerJoin \/ Introduce \/ AnswerBet
  <2>1. peer = "open"
    BY <1>5 DEF AnswerJoin, Introduce, AnswerBet, ServerOnly
  <2> QED
    BY <1>5, <2>1, MoneyJoined, MoneyIntroduced, MoneyAnswered
<1>6. CASE Bill
  <2>1. Net' >= Net
    <3>1. debt # Null /\ debt' = Null /\ funds' = funds - debt
      BY <1>6 DEF Bill
    <3>2. Net' = Net
      BY <3>1 DEF Net
    <3> QED
      BY <1>2, <3>2
  <2>2. /\ Tell([type |-> "funds", funds |-> funds']) /\ UNCHANGED <<stage, peer, request>>
        /\ debt' = Null /\ debt # Null
    BY <1>6 DEF Bill
  <2>3. ~ Unseated /\ (peer = "open" => AnswerInv) /\ stage \in {"seated", "left"}
    BY <2>2 DEF MoneyInv, Unseated, Early, TypeOK
  <2>4. CASE stage = "seated"
    <3>1. PICK m : m = [type |-> "funds", funds |-> funds']
      OBVIOUS
    <3>2. IsAccount(m) /\ m.funds = funds' /\ m.type \notin {"ok", "no"}
      BY <3>1 DEF IsAccount
    <3>3. Tell(m) /\ ~ Unseated' /\ stage' = "seated"
      BY <2>2, <2>4, <3>1 DEF Unseated
    <3> QED
      BY <1>1, <2>1, <2>2, <2>4, <3>2, <3>3, MoneyTold
  <2>5. CASE stage = "left"
    BY <1>1, <2>1, <2>2, <2>5, MoneyLeft
  <2> QED
    BY <2>3, <2>4, <2>5
<1>7. CASE AcceptQuit
  <2>1. /\ Tell([type |-> "gone"]) /\ UNCHANGED <<funds, debt, peer>> /\ stage' = "left"
    BY <1>7 DEF AcceptQuit
  <2>2. Net' >= Net
    BY <1>2, <2>1 DEF Net
  <2> QED
    BY <1>1, <1>7, <2>1, <2>2, MoneyLeft DEF AcceptQuit
<1>8. CASE Pay
  <2>1. /\ Tell([type |-> "funds", funds |-> funds']) /\ UNCHANGED <<stage, peer, request, debt>>
        /\ stage = "seated" /\ funds' = funds + Prize
    BY <1>8 DEF Pay
  <2>2. Net' >= Net
    <3>1. funds \in Int /\ Prize \in Nat
      BY ClientAssumption DEF TypeOK
    <3>2. PICK f \in Int : f = funds
      BY <3>1
    <3>3. CASE debt = Null
      <4>1. Net = f /\ Net' = f + Prize
        BY <2>1, <3>2, <3>3 DEF Net
      <4> QED
        BY <3>1, <4>1
    <3>4. CASE debt # Null
      <4>1. PICK d \in Nat : d = debt
        BY <3>4, AmountNat DEF TypeOK
      <4>2. Net = f - d /\ Net' = (f + Prize) - d
        BY <2>1, <3>2, <3>4, <4>1 DEF Net
      <4> QED
        BY <3>1, <4>2
    <3> QED
      BY <3>3, <3>4
  <2>3. PICK m : m = [type |-> "funds", funds |-> funds']
    OBVIOUS
  <2>4. IsAccount(m) /\ m.funds = funds' /\ m.type \notin {"ok", "no"}
    BY <2>3 DEF IsAccount
  <2> QED
    BY <1>1, <2>1, <2>2, <2>3, <2>4, MoneyTold
<1>9. ASSUME NEW from, NEW to, NEW m \in {"start", "stop", "broke", "out"}, Announce(from, to, m)
      PROVE  MoneyInv'
  <2>1. /\ Tell([type |-> m]) /\ UNCHANGED <<stage, funds, debt, peer, request>>
    BY <1>9 DEF Announce
  <2>2. Net' >= Net
    BY <1>2, <2>1 DEF Net
  <2>3. ~ IsAccount([type |-> m]) /\ [type |-> m].type \notin {"ok", "no"}
    BY DEF IsAccount
  <2> QED
    BY <1>1, <2>1, <2>2, <2>3, MoneyTold
<1> QED
  BY <1>3, <1>4, <1>5, <1>6, <1>7, <1>8, <1>9 DEF ServerStep, ServerListens, Round

-----------------------------------------------------------------------------
\* The next message read: what was shown before the k-th is so before the one
\* that is the k-th then.
LEMMA ShownRead ==
  ASSUME TypeOK, inbox # <<>>, msg' = Head(inbox), inbox' = Tail(inbox), UNCHANGED mirror,
         ~ InHand, IsAccount(msg') => lpc' = "handle"
  PROVE  \A k \in 2 .. (Len(inbox) + 1) : \A n : Shown(k, n) => Shown(k - 1, n)'
<1>1. /\ Len(inbox) \in Nat /\ Len(inbox) >= 1 /\ Len(inbox') = Len(inbox) - 1
      /\ \A i \in 1 .. Len(inbox') : inbox'[i] = inbox[i + 1]
      /\ msg' = inbox[1]
  BY Received
<1> SUFFICES ASSUME NEW k \in 2 .. (Len(inbox) + 1), NEW n, Shown(k, n) PROVE Shown(k - 1, n)'
  OBVIOUS
<1>2. CASE CopyIs(n) /\ \A j \in 1 .. (k - 1) : ~ IsAccount(inbox[j])
  <2>1. ~ IsAccount(msg')
    BY <1>1, <1>2
  <2>2. CopyIs(n)'
    BY <1>2, <2>1 DEF CopyIs, InHand, IsAccount
  <2>3. \A j \in 1 .. (k - 1 - 1) : ~ IsAccount(inbox'[j])
    BY <1>1, <1>2
  <2> QED
    BY <2>2, <2>3 DEF Shown, IsAccount
<1>3. ASSUME NEW i \in 1 .. (k - 1), IsAccount(inbox[i]), inbox[i].funds = n,
             \A j \in (i + 1) .. (k - 1) : ~ IsAccount(inbox[j])
      PROVE  Shown(k - 1, n)'
  <2>1. CASE i = 1
    <3>1. InHand' /\ CopyIs(n)'
      BY <1>1, <1>3, <2>1 DEF CopyIs, InHand, IsAccount
    <3>2. \A j \in 1 .. (k - 1 - 1) : ~ IsAccount(inbox'[j])
      BY <1>1, <1>3, <2>1
    <3> QED
      BY <3>1, <3>2 DEF Shown, IsAccount
  <2>2. CASE i # 1
    <3>1. /\ i - 1 \in 1 .. (k - 1 - 1) /\ inbox'[i - 1] = inbox[i]
          /\ \A j \in ((i - 1) + 1) .. (k - 1 - 1) : ~ IsAccount(inbox'[j])
      BY <1>1, <1>3, <2>2
    <3> QED
      BY <1>3, <3>1 DEF Shown, IsAccount
  <2> QED
    BY <2>1, <2>2
<1> QED
  BY <1>2, <1>3 DEF Shown

\* What a client not seated yet has read.
LEMMA EarlyRead ==
  ASSUME TypeOK, Early, inbox # <<>>, msg' = Head(inbox), inbox' = Tail(inbox),
         UNCHANGED <<mirror, debt, request, kpc>>
  PROVE  Early'
<1>1. /\ Len(inbox) \in Nat /\ Len(inbox) >= 1 /\ Len(inbox') = Len(inbox) - 1
      /\ \A i \in 1 .. Len(inbox') : inbox'[i] = inbox[i + 1]
      /\ msg' = inbox[1]
  BY Received
<1>2. 1 \in 1 .. Len(inbox) /\ \A i \in 1 .. Len(inbox') : i + 1 \in 1 .. Len(inbox)
  BY <1>1
<1>3. ~ IsAccount(msg') /\ \A i \in 1 .. Len(inbox') : ~ IsAccount(inbox'[i])
  BY <1>1, <1>2 DEF Early
<1> QED
  BY <1>3 DEF Early, IsAccount, Asked

\* The loop of the join drops no account: its answer is still to come.
LEMMA JoinFirstRead ==
  ASSUME TypeOK, JoinFirst, inbox # <<>>, msg' = Head(inbox), inbox' = Tail(inbox),
         lpc = "joinRecv", lpc' = "joinStore"
  PROVE  JoinFirst' /\ ~ IsAccount(msg')
<1>1. /\ Len(inbox) \in Nat /\ Len(inbox) >= 1 /\ Len(inbox') = Len(inbox) - 1
      /\ \A i \in 1 .. Len(inbox') : inbox'[i] = inbox[i + 1]
      /\ msg' = inbox[1]
  BY Received
<1>2. PICK j \in 1 .. Len(inbox) :
        inbox[j].type \in {"ok", "no"} /\ \A i \in 1 .. (j - 1) : ~ IsAccount(inbox[i])
  BY DEF JoinFirst
<1>3. CASE j = 1
  BY <1>1, <1>2, <1>3 DEF JoinFirst, IsConfirmation, IsAccount
<1>4. CASE j # 1
  <2>1. j - 1 \in 1 .. Len(inbox') /\ inbox'[j - 1] = inbox[j] /\ 1 \in 1 .. (j - 1)
    BY <1>1, <1>4
  <2>2. \A i \in 1 .. (j - 1 - 1) : ~ IsAccount(inbox'[i])
    BY <1>1, <1>2
  <2> QED
    BY <1>1, <1>2, <2>1, <2>2 DEF JoinFirst, IsAccount
<1> QED
  BY <1>3, <1>4

LEMMA MoneyRead ==
  ASSUME TypeOK, TypeOK', AnswerInv, MoneyInv, peer = "open",
         inbox # <<>>, msg' = Head(inbox), inbox' = Tail(inbox),
         UNCHANGED <<stage, funds, debt, request, mirror, kpc, stake, peer>>,
         \/ lpc = "joinRecv" /\ lpc' = "joinStore"
         \/ lpc = "recv" /\ lpc' = "handle"
  PROVE  MoneyInv'
<1>1. /\ Len(inbox) \in Nat /\ Len(inbox) >= 1 /\ Len(inbox') = Len(inbox) - 1
      /\ \A i \in 1 .. Len(inbox') : inbox'[i] = inbox[i + 1]
      /\ msg' = inbox[1]
  BY Received
<1>2. 1 \in 1 .. Len(inbox) /\ \A i \in 1 .. Len(inbox') : i + 1 \in 1 .. Len(inbox)
  BY <1>1
<1>3. \A n : Fits(n)' <=> Fits(n)
  BY DEF Fits, Net
<1>4. Unseated' => Early'
  BY EarlyRead DEF MoneyInv, Unseated
<1>5. stage' # "unheard" => JoinFirst'
  BY JoinFirstRead DEF MoneyInv, JoinFirst
<1>6. ASSUME stage = "seated" PROVE Seated'
  <2>0. Seated
    BY <1>6 DEF MoneyInv
  <2>1. ~ InHand /\ (IsAccount(msg') => lpc' = "handle")
    BY <1>6, JoinFirstRead DEF InHand, MoneyInv
  <2>2. \A k \in 2 .. (Len(inbox) + 1) : \A n : Shown(k, n) => Shown(k - 1, n)'
    BY <2>1, ShownRead
  <2>3. Shown(Len(inbox) + 1, funds)'
    <3>1. PICK f : f = funds
      OBVIOUS
    <3>2. Shown(Len(inbox) + 1, f)
      BY <2>0, <3>1 DEF Seated
    <3>3. Len(inbox) + 1 \in 2 .. (Len(inbox) + 1) /\ Len(inbox) + 1 - 1 = Len(inbox') + 1
      BY <1>1
    <3>4. PICK k \in 2 .. (Len(inbox) + 1) : k = Len(inbox) + 1
      BY <3>3
    <3>5. Shown(k - 1, f)'
      BY <2>2, <3>2, <3>4
    <3> QED
      BY <3>1, <3>3, <3>4, <3>5 DEF Shown, CopyIs
  <2>4. (Asked' => Fits(request.amount)') /\ (kpc' = "ask" => Fits(stake)')
    BY <1>3, <2>0 DEF Seated, Asked
  <2>5. \A i \in 1 .. Len(inbox') : /\ Coming(i)' <=> Coming(i + 1)
                                    /\ IsAccount(inbox'[i]) <=> IsAccount(inbox[i + 1])
    BY <1>1 DEF Coming
  <2>6. ASSUME NEW k \in 1 .. Len(inbox), FitFrom(k + 1) PROVE FitFrom(k)'
    <3>1. ASSUME NEW i \in k .. Len(inbox'), IsAccount(inbox'[i]) PROVE Fits(inbox[i].funds)'
      <4>1. i \in 1 .. Len(inbox') /\ i + 1 \in (k + 1) .. Len(inbox)
        BY <1>1, <3>1
      <4>2. Fits(inbox[i + 1].funds)
        BY <2>5, <2>6, <3>1, <4>1 DEF FitFrom
      <4>3. inbox'[i].funds = inbox[i + 1].funds
        BY <1>1, <4>1
      <4> QED
        BY <4>2, <4>3 DEF Fits, Net
    <3> QED
      BY <3>1 DEF FitFrom, IsAccount
  <2>7. FitFrom(1) => FitFrom(2)
    BY DEF FitFrom
  <2>8. ASSUME \A i \in 1 .. Len(inbox') : ~ Coming(i)' PROVE FitFrom(1)' /\ FitNow'
    <3>1. CASE Coming(1)
      <4>1. FitFrom(1 + 1) /\ \E n \in Int : Fits(n) /\ Shown(1, n)
        BY <1>2, <2>0, <3>1 DEF Seated
      <4>2. FitFrom(1)'
        BY <1>2, <2>6, <4>1
      <4>3. ~ IsAccount(msg')
        BY <1>1, <3>1 DEF IsAccount, Coming, BetAnswer
      <4>4. PICK n \in Int : Fits(n) /\ Shown(1, n)
        BY <4>1
      <4>5. Fits(mirror)
        BY <2>1, <4>4 DEF Shown, CopyIs
      <4> QED
        BY <1>3, <4>2, <4>3, <4>5 DEF FitNow, InHand, IsAccount
    <3>2. CASE ~ Coming(1)
      <4>1. ASSUME NEW i \in 1 .. Len(inbox) PROVE ~ Coming(i)
        <5>1. CASE i = 1
          BY <3>2, <5>1
        <5>2. CASE i # 1
          <6>1. i - 1 \in 1 .. Len(inbox') /\ (i - 1) + 1 = i
            BY <1>1, <5>2
          <6> QED
            BY <2>5, <2>8, <6>1
        <5> QED
          BY <5>1, <5>2
      <4>2. FitFrom(1) /\ FitNow
        BY <2>0, <4>1 DEF Seated
      <4>3. FitFrom(1)'
        BY <1>2, <2>6, <2>7, <4>2
      <4>4. IsAccount(msg') => Fits(msg'.funds)
        BY <1>1, <1>2, <4>2 DEF FitFrom
      <4> QED
        BY <1>3, <4>2, <4>3, <4>4 DEF FitNow, InHand, IsAccount
    <3> QED
      BY <3>1, <3>2
  <2>9. ASSUME NEW k \in 1 .. Len(inbox'), Coming(k)'
        PROVE  FitFrom(k + 1)' /\ \E n \in Int : Fits(n)' /\ Shown(k, n)'
    <3>1. /\ k + 1 \in 1 .. Len(inbox) /\ Coming(k + 1) /\ k + 1 \in 2 .. (Len(inbox) + 1)
          /\ (k + 1) - 1 = k
      BY <1>1, <2>5, <2>9
    <3>2. FitFrom((k + 1) + 1) /\ \E n \in Int : Fits(n) /\ Shown(k + 1, n)
      BY <2>0, <3>1 DEF Seated
    <3>3. FitFrom(k + 1)'
      BY <2>6, <3>1, <3>2
    <3>4. PICK n \in Int : Fits(n) /\ Shown(k + 1, n)
      BY <3>2
    <3>5. Shown(k, n)'
      BY <2>2, <3>1, <3>4
    <3> QED
      BY <1>3, <3>3, <3>4, <3>5
  <2> QED
    BY <2>3, <2>4, <2>8, <2>9 DEF Seated
<1> QED
  BY <1>3, <1>4, <1>5, <1>6 DEF MoneyInv

\* The account in hand becomes the copy.
LEMMA MoneyTaken ==
  ASSUME TypeOK, TypeOK', MoneyInv,
         InHand, ~ InHand', IsAccount(msg), mirror' = msg.funds, lpc' = "draw",
         UNCHANGED <<stage, funds, debt, inbox, msg, request, kpc, stake, peer>>
  PROVE  MoneyInv'
<1>1. \A n : (Fits(n)' <=> Fits(n)) /\ (CopyIs(n) => CopyIs(n)')
  BY DEF Fits, Net, CopyIs
<1>2. \A k \in Int : \A n : Shown(k, n) => Shown(k, n)'
  BY <1>1, ShownSame
<1>3. ~ Unseated'
  BY DEF MoneyInv, Unseated, Early
<1>4. JoinFirst'
  BY DEF JoinFirst
<1>5. ASSUME Seated PROVE Seated'
  <2>1. Shown(Len(inbox) + 1, funds)'
    BY <1>2, <1>5, AccountFunds DEF Seated
  <2>2. (Asked' => Fits(request.amount)') /\ (kpc' = "ask" => Fits(stake)')
    BY <1>1, <1>5 DEF Seated, Asked
  <2>3. \A k : FitFrom(k) => FitFrom(k)'
    BY <1>1 DEF FitFrom, IsAccount
  <2>4. FitNow => FitNow'
    BY <1>1 DEF FitNow
  <2>5. \A i : Coming(i)' <=> Coming(i)
    BY DEF Coming
  <2>6. (\A i \in 1 .. Len(inbox') : ~ Coming(i)') => FitFrom(1)' /\ FitNow'
    BY <1>5, <2>3, <2>4, <2>5 DEF Seated
  <2>7. ASSUME NEW k \in 1 .. Len(inbox'), Coming(k)'
        PROVE  FitFrom(k + 1)' /\ \E n \in Int : Fits(n)' /\ Shown(k, n)'
    BY <1>1, <1>2, <1>5, <2>3, <2>5, <2>7 DEF Seated
  <2> QED
    BY <2>1, <2>2, <2>6, <2>7 DEF Seated
<1> QED
  BY <1>1, <1>3, <1>4, <1>5 DEF MoneyInv

LEMMA MoneyListener ==
  ASSUME TypeOK, TypeOK', StartInv, EdgeInv, MoneyInv, peer = "open" => AnswerInv, ListenerStep
  PROVE  MoneyInv'
<1>1. UNCHANGED <<stage, funds, debt, request, peer, stake>> /\ (Asked' => Asked)
  BY ListenerLeaves DEF Asked
<1>2. ASSUME UNCHANGED <<inbox, msg, mirror>>, lpc' # "handle", lpc = "handle" => ~ IsAccount(msg),
             kpc' \in {kpc, "first"},
             lpc' \in {"joinRecv", "joinStore"} => lpc = "joinStore" /\ ~ IsConfirmation
      PROVE  MoneyInv'
  <2>1. InHand' <=> InHand
    BY <1>2 DEF InHand
  <2> QED
    BY <1>1, <1>2, <2>1, MoneyKept
<1> USE DEF ListenerOnly, wire, slot, screen, listener, keyboard
<1>3. ASSUME NEW from, NEW to, Receive(from, to),
             (from = "joinRecv" /\ to = "joinStore") \/ (from = "recv" /\ to = "handle")
      PROVE  MoneyInv'
  <2>1. UNCHANGED <<mirror, kpc>> /\ lpc = from /\ lpc' = to
    BY <1>3 DEF Receive, LGoto
  <2>2. CASE inbox # <<>> /\ msg' = Head(inbox) /\ inbox' = Tail(inbox)
    <3>1. CASE peer = "open"
      BY <1>1, <1>3, <2>1, <2>2, <3>1, MoneyRead
    <3>2. CASE peer # "open"
      <4>1. Net' >= Net
        <5>1. Net' = Net
          BY <1>1 DEF Net
        <5> QED
          BY <5>1, NetInt
      <4>2. Unseated' => Early'
        BY <1>1, <2>1, <2>2, EarlyRead DEF MoneyInv, Unseated
      <4> QED
        BY <1>1, <3>2, <4>1, <4>2, MoneyClosed
    <3> QED
      BY <3>1, <3>2
  <2>3. CASE inbox = <<>> /\ peer # "open" /\ UNCHANGED <<msg, inbox>>
    <3>1. Net' >= Net
      <4>1. Net' = Net
        BY <1>1 DEF Net
      <4> QED
        BY <4>1, NetInt
    <3>2. Unseated' => Early'
      BY <1>1, <2>1, <2>3 DEF MoneyInv, Unseated, Early, IsAccount
    <3> QED
      BY <1>1, <2>3, <3>1, <3>2, MoneyClosed
  <2> QED
    BY <1>3, <2>2, <2>3 DEF Receive
<1>4. ASSUME NEW from, NEW to, Store(from, to), to \in {"joinWake", "wake"} PROVE MoneyInv'
  BY <1>2, <1>4 DEF Store, LGoto, IsConfirmation, IsAccount
<1>5. CASE JoinLoop
  <2>1. CASE ~ IsConfirmation /\ LMoves("joinStore", IF conn /\ msg.type # "out" THEN "joinRecv" ELSE "judge")
    BY <1>2, <2>1 DEF LMoves, LGoto
  <2>2. CASE lpc = "joinWake" /\ LGoto("judge") /\ Broadcast
    BY <1>2, <2>2 DEF LGoto, Broadcast
  <2>3. CASE Receive("joinRecv", "joinStore")
    BY <1>3, <2>3
  <2>4. CASE Store("joinStore", "joinWake")
    BY <1>4, <2>4
  <2> QED
    BY <1>5, <2>1, <2>2, <2>3, <2>4 DEF JoinLoop
<1>6. CASE Judge
  BY <1>2, <1>6 DEF Judge, Again, LGoto
<1>7. CASE Serve
  <2>1. CASE TakeFunds
    <3>1. /\ InHand /\ ~ InHand' /\ IsAccount(msg) /\ mirror' = msg.funds
          /\ UNCHANGED <<inbox, msg, kpc>> /\ lpc' = "draw"
      BY <2>1 DEF TakeFunds, LGoto, InHand, IsAccount
    <3> QED
      BY <1>1, <3>1, MoneyTaken
  <2>2. CASE TakeGone
    <3>1. stage = "left"
      BY <2>2 DEF TakeGone, EdgeInv, Present
    <3>2. lpc' = "farewell"
      BY <2>2 DEF TakeGone, LGoto
    <3>3. Fits(0)'
      BY <1>1 DEF MoneyInv, Fits, Net
    <3> QED
      BY <1>1, <3>1, <3>2, <3>3 DEF MoneyInv, Unseated, JoinFirst
  <2>3. CASE TakeStart
    <3>1. CASE mirror # Null /\ LGoto("enable")
      BY <1>2, <2>3, <3>1 DEF TakeStart, LGoto, IsAccount
    <3>2. CASE UNCHANGED lpc
      <4>1. UNCHANGED <<inbox, msg, mirror, kpc>> /\ (InHand' <=> InHand)
        BY <2>3, <3>2 DEF TakeStart, InHand, IsAccount
      <4> QED
        BY <1>1, <3>2, <4>1, MoneyKept
    <3> QED
      BY <2>3, <3>1, <3>2 DEF TakeStart
  <2>4. CASE TakeStop
    BY <1>2, <2>4 DEF TakeStop, LGoto, IsAccount
  <2>5. ASSUME NEW from, LDone(from), from = "handle" => msg.type = "out" PROVE MoneyInv'
    BY <1>2, <2>5 DEF LDone, Again, LGoto, IsAccount
  <2>6. CASE lpc = "enable" /\ Again /\ Enable
    BY <1>2, <2>6 DEF Again, LGoto, Enable
  <2>7. CASE lpc = "wake" /\ Again /\ Broadcast
    BY <1>2, <2>7 DEF Again, LGoto, Broadcast
  <2>8. CASE Receive("recv", "handle")
    BY <1>3, <2>8
  <2>9. CASE Store("handle", "wake")
    BY <1>4, <2>9
  <2> QED
    BY <1>7, <2>1, <2>2, <2>3, <2>4, <2>5, <2>6, <2>7, <2>8, <2>9 DEF Serve, Draw
<1>8. CASE Leave
  BY <1>2, <1>8 DEF Leave, LGoto, Enable, CloseStream
<1> QED
  BY <1>5, <1>6, <1>7, <1>8 DEF ListenerStep

LEMMA MoneyMain ==
  ASSUME TypeOK, TypeOK', MoneyInv, MainStep
  PROVE  MoneyInv'
<1>1. UNCHANGED <<stage, funds, debt, inbox, mirror, lpc, msg, kpc, stake>> /\ (InHand' <=> InHand)
  BY MainLeaves DEF InHand, IsAccount
<1>0. Asks("join", 0) # Null
  BY ClientAssumption DEF Asks, Request
<1>2. request' # request => request' # Null /\ request'.type = "join"
  BY <1>0, SendLeaves DEF MainStep, JoinGame, AskServer, JoinWait, JoinKeyboard, JoinListener, MainMoves, Asks
<1>3. peer' = "open" => peer = "open"
  BY SendLeaves DEF MainStep, JoinGame, AskServer, JoinWait, JoinKeyboard, JoinListener, MainMoves
<1>4. Asked' => Asked /\ request' = request
  BY <1>2 DEF Asked
<1> QED
  BY <1>1, <1>3, <1>4, MoneyKept

\* What a step of the keyboard asks for fits the copy.
LEMMA MoneyKeyboard ==
  ASSUME TypeOK, TypeOK', MoneyInv, peer = "open" => AnswerInv, KeyboardStep \/ User,
         peer' = "open" => peer = "open"
  PROVE  MoneyInv'
<1>1. UNCHANGED <<stage, funds, debt, inbox, mirror, lpc, msg>> /\ (InHand' <=> InHand)
  BY KeyboardLeaves DEF InHand, IsAccount
<1>2. ASSUME kpc' \notin {"ask", "waiting"} \/ (kpc' = kpc /\ stake' = stake), Asked' => Asked /\ request' = request
      PROVE  MoneyInv'
  BY <1>1, <1>2, MoneyKept
<1> USE DEF KGoto
<1>3. ASSUME NEW from, NEW to, to \notin {"ask", "waiting"}, KMoves(from, to) PROVE MoneyInv'
  BY <1>2, <1>3 DEF KMoves, Asked
<1>4. CASE Gate
  BY <1>3, <1>4 DEF Gate
<1>5. CASE Resign
  <2>1. Asked' => Asked /\ request' = request
    BY <1>5, SendLeaves DEF Resign, Asked
  <2> QED
    BY <1>2, <1>5, <2>1 DEF Resign
<1>6. CASE Compare
  <2>1. UNCHANGED <<request>> /\ kpc = "compare" /\ (Asked' => Asked /\ request' = request)
    BY <1>6 DEF Compare, Asked
  <2>2. CASE kpc' = "ask"
    <3>1. mirror # Null /\ stake' = stake
      BY <1>6, <2>2 DEF Compare
    <3>2. PICK c \in Int : c = mirror
      BY <3>1 DEF TypeOK
    <3>3. PICK s \in Int : s = stake
      BY AmountNat DEF TypeOK
    <3>4. ~ (c < s)
      BY <1>6, <2>2, <3>1, <3>2, <3>3 DEF Compare
    <3>5. ASSUME peer = "open", stage = "seated" PROVE Fits(stake')
      <4>1. Seated /\ Unanswered
        BY <2>1, <3>5 DEF MoneyInv, AnswerInv
      <4>2. Fits(c)
        BY <3>1, <3>2, <4>1 DEF Seated, Unanswered, FitNow
      <4>3. Fits(s)
        BY <3>4, <4>2, FitsLess
      <4> QED
        BY <3>1, <3>3, <4>3
    <3> QED
      BY <1>1, <2>1, <2>2, <3>1, <3>5, MoneyKept
  <2>3. CASE kpc' # "ask"
    <3>1. kpc' \in {"key", "compare"}
      BY <1>6, <2>3 DEF Compare
    <3> QED
      BY <1>2, <2>1, <3>1
  <2> QED
    BY <2>2, <2>3
<1>7. CASE Bet
  <2>1. kpc = "ask" /\ AskServer("keyboard", [type |-> "bet", amount |-> stake]) /\ kpc' \in {"waiting", "told"}
    BY <1>7 DEF Bet, KeyboardGoesOn
  <2>2. request' \in {request, [type |-> "bet", amount |-> stake]}
    BY <2>1, SendLeaves DEF AskServer
  <2>3. Asked' => (Asked /\ request' = request) \/ (kpc = "ask" /\ request'.amount = stake)
    BY <2>1, <2>2 DEF Asked
  <2> QED
    BY <1>1, <2>1, <2>3, MoneyKept
<1>8. CASE BetWait
  <2>1. kpc = "waiting" /\ kpc' \in {"waiting", "told"} /\ (Asked' => Asked /\ request' = request)
    BY <1>8 DEF BetWait, KeyboardGoesOn, Asked
  <2> QED
    BY <1>1, <2>1, MoneyKept
<1>9. CASE BetOver
  BY <1>2, <1>9 DEF BetOver, Asked
<1>10. CASE User
  BY <1>2, <1>3, <1>10 DEF User, KeyPressed, Presses, AnswerDialog, Asked
<1> QED
  BY <1>3, <1>4, <1>5, <1>6, <1>7, <1>8, <1>9, <1>10 DEF KeyboardStep

LEMMA MoneyStep == TrueInv /\ EdgeInv /\ MoneyInv /\ [Next]_vars => MoneyInv'
<1> SUFFICES ASSUME TrueInv, EdgeInv, MoneyInv, [Next]_vars PROVE MoneyInv'
  OBVIOUS
<1>1. TypeOK /\ TypeOK' /\ StartInv /\ (peer = "open" => AnswerInv)
  BY TypeStep DEF TrueInv
<1>2. CASE UNCHANGED vars
  <2>1. UNCHANGED <<stage, funds, debt, inbox, msg, mirror, lpc, request, kpc, stake, peer>>
    BY <1>2 DEF vars, server, wire, screen, listener, keyboard
  <2>2. (InHand' <=> InHand) /\ (Asked' => Asked)
    BY <2>1 DEF InHand, Asked
  <2> QED
    BY <1>1, <2>1, <2>2, MoneyKept
<1> QED
  BY <1>1, <1>2, PeerStays, MoneyServer, MoneyMain, MoneyListener, MoneyKeyboard DEF Next

(***************************************************************************)
(* The comparison with a copy that lags, and no comparison by the server:  *)
(* whatever was billed and paid between them, no player overdraws his      *)
(* funds by more than one stake.                                           *)
(***************************************************************************)
THEOREM OverdraftSafe == Spec => []OverdraftBounded
<1>1. TypeOK /\ MoneyInv => OverdraftBounded
  <2> SUFFICES ASSUME TypeOK, MoneyInv PROVE OverdraftBounded
    OBVIOUS
  <2>1. PICK a \in Amount \cup {0} : 0 <= Net + a
    BY DEF MoneyInv, Fits
  <2>2. PICK x \in Int, f \in Int : x = Net /\ f = funds
    BY NetInt DEF TypeOK
  <2>3. 0 <= x + a /\ x <= f /\ a \in Nat
    BY <2>1, <2>2, NetInt, AmountNat
  <2>4. f + a >= 0
    BY <2>3
  <2> QED
    BY <2>2, <2>4 DEF OverdraftBounded
<1> QED
  BY TypeInit, TypeStep, EdgeInit, EdgeStep, TrueSafe, MoneyInit, MoneyStep, <1>1, PTL DEF Spec
-----------------------------------------------------------------------------
(***************************************************************************)
(* Whoever waits for the answer to a bet waits for something: his bet, or  *)
(* its answer, is in one of the places it passes, unless what he sent      *)
(* before was his quit; and once the answer is in last_confirmation he is  *)
(* awake, or about to be woken.                                            *)
(***************************************************************************)
AnswerOnItsWay ==
  kpc = "waiting" /\ ~ Over =>
    /\ Resigned \/ Asked \/ Read \/ Stored \/ \E i \in 1 .. Len(inbox) : Coming(i)
    /\ Stored => lpc = "wake" \/ "keyboard" \notin asleep

LEMMA WaitInit == Init => AnswerOnItsWay
BY DEF Init, AnswerOnItsWay

\* A step that takes no part in it.
LEMMA WaitKept ==
  ASSUME AnswerOnItsWay, kpc' = "waiting" => kpc = "waiting", Over => Over',
         UNCHANGED <<request, stage, inbox>>,
         last' = last \/ (last' = Null /\ ~ Stored),
         "keyboard" \in asleep' => "keyboard" \in asleep,
         ~ Read \/ UNCHANGED <<lpc, msg>>, lpc = "wake" => lpc' = "wake"
  PROVE  AnswerOnItsWay'
<1>1. Stored' = Stored /\ Resigned' = Resigned /\ Asked' = Asked
  BY DEF Stored, Resigned, Asked
<1>2. Read => Read'
  BY DEF Read
<1>3. \A i \in 1 .. Len(inbox) : Coming(i)' = Coming(i)
  BY DEF Coming
<1> QED
  BY <1>1, <1>2, <1>3 DEF AnswerOnItsWay

LEMMA WaitServer ==
  ASSUME TypeOK, StartInv, AnswerOnItsWay, ServerStep \/ Reset
  PROVE  AnswerOnItsWay'
<1>1. UNCHANGED <<closed, last, asleep, lpc, msg, kpc>>
  BY ServerLeaves
<1>2. CASE Reset \/ ServerCloses
  BY <1>2 DEF Reset, ServerCloses, AnswerOnItsWay, Over
<1>3. ASSUME NEW m, Tell(m), peer = "open",
             \/ Resigned' \/ kpc = "none" \/ (BetAnswer(m) /\ ~ Resigned)
             \/ request' = request /\ (stage = "left" => stage' = "left")
      PROVE  AnswerOnItsWay'
  <2>1. /\ Len(inbox) \in Nat /\ Len(inbox') = Len(inbox) + 1
        /\ \A i \in 1 .. Len(inbox) : inbox'[i] = inbox[i]
        /\ inbox'[Len(inbox')] = m
    BY <1>3, Told
  <2>2. \A i \in 1 .. Len(inbox) : Coming(i) => i \in 1 .. Len(inbox') /\ Coming(i)'
    BY <2>1 DEF Coming
  <2>3. BetAnswer(m) => \E i \in 1 .. Len(inbox') : Coming(i)'
    <3>1. PICK n : n = Len(inbox')
      OBVIOUS
    <3>2. n \in 1 .. Len(inbox') /\ inbox'[n] = m
      BY <2>1, <3>1
    <3>3. BetAnswer(m) => Coming(n)'
      BY <3>2 DEF Coming
    <3> QED
      BY <3>2, <3>3
  <2>4. Stored' = Stored /\ Read' = Read
    BY <1>1 DEF Stored, Read
  <2>5. request' = request /\ (stage = "left" => stage' = "left")
        => (Asked => Asked') /\ (Resigned => Resigned')
    BY DEF Asked, Resigned
  <2>6. SUFFICES ASSUME kpc = "waiting", ~ Over'
        PROVE  /\ Resigned' \/ Asked' \/ Read' \/ Stored' \/ \E i \in 1 .. Len(inbox') : Coming(i)'
               /\ Stored' => lpc' = "wake" \/ "keyboard" \notin asleep'
    BY <1>1 DEF AnswerOnItsWay
  <2>7. ~ Over
    BY <1>1, <1>3, <2>6 DEF Over
  <2>8. /\ Resigned \/ Asked \/ Read \/ Stored \/ \E i \in 1 .. Len(inbox) : Coming(i)
        /\ Stored => lpc = "wake" \/ "keyboard" \notin asleep
    BY <2>6, <2>7 DEF AnswerOnItsWay
  <2>9. Stored' => lpc' = "wake" \/ "keyboard" \notin asleep'
    BY <1>1, <2>4, <2>8
  <2>10. (\E i \in 1 .. Len(inbox) : Coming(i)) => \E i \in 1 .. Len(inbox') : Coming(i)'
    BY <2>2
  <2>11. CASE BetAnswer(m) /\ ~ Resigned
    BY <2>3, <2>9, <2>11
  <2>12. CASE request' = request /\ (stage = "left" => stage' = "left")
    BY <2>4, <2>5, <2>8, <2>9, <2>10, <2>12
  <2>13. CASE Resigned'
    BY <2>9, <2>13
  <2> QED
    BY <1>3, <2>6, <2>11, <2>12, <2>13
<1>4. CASE AnswerJoin
  BY <1>3, <1>4 DEF AnswerJoin, StartInv, ServerOnly
<1>5. CASE AnswerBet
  <2>1. PICK v \in {"ok", "no"} : Tell([type |-> v, re |-> "bet"])
    BY <1>5 DEF AnswerBet
  <2>2. peer = "open" /\ ~ Resigned
    BY <1>5 DEF AnswerBet, Resigned, ServerOnly
  <2>3. BetAnswer([type |-> v, re |-> "bet"])
    BY DEF BetAnswer
  <2> QED
    BY <1>3, <2>1, <2>2, <2>3
<1>6. CASE AcceptQuit
  BY <1>3, <1>6 DEF AcceptQuit, Resigned, ServerOnly
<1>7. CASE Introduce \/ Bill \/ Pay
  BY <1>3, <1>7 DEF Introduce, Bill, Pay, ServerOnly
<1>8. ASSUME NEW from, NEW to, NEW m, Announce(from, to, m) PROVE AnswerOnItsWay'
  BY <1>3, <1>8 DEF Announce, ServerOnly
<1> QED
  BY <1>2, <1>4, <1>5, <1>6, <1>7, <1>8 DEF ServerStep, ServerListens, Round

LEMMA WaitMain ==
  ASSUME TypeOK, StartInv, AnswerOnItsWay, MainStep, peer' = "open" => peer = "open"
  PROVE  AnswerOnItsWay'
<1>1. UNCHANGED <<stage, closed, inbox, lpc, msg, kpc>> /\ (Over => Over')
  BY MainLeaves DEF Over
<1>2. CASE JoinGame
  BY <1>1, <1>2 DEF JoinGame, StartInv, AnswerOnItsWay
<1>3. CASE JoinWait
  <2>1. request' = request /\ Awake("main", "join")
    BY <1>3 DEF JoinWait
  <2>2. /\ last' = last \/ (last' = Null /\ ~ Stored)
        /\ "keyboard" \in asleep' => "keyboard" \in asleep
    BY <2>1 DEF Awake, Return, Responds, Stored
  <2> QED
    BY <1>1, <2>1, <2>2, WaitKept
<1>4. CASE JoinKeyboard \/ JoinListener
  BY <1>1, <1>4, WaitKept DEF JoinKeyboard, JoinListener, MainMoves, slot
<1> QED
  BY <1>2, <1>3, <1>4 DEF MainStep

LEMMA WaitListener ==
  ASSUME TypeOK, StartInv, AnswerInv, JoinInv, AnswerOnItsWay, ListenerStep, peer = "open"
  PROVE  AnswerOnItsWay'
<1>1. UNCHANGED <<stage, peer, request>>
  BY ListenerLeaves
<1> USE DEF ListenerOnly, wire, slot, stream, listener, keyboard, LGoto
<1>2. ASSUME UNCHANGED <<inbox, last, asleep>>, ~ Read, lpc # "wake", closed => closed',
             kpc' = "waiting" => kpc = "waiting"
      PROVE  AnswerOnItsWay'
  BY <1>1, <1>2, WaitKept DEF Over
<1>3. CASE JoinLoop \/ Judge
  <2>1. kpc = "none"
    BY <1>3 DEF JoinLoop, Receive, Store, LMoves, Judge, StartInv
  <2>2. kpc' # "waiting"
    BY <1>3, <2>1 DEF JoinLoop, Receive, Store, LMoves, Judge, Broadcast
  <2> QED
    BY <2>2 DEF AnswerOnItsWay
<1>4. CASE Receive("recv", "handle")
  <2>1. inbox # <<>> /\ msg' = Head(inbox) /\ inbox' = Tail(inbox) /\ UNCHANGED <<closed, last, asleep, kpc>>
        /\ lpc = "recv" /\ lpc' = "handle"
    BY <1>4 DEF Receive
  <2>2. /\ Len(inbox) \in Nat /\ Len(inbox) >= 1 /\ Len(inbox') = Len(inbox) - 1
        /\ \A i \in 1 .. Len(inbox') : inbox'[i] = inbox[i + 1]
        /\ msg' = inbox[1]
    BY <2>1, Received
  <2>3. ASSUME NEW i \in 1 .. Len(inbox), Coming(i)
        PROVE  Read' \/ \E j \in 1 .. Len(inbox') : Coming(j)'
    <3>1. CASE i = 1
      BY <2>1, <2>2, <2>3, <3>1 DEF Coming, Read
    <3>2. CASE i # 1
      <4>1. i - 1 \in 1 .. Len(inbox') /\ inbox'[i - 1] = inbox[i]
        BY <2>2, <3>2
      <4> QED
        BY <2>3, <4>1 DEF Coming
    <3> QED
      BY <3>1, <3>2
  <2>4. ~ Read /\ Stored' = Stored /\ Asked' = Asked /\ Resigned' = Resigned /\ Over' = Over
    BY <1>1, <2>1 DEF Read, Stored, Asked, Resigned, Over
  <2> QED
    BY <2>1, <2>3, <2>4 DEF AnswerOnItsWay
<1>5. CASE Store("handle", "wake")
  <2>1. Stored' /\ lpc' = "wake"
    BY <1>5, ClientAssumption, MessageTypes DEF Store, JoinInv, Stored, IsConfirmation, TypeOK
  <2> QED
    BY <2>1 DEF AnswerOnItsWay
<1>6. CASE lpc = "wake" /\ Again /\ Broadcast
  <2>1. ~ Read /\ Stored' = Stored /\ Asked' = Asked /\ Resigned' = Resigned /\ Over' = Over
    BY <1>1, <1>6 DEF Broadcast, Read, Stored, Asked, Resigned, Over
  <2>2. UNCHANGED <<inbox, kpc>> /\ asleep' = {}
    BY <1>6 DEF Broadcast
  <2>3. \A i \in 1 .. Len(inbox) : Coming(i)' = Coming(i)
    BY <2>2 DEF Coming
  <2> QED
    BY <2>1, <2>2, <2>3 DEF AnswerOnItsWay
<1>7. CASE TakeFunds \/ TakeGone \/ TakeStart \/ TakeStop
  BY <1>2, <1>7 DEF TakeFunds, TakeGone, TakeStart, TakeStop, Read, BetAnswer
<1>8. CASE msg.type = "out" /\ LDone("handle")
  BY <1>2, <1>8 DEF LDone, Read, BetAnswer
<1>9. CASE Draw \/ (lpc = "enable" /\ Again /\ Enable) \/ Leave
  BY <1>2, <1>9 DEF Draw, LDone, Enable, Leave, CloseStream, Read
<1> QED
  BY <1>3, <1>4, <1>5, <1>6, <1>7, <1>8, <1>9 DEF ListenerStep, Serve

LEMMA Shapes ==
  /\ \A a \in Amount \cup {0}, t \in {"join", "quit", "bet"} :
       /\ Asks(t, a) \in Request /\ Asks(t, a) # Null
       /\ Asks(t, a).type = t /\ Asks(t, a).amount = a
  /\ \A m \in Request : m = Asks(m.type, m.amount) /\ m.amount \in Amount \cup {0}
BY ClientAssumption DEF Asks, Request

LEMMA WaitKeyboard ==
  ASSUME TypeOK, AnswerInv, AnswerOnItsWay, KeyboardStep \/ User, peer' = "open" => peer = "open"
  PROVE  AnswerOnItsWay'
<1>1. UNCHANGED <<stage, closed, inbox, lpc, msg>>
  BY KeyboardLeaves
<1> USE DEF KGoto
<1>2. CASE kpc' # "waiting"
  BY <1>2 DEF AnswerOnItsWay
<1>3. CASE Gate \/ Resign \/ Compare \/ BetOver \/ User
  BY <1>2, <1>3 DEF Gate, KMoves, Resign, Compare, BetOver, User, KeyPressed, Presses, AnswerDialog
<1>4. CASE Bet
  <2>1. ~ Stored /\ AskServer("keyboard", [type |-> "bet", amount |-> stake])
    BY <1>4 DEF Bet, AnswerInv, Unanswered
  <2>2. ~ Stored'
    BY <2>1 DEF AskServer, Responds, Stored
  <2>3. ~ Over' => Asked' \/ Resigned'
    <3>1. SUFFICES ASSUME ~ Over' PROVE Asked' \/ Resigned'
      OBVIOUS
    <3>2. ~ closed /\ peer = "open"
      BY <1>1, <3>1 DEF Over
    <3>3. request' = IF Resigned THEN request ELSE Asks("bet", stake)
      BY <2>1, <3>2 DEF AskServer, Send, Asks
    <3>4. Asks("bet", stake) # Null /\ Asks("bet", stake).type = "bet"
      BY Shapes DEF TypeOK
    <3> QED
      BY <1>1, <3>3, <3>4 DEF Resigned, Asked
  <2> QED
    BY <2>2, <2>3 DEF AnswerOnItsWay
<1>5. CASE BetWait
  <2>1. UNCHANGED <<request, peer>> /\ kpc = "waiting" /\ Awake("keyboard", "bet")
    BY <1>5 DEF BetWait
  <2>2. CASE Responds("bet")
    <3>1. result' # Null
      BY <2>1, <2>2, ClientAssumption, MessageTypes DEF Awake, Return, Responds, TypeOK
    <3> QED
      BY <1>2, <1>5, <3>1 DEF BetWait, KeyboardGoesOn
  <2>3. CASE ~ Responds("bet")
    <3>1. last' = last /\ ~ Stored /\ ~ Stored'
      BY <2>1, <2>3 DEF Awake, Responds, Stored
    <3>2. Read' = Read /\ Asked' = Asked /\ Resigned' = Resigned /\ Over' = Over
      BY <1>1, <2>1 DEF Read, Asked, Resigned, Over
    <3>3. \A i \in 1 .. Len(inbox) : Coming(i)' = Coming(i)
      BY <1>1 DEF Coming
    <3> QED
      BY <1>1, <2>1, <3>1, <3>2, <3>3 DEF AnswerOnItsWay
  <2> QED
    BY <2>2, <2>3
<1>6. ASSUME NEW from \in {"first", "act"}, NEW to \in {"loop", "dialog"}, KMoves(from, to)
      PROVE  AnswerOnItsWay'
  BY <1>2, <1>6 DEF KMoves
<1> QED
  BY <1>3, <1>4, <1>5, <1>6 DEF KeyboardStep

LEMMA WaitStep == TrueInv /\ AnswerOnItsWay /\ [Next]_vars => AnswerOnItsWay'
<1> SUFFICES ASSUME TrueInv, AnswerOnItsWay, [Next]_vars PROVE AnswerOnItsWay'
  OBVIOUS
<1>1. CASE peer' # "open"
  BY <1>1 DEF AnswerOnItsWay, Over
<1>2. CASE peer' = "open"
  <2>1. peer = "open" /\ TypeOK /\ StartInv /\ AnswerInv /\ JoinInv
    BY <1>2, PeerStays DEF TrueInv
  <2>2. CASE UNCHANGED vars
    <3>1. UNCHANGED <<kpc, peer, closed, request, stage, inbox, last, asleep, lpc, msg>>
      BY <2>2 DEF vars, server, wire, stream, slot, listener, keyboard
    <3> QED
      BY <3>1, WaitKept DEF Over
  <2> QED
    BY <2>1, <2>2, WaitServer, WaitMain, WaitListener, WaitKeyboard DEF Next
<1> QED
  BY <1>1, <1>2

(***************************************************************************)
(* No answer to a bet gets lost and no wake-up is missed, however the      *)
(* broadcasts of the server, the drawing and the end of betting come in    *)
(* between: what is left of AnswerHeard is that the threads run.           *)
(***************************************************************************)
THEOREM AnswersArrive == Spec => []AnswerOnItsWay
BY WaitInit, WaitStep, TrueSafe, PTL DEF Spec

-----------------------------------------------------------------------------
(***************************************************************************)
(* The service.  A client that was refused hears no agreement any more, so *)
(* its keyboard's thread never starts, and a join is read by a server that *)
(* has not heard one.                                                      *)
(***************************************************************************)
Unwelcome == {m \in Message : m.type # "ok"}

ServiceInv ==
  /\ stage = "refused" => inbox \in Seq(Unwelcome) /\ msg \in Unwelcome /\ kpc = "none"
  /\ request # Null /\ request.type = "join" => stage = "unheard"
  /\ request # Null /\ request.type # "bet" => request.amount = 0

LEMMA ServiceStart == Init => ServiceInv
BY DEF Init, ServiceInv

\* A step that neither tells, nor reads, nor asks.
LEMMA ServiceKept ==
  ASSUME ServiceInv, UNCHANGED <<stage, inbox, msg>>, request' \in {request, Null},
         kpc = "none" => kpc' = "none"
  PROVE  ServiceInv'
BY DEF ServiceInv

LEMMA UnwelcomeMessages ==
  /\ \A v \in {"ok", "no"} : v # "ok" => [type |-> v, re |-> "join"] \in Unwelcome
  /\ \A t \in {"info", "funds"}, n \in Int : [type |-> t, funds |-> n] \in Unwelcome
  /\ \A t \in {"join", "start", "stop", "broke", "out", "gone"} : [type |-> t] \in Unwelcome
BY MessageTypes DEF Unwelcome, Message, Confirmation

LEMMA ServiceServer ==
  ASSUME TypeOK, StartInv, ServiceInv, ServerStep \/ Reset
  PROVE  ServiceInv'
<1>1. UNCHANGED <<lpc, msg, kpc, mpc>>
  BY ServerLeaves
<1>2. CASE Reset
  BY <1>1, <1>2 DEF Reset, ServiceInv, server
<1>3. ASSUME NEW m \in Unwelcome, Tell(m), stage' # stage => stage' # "refused" /\ stage # "unheard",
             request' \in {request, Null}
      PROVE  ServiceInv'
  <2>1. stage' = "refused" => inbox' \in Seq(Unwelcome)
    BY <1>3 DEF ServiceInv, Tell
  <2> QED
    BY <1>1, <1>3, <2>1 DEF ServiceInv
<1>4. CASE AnswerJoin
  <2>1. PICK v \in {"ok", "no"} : /\ Tell([type |-> v, re |-> "join"])
                                  /\ stage' = IF v = "ok" THEN "confirmed" ELSE "refused"
    BY <1>4 DEF AnswerJoin
  <2>2. inbox \in Seq(Silent) /\ msg \in Silent /\ kpc = "none" /\ request' = Null
    BY <1>4 DEF AnswerJoin, StartInv
  <2>3. Silent \subseteq Unwelcome
    BY DEF Silent, Unwelcome
  <2>4. v # "ok" => inbox' \in Seq(Unwelcome)
    <3>1. inbox \in Seq(Unwelcome)
      BY <2>2, <2>3
    <3> QED
      BY <2>1, <3>1, UnwelcomeMessages DEF Tell
  <2>5. msg' \in Unwelcome /\ kpc' = "none"
    BY <1>1, <2>2, <2>3
  <2> QED
    BY <2>1, <2>2, <2>4, <2>5 DEF ServiceInv
<1>5. CASE Introduce
  BY <1>3, <1>5, UnwelcomeMessages DEF Introduce, TypeOK
<1>6. CASE AnswerBet
  BY <1>1, <1>6 DEF AnswerBet, ServiceInv
<1>7. CASE Bill
  <2>1. funds' \in Int
    BY <1>7, TypeBill
  <2> QED
    BY <1>3, <1>7, <2>1, UnwelcomeMessages DEF Bill
<1>8. CASE AcceptQuit
  BY <1>3, <1>8, UnwelcomeMessages DEF AcceptQuit
<1>9. CASE Pay
  <2>1. funds' \in Int
    BY <1>9, ClientAssumption DEF Pay, TypeOK
  <2> QED
    BY <1>3, <1>9, <2>1, UnwelcomeMessages DEF Pay
<1>10. ASSUME NEW from, NEW to, NEW m \in {"start", "stop", "broke", "out"}, Announce(from, to, m)
       PROVE  ServiceInv'
  BY <1>3, <1>10, UnwelcomeMessages DEF Announce
<1>11. CASE ServerCloses
  BY <1>1, <1>11, ServiceKept DEF ServerCloses
<1> QED
  BY <1>2, <1>4, <1>5, <1>6, <1>7, <1>8, <1>9, <1>10, <1>11 DEF ServerStep, ServerListens, Round

LEMMA ServiceListener ==
  ASSUME TypeOK, StartInv, ServiceInv, ListenerStep
  PROVE  ServiceInv'
<1>1. UNCHANGED <<stage, request>>
  BY ListenerLeaves
<1>2. CASE UNCHANGED <<inbox, msg, kpc>>
  BY <1>1, <1>2, ServiceKept
<1>3. ASSUME NEW from, NEW to, Receive(from, to) PROVE ServiceInv'
  <2>1. kpc' = kpc
    BY <1>3 DEF Receive, ListenerOnly, keyboard
  <2>2. ASSUME stage = "refused" PROVE inbox' \in Seq(Unwelcome) /\ msg' \in Unwelcome
    <3>1. inbox \in Seq(Unwelcome) /\ msg \in Unwelcome
      BY <2>2 DEF ServiceInv
    <3>2. CASE inbox # <<>> /\ msg' = Head(inbox) /\ inbox' = Tail(inbox)
      BY <3>1, <3>2
    <3>3. CASE UNCHANGED <<msg, inbox>>
      BY <3>1, <3>3
    <3> QED
      BY <1>3, <3>2, <3>3 DEF Receive
  <2> QED
    BY <1>1, <2>1, <2>2 DEF ServiceInv
<1>4. CASE Judge
  <2>1. UNCHANGED <<inbox, msg>> /\ (kpc' # kpc => msg.type = "ok")
    BY <1>4 DEF Judge, wire
  <2>2. kpc' # kpc => stage # "refused"
    BY <2>1 DEF ServiceInv, Unwelcome
  <2> QED
    BY <1>1, <2>1, <2>2 DEF ServiceInv
<1>5. CASE JoinLoop
  BY <1>2, <1>3, <1>5 DEF JoinLoop, Store, LMoves, Broadcast, ListenerOnly, wire, keyboard
<1>6. CASE Serve
  BY <1>2, <1>3, <1>6 DEF Serve, TakeFunds, TakeGone, TakeStart, TakeStop, Draw, LDone, Enable,
     Store, Broadcast, ListenerOnly, wire, keyboard
<1>7. CASE Leave
  BY <1>2, <1>7 DEF Leave, Enable, CloseStream, ListenerOnly, wire, keyboard
<1> QED
  BY <1>4, <1>5, <1>6, <1>7 DEF ListenerStep

\* Whoever may ask has heard the answer to its join, and to its last bet.
LEMMA FreeToAsk ==
  ASSUME TypeOK, StartInv, AnswerInv, ServiceInv, kpc \notin {"none", "waiting"}, ~ Resigned
  PROVE  request = Null /\ stage \in {"confirmed", "seated"}
<1>1. stage \in {"confirmed", "seated"}
  BY DEF TypeOK, StartInv, ServiceInv, Resigned
<1>2. request # Null => request.type \in {"join", "bet", "quit"}
  BY DEF TypeOK, Request
<1>3. request = Null
  BY <1>1, <1>2 DEF AnswerInv, Asked, ServiceInv, Resigned
<1> QED
  BY <1>1, <1>3

LEMMA ServiceMain ==
  ASSUME TypeOK, StartInv, ServiceInv, MainStep
  PROVE  ServiceInv'
<1>1. UNCHANGED <<stage, inbox, msg, kpc>>
  BY MainLeaves
<1>2. CASE JoinGame
  <2>1. stage = "unheard" /\ request' \in {request, Asks("join", 0)}
    BY <1>2, SendLeaves DEF JoinGame, AskServer, StartInv, Asks
  <2> QED
    BY <1>1, <2>1, Shapes DEF ServiceInv
<1>3. CASE JoinWait \/ JoinKeyboard \/ JoinListener
  BY <1>1, <1>3, ServiceKept DEF JoinWait, JoinKeyboard, JoinListener, MainMoves
<1> QED
  BY <1>2, <1>3 DEF MainStep

LEMMA ServiceKeyboard ==
  ASSUME TypeOK, ServiceInv, KeyboardStep \/ User
  PROVE  ServiceInv'
<1>1. kpc # "none" /\ UNCHANGED <<stage, inbox, msg>>
  BY KeyboardLeaves
<1>2. CASE request' \in {request, Null}
  BY <1>1, <1>2, ServiceKept
<1>3. CASE Resign \/ Bet
  <2>1. request' \in {request, Asks("quit", 0), Asks("bet", stake)}
    BY <1>3, SendLeaves DEF Resign, Bet, AskServer, Asks
  <2>2. stake \in Amount \cup {0}
    BY DEF TypeOK
  <2> QED
    BY <1>1, <2>1, <2>2, Shapes DEF ServiceInv
<1>4. CASE Gate \/ Compare \/ BetWait \/ BetOver \/ User
  BY <1>2, <1>4 DEF Gate, KMoves, Compare, BetWait, BetOver, User, KeyPressed, Presses,
     AnswerDialog
<1>5. ASSUME NEW from, NEW to, KMoves(from, to) PROVE ServiceInv'
  BY <1>2, <1>5 DEF KMoves
<1> QED
  BY <1>3, <1>4, <1>5 DEF KeyboardStep

LEMMA ServiceStep == TrueInv /\ ServiceInv /\ [Next]_vars => ServiceInv'
<1> SUFFICES ASSUME TypeOK, StartInv, ServiceInv, [Next]_vars PROVE ServiceInv'
  BY DEF TrueInv
<1>1. CASE UNCHANGED vars
  BY <1>1, ServiceKept DEF vars, server, wire, listener, keyboard
<1> QED
  BY <1>1, ServiceServer, ServiceMain, ServiceListener, ServiceKeyboard DEF Next

LEMMA ServedServer ==
  ASSUME TypeOK, StartInv, ServiceInv, ServerStep
  PROVE  [Served!ServiceNext]_(Served!serviceVars)
<1> USE DEF ServerOnly, Served!ServiceNext
<1>1. peer = "open" /\ TypeOK
  BY ServerLeaves DEF ServerStep, ServerListens, Round, AnswerJoin, Introduce, AnswerBet, Bill,
     AcceptQuit, Announce, Pay, ServerCloses
<1>2. CASE AnswerJoin
  <2>1. request = Asks("join", 0) /\ request' = Null /\ stage = "unheard"
        /\ stage' \in {"confirmed", "refused"} /\ debt' = debt /\ peer' = "open"
    BY <1>1, <1>2, Shapes DEF AnswerJoin, ServiceInv, TypeOK
  <2> QED
    BY <1>1, <2>1 DEF Served!AnswerJoin
<1>3. CASE Introduce
  BY <1>1, <1>3 DEF Introduce, Served!Introduce
<1>4. CASE AnswerBet
  <2>1. request = Asks("bet", request.amount) /\ request.amount \in Amount \cup {0}
    BY <1>4, Shapes DEF AnswerBet, TypeOK
  <2>3. Null \notin Amount \cup {0}
    <3>1. Amount \cup {0} \subseteq Int /\ Null \notin Int
      BY ClientAssumption
    <3> QED
      BY <3>1
  <2>2. /\ debt = Null /\ debt' \in {Null, request.amount} /\ request' = Null
        /\ stage = "seated" /\ stage' = stage /\ peer' = "open"
    BY <1>1, <1>4 DEF AnswerBet
  <2> QED
    BY <1>1, <2>1, <2>2, <2>3 DEF Served!AnswerBet
<1>5. CASE Bill
  <2>1. debt # Null /\ debt' = Null /\ Asks("bet", debt) # Null /\ UNCHANGED <<stage, request, peer>>
    BY <1>5, Shapes DEF Bill, TypeOK
  <2> QED
    BY <2>1 DEF Served!Bill
<1>6. CASE AcceptQuit
  <2>1. request = Asks("quit", 0)
    BY <1>6, Shapes DEF AcceptQuit, ServiceInv, TypeOK
  <2> QED
    BY <1>1, <1>6, <2>1 DEF AcceptQuit, Served!Farewell
<1>7. CASE ServerCloses
  <2>1. /\ peer' = "closed" /\ request' = Null /\ debt' = Null
    BY <1>7 DEF ServerCloses
  <2>2. stage # "over"
    BY DEF TypeOK
  <2> QED
    BY <1>1, <2>1, <2>2 DEF Served!End
<1>8. CASE Round
  <2>1. UNCHANGED <<stage, request, debt, peer>>
    BY <1>8 DEF Round, Announce, Pay
  <2> QED
    BY <2>1 DEF Served!serviceVars
<1> QED
  BY <1>2, <1>3, <1>4, <1>5, <1>6, <1>7, <1>8 DEF ServerStep, ServerListens

\* A request that gets through is asked when the server waits for one.
LEMMA ServedSend ==
  ASSUME TypeOK, NEW m, Send(m), UNCHANGED <<stage, debt>>,
         peer = "open" /\ request' # request =>
           \/ m = Asks("join", 0) /\ stage = "unheard" /\ request = Null
           \/ /\ m \in {Asks("bet", a) : a \in Amount \cup {0}} \cup {Asks("quit", 0)}
              /\ stage \in {"confirmed", "seated"} /\ request = Null
  PROVE  [Served!ServiceNext]_(Served!serviceVars)
<1>1. CASE request' = request
  <2>1. peer' = "open" <=> peer = "open"
    BY DEF Send
  <2> QED
    BY <1>1, <2>1 DEF Served!serviceVars
<1>2. CASE request' # request
  <2>1. peer = "open" /\ peer' = "open" /\ request' = m
    BY <1>2 DEF Send
  <2> QED
    BY <1>2, <2>1 DEF Served!ServiceNext, Served!AskJoin, Served!Ask
<1> QED
  BY <1>1, <1>2

LEMMA ServedStep == TrueInv /\ ServiceInv /\ [Next]_vars => [Served!ServiceNext]_(Served!serviceVars)
<1> SUFFICES ASSUME TypeOK, StartInv, peer = "open" => AnswerInv, ServiceInv, [Next]_vars
             PROVE  [Served!ServiceNext]_(Served!serviceVars)
  BY DEF TrueInv
<1>1. CASE UNCHANGED <<stage, debt, request, peer>>
  BY <1>1 DEF Served!serviceVars
<1>2. CASE UNCHANGED vars
  BY <1>1, <1>2 DEF vars, server, wire
<1>3. CASE Reset
  BY <1>3 DEF Reset, server, Served!serviceVars
<1>4. CASE ListenerStep
  BY <1>1, <1>4, ListenerLeaves
<1>5. CASE MainStep
  <2>1. UNCHANGED <<stage, debt>>
    BY <1>5, MainLeaves
  <2>2. CASE JoinGame
    <3>1. Send(Asks("join", 0)) /\ stage = "unheard" /\ request = Null
      BY <2>2 DEF JoinGame, AskServer, StartInv, Asks
    <3> QED
      BY <2>1, <3>1, ServedSend
  <2>3. CASE JoinWait \/ JoinKeyboard \/ JoinListener
    BY <1>1, <2>1, <2>3 DEF JoinWait, JoinKeyboard, JoinListener, MainMoves
  <2> QED
    BY <1>5, <2>2, <2>3 DEF MainStep
<1>6. CASE KeyboardStep \/ User
  <2>1. kpc # "none" /\ UNCHANGED <<stage, debt>>
    BY <1>6, KeyboardLeaves
  <2>2. CASE Resign \/ Bet
    <3>1. PICK m \in {Asks("quit", 0), Asks("bet", stake)} : Send(m)
      BY <2>2 DEF Resign, Bet, AskServer, Asks
    <3>2. ASSUME peer = "open", request' # request
          PROVE  stage \in {"confirmed", "seated"} /\ request = Null
      <4>1. ~ Resigned
        BY <3>1, <3>2 DEF Send
      <4> QED
        BY <2>1, <2>2, <3>2, <4>1, FreeToAsk DEF Resign, Bet
    <3>3. stake \in Amount \cup {0}
      BY DEF TypeOK
    <3> QED
      BY <2>1, <3>1, <3>2, <3>3, ServedSend
  <2>3. CASE Gate \/ Compare \/ BetWait \/ BetOver \/ User
    BY <1>1, <2>1, <2>3 DEF Gate, KMoves, Compare, BetWait, BetOver, User, KeyPressed, Presses,
       AnswerDialog
  <2>4. ASSUME NEW from, NEW to, KMoves(from, to) PROVE [Served!ServiceNext]_(Served!serviceVars)
    BY <1>1, <2>1, <2>4 DEF KMoves
  <2> QED
    BY <1>6, <2>2, <2>3, <2>4 DEF KeyboardStep
<1> QED
  BY <1>2, <1>3, <1>4, <1>5, <1>6, ServedServer DEF Next

(***************************************************************************)
(* The client and the server as it meets it implement Service: every step  *)
(* of the three threads and of the server is one of Service, or none.      *)
(***************************************************************************)
THEOREM KeepsToServiceSafe == Spec => KeepsToService
<1>1. Init => Served!ServiceInit
  BY DEF Init, Served!ServiceInit
<1> QED
  BY <1>1, TypeInit, StartInit, ServiceStart, ServiceStep, TrueSafe, ServedStep, PTL
  DEF Spec, KeepsToService, Served!ServiceSpec
=============================================================================
