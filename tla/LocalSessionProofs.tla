------------------------- MODULE LocalSessionProofs -------------------------
(***************************************************************************)
(* Type correctness of the sessions of local clients, and what holds while *)
(* nobody presses escape twice, no bankruptcy comes and no client is let in*)
(* over its predecessor's listener: one client at a time, its answer its   *)
(* own, and a server that stays up.  When all has come to rest nobody      *)
(* is left waiting but for the causes named, and the croupier is held up   *)
(* only over a client that is gone.  For any number of clients, broadcasts *)
(* and escapes.                                                            *)
(***************************************************************************)
EXTENDS LocalSession, FiniteSetTheorems, WellFoundedInduction, TLAPS

LEMMA TypeInit == Init => TypeOK
<1> SUFFICES ASSUME Init PROVE TypeOK
  OBVIOUS
<1>1. 0 \in 0 .. NumClients /\ available \in Nat /\ connected \in Nat /\ casts \in Nat
  BY LocalSessionAssumption DEF Init
<1>2. /\ lpc \in [Session -> ListenerPC] /\ msg \in [Session -> Up \cup {"ok"}]
      /\ mpc \in [Client -> MainPC] /\ rpc \in [Client -> ReaderPC]
  BY DEF Init, ListenerPC, MainPC, ReaderPC
<1>3. quits \in [Client -> Nat]
  BY DEF Init
<1> QED
  BY <1>1, <1>2, <1>3 DEF Init, TypeOK

-----------------------------------------------------------------------------
(***************************************************************************)
(* The calls of a stream.                                                  *)
(***************************************************************************)
LEMMA GotoType ==
  ASSUME TypeOK, NEW s \in Session, NEW label \in ListenerPC, LGoto(s, label)
  PROVE  lpc' \in [Session -> ListenerPC]
BY DEF TypeOK, LGoto

LEMMA EnterType ==
  ASSUME TypeOK, NEW t \in Thread, NEW m \in Down \cup {Null}, entry # Null, Enter(t, m)
  PROVE  /\ via' \in [Thread -> Session \cup {Null}]
         /\ mail' \in [Thread -> Down \cup {Null}]
         /\ live' \in [Session -> BOOLEAN]
BY DEF TypeOK, Enter

LEMMA CrashType ==
  ASSUME TypeOK, Crash, ServerOnly
  PROVE  TypeOK'
BY DEF TypeOK, Crash, ServerOnly, door, slots, table, streams, listeners, calls, history,
       clients

LEMMA WriteDownType ==
  ASSUME TypeOK, NEW t \in Thread, WriteDown(t)
  PROVE  TypeOK'
<1>1. CASE Crash /\ ServerOnly
  BY <1>1, CrashType
<1>2. CASE /\ ServerOnly
           /\ down' = mail[t]
           /\ mail[t] # Null
           /\ via' = [via EXCEPT ![t] = Null]
           /\ mail' = [mail EXCEPT ![t] = Null]
           /\ UNCHANGED <<up, table, streams, listeners, crashed, history>>
  BY <1>2 DEF TypeOK, ServerOnly, door, table, streams, listeners, history, clients
<1> QED
  BY <1>1, <1>2 DEF WriteDown

LEMMA SendType ==
  ASSUME TypeOK, NEW s \in Session, NEW from, NEW m \in {"ok", "no"},
         NEW to \in ListenerPC, Send(s, from, m, to)
  PROVE  TypeOK'
<1>1. CASE Crash /\ ServerOnly
  BY <1>1, CrashType
<1>2. CASE /\ ServerOnly
           /\ entry # Null
           /\ Enter(s, [type |-> m, to |-> s])
           /\ LGoto(s, to)
           /\ UNCHANGED <<slots, table, attached, msg, allowed, crashed, history>>
  <2>1. s \in Thread /\ [type |-> m, to |-> s] \in Down \cup {Null}
    BY DEF Thread, Down
  <2> QED
    BY <1>2, <2>1, GotoType, EnterType
    DEF TypeOK, ServerOnly, door, slots, table, history, clients
<1> QED
  BY <1>1, <1>2 DEF Send

LEMMA TestType ==
  ASSUME TypeOK, NEW s \in Session, NEW from, NEW to \in ListenerPC, NEW more,
         NEW out \in ListenerPC, Test(s, from, to, more, out)
  PROVE  TypeOK'
<1>1. CASE Crash /\ ServerOnly
  BY <1>1, CrashType
<1>2. CASE /\ ServerOnly
           /\ entry # Null
           /\ Enter(s, Null)
           /\ LGoto(s, to)
           /\ UNCHANGED <<slots, table, attached, msg, allowed, crashed, history>>
  <2>1. s \in Thread
    BY DEF Thread
  <2> QED
    BY <1>2, <2>1, GotoType, EnterType
    DEF TypeOK, ServerOnly, door, slots, table, history, clients
<1>3. CASE /\ ServerOnly
           /\ LGoto(s, out)
           /\ UNCHANGED <<slots, table, streams, msg, allowed, calls, crashed, history>>
  BY <1>3, GotoType
  DEF TypeOK, ServerOnly, door, slots, table, streams, calls, history, clients
<1> QED
  BY <1>1, <1>2, <1>3 DEF Test

\* What operator>> of the server leaves, whatever place it goes on at.
LEMMA ReadUpType ==
  ASSUME TypeOK, NEW s \in Session, NEW label \in ListenerPC, ServerOnly,
         up \in Up, msg' = [msg EXCEPT ![s] = up], up' = Null,
         via' = [via EXCEPT ![s] = Null], LGoto(s, label),
         UNCHANGED <<down, table, streams, allowed, mail, crashed, history>>
  PROVE  TypeOK'
BY GotoType DEF TypeOK, ServerOnly, door, table, streams, history, clients

-----------------------------------------------------------------------------
(***************************************************************************)
(* The listeners.                                                          *)
(***************************************************************************)
LEMMA MovesType ==
  ASSUME TypeOK, NEW s \in Session, NEW from, NEW to \in ListenerPC, LMoves(s, from, to)
  PROVE  /\ up' = Null \/ up' = "lost" \/ up' \in Up
         /\ down' = Null \/ down' \in Down
         /\ live' \in [Session -> BOOLEAN] /\ attached' \in [Session -> BOOLEAN]
         /\ lpc' \in [Session -> ListenerPC]
         /\ via' \in [Thread -> Session \cup {Null}]
         /\ mail' \in [Thread -> Down \cup {Null}]
         /\ UNCHANGED <<available, connected, accepted, casts, crashed, overlap, torn,
                        expelled, mpc, rpc, conn, mapped, probe, quits>>
BY GotoType
DEF TypeOK, LMoves, ServerOnly, door, slots, streams, calls, history, clients

LEMMA ListenType ==
  ASSUME TypeOK, NEW s \in Session, Listen(s)
  PROVE  TypeOK'
<1> USE DEF ListenerPC
<1>1. CASE Start(s)
  BY <1>1, MovesType DEF Start, TypeOK
<1>2. CASE Enrol(s)
  <2>1. CASE Test(s, "enrol", "enrolRecv", msg[s] \notin Up, "serve")
    BY <2>1, TestType
  <2>2. CASE Crash /\ ServerOnly
    BY <2>2, CrashType
  <2> DEFINE judge == [quit |-> "enrol", join |-> IF allowed[s] THEN "admit" ELSE "deny"]
             label == judge[up]
  <2>3. CASE /\ ServerOnly
             /\ up \in Up /\ msg' = [msg EXCEPT ![s] = up] /\ up' = Null
             /\ via' = [via EXCEPT ![s] = Null] /\ LGoto(s, label)
             /\ UNCHANGED <<down, table, streams, allowed, mail, crashed, history>>
    <3>1. label \in ListenerPC
      BY <2>3 DEF Up
    <3> HIDE DEF label
    <3> QED
      BY <2>3, <3>1, ReadUpType
  <2> QED
    BY <1>2, <2>1, <2>2, <2>3 DEF Enrol, ReadUp
<1>3. CASE Admit(s)
  BY <1>3, MovesType DEF Admit, TypeOK
<1>4. CASE Answer(s)
  BY <1>4, SendType DEF Answer
<1>5. CASE Test(s, "serve", "serveRecv", msg[s] # "quit" /\ allowed[s], "leave")
  BY <1>5, TestType
<1>6. CASE ReadUp(s, "serveRecv", [m \in Up |-> "serve"])
  <2>1. CASE Crash /\ ServerOnly
    BY <2>1, CrashType
  <2>2. CASE /\ ServerOnly
             /\ up \in Up /\ msg' = [msg EXCEPT ![s] = up] /\ up' = Null
             /\ via' = [via EXCEPT ![s] = Null] /\ LGoto(s, "serve")
             /\ UNCHANGED <<down, table, streams, allowed, mail, crashed, history>>
    <3>1. "serve" \in ListenerPC
      OBVIOUS
    <3> QED
      BY <2>2, <3>1, ReadUpType
  <2> QED
    BY <1>6, <2>1, <2>2 DEF ReadUp
<1>7. CASE Part(s)
  <2>1. CASE Crash /\ ServerOnly
    BY <2>1, CrashType
  <2>2. CASE /\ ServerOnly
             /\ entry # Null /\ Enter(s, [type |-> "gone", to |-> 0]) /\ LGoto(s, "close")
             /\ UNCHANGED <<slots, table, attached, msg, allowed, crashed, history>>
    <3>1. s \in Thread /\ [type |-> "gone", to |-> 0] \in Down \cup {Null}
      BY DEF Thread, Down
    <3> QED
      BY <2>2, <3>1, GotoType, EnterType
      DEF TypeOK, ServerOnly, door, slots, table, history, clients
  <2>3. CASE /\ ServerOnly
             /\ LGoto(s, "close")
             /\ UNCHANGED <<slots, table, streams, calls, msg, allowed, crashed, history>>
    BY <2>3, GotoType
    DEF TypeOK, ServerOnly, door, slots, table, streams, calls, history, clients
  <2> QED
    BY <1>7, <2>1, <2>2, <2>3 DEF Part
<1>8. CASE LMoves(s, "leave", "close") /\ UNCHANGED <<table, msg, allowed>>
  BY <1>8, MovesType DEF TypeOK, table
<1>9. CASE CloseStream(s)
  <2>1. CASE Crash /\ ServerOnly
    BY <2>1, CrashType
  <2>2. CASE ~ (Crash /\ ServerOnly)
    BY <1>9, <2>2, GotoType
    DEF TypeOK, CloseStream, ServerOnly, door, slots, calls, clients
  <2> QED
    BY <2>1, <2>2
<1>10. CASE Erase(s)
  BY <1>10, MovesType DEF Erase, TypeOK
<1>11. CASE Free(s)
  BY <1>11, MovesType DEF Free, TypeOK
<1> QED
  BY <1>1, <1>2, <1>3, <1>4, <1>5, <1>6, <1>7, <1>8, <1>9, <1>10, <1>11 DEF Listen

-----------------------------------------------------------------------------
(***************************************************************************)
(* The clients.                                                            *)
(***************************************************************************)
\* What a client's step leaves of the server.
ServerTyped ==
  /\ entry = Null \/ entry \in Session
  /\ ips \in BOOLEAN /\ seated \in BOOLEAN /\ crashed \in BOOLEAN
  /\ accepted \in 0 .. NumClients
  /\ live \in [Session -> BOOLEAN] /\ attached \in [Session -> BOOLEAN]
  /\ lpc \in [Session -> ListenerPC]
  /\ msg \in [Session -> Up \cup {"ok"}]
  /\ allowed \in [Session -> BOOLEAN]
  /\ via \in [Thread -> Session \cup {Null}]
  /\ mail \in [Thread -> Down \cup {Null}]
  /\ casts \in Nat
  /\ overlap \in BOOLEAN /\ torn \in BOOLEAN

LEMMA ServerKept ==
  ASSUME TypeOK, UNCHANGED server
  PROVE  ServerTyped'
BY DEF TypeOK, ServerTyped, server, table, streams, listeners, calls

LEMMA MainType ==
  ASSUME TypeOK, NEW c \in Client, Main(c)
  PROVE  TypeOK'
<1> USE DEF MainPC, ReaderPC, Up
<1>1. CASE Look(c)
  BY <1>1, ServerKept DEF Look, Moves, TypeOK, ServerTyped, door, slots
<1>2. CASE Take(c)
  <2>1. available - 1 \in Nat /\ connected + 1 \in Nat
    BY <1>2 DEF TypeOK, Take
  <2> QED
    BY <1>2, <2>1, ServerKept DEF Take, Moves, TypeOK, ServerTyped, slots
<1>3. ASSUME NEW from, NEW m \in Up, NEW to \in MainPC, WriteUp(c, from, m, to)
      PROVE  TypeOK'
  BY <1>3, ServerKept DEF WriteUp, TypeOK, ServerTyped, door
<1>4. CASE Store(c)
  BY <1>4, ServerKept DEF Store, Moves, TypeOK, ServerTyped, door, slots
<1>5. CASE KeyboardEnds(c)
  BY <1>5, ServerKept DEF KeyboardEnds, Moves, TypeOK, ServerTyped, door, slots
<1> QED
  BY <1>1, <1>2, <1>3, <1>4, <1>5 DEF Main

LEMMA EscapeType ==
  ASSUME TypeOK, NEW c \in Client, Escape(c)
  PROVE  TypeOK'
<1>1. quits' \in [Client -> Nat]
  BY DEF Escape, TypeOK
<1> QED
  BY <1>1, ServerKept DEF Escape, Probe, Moves, TypeOK, ServerTyped, door, slots, MainPC

LEMMA ClosedType ==
  ASSUME TypeOK, NEW c \in Client,
         Closed(c) \/ Leaves(c) \/ \E r \in ReaderPC : GoesOn(c, r)
  PROVE  /\ available' \in Nat
         /\ conn' \in [Client -> BOOLEAN] /\ mapped' \in [Client -> BOOLEAN]
<1>1. CASE Closed(c)
  <2>1. (mapped[c] /\ ~ conn[c]) \in BOOLEAN
    OBVIOUS
  <2> QED
    BY <1>1, <2>1 DEF Closed, TypeOK
<1>2. CASE Leaves(c)
  BY <1>2 DEF Leaves, TypeOK
<1>3. CASE \E r \in ReaderPC : GoesOn(c, r)
  <2>1. (conn[c] /\ available = 0) \in BOOLEAN
    OBVIOUS
  <2> QED
    BY <1>3, <2>1 DEF GoesOn, TypeOK
<1> QED
  BY <1>1, <1>2, <1>3

LEMMA HearType ==
  ASSUME TypeOK, NEW c \in Client, Hear(c)
  PROVE  TypeOK'
<1>1. rpc' \in [Client -> ReaderPC] /\ mpc' \in [Client -> MainPC]
  BY DEF Hear, HearAnswer, HearServer, GoesOn, Leaves, TypeOK, ReaderPC, MainPC
<1>2. Closed(c) \/ Leaves(c) \/ \E r \in ReaderPC : GoesOn(c, r)
  BY DEF Hear, HearAnswer, HearServer, ReaderPC
<1>3. /\ down' = Null /\ expelled' \in BOOLEAN
      /\ UNCHANGED <<connected, up, server, probe, quits>>
  <2>1. PICK at, M : Read(c, at, M)
    BY DEF Hear, HearAnswer, HearServer
  <2> QED
    BY <2>1 DEF Read, TypeOK
<1> QED
  BY <1>1, <1>2, <1>3, ClosedType, ServerKept DEF TypeOK, ServerTyped

LEMMA HangupType ==
  ASSUME TypeOK, NEW c \in Client, Hangup(c)
  PROVE  TypeOK'
<1>1. rpc' \in [Client -> ReaderPC] /\ Closed(c)
  BY DEF Hangup, TypeOK, ReaderPC
<1> QED
  BY <1>1, ClosedType, ServerKept DEF Hangup, TypeOK, ServerTyped, slots

-----------------------------------------------------------------------------
LEMMA AcceptType ==
  ASSUME TypeOK, Accept
  PROVE  TypeOK'
<1>1. /\ connected' \in Nat /\ accepted' \in 0 .. NumClients
      /\ accepted + 1 \in Session
  BY LocalSessionAssumption DEF Accept, TypeOK, Session
<1> QED
  BY <1>1, GotoType
  DEF Accept, TypeOK, slots, calls, clients, ListenerPC, Alone

LEMMA CastType ==
  ASSUME TypeOK, NEW m \in {"note", "out"}, Cast(m)
  PROVE  TypeOK'
<1>1. Croupier \in Thread /\ [type |-> m, to |-> 0] \in Down \cup {Null}
  BY DEF Croupier, Thread, Down
<1>2. casts' \in Nat /\ torn' \in BOOLEAN
  BY DEF Cast, TypeOK
<1> QED
  BY <1>1, <1>2, EnterType DEF Cast, TypeOK, door, slots, table, listeners, clients

LEMMA TypeStep == TypeOK /\ [Next]_vars => TypeOK'
<1>1. ASSUME TypeOK, UNCHANGED vars PROVE TypeOK'
  BY <1>1 DEF TypeOK, vars, door, slots, server, table, streams, listeners, calls, clients
<1>2. ASSUME TypeOK, Next PROVE TypeOK'
  BY <1>2, AcceptType, WriteDownType, ListenType, MainType, HearType, HangupType, CastType,
     EscapeType
  DEF Next, Onward, ServerStep, ClientStep
<1> QED
  BY <1>1, <1>2

(***************************************************************************)
(* Entries, streams, messages and program counters have the values they are*)
(* declared with, however many local clients come.                         *)
(***************************************************************************)
THEOREM TypeCorrect == Spec => []TypeOK
BY TypeInit, TypeStep, PTL DEF Spec
-----------------------------------------------------------------------------
(***************************************************************************)
(* One client at a time.  While nobody has pressed escape twice and no     *)
(* bankruptcy has sent a local client away, the door is shut exactly while *)
(* a client is in, and is_connected is set in no other.                    *)
(***************************************************************************)
Gentle == ~ expelled /\ ~ Impatient

Door ==
  /\ available = IF \E c \in Client : mapped[c] THEN 0 ELSE 1
  /\ \A c, d \in Client : mapped[c] /\ mapped[d] => c = d
  /\ \A c \in Client :
       /\ conn[c] => mapped[c]
       /\ mpc[c] = "store" => mapped[c]
       /\ mpc[c] \in {"store", "write"} => ~ overlap

(***************************************************************************)
(* Calm: and no listener was still leaving when the next client was        *)
(* registered.  Then one session at a time is under way, between a listener*)
(* and its client, while the next client may be knocking already.          *)
(***************************************************************************)
Calm == Gentle /\ ~ overlap

\* The client that got in last.
Last == accepted + connected

\* The places of a listener whose stream is in the entry.
Held ==
  {"start", "enrol", "enrolRecv", "admit", "confirm", "deny", "serve", "serveRecv",
   "leave", "close", "erase"}

OtherSessions == \A t \in Session \ {accepted} :
  /\ lpc[t] \in {"none", "ended"}
  /\ t > accepted => msg[t] = "ok"
  /\ via[t] = Null /\ mail[t] = Null

OtherClients == \A c \in Client :
  /\ c < Last => /\ ~ mapped[c] /\ ~ conn[c]
                 /\ rpc[c] \in {"close", "ended"} /\ mpc[c] \in {"key", "ended"}
  /\ c > Last => /\ ~ mapped[c] /\ ~ conn[c] /\ quits[c] = 0
                 /\ rpc[c] = "none" /\ mpc[c] \in {"look", "take"}

Registered ==
  /\ accepted > 0 /\ lpc[accepted] \in Held => entry = accepted
  /\ ~ (accepted > 0 /\ lpc[accepted] \in Held) => entry = Null

Casting ==
  /\ mail[Croupier] # Null => mail[Croupier].type \in {"note", "out"}
  /\ ~ torn /\ via[Croupier] # Null => attached[via[Croupier]]

\* What is in the memory for the client belongs to no session.
Quiet == down # Null => down.type \in {"note", "out"}

Asking(c) == mapped[c] /\ conn[c] /\ rpc[c] = "enrol" /\ quits[c] = 0
Asked(c) == Asking(c) /\ mpc[c] = "wait" /\ up = Null

\* A client before its join is read.
Knocking(c) ==
  /\ Asking(c) /\ Quiet
  /\ \/ mpc[c] = "join" /\ up = Null
     \/ mpc[c] = "wait" /\ up = "join"

Playing(c) == mapped[c] /\ conn[c] /\ rpc[c] = "read"

\* One that has pressed escape and whose quit has been read.
Quitting(c) == Playing(c) /\ mpc[c] = "key" /\ quits[c] = 1 /\ up = Null

Gone(c) ==
  /\ rpc[c] \in {"close", "ended"} /\ mpc[c] \in {"key", "ended"}
  /\ conn[c] = mapped[c]
  /\ mapped[c] => rpc[c] = "close" /\ mpc[c] = "ended"

\* The listener is in no call, or in operator>>.
Idle(s) == via[s] = Null /\ mail[s] = Null
Receiving(s) ==
  /\ lpc[s] \in {"enrolRecv", "serveRecv"} => via[s] = s
  /\ lpc[s] \notin {"enrolRecv", "serveRecv"} => via[s] = Null
  /\ mail[s] = Null

\* An answer on its way, in the call that writes it or in the memory.
Carries(s, m) ==
  \/ via[s] = s /\ mail[s] = [type |-> m, to |-> s] /\ Quiet /\ lpc[s] = "serve"
  \/ Receiving(s) /\ down = [type |-> m, to |-> s]

(***************************************************************************)
(* The stages of a session, of client s and listener s.                    *)
(***************************************************************************)
AtDoor(s) ==
  /\ lpc[s] \in {"start", "enrol", "enrolRecv"}
  /\ Receiving(s) /\ live[s] /\ attached[s] /\ msg[s] = "ok" /\ Knocking(s)

Judged(s) ==
  /\ lpc[s] \in {"admit", "confirm", "deny"}
  /\ Idle(s) /\ live[s] /\ attached[s] /\ msg[s] = "join" /\ Asked(s) /\ Quiet
  /\ lpc[s] = "confirm" => seated
  /\ lpc[s] \in {"admit", "confirm"} <=> allowed[s]

\* The client plays: its escape is not pressed yet, under way, or read.
AtTable(s) ==
  /\ Playing(s) /\ Receiving(s) /\ Quiet
  /\ \/ mpc[s] = "key" /\ quits[s] = 0 /\ up = Null /\ msg[s] = "join"
     \/ mpc[s] = "store" /\ probe[s] /\ quits[s] = 1 /\ up = Null /\ msg[s] = "join"
     \/ mpc[s] = "write" /\ quits[s] = 1 /\ up = Null /\ msg[s] = "join"
     \/ mpc[s] = "key" /\ quits[s] = 1 /\ up = "quit" /\ msg[s] = "join"
     \/ Quitting(s) /\ msg[s] = "quit" /\ lpc[s] = "serve"

Served(s) ==
  /\ lpc[s] \in {"serve", "serveRecv"}
  /\ live[s] /\ attached[s] /\ seated /\ allowed[s]
  /\ \/ Asked(s) /\ msg[s] = "join" /\ Carries(s, "ok")
     \/ AtTable(s)

Leaving(s) ==
  /\ lpc[s] = "leave"
  /\ attached[s] /\ seated /\ allowed[s] /\ Quitting(s) /\ Idle(s) /\ Quiet

Farewell(s) ==
  /\ lpc[s] \in {"close", "erase", "free", "ended"}
  /\ allowed[s] /\ Quitting(s)
  /\ \/ via[s] = s /\ mail[s] = [type |-> "gone", to |-> 0] /\ Quiet /\ lpc[s] = "close" /\ attached[s]
     \/ Idle(s) /\ down = [type |-> "gone", to |-> 0]

Attending(s) == lpc[s] \in {"serve", "leave", "close"} => attached[s]

Refused(s) ==
  /\ lpc[s] \in {"serve", "leave", "close", "erase", "ended"}
  /\ ~ allowed[s] /\ Asked(s) /\ Carries(s, "no") /\ Attending(s)

Departed(s) ==
  /\ lpc[s] \in {"serve", "leave", "close", "erase", "free", "ended"}
  /\ lpc[s] \in {"serve", "leave"} => ~ allowed[s]
  /\ Idle(s) /\ Quiet /\ Gone(s)
  /\ connected = 0 => up = Null

Stage(s) ==
  \/ AtDoor(s) \/ Judged(s) \/ Served(s) \/ Leaving(s) \/ Farewell(s) \/ Refused(s)
  \/ Departed(s)

CalmInv ==
  /\ connected \in {0, 1} /\ Last <= NumClients
  /\ OtherSessions /\ OtherClients /\ Registered /\ Casting
  /\ Last = 0 => up = Null /\ Quiet
  /\ connected = 1 => Knocking(Last)
  /\ accepted > 0 => Stage(accepted) /\ (connected = 1 => ~ mapped[accepted])

SessionInv == CrashCauses /\ (Gentle => Door) /\ (Calm => CalmInv)

LEMMA DownTypes ==
  ASSUME TypeOK, down # Null
  PROVE  /\ down \in Down
         /\ down.type \in {"ok", "no", "note", "gone", "out"}
         /\ down.type \in {"ok", "no"} => down.to \in Session
         /\ down.type \notin {"ok", "no"} => down.to = 0
BY DEF TypeOK, Down

\* A listener that is at work is that of the last connection accepted.
LEMMA AtWork ==
  ASSUME TypeOK, CalmInv, NEW s \in Session, lpc[s] \notin {"none", "ended"}
  PROVE  /\ s = accepted /\ Stage(s)
         /\ lpc[s] \in Held => entry = s
         /\ connected = 1 => ~ mapped[s]
         /\ s \in Client /\ s \in Thread /\ s # Croupier /\ s # Null
BY LocalSessionAssumption
DEF CalmInv, OtherSessions, Registered, Session, Client, Thread, Croupier, TypeOK

\* A client that is in, or has still to enrol, is the last one.
LEMMA Inside ==
  ASSUME TypeOK, CalmInv, NEW c \in Client,
         mapped[c] \/ conn[c] \/ rpc[c] \in {"enrol", "read"}
           \/ mpc[c] \notin {"look", "take", "key", "ended"}
  PROVE  /\ c = Last /\ c \in Session
         /\ connected = 1 => Knocking(c)
         /\ connected = 0 => c = accepted /\ Stage(c)
<1>1. accepted \in Nat /\ c \in Nat /\ Last \in Nat
  BY LocalSessionAssumption DEF Client, TypeOK, Last
<1>2. ~ c < Last
  BY DEF CalmInv, OtherClients
<1>3. ~ c > Last
  BY DEF CalmInv, OtherClients
<1>4. c = Last
  BY <1>1, <1>2, <1>3
<1>5. c \in Session /\ c > 0
  BY LocalSessionAssumption DEF Client, Session
<1>6. connected = 0 => c = accepted
  BY <1>1, <1>4 DEF Last
<1> QED
  BY <1>1, <1>4, <1>5, <1>6 DEF CalmInv

\* A step of the server that disturbs only the session of listener s.
LEMMA SessionKept ==
  ASSUME TypeOK, CalmInv, NEW s \in Session, s = accepted,
         UNCHANGED <<accepted, connected, mpc, rpc, conn, mapped, quits>>,
         \A t \in Session \ {s} : UNCHANGED <<lpc[t], msg[t], via[t], mail[t]>>,
         Registered', Casting',
         connected = 1 => up' = up /\ Quiet',
         Stage(s)'
  PROVE  CalmInv'
<1>1. OtherSessions'
  BY DEF CalmInv, OtherSessions
<1>2. OtherClients' /\ Last' = Last
  BY DEF CalmInv, OtherClients, Last
<1>3. Last # 0
  BY LocalSessionAssumption DEF Last, TypeOK, Session, CalmInv
<1>4. connected = 1 => Knocking(Last)'
  BY <1>2 DEF CalmInv, Knocking, Asking
<1> QED
  BY <1>1, <1>2, <1>3, <1>4 DEF CalmInv

\* A step of the last client.
LEMMA ClientKept ==
  ASSUME TypeOK, CalmInv, NEW c \in Client, c = Last,
         UNCHANGED <<accepted, connected, lpc, msg, allowed, via, mail, entry, seated, live, attached,
                     torn>>,
         \A d \in Client \ {c} : UNCHANGED <<mapped[d], conn[d], rpc[d], mpc[d], quits[d]>>,
         connected = 1 => Knocking(c)',
         connected = 0 => Stage(c)'
  PROVE  CalmInv'
<1>1. OtherSessions' /\ Registered' /\ Casting' /\ Last' = Last
  BY DEF CalmInv, OtherSessions, Registered, Casting, Last
<1>2. OtherClients'
  BY <1>1 DEF CalmInv, OtherClients, Client
<1>3. accepted \in Nat /\ c > 0 /\ accepted <= NumClients /\ NumClients \in Nat
  BY LocalSessionAssumption DEF TypeOK, Client
<1>4. ASSUME connected = 1, accepted > 0 PROVE Stage(accepted)' /\ ~ mapped'[accepted]
  <2>1. accepted \in Client \ {c}
    BY <1>3, <1>4 DEF Client, Last
  <2>2. Stage(accepted) /\ ~ mapped[accepted] /\ ~ mapped'[accepted]
    BY <1>4, <2>1 DEF CalmInv
  <2>3. Departed(accepted)
    BY <2>2 DEF Stage, AtDoor, Judged, Served, Leaving, Farewell, Refused, AtTable, Knocking,
       Asked, Asking, Quitting, Playing
  <2>4. Quiet'
    BY <1>4 DEF Knocking
  <2>5. Departed(accepted)'
    BY <1>4, <2>1, <2>3, <2>4 DEF Departed, Idle, Gone, Attending
  <2> QED
    BY <2>2, <2>5 DEF Stage
<1>5. connected = 0 => c = accepted
  BY <1>3 DEF Last
<1> QED
  BY <1>1, <1>2, <1>3, <1>4, <1>5 DEF CalmInv

-----------------------------------------------------------------------------
(***************************************************************************)
(* The listener's steps, in the order of a session.                        *)
(***************************************************************************)
\* The entry is that of the listener in the call, and the door is shut.
LEMMA Entered ==
  ASSUME TypeOK, Door, CalmInv, NEW s \in Session, lpc[s] \in Held, NEW m, Enter(s, m),
         mapped[s]
  PROVE  /\ s = accepted /\ via'[s] = s /\ mail'[s] = m /\ live'[s] = TRUE
         /\ \A t \in Thread \ {s} : via'[t] = via[t] /\ mail'[t] = mail[t]
<1>1. entry = s /\ s = accepted /\ s \in Client /\ s \in Thread
  BY AtWork DEF Held
<1>2. available = 0
  BY <1>1 DEF Door
<1> QED
  BY <1>1, <1>2 DEF Enter, TypeOK

\* A move of a listener that makes no call.
LEMMA MovedCalm ==
  ASSUME TypeOK, CalmInv, NEW s \in Session, NEW from \in ListenerPC \ {"none", "ended"},
         NEW to \in ListenerPC, LMoves(s, from, to), UNCHANGED msg, Stage(s)',
         \/ {from, to} \subseteq Held /\ UNCHANGED entry
         \/ to \notin Held /\ entry' = Null
  PROVE  CalmInv'
<1>1. s = accepted /\ s > 0 /\ s # Null /\ (from \in Held => entry = s)
  BY AtWork, LocalSessionAssumption DEF LMoves, Session
<1>2. /\ lpc' = [lpc EXCEPT ![s] = to] /\ lpc'[s] = to
      /\ UNCHANGED <<accepted, connected, mpc, rpc, conn, mapped, quits, up, down, attached,
                     via, mail, torn>>
  BY DEF LMoves, LGoto, ServerOnly, slots, streams, calls, clients, history, door, TypeOK
<1>3. Registered' /\ Casting' /\ Quiet' = Quiet
  BY <1>1, <1>2 DEF CalmInv, Registered, Casting, Quiet
<1>4. \A t \in Session \ {s} : UNCHANGED <<lpc[t], msg[t], via[t], mail[t]>>
  BY <1>2 DEF TypeOK
<1>5. connected = 1 => Quiet
  BY DEF CalmInv, Knocking
<1> QED
  BY <1>1, <1>2, <1>3, <1>4, <1>5, SessionKept

\* A step of a listener that enters a call, and keeps its client waiting.
LEMMA EnteredCalm ==
  ASSUME TypeOK, Door, CalmInv, NEW s \in Session, lpc[s] \in Held, mapped[s],
         NEW m, Enter(s, m), NEW to \in Held, LGoto(s, to), ServerOnly,
         UNCHANGED <<slots, entry, attached, msg, torn>>, Stage(s)'
  PROVE  CalmInv'
<1>1. s = accepted /\ entry = s /\ s > 0 /\ s \in Thread /\ s # Croupier /\ connected # 1
  BY AtWork, LocalSessionAssumption DEF Held, Session
<1>2. /\ lpc' = [lpc EXCEPT ![s] = to] /\ lpc'[s] = to
      /\ UNCHANGED <<accepted, connected, mpc, rpc, conn, mapped, quits, up, down, attached,
                     entry, msg, torn>>
  BY DEF LGoto, ServerOnly, slots, clients, door, TypeOK
<1>3. \A t \in Thread \ {s} : via'[t] = via[t] /\ mail'[t] = mail[t]
  BY Entered
<1>4. Croupier \in Thread \ {s} /\ Session \subseteq Thread
  BY <1>1 DEF Thread, Croupier
<1>5. Registered' /\ Casting'
  BY <1>1, <1>2, <1>3, <1>4 DEF CalmInv, Registered, Casting
<1>6. \A t \in Session \ {s} : UNCHANGED <<lpc[t], msg[t], via[t], mail[t]>>
  BY <1>2, <1>3, <1>4 DEF TypeOK
<1> QED
  BY <1>1, <1>2, <1>5, <1>6, SessionKept

LEMMA StartCalm ==
  ASSUME TypeOK, CalmInv, NEW s \in Session, Start(s)
  PROVE  CalmInv'
<1>1. Stage(s)
  BY AtWork DEF Start, LMoves
<1>2. /\ lpc[s] = "start" /\ lpc'[s] = "enrol"
      /\ UNCHANGED <<mpc, rpc, conn, mapped, quits, up, down, live, attached, via, mail, msg, entry>>
  BY DEF Start, LMoves, LGoto, ServerOnly, door, slots, streams, calls, clients, TypeOK
<1>3. AtDoor(s)
  BY <1>1, <1>2 DEF Stage, Judged, Served, Leaving, Farewell, Refused, Departed
<1>4. AtDoor(s)'
  BY <1>2, <1>3 DEF AtDoor, Receiving, Knocking, Asking, Quiet
<1>5. {"start", "enrol"} \subseteq Held \cap ListenerPC
  BY DEF Held, ListenerPC
<1> QED
  BY <1>2, <1>4, <1>5, MovedCalm DEF Start, Stage

\* The test of the enrolment's loop lets the listener go on to receive.
LEMMA EnrolTestCalm ==
  ASSUME TypeOK, Door, CalmInv, NEW s \in Session,
         Test(s, "enrol", "enrolRecv", msg[s] \notin Up, "serve")
  PROVE  CalmInv' /\ crashed' = crashed
<1>1. /\ lpc[s] = "enrol" /\ entry = s /\ Stage(s) /\ s # Null /\ via[s] = Null
  BY AtWork DEF Test, Held
<1>2. AtDoor(s)
  BY <1>1 DEF Stage, Judged, Served, Leaving, Farewell, Refused, Departed
<1>3. live[s] /\ msg[s] \notin Up /\ mapped[s]
  BY <1>2 DEF AtDoor, Knocking, Asking, Up
<1>4. /\ Enter(s, Null) /\ LGoto(s, "enrolRecv") /\ ServerOnly
      /\ UNCHANGED <<slots, table, attached, msg, allowed, crashed, history>>
  BY <1>1, <1>3 DEF Test
<1>5. {"enrol", "enrolRecv"} \subseteq Held
  BY DEF Held
<1>6. via'[s] = s /\ mail'[s] = Null /\ live'[s]
  BY <1>1, <1>3, <1>4, <1>5, Entered
<1>7. /\ lpc'[s] = "enrolRecv"
      /\ UNCHANGED <<mpc, rpc, conn, mapped, quits, up, down, attached, msg, entry, torn>>
  BY <1>4 DEF LGoto, TypeOK, slots, table, history, ServerOnly, clients
<1>8. AtDoor(s)'
  BY <1>2, <1>6, <1>7 DEF AtDoor, Receiving, Knocking, Asking, Quiet
<1> QED
  BY <1>1, <1>3, <1>4, <1>5, <1>7, <1>8, EnteredCalm DEF Stage

\* What operator>> leaves of the rest.
LEMMA ReceivedCalm ==
  ASSUME TypeOK, CalmInv, NEW s \in Session, lpc[s] \in Held, connected # 1,
         NEW to \in Held, LGoto(s, to), ServerOnly,
         NEW m, msg' = [msg EXCEPT ![s] = m], via' = [via EXCEPT ![s] = Null],
         UNCHANGED <<table, streams, mail, torn>>, Stage(s)'
  PROVE  CalmInv'
<1>1. s = accepted /\ entry = s /\ s > 0 /\ s \in Thread /\ s # Croupier
  BY AtWork, LocalSessionAssumption DEF Held, Session
<1>2. /\ lpc' = [lpc EXCEPT ![s] = to] /\ lpc'[s] = to
      /\ UNCHANGED <<accepted, connected, mpc, rpc, conn, mapped, quits, attached, entry, mail, torn>>
  BY DEF LGoto, ServerOnly, table, streams, clients, door, TypeOK
<1>3. \A t \in Thread \ {s} : via'[t] = via[t]
  BY DEF TypeOK
<1>4. Croupier \in Thread \ {s} /\ Session \subseteq Thread
  BY <1>1 DEF Thread, Croupier
<1>5. Registered' /\ Casting'
  BY <1>1, <1>2, <1>3, <1>4 DEF CalmInv, Registered, Casting
<1>6. \A t \in Session \ {s} : UNCHANGED <<lpc[t], msg[t], via[t], mail[t]>>
  BY <1>2, <1>3, <1>4 DEF TypeOK
<1> QED
  BY <1>1, <1>2, <1>5, <1>6, SessionKept

LEMMA ReadJoinCalm ==
  ASSUME TypeOK, CalmInv, NEW s \in Session,
         ReadUp(s, "enrolRecv",
                [quit |-> "enrol", join |-> IF allowed[s] THEN "admit" ELSE "deny"])
  PROVE  CalmInv' /\ crashed' = crashed
<1> DEFINE to == IF allowed[s] THEN "admit" ELSE "deny"
<1>1. lpc[s] = "enrolRecv" /\ Stage(s) /\ (connected = 1 => ~ mapped[s]) /\ s \in Thread
  BY AtWork DEF ReadUp
<1>2. AtDoor(s)
  BY <1>1 DEF Stage, Judged, Served, Leaving, Farewell, Refused, Departed
<1>3. via[s] = s /\ mail[s] = Null /\ attached[s] /\ mapped[s] /\ connected # 1
  BY <1>1, <1>2 DEF AtDoor, Receiving, Knocking, Asking
<1>4. up = "join"
  BY <1>2, LocalSessionAssumption DEF AtDoor, Knocking, ReadUp, Up
<1>5. /\ msg' = [msg EXCEPT ![s] = "join"] /\ up' = Null
      /\ via' = [via EXCEPT ![s] = Null] /\ LGoto(s, to)
      /\ UNCHANGED <<down, table, streams, allowed, mail, crashed, history>> /\ ServerOnly
  BY <1>3, <1>4 DEF ReadUp
<1>6. /\ msg'[s] = "join" /\ via'[s] = Null /\ lpc'[s] = to
      /\ UNCHANGED <<mpc, rpc, conn, mapped, quits, down, attached, live, mail, allowed, torn>>
  BY <1>1, <1>5 DEF LGoto, TypeOK, streams, ServerOnly, clients, history
<1>7. allowed[s] \in BOOLEAN
  BY DEF TypeOK
<1>8. Judged(s)'
  <2>1. up # Null
    BY <1>4, LocalSessionAssumption DEF Up
  <2> QED
    BY <1>2, <1>3, <1>5, <1>6, <1>7, <2>1
    DEF AtDoor, Judged, Idle, Knocking, Asked, Asking, Quiet
<1>9. {to, "enrolRecv"} \subseteq Held
  BY DEF Held
<1> HIDE DEF to
<1> QED
  BY <1>1, <1>3, <1>5, <1>6, <1>8, <1>9, ReceivedCalm DEF Stage

LEMMA AdmitCalm ==
  ASSUME TypeOK, CalmInv, NEW s \in Session, Admit(s)
  PROVE  CalmInv'
<1>1. Stage(s) /\ lpc[s] = "admit"
  BY AtWork DEF Admit, LMoves
<1>2. Judged(s)
  BY <1>1 DEF Stage, AtDoor, Served, Leaving, Farewell, Refused, Departed
<1>3. PICK to \in {"confirm", "deny"} :
        /\ LMoves(s, "admit", to)
        /\ to = "confirm" => seated' /\ UNCHANGED allowed
        /\ to = "deny" => allowed' = [allowed EXCEPT ![s] = FALSE]
  BY DEF Admit
<1>4. /\ lpc'[s] = to
      /\ UNCHANGED <<mpc, rpc, conn, mapped, quits, up, down, live, attached, via, mail, msg, entry>>
  BY <1>3 DEF Admit, LMoves, LGoto, ServerOnly, slots, streams, calls, clients, TypeOK
<1>5. allowed'[s] <=> to = "confirm"
  BY <1>1, <1>2, <1>3 DEF Judged, TypeOK
<1>6. Judged(s)'
  BY <1>1, <1>2, <1>3, <1>4, <1>5 DEF Judged, Idle, Asked, Asking, Quiet
<1>7. {"admit", "confirm", "deny"} \subseteq Held \cap ListenerPC
  BY DEF Held, ListenerPC
<1> QED
  BY <1>3, <1>4, <1>6, <1>7, MovedCalm DEF Stage

LEMMA AnswerCalm ==
  ASSUME TypeOK, Door, CalmInv, NEW s \in Session, Answer(s)
  PROVE  CalmInv' /\ crashed' = crashed
<1>1. PICK from \in {"confirm", "deny"}, m \in {"ok", "no"} :
        Send(s, from, m, "serve") /\ (from = "confirm" <=> m = "ok")
  BY DEF Answer
<1>2. /\ lpc[s] = from /\ entry = s /\ Stage(s) /\ s # Null
  BY <1>1, AtWork DEF Send, Held
<1>3. Judged(s)
  BY <1>2 DEF Stage, AtDoor, Served, Leaving, Farewell, Refused, Departed
<1>4. /\ Enter(s, [type |-> m, to |-> s]) /\ LGoto(s, "serve") /\ ServerOnly
      /\ UNCHANGED <<slots, table, attached, msg, allowed, crashed, history>>
  BY <1>1, <1>2 DEF Send
<1>5. {from, "serve"} \subseteq Held /\ mapped[s]
  BY <1>3 DEF Held, Judged, Asked, Asking
<1>6. via'[s] = s /\ mail'[s] = [type |-> m, to |-> s] /\ live'[s]
  BY <1>2, <1>4, <1>5, Entered
<1>7. /\ lpc'[s] = "serve"
      /\ UNCHANGED <<mpc, rpc, conn, mapped, quits, up, down, attached, msg, entry, torn, seated,
                     allowed>>
  BY <1>4 DEF LGoto, TypeOK, slots, table, history, ServerOnly, clients
<1>8. Asked(s)' /\ Carries(s, m)' /\ attached'[s] /\ msg'[s] = "join"
  BY <1>3, <1>6, <1>7 DEF Judged, Carries, Asked, Asking, Quiet
<1>9. Served(s)' \/ Refused(s)'
  <2>1. CASE m = "ok"
    BY <1>1, <1>2, <1>3, <1>6, <1>7, <1>8, <2>1 DEF Served, Judged
  <2>2. CASE m = "no"
    BY <1>1, <1>2, <1>3, <1>7, <1>8, <2>2 DEF Refused, Judged, Attending
  <2> QED
    BY <2>1, <2>2
<1> QED
  BY <1>2, <1>4, <1>5, <1>7, <1>9, EnteredCalm DEF Stage

LEMMA ServeTestCalm ==
  ASSUME TypeOK, Door, CalmInv, NEW s \in Session,
         Test(s, "serve", "serveRecv", msg[s] # "quit" /\ allowed[s], "leave")
  PROVE  CalmInv' /\ crashed' = crashed
<1>1. /\ lpc[s] = "serve" /\ entry = s /\ Stage(s) /\ s # Null /\ via[s] = Null /\ s \in Thread
  BY AtWork DEF Test, Held
<1>2. {"serve", "serveRecv", "leave"} \subseteq Held \cap ListenerPC
  BY DEF Held, ListenerPC
<1>3. CASE Served(s) /\ msg[s] # "quit"
  <2>1. live[s] /\ allowed[s] /\ mapped[s] /\ mail[s] = Null
    BY <1>1, <1>3 DEF Served, Asked, Asking, AtTable, Playing, Quitting, Carries, Receiving
  <2>2. /\ Enter(s, Null) /\ LGoto(s, "serveRecv") /\ ServerOnly
        /\ UNCHANGED <<slots, table, attached, msg, allowed, crashed, history>>
    BY <1>1, <1>3, <2>1 DEF Test
  <2>3. via'[s] = s /\ mail'[s] = Null /\ live'[s]
    BY <1>1, <1>2, <2>1, <2>2, Entered
  <2>4. /\ lpc'[s] = "serveRecv"
        /\ UNCHANGED <<mpc, rpc, conn, mapped, probe, quits, up, down, attached, msg, entry, torn,
                       seated, allowed>>
    BY <2>2 DEF LGoto, TypeOK, slots, table, history, ServerOnly, clients
  <2>5. CASE Asked(s) /\ msg[s] = "join" /\ Carries(s, "ok")
    <3>1. Asked(s)' /\ Carries(s, "ok")'
      BY <1>1, <2>3, <2>4, <2>5 DEF Asked, Asking, Carries, Receiving
    <3> QED
      BY <1>1, <1>2, <1>3, <2>1, <2>2, <2>3, <2>4, <2>5, <3>1, EnteredCalm DEF Stage, Served
  <2>6. CASE AtTable(s)
    <3>1. AtTable(s)'
      BY <1>3, <2>3, <2>4, <2>6 DEF AtTable, Playing, Receiving, Quiet
    <3> QED
      BY <1>1, <1>2, <1>3, <2>1, <2>2, <2>3, <2>4, <3>1, EnteredCalm DEF Stage, Served
  <2> QED
    BY <1>3, <2>5, <2>6 DEF Served
<1>4. CASE ~ (Served(s) /\ msg[s] # "quit")
  <2>1. \/ Served(s) /\ msg[s] = "quit" /\ AtTable(s) /\ Quitting(s)
        \/ Refused(s) /\ ~ allowed[s]
        \/ Departed(s) /\ ~ allowed[s]
    BY <1>1, <1>4 DEF Stage, AtDoor, Judged, Leaving, Farewell, Served, AtTable, Refused, Departed
  <2>2. /\ LGoto(s, "leave") /\ ServerOnly
        /\ UNCHANGED <<slots, table, streams, msg, allowed, calls, crashed, history>>
    BY <1>1, <2>1 DEF Test
  <2>3. LMoves(s, "serve", "leave") /\ UNCHANGED <<msg, entry>>
    BY <1>1, <2>2 DEF LMoves, table
  <2>4. /\ lpc'[s] = "leave"
        /\ UNCHANGED <<mpc, rpc, conn, mapped, quits, up, down, via, mail, attached, msg, seated,
                       allowed, connected>>
    BY <2>2 DEF LGoto, TypeOK, slots, table, streams, calls, ServerOnly, clients, door
  <2>5. Stage(s)'
    <3>1. CASE Served(s) /\ AtTable(s) /\ Quitting(s)
      BY <1>1, <2>4, <3>1
      DEF Stage, Leaving, Served, AtTable, Quitting, Playing, Receiving, Idle, Quiet
    <3>2. CASE Refused(s) /\ ~ allowed[s]
      BY <1>1, <2>4, <3>2 DEF Stage, Refused, Asked, Asking, Carries, Receiving, Attending
    <3>3. CASE Departed(s) /\ ~ allowed[s]
      BY <1>1, <2>4, <3>3 DEF Stage, Departed, Idle, Quiet, Gone, Attending
    <3> QED
      BY <2>1, <3>1, <3>2, <3>3
  <2> QED
    BY <1>2, <2>2, <2>3, <2>5, MovedCalm
<1> QED
  BY <1>3, <1>4

LEMMA ReadQuitCalm ==
  ASSUME TypeOK, CalmInv, NEW s \in Session, ReadUp(s, "serveRecv", [m \in Up |-> "serve"])
  PROVE  CalmInv' /\ crashed' = crashed
<1>1. lpc[s] = "serveRecv" /\ Stage(s) /\ (connected = 1 => ~ mapped[s]) /\ s \in Thread
  BY AtWork DEF ReadUp
<1>2. Served(s)
  BY <1>1 DEF Stage, AtDoor, Judged, Leaving, Farewell, Refused, Departed
<1>3. up \in Up /\ up # Null
  BY LocalSessionAssumption DEF ReadUp
<1>4. AtTable(s) /\ mpc[s] = "key" /\ quits[s] = 1 /\ up = "quit"
  BY <1>1, <1>2, <1>3 DEF Served, AtTable, Asked, Quitting
<1>5. via[s] = s /\ mail[s] = Null /\ attached[s] /\ mapped[s] /\ connected # 1
  BY <1>1, <1>2, <1>4 DEF Served, AtTable, Receiving, Playing
<1>6. /\ msg' = [msg EXCEPT ![s] = "quit"] /\ up' = Null
      /\ via' = [via EXCEPT ![s] = Null] /\ LGoto(s, "serve")
      /\ UNCHANGED <<down, table, streams, allowed, mail, crashed, history>> /\ ServerOnly
  BY <1>3, <1>4, <1>5 DEF ReadUp
<1>7. /\ msg'[s] = "quit" /\ via'[s] = Null /\ lpc'[s] = "serve"
      /\ UNCHANGED <<mpc, rpc, conn, mapped, quits, down, attached, live, mail, allowed, seated, torn>>
  BY <1>1, <1>6 DEF LGoto, TypeOK, streams, ServerOnly, clients, history, table
<1>8. AtTable(s)'
  BY <1>4, <1>5, <1>6, <1>7 DEF AtTable, Playing, Receiving, Quiet, Quitting
<1>9. Served(s)'
  BY <1>2, <1>7, <1>8 DEF Served
<1>10. {"serveRecv", "serve"} \subseteq Held
  BY DEF Held
<1> QED
  BY <1>1, <1>5, <1>6, <1>7, <1>9, <1>10, ReceivedCalm DEF Stage

LEMMA PartCalm ==
  ASSUME TypeOK, Door, CalmInv, NEW s \in Session, Part(s)
  PROVE  CalmInv' /\ crashed' = crashed
<1>1. lpc[s] = "leave" /\ allowed[s] /\ entry = s /\ Stage(s) /\ s # Null /\ s \in Thread
  BY AtWork DEF Part, Held
<1>2. Leaving(s)
  BY <1>1 DEF Stage, AtDoor, Judged, Served, Farewell, Refused, Departed
<1>3. /\ Enter(s, [type |-> "gone", to |-> 0]) /\ LGoto(s, "close") /\ ServerOnly
      /\ UNCHANGED <<slots, table, attached, msg, allowed, crashed, history>>
  BY <1>1, <1>2 DEF Leaving, Part
<1>4. mapped[s] /\ {"leave", "close"} \subseteq Held
  BY <1>2 DEF Leaving, Quitting, Playing, Held
<1>5. via'[s] = s /\ mail'[s] = [type |-> "gone", to |-> 0]
  BY <1>1, <1>3, <1>4, Entered
<1>6. /\ lpc'[s] = "close"
      /\ UNCHANGED <<mpc, rpc, conn, mapped, quits, up, down, attached, msg, entry, torn, allowed>>
  BY <1>3 DEF LGoto, TypeOK, slots, table, history, ServerOnly, clients
<1>7. Farewell(s)'
  BY <1>2, <1>5, <1>6 DEF Leaving, Farewell, Quitting, Playing, Quiet
<1> QED
  BY <1>1, <1>3, <1>4, <1>6, <1>7, EnteredCalm DEF Stage

\* A listener that has been refused or whose client has gone, on its way out.
LEMMA OutCalm ==
  ASSUME TypeOK, CalmInv, NEW s \in Session,
         NEW from \in {"leave", "erase", "free"}, NEW to \in {"close", "free", "ended"},
         LMoves(s, from, to), UNCHANGED <<msg, allowed>>,
         from = "leave" => to = "close" /\ ~ allowed[s] /\ UNCHANGED entry,
         from = "erase" => to = (IF allowed[s] THEN "free" ELSE "ended") /\ entry' = Null,
         from = "free" => to = "ended" /\ UNCHANGED entry
  PROVE  CalmInv'
<1>1. lpc[s] = from /\ Stage(s) /\ s \in Thread
  BY AtWork DEF LMoves
<1>2. Farewell(s) \/ Refused(s) \/ Departed(s)
  BY <1>1 DEF Stage, AtDoor, Judged, Served, Leaving
<1>3. /\ lpc'[s] = to /\ via[s] = Null
      /\ UNCHANGED <<mpc, rpc, conn, mapped, quits, up, down, via, mail, attached, allowed, connected>>
  BY DEF LMoves, LGoto, TypeOK, slots, streams, calls, ServerOnly, clients, door
<1>4. Stage(s)'
  <2>1. CASE Farewell(s)
    BY <1>1, <1>3, <2>1, LocalSessionAssumption
    DEF Stage, Farewell, Quitting, Playing, Idle, Quiet, Session
  <2>2. CASE Refused(s)
    BY <1>1, <1>3, <2>2 DEF Stage, Refused, Asked, Asking, Carries, Receiving, Attending
  <2>3. CASE Departed(s)
    BY <1>1, <1>3, <2>3 DEF Stage, Departed, Idle, Quiet, Gone, Attending
  <2> QED
    BY <1>2, <2>1, <2>2, <2>3
<1>5. {"leave", "erase", "close"} \subseteq Held /\ {"free", "ended", "close"} \subseteq ListenerPC
      /\ "free" \notin Held /\ "ended" \notin Held
  BY DEF Held, ListenerPC
<1>6. \/ {from, to} \subseteq Held /\ UNCHANGED entry
      \/ to \notin Held /\ entry' = Null
  <2>1. CASE from = "free"
    <3>1. s = accepted /\ s > 0
      BY <1>1, AtWork, LocalSessionAssumption DEF Session
    <3>2. entry = Null
      BY <1>1, <1>5, <2>1, <3>1 DEF CalmInv, Registered
    <3> QED
      BY <1>5, <2>1, <3>2
  <2>2. CASE from = "leave"
    BY <1>5, <2>2
  <2>3. CASE from = "erase"
    BY <1>5, <2>3
  <2> QED
    BY <2>1, <2>2, <2>3
<1>7. from \in ListenerPC \ {"none", "ended"}
  BY DEF ListenerPC
<1> QED
  BY <1>3, <1>4, <1>5, <1>6, <1>7, MovedCalm

LEMMA CloseCalm ==
  ASSUME TypeOK, CalmInv, NEW s \in Session, CloseStream(s)
  PROVE  CalmInv' /\ crashed' = crashed
<1>1. /\ lpc[s] = "close" /\ via[s] = Null /\ entry = s /\ s = accepted /\ Stage(s) /\ s # Null
      /\ s \in Thread
  BY AtWork DEF CloseStream, Held
<1>2. /\ attached' = [attached EXCEPT ![s] = @ /\ ~ live[s]]
      /\ torn' = (torn \/ via[Croupier] = s)
      /\ lpc' = [lpc EXCEPT ![s] = "erase"] /\ lpc'[s] = "erase"
      /\ UNCHANGED <<slots, entry, msg, allowed, calls, crashed>> /\ ServerOnly
  BY <1>1 DEF CloseStream, LGoto, TypeOK
<1>3. UNCHANGED <<mpc, rpc, conn, mapped, quits, up, down, via, mail, allowed, connected, accepted>>
  BY <1>2 DEF slots, calls, ServerOnly, clients, door
<1>4. Farewell(s) \/ Refused(s) \/ Departed(s)
  BY <1>1 DEF Stage, AtDoor, Judged, Served, Leaving
<1>5. Stage(s)'
  <2>1. CASE Farewell(s)
    BY <1>1, <1>2, <1>3, <2>1, LocalSessionAssumption
    DEF Stage, Farewell, Quitting, Playing, Idle, Quiet, Session
  <2>2. CASE Refused(s)
    BY <1>1, <1>2, <1>3, <2>2 DEF Stage, Refused, Asked, Asking, Carries, Receiving, Attending
  <2>3. CASE Departed(s)
    BY <1>1, <1>2, <1>3, <2>3 DEF Stage, Departed, Idle, Quiet, Gone, Attending
  <2> QED
    BY <1>4, <2>1, <2>2, <2>3
<1>6. Registered'
  BY <1>1, <1>2, <1>3 DEF CalmInv, Registered, Held
<1>7. Casting'
  <2>1. ASSUME ~ torn', via[Croupier] # Null PROVE attached'[via[Croupier]]
    <3>1. attached[via[Croupier]] /\ via[Croupier] # s /\ via[Croupier] \in Session
      BY <1>2, <2>1 DEF CalmInv, Casting, TypeOK, Thread, Croupier
    <3> QED
      BY <1>2, <3>1 DEF TypeOK
  <2> QED
    BY <1>3, <2>1 DEF CalmInv, Casting
<1>8. /\ \A t \in Session \ {s} : UNCHANGED <<lpc[t], msg[t], via[t], mail[t]>>
      /\ connected = 1 => up' = up /\ Quiet'
  BY <1>2, <1>3 DEF TypeOK, CalmInv, Knocking, Quiet
<1> QED
  BY <1>1, <1>2, <1>3, <1>5, <1>6, <1>7, <1>8, SessionKept

-----------------------------------------------------------------------------
(***************************************************************************)
(* What is written for the client, the croupier and the next connection.   *)
(***************************************************************************)
\* A call is of a stream whose memory is mapped, unless the croupier's was torn.
LEMMA Mapped ==
  ASSUME TypeOK, CalmInv, NEW t \in Thread, via[t] # Null, mail[t] # Null, ~ attached[via[t]]
  PROVE  torn /\ t = Croupier
<1>1. CASE t = Croupier
  BY <1>1 DEF CalmInv, Casting
<1>2. CASE t # Croupier
  <2>1. t \in Session /\ t = accepted /\ Stage(t) /\ t > 0
    BY <1>2, LocalSessionAssumption
    DEF Thread, Croupier, CalmInv, OtherSessions, Session
  <2>2. attached[t] /\ via[t] = t
    BY <2>1, LocalSessionAssumption
    DEF Stage, AtDoor, Judged, Served, Leaving, Farewell, Refused, Departed, AtTable, Carries,
        Receiving, Idle, Attending, Session
  <2> QED
    BY <2>2
<1> QED
  BY <1>1, <1>2

LEMMA WriteDownCalm ==
  ASSUME TypeOK, CalmInv, NEW t \in Thread, WriteDown(t), crashed' = crashed, ~ crashed
  PROVE  CalmInv'
<1>1. /\ via[t] # Null /\ mail[t] # Null /\ down = Null /\ down' = mail[t]
      /\ via' = [via EXCEPT ![t] = Null] /\ mail' = [mail EXCEPT ![t] = Null]
      /\ UNCHANGED <<up, table, streams, listeners, history>> /\ ServerOnly
  BY DEF WriteDown, Crash
<1>2. /\ UNCHANGED <<mpc, rpc, conn, mapped, probe, quits, up, lpc, msg, allowed, live, attached, seated,
                     entry, torn, connected, accepted>>
      /\ via'[t] = Null /\ mail'[t] = Null
      /\ \A u \in Thread \ {t} : via'[u] = via[u] /\ mail'[u] = mail[u]
  BY <1>1 DEF table, streams, listeners, history, ServerOnly, clients, door, TypeOK
<1>3. Registered'
  BY <1>2 DEF CalmInv, Registered
<1>4. Croupier \in Thread /\ Session \subseteq Thread /\ Croupier \notin Session
  BY LocalSessionAssumption DEF Thread, Croupier, Session
<1>5. Casting'
  BY <1>2, <1>4 DEF CalmInv, Casting
<1>6. CASE t = Croupier
  <2>1. Quiet /\ Quiet'
    BY <1>1, <1>6 DEF CalmInv, Casting, Quiet
  <2>2. \A s \in Session : via'[s] = via[s] /\ mail'[s] = mail[s]
    BY <1>2, <1>4, <1>6
  <2>3. ASSUME NEW s \in Session, Stage(s) PROVE Stage(s)'
    <3>1. CASE AtDoor(s) \/ Judged(s)
      BY <1>2, <2>1, <2>2, <2>3, <3>1
      DEF Stage, AtDoor, Judged, Receiving, Idle, Knocking, Asked, Asking
    <3>2. CASE Served(s)
      <4>1. CASE AtTable(s)
        <5>1. AtTable(s)'
          BY <1>2, <2>1, <2>2, <4>1 DEF AtTable, Playing, Receiving, Quitting
        <5> QED
          BY <1>2, <3>2, <5>1 DEF Stage, Served
      <4>2. CASE Asked(s) /\ msg[s] = "join" /\ Carries(s, "ok")
        <5>1. Asked(s)' /\ Carries(s, "ok")'
          BY <1>1, <1>2, <2>1, <2>2, <4>2, LocalSessionAssumption
          DEF Asked, Asking, Carries, Down
        <5> QED
          BY <1>2, <3>2, <4>2, <5>1 DEF Stage, Served
      <4> QED
        BY <3>2, <4>1, <4>2 DEF Served
    <3>3. CASE Leaving(s)
      BY <1>2, <2>1, <2>2, <3>3 DEF Stage, Leaving, Quitting, Playing, Idle
    <3>4. CASE Farewell(s)
      BY <1>1, <1>2, <2>1, <2>2, <3>4, LocalSessionAssumption
      DEF Stage, Farewell, Quitting, Playing, Down
    <3>5. CASE Refused(s)
      <4>1. Asked(s)' /\ Carries(s, "no")'
        BY <1>1, <1>2, <2>1, <2>2, <3>5, LocalSessionAssumption
        DEF Refused, Asked, Asking, Carries, Down
      <4> QED
        BY <1>2, <3>5, <4>1 DEF Stage, Refused, Attending
    <3>6. CASE Departed(s)
      BY <1>2, <2>1, <2>2, <3>6 DEF Stage, Departed, Idle, Gone, Attending
    <3> QED
      BY <2>3, <3>1, <3>2, <3>3, <3>4, <3>5, <3>6 DEF Stage
  <2>4. accepted > 0 => accepted \in Session
    BY LocalSessionAssumption DEF TypeOK, Session
  <2>5. accepted > 0 => Stage(accepted)'
    BY <1>2, <2>3, <2>4 DEF CalmInv
  <2>6. OtherSessions' /\ OtherClients' /\ Last' = Last
    BY <1>2, <2>2 DEF CalmInv, OtherSessions, OtherClients, Last
  <2>7. connected = 1 => Knocking(Last)'
    BY <1>2, <2>1, <2>6 DEF CalmInv, Knocking, Asking
  <2> QED
    BY <1>2, <1>3, <1>5, <2>1, <2>5, <2>6, <2>7 DEF CalmInv
<1>7. CASE t # Croupier
  <2>1. t \in Session /\ t = accepted /\ Stage(t) /\ (connected = 1 => ~ mapped[t])
    BY <1>1, <1>4, <1>7, LocalSessionAssumption
    DEF Thread, Croupier, CalmInv, OtherSessions, Session
  <2>2. \/ Served(t) /\ Asked(t) /\ msg[t] = "join" /\ mail[t] = [type |-> "ok", to |-> t]
        \/ Refused(t) /\ mail[t] = [type |-> "no", to |-> t]
        \/ Farewell(t) /\ mail[t] = [type |-> "gone", to |-> 0]
    BY <1>1, <2>1
    DEF Stage, AtDoor, Judged, Served, Leaving, Farewell, Refused, Departed, AtTable, Carries,
        Receiving, Idle
  <2>3. Stage(t)' /\ connected # 1
    <3>1. CASE Served(t) /\ Asked(t) /\ msg[t] = "join" /\ mail[t] = [type |-> "ok", to |-> t]
      <4>1. lpc[t] = "serve"
        BY <1>1, <3>1, LocalSessionAssumption DEF Served, AtTable, Carries, Receiving
      <4>2. Asked(t)' /\ Carries(t, "ok")'
        BY <1>1, <1>2, <3>1, <4>1 DEF Asked, Asking, Carries, Receiving
      <4> QED
        BY <1>2, <2>1, <3>1, <4>2 DEF Stage, Served, Asked, Asking
    <3>2. CASE Refused(t) /\ mail[t] = [type |-> "no", to |-> t]
      <4>1. Asked(t)' /\ Carries(t, "no")'
        BY <1>1, <1>2, <3>2 DEF Refused, Asked, Asking, Carries, Receiving
      <4> QED
        BY <1>2, <2>1, <3>2, <4>1 DEF Stage, Refused, Attending, Asked, Asking
    <3>3. CASE Farewell(t) /\ mail[t] = [type |-> "gone", to |-> 0]
      BY <1>1, <1>2, <2>1, <3>3 DEF Stage, Farewell, Quitting, Playing, Idle
    <3> QED
      BY <2>2, <3>1, <3>2, <3>3
  <2>4. \A s \in Session \ {t} : UNCHANGED <<lpc[s], msg[s], via[s], mail[s]>>
    BY <1>2, <1>4
  <2> QED
    BY <1>2, <1>3, <1>5, <2>1, <2>3, <2>4, SessionKept
<1> QED
  BY <1>6, <1>7

\* The next connection is registered, with nobody left at work.
LEMMA AcceptCalm ==
  ASSUME TypeOK, CalmInv, Accept, ~ overlap'
  PROVE  CalmInv'
<1>0. PICK s \in Session : s = accepted + 1
  BY LocalSessionAssumption DEF Accept, TypeOK, Session
<1>1. /\ connected = 1 /\ connected' = 0 /\ accepted' = s /\ Last = s /\ Last' = s
      /\ s \in Client /\ s # Null /\ accepted \in Nat
  BY <1>0, LocalSessionAssumption DEF Accept, TypeOK, CalmInv, Last, Session, Client
<1>2. /\ entry' = s /\ live' = [live EXCEPT ![s] = TRUE]
      /\ attached' = [attached EXCEPT ![s] = TRUE] /\ lpc' = [lpc EXCEPT ![s] = "start"]
      /\ \A t \in Session \ {s} : lpc[t] \in {"none", "ended"}
      /\ UNCHANGED <<slots, msg, calls, torn, clients>>
  BY <1>0 DEF Accept, LGoto, Alone
<1>3. /\ UNCHANGED <<up, down, msg, via, mail, torn, mpc, rpc, conn, mapped, quits>>
      /\ lpc'[s] = "start" /\ live'[s] /\ attached'[s]
  BY <1>1, <1>2 DEF slots, calls, clients, TypeOK
<1>4. \A t \in Session : via[t] = Null /\ mail[t] = Null
  <2>1. ASSUME NEW t \in Session, t = accepted PROVE Idle(t)
    <3>1. t # s /\ t > 0
      BY <1>0, <1>1, <2>1, LocalSessionAssumption DEF Session
    <3>2. Stage(t) /\ ~ mapped[t] /\ lpc[t] \in {"none", "ended"}
      BY <1>1, <1>2, <2>1, <3>1 DEF CalmInv
    <3> QED
      BY <3>2
      DEF Stage, AtDoor, Judged, Served, Leaving, Farewell, Refused, Departed, Quitting, Playing,
          Asked, Asking
  <2> QED
    BY <2>1 DEF CalmInv, OtherSessions, Idle
<1>5. OtherSessions'
  <2> SUFFICES ASSUME NEW t \in Session, t # s
               PROVE  /\ lpc'[t] \in {"none", "ended"}
                      /\ t > s => msg[t] = "ok"
                      /\ via[t] = Null /\ mail[t] = Null
    BY <1>1, <1>3 DEF OtherSessions
  <2>1. lpc'[t] = lpc[t]
    BY <1>2 DEF TypeOK
  <2>2. t > s => t # accepted /\ t > accepted
    BY <1>0, <1>1 DEF Session
  <2> QED
    BY <1>2, <1>4, <2>1, <2>2 DEF CalmInv, OtherSessions
<1>6. OtherClients'
  BY <1>1, <1>3 DEF CalmInv, OtherClients
<1>7. Registered'
  <2>1. s > 0 /\ lpc'[s] \in Held
    BY <1>0, <1>1, <1>3 DEF Held
  <2> QED
    BY <1>1, <1>2, <2>1 DEF Registered
<1>8. Casting'
  <2>1. ASSUME ~ torn, via[Croupier] # Null PROVE attached'[via[Croupier]]
    BY <1>2, <2>1 DEF CalmInv, Casting, TypeOK, Thread, Croupier
  <2> QED
    BY <1>3, <2>1 DEF CalmInv, Casting
<1>9. AtDoor(s)'
  <2>1. msg[s] = "ok"
    BY <1>0, <1>1 DEF CalmInv, OtherSessions
  <2>2. Knocking(s)'
    BY <1>1, <1>3 DEF CalmInv, Knocking, Asking, Quiet
  <2> QED
    BY <1>1, <1>3, <1>4, <2>1, <2>2 DEF AtDoor, Receiving
<1>10. Last' <= NumClients
  BY <1>1 DEF CalmInv
<1>11. Last' # 0
  BY <1>1, LocalSessionAssumption DEF Session
<1> QED
  BY <1>1, <1>5, <1>6, <1>7, <1>8, <1>9, <1>10, <1>11 DEF CalmInv, Stage

\* A broadcast leaves a session where it is: the stream it is under way in is live.
LEMMA CastCalm ==
  ASSUME TypeOK, Door, CalmInv, NEW m \in {"note", "out"}, Cast(m)
  PROVE  CalmInv'
<1>0. PICK s \in Session : s = accepted
  BY LocalSessionAssumption DEF Cast, CalmInv, Registered, TypeOK, Session
<1>1. /\ entry = s /\ s \in Client /\ lpc[s] \in Held /\ Stage(s)
  BY <1>0, LocalSessionAssumption DEF Cast, CalmInv, Registered, TypeOK, Session, Client
<1>2. /\ via' = [via EXCEPT ![Croupier] = s]
      /\ mail' = [mail EXCEPT ![Croupier] = [type |-> m, to |-> 0]]
      /\ live' = [live EXCEPT ![s] = (available = 0)]
      /\ torn' = (torn \/ ~ attached[s])
      /\ UNCHANGED <<up, down, entry, seated, accepted, connected, attached, lpc, msg, allowed, mpc, rpc,
                     conn, mapped, probe, quits>>
  BY <1>1 DEF Cast, Enter, door, slots, table, listeners, clients
<1>3. Croupier \in Thread /\ Session \subseteq Thread /\ Croupier \notin Session
  BY LocalSessionAssumption DEF Thread, Croupier, Session
<1>4. /\ \A t \in Session : via'[t] = via[t] /\ mail'[t] = mail[t]
      /\ via'[Croupier] = s /\ mail'[Croupier] = [type |-> m, to |-> 0]
  BY <1>1, <1>2, <1>3 DEF TypeOK
<1>5. mapped[s] => live'[s]
  BY <1>1, <1>2 DEF Door, TypeOK
<1>6. Last' = Last /\ Quiet' = Quiet /\ OtherSessions' /\ OtherClients' /\ Registered' /\ Casting'
  <2>1. Last' = Last /\ Quiet' = Quiet
    BY <1>2 DEF Last, Quiet
  <2>2. OtherSessions' /\ OtherClients'
    BY <1>2, <1>4, <2>1 DEF CalmInv, OtherSessions, OtherClients
  <2>3. Registered'
    BY <1>2 DEF CalmInv, Registered
  <2>4. Casting'
    <3>1. ~ torn' => attached'[s]
      BY <1>2
    <3> QED
      BY <1>4, <3>1 DEF Casting
  <2> QED
    BY <2>1, <2>2, <2>3, <2>4
<1>7. connected = 1 => Knocking(Last)'
  BY <1>2, <1>6 DEF CalmInv, Knocking, Asking
<1>8. Stage(s)'
  <2>1. CASE AtDoor(s) \/ Judged(s)
    BY <1>1, <1>2, <1>4, <1>5, <1>6, <2>1
    DEF Stage, AtDoor, Judged, Receiving, Idle, Knocking, Asked, Asking
  <2>2. CASE Served(s)
    <3>1. mapped[s]
      BY <2>2 DEF Served, AtTable, Asked, Asking, Playing
    <3>2. CASE AtTable(s)
      <4>1. AtTable(s)'
        BY <1>1, <1>2, <1>4, <1>6, <3>2 DEF AtTable, Playing, Receiving, Quitting
      <4> QED
        BY <1>2, <1>5, <2>2, <3>1, <4>1 DEF Stage, Served
    <3>3. CASE Asked(s) /\ msg[s] = "join" /\ Carries(s, "ok")
      <4>1. Asked(s)' /\ Carries(s, "ok")'
        BY <1>1, <1>2, <1>4, <1>6, <3>3 DEF Asked, Asking, Carries, Receiving
      <4> QED
        BY <1>2, <1>5, <2>2, <3>1, <3>3, <4>1 DEF Stage, Served
    <3> QED
      BY <2>2, <3>2, <3>3 DEF Served
  <2>3. CASE Leaving(s) \/ Departed(s)
    BY <1>1, <1>2, <1>4, <1>6, <2>3
    DEF Stage, Leaving, Departed, Quitting, Playing, Idle, Gone, Attending
  <2>4. CASE Farewell(s)
    BY <1>1, <1>2, <1>4, <1>6, <2>4 DEF Stage, Farewell, Quitting, Playing, Idle
  <2>5. CASE Refused(s)
    <3>1. Asked(s)' /\ Carries(s, "no")'
      BY <1>1, <1>2, <1>4, <1>6, <2>5 DEF Refused, Asked, Asking, Carries, Receiving
    <3> QED
      BY <1>2, <2>5, <3>1 DEF Stage, Refused, Attending
  <2> QED
    BY <1>1, <2>1, <2>2, <2>3, <2>4, <2>5 DEF Stage
<1> QED
  BY <1>0, <1>2, <1>6, <1>7, <1>8 DEF CalmInv

-----------------------------------------------------------------------------
(***************************************************************************)
(* The steps of a client.                                                  *)
(***************************************************************************)
LEMMA ServerStays ==
  ASSUME UNCHANGED server
  PROVE  UNCHANGED <<accepted, lpc, msg, allowed, via, mail, entry, ips, seated, live, attached, torn,
                     overlap, crashed, casts>>
BY DEF server, table, streams, listeners, calls

\* A step that changes nothing of a session leaves it at its stage.
LEMMA StageStays ==
  ASSUME NEW s \in Session, Stage(s),
         UNCHANGED <<lpc[s], via[s], mail[s], live[s], attached[s], msg[s], allowed[s], seated, up, down,
                     connected, mpc[s], rpc[s], conn[s], mapped[s], probe[s], quits[s]>>
  PROVE  Stage(s)'
<1>1. Quiet' = Quiet
  BY DEF Quiet
<1>2. CASE AtDoor(s) \/ Judged(s)
  BY <1>1, <1>2 DEF Stage, AtDoor, Judged, Receiving, Idle, Knocking, Asked, Asking
<1>3. CASE Served(s)
  <2>1. CASE AtTable(s)
    <3>1. AtTable(s)'
      BY <1>1, <2>1 DEF AtTable, Playing, Receiving, Quitting
    <3> QED
      BY <1>3, <3>1 DEF Stage, Served
  <2>2. CASE Asked(s) /\ msg[s] = "join" /\ Carries(s, "ok")
    <3>1. Asked(s)' /\ Carries(s, "ok")'
      BY <1>1, <2>2 DEF Asked, Asking, Carries, Receiving
    <3> QED
      BY <1>3, <2>2, <3>1 DEF Stage, Served
  <2> QED
    BY <1>3, <2>1, <2>2 DEF Served
<1>4. CASE Leaving(s) \/ Departed(s)
  BY <1>1, <1>4 DEF Stage, Leaving, Departed, Quitting, Playing, Idle, Gone
<1>5. CASE Farewell(s)
  BY <1>1, <1>5 DEF Stage, Farewell, Quitting, Playing, Idle
<1>6. CASE Refused(s)
  <2>1. Asked(s)' /\ Carries(s, "no")'
    BY <1>1, <1>6 DEF Refused, Asked, Asking, Carries, Receiving
  <2> QED
    BY <1>6, <2>1 DEF Stage, Refused, Attending
<1> QED
  BY <1>2, <1>3, <1>4, <1>5, <1>6 DEF Stage

\* A step of a client that is not the last one.
LEMMA BystanderKept ==
  ASSUME TypeOK, TypeOK', CalmInv, NEW c \in Client, c # Last, UNCHANGED server,
         UNCHANGED <<connected, slots>>,
         \A d \in Client \ {c} :
           UNCHANGED <<mapped[d], conn[d], rpc[d], mpc[d], quits[d], probe[d]>>,
         OtherClients'
  PROVE  CalmInv'
<1>1. /\ UNCHANGED <<accepted, lpc, msg, allowed, via, mail, entry, seated, live, attached, torn>>
      /\ UNCHANGED <<up, down>>
  BY ServerStays DEF slots
<1>2. Last' = Last /\ Quiet' = Quiet /\ OtherSessions' /\ Registered' /\ Casting'
  BY <1>1 DEF CalmInv, OtherSessions, Registered, Casting, Last, Quiet
<1>3. accepted \in Nat /\ accepted <= NumClients /\ NumClients \in Nat
      /\ (accepted > 0 => accepted \in Session /\ accepted \in Client)
  BY LocalSessionAssumption DEF TypeOK, Session, Client
<1>4. connected = 1 => Knocking(Last)'
  <2> SUFFICES ASSUME connected = 1 PROVE Knocking(Last)'
    OBVIOUS
  <2>1. Last \in Client \ {c}
    BY <1>3 DEF CalmInv, Last, Client
  <2> QED
    BY <1>1, <1>2, <2>1 DEF CalmInv, Knocking, Asking
<1>5. ASSUME accepted > 0 PROVE Stage(accepted)' /\ (connected = 1 => ~ mapped'[accepted])
  <2>1. CASE connected = 1
    <3>1. accepted < Last' /\ ~ mapped[accepted]
      BY <1>2, <1>3, <1>5, <2>1 DEF CalmInv, Last
    <3>2. Departed(accepted)
      BY <1>5, <3>1 DEF CalmInv, Stage, AtDoor, Judged, Served, Leaving, Farewell, Refused, AtTable,
         Knocking, Asked, Asking, Quitting, Playing
    <3>3. Gone(accepted)' /\ ~ mapped'[accepted]
      <4>1. /\ ~ mapped'[accepted] /\ ~ conn'[accepted]
            /\ rpc'[accepted] \in {"close", "ended"} /\ mpc'[accepted] \in {"key", "ended"}
        BY <1>3, <1>5, <3>1 DEF OtherClients
      <4>2. conn'[accepted] = mapped'[accepted]
        BY <1>3, <1>5, <4>1 DEF TypeOK
      <4> QED
        BY <1>1, <4>1, <4>2 DEF Gone
    <3>4. Departed(accepted)'
      BY <1>1, <1>2, <2>1, <3>2, <3>3 DEF Departed, Idle
    <3> QED
      BY <3>3, <3>4 DEF Stage
  <2>2. CASE connected = 0
    <3>1. accepted \in Client \ {c} /\ Stage(accepted)
      BY <1>3, <1>5, <2>2 DEF CalmInv, Last
    <3> QED
      BY <1>1, <1>3, <1>5, <2>2, <3>1, StageStays
  <2> QED
    BY <2>1, <2>2 DEF CalmInv
<1> QED
  BY <1>1, <1>2, <1>4, <1>5 DEF CalmInv

\* A client that has not got in yet comes after the last.
LEMMA Waiting ==
  ASSUME TypeOK, CalmInv, NEW c \in Client, mpc[c] \in {"look", "take"}
  PROVE  c > Last
<1>1. accepted \in Nat /\ c \in Nat /\ c > 0 /\ Last \in Nat
  BY LocalSessionAssumption DEF Client, TypeOK, Last
<1>2. ~ c < Last
  BY DEF CalmInv, OtherClients
<1>3. ASSUME c = Last PROVE FALSE
  <2>1. ~ Knocking(c) /\ ~ Stage(c)
    BY DEF Knocking, Stage, AtDoor, Judged, Served, Leaving, Farewell, Refused, Departed, AtTable,
       Asked, Quitting, Gone
  <2> QED
    BY <1>1, <1>3, <2>1 DEF CalmInv, Last
<1> QED
  BY <1>1, <1>2, <1>3

LEMMA LookCalm ==
  ASSUME TypeOK, TypeOK', CalmInv, NEW c \in Client, Look(c)
  PROVE  CalmInv'
<1>1. c > Last /\ c # Last
  BY Waiting, LocalSessionAssumption DEF Look, Moves, Client, Last, TypeOK
<1>2. /\ mpc' = [mpc EXCEPT ![c] = "take"]
      /\ UNCHANGED <<server, connected, slots, mapped, conn, rpc, quits, probe>>
  BY DEF Look, Moves, door
<1>3. Last' = Last
  BY <1>2, ServerStays DEF Last
<1>4. OtherClients'
  BY <1>1, <1>2, <1>3 DEF OtherClients, CalmInv, TypeOK
<1>5. \A d \in Client \ {c} :
        UNCHANGED <<mapped[d], conn[d], rpc[d], mpc[d], quits[d], probe[d]>>
  BY <1>2 DEF TypeOK
<1> QED
  BY <1>1, <1>2, <1>4, <1>5, BystanderKept

\* The door is open: nobody is in, and the next to get in is the next in number.
LEMMA TakeCalm ==
  ASSUME TypeOK, Door, CalmInv, NEW c \in Client, Take(c)
  PROVE  CalmInv'
<1>1. /\ mpc' = [mpc EXCEPT ![c] = "join"] /\ rpc' = [rpc EXCEPT ![c] = "enrol"]
      /\ conn' = [conn EXCEPT ![c] = TRUE] /\ mapped' = [mapped EXCEPT ![c] = TRUE]
      /\ connected' = connected + 1 /\ UNCHANGED <<server, up, down, probe, quits>>
  BY DEF Take, Moves, slots
<1>2. UNCHANGED <<accepted, lpc, msg, allowed, via, mail, entry, seated, live, attached, torn>>
  BY <1>1, ServerStays
<1>3. \A d \in Client : ~ mapped[d]
  BY DEF Take, Door
<1>4. /\ accepted \in Nat /\ accepted <= NumClients /\ NumClients \in Nat /\ c \in 1 .. NumClients
      /\ (accepted > 0 => accepted \in Session /\ accepted \in Client)
  BY LocalSessionAssumption DEF TypeOK, Session, Client
<1>5. connected = 0 /\ Last = accepted
  <2>1. connected = 1 => Last \in Client /\ mapped[Last]
    BY <1>4 DEF CalmInv, Last, Client, Knocking, Asking
  <2> QED
    BY <1>3, <1>4, <2>1 DEF CalmInv, Last
<1>6. c = accepted + 1
  <2>1. c > accepted
    BY <1>5, Waiting DEF Take, Moves
  <2>2. ASSUME c > accepted + 1 PROVE FALSE
    <3>1. accepted + 1 \in 1 .. (c - 1) /\ accepted + 1 \in Client /\ accepted + 1 > Last
      BY <1>4, <1>5, <2>2 DEF Client
    <3>2. mpc[accepted + 1] \in {"look", "take"}
      BY <3>1 DEF CalmInv, OtherClients
    <3> QED
      BY <3>1, <3>2 DEF Take
  <2> QED
    BY <1>4, <2>1, <2>2
<1>7. Last' = c /\ connected' = 1
  BY <1>1, <1>2, <1>5, <1>6 DEF Last
<1>8. accepted > 0 => Departed(accepted)
  BY <1>3, <1>4 DEF CalmInv, Stage, AtDoor, Judged, Served, Leaving, Farewell, Refused, AtTable,
     Knocking, Asked, Asking, Quitting, Playing
<1>9. Quiet /\ up = Null
  <2>1. CASE accepted = 0
    BY <1>5, <2>1 DEF CalmInv
  <2>2. CASE accepted > 0
    BY <1>5, <1>8, <2>2 DEF Departed
  <2> QED
    BY <1>4, <2>1, <2>2
<1>10. quits[c] = 0 /\ c > Last
  BY <1>4, <1>5, <1>6 DEF CalmInv, OtherClients, Client
<1>11. \A d \in Client \ {c} : UNCHANGED <<mapped[d], conn[d], rpc[d], mpc[d], quits[d]>>
  BY <1>1 DEF TypeOK
<1>12. /\ mapped'[c] /\ conn'[c] /\ rpc'[c] = "enrol" /\ mpc'[c] = "join"
  BY <1>1 DEF TypeOK
<1>13. Knocking(c)'
  BY <1>1, <1>9, <1>10, <1>12 DEF Knocking, Asking, Quiet
<1>14. OtherClients'
  <2> SUFFICES ASSUME NEW d \in Client
               PROVE  /\ d < c => /\ ~ mapped'[d] /\ ~ conn'[d]
                                  /\ rpc'[d] \in {"close", "ended"} /\ mpc'[d] \in {"key", "ended"}
                      /\ d > c => /\ ~ mapped'[d] /\ ~ conn'[d] /\ quits'[d] = 0
                                  /\ rpc'[d] = "none" /\ mpc'[d] \in {"look", "take"}
    BY <1>7 DEF OtherClients
  <2>1. CASE d > c
    BY <1>5, <1>6, <1>11, <2>1, <1>4 DEF CalmInv, OtherClients, Client
  <2>2. CASE d = accepted
    <3>1. accepted > 0 /\ d # c
      BY <1>4, <1>6, <2>2 DEF Client
    <3>2. Gone(d) /\ ~ mapped[d]
      BY <1>3, <1>8, <2>2, <3>1 DEF Departed
    <3> QED
      BY <1>6, <1>11, <2>2, <3>1, <3>2 DEF Gone, Client
  <2>3. CASE d < accepted
    BY <1>5, <1>6, <1>11, <2>3, <1>4 DEF CalmInv, OtherClients, Client
  <2>4. CASE d = c
    BY <2>4 DEF Client
  <2> QED
    BY <1>4, <1>6, <2>1, <2>2, <2>3, <2>4 DEF Client
<1>15. OtherSessions' /\ Registered' /\ Casting'
  BY <1>2 DEF CalmInv, OtherSessions, Registered, Casting
<1>16. ASSUME accepted > 0 PROVE Stage(accepted)' /\ ~ mapped'[accepted]
  <2>1. accepted \in Client \ {c}
    BY <1>4, <1>6, <1>16
  <2>2. Departed(accepted)'
    BY <1>1, <1>2, <1>7, <1>8, <1>9, <1>11, <1>16, <2>1 DEF Departed, Idle, Gone, Quiet
  <2> QED
    BY <1>3, <1>11, <2>1, <2>2 DEF Stage
<1>17. Last' <= NumClients /\ Last' # 0
  BY <1>4, <1>7
<1> QED
  BY <1>2, <1>7, <1>13, <1>14, <1>15, <1>16, <1>17 DEF CalmInv

\* No write of main's finds a session where the answer is in before the join is out.
LEMMA WriteUpCalm ==
  ASSUME TypeOK, CalmInv, NEW c \in Client,
         \/ WriteUp(c, "join", "join", "wait")
         \/ WriteUp(c, "joinOk", "join", "key") \/ WriteUp(c, "joinNo", "join", "ended")
         \/ WriteUp(c, "write", "quit", "key")
  PROVE  CalmInv'
<1>1. /\ mpc[c] \in {"join", "joinOk", "joinNo", "write"} /\ up = Null
      /\ UNCHANGED <<server, connected, available, down, conn, mapped, probe, quits>>
  BY DEF WriteUp, door
<1>2. c = Last /\ c \in Session /\ (connected = 1 => Knocking(c))
      /\ (connected = 0 => c = accepted /\ Stage(c))
  BY <1>1, Inside
<1>3. connected \in {0, 1}
  BY DEF CalmInv
<1>4. UNCHANGED <<accepted, connected, lpc, msg, allowed, via, mail, entry, seated, live, attached, torn,
                  conn, mapped, quits, down>>
  BY <1>1, ServerStays
<1>5. CASE mpc[c] = "join"
  <2>1. Knocking(c) /\ (connected = 0 => AtDoor(c))
    BY <1>2, <1>3, <1>5 DEF Stage, AtDoor, Judged, Served, Leaving, Farewell, Refused, Departed,
       AtTable, Asked, Quitting, Gone
  <2>2. mapped[c]
    BY <2>1 DEF Knocking, Asking
  <2>3. up' = "join" /\ mpc' = [mpc EXCEPT ![c] = "wait"] /\ UNCHANGED rpc
    BY <1>5, <2>2 DEF WriteUp
  <2>4. Knocking(c)'
    BY <1>4, <2>1, <2>3 DEF Knocking, Asking, Quiet, TypeOK
  <2>5. connected = 0 => AtDoor(c)'
    BY <1>4, <2>1, <2>4 DEF AtDoor, Receiving
  <2>6. \A d \in Client \ {c} : UNCHANGED <<mapped[d], conn[d], rpc[d], mpc[d], quits[d]>>
    BY <1>4, <2>3 DEF TypeOK
  <2> QED
    BY <1>2, <1>4, <2>4, <2>5, <2>6, ClientKept DEF Stage
<1>6. CASE mpc[c] \in {"joinOk", "joinNo"}
  <2>1. ~ Knocking(c) /\ ~ Stage(c)
    BY <1>6 DEF Knocking, Stage, AtDoor, Judged, Served, Leaving, Farewell, Refused, Departed, AtTable,
       Asked, Quitting, Gone
  <2> QED
    BY <1>2, <1>3, <2>1
<1>7. CASE mpc[c] = "write"
  <2>1. connected = 0 /\ Served(c) /\ AtTable(c)
    BY <1>2, <1>3, <1>7 DEF Stage, Knocking, AtDoor, Judged, Served, Leaving, Farewell, Refused, Departed,
       Asked, Quitting, Gone
  <2>2. mapped[c] /\ msg[c] = "join" /\ quits[c] = 1
    BY <1>7, <2>1 DEF AtTable, Playing, Quitting
  <2>3. up' = "quit" /\ mpc' = [mpc EXCEPT ![c] = "key"] /\ UNCHANGED rpc
    BY <1>7, <2>2 DEF WriteUp
  <2>4. AtTable(c)'
    BY <1>4, <2>1, <2>2, <2>3 DEF AtTable, Playing, Receiving, Quiet, TypeOK
  <2>5. Served(c)'
    BY <1>4, <2>1, <2>4 DEF Served
  <2>6. \A d \in Client \ {c} : UNCHANGED <<mapped[d], conn[d], rpc[d], mpc[d], quits[d]>>
    BY <1>4, <2>3 DEF TypeOK
  <2> QED
    BY <1>2, <1>4, <2>1, <2>5, <2>6, ClientKept DEF Stage
<1> QED
  BY <1>1, <1>5, <1>6, <1>7

LEMMA StoreCalm ==
  ASSUME TypeOK, CalmInv, NEW c \in Client, Store(c)
  PROVE  CalmInv'
<1>1. /\ mpc[c] = "store" /\ mpc' = [mpc EXCEPT ![c] = "write"]
      /\ conn' = [conn EXCEPT ![c] = probe[c]]
      /\ UNCHANGED <<server, connected, up, down, rpc, mapped, quits>>
  BY DEF Store, Moves, door, slots
<1>2. connected = 0 /\ c = Last /\ c \in Session /\ Stage(c)
  BY <1>1, Inside DEF CalmInv, Knocking
<1>3. Served(c) /\ AtTable(c)
  BY <1>1, <1>2 DEF Stage, AtDoor, Judged, Served, Leaving, Farewell, Refused, Departed, Knocking, Asked,
     Quitting, Gone
<1>4. UNCHANGED <<accepted, lpc, msg, allowed, via, mail, entry, seated, live, attached, torn>>
  BY <1>1, ServerStays
<1>5. mpc'[c] = "write" /\ conn'[c] = probe[c]
  BY <1>1 DEF TypeOK
<1>6. AtTable(c)'
  BY <1>1, <1>3, <1>4, <1>5 DEF AtTable, Playing, Receiving, Quiet, Quitting
<1>7. Served(c)'
  BY <1>3, <1>4, <1>6 DEF Served
<1>8. \A d \in Client \ {c} : UNCHANGED <<mapped[d], conn[d], rpc[d], mpc[d], quits[d]>>
  BY <1>1 DEF TypeOK
<1> QED
  BY <1>1, <1>2, <1>4, <1>7, <1>8, ClientKept DEF Stage

LEMMA EscapeCalm ==
  ASSUME TypeOK, Door, CalmInv, NEW c \in Client, Escape(c), ~ Impatient'
  PROVE  CalmInv'
<1>1. /\ mpc[c] = "key" /\ conn[c] /\ mpc' = [mpc EXCEPT ![c] = "store"]
      /\ probe' = [probe EXCEPT ![c] = (available = 0)] /\ quits' = [quits EXCEPT ![c] = @ + 1]
      /\ UNCHANGED <<server, connected, up, down, rpc, mapped, conn>>
  BY DEF Escape, Probe, Moves, door, slots
<1>2. connected = 0 /\ c = Last /\ c \in Session /\ Stage(c)
  BY <1>1, Inside DEF CalmInv, Knocking
<1>3. available = 0 /\ mpc'[c] = "store" /\ probe'[c] /\ quits'[c] = quits[c] + 1 /\ quits[c] \in Nat
  BY <1>1 DEF Door, TypeOK
<1>4. quits[c] = 0
  BY <1>3 DEF Impatient
<1>5. Served(c) /\ AtTable(c)
  <2>1. ~ AtDoor(c) /\ ~ Judged(c) /\ ~ Refused(c) /\ ~ Asked(c)
    BY <1>1 DEF AtDoor, Judged, Refused, Knocking, Asked
  <2>2. ~ Leaving(c) /\ ~ Farewell(c)
    BY <1>4 DEF Leaving, Farewell, Quitting
  <2>3. ~ Departed(c)
    BY <1>1 DEF Departed, Gone
  <2> QED
    BY <1>2, <2>1, <2>2, <2>3 DEF Stage, Served
<1>6. UNCHANGED <<accepted, lpc, msg, allowed, via, mail, entry, seated, live, attached, torn>>
  BY <1>1, ServerStays
<1>7. AtTable(c)'
  BY <1>1, <1>3, <1>4, <1>5, <1>6 DEF AtTable, Playing, Receiving, Quiet, Quitting
<1>8. Served(c)'
  BY <1>5, <1>6, <1>7 DEF Served
<1>9. \A d \in Client \ {c} : UNCHANGED <<mapped[d], conn[d], rpc[d], mpc[d], quits[d]>>
  BY <1>1 DEF TypeOK
<1> QED
  BY <1>1, <1>2, <1>6, <1>8, <1>9, ClientKept DEF Stage

\* The end of a client: what a listener has still to do it can do without.
LEMMA GoneKept ==
  ASSUME TypeOK, CalmInv, NEW c \in Client, c = Last, connected = 0, Departed(c),
         UNCHANGED <<server, connected, up, down, quits>>,
         \A d \in Client \ {c} : UNCHANGED <<mapped[d], conn[d], rpc[d], mpc[d]>>,
         Gone(c)'
  PROVE  CalmInv'
<1>1. UNCHANGED <<accepted, lpc, msg, allowed, via, mail, entry, seated, live, attached, torn>>
  BY ServerStays
<1>2. Departed(c)'
  BY <1>1 DEF Departed, Idle, Quiet
<1> QED
  BY <1>1, <1>2, ClientKept DEF Stage

LEMMA KeyboardEndsCalm ==
  ASSUME TypeOK, TypeOK', CalmInv, NEW c \in Client, KeyboardEnds(c)
  PROVE  CalmInv'
<1>1. /\ mpc[c] = "key" /\ ~ conn[c] /\ mpc' = [mpc EXCEPT ![c] = "ended"]
      /\ UNCHANGED <<server, connected, slots, up, down, rpc, mapped, conn, quits, probe>>
  BY DEF KeyboardEnds, Moves, door, slots
<1>2. Last' = Last /\ Last \in Nat /\ c \in Nat
  BY <1>1, ServerStays, LocalSessionAssumption DEF Last, TypeOK, Client
<1>3. mpc'[c] = "ended"
      /\ \A d \in Client \ {c} : UNCHANGED <<mapped[d], conn[d], rpc[d], mpc[d], quits[d], probe[d]>>
  BY <1>1 DEF TypeOK
<1>4. ~ c > Last
  BY <1>1 DEF CalmInv, OtherClients
<1>5. CASE c # Last
  <2>1. OtherClients'
    BY <1>1, <1>2, <1>3, <1>4, <1>5 DEF CalmInv, OtherClients
  <2> QED
    BY <1>1, <1>3, <1>5, <2>1, BystanderKept
<1>6. CASE c = Last
  <2>1. connected = 0 /\ c = accepted /\ Stage(c)
    <3>1. connected # 1
      BY <1>1, <1>6 DEF CalmInv, Knocking
    <3> QED
      BY <1>6, <3>1, LocalSessionAssumption DEF CalmInv, Last, TypeOK, Client
  <2>2. Departed(c) /\ Gone(c)
    BY <1>1, <2>1 DEF Stage, AtDoor, Judged, Served, Leaving, Farewell, Refused, Departed, AtTable,
       Knocking, Asked, Asking, Quitting, Playing
  <2>3. Gone(c)'
    BY <1>1, <1>3, <2>2 DEF Gone
  <2> QED
    BY <1>1, <1>3, <1>6, <2>1, <2>2, <2>3, GoneKept
<1> QED
  BY <1>5, <1>6

LEMMA HangupCalm ==
  ASSUME TypeOK, TypeOK', CalmInv, NEW c \in Client, Hangup(c)
  PROVE  CalmInv'
<1>1. /\ rpc[c] = "close" /\ rpc' = [rpc EXCEPT ![c] = "ended"]
      /\ mapped' = [mapped EXCEPT ![c] = @ /\ ~ conn[c]]
      /\ conn' = [conn EXCEPT ![c] = FALSE]
      /\ UNCHANGED <<server, connected, slots, up, down, mpc, quits, probe>>
  BY DEF Hangup, Closed, slots
<1>2. Last' = Last /\ Last \in Nat /\ c \in Nat
  BY <1>1, ServerStays, LocalSessionAssumption DEF Last, TypeOK, Client
<1>3. /\ rpc'[c] = "ended" /\ ~ conn'[c] /\ mapped'[c] = (mapped[c] /\ ~ conn[c])
      /\ \A d \in Client \ {c} : UNCHANGED <<mapped[d], conn[d], rpc[d], mpc[d], quits[d], probe[d]>>
  BY <1>1 DEF TypeOK
<1>4. ~ c > Last
  BY <1>1 DEF CalmInv, OtherClients
<1>5. CASE c # Last
  <2>1. OtherClients'
    BY <1>1, <1>2, <1>3, <1>4, <1>5 DEF CalmInv, OtherClients
  <2> QED
    BY <1>1, <1>3, <1>5, <2>1, BystanderKept
<1>6. CASE c = Last
  <2>1. connected = 0 /\ c = accepted /\ Stage(c)
    <3>1. connected # 1
      BY <1>1, <1>6 DEF CalmInv, Knocking, Asking
    <3> QED
      BY <1>6, <3>1, LocalSessionAssumption DEF CalmInv, Last, TypeOK, Client
  <2>2. Departed(c) /\ Gone(c)
    BY <1>1, <2>1 DEF Stage, AtDoor, Judged, Served, Leaving, Farewell, Refused, Departed, AtTable,
       Knocking, Asked, Asking, Quitting, Playing
  <2>3. Gone(c)'
    <3>1. ~ mapped'[c]
      BY <1>3, <2>2 DEF Gone, TypeOK
    <3>2. conn'[c] = mapped'[c]
      BY <1>3, <3>1 DEF TypeOK
    <3> QED
      BY <1>1, <1>3, <2>2, <3>1, <3>2 DEF Gone
  <2> QED
    BY <1>1, <1>3, <1>6, <2>1, <2>2, <2>3, GoneKept
<1> QED
  BY <1>5, <1>6

\* The last client hears what the memory holds; what it makes of it is its stage's.
LEMMA HeardKept ==
  ASSUME TypeOK, CalmInv, NEW c \in Client, NEW at \in {"enrol", "read"}, NEW M, Read(c, at, M),
         \A d \in Client \ {c} : UNCHANGED <<mapped[d], conn[d], rpc[d], mpc[d]>>,
         connected = 1 => Asking(c)' /\ UNCHANGED mpc[c],
         connected = 0 => Stage(c)'
  PROVE  CalmInv'
<1>1. UNCHANGED <<connected, up, server, quits>> /\ down' = Null /\ rpc[c] = at
  BY DEF Read
<1>2. UNCHANGED <<accepted, lpc, msg, allowed, via, mail, entry, seated, live, attached, torn>>
  BY <1>1, ServerStays
<1>3. c = Last /\ (connected = 1 => Knocking(c))
  BY <1>1, Inside
<1>4. connected = 1 => Knocking(c)'
  BY <1>1, <1>3 DEF Knocking, Quiet
<1> QED
  BY <1>1, <1>2, <1>3, <1>4, ClientKept

LEMMA HearAnswerCalm ==
  ASSUME TypeOK, Door, CalmInv, NEW c \in Client, HearAnswer(c)
  PROVE  CalmInv'
<1>1. PICK m \in {"ok", "no"} :
        /\ Read(c, "enrol", {m})
        /\ m = "ok" => GoesOn(c, "read")
                       /\ mpc' = [mpc EXCEPT ![c] = IF @ = "join" THEN "joinOk" ELSE "key"]
        /\ m = "no" => Leaves(c)
                       /\ mpc' = [mpc EXCEPT ![c] = IF @ = "join" THEN "joinNo" ELSE "ended"]
  BY DEF HearAnswer
<1>2. /\ rpc[c] = "enrol" /\ down # Null /\ down.type = m /\ down' = Null /\ ~ Quiet
      /\ UNCHANGED <<connected, up, server, probe, quits>>
  BY <1>1 DEF Read, Quiet
<1>3. UNCHANGED <<accepted, lpc, msg, allowed, via, mail, entry, seated, live, attached, torn>>
  BY <1>2, ServerStays
<1>4. connected = 0 /\ c \in Session /\ Stage(c)
  BY <1>2, Inside DEF CalmInv, Knocking
<1>5. \A d \in Client \ {c} : UNCHANGED <<mapped[d], conn[d], rpc[d], mpc[d]>>
  BY <1>1 DEF TypeOK, GoesOn, Leaves
<1>6. Asked(c) /\ Receiving(c) /\ down = [type |-> m, to |-> c] /\ (Served(c) \/ Refused(c))
  <2>1. ~ AtDoor(c) /\ ~ Judged(c) /\ ~ Leaving(c) /\ ~ Farewell(c) /\ ~ Departed(c) /\ ~ AtTable(c)
    BY <1>2 DEF AtDoor, Knocking, Judged, Leaving, Farewell, Departed, AtTable, Quitting, Playing
  <2>2. \/ Served(c) /\ Asked(c) /\ Carries(c, "ok")
        \/ Refused(c) /\ Asked(c) /\ Carries(c, "no")
    BY <1>4, <2>1 DEF Stage, Served, Refused
  <2> QED
    BY <1>2, <2>2 DEF Carries
<1>7. available = 0 /\ mapped[c] /\ conn[c] /\ mpc[c] = "wait" /\ quits[c] = 0 /\ up = Null
  BY <1>6 DEF Door, Asked, Asking
<1>8. CASE m = "ok"
  <2>1. Served(c) /\ msg[c] = "join" /\ ~ AtTable(c)
    <3>1. ~ AtTable(c)
      BY <1>2 DEF AtTable, Playing
    <3>2. ~ Refused(c)
      BY <1>2, <1>6, <1>8 DEF Refused, Carries
    <3> QED
      BY <1>6, <3>1, <3>2 DEF Served
  <2>2. rpc'[c] = "read" /\ conn'[c] /\ mapped'[c] /\ mpc'[c] = "key"
    BY <1>1, <1>7, <1>8 DEF GoesOn, TypeOK
  <2>3. AtTable(c)'
    BY <1>2, <1>3, <1>6, <1>7, <2>1, <2>2 DEF AtTable, Playing, Receiving, Quiet
  <2>4. Served(c)'
    BY <1>3, <2>1, <2>3 DEF Served
  <2> QED
    BY <1>1, <1>4, <1>5, <2>4, HeardKept DEF Stage
<1>9. CASE m = "no"
  <2>1. Refused(c)
    <3>1. ~ AtTable(c)
      BY <1>2 DEF AtTable, Playing
    <3>2. ~ Served(c)
      BY <1>2, <1>6, <1>9, <3>1 DEF Served, Carries
    <3> QED
      BY <1>6, <3>2
  <2>2. rpc'[c] = "close" /\ conn'[c] = conn[c] /\ mapped'[c] = mapped[c] /\ mpc'[c] = "ended"
    BY <1>1, <1>7, <1>9 DEF Leaves, TypeOK
  <2>3. conn[c] = mapped[c]
    BY <1>7 DEF TypeOK
  <2>4. Gone(c)' /\ Quiet' /\ Idle(c)
    <3>1. Gone(c)'
      BY <2>2, <2>3 DEF Gone
    <3>2. Idle(c)
      BY <1>6, <2>1 DEF Refused, Receiving, Idle
    <3> QED
      BY <1>2, <3>1, <3>2 DEF Quiet
  <2>5. Departed(c)'
    BY <1>2, <1>3, <1>7, <2>1, <2>4 DEF Departed, Refused, Idle
  <2> QED
    BY <1>1, <1>4, <1>5, <2>5, HeardKept DEF Stage
<1> QED
  BY <1>8, <1>9

LEMMA HearServerCalm ==
  ASSUME TypeOK, Door, CalmInv, NEW c \in Client, HearServer(c), ~ expelled'
  PROVE  CalmInv'
<1>1. PICK M : Read(c, "read", M)
  BY DEF HearServer
<1>2. /\ rpc[c] = "read" /\ down # Null /\ down' = Null /\ down.type # "out"
      /\ UNCHANGED <<connected, up, server, probe, quits>>
  BY <1>1 DEF Read
<1>3. UNCHANGED <<accepted, lpc, msg, allowed, via, mail, entry, seated, live, attached, torn>>
  BY <1>2, ServerStays
<1>4. connected = 0 /\ c \in Session /\ Stage(c)
  BY <1>2, Inside DEF CalmInv, Knocking, Asking
<1>5. (Served(c) /\ AtTable(c)) \/ Leaving(c) \/ Farewell(c)
  BY <1>2, <1>4 DEF Stage, Served, AtDoor, Judged, Refused, Departed, Gone, Knocking, Asked, Asking
<1>6. available = 0 /\ mapped[c] /\ conn[c] /\ c \in Client
  BY <1>5 DEF Door, AtTable, Leaving, Farewell, Quitting, Playing
<1>7. CASE GoesOn(c, "read") /\ UNCHANGED mpc /\ down.type # "gone"
  <2>1. /\ rpc'[c] = "read" /\ conn'[c] /\ UNCHANGED <<mpc, mapped>>
        /\ \A d \in Client \ {c} : UNCHANGED <<mapped[d], conn[d], rpc[d], mpc[d]>>
    BY <1>6, <1>7 DEF GoesOn, TypeOK
  <2>2. Quiet'
    BY <1>2 DEF Quiet
  <2>3. CASE Served(c) /\ AtTable(c)
    <3>1. AtTable(c)'
      BY <1>2, <1>3, <2>1, <2>2, <2>3 DEF AtTable, Playing, Receiving, Quitting
    <3>2. Served(c)'
      BY <1>3, <2>3, <3>1 DEF Served
    <3> QED
      BY <1>1, <1>4, <2>1, <3>2, HeardKept DEF Stage
  <2>4. CASE Leaving(c)
    <3>1. Leaving(c)'
      BY <1>2, <1>3, <2>1, <2>2, <2>4 DEF Leaving, Quitting, Playing, Idle
    <3> QED
      BY <1>1, <1>4, <2>1, <3>1, HeardKept DEF Stage
  <2>5. CASE Farewell(c)
    <3>1. Farewell(c)'
      BY <1>2, <1>3, <1>7, <2>1, <2>2, <2>5 DEF Farewell, Quitting, Playing
    <3> QED
      BY <1>1, <1>4, <2>1, <3>1, HeardKept DEF Stage
  <2> QED
    BY <1>5, <2>3, <2>4, <2>5
<1>8. CASE down.type = "gone" /\ Closed(c) /\ rpc' = [rpc EXCEPT ![c] = "close"] /\ UNCHANGED mpc
  <2>1. Farewell(c) /\ Idle(c)
    <3>1. ~ Quiet
      BY <1>2, <1>8 DEF Quiet
    <3> QED
      BY <1>5, <3>1 DEF AtTable, Leaving, Farewell
  <2>2. /\ rpc'[c] = "close" /\ ~ conn'[c] /\ ~ mapped'[c] /\ UNCHANGED mpc
        /\ \A d \in Client \ {c} : UNCHANGED <<mapped[d], conn[d], rpc[d], mpc[d]>>
    BY <1>6, <1>8 DEF Closed, TypeOK
  <2>3. conn'[c] = mapped'[c]
    BY <1>6, <1>8 DEF Closed, TypeOK
  <2>4. mpc[c] = "key" /\ up = Null
    BY <2>1 DEF Farewell, Quitting
  <2>5. Gone(c)' /\ Quiet'
    BY <1>2, <2>2, <2>3, <2>4 DEF Gone, Quiet
  <2>6. Departed(c)'
    BY <1>2, <1>3, <2>1, <2>4, <2>5 DEF Departed, Idle, Farewell
  <2> QED
    BY <1>1, <1>4, <2>2, <2>6, HeardKept DEF Stage
<1> QED
  BY <1>2, <1>7, <1>8 DEF HearServer, Read

\* A broadcast heard before the answer, which is then still to be written.
LEMMA HearEarlyCalm ==
  ASSUME TypeOK, Door, CalmInv, NEW c \in Client, Read(c, "enrol", {"note", "gone"}),
         GoesOn(c, "enrol"), UNCHANGED mpc
  PROVE  CalmInv'
<1>1. /\ rpc[c] = "enrol" /\ down # Null /\ down' = Null /\ down.type \in {"note", "gone"}
      /\ UNCHANGED <<connected, up, server, probe, quits>>
  BY DEF Read
<1>2. UNCHANGED <<accepted, lpc, msg, allowed, via, mail, entry, seated, live, attached, torn>>
  BY <1>1, ServerStays
<1>3. /\ c \in Session /\ (connected = 1 => Knocking(c)) /\ (connected = 0 => Stage(c))
      /\ connected \in {0, 1}
  BY <1>1, Inside DEF CalmInv
<1>4. Quiet'
  BY <1>1 DEF Quiet
<1>5. connected = 0 =>
        \/ AtDoor(c) \/ Judged(c)
        \/ Served(c) /\ Asked(c) /\ msg[c] = "join" /\ Carries(c, "ok")
        \/ Refused(c)
  BY <1>1, <1>3 DEF Stage, Served, AtTable, Leaving, Farewell, Departed, Gone, Quitting, Playing
<1>6. Asking(c)
  BY <1>3, <1>5 DEF AtDoor, Knocking, Judged, Refused, Asked
<1>7. available = 0
  BY <1>6 DEF Door, Asking
<1>8. /\ rpc'[c] = "enrol" /\ conn'[c] /\ mapped' = mapped
      /\ \A d \in Client \ {c} : UNCHANGED <<mapped[d], conn[d], rpc[d], mpc[d]>>
  BY <1>6, <1>7 DEF GoesOn, TypeOK, Asking
<1>9. Asking(c)'
  BY <1>1, <1>6, <1>8 DEF Asking
<1>10. ASSUME NEW m, Carries(c, m), m \in {"ok", "no"} PROVE Carries(c, m)'
  BY <1>1, <1>2, <1>4, <1>10 DEF Carries, Receiving
<1>11. ASSUME connected = 0 PROVE Stage(c)'
  <2>1. CASE AtDoor(c) \/ Judged(c)
    BY <1>1, <1>2, <1>4, <1>9, <2>1 DEF Stage, AtDoor, Judged, Receiving, Idle, Knocking, Asked
  <2>2. CASE Served(c) /\ Asked(c) /\ msg[c] = "join" /\ Carries(c, "ok")
    <3>1. Carries(c, "ok")' /\ Asked(c)'
      BY <1>1, <1>9, <1>10, <2>2 DEF Asked
    <3> QED
      BY <1>2, <2>2, <3>1 DEF Stage, Served
  <2>3. CASE Refused(c)
    <3>1. Carries(c, "no")' /\ Asked(c)'
      BY <1>1, <1>9, <1>10, <2>3 DEF Refused, Asked
    <3> QED
      BY <1>2, <2>3, <3>1 DEF Stage, Refused, Attending
  <2> QED
    BY <1>5, <1>11, <2>1, <2>2, <2>3
<1> QED
  BY <1>8, <1>9, <1>11, HeardKept

-----------------------------------------------------------------------------
LEMMA ListenCalm ==
  ASSUME TypeOK, Door, CalmInv, NEW s \in Session, Listen(s)
  PROVE  CalmInv' /\ crashed' = crashed
<1>1. CASE Start(s)
  BY <1>1, StartCalm DEF Start, LMoves
<1>2. CASE Enrol(s)
  BY <1>2, EnrolTestCalm, ReadJoinCalm DEF Enrol
<1>3. CASE Admit(s)
  BY <1>3, AdmitCalm DEF Admit, LMoves
<1>4. CASE Answer(s)
  BY <1>4, AnswerCalm
<1>5. CASE Test(s, "serve", "serveRecv", msg[s] # "quit" /\ allowed[s], "leave")
  BY <1>5, ServeTestCalm
<1>6. CASE ReadUp(s, "serveRecv", [m \in Up |-> "serve"])
  BY <1>6, ReadQuitCalm
<1>7. CASE Part(s)
  BY <1>7, PartCalm
<1>8. CASE ~ allowed[s] /\ LMoves(s, "leave", "close") /\ UNCHANGED <<table, msg, allowed>>
  <2>1. crashed' = crashed /\ UNCHANGED <<entry, msg, allowed>>
    BY <1>8 DEF LMoves, table
  <2> QED
    BY <1>8, <2>1, OutCalm
<1>9. CASE CloseStream(s)
  BY <1>9, CloseCalm
<1>10. CASE Erase(s)
  <2>1. crashed' = crashed /\ UNCHANGED <<msg, allowed>> /\ entry' = Null
    BY <1>10 DEF Erase, LMoves
  <2>2. CASE allowed[s]
    <3>1. LMoves(s, "erase", "free")
      BY <1>10, <2>2 DEF Erase
    <3> QED
      BY <2>1, <2>2, <3>1, OutCalm
  <2>3. CASE ~ allowed[s]
    <3>1. LMoves(s, "erase", "ended")
      BY <1>10, <2>3 DEF Erase
    <3> QED
      BY <2>1, <2>3, <3>1, OutCalm
  <2> QED
    BY <2>2, <2>3
<1>11. CASE Free(s)
  <2>1. crashed' = crashed /\ UNCHANGED <<entry, msg, allowed>> /\ LMoves(s, "free", "ended")
    BY <1>11 DEF Free, LMoves
  <2> QED
    BY <2>1, OutCalm
<1> QED
  BY <1>1, <1>2, <1>3, <1>4, <1>5, <1>6, <1>7, <1>8, <1>9, <1>10, <1>11 DEF Listen

\* The server crashes in no call but the croupier's, of a stream closed meanwhile.
LEMMA CrashedCalm ==
  ASSUME CalmInv, Crash, ServerOnly
  PROVE  CalmInv'
<1>1. /\ UNCHANGED <<accepted, connected, lpc, msg, allowed, via, mail, entry, seated, live, attached,
                     torn, mpc, rpc, conn, mapped, probe, quits, up, down>>
  BY DEF Crash, ServerOnly, slots, table, streams, listeners, calls, history, door, clients
<1> QED
  BY <1>1 DEF CalmInv, Last, OtherSessions, OtherClients, Registered, Casting, Quiet, Knocking, Asking,
     Stage, AtDoor, Judged, Served, Leaving, Farewell, Refused, Departed, AtTable, Asked, Quitting,
     Playing, Carries, Receiving, Idle, Gone, Attending

LEMMA ClientCalm ==
  ASSUME TypeOK, TypeOK', Door, CalmInv, NEW c \in Client, ClientStep(c) \/ Escape(c), Gentle'
  PROVE  CalmInv'
<1>1. CASE Main(c)
  BY <1>1, LookCalm, TakeCalm, WriteUpCalm, StoreCalm, KeyboardEndsCalm DEF Main
<1>2. CASE Hear(c)
  <2>1. CASE Read(c, "enrol", {"out"})
    BY <2>1 DEF Read, Gentle
  <2> QED
    BY <1>2, <2>1, HearAnswerCalm, HearServerCalm, HearEarlyCalm DEF Hear, Gentle
<1>3. CASE Hangup(c)
  BY <1>3, HangupCalm
<1>4. CASE Escape(c)
  BY <1>4, EscapeCalm DEF Gentle
<1> QED
  BY <1>1, <1>2, <1>3, <1>4 DEF ClientStep

\* Whatever happens, from calm to calm; and the croupier's torn call is all that crashes.
LEMMA CalmStep ==
  ASSUME TypeOK, TypeOK', Door, CalmInv, Next, Gentle', ~ overlap'
  PROVE  CalmInv' /\ (crashed' => torn)
<1>1. CASE Accept
  BY <1>1, AcceptCalm DEF Accept, Next
<1>2. ASSUME NEW t \in Thread, WriteDown(t) PROVE CalmInv' /\ (crashed' => torn)
  <2>1. CASE ~ attached[via[t]] /\ Crash
    <3>1. CalmInv'
      BY <1>2, <2>1, CrashedCalm DEF WriteDown
    <3>2. torn
      BY <1>2, <2>1, Mapped DEF WriteDown
    <3> QED
      BY <3>1, <3>2
  <2>2. CASE crashed' = crashed
    BY <1>2, <2>2, WriteDownCalm DEF Next
  <2> QED
    BY <1>2, <2>1, <2>2 DEF WriteDown
<1>3. ASSUME NEW s \in Session, Listen(s) PROVE CalmInv' /\ (crashed' => torn)
  BY <1>3, ListenCalm DEF Next
<1>4. ASSUME NEW m \in {"note", "out"}, Cast(m) PROVE CalmInv' /\ (crashed' => torn)
  BY <1>4, CastCalm DEF Cast, Next
<1>5. ASSUME NEW c \in Client, ClientStep(c) \/ Escape(c) PROVE CalmInv' /\ (crashed' => torn)
  <2>1. UNCHANGED server
    BY <1>5 DEF ClientStep, Main, Look, Take, WriteUp, Store, KeyboardEnds, Hear, HearAnswer,
       HearServer, Read, Hangup, Escape, Probe, Moves
  <2> QED
    BY <1>5, <2>1, ServerStays, ClientCalm DEF Next
<1> QED
  BY <1>1, <1>2, <1>3, <1>4, <1>5 DEF Next, Onward, ServerStep

-----------------------------------------------------------------------------
(***************************************************************************)
(* The door.                                                               *)
(***************************************************************************)
LEMMA ListenLeaves ==
  ASSUME TypeOK, NEW s \in Session, Listen(s)
  PROVE  UNCHANGED <<door, clients, overlap, expelled>> /\ (torn => torn')
<1>1. CASE Start(s) \/ Admit(s) \/ Erase(s) \/ Free(s)
  BY <1>1 DEF Start, Admit, Erase, Free, LMoves, ServerOnly, history
<1>2. CASE Enrol(s) \/ Answer(s)
  BY <1>2 DEF Enrol, Answer, Test, ReadUp, Send, Crash, ServerOnly, history
<1>3. CASE \/ Test(s, "serve", "serveRecv", msg[s] # "quit" /\ allowed[s], "leave")
           \/ ReadUp(s, "serveRecv", [m \in Up |-> "serve"])
           \/ Part(s)
  BY <1>3 DEF Test, ReadUp, Part, Crash, ServerOnly, history
<1>4. CASE ~ allowed[s] /\ LMoves(s, "leave", "close")
  BY <1>4 DEF LMoves, ServerOnly, history
<1>5. CASE CloseStream(s)
  <2>1. /\ UNCHANGED <<door, clients, overlap, expelled>>
        /\ torn' = torn \/ torn' = (torn \/ via[Croupier] = entry)
    BY <1>5 DEF CloseStream, Crash, ServerOnly, history
  <2> QED
    BY <2>1 DEF TypeOK
<1> QED
  BY <1>1, <1>2, <1>3, <1>4, <1>5 DEF Listen

\* What has happened stays so.
LEMMA Grows ==
  ASSUME TypeOK, [Next]_vars
  PROVE  /\ overlap => overlap'
         /\ torn => torn'
         /\ expelled => expelled'
         /\ Impatient => Impatient'
<1>1. CASE UNCHANGED vars
  BY <1>1 DEF vars, server, clients, Impatient
<1>2. CASE Accept
  BY <1>2 DEF Accept, clients, Impatient
<1>3. ASSUME NEW t \in Thread, WriteDown(t)
      PROVE  UNCHANGED <<overlap, torn, expelled, quits>>
  BY <1>3 DEF WriteDown, Crash, ServerOnly, history, clients
<1>4. ASSUME NEW s \in Session, Listen(s)
      PROVE  UNCHANGED <<overlap, expelled, quits>> /\ (torn => torn')
  BY <1>4, ListenLeaves DEF clients
<1>5. ASSUME NEW m \in {"note", "out"}, Cast(m)
      PROVE  UNCHANGED <<overlap, expelled, quits>> /\ (torn => torn')
  BY <1>5 DEF Cast, clients
<1>6. ASSUME NEW c \in Client, ClientStep(c)
      PROVE  UNCHANGED <<overlap, torn, quits>> /\ (expelled => expelled')
  <2>1. CASE Main(c) \/ Hangup(c)
    BY <1>6, <2>1, ServerStays DEF Main, Look, Take, WriteUp, Store, KeyboardEnds, Hangup, Moves
  <2>2. CASE Hear(c)
    <3>1. PICK at, M : Read(c, at, M)
      BY <2>2 DEF Hear, HearAnswer, HearServer
    <3> QED
      BY <3>1, ServerStays DEF Read, TypeOK
  <2> QED
    BY <1>6, <2>1, <2>2 DEF ClientStep
<1>7. ASSUME NEW c \in Client, Escape(c)
      PROVE  UNCHANGED <<overlap, torn, expelled>> /\ (Impatient => Impatient')
  <2>1. UNCHANGED <<server, expelled>> /\ quits' = [quits EXCEPT ![c] = @ + 1]
    BY <1>7 DEF Escape, Probe, Moves
  <2>2. \A d \in Client : quits[d] > 1 => quits'[d] > 1
    BY <2>1 DEF TypeOK
  <2> QED
    BY <2>1, <2>2, ServerStays DEF Impatient
<1> QED
  BY <1>1, <1>2, <1>3, <1>4, <1>5, <1>6, <1>7 DEF Next, Onward, ServerStep, Impatient

\* The one who gives the door back is the one who took it.
LEMMA ClosedDoor ==
  ASSUME TypeOK, Door, NEW c \in Client, Closed(c), conn[c] => mpc[c] # "store",
         UNCHANGED <<mpc, overlap>>
  PROVE  Door'
<1>1. CASE conn[c]
  <2>1. mapped[c] /\ available = 0 /\ \A d \in Client : mapped[d] => d = c
    BY <1>1 DEF Door
  <2>2. /\ available' = 1 /\ mapped'[c] = (mapped[c] /\ ~ conn[c]) /\ conn'[c] = FALSE
        /\ \A d \in Client \ {c} : mapped'[d] = mapped[d] /\ conn'[d] = conn[d]
    BY <1>1, <2>1 DEF Closed, TypeOK
  <2>3. ASSUME NEW d \in Client PROVE ~ conn'[d] /\ mpc'[d] # "store"
    <3>1. CASE d = c
      BY <1>1, <2>2, <3>1
    <3>2. CASE d # c
      BY <2>1, <2>2, <3>2 DEF Door
    <3> QED
      BY <3>1, <3>2
  <2>4. ASSUME NEW d \in Client PROVE ~ mapped'[d]
    BY <1>1, <2>1, <2>2
  <2> QED
    BY <2>2, <2>3, <2>4 DEF Door
<1>2. CASE ~ conn[c]
  <2>1. UNCHANGED available /\ \A d \in Client : mapped'[d] = mapped[d] /\ (conn'[d] => conn[d])
    BY <1>2 DEF Closed, TypeOK
  <2> QED
    BY <2>1 DEF Door
<1> QED
  BY <1>1, <1>2

\* A step after which a client is connected only if it was, and its keyboard is elsewhere.
LEMMA DoorKept ==
  ASSUME TypeOK, Door, UNCHANGED <<available, mapped>>,
         \A d \in Client : conn'[d] => conn[d],
         \A d \in Client : mpc'[d] \in {"store", "write"} => mpc[d] = mpc'[d] /\ ~ overlap'
  PROVE  Door'
BY DEF Door

LEMMA TakeDoor ==
  ASSUME TypeOK, Door, NEW c \in Client, Take(c)
  PROVE  Door'
<1>1. available = 1 /\ \A d \in Client : ~ mapped[d]
  BY DEF Take, Door
<1>2. /\ available' = 0 /\ UNCHANGED server
      /\ \A d \in Client : /\ mapped'[d] <=> d = c
                           /\ conn'[d] => d = c \/ conn[d]
                           /\ mpc'[d] = IF d = c THEN "join" ELSE mpc[d]
  BY <1>1 DEF Take, Moves, TypeOK
<1>3. overlap' = overlap
  BY <1>2, ServerStays
<1> QED
  BY <1>1, <1>2, <1>3 DEF Door

LEMMA HearDoor ==
  ASSUME TypeOK, Door, Gentle, Calm => CalmInv, NEW c \in Client, Hear(c)
  PROVE  Door'
<1>1. PICK at, M : at \in {"enrol", "read"} /\ Read(c, at, M)
  BY DEF Hear, HearAnswer, HearServer
<1>2. UNCHANGED overlap /\ rpc[c] = at /\ down # Null
  BY <1>1, ServerStays DEF Read
<1>3. /\ mpc' \in [Client -> MainPC]
      /\ \A d \in Client : mpc'[d] \in {"store", "write"} => mpc[d] = mpc'[d]
  BY DEF Hear, HearAnswer, HearServer, TypeOK, MainPC
<1>4. CASE \E label \in {"enrol", "read"} : GoesOn(c, label) \/ Leaves(c)
  <2>1. UNCHANGED <<available, mapped>> /\ \A d \in Client : conn'[d] => conn[d]
    BY <1>4 DEF GoesOn, Leaves, TypeOK
  <2>2. \A d \in Client : mpc'[d] \in {"store", "write"} => ~ overlap'
    BY <1>2, <1>3 DEF Door
  <2> QED
    BY <1>3, <2>1, <2>2, DoorKept
<1>5. CASE Read(c, "read", {"gone"}) /\ Closed(c) /\ UNCHANGED mpc
  <2>1. ASSUME mpc[c] = "store" PROVE FALSE
    <3>1. CalmInv
      BY <2>1 DEF Calm, Door
    <3>2. Stage(c) /\ connected = 0
      BY <2>1, <3>1, Inside DEF CalmInv, Knocking
    <3>3. down.type = "gone" /\ ~ Quiet
      BY <1>2, <1>5 DEF Read, Quiet
    <3> QED
      BY <2>1, <3>2, <3>3 DEF Stage, AtDoor, Judged, Served, Leaving, Farewell, Refused, Departed,
         AtTable, Knocking, Asked, Quitting, Gone
  <2> QED
    BY <1>2, <1>5, <2>1, ClosedDoor
<1> QED
  BY <1>4, <1>5 DEF Hear, HearAnswer, HearServer

LEMMA HangupDoor ==
  ASSUME TypeOK, Door, Gentle, Calm => CalmInv, NEW c \in Client, Hangup(c)
  PROVE  Door'
<1>1. rpc[c] = "close" /\ Closed(c) /\ UNCHANGED <<server, mpc>>
  BY DEF Hangup
<1>2. ASSUME mpc[c] = "store" PROVE FALSE
  <2>1. CalmInv
    BY <1>2 DEF Calm, Door
  <2>2. Stage(c) /\ connected = 0
    BY <1>2, <2>1, Inside DEF CalmInv, Knocking
  <2> QED
    BY <1>1, <1>2, <2>2 DEF Stage, AtDoor, Judged, Served, Leaving, Farewell, Refused, Departed,
       AtTable, Knocking, Asked, Quitting, Playing, Gone
<1> QED
  BY <1>1, <1>2, ClosedDoor, ServerStays

LEMMA DoorStep ==
  ASSUME TypeOK, Door, Gentle, Calm => CalmInv, Next
  PROVE  Door'
<1>1. CASE Accept
  <2>1. UNCHANGED <<available, clients>>
    BY <1>1 DEF Accept
  <2>2. ASSUME NEW c \in Client, mpc[c] \in {"store", "write"} PROVE FALSE
    <3>1. CalmInv
      BY <2>2 DEF Calm, Door
    <3>2. connected = 1
      BY <1>1, <3>1 DEF Accept, CalmInv
    <3> QED
      BY <2>2, <3>1, <3>2, Inside DEF Knocking
  <2>3. UNCHANGED <<mpc, conn, mapped>>
    BY <2>1 DEF clients
  <2> QED
    BY <2>1, <2>2, <2>3, DoorKept
<1>2. CASE \/ \E t \in Thread : WriteDown(t)
           \/ \E s \in Session : Listen(s)
           \/ \E m \in {"note", "out"} : Cast(m)
  <2>1. UNCHANGED <<available, overlap, mpc, conn, mapped>>
    BY <1>2, ListenLeaves DEF WriteDown, Cast, Crash, ServerOnly, history, door, clients
  <2>2. \A d \in Client : mpc'[d] \in {"store", "write"} => mpc[d] = mpc'[d] /\ ~ overlap'
    BY <2>1 DEF Door
  <2> QED
    BY <2>1, <2>2, DoorKept
<1>3. ASSUME NEW c \in Client, Main(c) PROVE Door'
  <2>1. CASE Look(c) \/ KeyboardEnds(c)
    <3>1. UNCHANGED <<available, mapped, conn, server>>
      BY <2>1 DEF Look, KeyboardEnds, Moves, door
    <3>2. \A d \in Client : mpc'[d] \in {"store", "write"} => mpc[d] = mpc'[d]
      BY <2>1 DEF Look, KeyboardEnds, Moves, TypeOK
    <3> QED
      BY <3>1, <3>2, ServerStays, DoorKept DEF Door
  <2>2. CASE Take(c)
    BY <2>2, TakeDoor
  <2>3. ASSUME NEW from, NEW m, NEW to \in {"wait", "key", "ended"}, WriteUp(c, from, m, to)
        PROVE  Door'
    <3>1. UNCHANGED <<available, mapped, conn, server>>
      BY <2>3 DEF WriteUp, door
    <3>2. \A d \in Client : mpc'[d] \in {"store", "write"} => mpc[d] = mpc'[d]
      BY <2>3 DEF WriteUp, TypeOK
    <3> QED
      BY <3>1, <3>2, ServerStays, DoorKept DEF Door
  <2>4. CASE Store(c)
    <3>1. mpc[c] = "store" /\ mapped[c] /\ ~ overlap
      BY <2>4 DEF Store, Moves, Door
    <3>2. /\ UNCHANGED <<available, mapped, server>>
          /\ \A d \in Client : /\ conn'[d] => d = c \/ conn[d]
                               /\ mpc'[d] = IF d = c THEN "write" ELSE mpc[d]
      BY <2>4 DEF Store, Moves, door, TypeOK
    <3>3. UNCHANGED overlap
      BY <3>2, ServerStays
    <3> QED
      BY <3>1, <3>2, <3>3 DEF Door
  <2> QED
    BY <1>3, <2>1, <2>2, <2>3, <2>4 DEF Main
<1>4. ASSUME NEW c \in Client, Hear(c) PROVE Door'
  BY <1>4, HearDoor
<1>5. ASSUME NEW c \in Client, Hangup(c) PROVE Door'
  BY <1>5, HangupDoor
<1>6. ASSUME NEW c \in Client, Escape(c) PROVE Door'
  <2>1. mapped[c] /\ ~ overlap /\ UNCHANGED <<available, mapped, conn, server>>
        /\ \A d \in Client : mpc'[d] = IF d = c THEN "store" ELSE mpc[d]
    BY <1>6 DEF Escape, Probe, Moves, door, TypeOK, Door
  <2>2. UNCHANGED overlap
    BY <2>1, ServerStays
  <2> QED
    BY <2>1, <2>2 DEF Door
<1> QED
  BY <1>1, <1>2, <1>3, <1>4, <1>5, <1>6 DEF Next, Onward, ServerStep, ClientStep

-----------------------------------------------------------------------------
LEMMA SessionInit == Init => SessionInv
<1> SUFFICES ASSUME Init PROVE SessionInv
  OBVIOUS
<1>1. CrashCauses
  BY DEF Init, CrashCauses
<1>2. Door
  BY DEF Init, Door
<1>3. CalmInv
  <2>1. Last = 0 /\ Quiet
    BY DEF Init, Last, Quiet
  <2>2. OtherSessions /\ Casting
    BY LocalSessionAssumption DEF Init, OtherSessions, Casting, Session, Thread, Croupier
  <2>3. OtherClients
    BY <2>1, LocalSessionAssumption DEF Init, OtherClients, Client
  <2>4. Registered
    BY DEF Init, Registered
  <2> QED
    BY <2>1, <2>2, <2>3, <2>4, LocalSessionAssumption DEF Init, CalmInv
<1> QED
  BY <1>1, <1>2, <1>3 DEF SessionInv

LEMMA SessionStep == TypeOK /\ TypeOK' /\ SessionInv /\ [Next]_vars => SessionInv'
<1> SUFFICES ASSUME TypeOK, TypeOK', SessionInv, [Next]_vars PROVE SessionInv'
  OBVIOUS
<1>1. CASE UNCHANGED vars
  <2>1. UNCHANGED <<available, connected, up, down, entry, ips, seated, accepted, live, attached, lpc,
                    msg, allowed, via, mail, casts, crashed, mpc, rpc, conn, mapped, probe, quits,
                    overlap, torn, expelled>>
    BY <1>1 DEF vars, door, slots, server, table, streams, listeners, calls, clients
  <2>2. CrashCauses' = CrashCauses /\ Gentle' = Gentle /\ Calm' = Calm /\ Door' = Door
    BY <2>1 DEF CrashCauses, Mishap, Impatient, Gentle, Calm, Door
  <2>3. CalmInv => CalmInv'
    BY <2>1 DEF CalmInv, Last, OtherSessions, OtherClients, Registered, Casting, Quiet, Knocking,
       Asking, Stage, AtDoor, Judged, Served, Leaving, Farewell, Refused, Departed, AtTable, Asked,
       Quitting, Playing, Carries, Receiving, Idle, Gone, Attending
  <2> QED
    BY <2>2, <2>3 DEF SessionInv
<1>2. CASE Next
  <2>1. (Gentle' => Gentle) /\ (Calm' => Calm)
    BY Grows DEF Gentle, Calm
  <2>2. Gentle' => Door'
    BY <1>2, <2>1, DoorStep DEF SessionInv
  <2>3. Calm' => CalmInv' /\ (crashed' => torn)
    BY <1>2, <2>1, CalmStep DEF SessionInv, Calm
  <2>4. CrashCauses'
    BY <2>3, Grows DEF CrashCauses, Mishap, Calm, Gentle
  <2> QED
    BY <2>2, <2>3, <2>4 DEF SessionInv
<1> QED
  BY <1>1, <1>2

LEMMA SessionSafe == Spec => [](TypeOK /\ SessionInv)
<1>1. Init => TypeOK /\ SessionInv
  BY TypeInit, SessionInit
<1>2. (TypeOK /\ SessionInv) /\ [Next]_vars => (TypeOK /\ SessionInv)'
  BY TypeStep, SessionStep
<1> QED
  BY <1>1, <1>2, PTL DEF Spec

(***************************************************************************)
(* acceptLocalClients and makeConnection: the door lets in one client at a *)
(* time, and is given back once, by the client that took it, however many  *)
(* clients come: unless one presses escape twice or a bankruptcy sends one *)
(* away.                                                                   *)
(***************************************************************************)
THEOREM OneClientSafe == Spec => []OneClient
<1>1. TypeOK /\ SessionInv => OneClient
  <2> SUFFICES ASSUME TypeOK, Door PROVE available + Cardinality({c \in Client : mapped[c]}) = 1
    BY DEF OneClient, SessionInv, Gentle
  <2>1. CASE \E c \in Client : mapped[c]
    <3>1. PICK c \in Client : {d \in Client : mapped[d]} = {c} /\ available = 0
      BY <2>1 DEF Door
    <3> QED
      BY <3>1, FS_Singleton
  <2>2. CASE ~ \E c \in Client : mapped[c]
    <3>1. {c \in Client : mapped[c]} = {} /\ available = 1
      BY <2>2 DEF Door
    <3> QED
      BY <3>1, FS_EmptySet
  <2> QED
    BY <2>1, <2>2
<1> QED
  BY <1>1, SessionSafe, PTL

(***************************************************************************)
(* The four mishaps that bring the server down are all there are: a client *)
(* that is let in while its predecessor's listener is at work, a stream    *)
(* closed in the croupier's call, a second escape, a bankruptcy.  Without  *)
(* one of them no call is of an entry that is missing or of memory that is *)
(* no longer mapped, and no farewell is for a player already deleted.      *)
(***************************************************************************)
THEOREM CrashCausesSafe == Spec => []CrashCauses
<1>1. SessionInv => CrashCauses
  BY DEF SessionInv
<1> QED
  BY <1>1, SessionSafe, PTL

(***************************************************************************)
(* The answer a client waits for and finds in the memory is its own: the   *)
(* next client knocks with nothing in the memory but broadcasts.           *)
(***************************************************************************)
THEOREM AnswerIsOwnSafe == Spec => []AnswerIsOwn
<1>1. TypeOK /\ SessionInv => AnswerIsOwn
  <2> SUFFICES ASSUME TypeOK, CalmInv, NEW c \in Client, rpc[c] = "enrol", down # Null
               PROVE  down.to \in {0, c}
    BY DEF AnswerIsOwn, SessionInv, Calm, Gentle
  <2>1. c \in Session /\ (connected = 1 => Knocking(c)) /\ (connected = 0 => Stage(c))
        /\ connected \in {0, 1}
    BY Inside DEF CalmInv
  <2>2. Quiet \/ (\E m \in {"ok", "no"} : Carries(c, m))
    BY <2>1 DEF Knocking, Stage, AtDoor, Judged, Served, AtTable, Leaving, Farewell, Refused, Departed,
       Gone, Quitting, Playing
  <2>3. CASE Quiet
    BY <2>3, DownTypes DEF Quiet
  <2>4. CASE \E m \in {"ok", "no"} : Carries(c, m)
    BY <2>3, <2>4 DEF Carries
  <2> QED
    BY <2>2, <2>3, <2>4
<1> QED
  BY <1>1, SessionSafe, PTL

-----------------------------------------------------------------------------
(***************************************************************************)
(* Nobody is left waiting.                                                 *)
(***************************************************************************)
\* Whatever happens, a door that is shut has a client inside.
DoorKeeper == available > 0 \/ \E c \in Client : mapped[c]

LEMMA DoorKeeperStep == TypeOK /\ TypeOK' /\ DoorKeeper /\ [Next]_vars => DoorKeeper'
<1> SUFFICES ASSUME TypeOK, TypeOK', DoorKeeper, [Next]_vars PROVE DoorKeeper'
  OBVIOUS
<1>1. ASSUME UNCHANGED <<available, mapped>> PROVE DoorKeeper'
  BY <1>1 DEF DoorKeeper
<1>2. ASSUME NEW c \in Client, Take(c) PROVE DoorKeeper'
  BY <1>2 DEF DoorKeeper, Take, TypeOK
<1>3. ASSUME NEW c \in Client, Closed(c) PROVE DoorKeeper'
  <2>1. CASE conn[c]
    BY <1>3, <2>1 DEF DoorKeeper, Closed, TypeOK
  <2>2. CASE ~ conn[c]
    BY <1>3, <2>2 DEF DoorKeeper, Closed, TypeOK
  <2> QED
    BY <2>1, <2>2
<1>4. CASE UNCHANGED vars
  BY <1>1, <1>4 DEF vars, door, clients
<1>5. ASSUME NEW c \in Client, Main(c) PROVE DoorKeeper'
  BY <1>1, <1>2, <1>5 DEF Main, Look, WriteUp, Store, KeyboardEnds, door
<1>6. ASSUME NEW c \in Client, Hear(c) \/ Hangup(c) PROVE DoorKeeper'
  BY <1>1, <1>3, <1>6 DEF Hear, HearAnswer, HearServer, GoesOn, Leaves, Hangup
<1>7. CASE Accept \/ (\E m \in {"note", "out"} : Cast(m))
           \/ (\E t \in Thread : WriteDown(t)) \/ (\E c \in Client : Escape(c))
  BY <1>1, <1>7 DEF Accept, Cast, WriteDown, ServerOnly, Escape, Probe, door, clients
<1>8. ASSUME NEW s \in Session, Listen(s) PROVE DoorKeeper'
  <2>1. UNCHANGED <<door, clients>>
    BY <1>8, ListenLeaves
  <2> QED
    BY <1>1, <2>1 DEF door, clients
<1> QED
  BY <1>4, <1>5, <1>6, <1>7, <1>8 DEF Next, Onward, ServerStep, ClientStep

\* Among those who wait behind others somebody is the first.
LEMMA FirstInLine ==
  ASSUME TypeOK, NEW c \in Client, mpc[c] \in {"look", "take"}
  PROVE  \E d \in Client : /\ mpc[d] \in {"look", "take"}
                          /\ \A e \in 1 .. (d - 1) : mpc[e] \notin {"look", "take"}
<1> DEFINE W == {d \in Client : mpc[d] \in {"look", "take"}}
           R == OpToRel(<, Nat)
<1>1. IsWellFoundedOn(R, Nat)
  BY NatLessThanWellFounded
<1>2. \A i, j \in Nat : i < j => <<i, j>> \in R
  BY DEF OpToRel
<1> HIDE DEF R
<1>3. W \subseteq Nat /\ W # {}
  BY DEF Client
<1>4. PICK d \in W : \A e \in W : ~ (<<e, d>> \in R)
  BY <1>1, <1>3, WFMin
<1>5. \A e \in 1 .. (d - 1) : e \in Client /\ e < d /\ e \in Nat /\ d \in Nat
  BY <1>4, LocalSessionAssumption DEF Client
<1> QED
  BY <1>2, <1>4, <1>5

(***************************************************************************)
(* When all that can move has moved, a client that has written its join    *)
(* has had its answer, unless there was a mishap: at each of the stages of *)
(* a session in which it waits, its listener, the call that carries the    *)
(* answer or its own reader can go on.                                     *)
(***************************************************************************)
LEMMA WaitEnds ==
  ASSUME TypeOK, SessionInv, Settled, NEW c \in Client, mpc[c] = "wait"
  PROVE  Mishap
<1> SUFFICES ASSUME ~ Mishap PROVE FALSE
  OBVIOUS
<1>1. CalmInv
  BY DEF SessionInv, Calm, Gentle, Mishap
<1>2. /\ c = Last /\ c \in Session
      /\ connected = 1 => Knocking(c)
      /\ connected = 0 => c = accepted /\ Stage(c)
  BY <1>1, Inside
<1>3. connected = 0
  BY <1>1, LocalSessionAssumption DEF CalmInv, Last, Settled, TypeOK
<1>4. /\ ListenerStops(c) /\ ReaderStops(c) /\ c \in Thread /\ Written(c)
  BY <1>2 DEF Settled, Thread
<1>5. ~ AtDoor(c)
  BY <1>4 DEF AtDoor, Receiving, Knocking, ListenerStops, Up
<1>6. ~ Judged(c)
  BY <1>4 DEF Judged, Idle, ListenerStops
<1>7. ASSUME NEW m \in {"ok", "no"}, Asked(c), Carries(c, m) PROVE FALSE
  <2>1. down = Null
    BY <1>4, <1>7 DEF Asked, Asking, ReaderStops
  <2>2. [type |-> m, to |-> c] \in Down
    BY <1>2 DEF Down
  <2> QED
    BY <1>4, <1>7, <2>1, <2>2, LocalSessionAssumption DEF Carries, Written
<1>8. ~ Served(c) /\ ~ Refused(c)
  BY <1>7 DEF Served, Refused, AtTable, Quitting
<1>9. ~ Leaving(c) /\ ~ Farewell(c) /\ ~ Departed(c)
  BY DEF Leaving, Farewell, Departed, Quitting, Gone
<1> QED
  BY <1>2, <1>3, <1>5, <1>6, <1>8, <1>9 DEF Stage

(***************************************************************************)
(* makeConnection and join(): a client is answered unless there was a      *)
(* mishap, and one that lost the door to another waits no longer than      *)
(* somebody is in, for any number of clients, broadcasts and escapes.      *)
(***************************************************************************)
THEOREM JoinAnsweredSafe == Spec => []JoinAnswered
<1>1. TypeOK /\ SessionInv /\ DoorKeeper => JoinAnswered
  <2> SUFFICES ASSUME TypeOK, SessionInv, DoorKeeper, Settled, NEW c \in Client
               PROVE  /\ mpc[c] = "wait" => Mishap
                      /\ mpc[c] = "take" => \E d \in Client : mapped[d]
    BY DEF JoinAnswered
  <2>1. ASSUME mpc[c] = "take" PROVE \E d \in Client : mapped[d]
    <3>1. PICK d \in Client : /\ mpc[d] \in {"look", "take"}
                             /\ \A e \in 1 .. (d - 1) : mpc[e] \notin {"look", "take"}
      BY <2>1, FirstInLine
    <3>2. available = 0
      BY <3>1 DEF Settled, MainStops
    <3> QED
      BY <3>2 DEF DoorKeeper
  <2> QED
    BY <2>1, WaitEnds
<1>2. Init => TypeOK /\ SessionInv /\ DoorKeeper
  BY TypeInit, SessionInit DEF Init, DoorKeeper
<1>3. (TypeOK /\ SessionInv /\ DoorKeeper) /\ [Next]_vars => (TypeOK /\ SessionInv /\ DoorKeeper)'
  BY TypeStep, SessionStep, DoorKeeperStep
<1> QED
  BY <1>1, <1>2, <1>3, PTL DEF Spec

(***************************************************************************)
(* A croupier in a call has something to write: he only ever sends.        *)
(***************************************************************************)
CallWrites == via[Croupier] # Null => mail[Croupier] # Null

LEMMA CallWritesStep == TypeOK /\ CallWrites /\ [Next]_vars => CallWrites'
<1> SUFFICES ASSUME TypeOK, CallWrites, [Next]_vars PROVE CallWrites'
  OBVIOUS
<1> USE DEF Croupier
<1>1. ASSUME UNCHANGED calls PROVE CallWrites'
  BY <1>1 DEF CallWrites, calls
<1>2. ASSUME NEW m \in {"note", "out"}, Cast(m) PROVE CallWrites'
  <2>1. [type |-> m, to |-> 0] \in Down /\ 0 \in Thread
    BY DEF Down, Thread
  <2> QED
    BY <1>2, <2>1, LocalSessionAssumption DEF CallWrites, Cast, Enter, TypeOK
<1>3. ASSUME NEW t \in Thread, WriteDown(t) PROVE CallWrites'
  BY <1>1, <1>3 DEF CallWrites, WriteDown, Crash, TypeOK, Thread
<1>4. ASSUME NEW s \in Session, Listen(s) PROVE CallWrites'
  <2>1. s # 0 /\ s \in Thread /\ 0 \in Thread
    BY LocalSessionAssumption DEF Session, Thread
  <2>2. via'[0] = via[0] /\ mail'[0] = mail[0]
    <3>1. CASE UNCHANGED calls
      BY <3>1 DEF calls
    <3>2. ASSUME NEW m, Enter(s, m) PROVE via'[0] = via[0] /\ mail'[0] = mail[0]
      BY <2>1, <3>2 DEF Enter, TypeOK
    <3>3. CASE via' = [via EXCEPT ![s] = Null] /\ mail' = mail
      BY <2>1, <3>3 DEF TypeOK
    <3>4. CASE Enrol(s) \/ Answer(s)
               \/ Test(s, "serve", "serveRecv", msg[s] # "quit" /\ allowed[s], "leave")
               \/ ReadUp(s, "serveRecv", [m \in Up |-> "serve"]) \/ Part(s)
      BY <3>1, <3>2, <3>3, <3>4 DEF Enrol, Answer, Test, ReadUp, Send, Part, Crash
    <3>5. CASE Start(s) \/ Admit(s) \/ Erase(s) \/ Free(s) \/ CloseStream(s)
               \/ (~ allowed[s] /\ LMoves(s, "leave", "close"))
      BY <3>1, <3>5 DEF Start, Admit, Erase, Free, CloseStream, LMoves, Crash
    <3> QED
      BY <1>4, <3>4, <3>5 DEF Listen
  <2> QED
    BY <2>2 DEF CallWrites
<1>5. ASSUME NEW c \in Client, ClientStep(c) \/ Escape(c) PROVE CallWrites'
  <2>1. UNCHANGED server
    BY <1>5 DEF ClientStep, Main, Look, Take, WriteUp, Store, KeyboardEnds, Moves, Hear,
       HearAnswer, HearServer, Read, Hangup, Escape, Probe
  <2> QED
    BY <1>1, <2>1 DEF server
<1>6. CASE Accept \/ UNCHANGED vars
  BY <1>1, <1>6 DEF Accept, vars, server
<1> QED
  BY <1>2, <1>3, <1>4, <1>5, <1>6 DEF Next, Onward, ServerStep

(***************************************************************************)
(* RulaxLocalStream::operator<<: when all that can move has moved, the     *)
(* croupier is held up in a call only if no local client is left to read:  *)
(* mishap or not, and whichever clients came and went.                     *)
(***************************************************************************)
THEOREM CroupierHeldUp ==
  Spec => [](Settled /\ via[Croupier] # Null => \A c \in Client : rpc[c] \in {"none", "ended"})
<1>1. /\ CallWrites
      /\ Settled /\ via[Croupier] # Null
      => \A c \in Client : rpc[c] \in {"none", "ended"}
  BY DEF CallWrites, Settled, Written, ReaderStops, Thread, Croupier
<1>2. Init => TypeOK /\ CallWrites
  BY TypeInit DEF Init, CallWrites, Croupier, Thread
<1>3. (TypeOK /\ CallWrites) /\ [Next]_vars => (TypeOK /\ CallWrites)'
  BY TypeStep, CallWritesStep
<1> QED
  BY <1>1, <1>2, <1>3, PTL DEF Spec
=============================================================================
