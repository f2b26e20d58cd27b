---------------------------- MODULE LocalSession ----------------------------
(***************************************************************************)
(* Clients on the server's own machine, one after another: the door        *)
(* (SERVER_AVAILABLE, CLIENT_CONNECTED) that lets in one at a time, the    *)
(* shared memory they talk through, and the server's entry 0, under which  *)
(* each of them is registered.                                             *)
(*                                                                         *)
(* The memory holds one message in each direction; that the semaphores     *)
(* around it make such a channel is shown in LocalStream.                  *)
(***************************************************************************)
EXTENDS Naturals, FiniteSets, Functions

CONSTANTS
  NumClients,   \* the clients that get in, numbered in that order
  MaxPlayers,   \* MaxPlayers of server.cfg
  MaxCasts,     \* bound: messages the croupier broadcasts
  MaxKeys,      \* bound: escapes the users press
  Null          \* no value

Client == 1 .. NumClients

\* The k-th connection accepted; the server makes a stream and a thread for it.
Session == 1 .. NumClients
Thread == Session \cup {0}
Croupier == 0

\* The messages.  The answers to a join, with the session they are meant for.
Up == {"join", "quit"}
Down == [type : {"ok", "no"}, to : Session] \cup [type : {"note", "gone", "out"}, to : {0}]

ASSUME LocalSessionAssumption ==
  /\ NumClients \in Nat /\ MaxPlayers \in Nat
  /\ MaxCasts \in Nat /\ MaxKeys \in Nat
  /\ Null \notin Nat /\ Null \notin Up \cup {"lost"} /\ Null \notin Down

VARIABLES
  \* semaphores and shared memory
  available, connected,
  up, down,    \* what is unread in each direction; "lost": its token is gone
  \* the server
  entry,       \* connections[0]: a session, or Null
  ips,         \* connections_ips has the address of the local clients
  seated,      \* the player table has player 0
  accepted,    \* connections accepted so far
  live,        \* is_connected of each stream
  attached,    \* the stream has the memory mapped
  lpc, msg, allowed,
  via,         \* the stream a thread is in a call of, Null when in none
  mail,        \* what that call is to write
  casts,
  crashed,     \* the server is gone
  \* the clients
  mpc,         \* main, then the keyboard's thread
  rpc,         \* the thread that listens to the server
  conn,        \* is_connected
  mapped,      \* the memory is mapped
  probe,       \* what operator<< has read and is about to store
  quits,       \* escapes pressed
  \* history
  overlap,     \* two listeners of entry 0 at a time
  torn,        \* the croupier was in a call of a stream when it was closed, or after
  expelled     \* a bankruptcy has sent a local client away

door == <<available, connected>>
slots == <<up, down>>
table == <<entry, ips, seated>>
streams == <<live, attached>>
listeners == <<lpc, msg, allowed>>
calls == <<via, mail>>
history == <<overlap, torn, expelled>>
server == <<table, accepted, streams, listeners, calls, casts, crashed, overlap, torn>>
clients == <<mpc, rpc, conn, mapped, probe, quits>>
vars == <<door, slots, server, clients, expelled>>

-----------------------------------------------------------------------------
ListenerPC ==
  {"none", "start", "enrol", "enrolRecv", "admit", "confirm", "deny",
   "serve", "serveRecv", "leave", "close", "erase", "free", "ended"}
MainPC ==
  {"look", "take", "join", "joinOk", "joinNo", "wait", "key", "store", "write",
   "ended"}
ReaderPC == {"none", "enrol", "read", "close", "ended"}

Init ==
  /\ available = 1 /\ connected = 0
  /\ up = Null /\ down = Null
  /\ entry = Null
  /\ ips = FALSE
  /\ seated = FALSE
  /\ accepted = 0
  /\ live = [s \in Session |-> FALSE]
  /\ attached = [s \in Session |-> FALSE]
  /\ lpc = [s \in Session |-> "none"]
  /\ msg = [s \in Session |-> "ok"]
  /\ allowed = [s \in Session |-> FALSE]
  /\ via = [t \in Thread |-> Null]
  /\ mail = [t \in Thread |-> Null]
  /\ casts = 0
  /\ crashed = FALSE
  /\ mpc = [c \in Client |-> "look"]
  /\ rpc = [c \in Client |-> "none"]
  /\ conn = [c \in Client |-> FALSE]
  /\ mapped = [c \in Client |-> FALSE]
  /\ probe = [c \in Client |-> FALSE]
  /\ quits = [c \in Client |-> 0]
  /\ overlap = FALSE
  /\ torn = FALSE
  /\ expelled = FALSE

-----------------------------------------------------------------------------
(***************************************************************************)
(* The server's streams.  Each call on connections[0] looks the entry up;  *)
(* a missing one is a null dereference.  Both operators first store what   *)
(* SERVER_AVAILABLE says into is_connected, then wait for the memory.      *)
(***************************************************************************)
ServerOnly == UNCHANGED <<door, clients, casts, accepted>>

Alone(s) == \A t \in Session \ {s} : lpc[t] \in {"none", "ended"}

LGoto(s, label) == lpc' = [lpc EXCEPT ![s] = label]

Crash ==
  /\ crashed' = TRUE
  /\ UNCHANGED <<slots, table, streams, listeners, calls, history>>

\* Thread t enters a call of the stream in the entry.
Enter(t, m) ==
  /\ via' = [via EXCEPT ![t] = entry]
  /\ mail' = [mail EXCEPT ![t] = m]
  /\ live' = [live EXCEPT ![entry] = (available = 0)]

\* operator<<, from its wait on.
WriteDown(t) ==
  /\ via[t] # Null /\ mail[t] # Null
  /\ down = Null
  /\ \/ /\ attached[via[t]]
        /\ down' = mail[t]
        /\ via' = [via EXCEPT ![t] = Null]
        /\ mail' = [mail EXCEPT ![t] = Null]
        /\ UNCHANGED <<up, table, streams, listeners, crashed, history>>
     \/ ~ attached[via[t]] /\ Crash
  /\ ServerOnly

\* A listener's send to its own client, by way of the entry.
Send(s, from, m, to) ==
  /\ lpc[s] = from
  /\ via[s] = Null
  /\ \/ /\ entry # Null
        /\ Enter(s, [type |-> m, to |-> s])
        /\ LGoto(s, to)
        /\ UNCHANGED <<slots, table, attached, msg, allowed, crashed, history>>
     \/ entry = Null /\ Crash
  /\ ServerOnly

-----------------------------------------------------------------------------
(***************************************************************************)
(* acceptLocalClients                                                      *)
(***************************************************************************)
Accept ==
  /\ connected > 0
  /\ accepted < NumClients
  /\ connected' = connected - 1
  /\ accepted' = accepted + 1
  /\ LET s == accepted + 1 IN
       /\ entry' = s
       /\ live' = [live EXCEPT ![s] = TRUE]
       /\ attached' = [attached EXCEPT ![s] = TRUE]
       /\ LGoto(s, "start")
       /\ overlap' = (overlap \/ ~ Alone(s))
  /\ UNCHANGED <<available, slots, ips, seated, msg, allowed, calls, casts, crashed, torn,
                 expelled, clients>>

(***************************************************************************)
(* The croupier's broadcasts, as far as they reach the local client.       *)
(***************************************************************************)
Cast(m) ==
  /\ casts < MaxCasts /\ ~ overlap
  /\ via[Croupier] = Null
  /\ entry # Null
  /\ Enter(Croupier, [type |-> m, to |-> 0])
  /\ casts' = casts + 1
  /\ torn' = (torn \/ ~ attached[entry])
  /\ UNCHANGED <<door, slots, table, accepted, attached, listeners, crashed, overlap,
                 expelled, clients>>

-----------------------------------------------------------------------------
(***************************************************************************)
(* listenClient                                                            *)
(***************************************************************************)
LMoves(s, from, to) ==
  /\ lpc[s] = from
  /\ via[s] = Null
  /\ LGoto(s, to)
  /\ UNCHANGED <<slots, streams, calls, crashed, history>>
  /\ ServerOnly

Start(s) ==
  /\ LMoves(s, "start", "enrol")
  /\ allowed' = [allowed EXCEPT ![s] = ~ ips]
  /\ ips' = TRUE
  /\ UNCHANGED <<entry, seated, msg>>

\* The test of a loop and the call of operator>> that follows it.
Test(s, from, to, more, out) ==
  /\ lpc[s] = from
  /\ via[s] = Null
  /\ \/ /\ entry # Null
        /\ live[entry] /\ more
        /\ Enter(s, Null)
        /\ LGoto(s, to)
        /\ UNCHANGED <<slots, table, attached, msg, allowed, crashed, history>>
     \/ /\ entry # Null
        /\ ~ (live[entry] /\ more)
        /\ LGoto(s, out)
        /\ UNCHANGED <<slots, table, streams, msg, allowed, calls, crashed, history>>
     \/ entry = Null /\ Crash
  /\ ServerOnly

ReadUp(s, from, next) ==
  /\ lpc[s] = from
  /\ up \in Up
  /\ \/ /\ attached[via[s]]
        /\ msg' = [msg EXCEPT ![s] = up]
        /\ up' = Null
        /\ via' = [via EXCEPT ![s] = Null]
        /\ LGoto(s, next[up])
        /\ UNCHANGED <<down, table, streams, allowed, mail, crashed, history>>
     \/ ~ attached[via[s]] /\ Crash
  /\ ServerOnly

Enrol(s) ==
  LET judge == [quit |-> "enrol", join |-> IF allowed[s] THEN "admit" ELSE "deny"]
  IN \/ Test(s, "enrol", "enrolRecv", msg[s] \notin Up, "serve")
     \/ ReadUp(s, "enrolRecv", judge)

\* A full table not noticed.
AdmitUnlisted(s) ==
  /\ LMoves(s, "admit", "confirm")
  /\ seated' = (MaxPlayers = 0)
  /\ UNCHANGED <<allowed, entry, ips, msg>>

\* addPlayer fails when the table is full of network players.
Admit(s) ==
  /\ \/ /\ LMoves(s, "admit", "confirm")
        /\ seated' = TRUE
        /\ UNCHANGED allowed
     \/ /\ MaxPlayers > 0
        /\ LMoves(s, "admit", "deny")
        /\ allowed' = [allowed EXCEPT ![s] = FALSE]
        /\ UNCHANGED seated
  /\ UNCHANGED <<entry, ips, msg>>

\* A refusal not told.
AnswerAdmitted(s) ==
  \/ Send(s, "confirm", "ok", "serve")
  \/ LMoves(s, "deny", "serve") /\ UNCHANGED <<table, msg, allowed>>

Answer(s) ==
  \/ Send(s, "confirm", "ok", "serve")
  \/ Send(s, "deny", "no", "serve")

\* The name of a player who is not in the table is a null dereference.
Part(s) ==
  /\ lpc[s] = "leave"
  /\ allowed[s]
  /\ \/ seated /\ entry # Null /\ Enter(s, [type |-> "gone", to |-> 0]) /\ LGoto(s, "close")
        /\ UNCHANGED <<slots, table, attached, msg, allowed, crashed, history>>
     \/ seated /\ entry = Null /\ LGoto(s, "close")
        /\ UNCHANGED <<slots, table, streams, calls, msg, allowed, crashed, history>>
     \/ ~ seated /\ Crash
  /\ ServerOnly

\* The player is deleted, then the stream closed.
CloseStream(s) ==
  /\ lpc[s] = "close"
  /\ via[s] = Null
  /\ \/ /\ entry # Null
        /\ attached' = [attached EXCEPT ![entry] = @ /\ ~ live[entry]]
        /\ live' = [live EXCEPT ![entry] = FALSE]
        /\ torn' = (torn \/ via[Croupier] = entry)
        /\ seated' = (seated /\ ~ allowed[s])
        /\ LGoto(s, "erase")
        /\ UNCHANGED <<slots, entry, ips, msg, allowed, calls, crashed, overlap, expelled>>
     \/ entry = Null /\ Crash
  /\ ServerOnly

Erase(s) ==
  /\ LMoves(s, "erase", IF allowed[s] THEN "free" ELSE "ended")
  /\ entry' = Null
  /\ UNCHANGED <<ips, seated, msg, allowed>>

Free(s) ==
  /\ LMoves(s, "free", "ended")
  /\ ips' = FALSE
  /\ UNCHANGED <<entry, seated, msg, allowed>>

Listen(s) ==
  \/ Start(s) \/ Enrol(s) \/ Admit(s) \/ Answer(s)
  \/ Test(s, "serve", "serveRecv", msg[s] # "quit" /\ allowed[s], "leave")
  \/ ReadUp(s, "serveRecv", [m \in Up |-> "serve"])
  \/ Part(s)
  \/ ~ allowed[s] /\ LMoves(s, "leave", "close") /\ UNCHANGED <<table, msg, allowed>>
  \/ CloseStream(s) \/ Erase(s) \/ Free(s)

ServerStep ==
  \/ Accept
  \/ \E t \in Thread : WriteDown(t)
  \/ \E s \in Session : Listen(s)

-----------------------------------------------------------------------------
(***************************************************************************)
(* A client: RulaxClientSock::makeConnection, join(), then the keyboard's  *)
(* thread, which sends a quit for each escape while it is connected.       *)
(***************************************************************************)
Moves(c, from, to) ==
  /\ mpc[c] = from
  /\ mpc' = [mpc EXCEPT ![c] = to]
  /\ UNCHANGED <<server, expelled>>

\* A process that finds the door shut ends at once, and is not numbered.
Look(c) ==
  /\ available > 0
  /\ Moves(c, "look", "take")
  /\ UNCHANGED <<door, slots, rpc, conn, mapped, probe, quits>>

Take(c) ==
  /\ available > 0
  /\ \A d \in 1 .. (c - 1) : mpc[d] \notin {"look", "take"}
  /\ Moves(c, "take", "join")
  /\ available' = available - 1
  /\ connected' = connected + 1
  /\ conn' = [conn EXCEPT ![c] = TRUE]
  /\ mapped' = [mapped EXCEPT ![c] = TRUE]
  /\ rpc' = [rpc EXCEPT ![c] = "enrol"]
  /\ UNCHANGED <<slots, probe, quits>>

\* operator<<: is_connected from SERVER_AVAILABLE, in two steps.
Probe(c, from, to) ==
  /\ Moves(c, from, to)
  /\ probe' = [probe EXCEPT ![c] = (available = 0)]
  /\ UNCHANGED <<door, slots, rpc, conn, mapped>>

Store(c) ==
  /\ Moves(c, "store", "write")
  /\ conn' = [conn EXCEPT ![c] = probe[c]]
  /\ probe' = [probe EXCEPT ![c] = FALSE]
  /\ UNCHANGED <<door, slots, rpc, mapped, quits>>

\* Written into memory no longer mapped, the process is gone, with the token.
WriteUp(c, from, m, to) ==
  /\ up = Null
  /\ mpc[c] = from
  /\ \/ /\ mapped[c]
        /\ up' = m
        /\ mpc' = [mpc EXCEPT ![c] = to]
        /\ UNCHANGED rpc
     \/ /\ ~ mapped[c]
        /\ up' = "lost"
        /\ mpc' = [mpc EXCEPT ![c] = "ended"]
        /\ rpc' = [rpc EXCEPT ![c] = "ended"]
  /\ UNCHANGED <<door, down, server, expelled, conn, mapped, probe, quits>>

Escape(c) ==
  /\ conn[c]
  /\ SumFunction(quits) < MaxKeys /\ ~ overlap
  /\ Probe(c, "key", "store")
  /\ quits' = [quits EXCEPT ![c] = @ + 1]

KeyboardEnds(c) ==
  /\ ~ conn[c]
  /\ Moves(c, "key", "ended")
  /\ UNCHANGED <<door, slots, rpc, conn, mapped, probe, quits>>

Main(c) ==
  \/ Look(c) \/ Take(c)
  \/ WriteUp(c, "join", "join", "wait")
  \/ WriteUp(c, "joinOk", "join", "key") \/ WriteUp(c, "joinNo", "join", "ended")
  \/ Store(c) \/ WriteUp(c, "write", "quit", "key")
  \/ KeyboardEnds(c)

(***************************************************************************)
(* listenServer.  Its two loops, and the two calls of closeStream().       *)
(***************************************************************************)
\* is_connected not looked at.
ClosedTwice(c) ==
  /\ available' = available + 1
  /\ mapped' = [mapped EXCEPT ![c] = FALSE]
  /\ conn' = [conn EXCEPT ![c] = FALSE]

Closed(c) ==
  /\ available' = IF conn[c] THEN available + 1 ELSE available
  /\ mapped' = [mapped EXCEPT ![c] = @ /\ ~ conn[c]]
  /\ conn' = [conn EXCEPT ![c] = FALSE]

\* The test of the loop, and what the next operator>> stores first.
GoesOn(c, label) ==
  /\ rpc' = [rpc EXCEPT ![c] = IF conn[c] THEN label ELSE "close"]
  /\ conn' = [conn EXCEPT ![c] = @ /\ available = 0]
  /\ UNCHANGED <<available, mapped>>

Leaves(c) ==
  /\ rpc' = [rpc EXCEPT ![c] = "close"]
  /\ UNCHANGED <<available, conn, mapped>>

Read(c, at, M) ==
  /\ rpc[c] = at
  /\ down # Null /\ down.type \in M
  /\ down' = Null
  /\ expelled' = (expelled \/ down.type = "out")
  /\ UNCHANGED <<connected, up, server, probe, quits>>

\* Main learns it when its join is written.
HearAnswer(c) ==
  \/ /\ Read(c, "enrol", {"ok"}) /\ GoesOn(c, "read")
     /\ mpc' = [mpc EXCEPT ![c] = IF @ = "join" THEN "joinOk" ELSE "key"]
  \/ /\ Read(c, "enrol", {"no"}) /\ Leaves(c)
     /\ mpc' = [mpc EXCEPT ![c] = IF @ = "join" THEN "joinNo" ELSE "ended"]

\* Every local client is player 0: the farewell of one is that of the next.
HearServer(c) ==
  \/ Read(c, "read", {"note", "ok", "no"}) /\ GoesOn(c, "read") /\ UNCHANGED mpc
  \/ Read(c, "read", {"out"}) /\ Leaves(c) /\ UNCHANGED mpc
  \/ /\ Read(c, "read", {"gone"})
     /\ Closed(c)
     /\ rpc' = [rpc EXCEPT ![c] = "close"]
     /\ UNCHANGED mpc

\* Any message taken for the end of the enrolment.
HearOnce(c) ==
  \/ HearAnswer(c) \/ HearServer(c)
  \/ Read(c, "enrol", {"note", "gone", "out"}) /\ Leaves(c) /\ UNCHANGED mpc

\* What comes before the answer left unread.
HearLate(c) == HearAnswer(c) \/ HearServer(c)

Hear(c) ==
  \/ HearAnswer(c) \/ HearServer(c)
  \/ Read(c, "enrol", {"note", "gone"}) /\ GoesOn(c, "enrol") /\ UNCHANGED mpc
  \/ Read(c, "enrol", {"out"}) /\ Leaves(c) /\ UNCHANGED mpc

Hangup(c) ==
  /\ rpc[c] = "close"
  /\ rpc' = [rpc EXCEPT ![c] = "ended"]
  /\ Closed(c)
  /\ UNCHANGED <<connected, slots, server, expelled, mpc, probe, quits>>

ClientStep(c) == Main(c) \/ Hear(c) \/ Hangup(c)

-----------------------------------------------------------------------------
Onward == ServerStep \/ \E c \in Client : ClientStep(c)

Next ==
  /\ ~ crashed
  /\ \/ Onward
     \/ \E m \in {"note", "out"} : Cast(m)
     \/ \E c \in Client : Escape(c)

Spec == Init /\ [][Next]_vars

-----------------------------------------------------------------------------
TypeOK ==
  /\ available \in Nat /\ connected \in Nat
  /\ up = Null \/ up = "lost" \/ up \in Up
  /\ down = Null \/ down \in Down
  /\ entry = Null \/ entry \in Session
  /\ ips \in BOOLEAN /\ seated \in BOOLEAN /\ crashed \in BOOLEAN
  /\ accepted \in 0 .. NumClients
  /\ live \in [Session -> BOOLEAN] /\ attached \in [Session -> BOOLEAN]
  /\ lpc \in [Session -> ListenerPC]
  /\ msg \in [Session -> Up \cup {"ok"}]
  /\ allowed \in [Session -> BOOLEAN]
  /\ via \in [Thread -> Session \cup {Null}]
  /\ mail \in [Thread -> Down \cup {Null}]
  /\ casts \in Nat
  /\ mpc \in [Client -> MainPC] /\ rpc \in [Client -> ReaderPC]
  /\ conn \in [Client -> BOOLEAN]
  /\ mapped \in [Client -> BOOLEAN]
  /\ probe \in [Client -> BOOLEAN]
  /\ quits \in [Client -> Nat]
  /\ overlap \in BOOLEAN /\ torn \in BOOLEAN /\ expelled \in BOOLEAN

Impatient == \E c \in Client : quits[c] > 1

(***************************************************************************)
(* The door lets in one client at a time, and is given back once: by the   *)
(* client that took it, though closeStream() is called twice on a farewell.*)
(* Only an escape pressed while the farewell is under way (by a user who   *)
(* goes on pressing it, or when the farewell is that of a client a         *)
(* bankruptcy sent away) has is_connected stored between the two calls,    *)
(* and the door opened for two.                                            *)
(***************************************************************************)
OneClient ==
  Impatient \/ expelled \/ available + Cardinality({c \in Client : mapped[c]}) = 1

(***************************************************************************)
(* Four things only bring the server down: the listener of a local client  *)
(* still leaving when the next one is registered over it; a stream closed  *)
(* while the croupier is calling it; a second escape, left in the memory   *)
(* for the next client's listener to read; and a bankruptcy, after which   *)
(* a client closes with its listener still waiting for it, its keyboard    *)
(* perhaps about to write, and itself perhaps not yet enrolled.            *)
(***************************************************************************)
Mishap == overlap \/ torn \/ expelled \/ Impatient

CrashCauses == crashed => Mishap

(***************************************************************************)
(* An answer to a join is read by the client that asked, unless that one   *)
(* was sent away by a bankruptcy before it came, or the door was opened for*)
(* two by a second escape and it left of itself.                           *)
(***************************************************************************)
AnswerIsOwn ==
  \A c \in Client :
    rpc[c] = "enrol" /\ down # Null /\ down.to \notin {0, c} =>
      overlap \/ expelled \/ Impatient

(***************************************************************************)
(* Where a thread may stop: in operator<< while the memory is full, in     *)
(* operator>> while there is nothing to read, in accept, at a door that is *)
(* shut or behind one who came first, and at the keyboard.                 *)
(***************************************************************************)
Written(t) == mail[t] # Null => down # Null

ListenerStops(s) ==
  \/ lpc[s] \in {"none", "ended"}
  \/ lpc[s] \in {"enrolRecv", "serveRecv"} /\ up \notin Up
  \/ lpc[s] \notin {"enrolRecv", "serveRecv"} /\ via[s] # Null /\ mail[s] # Null

MainStops(c) ==
  \/ mpc[c] \in {"wait", "ended"}
  \/ mpc[c] = "look" /\ available = 0
  \/ /\ mpc[c] = "take"
     /\ available = 0 \/ \E d \in 1 .. (c - 1) : mpc[d] \in {"look", "take"}
  \/ mpc[c] \in {"join", "joinOk", "joinNo", "write"} /\ up # Null
  \/ mpc[c] = "key" /\ conn[c]

ReaderStops(c) ==
  \/ rpc[c] \in {"none", "ended"}
  \/ rpc[c] \in {"enrol", "read"} /\ down = Null

\* All that the threads can do by themselves is done.
Settled ==
  /\ ~ crashed
  /\ connected = 0 \/ accepted = NumClients
  /\ \A t \in Thread : Written(t)
  /\ \A s \in Session : ListenerStops(s)
  /\ \A c \in Client : MainStops(c) /\ ReaderStops(c)

(***************************************************************************)
(* A client is answered: none is left waiting for its join, unless one of  *)
(* the above has happened.  (The listener of a client sent away goes on    *)
(* waiting for that one, and reads the join of the next.)  One that found  *)
(* the door free and then lost it to another is not turned away but waits: *)
(* as long as the other one is in, and no longer.                          *)
(***************************************************************************)
JoinAnswered ==
  Settled => \A c \in Client :
    /\ mpc[c] = "wait" => Mishap
    /\ mpc[c] = "take" => \E d \in Client : mapped[d]

(***************************************************************************)
(* The croupier waits for the local client to read, with the whole room.   *)
(* Nothing moves any more exactly when every thread is where it may stop,  *)
(* and then he is held up only if no local client is left.                 *)
(***************************************************************************)
CroupierFreed ==
  /\ Settled <=> ~ crashed /\ ~ ENABLED Onward
  /\ Settled /\ via[Croupier] # Null => \A c \in Client : rpc[c] \in {"none", "ended"}
=============================================================================
