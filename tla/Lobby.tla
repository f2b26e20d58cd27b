------------------------------- MODULE Lobby -------------------------------
(***************************************************************************)
(* How the server registers network connections: the thread that accepts   *)
(* them, the listener threads it starts, and the croupier, who waits for   *)
(* connections and walks their map to broadcast.  connections_mutex guards *)
(* the entry and the erasure, and nothing else: not the structure through  *)
(* which a listener gets its parameters, not the set of addresses, not the *)
(* walks, not the life of a descriptor.                                    *)
(*                                                                         *)
(* The players and the money are in Casino.                                *)
(***************************************************************************)
EXTENDS Naturals, FiniteSetsExt

CONSTANTS
  MaxPlayers,  \* MaxPlayers of server.cfg, 0 for no limit
  MaxCalls,    \* bound: connections made
  MaxWalks,    \* bound: broadcasts
  Null         \* no value

ASSUME LobbyAssumption ==
  /\ MaxPlayers \in Nat
  /\ MaxCalls \in Nat
  /\ MaxWalks \in Nat
  /\ Null \notin Nat

\* Connections in the order they are accepted, and as many descriptors.
Call == 1 .. MaxCalls
Descriptor == 1 .. MaxCalls

\* The machines clients call from, numbered in the order of their first calls.
Host == 1 .. MaxCalls

VARIABLES
  \* the system
  calls,        \* connections accepted so far
  open,         \* descriptor -> the connection it is open for, or Null
  host,         \* connection -> where it comes from
  \* shared by the threads
  connections,  \* descriptor -> the stream registered for it, or Null
  ips,          \* connections_ips
  params,       \* the structure passed to pthread_create
  players,      \* the ids in the player table
  mutex,        \* connections_mutex is held by the accepting thread
  crashed,
  \* acceptNetClients
  apc,
  \* the listeners
  lpc, id, ip,
  allowed,      \* connection_allowed
  \* the croupier
  cpc,
  place,        \* his iterator
  shaken,       \* the map has been changed under it
  walks,
  \* history
  crossed,      \* a listener has read the parameters of another
  twins,        \* two listeners of a host have looked before either inserted
  usurped,      \* a descriptor was registered again before its entry was erased
  early,        \* a client has hung up before its join was read
  barred        \* addresses of clients for whom there was no room

system == <<calls, open, host>>
acceptor == <<apc, params, mutex>>
listeners == <<lpc, id, ip, allowed>>
croupier == <<cpc, place, walks>>
history == <<crossed, twins, usurped, early, barred>>
vars == <<system, connections, ips, players, crashed, acceptor, listeners, croupier,
          shaken, history>>

-----------------------------------------------------------------------------
AcceptorPC == {"accept", "register", "address", "spawn", "announce"}
ListenerPC ==
  {"none", "id", "ip", "find", "insert", "enrol", "serve", "close", "erase",
   "free", "ended"}
CroupierPC == {"wait", "asleep", "walk"}

Registered == {d \in Descriptor : connections[d] # Null}

Init ==
  /\ calls = 0
  /\ open = [d \in Descriptor |-> Null]
  /\ host \in [Call -> Host]
  /\ \A n \in Call : \A h \in 1 .. host[n] - 1 : \E m \in 1 .. n - 1 : host[m] = h
  /\ connections = [d \in Descriptor |-> Null]
  /\ ips = {}
  /\ params = [id |-> Null, ip |-> Null]
  /\ players = {}
  /\ mutex = FALSE
  /\ crashed = FALSE
  /\ apc = "accept"
  /\ lpc = [n \in Call |-> "none"]
  /\ id = [n \in Call |-> Null]
  /\ ip = [n \in Call |-> Null]
  /\ allowed = [n \in Call |-> FALSE]
  /\ cpc = "wait"
  /\ place = Null
  /\ shaken = FALSE
  /\ walks = 0
  /\ crossed = FALSE
  /\ twins = FALSE
  /\ usurped = FALSE
  /\ early = FALSE
  /\ barred = {}

-----------------------------------------------------------------------------
(***************************************************************************)
(* acceptNetClients.  The system gives out the lowest free descriptor.     *)
(***************************************************************************)
AcceptorOnly == UNCHANGED <<ips, players, crashed, listeners, croupier, host, twins, early,
                         barred>>

Newest == CHOOSE d \in Descriptor : open[d] = calls

Accept ==
  /\ apc = "accept"
  /\ calls < MaxCalls
  /\ calls' = calls + 1
  /\ open' = [open EXCEPT ![Min({d \in Descriptor : open[d] = Null})] = calls + 1]
  /\ apc' = "register"
  /\ AcceptorOnly
  /\ UNCHANGED <<connections, params, mutex, shaken, crossed, usurped>>

Register ==
  /\ apc = "register"
  /\ ~ mutex
  /\ mutex' = TRUE
  /\ connections' = [connections EXCEPT ![Newest] = calls]
  /\ usurped' = (usurped \/ connections[Newest] # Null)
  /\ shaken' = (shaken \/ cpc = "walk")
  /\ params' = [params EXCEPT !.id = Newest]
  /\ apc' = "address"
  /\ AcceptorOnly
  /\ UNCHANGED <<calls, open, crossed>>

Address ==
  /\ apc = "address"
  /\ params' = [params EXCEPT !.ip = host[calls]]
  /\ apc' = "spawn"
  /\ AcceptorOnly
  /\ UNCHANGED <<calls, open, connections, mutex, shaken, crossed, usurped>>

\* Mutant: the broadcast on connections_available_cond is forgotten.
SpawnQuiet ==
  /\ apc = "spawn"
  /\ lpc' = [lpc EXCEPT ![calls] = "id"]
  /\ mutex' = FALSE
  /\ apc' = "accept"
  /\ UNCHANGED <<system, connections, ips, params, players, crashed, id, ip, allowed,
                 croupier, shaken, history>>

Spawn ==
  /\ apc = "spawn"
  /\ lpc' = [lpc EXCEPT ![calls] = "id"]
  /\ mutex' = FALSE
  /\ apc' = "announce"
  /\ UNCHANGED <<system, connections, ips, params, players, crashed, id, ip, allowed,
                 croupier, shaken, history>>

\* connections_available_cond
Announce ==
  /\ apc = "announce"
  /\ cpc' = IF cpc = "asleep" THEN "wait" ELSE cpc
  /\ apc' = "accept"
  /\ UNCHANGED <<system, connections, ips, params, players, crashed, mutex, listeners,
                 place, walks, shaken, history>>

Acceptor == Accept \/ Register \/ Address \/ Spawn \/ Announce

-----------------------------------------------------------------------------
(***************************************************************************)
(* listenClient.  The stream is looked up under the listener's id at every *)
(* use; where there is none, that is a null dereference.                   *)
(***************************************************************************)
LGoto(n, label) == lpc' = [lpc EXCEPT ![n] = label]

ListenerOnly == UNCHANGED <<calls, host, acceptor, croupier, usurped>>

LobbyKept == UNCHANGED <<open, connections, ips, shaken, crossed, twins>>

LMoves(n, from, to) ==
  /\ lpc[n] = from
  /\ LGoto(n, to)
  /\ ListenerOnly

Own(n, d) == d \in Descriptor /\ open[d] = n

ReadId(n) ==
  /\ LMoves(n, "id", "ip")
  /\ id' = [id EXCEPT ![n] = params.id]
  /\ crossed' = (crossed \/ ~ Own(n, params.id))
  /\ UNCHANGED <<open, connections, ips, players, crashed, ip, allowed, shaken, twins, early,
                 barred>>

ReadIp(n) ==
  /\ LMoves(n, "ip", "find")
  /\ ip' = [ip EXCEPT ![n] = params.ip]
  /\ crossed' = (crossed \/ params.ip # host[n])
  /\ UNCHANGED <<open, connections, ips, players, crashed, id, allowed, shaken, twins, early,
                 barred>>

\* Mutant: the address is not looked for.
FindNothing(n) ==
  /\ LMoves(n, "find", "insert")
  /\ twins' = (twins \/ \E m \in Call \ {n} : lpc[m] = "insert" /\ ip[m] = ip[n])
  /\ UNCHANGED <<open, connections, ips, players, crashed, id, ip, allowed, shaken,
                 crossed, early, barred>>

Find(n) ==
  /\ \/ ip[n] \in ips /\ LMoves(n, "find", "enrol")
     \/ ip[n] \notin ips /\ LMoves(n, "find", "insert")
  /\ twins' = (twins \/ \E m \in Call \ {n} : lpc[m] = "insert" /\ ip[m] = ip[n])
  /\ UNCHANGED <<open, connections, ips, players, crashed, id, ip, allowed, shaken,
                 crossed, early, barred>>

Insert(n) ==
  /\ LMoves(n, "insert", "enrol")
  /\ ips' = ips \cup {ip[n]}
  /\ allowed' = [allowed EXCEPT ![n] = TRUE]
  /\ UNCHANGED <<open, connections, players, crashed, id, ip, shaken, crossed, twins, early,
                 barred>>

HasStream(n) == id[n] \in Registered

Crash(n) ==
  /\ lpc[n] \in {"enrol", "serve", "close"}
  /\ ~ HasStream(n)
  /\ crashed' = TRUE
  /\ ListenerOnly
  /\ LobbyKept
  /\ UNCHANGED <<players, lpc, id, ip, allowed, early, barred>>

\* addPlayer counts before it enters, one player too late.
Room == MaxPlayers = 0 \/ Cardinality(players) <= MaxPlayers

\* The join is answered; a refusal ends the connection.
Enrol(n) ==
  /\ HasStream(n)
  /\ \/ /\ allowed[n] /\ Room
        /\ LMoves(n, "enrol", "serve")
        /\ players' = players \cup {id[n]}
        /\ UNCHANGED <<allowed, barred>>
     \/ /\ allowed[n] /\ ~ Room
        /\ LMoves(n, "enrol", "close")
        /\ allowed' = [allowed EXCEPT ![n] = FALSE]
        /\ barred' = barred \cup {ip[n]}
        /\ UNCHANGED players
     \/ /\ ~ allowed[n]
        /\ LMoves(n, "enrol", "close")
        /\ UNCHANGED <<players, allowed, barred>>
  /\ LobbyKept
  /\ UNCHANGED <<crashed, id, ip, early>>

\* Mutant: the entry is erased first, and the stream it held closed after.
LeaveErased(n) ==
  /\ lpc[n] = "serve"
  /\ HasStream(n)
  /\ LMoves(n, "serve", "close")
  /\ connections' = [connections EXCEPT ![id[n]] = Null]
  /\ players' = players \ {id[n]}
  /\ UNCHANGED <<open, ips, crashed, shaken, crossed, twins, id, ip, allowed, early, barred>>

\* The client quits or its connection ends, after its join or before.  The name
\* of a client that has not joined is a null dereference.
Leave(n) ==
  /\ HasStream(n)
  /\ lpc[n] \in {"enrol", "serve"}
  /\ early' = (early \/ lpc[n] = "enrol")
  /\ IF allowed[n] /\ id[n] \notin players
     THEN crashed' = TRUE /\ UNCHANGED <<lpc, players>>
     ELSE /\ LGoto(n, "close")
          /\ players' = IF allowed[n] THEN players \ {id[n]} ELSE players
          /\ UNCHANGED crashed
  /\ ListenerOnly
  /\ LobbyKept
  /\ UNCHANGED <<id, ip, allowed, barred>>

\* A stream whose is_connected is false keeps its descriptor.
CloseStream(n) ==
  /\ HasStream(n)
  /\ LMoves(n, "close", "erase")
  /\ \/ open' = [d \in Descriptor |-> IF open[d] = connections[id[n]] THEN Null ELSE open[d]]
     \/ UNCHANGED open
  /\ UNCHANGED <<connections, ips, players, crashed, id, ip, allowed, shaken, crossed, twins,
                 early, barred>>

\* Mutant: the entry is left in the map.
EraseLeft(n) ==
  /\ LMoves(n, "erase", IF allowed[n] THEN "free" ELSE "ended")
  /\ UNCHANGED <<open, connections, ips, players, crashed, id, ip, allowed, shaken, crossed,
                 twins, early, barred>>

\* Mutant: the address is not erased.
EraseForgets(n) ==
  /\ ~ mutex
  /\ LMoves(n, "erase", "ended")
  /\ connections' = [connections EXCEPT ![id[n]] = Null]
  /\ shaken' = (shaken \/ cpc = "walk")
  /\ UNCHANGED <<open, ips, players, crashed, id, ip, allowed, crossed, twins, early, barred>>

Erase(n) ==
  /\ ~ mutex
  /\ LMoves(n, "erase", IF allowed[n] THEN "free" ELSE "ended")
  /\ connections' = [connections EXCEPT ![id[n]] = Null]
  /\ shaken' = (shaken \/ cpc = "walk")
  /\ UNCHANGED <<open, ips, players, crashed, id, ip, allowed, crossed, twins, early, barred>>

Free(n) ==
  /\ LMoves(n, "free", "ended")
  /\ ips' = ips \ {ip[n]}
  /\ UNCHANGED <<open, connections, players, crashed, id, ip, allowed, shaken, crossed, twins,
                 early, barred>>

Listener(n) ==
  \/ ReadId(n) \/ ReadIp(n) \/ Find(n) \/ Insert(n) \/ Enrol(n) \/ Leave(n)
  \/ CloseStream(n) \/ Erase(n) \/ Free(n) \/ Crash(n)

-----------------------------------------------------------------------------
(***************************************************************************)
(* The croupier: waitUntilConnectionsAvailable, then a broadcast, one      *)
(* entry of the map at a time and without the mutex.                       *)
(***************************************************************************)
CroupierOnly == UNCHANGED <<system, connections, ips, players, acceptor, listeners, history>>

Wait ==
  /\ cpc = "wait"
  /\ ~ mutex
  /\ walks < MaxWalks
  /\ \/ Registered = {} /\ cpc' = "asleep" /\ UNCHANGED <<place, walks>>
     \/ /\ Registered # {}
        /\ cpc' = "walk"
        /\ place' = Min(Registered)
        /\ walks' = walks + 1
  /\ shaken' = FALSE
  /\ CroupierOnly
  /\ UNCHANGED crashed

\* In a map changed since the walk began the next node may be any, or none.
Walk ==
  /\ cpc = "walk"
  /\ LET rest == {d \in Registered : d > place} IN
       \/ rest # {} /\ place' = Min(rest) /\ UNCHANGED <<cpc, crashed>>
       \/ rest = {} /\ place' = Null /\ cpc' = "wait" /\ UNCHANGED crashed
       \/ shaken /\ crashed' = TRUE /\ UNCHANGED <<place, cpc>>
  /\ CroupierOnly
  /\ UNCHANGED <<shaken, walks>>

-----------------------------------------------------------------------------
Next ==
  /\ ~ crashed
  /\ Acceptor \/ Wait \/ Walk \/ \E n \in Call : Listener(n)

Spec == Init /\ [][Next]_vars

\* Bound: nothing is followed further once two listeners have read each other's
\* parameters.
Straight == ~ crossed

-----------------------------------------------------------------------------
TypeOK ==
  /\ calls \in 0 .. MaxCalls
  /\ open \in [Descriptor -> Call \cup {Null}]
  /\ host \in [Call -> Host]
  /\ connections \in [Descriptor -> Call \cup {Null}]
  /\ ips \subseteq Host
  /\ params \in [id : Descriptor \cup {Null}, ip : Host \cup {Null}]
  /\ players \subseteq Descriptor
  /\ mutex \in BOOLEAN /\ crashed \in BOOLEAN /\ shaken \in BOOLEAN
  /\ apc \in AcceptorPC
  /\ lpc \in [Call -> ListenerPC]
  /\ id \in [Call -> Descriptor \cup {Null}]
  /\ ip \in [Call -> Host \cup {Null}]
  /\ allowed \in [Call -> BOOLEAN]
  /\ cpc \in CroupierPC
  /\ place \in Descriptor \cup {Null}
  /\ walks \in Nat
  /\ crossed \in BOOLEAN /\ twins \in BOOLEAN /\ usurped \in BOOLEAN /\ early \in BOOLEAN
  /\ barred \subseteq Host

(***************************************************************************)
(* The croupier does not sleep while a connection is registered, unless    *)
(* the thread that registered it is about to wake him: the broadcast comes *)
(* after the mutex is released, and the wait looks again under it.         *)
(***************************************************************************)
NoLostWakeup ==
  cpc = "asleep" /\ Registered # {} => apc \in {"address", "spawn", "announce"}

(***************************************************************************)
(* The server comes down here only by a client that hangs up before it has *)
(* joined or by one of three races: a listener that has read the           *)
(* parameters of the next connection, a connection registered under a      *)
(* descriptor whose old entry its listener has still to erase, and a       *)
(* broadcast that walks the map while it changes.                          *)
(***************************************************************************)
CrashCauses == crashed => early \/ crossed \/ usurped \/ shaken

Playing(n) == lpc[n] \in {"enrol", "serve", "close", "erase", "free"} /\ allowed[n]

(***************************************************************************)
(* One player per host: two of one host are let in only if both looked     *)
(* before either entered the address, or one read the other's parameters.  *)
(***************************************************************************)
OnePerHost ==
  \A m, n \in Call :
    m # n /\ Playing(m) /\ Playing(n) => host[m] # host[n] \/ crossed \/ twins

(***************************************************************************)
(* The addresses kept are those of the players, but for the hosts that     *)
(* came when there was no room: these stay, and are never let in again.    *)
(***************************************************************************)
AddressesMatch ==
  crossed \/ twins \/ ips = {host[n] : n \in {m \in Call : Playing(m)}} \cup barred

(***************************************************************************)
(* Everyone registered is listened to: an entry of the map belongs to a    *)
(* connection whose own thread works under that id or will.                *)
(***************************************************************************)
Heard ==
  \A d \in Registered :
    \/ crossed \/ usurped
    \/ connections[d] = calls /\ apc \in {"address", "spawn"}
    \/ LET n == connections[d] IN lpc[n] = "id" \/ (lpc[n] # "ended" /\ id[n] = d)
=============================================================================
