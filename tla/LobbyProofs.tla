---------------------------- MODULE LobbyProofs ----------------------------
(***************************************************************************)
(* For any number of connections, hosts and broadcasts, and any MaxPlayers:*)
(* the croupier loses no wakeup; but for the races named, a host has one   *)
(* player, its address is kept as long as the player, whoever plays is     *)
(* heard of, and the server stays up.                                      *)
(*                                                                         *)
(* The wakeup rests on the mutex alone.  One player per host is that the   *)
(* threads past the look into connections_ips and not yet past the erasure *)
(* hold their address, one thread each (Claims), as long as no two of them *)
(* have looked before either inserted.  Type correctness needs that there  *)
(* is always a free descriptor.  What brings the server down, and who is   *)
(* heard of, rests on OrderInv: while no thread takes itself for another   *)
(* and no descriptor is reused too early, each listener has the one entry  *)
(* under its id, from its registration until it erases it.  The addresses  *)
(* rest on PlaceInv: a host turned away for want of room has no player.    *)
(***************************************************************************)
EXTENDS Lobby, FiniteSetTheorems, TLAPS

-----------------------------------------------------------------------------
WakeInv == NoLostWakeup /\ (mutex <=> apc \in {"address", "spawn"})

LEMMA WakeInit == Init => WakeInv
BY DEF Init, WakeInv, NoLostWakeup, Registered

LEMMA WakeStep == WakeInv /\ [Next]_vars => WakeInv'
<1> SUFFICES ASSUME WakeInv, [Next]_vars PROVE WakeInv'
  OBVIOUS
<1> USE DEF WakeInv, NoLostWakeup
<1>1. CASE UNCHANGED vars
  BY <1>1 DEF vars, acceptor, croupier, Registered
<1>2. CASE Accept
  BY <1>2 DEF Accept, AcceptorOnly, croupier, Registered
<1>3. CASE Register
  BY <1>3 DEF Register, AcceptorOnly
<1>4. CASE Address
  BY <1>4 DEF Address, AcceptorOnly
<1>5. CASE Spawn
  BY <1>5 DEF Spawn, croupier
<1>6. CASE Announce
  BY <1>6 DEF Announce
<1>7. CASE Wait
  BY <1>7 DEF Wait, CroupierOnly, acceptor, Registered
<1>8. CASE Walk
  BY <1>8 DEF Walk, CroupierOnly, acceptor, Registered
<1>9. ASSUME NEW n \in Call, Listener(n) PROVE WakeInv'
  <2>1. apc' = apc /\ mutex' = mutex /\ cpc' = cpc
    BY <1>9 DEF Listener, ReadId, ReadIp, Find, Insert, Enrol, Leave, CloseStream, Erase,
      Free, Crash, LMoves, ListenerOnly, acceptor, croupier
  <2>2. CASE Erase(n)
    <3>1. connections' = [connections EXCEPT ![id[n]] = Null]
      BY <2>2 DEF Erase
    <3>2. Registered' \subseteq Registered
      BY <3>1 DEF Registered
    <3> QED
      BY <2>1, <3>2
  <2>3. CASE connections' = connections
    BY <2>1, <2>3 DEF Registered
  <2>4. Erase(n) \/ connections' = connections
    BY <1>9 DEF Listener, ReadId, ReadIp, Find, Insert, Enrol, Leave, CloseStream,
      Free, Crash, LobbyKept
  <2> QED
    BY <2>2, <2>3, <2>4
<1> QED
  BY <1>1, <1>2, <1>3, <1>4, <1>5, <1>6, <1>7, <1>8, <1>9 DEF Next, Acceptor

(***************************************************************************)
(* However connections come and go, the croupier does not sleep while one  *)
(* is registered and nobody is about to wake him.                          *)
(***************************************************************************)
THEOREM WakeupSafe == Spec => []NoLostWakeup
<1>1. WakeInv => NoLostWakeup
  BY DEF WakeInv
<1> QED
  BY WakeInit, WakeStep, <1>1, PTL DEF Spec

-----------------------------------------------------------------------------
Straightforward == ~ crossed /\ ~ twins

\* A listener that has looked and will insert, or whose address is inserted.
Claims(n) == lpc[n] = "insert" \/ Playing(n)

Shapes ==
  /\ lpc \in [Call -> ListenerPC]
  /\ ip = [n \in Call |-> ip[n]]
  /\ allowed \in [Call -> BOOLEAN]
  /\ crossed \in BOOLEAN /\ twins \in BOOLEAN

\* Only a listener past its look may be allowed to play, and only one that is has
\* an address to give back.
Fresh == \A n \in Call :
  /\ lpc[n] \in {"none", "id", "ip", "find", "insert"} => ~ allowed[n]
  /\ lpc[n] = "free" => allowed[n]

OwnAddress == \A n \in Call : lpc[n] \notin {"none", "id", "ip"} => ip[n] = host[n]

OneClaim == \A m, n \in Call : m # n /\ Claims(m) /\ Claims(n) => ip[m] # ip[n]

Entered == \A n \in Call :
  /\ Playing(n) => ip[n] \in ips
  /\ lpc[n] = "insert" => ip[n] \notin ips

HostInv ==
  /\ Shapes
  /\ Fresh
  /\ ~ crossed => OwnAddress
  /\ Straightforward => OneClaim /\ Entered

\* A connection whose thread has not been created has no listener.
Unborn(n) == n > calls \/ (n = calls /\ apc \in {"register", "address", "spawn"})

BirthInv ==
  /\ calls \in Nat
  /\ lpc \in [Call -> ListenerPC]
  /\ \A n \in Call : Unborn(n) => lpc[n] = "none"

LEMMA ListenerSteps ==
  ASSUME NEW n \in Call, Listener(n), lpc \in [Call -> ListenerPC]
  PROVE  /\ UNCHANGED <<calls, host, apc>>
         /\ lpc[n] # "none"
         /\ \E pc \in ListenerPC : lpc' = [lpc EXCEPT ![n] = pc]
<1> USE DEF LMoves, LGoto, ListenerOnly, acceptor, ListenerPC
<1>1. CASE Crash(n)
  <2>1. lpc' = [lpc EXCEPT ![n] = lpc[n]]
    BY <1>1 DEF Crash
  <2> QED
    BY <1>1, <2>1 DEF Crash
<1>2. CASE Leave(n)
  <2>1. lpc' = [lpc EXCEPT ![n] = "close"] \/ lpc' = [lpc EXCEPT ![n] = lpc[n]]
    BY <1>2 DEF Leave
  <2> QED
    BY <1>2, <2>1 DEF Leave
<1>3. CASE ReadId(n)
  BY <1>3 DEF ReadId
<1>4. CASE ReadIp(n)
  BY <1>4 DEF ReadIp
<1>5. CASE Find(n)
  BY <1>5 DEF Find
<1>6. CASE Insert(n)
  BY <1>6 DEF Insert
<1>7. CASE Enrol(n)
  BY <1>7 DEF Enrol
<1>8. CASE CloseStream(n)
  BY <1>8 DEF CloseStream
<1>9. CASE Erase(n)
  BY <1>9 DEF Erase
<1>10. CASE Free(n)
  BY <1>10 DEF Free
<1> QED
  BY <1>1, <1>2, <1>3, <1>4, <1>5, <1>6, <1>7, <1>8, <1>9, <1>10 DEF Listener

LEMMA BirthInit == Init => BirthInv
BY DEF Init, BirthInv, ListenerPC

LEMMA BirthStep == BirthInv /\ [Next]_vars => BirthInv'
<1> SUFFICES ASSUME BirthInv, [Next]_vars PROVE BirthInv'
  OBVIOUS
<1> USE DEF BirthInv, Unborn, Call
<1>1. CASE UNCHANGED vars
  BY <1>1 DEF vars, system, acceptor, listeners
<1>2. CASE Accept
  BY <1>2 DEF Accept, AcceptorOnly, listeners
<1>3. CASE Register
  BY <1>3 DEF Register, AcceptorOnly, listeners
<1>4. CASE Address
  BY <1>4 DEF Address, AcceptorOnly, listeners
<1>5. CASE Spawn
  <2>1. calls' = calls /\ apc' = "announce" /\ lpc' = [lpc EXCEPT ![calls] = "id"]
    BY <1>5 DEF Spawn, system
  <2>2. lpc' \in [Call -> ListenerPC]
    BY <2>1 DEF ListenerPC
  <2>3. \A n \in Call : n > calls => lpc'[n] = lpc[n]
    BY <2>1
  <2> QED
    BY <2>1, <2>2, <2>3
<1>6. CASE Announce
  BY <1>6 DEF Announce, system, listeners
<1>7. CASE Wait \/ Walk
  BY <1>7 DEF Wait, Walk, CroupierOnly, system, listeners, acceptor
<1>8. ASSUME NEW n \in Call, Listener(n) PROVE BirthInv'
  BY <1>8, ListenerSteps
<1> QED
  BY <1>1, <1>2, <1>3, <1>4, <1>5, <1>6, <1>7, <1>8 DEF Next, Acceptor

LEMMA HostInit == Init => HostInv
BY DEF Init, HostInv, Shapes, Fresh, OwnAddress, Straightforward, OneClaim, Entered, Claims,
  Playing, ListenerPC

LEMMA HostKept ==
  ASSUME HostInv, UNCHANGED <<lpc, ip, allowed, ips, host, crossed, twins>>
  PROVE  HostInv'
BY DEF HostInv, Shapes, Fresh, OwnAddress, Straightforward, OneClaim, Entered, Claims, Playing

\* The moves of a listener that look at no address.
LEMMA HostMoved ==
  ASSUME HostInv, NEW n \in Call,
         NEW pc \in ListenerPC, NEW b \in BOOLEAN,
         lpc' = [lpc EXCEPT ![n] = pc],
         allowed' = [allowed EXCEPT ![n] = b],
         UNCHANGED <<ip, ips, host, twins>>,
         crossed' \in BOOLEAN, crossed => crossed',
         b => allowed[n],
         b /\ pc \in {"enrol", "serve", "close", "erase", "free"} => Playing(n),
         pc \in {"none", "id", "ip", "find", "insert"} => ~ b,
         pc = "free" => b,
         pc # "insert",
         pc \notin {"none", "id", "ip"} => lpc[n] \notin {"none", "id", "ip"}
  PROVE  HostInv'
<1> USE DEF HostInv, Shapes
<1>1. Shapes'
  OBVIOUS
<1>2. Fresh'
  BY DEF Fresh
<1>3. ~ crossed' => OwnAddress'
  BY DEF OwnAddress
<1>4. \A m \in Call : Claims(m)' => Claims(m)
  BY DEF Claims, Playing
<1>5. \A m \in Call : Playing(m)' => Playing(m)
  BY DEF Playing
<1>6. \A m \in Call : lpc'[m] = "insert" => lpc[m] = "insert"
  OBVIOUS
<1>7. Straightforward' => OneClaim' /\ Entered'
  BY <1>4, <1>5, <1>6 DEF Straightforward, OneClaim, Entered
<1> QED
  BY <1>1, <1>2, <1>3, <1>7

LEMMA HostSpawn ==
  ASSUME HostInv, BirthInv, Spawn
  PROVE  HostInv'
<1>1. CASE calls \in Call
  <2>1. lpc[calls] = "none" /\ ~ allowed[calls]
    BY <1>1 DEF Spawn, BirthInv, Unborn, HostInv, Fresh
  <2>2. allowed' = [allowed EXCEPT ![calls] = FALSE]
    BY <1>1, <2>1 DEF Spawn, HostInv, Shapes
  <2>3. /\ lpc' = [lpc EXCEPT ![calls] = "id"]
        /\ UNCHANGED <<ip, ips, host, crossed, twins>>
        /\ crossed \in BOOLEAN
    BY DEF Spawn, system, history, HostInv, Shapes
  <2>4. "id" \in ListenerPC
    BY DEF ListenerPC
  <2> QED
    BY <1>1, <2>1, <2>2, <2>3, <2>4, HostMoved
<1>2. CASE calls \notin Call
  <2>1. lpc' = lpc
    BY <1>2 DEF Spawn, HostInv, Shapes
  <2> QED
    BY <2>1, HostKept DEF Spawn, system, history
<1> QED
  BY <1>1, <1>2

LEMMA HostReadIp ==
  ASSUME HostInv, NEW n \in Call, ReadIp(n)
  PROVE  HostInv'
<1> USE DEF HostInv, Shapes, ReadIp, LMoves, LGoto, ListenerOnly
<1>1. Shapes'
  BY DEF ListenerPC
<1>2. Fresh'
  BY DEF Fresh
<1>3. ~ crossed' => OwnAddress'
  BY DEF OwnAddress
<1>4. Straightforward' => OneClaim' /\ Entered'
  BY DEF Straightforward, OneClaim, Entered, Claims, Playing
<1> QED
  BY <1>1, <1>2, <1>3, <1>4

LEMMA HostFind ==
  ASSUME HostInv, NEW n \in Call, Find(n)
  PROVE  HostInv'
<1> USE DEF HostInv, Shapes, Find, LMoves, LGoto, ListenerOnly
<1>1. Shapes'
  BY DEF ListenerPC
<1>2. Fresh' /\ ~ allowed[n]
  BY DEF Fresh
<1>3. ~ crossed' => OwnAddress'
  BY DEF OwnAddress
<1>4. ASSUME Straightforward' PROVE OneClaim' /\ Entered'
  <2>1. OneClaim /\ Entered
    BY <1>4 DEF Straightforward
  <2>2. \A m \in Call \ {n} : lpc[m] = "insert" => ip[m] # ip[n]
    BY <1>4 DEF Straightforward
  <2>3. CASE ip[n] \in ips
    BY <1>2, <2>1, <2>3 DEF OneClaim, Entered, Claims, Playing
  <2>4. CASE ip[n] \notin ips
    BY <1>2, <2>1, <2>2, <2>4 DEF OneClaim, Entered, Claims, Playing
  <2> QED
    BY <2>3, <2>4
<1> QED
  BY <1>1, <1>2, <1>3, <1>4

LEMMA HostInsert ==
  ASSUME HostInv, NEW n \in Call, Insert(n)
  PROVE  HostInv'
<1> USE DEF HostInv, Shapes, Insert, LMoves, LGoto, ListenerOnly
<1>1. Shapes'
  BY DEF ListenerPC
<1>2. Fresh'
  BY DEF Fresh
<1>3. ~ crossed' => OwnAddress'
  BY DEF OwnAddress
<1>4. Straightforward' => OneClaim' /\ Entered'
  BY DEF Straightforward, OneClaim, Entered, Claims, Playing
<1> QED
  BY <1>1, <1>2, <1>3, <1>4

LEMMA HostFree ==
  ASSUME HostInv, NEW n \in Call, Free(n)
  PROVE  HostInv'
<1> USE DEF HostInv, Shapes, Free, LMoves, LGoto, ListenerOnly
<1>1. Shapes'
  BY DEF ListenerPC
<1>2. Fresh'
  BY DEF Fresh
<1>3. ~ crossed' => OwnAddress'
  BY DEF OwnAddress
<1>4. Straightforward' => OneClaim' /\ Entered'
  BY DEF Straightforward, OneClaim, Entered, Claims, Playing, Fresh
<1> QED
  BY <1>1, <1>2, <1>3, <1>4

LEMMA HostListener ==
  ASSUME HostInv, NEW n \in Call, Listener(n)
  PROVE  HostInv'
<1> USE DEF LMoves, LGoto, ListenerOnly, LobbyKept, ListenerPC
<1>0. allowed = [allowed EXCEPT ![n] = allowed[n]] /\ allowed[n] \in BOOLEAN
      /\ crossed \in BOOLEAN
  BY DEF HostInv, Shapes
<1>1. CASE ReadId(n)
  <2>1. ~ allowed[n] /\ crossed' \in BOOLEAN
    BY <1>1 DEF ReadId, HostInv, Fresh
  <2> QED
    BY <1>0, <1>1, <2>1, HostMoved DEF ReadId
<1>2. CASE Enrol(n)
  <2>1. CASE UNCHANGED allowed
    <3>1. PICK pc \in {"serve", "close"} : lpc' = [lpc EXCEPT ![n] = pc]
      BY <1>2 DEF Enrol
    <3> QED
      BY <1>0, <1>2, <2>1, <3>1, HostMoved DEF Enrol, Playing
  <2>2. CASE allowed' = [allowed EXCEPT ![n] = FALSE] /\ lpc' = [lpc EXCEPT ![n] = "close"]
    BY <1>0, <1>2, <2>2, HostMoved DEF Enrol
  <2> QED
    BY <1>2, <2>1, <2>2 DEF Enrol
<1>3. CASE Leave(n)
  <2>1. CASE lpc' = lpc
    BY <1>3, <2>1, HostKept DEF Leave
  <2>2. CASE lpc' = [lpc EXCEPT ![n] = "close"]
    BY <1>0, <1>3, <2>2, HostMoved DEF Leave, Playing
  <2> QED
    BY <1>3, <2>1, <2>2 DEF Leave
<1>4. CASE CloseStream(n)
  BY <1>0, <1>4, HostMoved DEF CloseStream, Playing
<1>5. CASE Erase(n)
  <2>1. PICK pc \in {"free", "ended"} :
          lpc' = [lpc EXCEPT ![n] = pc] /\ (pc = "free" => allowed[n])
    BY <1>5 DEF Erase
  <2> QED
    BY <1>0, <1>5, <2>1, HostMoved DEF Erase, Playing
<1>6. CASE Crash(n)
  BY <1>6, HostKept DEF Crash
<1> QED
  BY <1>1, <1>2, <1>3, <1>4, <1>5, <1>6, HostReadIp, HostFind, HostInsert, HostFree
  DEF Listener

LEMMA HostStep == HostInv /\ BirthInv /\ [Next]_vars => HostInv'
<1> SUFFICES ASSUME HostInv, BirthInv, [Next]_vars PROVE HostInv'
  OBVIOUS
<1>1. CASE UNCHANGED vars
  BY <1>1, HostKept DEF vars, system, listeners, history
<1>2. CASE Accept \/ Register \/ Address
  BY <1>2, HostKept DEF Accept, Register, Address, AcceptorOnly, listeners
<1>3. CASE Spawn
  BY <1>3, HostSpawn
<1>4. CASE Announce
  BY <1>4, HostKept DEF Announce, system, listeners, history
<1>5. CASE Wait \/ Walk
  BY <1>5, HostKept DEF Wait, Walk, CroupierOnly, system, listeners, history
<1> QED
  BY <1>1, <1>2, <1>3, <1>4, <1>5, HostListener DEF Next, Acceptor

(***************************************************************************)
(* A host never has two players, whatever connects, quits, is refused or   *)
(* breaks off, unless two of its listeners looked before either entered the*)
(* address or one read the parameters of another.                          *)
(***************************************************************************)
THEOREM OnePerHostSafe == Spec => []OnePerHost
<1>1. HostInv => OnePerHost
  BY DEF HostInv, OnePerHost, Straightforward, OneClaim, OwnAddress, Claims, Playing
<1> QED
  BY BirthInit, BirthStep, HostInit, HostStep, <1>1, PTL DEF Spec
-----------------------------------------------------------------------------
(***************************************************************************)
(* Type correctness.  The descriptor of a new connection is one that is    *)
(* free, and stays that of the newest until it is registered: connections  *)
(* have different descriptors, and what is closed is registered.           *)
(***************************************************************************)
OpenInv ==
  /\ \A d \in Descriptor : open[d] # Null => open[d] <= calls
  /\ \A d, e \in Descriptor : open[d] # Null /\ open[d] = open[e] => d = e
  /\ \A d \in Descriptor : connections[d] # Null =>
       connections[d] <= calls /\ (apc = "register" => connections[d] # calls)
  /\ apc # "accept" => calls > 0
  /\ apc = "register" => \E d \in Descriptor : open[d] = calls

\* No thread is there to read an address before one is written.
AddressInv ==
  /\ apc = "spawn" => params.ip # Null
  /\ (\E n \in Call : lpc[n] # "none") => params.ip # Null
  /\ \A n \in Call : lpc[n] \notin {"none", "id", "ip"} => ip[n] # Null

TypeInv == TypeOK /\ OpenInv /\ AddressInv

\* Of the sets of members up to a member, the least belongs to the least member.
LEMMA MinIsMember ==
  ASSUME NEW S \in SUBSET Descriptor, S # {}
  PROVE  Min(S) \in S
<1> DEFINE UpTo(n) == {m \in S : m <= n}
           T == {UpTo(n) : n \in S}
           R == StrictSubsetOrdering(Descriptor)
<1>1. S \subseteq Nat /\ IsFiniteSet(Descriptor)
  BY LobbyAssumption, FS_Interval DEF Descriptor
<1>2. \A n \in S : UpTo(n) \in SUBSET Descriptor /\ IsFiniteSet(UpTo(n))
  <2> SUFFICES ASSUME NEW n \in S PROVE UpTo(n) \in SUBSET Descriptor /\ IsFiniteSet(UpTo(n))
    OBVIOUS
  <2>1. UpTo(n) \in SUBSET Descriptor
    OBVIOUS
  <2> HIDE DEF UpTo
  <2> QED
    BY <1>1, <2>1, FS_Subset
<1>3. T \subseteq FiniteSubsetsOf(Descriptor) /\ T # {}
  BY <1>2 DEF FiniteSubsetsOf
<1>4. PICK U \in T : \A V \in T : <<V, U>> \notin R
  <2> HIDE DEF T, R
  <2> QED
    BY <1>3, FS_StrictSubsetOrderingWellFounded, WFMin DEF R
<1>5. PICK n \in S : U = UpTo(n)
  OBVIOUS
<1>6. \A m \in S : n <= m
  <2> SUFFICES ASSUME NEW m \in S, m < n PROVE FALSE
    BY <1>1
  <2>1. UpTo(m) \subseteq UpTo(n) /\ n \in UpTo(n) /\ n \notin UpTo(m)
    <3>1. (\A k \in S : k <= m => k <= n) /\ n <= n /\ ~ n <= m
      BY <1>1
    <3> QED
      BY <3>1, Zenon
  <2>2. /\ UpTo(m) \in SUBSET Descriptor /\ U \in SUBSET Descriptor
        /\ UpTo(m) \subseteq U /\ UpTo(m) # U
    BY <1>2, <1>5, <2>1
  <2>3. <<UpTo(m), U>> \in R
    <3> HIDE DEF UpTo, T
    <3> QED
      BY <2>2 DEF StrictSubsetOrdering
  <2> QED
    BY <1>4, <2>3
<1> QED
  BY <1>6 DEF Min

LEMMA FreeDescriptor ==
  ASSUME TypeOK, OpenInv, calls < MaxCalls
  PROVE  \E d \in Descriptor : open[d] = Null
<1> SUFFICES ASSUME \A d \in Descriptor : open[d] # Null PROVE FALSE
  OBVIOUS
<1>1. calls \in Nat /\ MaxCalls \in Nat
  BY LobbyAssumption DEF TypeOK
<1>2. IsFiniteSet(Descriptor) /\ Cardinality(Descriptor) = MaxCalls
  BY <1>1, FS_Interval DEF Descriptor
<1>3. IsFiniteSet(1 .. calls) /\ Cardinality(1 .. calls) = calls
  BY <1>1, FS_Interval
<1>4. open \in [Descriptor -> 1 .. calls]
  BY <1>1 DEF TypeOK, OpenInv, Call
<1>5. PICK d, e \in Descriptor : d # e /\ open[d] = open[e]
  BY <1>1, <1>2, <1>3, <1>4, FS_PigeonHole
<1> QED
  BY <1>5 DEF OpenInv

LEMMA TypeInit == Init => TypeInv
<1> SUFFICES ASSUME Init PROVE TypeInv
  OBVIOUS
<1>1. calls \in 0 .. MaxCalls /\ walks \in Nat
  BY LobbyAssumption DEF Init
<1> QED
  BY <1>1
  DEF Init, TypeInv, TypeOK, OpenInv, AddressInv, AcceptorPC, ListenerPC, CroupierPC

-----------------------------------------------------------------------------
\* What a step of the accepting thread keeps.
LEMMA AcceptorKeeps ==
  ASSUME TypeInv, AcceptorOnly, AddressInv'
  PROVE  /\ ips' \subseteq Host /\ players' \subseteq Descriptor
         /\ host' \in [Call -> Host] /\ lpc' \in [Call -> ListenerPC]
         /\ id' \in [Call -> Descriptor \cup {Null}] /\ ip' \in [Call -> Host \cup {Null}]
         /\ allowed' \in [Call -> BOOLEAN] /\ cpc' \in CroupierPC
         /\ place' \in Descriptor \cup {Null} /\ walks' \in Nat
         /\ crashed' \in BOOLEAN /\ twins' \in BOOLEAN /\ early' \in BOOLEAN
         /\ barred' \subseteq Host
BY DEF TypeInv, TypeOK, AcceptorOnly, listeners, croupier

LEMMA AcceptType ==
  ASSUME TypeInv, Accept
  PROVE  TypeInv'
<1> DEFINE Unused == {d \in Descriptor : open[d] = Null}
<1>1. calls \in Nat /\ MaxCalls \in Nat /\ calls < MaxCalls
  BY LobbyAssumption DEF TypeInv, TypeOK, Accept
<1>2. Min(Unused) \in Unused
  BY <1>1, FreeDescriptor, MinIsMember DEF TypeInv
<1>3. PICK d \in Descriptor : open[d] = Null /\ open' = [open EXCEPT ![d] = calls + 1]
  BY <1>2 DEF Accept
<1>4. calls' = calls + 1 /\ calls + 1 \in Call /\ calls + 1 \in 0 .. MaxCalls
  BY <1>1 DEF Accept, Call
<1>5. AddressInv'
  BY DEF TypeInv, AddressInv, Accept, AcceptorOnly, listeners
<1>6. open' \in [Descriptor -> Call \cup {Null}]
  BY <1>3, <1>4 DEF TypeInv, TypeOK
<1>7. \A e \in Descriptor : open[e] # Null => open[e] \in Nat /\ open[e] <= calls
  BY <1>1 DEF TypeInv, TypeOK, OpenInv, Call
<1>8. \A e \in Descriptor :
        connections[e] # Null => connections[e] \in Nat /\ connections[e] <= calls
  BY <1>1 DEF TypeInv, TypeOK, OpenInv, Call
<1>9. OpenInv'
  BY <1>1, <1>3, <1>4, <1>6, <1>7, <1>8 DEF TypeInv, TypeOK, OpenInv, Accept
<1>10. TypeOK'
  BY <1>4, <1>5, <1>6, AcceptorKeeps DEF TypeInv, TypeOK, Accept, AcceptorPC
<1> QED
  BY <1>5, <1>9, <1>10 DEF TypeInv

LEMMA RegisterType ==
  ASSUME TypeInv, Register
  PROVE  TypeInv'
<1>1. Newest \in Descriptor /\ open[Newest] = calls
  BY DEF TypeInv, OpenInv, Register, Newest
<1>2. calls \in Call
  BY <1>1, LobbyAssumption DEF TypeInv, TypeOK, OpenInv, Register, Call
<1>3. connections' = [connections EXCEPT ![Newest] = calls] /\ params'.ip = params.ip
  BY DEF Register, TypeInv, TypeOK
<1>4. AddressInv'
  BY <1>3 DEF TypeInv, AddressInv, Register, AcceptorOnly, listeners
<1>5. OpenInv'
  BY <1>1, <1>2, <1>3 DEF TypeInv, TypeOK, OpenInv, Register, Call
<1>6. TypeOK'
  BY <1>1, <1>2, <1>4, AcceptorKeeps DEF TypeInv, TypeOK, Register, AcceptorPC
<1> QED
  BY <1>4, <1>5, <1>6 DEF TypeInv

LEMMA AddressType ==
  ASSUME TypeInv, Address
  PROVE  TypeInv'
<1>1. calls \in Call
  BY LobbyAssumption DEF TypeInv, TypeOK, OpenInv, Address, Call
<1>2. host[calls] \in Host /\ host[calls] # Null
  BY <1>1, LobbyAssumption DEF TypeInv, TypeOK, Host
<1>3. params' \in [id : Descriptor \cup {Null}, ip : Host \cup {Null}]
      /\ params'.ip = host[calls]
  BY <1>2 DEF Address, TypeInv, TypeOK
<1>4. AddressInv'
  BY <1>2, <1>3 DEF TypeInv, AddressInv, Address, AcceptorOnly, listeners
<1>5. OpenInv'
  BY DEF TypeInv, OpenInv, Address
<1>6. TypeOK'
  BY <1>3, <1>4, AcceptorKeeps DEF TypeInv, TypeOK, Address, AcceptorPC
<1> QED
  BY <1>4, <1>5, <1>6 DEF TypeInv

LEMMA SpawnType ==
  ASSUME TypeInv, Spawn \/ Announce
  PROVE  TypeInv'
<1>1. CASE Spawn
  <2>1. calls \in Call
    BY <1>1, LobbyAssumption DEF TypeInv, TypeOK, OpenInv, Spawn, Call
  <2>2. lpc' \in [Call -> ListenerPC]
    BY <1>1, <2>1 DEF Spawn, TypeInv, TypeOK, ListenerPC
  <2>3. AddressInv'
    BY <1>1, <2>1 DEF TypeInv, TypeOK, AddressInv, Spawn
  <2>4. OpenInv'
    BY <1>1 DEF TypeInv, OpenInv, Spawn, system
  <2> QED
    BY <1>1, <2>2, <2>3, <2>4
    DEF TypeInv, TypeOK, Spawn, system, croupier, history, AcceptorPC
<1>2. CASE Announce
  BY <1>2 DEF TypeInv, TypeOK, OpenInv, AddressInv, Announce, system, listeners, history,
              AcceptorPC, CroupierPC
<1> QED
  BY <1>1, <1>2

LEMMA CroupierKeeps ==
  ASSUME TypeInv, CroupierOnly, cpc' \in CroupierPC, place' \in Descriptor \cup {Null},
         walks' \in Nat, shaken' \in BOOLEAN, crashed' \in BOOLEAN
  PROVE  TypeInv'
<1> USE DEF TypeInv, CroupierOnly, system, acceptor, listeners, history
<1>1. OpenInv'
  BY DEF OpenInv
<1>2. AddressInv'
  BY DEF AddressInv
<1>3. TypeOK'
  BY DEF TypeOK
<1> QED
  BY <1>1, <1>2, <1>3

LEMMA CroupierType ==
  ASSUME TypeInv, Wait \/ Walk
  PROVE  TypeInv'
<1>1. CASE Wait
  <2>1. Registered # {} => Min(Registered) \in Descriptor
    BY MinIsMember DEF Registered
  <2>2. walks + 1 \in Nat
    BY DEF TypeInv, TypeOK
  <2>3. cpc' \in CroupierPC /\ place' \in Descriptor \cup {Null} /\ walks' \in Nat
    BY <1>1, <2>1, <2>2 DEF Wait, TypeInv, TypeOK, CroupierPC
  <2>4. shaken' \in BOOLEAN /\ crashed' \in BOOLEAN /\ CroupierOnly
    BY <1>1 DEF Wait, TypeInv, TypeOK
  <2> QED
    BY <2>3, <2>4, CroupierKeeps
<1>2. CASE Walk
  <2> DEFINE rest == {d \in Registered : d > place}
  <2>1. rest # {} => Min(rest) \in Descriptor
    BY MinIsMember DEF Registered
  <2>2. place' \in Descriptor \cup {Null} /\ cpc' \in CroupierPC /\ crashed' \in BOOLEAN
    BY <1>2, <2>1 DEF Walk, TypeInv, TypeOK, CroupierPC
  <2>3. shaken' \in BOOLEAN /\ walks' \in Nat /\ CroupierOnly
    BY <1>2 DEF Walk, TypeInv, TypeOK
  <2> QED
    BY <2>2, <2>3, CroupierKeeps
<1> QED
  BY <1>1, <1>2

-----------------------------------------------------------------------------
(***************************************************************************)
(* The listeners.                                                          *)
(***************************************************************************)
LEMMA CloseKeeps ==
  ASSUME TypeInv, NEW n \in Call, CloseStream(n)
  PROVE  OpenInv' /\ open' \in [Descriptor -> Call \cup {Null}]
<1>1. connections' = connections /\ calls' = calls /\ apc' = apc
  BY DEF CloseStream, LMoves, ListenerOnly, acceptor
<1>2. id[n] \in Descriptor /\ connections[id[n]] # Null
  BY DEF CloseStream, HasStream, Registered
<1>3. \A d \in Descriptor :
        open'[d] = open[d] \/ (open'[d] = Null /\ open[d] = connections[id[n]])
  BY DEF CloseStream
<1>4. open' \in [Descriptor -> Call \cup {Null}]
  BY DEF CloseStream, TypeInv, TypeOK
<1> QED
  BY <1>1, <1>2, <1>3, <1>4 DEF OpenInv, TypeInv, TypeOK

LEMMA OpenKept ==
  ASSUME TypeInv, NEW n \in Call, Listener(n)
  PROVE  /\ OpenInv' /\ open' \in [Descriptor -> Call \cup {Null}]
         /\ connections' \in [Descriptor -> Call \cup {Null}]
<1>1. calls' = calls /\ apc' = apc
  BY DEF Listener, ReadId, ReadIp, Find, Insert, Enrol, Leave, CloseStream, Erase, Free, Crash,
         LMoves, ListenerOnly, acceptor
<1>2. CASE CloseStream(n)
  BY <1>2, CloseKeeps DEF CloseStream, TypeInv, TypeOK
<1>3. CASE open' = open /\ connections' = connections
  BY <1>1, <1>3 DEF TypeInv, TypeOK, OpenInv
<1>4. CASE Erase(n)
  <2>1. connections' = [connections EXCEPT ![id[n]] = Null] /\ open' = open
    BY <1>4 DEF Erase
  <2> QED
    BY <1>1, <2>1 DEF TypeInv, TypeOK, OpenInv
<1> QED
  BY <1>2, <1>3, <1>4 DEF Listener, ReadId, ReadIp, Find, Insert, Enrol, Leave, Free, Crash,
     LobbyKept

LEMMA AddressKept ==
  ASSUME TypeInv, NEW n \in Call, Listener(n)
  PROVE  /\ AddressInv' /\ lpc' \in [Call -> ListenerPC]
         /\ ip' \in [Call -> Host \cup {Null}]
<1>1. apc' = apc /\ params' = params
  BY DEF Listener, ReadId, ReadIp, Find, Insert, Enrol, Leave, CloseStream, Erase, Free, Crash,
         LMoves, ListenerOnly, acceptor
<1>2. CASE ReadId(n)
  BY <1>1, <1>2 DEF ReadId, LMoves, LGoto, TypeInv, TypeOK, AddressInv, ListenerPC
<1>3. CASE ReadIp(n)
  <2>1. params.ip # Null /\ params.ip \in Host
    BY <1>3 DEF ReadIp, LMoves, TypeInv, TypeOK, AddressInv
  <2> QED
    BY <1>1, <1>3, <2>1 DEF ReadIp, LMoves, LGoto, TypeInv, TypeOK, AddressInv, ListenerPC
<1>4. CASE Crash(n)
  BY <1>1, <1>4 DEF Crash, TypeInv, TypeOK, AddressInv
<1>5. ASSUME NEW to \in ListenerPC, lpc' = [lpc EXCEPT ![n] = to] \/ lpc' = lpc, ip' = ip,
             lpc[n] \notin {"none", "id", "ip"}
      PROVE  AddressInv' /\ lpc' \in [Call -> ListenerPC]
  BY <1>1, <1>5 DEF TypeInv, TypeOK, AddressInv
<1>6. CASE Find(n) \/ Insert(n) \/ Enrol(n)
  BY <1>5, <1>6 DEF Find, Insert, Enrol, LMoves, LGoto, ListenerPC, TypeInv, TypeOK
<1>7. CASE Leave(n) \/ CloseStream(n) \/ Erase(n) \/ Free(n)
  BY <1>5, <1>7 DEF Leave, CloseStream, Erase, Free, LMoves, LGoto, ListenerPC, TypeInv,
     TypeOK
<1> QED
  BY <1>2, <1>3, <1>4, <1>6, <1>7 DEF Listener

LEMMA ListenerType ==
  ASSUME TypeInv, NEW n \in Call, Listener(n)
  PROVE  TypeInv'
<1> USE DEF TypeInv, TypeOK
<1>1. /\ UNCHANGED <<calls, host, apc, params, mutex, cpc, place, walks, usurped>>
  BY DEF Listener, ReadId, ReadIp, Find, Insert, Enrol, Leave, CloseStream, Erase, Free, Crash,
         LMoves, ListenerOnly, acceptor, croupier
<1>2. id' \in [Call -> Descriptor \cup {Null}]
  BY DEF Listener, ReadId, ReadIp, Find, Insert, Enrol, Leave, CloseStream, Erase, Free, Crash
<1>3. lpc[n] \notin {"none", "id", "ip"} => ip[n] \in Host
  BY DEF AddressInv
<1>4. ips' \subseteq Host
  BY <1>3 DEF Listener, ReadId, ReadIp, Find, Insert, Enrol, Leave, CloseStream, Erase, Free,
     Crash, LMoves, LobbyKept
<1>5. players' \subseteq Descriptor
  BY DEF Listener, ReadId, ReadIp, Find, Insert, Enrol, Leave, CloseStream, Erase, Free,
     Crash, HasStream, Registered
<1>6. barred' \subseteq Host
  BY <1>3 DEF Listener, ReadId, ReadIp, Find, Insert, Enrol, Leave, CloseStream, Erase, Free,
     Crash, LMoves
<1>7. allowed' \in [Call -> BOOLEAN]
  BY DEF Listener, ReadId, ReadIp, Find, Insert, Enrol, Leave, CloseStream, Erase, Free, Crash
<1>8. /\ crashed' \in BOOLEAN /\ shaken' \in BOOLEAN /\ crossed' \in BOOLEAN
      /\ twins' \in BOOLEAN /\ early' \in BOOLEAN
  BY DEF Listener, ReadId, ReadIp, Find, Insert, Enrol, Leave, CloseStream, Erase, Free, Crash,
         LobbyKept
<1> QED
  BY <1>1, <1>2, <1>4, <1>5, <1>6, <1>7, <1>8, OpenKept, AddressKept

LEMMA TypeStep == TypeInv /\ [Next]_vars => TypeInv'
<1>1. ASSUME TypeInv, UNCHANGED vars PROVE TypeInv'
  BY <1>1 DEF TypeInv, TypeOK, OpenInv, AddressInv, vars, system, acceptor, listeners,
     croupier, history
<1> QED
  BY <1>1, AcceptType, RegisterType, AddressType, SpawnType, CroupierType, ListenerType
  DEF Next, Acceptor

(***************************************************************************)
(* Ids, descriptors, addresses and the croupier's place are what they are  *)
(* declared to be: in particular the newest connection always has the      *)
(* descriptor it is registered under.                                      *)
(***************************************************************************)
THEOREM TypeCorrect == Spec => []TypeOK
<1>1. TypeInv => TypeOK
  BY DEF TypeInv
<1> QED
  BY TypeInit, TypeStep, <1>1, PTL DEF Spec
-----------------------------------------------------------------------------
(***************************************************************************)
(* The map of connections.  As long as no listener has read the parameters *)
(* of another and no descriptor was registered before its old entry was    *)
(* erased, the entries and the threads at work belong to each other.       *)
(***************************************************************************)
Working == {"ip", "find", "insert", "enrol", "serve", "close", "erase"}

\* The newest connection is in the map and has no thread yet.
Starting(n) == n = calls /\ apc \in {"address", "spawn"}

Works == \A n \in Call :
  lpc[n] \in Working => id[n] \in Descriptor /\ connections[id[n]] = n

Begins == \A n \in Call : lpc[n] = "id" \/ Starting(n) =>
  \E d \in Descriptor : connections[d] = n /\ open[d] = n

OneEntry == \A d, e \in Registered : connections[d] = connections[e] => d = e

Tended == \A d \in Registered : LET n == connections[d] IN
  Starting(n) \/ lpc[n] = "id" \/ (lpc[n] \in Working /\ id[n] = d)

Seated == \A n \in Call : lpc[n] = "serve" => allowed[n] /\ id[n] \in players

Orderly == Works /\ Begins /\ OneEntry /\ Tended /\ Seated

\* No thread is confused about whose it is, and no entry outlives its descriptor.
Undisturbed == ~ crossed /\ ~ usurped

OrderInv == CrashCauses /\ (Undisturbed => Orderly)

LEMMA OrderInit == Init => OrderInv
BY DEF Init, OrderInv, CrashCauses, Undisturbed, Orderly, Works, Begins, OneEntry, Tended, Seated,
  Starting, Working, Registered

LEMMA OrderKept ==
  ASSUME OrderInv, UNCHANGED <<lpc, id, allowed, players, connections, open, calls, crossed,
                               usurped>>,
         apc' \in {"address", "spawn"} <=> apc \in {"address", "spawn"},
         CrashCauses'
  PROVE  OrderInv'
BY DEF OrderInv, Undisturbed, Orderly, Works, Begins, OneEntry, Tended, Seated, Starting, Registered

\* A listener that stays with its entry.
LEMMA OrderMoved ==
  ASSUME Shapes, Orderly, NEW n \in Call, NEW pc \in Working,
         lpc[n] \in Working,
         lpc' = [lpc EXCEPT ![n] = pc],
         UNCHANGED <<id, connections, open, calls, apc>>,
         \A m \in Call \ {n} : allowed[m] => allowed'[m],
         \A m \in Call \ {n} : id[m] # id[n] /\ id[m] \in players => id[m] \in players',
         pc = "serve" => allowed'[n] /\ id[n] \in players'
  PROVE  Orderly'
<1> USE DEF Orderly, Shapes
<1>1. Works' /\ OneEntry'
  BY DEF Works, OneEntry, Registered
<1>2. Begins'
  BY DEF Begins, Starting, Working
<1>3. Tended'
  BY DEF Tended, Starting, Registered, Working
<1>4. Seated'
  BY DEF Seated, Works, Working
<1> QED
  BY <1>1, <1>2, <1>3, <1>4

LEMMA OrderAccept ==
  ASSUME TypeInv, Orderly, Accept
  PROVE  Orderly'
<1> DEFINE Unused == {d \in Descriptor : open[d] = Null}
<1>1. calls \in Nat /\ MaxCalls \in Nat /\ calls < MaxCalls
  BY LobbyAssumption DEF TypeInv, TypeOK, Accept
<1>2. Min(Unused) \in Unused
  BY <1>1, FreeDescriptor, MinIsMember DEF TypeInv
<1>3. PICK d \in Descriptor : open[d] = Null /\ open' = [open EXCEPT ![d] = calls + 1]
  BY <1>2 DEF Accept
<1>4. /\ apc = "accept" /\ apc' = "register"
      /\ UNCHANGED <<lpc, id, allowed, players, connections>>
  BY DEF Accept, AcceptorOnly, listeners
<1>5. Works' /\ OneEntry' /\ Tended' /\ Seated'
  BY <1>4 DEF Orderly, Works, OneEntry, Tended, Seated, Starting, Registered
<1>6. Begins'
  <2> SUFFICES ASSUME NEW n \in Call, lpc[n] = "id"
               PROVE  \E e \in Descriptor : connections[e] = n /\ open'[e] = n
    BY <1>4 DEF Begins, Starting
  <2>1. PICK e \in Descriptor : connections[e] = n /\ open[e] = n
    BY DEF Orderly, Begins
  <2>2. n # Null
    BY LobbyAssumption DEF Call
  <2>3. open'[e] = n
    BY <1>3, <2>1, <2>2 DEF TypeInv, TypeOK
  <2> QED
    BY <2>1, <2>3
<1> QED
  BY <1>5, <1>6 DEF Orderly

\* The entry taken is an empty one, or the registration is seen to usurp it.
LEMMA OrderRegister ==
  ASSUME TypeInv, Orderly, Register, ~ usurped'
  PROVE  Orderly'
<1>1. Newest \in Descriptor /\ open[Newest] = calls
  BY DEF TypeInv, OpenInv, Register, Newest
<1>2. connections[Newest] = Null /\ connections' = [connections EXCEPT ![Newest] = calls]
  BY DEF Register
<1>3. /\ apc = "register" /\ apc' = "address"
      /\ UNCHANGED <<lpc, id, allowed, players, open, calls>>
  BY DEF Register, AcceptorOnly, listeners
<1>4. \A d \in Descriptor : d # Newest => connections'[d] = connections[d]
  BY <1>2 DEF TypeInv, TypeOK
<1>5. connections'[Newest] = calls /\ calls \in Nat /\ calls # Null
  BY <1>1, <1>2, LobbyAssumption DEF TypeInv, TypeOK
<1>6. \A d \in Descriptor : connections[d] # calls
  BY <1>3, <1>5 DEF TypeInv, OpenInv
<1>7. Works'
  <2> SUFFICES ASSUME NEW n \in Call, lpc[n] \in Working
               PROVE  id[n] \in Descriptor /\ connections'[id[n]] = n
    BY <1>3 DEF Works
  <2>1. id[n] \in Descriptor /\ connections[id[n]] = n /\ n # Null
    BY LobbyAssumption DEF Orderly, Works, Call
  <2> QED
    BY <1>2, <1>4, <2>1
<1>8. Begins'
  <2> SUFFICES ASSUME NEW n \in Call, lpc[n] = "id" \/ n = calls
               PROVE  \E d \in Descriptor : connections'[d] = n /\ open[d] = n
    BY <1>3 DEF Begins, Starting
  <2>1. CASE n = calls
    BY <1>1, <1>5, <2>1
  <2>2. CASE lpc[n] = "id"
    <3>1. PICK d \in Descriptor : connections[d] = n /\ open[d] = n
      BY <2>2 DEF Orderly, Begins
    <3>2. n # Null
      BY LobbyAssumption DEF Call
    <3> QED
      BY <1>2, <1>4, <3>1, <3>2
  <2> QED
    BY <2>1, <2>2
<1>9. OneEntry'
  BY <1>4, <1>5, <1>6 DEF Orderly, OneEntry, Registered
<1>10. Tended'
  BY <1>3, <1>4, <1>5 DEF Orderly, Tended, Starting, Registered
<1>11. Seated'
  BY <1>3 DEF Orderly, Seated
<1> QED
  BY <1>7, <1>8, <1>9, <1>10, <1>11 DEF Orderly

LEMMA OrderSpawn ==
  ASSUME TypeInv, BirthInv, Orderly, Spawn
  PROVE  Orderly'
<1>1. calls \in Call /\ lpc[calls] = "none"
  BY LobbyAssumption DEF TypeInv, TypeOK, OpenInv, Spawn, Call, BirthInv, Unborn
<1>2. /\ apc = "spawn" /\ apc' = "announce" /\ lpc' = [lpc EXCEPT ![calls] = "id"]
      /\ UNCHANGED <<id, allowed, players, open, calls, connections>>
  BY DEF Spawn, system
<1>3. \A n \in Call : n # calls => lpc'[n] = lpc[n]
  BY <1>2 DEF TypeInv, TypeOK
<1>4. lpc'[calls] = "id"
  BY <1>1, <1>2 DEF TypeInv, TypeOK
<1>5. Works'
  BY <1>2, <1>3, <1>4 DEF Orderly, Works, Working
<1>6. Begins'
  BY <1>1, <1>2, <1>3 DEF Orderly, Begins, Starting
<1>7. Tended'
  <2> SUFFICES ASSUME NEW d \in Registered, NEW n, n = connections[d]
               PROVE  lpc'[n] = "id" \/ (lpc'[n] \in Working /\ id[n] = d)
    BY <1>2 DEF Tended, Registered
  <2>1. n \in Call
    BY DEF TypeInv, TypeOK, Registered
  <2> QED
    BY <1>3, <1>4, <2>1 DEF Orderly, Tended, Starting
<1>8. OneEntry' /\ Seated'
  BY <1>2, <1>3, <1>4 DEF Orderly, OneEntry, Registered, Seated
<1> QED
  BY <1>5, <1>6, <1>7, <1>8 DEF Orderly

\* The id a new thread reads is the descriptor its connection is registered under.
LEMMA OrderReadId ==
  ASSUME TypeInv, Orderly, NEW n \in Call, ReadId(n), ~ crossed'
  PROVE  Orderly'
<1>1. params.id \in Descriptor /\ open[params.id] = n
  BY DEF ReadId, Own
<1>2. /\ lpc[n] = "id" /\ lpc' = [lpc EXCEPT ![n] = "ip"] /\ id' = [id EXCEPT ![n] = params.id]
      /\ UNCHANGED <<allowed, players, open, calls, connections, apc>>
  BY DEF ReadId, LMoves, LGoto, ListenerOnly, acceptor
<1>3. lpc'[n] = "ip" /\ id'[n] = params.id
  BY <1>2 DEF TypeInv, TypeOK
<1>4. \A m \in Call : m # n => lpc'[m] = lpc[m] /\ id'[m] = id[m]
  BY <1>2 DEF TypeInv, TypeOK
<1>5. n # Null
  BY LobbyAssumption DEF Call
<1>6. connections[params.id] = n
  <2>1. PICK d \in Descriptor : connections[d] = n /\ open[d] = n
    BY <1>2 DEF Orderly, Begins
  <2>2. d = params.id
    BY <1>1, <1>5, <2>1 DEF TypeInv, OpenInv
  <2> QED
    BY <2>1, <2>2
<1>7. Works'
  BY <1>1, <1>2, <1>3, <1>4, <1>6 DEF Orderly, Works
<1>8. Begins'
  <2> SUFFICES ASSUME NEW m \in Call, lpc'[m] = "id" \/ Starting(m)
               PROVE  \E d \in Descriptor : connections[d] = m /\ open[d] = m
    BY <1>2 DEF Begins, Starting
  <2>1. lpc[m] = "id" \/ Starting(m)
    BY <1>2, <1>4
  <2> QED
    BY <2>1 DEF Orderly, Begins
<1>9. Tended'
  <2> SUFFICES ASSUME NEW d \in Registered, NEW m, m = connections[d], ~ Starting(m)
               PROVE  lpc'[m] = "id" \/ (lpc'[m] \in Working /\ id'[m] = d)
    BY <1>2 DEF Tended, Registered, Starting
  <2>1. m \in Call
    BY DEF TypeInv, TypeOK, Registered
  <2>2. CASE m = n
    <3>1. d = params.id
      BY <1>1, <1>5, <1>6, <2>2 DEF Orderly, OneEntry, Registered
    <3> QED
      BY <1>3, <2>2, <3>1 DEF Working
  <2>3. CASE m # n
    BY <1>4, <2>1, <2>3 DEF Orderly, Tended
  <2> QED
    BY <2>2, <2>3
<1>10. OneEntry' /\ Seated'
  BY <1>2, <1>3, <1>4 DEF Orderly, OneEntry, Registered, Seated
<1> QED
  BY <1>7, <1>8, <1>9, <1>10 DEF Orderly

\* Only the listener's own descriptor is given back.
LEMMA OrderClose ==
  ASSUME TypeInv, BirthInv, Orderly, NEW n \in Call, CloseStream(n)
  PROVE  Orderly'
<1>1. /\ lpc[n] = "close" /\ lpc' = [lpc EXCEPT ![n] = "erase"]
      /\ UNCHANGED <<allowed, players, id, calls, connections, apc>>
  BY DEF CloseStream, LMoves, LGoto, ListenerOnly, acceptor
<1>2. connections[id[n]] = n
  BY <1>1 DEF Orderly, Works, Working
<1>3. \A d \in Descriptor : open[d] # n => open'[d] = open[d]
  BY <1>2 DEF CloseStream
<1>4. \A m \in Call : m # n => lpc'[m] = lpc[m]
  BY <1>1 DEF TypeInv, TypeOK
<1>5. lpc'[n] = "erase"
  BY <1>1 DEF TypeInv, TypeOK
<1>6. Works' /\ OneEntry' /\ Seated'
  BY <1>1, <1>4, <1>5 DEF Orderly, Works, OneEntry, Registered, Seated, Working
<1>7. Begins'
  <2> SUFFICES ASSUME NEW m \in Call, lpc'[m] = "id" \/ Starting(m)
               PROVE  \E d \in Descriptor : connections[d] = m /\ open'[d] = m
    BY <1>1 DEF Begins, Starting
  <2>1. m # n
    BY <1>1, <1>5 DEF Starting, BirthInv, Unborn
  <2>2. PICK d \in Descriptor : connections[d] = m /\ open[d] = m
    BY <1>4, <2>1 DEF Orderly, Begins
  <2> QED
    BY <1>3, <2>1, <2>2
<1>8. Tended'
  <2> SUFFICES ASSUME NEW d \in Registered, NEW m, m = connections[d], ~ Starting(m)
               PROVE  lpc'[m] = "id" \/ (lpc'[m] \in Working /\ id[m] = d)
    BY <1>1 DEF Tended, Registered, Starting
  <2>1. m \in Call
    BY DEF TypeInv, TypeOK, Registered
  <2> QED
    BY <1>1, <1>4, <1>5, <2>1 DEF Orderly, Tended, Working
<1> QED
  BY <1>6, <1>7, <1>8 DEF Orderly

\* The entry erased is the listener's own.
LEMMA OrderErase ==
  ASSUME TypeInv, BirthInv, Orderly, NEW n \in Call, Erase(n)
  PROVE  Orderly'
<1>1. /\ lpc[n] = "erase" /\ connections' = [connections EXCEPT ![id[n]] = Null]
      /\ UNCHANGED <<allowed, players, id, calls, open, apc>>
  BY DEF Erase, LMoves, ListenerOnly, acceptor
<1>2. id[n] \in Descriptor /\ connections[id[n]] = n
  BY <1>1 DEF Orderly, Works, Working
<1>3. \A d \in Descriptor : d # id[n] => connections'[d] = connections[d]
  BY <1>1 DEF TypeInv, TypeOK
<1>4. connections'[id[n]] = Null
  BY <1>1, <1>2 DEF TypeInv, TypeOK
<1>5. \A m \in Call : m # n => lpc'[m] = lpc[m]
  BY DEF Erase, LMoves, LGoto, TypeInv, TypeOK
<1>6. lpc'[n] \in {"free", "ended"}
  BY DEF Erase, LMoves, LGoto, TypeInv, TypeOK
<1>7. Works'
  <2> SUFFICES ASSUME NEW m \in Call, lpc'[m] \in Working
               PROVE  id[m] \in Descriptor /\ connections'[id[m]] = m
    BY <1>1 DEF Works
  <2>1. m # n
    BY <1>6 DEF Working
  <2>2. id[m] \in Descriptor /\ connections[id[m]] = m
    BY <1>5, <2>1 DEF Orderly, Works
  <2> QED
    BY <1>2, <1>3, <2>1, <2>2
<1>8. Begins'
  <2> SUFFICES ASSUME NEW m \in Call, lpc'[m] = "id" \/ Starting(m)
               PROVE  \E d \in Descriptor : connections'[d] = m /\ open[d] = m
    BY <1>1 DEF Begins, Starting
  <2>1. m # n
    BY <1>1, <1>6 DEF Starting, BirthInv, Unborn
  <2>2. PICK d \in Descriptor : connections[d] = m /\ open[d] = m
    BY <1>5, <2>1 DEF Orderly, Begins
  <2> QED
    BY <1>2, <1>3, <2>1, <2>2
<1>9. OneEntry'
  BY <1>3, <1>4 DEF Orderly, OneEntry, Registered
<1>10. Tended'
  <2> SUFFICES ASSUME NEW d \in Registered', NEW m, m = connections'[d], ~ Starting(m)
               PROVE  lpc'[m] = "id" \/ (lpc'[m] \in Working /\ id[m] = d)
    BY <1>1 DEF Tended, Starting
  <2>1. d \in Registered /\ d # id[n] /\ connections[d] = m
    BY <1>3, <1>4 DEF Registered
  <2>2. m \in Call /\ m # n
    BY <1>2, <2>1 DEF TypeInv, TypeOK, Registered, Orderly, OneEntry
  <2> QED
    BY <1>5, <2>1, <2>2 DEF Orderly, Tended
<1>11. Seated'
  BY <1>1, <1>5, <1>6 DEF Orderly, Seated
<1> QED
  BY <1>7, <1>8, <1>9, <1>10, <1>11 DEF Orderly

\* Until a player leaves, nobody else gives up the id it plays under.
LEMMA OrderLeave ==
  ASSUME TypeInv, Orderly, NEW n \in Call, Leave(n),
         allowed[n] => id[n] \in players
  PROVE  Orderly'
<1>1. /\ lpc[n] \in Working /\ lpc' = [lpc EXCEPT ![n] = "close"]
      /\ players' = IF allowed[n] THEN players \ {id[n]} ELSE players
      /\ UNCHANGED <<id, allowed, connections, open, calls, apc>>
  BY DEF Leave, LGoto, ListenerOnly, LobbyKept, acceptor, Working
<1>2. Shapes
  BY DEF TypeInv, TypeOK, Shapes
<1>3. "close" \in Working
  BY DEF Working
<1> QED
  BY <1>1, <1>2, <1>3, OrderMoved

LEMMA OrderEnrol ==
  ASSUME TypeInv, Orderly, NEW n \in Call, Enrol(n)
  PROVE  Orderly'
<1>1. PICK pc \in {"serve", "close"} :
        /\ lpc' = [lpc EXCEPT ![n] = pc]
        /\ pc = "serve" => allowed[n] /\ players' = players \cup {id[n]} /\ UNCHANGED allowed
        /\ pc # "serve" => UNCHANGED players
  BY DEF Enrol, LMoves, LGoto
<1>2. /\ lpc[n] \in Working /\ pc \in Working
      /\ UNCHANGED <<id, connections, open, calls, apc>>
  BY DEF Enrol, LMoves, ListenerOnly, LobbyKept, acceptor, Working
<1>3. \A m \in Call \ {n} : allowed[m] => allowed'[m]
  BY DEF Enrol, TypeInv, TypeOK
<1>4. Shapes
  BY DEF TypeInv, TypeOK, Shapes
<1> QED
  BY <1>1, <1>2, <1>3, <1>4, OrderMoved

LEMMA OrderListener ==
  ASSUME TypeInv, BirthInv, Orderly, NEW n \in Call, Listener(n), ~ crossed'
  PROVE  Orderly' \/ UNCHANGED <<lpc, id, allowed, players, connections, open, calls, apc>>
<1> USE DEF LMoves, LGoto, ListenerOnly, LobbyKept, acceptor
<1>0. Shapes /\ {"find", "insert", "enrol"} \subseteq Working
  BY DEF TypeInv, TypeOK, Shapes, Working
<1>1. CASE ReadIp(n)
  BY <1>0, <1>1, OrderMoved DEF ReadIp, Working
<1>2. CASE Find(n)
  <2>1. PICK pc \in {"insert", "enrol"} : lpc' = [lpc EXCEPT ![n] = pc]
    BY <1>2 DEF Find
  <2> QED
    BY <1>0, <1>2, <2>1, OrderMoved DEF Find, Working
<1>3. CASE Insert(n)
  <2>1. \A m \in Call \ {n} : allowed[m] => allowed'[m]
    BY <1>3 DEF Insert, TypeInv, TypeOK
  <2> QED
    BY <1>0, <1>3, <2>1, OrderMoved DEF Insert, Working
<1>4. CASE Leave(n)
  <2>1. CASE allowed[n] /\ id[n] \notin players
    BY <1>4, <2>1 DEF Leave
  <2>2. CASE allowed[n] => id[n] \in players
    BY <1>4, <2>2, OrderLeave
  <2> QED
    BY <2>1, <2>2
<1>5. CASE Crash(n)
  BY <1>5 DEF Crash
<1>6. CASE Free(n)
  <2>1. /\ lpc[n] = "free" /\ lpc' = [lpc EXCEPT ![n] = "ended"]
        /\ UNCHANGED <<id, allowed, players, connections, open, calls, apc>>
    BY <1>6 DEF Free
  <2>2. Works' /\ Begins' /\ OneEntry' /\ Seated'
    BY <2>1 DEF TypeInv, TypeOK, Orderly, Works, Begins, Starting, OneEntry, Registered, Seated,
       Working
  <2>3. Tended'
    BY <2>1 DEF TypeInv, TypeOK, Orderly, Tended, Starting, Registered, Working
  <2> QED
    BY <2>2, <2>3 DEF Orderly
<1> QED
  BY <1>1, <1>2, <1>3, <1>4, <1>5, <1>6, OrderReadId, OrderEnrol, OrderClose, OrderErase
  DEF Listener

\* Where everything is in order, a listener brings the server down only by the
\* name of a client that has not joined.
LEMMA ListenerCrash ==
  ASSUME TypeOK, OrderInv, ~ crashed, NEW n \in Call, Listener(n)
  PROVE  CrashCauses'
<1> SUFFICES ASSUME crashed', Undisturbed PROVE CrashCauses'
  <2>1. (crossed => crossed') /\ usurped' = usurped
    BY DEF Listener, ReadId, ReadIp, Find, Insert, Enrol, Leave, CloseStream, Erase, Free, Crash,
       LMoves, ListenerOnly, LobbyKept, TypeOK
  <2> QED
    BY <2>1 DEF CrashCauses, Undisturbed
<1>1. CASE Leave(n)
  BY <1>1 DEF Leave, OrderInv, Orderly, Seated, CrashCauses
<1>2. CASE Crash(n)
  <2>1. lpc[n] \in Working
    BY <1>2 DEF Crash, Working
  <2>2. id[n] \in Descriptor /\ connections[id[n]] = n
    BY <2>1 DEF OrderInv, Orderly, Works
  <2>3. n # Null
    BY LobbyAssumption DEF Call
  <2> QED
    BY <1>2, <2>2, <2>3 DEF Crash, HasStream, Registered
<1> QED
  BY <1>1, <1>2 DEF Listener, ReadId, ReadIp, Find, Insert, Enrol, CloseStream, Erase, Free

LEMMA OrderStep == TypeInv /\ BirthInv /\ OrderInv /\ [Next]_vars => OrderInv'
<1> SUFFICES ASSUME TypeInv, BirthInv, OrderInv, [Next]_vars PROVE OrderInv'
  OBVIOUS
<1>1. CASE UNCHANGED vars
  BY <1>1, OrderKept DEF vars, system, acceptor, listeners, history, OrderInv, CrashCauses
<1>2. CASE ~ crashed /\ Acceptor
  <2>1. ~ crashed' /\ crossed' = crossed /\ (usurped => usurped')
    BY <1>2 DEF Acceptor, Accept, Register, Address, Spawn, Announce, AcceptorOnly, history,
       TypeInv, TypeOK
  <2>2. CASE Address \/ Announce
    <3>1. /\ UNCHANGED <<lpc, id, allowed, players, connections, open, calls, usurped>>
          /\ apc' \in {"address", "spawn"} <=> apc \in {"address", "spawn"}
      BY <2>2 DEF Address, Announce, AcceptorOnly, system, listeners, history
    <3> QED
      BY <2>1, <3>1, OrderKept DEF CrashCauses
  <2>3. CASE Accept \/ Register \/ Spawn
    BY <2>1, <2>3, OrderAccept, OrderRegister, OrderSpawn DEF OrderInv, CrashCauses, Undisturbed
  <2> QED
    BY <1>2, <2>2, <2>3 DEF Acceptor
<1>3. CASE ~ crashed /\ (Wait \/ Walk)
  <2>1. UNCHANGED <<lpc, id, allowed, players, connections, open, calls, apc, crossed, usurped>>
    BY <1>3 DEF Wait, Walk, CroupierOnly, system, acceptor, listeners, history
  <2>2. CrashCauses'
    <3>1. early' = early /\ (crashed' => shaken /\ shaken' = shaken)
      BY <1>3 DEF Wait, Walk, CroupierOnly, history
    <3> QED
      BY <2>1, <3>1 DEF CrashCauses
  <2> QED
    BY <2>1, <2>2, OrderKept
<1>4. ASSUME ~ crashed, NEW n \in Call, Listener(n) PROVE OrderInv'
  <2>1. (crossed => crossed') /\ usurped' = usurped
    BY <1>4 DEF Listener, ReadId, ReadIp, Find, Insert, Enrol, Leave, CloseStream, Erase, Free,
       Crash, LMoves, ListenerOnly, LobbyKept, TypeInv, TypeOK
  <2>2. CrashCauses'
    BY <1>4, ListenerCrash DEF TypeInv
  <2>3. ASSUME Undisturbed' PROVE Orderly'
    <3>1. Orderly /\ ~ crossed'
      BY <2>1, <2>3 DEF OrderInv, Undisturbed
    <3>2. CASE UNCHANGED <<lpc, id, allowed, players, connections, open, calls, apc>>
      BY <3>1, <3>2 DEF Orderly, Works, Begins, OneEntry, Tended, Seated, Starting, Registered
    <3> QED
      BY <1>4, <3>1, <3>2, OrderListener
  <2> QED
    BY <2>2, <2>3 DEF OrderInv
<1> QED
  BY <1>1, <1>2, <1>3, <1>4 DEF Next

(***************************************************************************)
(* Every entry of the map has a thread that works under its id or will, so *)
(* that no connection is left registered with nobody to listen to it.      *)
(***************************************************************************)
THEOREM HeardSafe == Spec => []Heard
<1>1. OrderInv => Heard
  <2> SUFFICES ASSUME OrderInv, Undisturbed, NEW d \in Registered, NEW n, n = connections[d]
               PROVE  Starting(n) \/ lpc[n] = "id" \/ (lpc[n] # "ended" /\ id[n] = d)
    BY DEF Heard, Undisturbed, Starting
  <2> QED
    BY DEF OrderInv, Orderly, Tended, Working
<1> QED
  BY TypeInit, TypeStep, BirthInit, BirthStep, OrderInit, OrderStep, <1>1, PTL DEF Spec

(***************************************************************************)
(* Whatever the threads do in whatever order, what brings the server down  *)
(* is a client that hangs up before it joins or one of the three races.    *)
(***************************************************************************)
THEOREM CrashCausesSafe == Spec => []CrashCauses
<1>1. OrderInv => CrashCauses
  BY DEF OrderInv
<1> QED
  BY TypeInit, TypeStep, BirthInit, BirthStep, OrderInit, OrderStep, <1>1, PTL DEF Spec

-----------------------------------------------------------------------------
(***************************************************************************)
(* The set of addresses.  A host turned away for want of room leaves its   *)
(* address behind, and for that very reason has no player afterwards.      *)
(***************************************************************************)
Turned == \A n \in Call : Playing(n) => host[n] \notin barred

PlaceInv == Straightforward => AddressesMatch /\ Turned

LEMMA PlaceInit == Init => PlaceInv
BY DEF Init, PlaceInv, AddressesMatch, Turned, Playing

LEMMA PlaceKept ==
  ASSUME PlaceInv, \A n \in Call : Playing(n)' <=> Playing(n),
         UNCHANGED <<ips, host, barred>>,
         crossed => crossed', twins => twins'
  PROVE  PlaceInv'
<1> SUFFICES ASSUME Straightforward' PROVE (AddressesMatch /\ Turned)'
  BY DEF PlaceInv
<1>1. AddressesMatch /\ Turned /\ Straightforward
  BY DEF PlaceInv, Straightforward
<1>2. {m \in Call : Playing(m)'} = {m \in Call : Playing(m)}
  OBVIOUS
<1>3. ips = {host[n] : n \in {m \in Call : Playing(m)}} \cup barred
  BY <1>1 DEF AddressesMatch, Straightforward
<1>4. ips' = {host'[n] : n \in {m \in Call : Playing(m)'}} \cup barred'
  BY <1>2, <1>3
<1> QED
  BY <1>1, <1>4 DEF AddressesMatch, Turned

LEMMA PlaceInsert ==
  ASSUME HostInv, PlaceInv, NEW n \in Call, Insert(n), barred \subseteq ips
  PROVE  PlaceInv'
<1> SUFFICES ASSUME Straightforward' PROVE (AddressesMatch /\ Turned)'
  BY DEF PlaceInv
<1>1. /\ lpc[n] = "insert" /\ lpc' = [lpc EXCEPT ![n] = "enrol"]
      /\ allowed' = [allowed EXCEPT ![n] = TRUE] /\ ips' = ips \cup {ip[n]}
      /\ UNCHANGED <<host, barred, crossed, twins>>
  BY DEF Insert, LMoves, LGoto, ListenerOnly
<1>2. ip[n] = host[n] /\ ip[n] \notin ips /\ Straightforward /\ Turned
  BY <1>1 DEF HostInv, PlaceInv, Straightforward, OwnAddress, Entered
<1>3. \A m \in Call : Playing(m)' <=> m = n \/ Playing(m)
  BY <1>1 DEF HostInv, Shapes, Playing
<1>4. {m \in Call : Playing(m)'} = {m \in Call : Playing(m)} \cup {n}
  BY <1>3
<1>5. ips = {host[m] : m \in {m \in Call : Playing(m)}} \cup barred
  BY <1>2 DEF PlaceInv, AddressesMatch, Straightforward
<1>6. {host'[m] : m \in {m \in Call : Playing(m)'}}
        = {host[m] : m \in {m \in Call : Playing(m)}} \cup {host[n]}
  BY <1>1, <1>4
<1>7. ips' = {host'[m] : m \in {m \in Call : Playing(m)'}} \cup barred'
  BY <1>1, <1>2, <1>5, <1>6
<1>8. Turned'
  BY <1>1, <1>2, <1>3 DEF Turned
<1> QED
  BY <1>7, <1>8 DEF AddressesMatch

\* No other thread plays for the host of one that does.
LEMMA Alone ==
  ASSUME HostInv, Straightforward, NEW n \in Call, Playing(n), NEW m \in Call, Playing(m),
         m # n
  PROVE  host[m] # host[n]
BY DEF HostInv, OneClaim, OwnAddress, Straightforward, Claims, Playing

\* A player that gives its place up: to nobody, or to the hosts turned away.
LEMMA PlaceLost ==
  ASSUME HostInv, PlaceInv, NEW n \in Call, Playing(n),
         \A m \in Call : Playing(m)' <=> m # n /\ Playing(m),
         UNCHANGED <<host, crossed, twins>>,
         \/ ips' = ips /\ barred' = barred \cup {ip[n]}
         \/ ips' = ips \ {ip[n]} /\ barred' = barred
  PROVE  PlaceInv'
<1> SUFFICES ASSUME Straightforward' PROVE (AddressesMatch /\ Turned)'
  BY DEF PlaceInv
<1> DEFINE Players == {host[m] : m \in {m \in Call : Playing(m)}}
           Others == {host'[m] : m \in {m \in Call : Playing(m)'}}
<1>1. Straightforward /\ Turned /\ ip[n] = host[n]
  BY DEF HostInv, PlaceInv, Straightforward, OwnAddress, Playing
<1>2. ips = Players \cup barred
  BY <1>1 DEF PlaceInv, AddressesMatch, Straightforward
<1>3. \A m \in Call : Playing(m)' => host[m] # host[n]
  BY <1>1, Alone
<1>4. Others = Players \ {host[n]}
  <2>1. \A h \in Others : h \in Players /\ h # host[n]
    BY <1>3
  <2>2. \A h \in Players : h # host[n] => h \in Others
    OBVIOUS
  <2> QED
    BY <2>1, <2>2
<1>5. host[n] \in Players /\ host[n] \notin barred
  BY <1>1 DEF Turned
<1>6. ips' = Others \cup barred'
  <2> HIDE DEF Others, Players
  <2> QED
    BY <1>1, <1>2, <1>4, <1>5
<1>7. Turned'
  BY <1>1, <1>3 DEF Turned
<1> QED
  BY <1>6, <1>7 DEF AddressesMatch

LEMMA PlaceListener ==
  ASSUME HostInv, PlaceInv, NEW n \in Call, Listener(n), crossed' \in BOOLEAN, twins' \in BOOLEAN,
         barred \subseteq ips \/ ~ Straightforward
  PROVE  PlaceInv'
<1> USE DEF LMoves, LGoto, ListenerOnly, LobbyKept
<1>0. Shapes /\ Fresh
  BY DEF HostInv
<1>1. /\ UNCHANGED host /\ (crossed => crossed') /\ (twins => twins')
  BY <1>0 DEF Listener, ReadId, ReadIp, Find, Insert, Enrol, Leave, CloseStream, Erase, Free,
     Crash, Shapes
<1>2. CASE Insert(n)
  <2>1. CASE Straightforward
    BY <1>2, <2>1, PlaceInsert
  <2>2. CASE ~ Straightforward
    BY <1>2, <2>2 DEF Insert, PlaceInv, Straightforward
  <2> QED
    BY <2>1, <2>2
<1>3. CASE Free(n)
  <2>1. Playing(n) /\ ips' = ips \ {ip[n]} /\ UNCHANGED <<barred, host, crossed, twins>>
    BY <1>0, <1>3 DEF Free, Fresh, Playing
  <2>2. \A m \in Call : Playing(m)' <=> m # n /\ Playing(m)
    BY <1>0, <1>3 DEF Free, Shapes, Playing
  <2> QED
    BY <2>1, <2>2, PlaceLost
<1>4. CASE Enrol(n)
  <2>1. CASE UNCHANGED <<allowed, barred>>
    <3>1. PICK pc \in {"serve", "close"} : lpc[n] = "enrol" /\ lpc' = [lpc EXCEPT ![n] = pc]
      BY <1>4 DEF Enrol
    <3>2. \A m \in Call : Playing(m)' <=> Playing(m)
      BY <1>0, <2>1, <3>1 DEF Shapes, Playing
    <3>3. UNCHANGED <<ips, host, barred, crossed, twins>>
      BY <1>1, <1>4, <2>1 DEF Enrol
    <3> QED
      BY <1>1, <3>2, <3>3, PlaceKept
  <2>2. CASE /\ allowed[n] /\ lpc[n] = "enrol"
             /\ allowed' = [allowed EXCEPT ![n] = FALSE] /\ lpc' = [lpc EXCEPT ![n] = "close"]
             /\ barred' = barred \cup {ip[n]}
    <3>1. Playing(n)
      BY <2>2 DEF Playing
    <3>2. \A m \in Call : Playing(m)' <=> m # n /\ Playing(m)
      BY <1>0, <2>2 DEF Shapes, Playing
    <3>3. UNCHANGED <<ips, host, crossed, twins>>
      BY <1>1, <1>4 DEF Enrol
    <3> QED
      BY <2>2, <3>1, <3>2, <3>3, PlaceLost
  <2> QED
    BY <1>4, <2>1, <2>2 DEF Enrol
<1>5. CASE ReadId(n) \/ ReadIp(n) \/ Find(n) \/ Leave(n) \/ CloseStream(n) \/ Erase(n) \/ Crash(n)
  <2>1. UNCHANGED <<ips, host, barred, allowed>>
    BY <1>5 DEF ReadId, ReadIp, Find, Leave, CloseStream, Erase, Crash
  <2>2. \/ lpc' = lpc
        \/ \E pc \in ListenerPC :
             /\ lpc' = [lpc EXCEPT ![n] = pc]
             /\ ~ allowed[n] \/ {lpc[n], pc} \subseteq {"enrol", "serve", "close", "erase", "free"}
    <3>1. CASE ReadId(n) \/ ReadIp(n) \/ Find(n)
      BY <1>0, <3>1 DEF ReadId, ReadIp, Find, Fresh, ListenerPC
    <3>2. CASE Leave(n) \/ CloseStream(n) \/ Erase(n) \/ Crash(n)
      BY <1>0, <3>2 DEF Leave, CloseStream, Erase, Crash, ListenerPC
    <3> QED
      BY <1>5, <3>1, <3>2
  <2>3. \A m \in Call : Playing(m)' <=> Playing(m)
    BY <1>0, <2>1, <2>2 DEF Shapes, Playing
  <2> QED
    BY <1>1, <2>1, <2>3, PlaceKept
<1> QED
  BY <1>2, <1>3, <1>4, <1>5 DEF Listener

LEMMA PlaceStep == TypeInv /\ BirthInv /\ HostInv /\ PlaceInv /\ [Next]_vars => PlaceInv'
<1> SUFFICES ASSUME TypeInv, BirthInv, HostInv, PlaceInv, [Next]_vars PROVE PlaceInv'
  OBVIOUS
<1>1. CASE Spawn
  <2>1. calls \in Call /\ lpc[calls] = "none"
    BY <1>1, LobbyAssumption DEF TypeInv, TypeOK, OpenInv, Spawn, Call, BirthInv, Unborn
  <2>2. \A m \in Call : Playing(m)' <=> Playing(m)
    BY <1>1, <2>1 DEF Spawn, Playing, TypeInv, TypeOK
  <2>3. UNCHANGED <<ips, host, barred, crossed, twins>>
    BY <1>1 DEF Spawn, system, history
  <2> QED
    BY <2>2, <2>3, PlaceKept
<1>2. CASE UNCHANGED vars \/ Accept \/ Register \/ Address \/ Announce \/ Wait \/ Walk
  <2>1. UNCHANGED <<lpc, allowed, ips, host, barred, crossed, twins>>
    BY <1>2 DEF vars, Accept, Register, Address, Announce, Wait, Walk, AcceptorOnly, CroupierOnly,
       system, listeners, history
  <2>2. \A m \in Call : Playing(m)' <=> Playing(m)
    BY <2>1 DEF Playing
  <2> QED
    BY <2>1, <2>2, PlaceKept
<1>3. ASSUME NEW n \in Call, Listener(n) PROVE PlaceInv'
  <2>1. crossed' \in BOOLEAN /\ twins' \in BOOLEAN
    BY <1>3, ListenerType DEF TypeInv, TypeOK
  <2>2. barred \subseteq ips \/ ~ Straightforward
    BY DEF PlaceInv, AddressesMatch, Straightforward
  <2> QED
    BY <1>3, <2>1, <2>2, PlaceListener
<1> QED
  BY <1>1, <1>2, <1>3 DEF Next, Acceptor

(***************************************************************************)
(* connections_ips holds the hosts of those who play and of those who came *)
(* when there was no room, and nobody else: no address is left behind when *)
(* a player goes, none is taken from one who stays.                        *)
(***************************************************************************)
THEOREM AddressesSafe == Spec => []AddressesMatch
<1>1. PlaceInv => AddressesMatch
  BY DEF PlaceInv, AddressesMatch, Straightforward
<1> QED
  BY TypeInit, TypeStep, BirthInit, BirthStep, HostInit, HostStep, PlaceInit, PlaceStep, <1>1,
     PTL DEF Spec
=============================================================================
