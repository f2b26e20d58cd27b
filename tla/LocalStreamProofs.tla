------------------------- MODULE LocalStreamProofs -------------------------
(***************************************************************************)
(* For any number of threads and messages: each direction of a local       *)
(* stream implements Channel.                                              *)
(*                                                                         *)
(* The two semaphores of a direction and the threads at work between them  *)
(* are one token.  It lies in free (the buffer may be written), is held by *)
(* the writer, lies in wrote (the buffer may be read) or is held by the    *)
(* reader; TokenInv says it is never in two places, which is what the      *)
(* refinement needs of every step.  That it is never nowhere (WaitInv) is  *)
(* what keeps the sends of the two ends from waiting for each other.       *)
(***************************************************************************)
EXTENDS LocalStream, TLAPS

\* Thread t works on what end e sends, between its semP and its semV.
Holds(e, t) ==
  \/ EndOf[t] = e /\ pc[t] \in {"write", "post"}
  \/ EndOf[t] = Other(e) /\ pc[t] \in {"copy", "release"}

TokenAt(e) ==
  /\ free[e] \in {0, 1}
  /\ wrote[e] \in {0, 1}
  /\ ~ (free[e] = 1 /\ wrote[e] = 1)
  /\ \A t \in Thread : Holds(e, t) => free[e] = 0 /\ wrote[e] = 0
  /\ \A s, t \in Thread : Holds(e, s) /\ Holds(e, t) => s = t

SlotAt(e) ==
  /\ UnderWay(e) => buffer[e] \in Msg
  /\ \A t \in Thread : EndOf[t] = e /\ pc[t] \in {"claim", "write", "post"} => hand[t] \in Msg

TokenInv == \A e \in End : TokenAt(e) /\ SlotAt(e)

LEMMA InitType == Init => TypeOK
BY DEF Init, TypeOK, End

LEMMA UpdateType ==
  ASSUME NEW S, NEW f \in [S -> BOOLEAN], NEW e, NEW b \in BOOLEAN
  PROVE  [f EXCEPT ![e] = b] \in [S -> BOOLEAN]
OBVIOUS

LEMMA ProbeType ==
  ASSUME TypeOK, NEW e, Probe(e)
  PROVE  isConn' \in [End -> BOOLEAN]
<1>1. (available = 0) \in BOOLEAN
  OBVIOUS
<1> QED
  BY <1>1, UpdateType, Zenon DEF TypeOK, Probe

LEMMA FaultType ==
  ASSUME TypeOK, NEW e, Fault(e)
  PROVE  down' \in [End -> BOOLEAN]
<1>1. TRUE \in BOOLEAN
  OBVIOUS
<1> QED
  BY <1>1, UpdateType, Zenon DEF TypeOK, Fault

LEMMA CloseType ==
  ASSUME TypeOK, NEW t, Close(t)
  PROVE  isConn' \in [End -> BOOLEAN] /\ attached' \in [End -> BOOLEAN]
<1>1. FALSE \in BOOLEAN
  OBVIOUS
<1>2. isConn' = [isConn EXCEPT ![EndOf[t]] = FALSE]
  BY DEF Close
<1>3. attached' = [attached EXCEPT ![EndOf[t]] = FALSE] \/ attached' = attached
  BY DEF Close
<1>4. isConn' \in [End -> BOOLEAN]
  BY <1>1, <1>2, UpdateType, Zenon DEF TypeOK
<1>5. CASE attached' = [attached EXCEPT ![EndOf[t]] = FALSE]
  BY <1>1, <1>4, <1>5, UpdateType, Zenon DEF TypeOK
<1>6. CASE attached' = attached
  BY <1>4, <1>6 DEF TypeOK
<1> QED
  BY <1>3, <1>5, <1>6

LEMMA TypeStep == TypeOK /\ [Next]_vars => TypeOK'
<1> SUFFICES ASSUME TypeOK, [Next]_vars PROVE TypeOK'
  OBVIOUS
<1> USE LocalStreamAssumption DEF TypeOK, End, Other
<1>1. CASE UNCHANGED vars
  BY <1>1 DEF vars, semaphores, objects
<1>2. ASSUME NEW t \in Thread, StartSend(t) \/ Sending(t) PROVE TypeOK'
  <2>1. CASE StartSend(t)
    <3>1. isConn' \in [End -> BOOLEAN]
      BY <2>1, ProbeType DEF StartSend
    <3> QED
      BY <2>1, <3>1 DEF StartSend, At, Goto, semaphores
  <2>2. CASE Claim(t)
    BY <2>2 DEF Claim, At, Goto, objects
  <2>3. CASE Write(t)
    <3>1. down' \in [End -> BOOLEAN]
      BY <2>3, FaultType DEF Write
    <3> QED
      BY <2>3, <3>1 DEF Write, At, Goto, semaphores
  <2>4. CASE Post(t)
    BY <2>4 DEF Post, At, Goto, objects
  <2> QED
    BY <1>2, <2>1, <2>2, <2>3, <2>4 DEF Sending
<1>3. ASSUME NEW t \in Thread, StartReceive(t) \/ Receiving(t) \/ Close(t) PROVE TypeOK'
  <2>1. CASE StartReceive(t)
    <3>1. isConn' \in [End -> BOOLEAN]
      BY <2>1, ProbeType DEF StartReceive
    <3> QED
      BY <2>1, <3>1 DEF StartReceive, At, Goto, semaphores
  <2>2. CASE Await(t)
    BY <2>2 DEF Await, At, Goto, objects
  <2>3. CASE Copy(t)
    <3>1. down' \in [End -> BOOLEAN]
      BY <2>3, FaultType DEF Copy
    <3> QED
      BY <2>3, <3>1 DEF Copy, At, Goto, semaphores
  <2>4. CASE Release(t)
    BY <2>4 DEF Release, At, Goto, objects
  <2>5. CASE Close(t)
    <3>1. isConn' \in [End -> BOOLEAN] /\ attached' \in [End -> BOOLEAN]
      BY <2>5, CloseType
    <3>2. available' \in Nat /\ pc' \in [Thread -> {"idle", "claim", "write", "post",
                                                "await", "copy", "release", "ended"}]
      BY <2>5 DEF Close, At, Goto
    <3> QED
      BY <2>5, <3>1, <3>2 DEF Close
  <2> QED
    BY <1>3, <2>1, <2>2, <2>3, <2>4, <2>5 DEF Receiving
<1> QED
  BY <1>1, <1>2, <1>3 DEF Next

(***************************************************************************)
(* The variables of a local stream keep their types.                       *)
(***************************************************************************)
THEOREM TypeCorrect == Spec => []TypeOK
BY InitType, TypeStep, PTL DEF Spec

\* is_connected is never set while the server is on offer.
OfferInv ==
  /\ available \in {0, 1}
  /\ available = 1 => ~ attached["client"] /\ ~ isConn["client"]

LEMMA OfferStep == TypeOK /\ OfferInv /\ [Next]_vars => OfferInv'
<1> SUFFICES ASSUME TypeOK, OfferInv, [Next]_vars PROVE OfferInv'
  OBVIOUS
<1> USE LocalStreamAssumption DEF TypeOK, OfferInv, End
<1>1. CASE UNCHANGED vars
  BY <1>1 DEF vars, semaphores, objects
<1>2. ASSUME NEW t \in Thread, StartSend(t) \/ StartReceive(t) PROVE OfferInv'
  BY <1>2 DEF StartSend, StartReceive, Probe, semaphores
<1>3. ASSUME NEW t \in Thread, Sending(t) \/ Receiving(t) PROVE OfferInv'
  BY <1>3 DEF Sending, Receiving, Claim, Write, Post, Await, Copy, Release,
              semaphores, objects
<1>4. ASSUME NEW t \in Thread, Close(t) PROVE OfferInv'
  BY <1>4 DEF Close
<1> QED
  BY <1>1, <1>2, <1>3, <1>4 DEF Next

(***************************************************************************)
(* The server is offered to the next local client once, and only after     *)
(* this one has let go: closeStream() and its test of is_connected.        *)
(***************************************************************************)
THEOREM OfferSafe == Spec => []OfferedOnce
<1>1. Init => OfferInv
  BY DEF Init, OfferInv
<1>2. OfferInv => OfferedOnce
  BY DEF OfferInv, OfferedOnce
<1> QED
  BY <1>1, <1>2, OfferStep, TypeCorrect, PTL DEF Spec

(***************************************************************************)
(* What a step means for direction e, as a step of the channel.            *)
(***************************************************************************)
ChannelStep(e) ==
  \/ Slot(e)' = Slot(e) /\ last'[Other(e)] = last[Other(e)]
  \/ Slot(e) = Null /\ Slot(e)' \in Msg /\ last'[Other(e)] = last[Other(e)]
  \/ Slot(e) # Null /\ Slot(e)' = Null /\ last'[Other(e)] = Slot(e)

Good(e) == TokenAt(e)' /\ SlotAt(e)' /\ ChannelStep(e)

LEMMA TokenStep ==
  ASSUME TypeOK, TokenInv, [Next]_vars, NEW e \in End
  PROVE  Good(e)
<1> USE LocalStreamAssumption DEF TypeOK, TokenInv, TokenAt, SlotAt, Holds, UnderWay, Slot,
        ChannelStep, Good, Other, End
<1>1. CASE UNCHANGED vars
  BY <1>1 DEF vars, semaphores, objects
<1>2. ASSUME NEW t \in Thread, StartSend(t) PROVE Good(e)
  BY <1>2 DEF StartSend, At, Goto, semaphores
<1>3. ASSUME NEW t \in Thread, Claim(t) PROVE Good(e)
  BY <1>3 DEF Claim, At, Goto
<1>4. ASSUME NEW t \in Thread, Write(t) PROVE Good(e)
  BY <1>4 DEF Write, At, Goto, Fault, semaphores
<1>5. ASSUME NEW t \in Thread, Post(t) PROVE Good(e)
  BY <1>5 DEF Post, At, Goto
<1>6. ASSUME NEW t \in Thread, StartReceive(t) \/ Close(t) PROVE Good(e)
  BY <1>6 DEF StartReceive, Close, At, Goto, semaphores
<1>7. ASSUME NEW t \in Thread, Await(t) PROVE Good(e)
  BY <1>7 DEF Await, At, Goto
<1>8. ASSUME NEW t \in Thread, Copy(t) PROVE Good(e)
  BY <1>8 DEF Copy, At, Goto, Fault, semaphores
<1>9. ASSUME NEW t \in Thread, Release(t) PROVE Good(e)
  BY <1>9 DEF Release, At, Goto
<1> QED
  BY <1>1, <1>2, <1>3, <1>4, <1>5, <1>6, <1>7, <1>8, <1>9 DEF Next, Sending, Receiving

LEMMA TokenInit == Init => TokenInv
BY LocalStreamAssumption DEF Init, TokenInv, TokenAt, SlotAt, Holds, UnderWay, Other, End

\* The inductive invariant, of every run.
LEMMA TokenAlways == Spec => [](TypeOK /\ TokenInv)
<1>1. TypeOK /\ TokenInv /\ [Next]_vars => TokenInv'
  BY TokenStep DEF Good, TokenInv, TokenAt, SlotAt, Holds, UnderWay, Other, End
<1> QED
  BY <1>1, InitType, TypeStep, TokenInit, PTL DEF Spec

(***************************************************************************)
(* What the server's threads write, with operator<< and its semaphores,    *)
(* reaches the client as through a channel: nothing overwritten before it  *)
(* is read, nothing read twice, nothing passed over.                       *)
(***************************************************************************)
THEOREM ToClientImplements == Spec => ToClientIsChannel
<1>1. Init => ToClient!ChannelInit
  BY DEF Init, ToClient!ChannelInit, Slot, UnderWay, Other, End
<1>2. TypeOK /\ TokenInv /\ [Next]_vars =>
        [ToClient!Send \/ ToClient!Receive]_ToClient!channelVars
  BY TokenStep DEF Good, ChannelStep, Other, End, ToClient!Send, ToClient!Receive,
                   ToClient!channelVars
<1> QED
  BY <1>1, <1>2, TokenAlways, PTL DEF Spec, ToClientIsChannel, ToClient!ChannelSpec

(***************************************************************************)
(* The same of what the client's threads write for the server.             *)
(***************************************************************************)
THEOREM ToServerImplements == Spec => ToServerIsChannel
<1>1. Init => ToServer!ChannelInit
  BY DEF Init, ToServer!ChannelInit, Slot, UnderWay, Other, End
<1>2. TypeOK /\ TokenInv /\ [Next]_vars =>
        [ToServer!Send \/ ToServer!Receive]_ToServer!channelVars
  BY TokenStep DEF Good, ChannelStep, Other, End, ToServer!Send, ToServer!Receive,
                   ToServer!channelVars
<1> QED
  BY <1>1, <1>2, TokenAlways, PTL DEF Spec, ToServerIsChannel, ToServer!ChannelSpec

(***************************************************************************)
(* The shared memory of a local stream is two channels, whatever the       *)
(* threads at its ends do.                                                 *)
(***************************************************************************)
THEOREM StreamImplements == Spec => BothAreChannels
BY ToClientImplements, ToServerImplements, PTL DEF BothAreChannels

-----------------------------------------------------------------------------
(***************************************************************************)
(* Nobody waits in a circle.  Both ends send to each other, and the        *)
(* server's listener sends, too, between two receives; but the client's    *)
(* listener (RulaxClientConnectionManager::listenServer) never does.       *)
(***************************************************************************)
Listens(t) == t \in Reader /\ t \notin Writer

\* No thread has a step of << or >> to take: its semaphore is down.
AtRest ==
  \A t \in Thread :
    \/ pc[t] = "idle" /\ t \notin Reader
    \/ pc[t] = "claim" /\ free[EndOf[t]] = 0
    \/ pc[t] = "await" /\ wrote[Other(EndOf[t])] = 0
    \/ pc[t] = "ended"

Attended(e) == \E r \in Reader : EndOf[r] = e /\ pc[r] # "ended"

NoCircularWait ==
  /\ AtRest /\ \A e \in End : Attended(e)
  /\ \A r \in Reader : EndOf[r] = "client" => Listens(r)
  => \A t \in Thread : pc[t] # "claim"

(***************************************************************************)
(* The token is somewhere, and only a writer comes to a claim.  Without    *)
(* the first half a direction could fall silent for ever.                  *)
(***************************************************************************)
Somewhere(e) == free[e] > 0 \/ wrote[e] > 0 \/ \E t \in Thread : Holds(e, t)

WaitInv ==
  /\ \A e \in End : Somewhere(e)
  /\ \A t \in Thread : pc[t] \in {"claim", "write", "post"} => t \in Writer

LEMMA SomewhereStep ==
  ASSUME TypeOK, NEW e \in End, Somewhere(e), [Next]_vars
  PROVE  Somewhere(e)'
<1> USE LocalStreamAssumption DEF TypeOK, Somewhere, Holds, Other, End
<1>1. CASE UNCHANGED vars
  BY <1>1 DEF vars, semaphores, objects
<1>2. ASSUME NEW t \in Thread, StartSend(t) PROVE Somewhere(e)'
  BY <1>2 DEF StartSend, At, Goto, semaphores
<1>3. ASSUME NEW t \in Thread, Claim(t) PROVE Somewhere(e)'
  BY <1>3 DEF Claim, At, Goto
<1>4. ASSUME NEW t \in Thread, Write(t) PROVE Somewhere(e)'
  BY <1>4 DEF Write, At, Goto, Fault, semaphores
<1>5. ASSUME NEW t \in Thread, Post(t) PROVE Somewhere(e)'
  BY <1>5 DEF Post, At, Goto
<1>6. ASSUME NEW t \in Thread, StartReceive(t) \/ Close(t) PROVE Somewhere(e)'
  BY <1>6 DEF StartReceive, Close, At, Goto, semaphores
<1>7. ASSUME NEW t \in Thread, Await(t) PROVE Somewhere(e)'
  BY <1>7 DEF Await, At, Goto
<1>8. ASSUME NEW t \in Thread, Copy(t) PROVE Somewhere(e)'
  BY <1>8 DEF Copy, At, Goto, Fault, semaphores
<1>9. ASSUME NEW t \in Thread, Release(t) PROVE Somewhere(e)'
  BY <1>9 DEF Release, At, Goto
<1> QED
  BY <1>1, <1>2, <1>3, <1>4, <1>5, <1>6, <1>7, <1>8, <1>9 DEF Next, Sending, Receiving

LEMMA ClaimStep ==
  ASSUME TypeOK, \A t \in Thread : pc[t] \in {"claim", "write", "post"} => t \in Writer,
         [Next]_vars
  PROVE  \A t \in Thread : pc'[t] \in {"claim", "write", "post"} => t \in Writer
<1>1. CASE UNCHANGED vars
  BY <1>1 DEF vars
<1>2. ASSUME NEW t \in Writer, StartSend(t) \/ Sending(t)
      PROVE  \A s \in Thread : pc'[s] # pc[s] => s \in Writer
  BY <1>2 DEF StartSend, Sending, Claim, Write, Post, Goto, TypeOK
<1>3. ASSUME NEW t \in Reader, StartReceive(t) \/ Receiving(t) \/ Close(t)
      PROVE  \A s \in Thread : pc'[s] # pc[s] => pc'[s] \in {"await", "copy", "release", "idle", "ended"}
  BY <1>3 DEF StartReceive, Receiving, Await, Copy, Release, Close, Goto, TypeOK
<1> QED
  BY <1>1, <1>2, <1>3 DEF Next

LEMMA WaitStep == TypeOK /\ WaitInv /\ [Next]_vars => WaitInv'
BY SomewhereStep, ClaimStep DEF WaitInv

\* Where all rest and nothing is on offer, the message waits to be read.
LEMMA Waits ==
  ASSUME TokenInv, WaitInv, AtRest, NEW t \in Thread, pc[t] = "claim"
  PROVE  wrote[EndOf[t]] = 1
<1>1. EndOf[t] \in End /\ free[EndOf[t]] = 0
  BY LocalStreamAssumption DEF AtRest
<1>2. \A s \in Thread : ~ Holds(EndOf[t], s)
  BY DEF AtRest, Holds
<1> QED
  BY <1>1, <1>2 DEF WaitInv, Somewhere, TokenInv, TokenAt

LEMMA NoCircle == TokenInv /\ WaitInv => NoCircularWait
<1> SUFFICES ASSUME TokenInv, WaitInv, AtRest, \A e \in End : Attended(e),
                    \A r \in Reader : EndOf[r] = "client" => Listens(r),
                    NEW t \in Thread, pc[t] = "claim"
             PROVE  FALSE
  BY DEF NoCircularWait
<1> USE LocalStreamAssumption
\* A reader that is not waiting for a message is itself held up in a send.
<1>1. ASSUME NEW s \in Thread, pc[s] = "claim"
      PROVE  \E r \in Reader : EndOf[r] = Other(EndOf[s]) /\ pc[r] = "claim"
  <2>1. EndOf[s] \in End /\ Other(EndOf[s]) \in End /\ Other(Other(EndOf[s])) = EndOf[s]
    BY DEF Other, End
  <2>2. PICK r \in Reader : EndOf[r] = Other(EndOf[s]) /\ pc[r] # "ended"
    BY <2>1 DEF Attended
  <2>3. wrote[Other(EndOf[r])] = 1
    BY <1>1, <2>1, <2>2, Waits
  <2> QED
    BY <2>2, <2>3 DEF AtRest
<1>2. \A s \in Thread : pc[s] = "claim" => EndOf[s] # "server"
  <2> SUFFICES ASSUME NEW s \in Thread, pc[s] = "claim", EndOf[s] = "server" PROVE FALSE
    OBVIOUS
  <2>1. PICK r \in Reader : EndOf[r] = "client" /\ pc[r] = "claim"
    BY <1>1 DEF Other
  <2> QED
    BY <2>1 DEF Listens, WaitInv
<1>3. EndOf[t] = "client"
  BY <1>2 DEF End
<1>4. PICK r \in Reader : EndOf[r] = "server" /\ pc[r] = "claim"
  BY <1>1, <1>3 DEF Other
<1> QED
  BY <1>2, <1>4

(***************************************************************************)
(* However many threads broadcast at both ends at once, the sends never    *)
(* hold each other up while the listeners are there: when nothing moves,   *)
(* nobody waits in semP to write.  It is what SendsComplete needs besides  *)
(* the scheduling.                                                         *)
(***************************************************************************)
THEOREM NeverJammed == Spec => []NoCircularWait
<1>1. Init => WaitInv
  BY DEF Init, WaitInv, Somewhere
<1> QED
  BY <1>1, WaitStep, NoCircle, TokenAlways, PTL DEF Spec
=============================================================================
