---------------------------- MODULE LocalStream ----------------------------
(***************************************************************************)
(* The stream between the server and the client that runs on its machine   *)
(* (RulaxLocalStream): two message buffers in shared memory, one written   *)
(* by each end, and five System V semaphores.  At both ends several        *)
(* threads use the stream at the same time: the croupier and the listeners *)
(* broadcast while the listener of the local client receives; the          *)
(* keyboard of the client sends while its listener receives.               *)
(*                                                                         *)
(* One connection is modelled, from makeConnection() on.  A step is one    *)
(* semaphore operation or one access to shared memory.                     *)
(***************************************************************************)
EXTENDS Integers

CONSTANTS
  Msg,     \* messages
  Null,    \* no message
  Thread,  \* the threads that use the stream
  EndOf,   \* thread -> the end it uses
  Writer,  \* the threads that send: all but the client's listener
  Reader   \* the threads that receive: the two listeners

End == {"server", "client"}

Other(e) == IF e = "server" THEN "client" ELSE "server"

ASSUME LocalStreamAssumption ==
  /\ Null \notin Msg
  /\ EndOf \in [Thread -> End]
  /\ Writer \subseteq Thread
  /\ Reader \subseteq Thread

VARIABLES
  available,  \* SERVER_AVAILABLE
  free,       \* the semaphore an end waits for before it writes: the other end's _READ
  wrote,      \* SERVER_WROTE and CLIENT_WROTE
  buffer,     \* message_buffer[e], written by end e
  attached,   \* e's mapping of the shared memory is in place
  isConn,     \* is_connected of e's stream object
  down,       \* e has touched memory no longer mapped; the process is gone
  pc,         \* where in << or >> a thread is
  hand,       \* the message a thread is sending
  last        \* the message most recently received at e

semaphores == <<available, free, wrote>>
objects == <<attached, isConn, down>>
vars == <<semaphores, objects, buffer, pc, hand, last>>

Init ==
  /\ available = 0
  /\ free = [e \in End |-> 1]
  /\ wrote = [e \in End |-> 0]
  /\ buffer = [e \in End |-> Null]
  /\ attached = [e \in End |-> TRUE]
  /\ isConn = [e \in End |-> TRUE]
  /\ down = [e \in End |-> FALSE]
  /\ pc = [t \in Thread |-> "idle"]
  /\ hand = [t \in Thread |-> Null]
  /\ last = [e \in End |-> Null]

-----------------------------------------------------------------------------
At(t, label) == pc[t] = label /\ ~ down[EndOf[t]]

Goto(t, label) == pc' = [pc EXCEPT ![t] = label]

\* semTryP() looks at the value only; it is 0 while a client is connected.
Probe(e) == isConn' = [isConn EXCEPT ![e] = (available = 0)]

\* Access to a mapping that closeStream() has removed ends the process.
Fault(e) == ~ attached[e] /\ down' = [down EXCEPT ![e] = TRUE]

(***************************************************************************)
(* operator<<                                                              *)
(***************************************************************************)
StartSend(t) ==
  /\ At(t, "idle")
  /\ \E m \in Msg : hand' = [hand EXCEPT ![t] = m]
  /\ Probe(EndOf[t])
  /\ Goto(t, "claim")
  /\ UNCHANGED <<semaphores, attached, down, buffer, last>>

\* Written without waiting for the other end to have read.
ClaimUnwaited(t) ==
  /\ At(t, "claim")
  /\ Goto(t, "write")
  /\ UNCHANGED <<semaphores, objects, buffer, hand, last>>

Claim(t) ==
  /\ At(t, "claim")
  /\ free[EndOf[t]] > 0
  /\ free' = [free EXCEPT ![EndOf[t]] = @ - 1]
  /\ Goto(t, "write")
  /\ UNCHANGED <<available, wrote, objects, buffer, hand, last>>

Write(t) ==
  /\ At(t, "write")
  /\ \/ /\ attached[EndOf[t]]
        /\ buffer' = [buffer EXCEPT ![EndOf[t]] = hand[t]]
        /\ Goto(t, "post")
        /\ UNCHANGED down
     \/ Fault(EndOf[t]) /\ UNCHANGED <<buffer, pc>>
  /\ UNCHANGED <<semaphores, attached, isConn, hand, last>>

Post(t) ==
  /\ At(t, "post")
  /\ wrote' = [wrote EXCEPT ![EndOf[t]] = @ + 1]
  /\ hand' = [hand EXCEPT ![t] = Null]
  /\ Goto(t, "idle")
  /\ UNCHANGED <<available, free, objects, buffer, last>>

(***************************************************************************)
(* operator>>                                                              *)
(***************************************************************************)
StartReceive(t) ==
  /\ At(t, "idle")
  /\ Probe(EndOf[t])
  /\ Goto(t, "await")
  /\ UNCHANGED <<semaphores, attached, down, buffer, hand, last>>

Await(t) ==
  LET from == Other(EndOf[t]) IN
  /\ At(t, "await")
  /\ wrote[from] > 0
  /\ wrote' = [wrote EXCEPT ![from] = @ - 1]
  /\ Goto(t, "copy")
  /\ UNCHANGED <<available, free, objects, buffer, hand, last>>

Copy(t) ==
  /\ At(t, "copy")
  /\ \/ /\ attached[EndOf[t]]
        /\ last' = [last EXCEPT ![EndOf[t]] = buffer[Other(EndOf[t])]]
        /\ Goto(t, "release")
        /\ UNCHANGED down
     \/ Fault(EndOf[t]) /\ UNCHANGED <<last, pc>>
  /\ UNCHANGED <<semaphores, attached, isConn, buffer, hand>>

\* The wrong semaphore of the two: the writer is never let on.
ReleaseOwn(t) ==
  /\ At(t, "release")
  /\ free' = [free EXCEPT ![EndOf[t]] = @ + 1]
  /\ Goto(t, "idle")
  /\ UNCHANGED <<available, wrote, objects, buffer, hand, last>>

Release(t) ==
  /\ At(t, "release")
  /\ free' = [free EXCEPT ![Other(EndOf[t])] = @ + 1]
  /\ Goto(t, "idle")
  /\ UNCHANGED <<available, wrote, objects, buffer, hand, last>>

(***************************************************************************)
(* closeStream(), after which a listener ends.  It is called more than     *)
(* once: on the client's own SC_PLAYER_DISCONNECT, after the loop of       *)
(* listenServer and by the destructor.  The other threads of its end may   *)
(* still be at work on the stream.                                         *)
(***************************************************************************)
Close(t) ==
  LET e == EndOf[t] IN
  /\ At(t, "idle") \/ At(t, "ended")
  /\ \/ /\ isConn[e]
        /\ attached' = [attached EXCEPT ![e] = FALSE]
        /\ available' = IF e = "client" THEN available + 1 ELSE available
     \/ ~ isConn[e] /\ UNCHANGED <<attached, available>>
  /\ isConn' = [isConn EXCEPT ![e] = FALSE]
  /\ Goto(t, "ended")
  /\ UNCHANGED <<free, wrote, down, buffer, hand, last>>

Sending(t) == Claim(t) \/ Write(t) \/ Post(t)

Receiving(t) == Await(t) \/ Copy(t) \/ Release(t)

Next ==
  \/ \E t \in Writer : StartSend(t) \/ Sending(t)
  \/ \E t \in Reader : StartReceive(t) \/ Receiving(t) \/ Close(t)

Spec == Init /\ [][Next]_vars

(***************************************************************************)
(* The kernel serves the threads that wait for a semaphore in order of     *)
(* arrival; a listener comes back to its >> (listenClient, listenServer).  *)
(***************************************************************************)
Fairness ==
  /\ \A t \in Writer : SF_vars(Claim(t)) /\ WF_vars(Write(t) \/ Post(t))
  /\ \A t \in Reader : SF_vars(StartReceive(t)) /\ SF_vars(Await(t))
                       /\ WF_vars(Copy(t) \/ Release(t))

FairSpec == Spec /\ Fairness

-----------------------------------------------------------------------------
TypeOK ==
  /\ available \in Nat
  /\ free \in [End -> Nat]
  /\ wrote \in [End -> Nat]
  /\ buffer \in [End -> Msg \cup {Null}]
  /\ attached \in [End -> BOOLEAN]
  /\ isConn \in [End -> BOOLEAN]
  /\ down \in [End -> BOOLEAN]
  /\ pc \in [Thread -> {"idle", "claim", "write", "post", "await", "copy", "release", "ended"}]
  /\ hand \in [Thread -> Msg \cup {Null}]
  /\ last \in [End -> Msg \cup {Null}]

(***************************************************************************)
(* However often the client closes its end, and whatever its threads make  *)
(* of is_connected meanwhile (every << and >> overwrites it), the server   *)
(* is offered to the next client once, and not before this one has let go  *)
(* of the shared memory.                                                   *)
(***************************************************************************)
OfferedOnce ==
  /\ available <= 1
  /\ available = 1 => ~ attached["client"]

(***************************************************************************)
(* A message is under way from the moment it is in the buffer until it is  *)
(* copied out of it.                                                       *)
(***************************************************************************)
UnderWay(e) ==
  \/ wrote[e] > 0
  \/ \E t \in Thread : EndOf[t] = e /\ pc[t] = "post"
  \/ \E t \in Thread : EndOf[t] = Other(e) /\ pc[t] = "copy"

Slot(e) == IF UnderWay(e) THEN buffer[e] ELSE Null

ToClient == INSTANCE Channel WITH slot <- Slot("server"), got <- last["client"]
ToServer == INSTANCE Channel WITH slot <- Slot("client"), got <- last["server"]

(***************************************************************************)
(* Each direction of the stream is a channel, however many threads write   *)
(* and read at either end and whatever happens to the mapping: no message  *)
(* is overwritten before it is read, read twice, or passed over.           *)
(***************************************************************************)
ToClientIsChannel == ToClient!ChannelSpec
ToServerIsChannel == ToServer!ChannelSpec

BothAreChannels == ToClientIsChannel /\ ToServerIsChannel

(***************************************************************************)
(* A send blocks no longer than the two listeners live: whoever waits in   *)
(* semP for the other end to read gets on, also when several threads       *)
(* broadcast at once and both ends send to each other, until one end       *)
(* closes or dies.  It takes a client whose listener never sends.          *)
(***************************************************************************)
Open == \A e \in End : attached[e] /\ isConn[e] /\ ~ down[e]

SendsComplete ==
  \A t \in Writer : pc[t] = "claim" ~> (pc[t] # "claim" \/ ~ Open)
=============================================================================
