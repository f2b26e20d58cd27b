------------------------------ MODULE Channel ------------------------------
(***************************************************************************)
(* One direction of a stream, as its users see it: at most one message is  *)
(* under way, every message is received once, and in the order of sending. *)
(***************************************************************************)
CONSTANTS Msg, Null

VARIABLES
  slot,  \* the message under way, or Null
  got    \* the last message received, or Null

channelVars == <<slot, got>>

ChannelInit == slot = Null /\ got = Null

Send == slot = Null /\ slot' \in Msg /\ UNCHANGED got

Receive == slot # Null /\ got' = slot /\ slot' = Null

ChannelSpec == ChannelInit /\ [][Send \/ Receive]_channelVars
=============================================================================
