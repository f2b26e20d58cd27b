--------------------------- MODULE MCLocalStream ---------------------------
(***************************************************************************)
(* A small instance of LocalStream: the croupier and the listener at the   *)
(* server, the keyboard and the listener at the client.                    *)
(***************************************************************************)
EXTENDS LocalStream

CONSTANTS croupier, listenClient, handleKeyboard, listenServer

AllThreads == {croupier, listenClient, handleKeyboard, listenServer}
Senders == {croupier, listenClient, handleKeyboard}
Listeners == {listenClient, listenServer}
EndOfThread ==
  [t \in AllThreads |-> IF t \in {croupier, listenClient} THEN "server" ELSE "client"]
=============================================================================
