---------------------------- MODULE CasinoMirror ---------------------------
(***************************************************************************)
(* The tables of the clients: each has a player table and a board of its   *)
(* own, and fills them with what the server tells it.  A listener enters a *)
(* newcomer in several sends, while the other listeners and the croupier   *)
(* go on broadcasting; what comes before the confirmation is dropped (the  *)
(* first loop of listenServer).                                            *)
(*                                                                         *)
(* A client reads its stream in order and its tables depend on nothing     *)
(* else: they are shown as they are when it has read all that was sent.    *)
(* One that looks up a missing player dies; here it goes on.               *)
(***************************************************************************)
EXTENDS Casino

VARIABLES
  known,  \* client -> the ids in its player table
  drawn,  \* client -> its board
  even    \* history: the clients whose board was opened as the server's was

mirrorVars == <<vars, known, drawn, even>>

-----------------------------------------------------------------------------
\* In the second loop of listenServer.
Listening ==
  {p \in Player : /\ lpc[p] \in (ServePC \ {"confirmJoin"}) \cup {"depart"}
                  /\ peer[p] \in OpenPeer
                  /\ p \notin dismissed}

\* The listeners whose step this is, out of the place given.
From(place) == {q \in Player : lpc[q] = place /\ lpc'[q] # place}

Opens == cpc = "start" /\ cpc' = "betting"

\* The farewell of a player not heeded.
KnowsStill(p) ==
  known[p] \cup From("tellNew") \cup (IF p \in From("roll") THEN roster[p] ELSE {})

\* The list put in the place of the table instead of added to it.
KnowsListed(p) ==
  (IF p \in From("roll") THEN roster[p] ELSE known[p] \cup From("tellNew")) \ From("depart")

\* SC_PLAYERS_INFORMATION, of a newcomer or of those in the list, and
\* SC_PLAYER_DISCONNECT.
Knows(p) ==
  (known[p] \cup From("tellNew") \cup (IF p \in From("roll") THEN roster[p] ELSE {}))
    \ From("depart")

\* SC_PLAYER_BET, on a board without limit.
BetDrawn(p) ==
  IF \E q \in From("tellBet") : Accepts(drawn[p], 0, msg[q].box, q, msg[q].amount)
  THEN LET q == CHOOSE q \in From("tellBet") : TRUE
       IN  Placed(drawn[p], msg[q].box, q, msg[q].amount)
  ELSE drawn[p]

\* The cleanBets of APUESTAS_COMENZAR.
Draws(p) == IF Opens THEN EmptyBoard ELSE BetDrawn(p)

\* The players a client looks up for a broadcast: all with a bet on the box it
\* draws, the one whose funds are told, itself when betting opens.
Mentioned(p) ==
  (UNION {Bettors(Draws(p), msg[q].box) : q \in From("tellBet")})
    \cup From("tellFunds")
    \cup (IF cpc = "tellPaid" /\ cpc' = "pay"
          THEN {s.player : s \in recollected \ recollected'} ELSE {})
    \cup (IF Opens THEN {p} ELSE {})

\* A bet on the server's board that is not told yet.
Untold == {q \in Player : lpc[q] \in {"confirm", "bill", "billWrite", "tellBet"}}

MirrorInit ==
  /\ known = [p \in Player |-> {}]
  /\ drawn = [p \in Player |-> EmptyBoard]
  /\ even = {}

MirrorStep ==
  /\ known' = [p \in Player |-> IF p \in Listening' THEN Knows(p) ELSE {}]
  /\ drawn' = [p \in Player |-> IF p \in Listening' THEN Draws(p) ELSE EmptyBoard]
  /\ even' = CASE Opens /\ bets = EmptyBoard /\ Untold = {} -> Listening
               [] ~ Opens /\ cpc' \in {"betting", "spin"} -> even \cap Listening'
               [] OTHER -> {}

MirrorSpec == Init /\ MirrorInit /\ [][Next /\ MirrorStep]_mirrorVars

-----------------------------------------------------------------------------
Entering == {"sendId", "tellNew", "list", "roll"}

\* Registered, and the others not told.
Unannounced == {"confirmJoin", "sendId", "tellNew"}

(***************************************************************************)
(* A client that has been entered knows all who have been announced: whom  *)
(* its list does not hold has been announced to it since, although what    *)
(* was announced before its confirmation is lost on it.                    *)
(***************************************************************************)
EnteredKnowsAll ==
  \A p \in Listening, q \in Player :
    /\ lpc[p] \notin Entering
    /\ players[q] # Null /\ lpc[q] \notin Unannounced \cup {"delete"}
    => q \in known[p]

Overfull(b) == Cardinality(Bettors(bets, b)) > MaxBets[b]

(***************************************************************************)
(* While bets are taken, a client's board shows the server's, but for bets *)
(* that are just being told: if the server's was empty when betting opened *)
(* and no bet of the last round was still to be told.  Two listeners can   *)
(* both take the last place of a box of the server's board; the clients,   *)
(* told one after the other, have no room for the second: all of what is   *)
(* his on that box they do not show, and of no one else's anything amiss.  *)
(***************************************************************************)
BoardShown ==
  \A p \in even, b \in Box, q \in Player \ Untold :
    cpc \in {"betting", "spin"} =>
      \/ Stake(drawn[p], b, q) = Stake(bets, b, q)
      \/ Overfull(b) /\ ~ HasBet(drawn[p], b, q)

\* In a client's table though he has said farewell.
Ghosts ==
  {pq \in Player \X Player :
     pq[2] \in known[pq[1]] /\ (players[pq[2]] = Null \/ lpc[pq[2]] = "delete")}

(***************************************************************************)
(* A player who has left stays in a client's table only if that client was *)
(* sent its list between his farewell and his deletion.                    *)
(***************************************************************************)
GhostsAreListed ==
  [][Ghosts' \subseteq Ghosts \cup {pq \in Player \X Player :
       pq[1] \in From("roll") /\ pq[2] \in roster[pq[1]] /\ lpc[pq[2]] = "delete"}]_mirrorVars

(***************************************************************************)
(* A client looks up a missing player (a null dereference) only while it   *)
(* is being entered, to draw the bet of one who has left, or for the funds *)
(* of one who is paid between his farewell and his deletion, or who has    *)
(* got the id of one who left a bet and is paid it before he is announced. *)
(***************************************************************************)
LooksUpKnown ==
  [][\A p \in Listening :
       \/ lpc[p] \in Entering
       \/ Mentioned(p) \subseteq
            known[p] \cup {q \in Player : lpc[q] \in Unannounced \cup {"delete"}}
                     \cup {q \in Player : \E b \in Box : HasBet(drawn[p], b, q)}]_mirrorVars
=============================================================================
