------------------------------ MODULE MCCasino -----------------------------
(***************************************************************************)
(* Small instances of Casino: one or two boxes of the real board and the   *)
(* pockets that tell them apart.                                           *)
(***************************************************************************)
EXTENDS Casino

Layout == INSTANCE BoardLayout

\* The pleno on 1 and Rojo: pocket 1 wins on both, 3 on Rojo only.
RealBox == <<1, 112>>
Pockets == {1, 3}
RealCovers == [b \in Box |-> {n \in Pockets : Layout!BoxHasNumber(RealBox[b + 1], n)}]
RealRates == [b \in Box |-> Layout!PayRateOf(RealBox[b + 1])]

\* Room scaled down with the number of players.
RoomForAll == [b \in Box |-> Cardinality(Player)]
RoomForOne == [b \in Box |-> 1]

OnePlayer == {1}
TwoPlayers == {1, 2}
ThreePlayers == {1, 2, 3}
=============================================================================
