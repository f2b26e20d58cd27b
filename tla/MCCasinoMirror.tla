--------------------------- MODULE MCCasinoMirror --------------------------
(* The instances of MCCasino, with the tables of the clients. *)
EXTENDS MCCasino, CasinoMirror

\* A lost bet tells the clients nothing: one pocket, on which every box wins.
WinningPocket == {1}
WinningCovers == [b \in Box |-> WinningPocket]
=============================================================================
