--------------------------- MODULE MCCasinoAudit ---------------------------
(* The instances of MCCasino, with the sheet of the round. *)
EXTENDS MCCasino, CasinoAudit
=============================================================================
