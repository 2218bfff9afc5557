----------------------------- MODULE MCGateway -----------------------------
(* Gateway for TLC.  Slots are interchangeable, so they may be permuted in  *)
(* runs that check no liveness.                                             *)
EXTENDS Gateway, TLC

Symmetry == Permutations(Requests)
=============================================================================
