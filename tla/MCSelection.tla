---------------------------- MODULE MCSelection ----------------------------
(* Selection for TLC: three workers with up to three requests each.          *)
EXTENDS Selection
=============================================================================
