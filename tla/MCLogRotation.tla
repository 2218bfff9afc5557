--------------------------- MODULE MCLogRotation ---------------------------
(* LogRotation for TLC: records shorter than the limit, as long as it, and   *)
(* longer.                                                                   *)
EXTENDS LogRotation
=============================================================================
