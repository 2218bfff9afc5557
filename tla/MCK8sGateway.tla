---------------------------- MODULE MCK8sGateway ----------------------------
(* K8sGateway for TLC: three URLs, places for two of them.  URLs and slots   *)
(* are interchangeable, and no liveness is checked.                          *)
EXTENDS K8sGateway, TLC

Symmetry == Permutations(Requests) \cup Permutations(Urls)
=============================================================================
