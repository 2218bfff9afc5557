------------------------ MODULE MCServiceDiscovery ------------------------
(* ServiceDiscovery for TLC: a pod, its restart at the same address (a host-  *)
(* network or StatefulSet pod), and a pod of another name.                   *)
EXTENDS ServiceDiscovery

CONSTANTS a1, a2, b1

\* a1 and a2 are successive pods of one name; b1 is another pod.
NameOf == [p \in Pods |-> IF p = b1 THEN "b" ELSE "a"]

OneNamespace == [p \in Pods |-> "default"]
OnePool      == [p \in Pods |-> "regular"]

\* The restarted pod keeps the address.
SameIp == [p \in Pods |-> IF p = b1 THEN "ip2" ELSE "ip1"]

=============================================================================
