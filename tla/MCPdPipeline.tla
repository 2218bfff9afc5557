---------------------------- MODULE MCPdPipeline ----------------------------
(* PdPipeline for TLC: two prefill workers and one decode worker.            *)
EXTENDS PdPipeline

TwoPrefill == [p \in Pools |-> IF p = "prefill" THEN 2 ELSE 1]
=============================================================================
