--------------------------- MODULE MC_AgentMonitor ---------------------------
(* Two runs one after the other, an orchestrator that reports event by event *)
(* and sandboxed Tracers that report in batches of two; two SDK spans and    *)
(* room for three rows, so that the limit is met.                            *)
EXTENDS AgentMonitor, TLC

CONSTANTS r1, r2, sp1, sp2, q1, q2

Sizes == [t \in Tracers |-> IF t = Orchestrator THEN 1 ELSE 2]
Symmetry == Permutations(Runs) \cup Permutations(Spans) \cup Permutations(Requests)
=============================================================================
