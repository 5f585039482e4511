--------------------------- MODULE MC_ObserverRun ---------------------------
(* One handle of either protocol beside the other executions of the host.  *)
EXTENDS ObserverRun
=============================================================================
