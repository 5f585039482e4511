-------------------------- MODULE MC_TurnLifecycle --------------------------
(* Two turn ids, one message and two threads that may roll back.            *)
EXTENDS TurnLifecycle

CONSTANTS t1, t2, m1, caller1, caller2
=============================================================================
