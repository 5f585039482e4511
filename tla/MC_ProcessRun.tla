---------------------------- MODULE MC_ProcessRun ----------------------------
(* Two runs of one Session.                                                 *)
EXTENDS ProcessRun, TLC

CONSTANTS run1, run2

Symmetry == Permutations(Runs)
=============================================================================
