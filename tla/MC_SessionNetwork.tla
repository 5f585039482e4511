-------------------------- MODULE MC_SessionNetwork --------------------------
(* Two Sessions that share sessions.json and the manager's lock, two handler *)
(* threads, two runs and two namespaces.                                     *)
EXTENDS SessionNetwork, TLC

CONSTANTS s1, s2, h1, h2, t1, t2, a1, a2

Symmetry == Permutations(Sessions) \cup Permutations(Handlers) \cup Permutations(Tokens)
            \cup Permutations(Attempts)
=============================================================================
