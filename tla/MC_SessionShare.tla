--------------------------- MODULE MC_SessionShare ---------------------------
(* Two Sessions that share with each other or with themselves, two threads:  *)
(* one accesses a file while the other rolls the Session back.               *)
EXTENDS SessionShare, TLC

CONSTANTS s1, s2, h1, h2, t1, x1, w1

Symmetry == Permutations(Sessions) \cup Permutations(Handlers)
=============================================================================
