------------------------- MODULE MC_WorkspaceStore -------------------------
(* One Session with two checkpoint ids, the first a prefix of the second    *)
(* ("cp", "cp-2"), and a prefix of both that is no id.                      *)
EXTENDS WorkspaceStore, TLC

CONSTANTS c1, c2, prefix, d0, d1, r1, reader1

MCMatches == [n \in {c1, c2, prefix} |-> IF n = c2 THEN {c2} ELSE {c1, c2}]

\* No id is a prefix of another: the ids are interchangeable.
MCExact == [c \in Ids |-> {c}]
IdSymmetry == Permutations(Ids)
=============================================================================
