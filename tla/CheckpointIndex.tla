--------------------------- MODULE CheckpointIndex ---------------------------
(***************************************************************************)
(* workspace/checkpoint_index.py: the checkpoint DAG of one Session, as    *)
(* operators on index values.  An index is kept by columns: `known` is the *)
(* set of indexed ids, `pinned` and `missing` the ids carrying that flag,  *)
(* `parent` and `children` the links (None and {} for an unknown id).      *)
(* child_ids is a set because no operation depends on its order; messages, *)
(* timestamps, origins and metadata are left out.                          *)
(***************************************************************************)
EXTENDS Naturals, FiniteSets

CONSTANTS
  Ids,      \* checkpoint ids
  Live,     \* LIVE_CHILD, the mark of the working copy below the head
  None

ASSUME LiveAssumption == Live \notin Ids
ASSUME NoneAssumption == None \notin Ids

IdOrNone == Ids \cup {None}

Index == [head : IdOrNone, known : SUBSET Ids, pinned : SUBSET Ids,
          missing : SUBSET Ids, parent : [Ids -> IdOrNone],
          children : [Ids -> SUBSET (Ids \cup {Live})]]

EmptyIndex ==
  [head |-> None, known |-> {}, pinned |-> {}, missing |-> {},
   parent |-> [c \in Ids |-> None], children |-> [c \in Ids |-> {}]]

-----------------------------------------------------------------------------
(* Operations.  add requires c \notin ix.known, move_head requires         *)
(* c \in ix.known; the code raises CheckpointIndexError otherwise.         *)

add(ix, c, pin) ==
  [ix EXCEPT
     !.head = c,
     !.known = @ \cup {c},
     !.pinned = IF pin THEN @ \cup {c} ELSE @,
     !.parent[c] = ix.head,
     !.children = [d \in Ids |->
        CASE d = c -> {Live}
          [] d = ix.head /\ d # c -> (@[d] \ {Live}) \cup {c}
          [] OTHER -> @[d]]]

\* Faulty variant: rebuilds the entries from the directory, all unpinned.
Bug_ReconcileRebuilds(ix, actual) ==
  [ix EXCEPT
     !.known = @ \cup actual,
     !.missing = (ix.known \cup actual) \ actual,
     !.pinned = {},
     !.head = IF @ \in actual THEN @ ELSE None]

\* Adopts unindexed snapshots as unpinned roots, flags entries without a
\* snapshot, and drops a head without a snapshot.
reconcile(ix, actual) ==
  [ix EXCEPT
     !.known = @ \cup actual,
     !.missing = (ix.known \cup actual) \ actual,
     !.head = IF @ \in actual THEN @ ELSE None]

move_head(ix, c) ==
  [ix EXCEPT
     !.head = c,
     !.children = [d \in Ids |->
        CASE d = c -> @[d] \cup {Live}
          [] d = ix.head /\ d # c -> @[d] \ {Live}
          [] OTHER -> @[d]]]

\* Leaves the children of the removed entry pointing at it.
Bug_RemoveOrphansChildren(ix, c) ==
  LET up == ix.parent[c]
      head == IF ix.head = c THEN up ELSE ix.head
  IN  [head |-> head,
       known |-> ix.known \ {c},
       pinned |-> ix.pinned \ {c},
       missing |-> ix.missing \ {c},
       parent |-> [ix.parent EXCEPT ![c] = None],
       children |-> [d \in Ids |->
          IF d = c THEN {}
          ELSE (IF d = up THEN ix.children[d] \ {c} ELSE ix.children[d])
                 \cup (IF d = head THEN {Live} ELSE {})]]

remove(ix, c) ==
  LET up == ix.parent[c]
      kids == ix.children[c] \ {Live}
      head == IF ix.head = c THEN up ELSE ix.head
  IN  [head |-> head,
       known |-> ix.known \ {c},
       pinned |-> ix.pinned \ {c},
       missing |-> ix.missing \ {c},
       parent |-> [d \in Ids |-> IF d = c THEN None
                                 ELSE IF d \in kids THEN up
                                 ELSE ix.parent[d]],
       children |-> [d \in Ids |->
          IF d = c THEN {}
          ELSE (IF d = up THEN (ix.children[d] \ {c}) \cup kids ELSE ix.children[d])
                 \cup (IF d = head THEN {Live} ELSE {})]]

\* resolve(num_ancestors=n): the head is ancestor 1; None where the lineage
\* ends early.  The result may be an entry whose snapshot is missing.
resolve_ancestor(ix, n) ==
  LET up[k \in 1..n] ==
        IF k = 1 THEN ix.head
        ELSE IF up[k - 1] = None THEN None
        ELSE ix.parent[up[k - 1]]
  IN  up[n]

\* resolve(checkpoint_id=name): an exact hit, else the ids that start with
\* the name, `matches`; the call succeeds when exactly one id is left.
resolve(ix, name, matches) ==
  LET present == ix.known \ ix.missing
  IN  IF name \in present THEN {name} ELSE matches \cap present

-----------------------------------------------------------------------------
(* Well-formedness *)

\* child_ids and parent_id describe the same edges between indexed entries.
LinksAgree(ix) ==
  /\ \A a, b \in Ids : b \in ix.children[a] <=> b \in ix.known /\ ix.parent[b] = a
  /\ \A c \in Ids : ix.parent[c] # None => ix.parent[c] \in ix.known

\* The lineage has no cycle: every nonempty set of entries has a member whose
\* parent lies outside it.
Acyclic(ix) ==
  \A S \in SUBSET ix.known : S # {} => \E c \in S : ix.parent[c] \notin S
\* What every index the store keeps satisfies: the links agree and form a
\* forest, the head is an entry, and an id that is no entry has no parent.
Sound(ix) ==
  /\ ix \in Index
  /\ LinksAgree(ix)
  /\ Acyclic(ix)
  /\ ix.head \in ix.known \cup {None}
  /\ \A c \in Ids \ ix.known : ix.parent[c] = None
=============================================================================
