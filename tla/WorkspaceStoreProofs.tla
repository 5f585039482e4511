------------------------- MODULE WorkspaceStoreProofs -------------------------
(***************************************************************************)
(* The workspace store of one Session, for any number of checkpoints,      *)
(* recoveries, faults and unlocked readers.                                *)
(***************************************************************************)
EXTENDS WorkspaceStore, FiniteSetTheorems, TLAPS

-----------------------------------------------------------------------------
(* The operations on the checkpoint index keep it sound *)

LEMMA EmptyIsSound == Sound(EmptyIndex)
  <1>1. EmptyIndex \in Index
    BY DEF EmptyIndex, Index, IdOrNone
  <1> QED
    BY <1>1, NoneAssumption DEF EmptyIndex, Sound, LinksAgree, Acyclic

\* reconcile adopts roots and keeps every entry, pin and link.
LEMMA ReconcileFields ==
  ASSUME NEW ix \in Index, NEW actual \in SUBSET Ids, NEW new, new = reconcile(ix, actual)
  PROVE  /\ new \in Index
         /\ new.known = ix.known \cup actual /\ new.pinned = ix.pinned
         /\ new.missing = (ix.known \cup actual) \ actual
         /\ new.parent = ix.parent /\ new.children = ix.children
         /\ new.head = IF ix.head \in actual THEN ix.head ELSE None
  BY DEF reconcile, Index, IdOrNone

LEMMA ReconcileIsSound ==
  ASSUME NEW ix, Sound(ix), NEW actual \in SUBSET Ids
  PROVE  Sound(reconcile(ix, actual))
  <1> DEFINE new == reconcile(ix, actual)
  <1>1. /\ new \in Index
        /\ new.known = ix.known \cup actual
        /\ new.parent = ix.parent /\ new.children = ix.children
        /\ new.head \in new.known \cup {None}
    BY ReconcileFields DEF Sound
  <1> HIDE DEF new
  <1>2. /\ ix.parent \in [Ids -> IdOrNone] /\ ix.known \subseteq Ids
        /\ \A c \in Ids \ ix.known : ix.parent[c] = None
    BY DEF Sound, Index
  <1>3. LinksAgree(new)
    BY <1>1, <1>2, NoneAssumption DEF LinksAgree, Sound
  <1>4. Acyclic(new)
    <2>1. ASSUME NEW S \in SUBSET new.known, S # {} PROVE \E c \in S : new.parent[c] \notin S
      <3>1. CASE S \subseteq ix.known
        BY <1>1, <2>1, <3>1 DEF Sound, Acyclic
      <3>2. CASE ~(S \subseteq ix.known)
        BY <1>1, <1>2, <2>1, <3>2, NoneAssumption
      <3> QED
        BY <3>1, <3>2
    <2> QED
      BY <2>1 DEF Acyclic
  <1>5. \A c \in Ids \ new.known : new.parent[c] = None
    BY <1>1, <1>2
  <1>6. Sound(new)
    BY <1>1, <1>3, <1>4, <1>5 DEF Sound
  <1> QED
    BY <1>6 DEF new

\* add puts a new entry below the head.
LEMMA AddIsSound ==
  ASSUME NEW ix, Sound(ix), NEW c \in Ids \ ix.known, NEW pin
  PROVE  /\ Sound(add(ix, c, pin))
         /\ add(ix, c, pin).known = ix.known \cup {c}
         /\ ix.pinned \subseteq add(ix, c, pin).pinned
         /\ pin = TRUE => c \in add(ix, c, pin).pinned
  <1> SUFFICES ASSUME NEW new, new = add(ix, c, pin)
               PROVE  /\ Sound(new)
                      /\ new.known = ix.known \cup {c}
                      /\ ix.pinned \subseteq new.pinned
                      /\ pin = TRUE => c \in new.pinned
    OBVIOUS
  <1> DEFINE children == [d \in Ids |->
               CASE d = c -> {Live}
                 [] d = ix.head /\ d # c -> (ix.children[d] \ {Live}) \cup {c}
                 [] OTHER -> ix.children[d]]
  <1>0. ix \in Index
    BY DEF Sound
  <1>1. /\ new \in Index
        /\ new.head = c /\ new.known = ix.known \cup {c}
        /\ new.pinned = IF pin THEN ix.pinned \cup {c} ELSE ix.pinned
        /\ new.parent = [ix.parent EXCEPT ![c] = ix.head]
        /\ new.children[c] = {Live}
        /\ \A d \in Ids \ {c} : new.children[d] =
             IF d = ix.head THEN (ix.children[d] \ {Live}) \cup {c} ELSE ix.children[d]
    <2>1. /\ children \in [Ids -> SUBSET (Ids \cup {Live})]
          /\ children[c] = {Live}
          /\ \A d \in Ids \ {c} : children[d] =
               IF d = ix.head THEN (ix.children[d] \ {Live}) \cup {c} ELSE ix.children[d]
      BY <1>0 DEF Index
    <2>2. [ix.parent EXCEPT ![c] = ix.head] \in [Ids -> IdOrNone]
      BY <1>0 DEF Index
    <2>3. new = [head |-> c, known |-> ix.known \cup {c},
                 pinned |-> IF pin THEN ix.pinned \cup {c} ELSE ix.pinned,
                 missing |-> ix.missing, parent |-> [ix.parent EXCEPT ![c] = ix.head],
                 children |-> children]
      BY <1>0 DEF add, Index
    <2> HIDE DEF children
    <2>4. new \in Index
      BY <1>0, <2>1, <2>2, <2>3 DEF Index, IdOrNone
    <2> QED
      BY <2>1, <2>3, <2>4
  <1>2. /\ ix.parent \in [Ids -> IdOrNone] /\ ix.known \subseteq Ids
        /\ ix.head \in ix.known \cup {None}
        /\ \A d \in Ids \ ix.known : ix.parent[d] = None
        /\ \A d \in Ids : ix.parent[d] # None => ix.parent[d] \in ix.known
        /\ \A a, b \in Ids : b \in ix.children[a] <=> b \in ix.known /\ ix.parent[b] = a
    BY DEF Sound, Index, LinksAgree
  <1>3. /\ new.parent[c] = ix.head
        /\ \A d \in Ids \ {c} : new.parent[d] = ix.parent[d] /\ ix.parent[d] # c
    BY <1>1, <1>2, NoneAssumption
  <1>4. LinksAgree(new)
    <2>1. ASSUME NEW a \in Ids, NEW b \in Ids
          PROVE  b \in new.children[a] <=> b \in new.known /\ new.parent[b] = a
      <3>1. CASE a = c
        BY <1>1, <1>2, <1>3, <3>1, LiveAssumption, NoneAssumption
      <3>2. CASE a # c /\ a = ix.head
        <4>1. b \in new.children[a] <=> b \in ix.children[a] \/ b = c
          <5>1. new.children[a] = (ix.children[a] \ {Live}) \cup {c}
            BY <1>1, <3>2
          <5> QED
            BY <5>1, LiveAssumption
        <4>3. CASE b = c
          BY <4>1, <4>3, <1>1, <1>3, <3>2
        <4>4. CASE b # c
          BY <4>1, <4>4, <1>1, <1>2, <1>3
        <4> QED
          BY <4>3, <4>4
      <3>3. CASE a # c /\ a # ix.head
        <4>1. b \in new.children[a] <=> b \in ix.children[a]
          BY <1>1, <3>3
        <4>2. CASE b = c
          BY <4>1, <4>2, <1>1, <1>2, <1>3, <3>3
        <4>3. CASE b # c
          BY <4>1, <4>3, <1>1, <1>2, <1>3
        <4> QED
          BY <4>2, <4>3
      <3> QED
        BY <3>1, <3>2, <3>3
    <2>2. \A d \in Ids : new.parent[d] # None => new.parent[d] \in new.known
      BY <1>1, <1>2, <1>3
    <2> QED
      BY <2>1, <2>2 DEF LinksAgree
  <1>5. Acyclic(new)
    <2>1. ASSUME NEW S \in SUBSET new.known, S # {} PROVE \E d \in S : new.parent[d] \notin S
      <3>1. CASE S = {c}
        BY <1>2, <1>3, <3>1, NoneAssumption
      <3>2. CASE S # {c}
        <4>1. S \ {c} \in SUBSET ix.known /\ S \ {c} # {}
          BY <1>1, <2>1, <3>2
        <4>2. PICK d \in S \ {c} : ix.parent[d] \notin S \ {c}
          BY <4>1 DEF Sound, Acyclic
        <4> QED
          BY <1>2, <1>3, <4>1, <4>2
      <3> QED
        BY <3>1, <3>2
    <2> QED
      BY <2>1 DEF Acyclic
  <1>6. \A d \in Ids \ new.known : new.parent[d] = None
    BY <1>1, <1>2, <1>3
  <1>7. Sound(new)
    BY <1>1, <1>4, <1>5, <1>6 DEF Sound
  <1> QED
    BY <1>1, <1>7

\* move_head changes the head and the mark of the working copy only.
LEMMA MoveHeadFields ==
  ASSUME NEW ix \in Index, NEW c \in Ids, NEW new, new = move_head(ix, c)
  PROVE  /\ new \in Index
         /\ new.head = c /\ new.known = ix.known /\ new.pinned = ix.pinned
         /\ new.parent = ix.parent
         /\ \A a \in Ids : new.children[a] \ {Live} = ix.children[a] \ {Live}
  <1> DEFINE children == [d \in Ids |->
               CASE d = c -> ix.children[d] \cup {Live}
                 [] d = ix.head /\ d # c -> ix.children[d] \ {Live}
                 [] OTHER -> ix.children[d]]
  <1>1. /\ children \in [Ids -> SUBSET (Ids \cup {Live})]
        /\ \A a \in Ids : children[a] \ {Live} = ix.children[a] \ {Live}
    BY DEF Index
  <1>2. new = [ix EXCEPT !.head = c, !.children = children]
    BY DEF move_head, Index
  <1> HIDE DEF children
  <1> QED
    BY <1>1, <1>2 DEF Index, IdOrNone

LEMMA MoveHeadIsSound ==
  ASSUME NEW ix, Sound(ix), NEW c \in ix.known
  PROVE  Sound(move_head(ix, c))
  <1> DEFINE new == move_head(ix, c)
  <1>0. ix \in Index /\ c \in Ids
    BY DEF Sound, Index
  <1>1. /\ new \in Index
        /\ new.head = c /\ new.known = ix.known
        /\ new.parent = ix.parent
        /\ \A a \in Ids : new.children[a] \ {Live} = ix.children[a] \ {Live}
    BY <1>0, MoveHeadFields
  <1> HIDE DEF new
  <1>2. LinksAgree(new)
    BY <1>1, LiveAssumption DEF Sound, LinksAgree
  <1>3. Sound(new)
    BY <1>1, <1>2 DEF Sound, Acyclic
  <1> QED
    BY <1>3 DEF new

\* remove links the children of an entry to its parent.
LEMMA RemoveFields ==
  ASSUME NEW ix, Sound(ix), NEW c \in ix.known, NEW new, new = remove(ix, c)
  PROVE  /\ new \in Index
         /\ new.head = IF ix.head = c THEN ix.parent[c] ELSE ix.head
         /\ new.known = ix.known \ {c} /\ new.pinned = ix.pinned \ {c}
         /\ new.parent[c] = None /\ new.children[c] = {}
         /\ \A d \in Ids \ {c} :
              /\ new.parent[d] = IF ix.parent[d] = c THEN ix.parent[c] ELSE ix.parent[d]
              /\ new.children[d] \ {Live} =
                   (IF d = ix.parent[c]
                    THEN (ix.children[d] \ {c}) \cup ix.children[c]
                    ELSE ix.children[d]) \ {Live}
  <1> DEFINE up == ix.parent[c]
             kids == ix.children[c] \ {Live}
             head == IF ix.head = c THEN up ELSE ix.head
             parent == [d \in Ids |-> IF d = c THEN None
                                      ELSE IF d \in kids THEN up
                                      ELSE ix.parent[d]]
             children == [d \in Ids |->
                IF d = c THEN {}
                ELSE (IF d = up THEN (ix.children[d] \ {c}) \cup kids ELSE ix.children[d])
                       \cup (IF d = head THEN {Live} ELSE {})]
  <1>1. /\ ix \in Index /\ c \in Ids /\ LinksAgree(ix)
        /\ ix.parent \in [Ids -> IdOrNone]
        /\ ix.known \subseteq Ids /\ ix.pinned \subseteq Ids /\ ix.missing \subseteq Ids
        /\ ix.head \in IdOrNone
        /\ ix.children \in [Ids -> SUBSET (Ids \cup {Live})]
        /\ \A d \in Ids \ ix.known : ix.parent[d] = None
    BY DEF Sound, Index
  <1>2. /\ up \in IdOrNone /\ head \in IdOrNone
        /\ kids \in SUBSET Ids
        /\ \A d \in Ids : d \in kids <=> ix.parent[d] = c
    BY <1>1, LiveAssumption, NoneAssumption DEF LinksAgree
  <1> HIDE DEF up, kids, head
  <1>3. /\ parent \in [Ids -> IdOrNone]
        /\ parent[c] = None
        /\ \A d \in Ids \ {c} : parent[d] = IF ix.parent[d] = c THEN up ELSE ix.parent[d]
    BY <1>1, <1>2 DEF IdOrNone
  <1>4. /\ children \in [Ids -> SUBSET (Ids \cup {Live})]
        /\ children[c] = {}
        /\ \A d \in Ids \ {c} : children[d] \ {Live} =
             (IF d = up THEN (ix.children[d] \ {c}) \cup ix.children[c]
              ELSE ix.children[d]) \ {Live}
    <2>1. \A d \in Ids : ix.children[d] \subseteq Ids \cup {Live}
      BY <1>1
    <2>2. ASSUME NEW d \in Ids \ {c}
          PROVE  /\ children[d] \subseteq Ids \cup {Live}
                 /\ children[d] \ {Live} =
                     (IF d = up THEN (ix.children[d] \ {c}) \cup ix.children[c]
                      ELSE ix.children[d]) \ {Live}
      <3>1. children[d] = (IF d = up THEN (ix.children[d] \ {c}) \cup kids ELSE ix.children[d])
                            \cup (IF d = head THEN {Live} ELSE {})
        OBVIOUS
      <3> HIDE DEF children
      <3> QED
        BY <2>1, <3>1, <1>2 DEF kids
    <2>3. children[c] = {}
      BY <1>1
    <2> QED
      BY <2>2, <2>3
  <1>5. new = [head |-> head, known |-> ix.known \ {c}, pinned |-> ix.pinned \ {c},
               missing |-> ix.missing \ {c}, parent |-> parent, children |-> children]
    BY DEF remove, up, kids, head
  <1> HIDE DEF parent, children
  <1>6. new \in Index
    <2>1. /\ ix.known \ {c} \in SUBSET Ids /\ ix.pinned \ {c} \in SUBSET Ids
          /\ ix.missing \ {c} \in SUBSET Ids
      BY <1>1
    <2> QED
      BY <2>1, <1>2, <1>3, <1>4, <1>5 DEF Index
  <1>7. /\ new.head = head /\ new.known = ix.known \ {c} /\ new.pinned = ix.pinned \ {c}
        /\ new.parent = parent /\ new.children = children
    BY <1>5
  <1> QED
    BY <1>3, <1>4, <1>6, <1>7 DEF up, head

LEMMA RemoveIsSound ==
  ASSUME NEW ix, Sound(ix), NEW c \in ix.known
  PROVE  Sound(remove(ix, c))
  <1> DEFINE new == remove(ix, c)
             up == ix.parent[c]
  <1>1. /\ new \in Index
        /\ new.head = IF ix.head = c THEN ix.parent[c] ELSE ix.head
        /\ new.known = ix.known \ {c}
        /\ new.parent[c] = None /\ new.children[c] = {}
        /\ \A d \in Ids \ {c} :
             /\ new.parent[d] = IF ix.parent[d] = c THEN ix.parent[c] ELSE ix.parent[d]
             /\ new.children[d] \ {Live} =
                  (IF d = ix.parent[c]
                   THEN (ix.children[d] \ {c}) \cup ix.children[c]
                   ELSE ix.children[d]) \ {Live}
    BY RemoveFields
  <1> HIDE DEF new
  <1>2. /\ ix.parent \in [Ids -> IdOrNone] /\ ix.known \subseteq Ids /\ c \in Ids
        /\ ix.head \in ix.known \cup {None}
        /\ \A d \in Ids \ ix.known : ix.parent[d] = None
        /\ \A d \in Ids : ix.parent[d] # None => ix.parent[d] \in ix.known
        /\ \A a, b \in Ids : b \in ix.children[a] <=> b \in ix.known /\ ix.parent[b] = a
    BY DEF Sound, Index, LinksAgree
  <1>3. up # c /\ up \in (ix.known \ {c}) \cup {None}
    <2>1. {c} \in SUBSET ix.known /\ {c} # {}
      OBVIOUS
    <2>2. PICK d \in {c} : ix.parent[d] \notin {c}
      BY <2>1 DEF Sound, Acyclic
    <2> QED
      BY <2>2, <1>2
  <1>4. LinksAgree(new)
    <2>1. ASSUME NEW a \in Ids, NEW b \in Ids
          PROVE  b \in new.children[a] <=> b \in new.known /\ new.parent[b] = a
      <3>0. b # Live
        BY LiveAssumption
      <3>1. CASE a = c
        BY <1>1, <1>2, <1>3, <3>1
      <3>2. CASE a # c /\ a = up
        <4>1. b \in new.children[a] <=> (b \in ix.children[a] /\ b # c) \/ b \in ix.children[c]
          BY <1>1, <3>0, <3>2
        <4>2. b \in new.children[a] <=> b \in ix.known /\ ((ix.parent[b] = a /\ b # c) \/ ix.parent[b] = c)
          BY <4>1, <1>2
        <4>3. CASE b = c
          BY <4>2, <4>3, <1>1, <1>3
        <4>4. CASE b # c
          BY <4>2, <4>4, <1>1, <1>2, <3>2
        <4> QED
          BY <4>3, <4>4
      <3>3. CASE a # c /\ a # up
        <4>1. b \in new.children[a] <=> b \in ix.known /\ ix.parent[b] = a
          BY <1>1, <1>2, <3>0, <3>3
        <4> QED
          BY <4>1, <1>1, <1>2, <3>3
      <3> QED
        BY <3>1, <3>2, <3>3
    <2>2. \A d \in Ids : new.parent[d] # None => new.parent[d] \in new.known
      BY <1>1, <1>2, <1>3
    <2> QED
      BY <2>1, <2>2 DEF LinksAgree
  <1>5. Acyclic(new)
    <2>1. ASSUME NEW S \in SUBSET new.known, S # {} PROVE \E d \in S : new.parent[d] \notin S
      <3>0. S \subseteq ix.known /\ c \notin S
        BY <1>1
      <3>1. CASE up \in S /\ \E d \in S : ix.parent[d] = c
        <4>1. S \cup {c} \in SUBSET ix.known /\ S \cup {c} # {}
          BY <3>0
        <4>2. PICK d \in S \cup {c} : ix.parent[d] \notin S \cup {c}
          BY <4>1 DEF Sound, Acyclic
        <4>3. d # c
          BY <3>1, <4>2
        <4> QED
          BY <1>1, <1>2, <3>0, <4>2, <4>3
      <3>2. CASE up \notin S
        <4>1. PICK d \in S : ix.parent[d] \notin S
          BY <2>1, <3>0 DEF Sound, Acyclic
        <4> QED
          BY <1>1, <1>2, <3>0, <3>2, <4>1
      <3>3. CASE ~\E d \in S : ix.parent[d] = c
        <4>1. PICK d \in S : ix.parent[d] \notin S
          BY <2>1, <3>0 DEF Sound, Acyclic
        <4> QED
          BY <1>1, <1>2, <3>0, <3>3, <4>1
      <3> QED
        BY <3>1, <3>2, <3>3
    <2> QED
      BY <2>1 DEF Acyclic
  <1>6. \A d \in Ids \ new.known : new.parent[d] = None
    BY <1>1, <1>2, NoneAssumption
  <1>7. new.head \in new.known \cup {None}
    BY <1>1, <1>2, <1>3
  <1>8. Sound(new)
    BY <1>1, <1>4, <1>5, <1>6, <1>7 DEF Sound
  <1> QED
    BY <1>8 DEF new

-----------------------------------------------------------------------------
(* The records of the model *)

Arguments == /\ job'.id = job.id /\ job'.flag = job.flag
             /\ job'.rid = job.rid /\ job'.mem = job.mem

LEMMA GotoFields ==
  ASSUME TypeOK, NEW pc \in Pcs, Goto(pc)
  PROVE  job' \in Job /\ job'.pc = pc /\ Arguments
  BY DEF TypeOK, Job, Goto, Arguments

LEMMA IdleFields == /\ Idle \in Job /\ Idle.pc = "idle" /\ Idle.id = None
                    /\ Idle.flag = FALSE /\ Idle.rid = None /\ Idle.mem = EmptyIndex
  <1>1. EmptyIndex \in Index
    BY EmptyIsSound DEF Sound
  <1> QED
    BY <1>1 DEF Idle, Job, Pcs, IdOrNone

LEMMA SetPhaseFields ==
  ASSUME TypeOK, transaction # None, NEW phase \in Phases, SetPhase(phase)
  PROVE  /\ transaction' \in Transaction /\ transaction' # None
         /\ transaction'.phase = phase /\ transaction'.cp = transaction.cp
         /\ transaction'.rid = transaction.rid /\ transaction'.old = transaction.old
         /\ Deferred' <=> Deferred
  <1>1. transaction \in Transaction
    BY DEF TypeOK
  <1>2. /\ transaction' \in Transaction
        /\ transaction'.phase = phase /\ transaction'.cp = transaction.cp
        /\ transaction'.rid = transaction.rid /\ transaction'.old = transaction.old
    BY <1>1 DEF Transaction, SetPhase
  <1> QED
    BY <1>2, NothingAssumption DEF Deferred

LEMMA RebasedType ==
  ASSUME NEW tree \in Tree \cup {None}, NEW base \in IdOrNone
  PROVE  /\ Rebased(tree, base) \in Tree \cup {None}
         /\ Rebased(tree, base) = None <=> tree = None
         /\ tree # None => Rebased(tree, base).data = tree.data
  <1>1. CASE tree = None
    BY <1>1 DEF Rebased
  <1>2. CASE tree # None
    <2>1. Rebased(tree, base) = [tree EXCEPT !.base = base] /\ tree \in Tree
      BY <1>2 DEF Rebased
    <2>2. [tree EXCEPT !.base = base] \in Tree /\ [tree EXCEPT !.base = base].data = tree.data
      BY <2>1 DEF Tree
    <2> QED
      BY <1>2, <2>1, <2>2, NothingAssumption
  <1> QED
    BY <1>1, <1>2

\* The index a job loads is sound, and indexes every snapshot there is.
LEMMA LoadIsSound ==
  ASSUME IndexIInv
  PROVE  /\ Sound(SavedIndex) /\ Sound(load_index)
         /\ load_index \in Index /\ load_index # None
         /\ actual_checkpoint_ids \in SUBSET load_index.known
         /\ SavedIndex.known \subseteq load_index.known
         /\ SavedIndex.pinned = load_index.pinned
  <1>1. Sound(SavedIndex)
    BY EmptyIsSound DEF IndexIInv, IndexesAreSound, SavedIndex
  <1>2. actual_checkpoint_ids \in SUBSET Ids
    BY DEF actual_checkpoint_ids
  <1>3. Sound(load_index)
    BY <1>1, <1>2, ReconcileIsSound DEF load_index
  <1>4. SavedIndex \in Index
    BY <1>1 DEF Sound
  <1>5. /\ load_index.known = SavedIndex.known \cup actual_checkpoint_ids
        /\ load_index.pinned = SavedIndex.pinned
    BY <1>2, <1>4, ReconcileFields DEF load_index
  <1>6. load_index \in Index /\ load_index # None
    BY <1>3, NothingAssumption DEF Sound
  <1> QED
    BY <1>1, <1>3, <1>5, <1>6

\* What resolve finds is an entry.
LEMMA ResolveFinds ==
  ASSUME NEW ix, NEW name, NEW matches, NEW c \in resolve(ix, name, matches)
  PROVE  c \in ix.known
  BY DEF resolve

-----------------------------------------------------------------------------
(* Every index, in the file or in memory, stays sound *)

\* One step of the store, whoever takes it.
LEMMA IndexStep ==
  ASSUME IndexIInv, [Next]_vars
  PROVE  IndexIInv'
  <1> USE DEF IndexIInv
  <1>0. /\ Sound(SavedIndex) /\ Sound(load_index)
        /\ load_index \in Index /\ load_index # None
        /\ actual_checkpoint_ids \in SUBSET load_index.known
    BY LoadIsSound
  <1>1. CASE create_session
    <2>1. [data |-> EmptyData, base |-> None] \in Tree
      BY EmptyDataAssumption DEF Tree, IdOrNone
    <2>2. job' \in Job /\ job'.pc = "cs_save" /\ Arguments
      BY <1>1, GotoFields DEF create_session, Pcs
    <2>3. TypeOK'
      BY <1>1, <2>1, <2>2 DEF create_session, TypeOK, files, rest
    <2>4. JobHasArguments'
      BY <1>1, <2>2 DEF create_session, JobHasArguments, RollbackSteps, At
    <2>5. IndexesAreSound'
      BY <1>1, <2>2 DEF create_session, IndexesAreSound, Arguments, files, rest
    <2> QED
      BY <2>3, <2>4, <2>5
  <1>2. CASE cs_save
    <2>1. job' \in Job /\ job'.pc = "idle" /\ Sound(job'.mem)
      BY <1>2, IdleFields, EmptyIsSound DEF cs_save, Done
    <2>2. Sound(indexFile') /\ indexFile' \in Index
      BY <1>2, EmptyIsSound, ReconcileIsSound DEF cs_save, actual_checkpoint_ids, Sound
    <2>3. TypeOK'
      BY <1>2, <2>1, <2>2 DEF cs_save, TypeOK, trees, files, rest
    <2>4. JobHasArguments'
      BY <1>2, <2>1 DEF cs_save, JobHasArguments, RollbackSteps, At
    <2>5. IndexesAreSound'
      BY <1>2, <2>1, <2>2 DEF cs_save, IndexesAreSound, files, rest
    <2> QED
      BY <2>3, <2>4, <2>5
  <1>3. CASE \E d \in Data : write_workspace(d)
    <2>1. PICK d \in Data : write_workspace(d)
      BY <1>3
    <2>2. current' \in Tree /\ current' # None
      <3>1. current' \in Tree
        BY <2>1 DEF write_workspace, TypeOK, Tree
      <3> QED
        BY <3>1, NothingAssumption
    <2>3. TypeOK'
      BY <2>1, <2>2 DEF write_workspace, TypeOK, files, rest
    <2> QED
      BY <2>1, <2>2, <2>3 DEF write_workspace, JobHasArguments, IndexesAreSound, files, rest, Deferred, At, RollbackSteps
  <1>4. CASE \E c \in Ids, pin \in BOOLEAN : create_checkpoint(c, pin)
    <2>0. PICK c \in Ids, pin \in BOOLEAN : create_checkpoint(c, pin)
      BY <1>4
    <2>1. Sound(add(load_index, c, pin)) /\ add(load_index, c, pin) \in Index
      <3>1. c \in Ids \ load_index.known
        BY <2>0 DEF create_checkpoint
      <3>2. Sound(add(load_index, c, pin))
        BY <1>0, <3>1, AddIsSound
      <3> QED
        BY <3>2 DEF Sound
    <2>2. /\ job' \in Job /\ job'.pc = "cc_snapshot" /\ job'.id = c /\ job'.mem = add(load_index, c, pin)
      BY <2>0, <2>1, IdleFields DEF create_checkpoint, Job, Pcs, IdOrNone
    <2>3. TypeOK'
      BY <1>0, <2>0, <2>2 DEF create_checkpoint, TypeOK, trees, rest
    <2>4. JobHasArguments'
      BY <2>0, <2>2 DEF create_checkpoint, JobHasArguments, RollbackSteps, At, trees
    <2>5. IndexesAreSound'
      BY <1>0, <2>0, <2>1, <2>2 DEF create_checkpoint, IndexesAreSound, rest
    <2> QED
      BY <2>3, <2>4, <2>5
  <1>5. CASE cc_snapshot
    <2>1. At("cc_snapshot") /\ job' \in Job /\ job'.pc = "cc_save" /\ Arguments
      BY <1>5, GotoFields DEF cc_snapshot, Pcs
    <2>2. current.data \in Data \cup {None} /\ job.id \in Ids
      BY <1>5 DEF cc_snapshot, JobHasArguments, At, TypeOK, Tree
    <2>3. TypeOK'
      BY <1>5, <2>1, <2>2 DEF cc_snapshot, TypeOK, trees, files, rest
    <2>4. JobHasArguments'
      BY <1>5, <2>1 DEF cc_snapshot, JobHasArguments, RollbackSteps, Deferred, Arguments, At, files, trees
    <2>5. IndexesAreSound'
      BY <1>5, <2>1 DEF cc_snapshot, IndexesAreSound, Arguments, files, rest
    <2> QED
      BY <2>3, <2>4, <2>5
  <1>6. CASE cc_save
    <2>1. job' \in Job /\ job'.pc = "idle" /\ Sound(job'.mem)
      BY <1>6, IdleFields, EmptyIsSound DEF cc_save, Done
    <2>2. /\ current' \in Tree \cup {None} /\ job.mem \in Index
          /\ Sound(job.mem)
          /\ acked' \in [Ids -> {"none", "plain", "pinned"}]
      BY <1>6, RebasedType DEF cc_save, TypeOK, Job, IndexesAreSound
    <2>3. TypeOK'
      BY <1>6, <2>1, <2>2 DEF cc_save, TypeOK, trees, files, rest
    <2>4. JobHasArguments'
      BY <1>6, <2>1 DEF cc_save, JobHasArguments, RollbackSteps, At
    <2>5. IndexesAreSound'
      BY <1>6, <2>1, <2>2 DEF cc_save, IndexesAreSound, files, rest
    <2> QED
      BY <2>3, <2>4, <2>5
  <1>7. CASE \E name \in DOMAIN Matches, force \in BOOLEAN : delete_checkpoint(name, force)
    <2>0. PICK name \in DOMAIN Matches, force \in BOOLEAN : delete_checkpoint(name, force)
      BY <1>7
    <2>1. PICK c \in Ids :
            /\ resolve(load_index, name, Matches[name]) = {c}
            /\ job' = [Idle EXCEPT !.pc = "dc_delete", !.id = c, !.flag = force, !.mem = load_index]
      BY <2>0 DEF delete_checkpoint
    <2>2. /\ job' \in Job /\ job'.pc = "dc_delete" /\ job'.id = c /\ job'.mem = load_index
      BY <1>0, <2>1, IdleFields DEF Job, Pcs, IdOrNone
    <2>3. c \in load_index.known
      BY <2>1, ResolveFinds
    <2>4. indexFile' = load_index
      BY <2>0 DEF delete_checkpoint
    <2>5. TypeOK'
      BY <1>0, <2>0, <2>2, <2>4 DEF delete_checkpoint, TypeOK, trees, rest
    <2>6. JobHasArguments'
      BY <2>2, <2>3 DEF JobHasArguments, RollbackSteps, At
    <2>7. IndexesAreSound'
      BY <1>0, <2>0, <2>2, <2>4 DEF delete_checkpoint, IndexesAreSound, rest
    <2> QED
      BY <2>5, <2>6, <2>7
  <1>8. CASE dc_delete
    <2>0. /\ job.id \in Ids /\ job.id \in job.mem.known /\ Sound(job.mem) /\ job \in Job
      BY <1>8 DEF dc_delete, JobHasArguments, IndexesAreSound, At, TypeOK
    <2>1. Sound(remove(job.mem, job.id)) /\ remove(job.mem, job.id) \in Index
      BY <2>0, RemoveIsSound DEF Sound
    <2>2. /\ job' \in Job /\ job'.pc = "dc_save" /\ job'.id = job.id
          /\ job'.mem = remove(job.mem, job.id)
      BY <1>8, <2>0, <2>1 DEF dc_delete, Job, Pcs
    <2>3. TypeOK'
      BY <1>8, <2>0, <2>2 DEF dc_delete, TypeOK, trees, files
    <2>4. JobHasArguments'
      BY <1>8, <2>0, <2>2 DEF JobHasArguments, RollbackSteps, At
    <2>5. IndexesAreSound'
      BY <1>8, <2>1, <2>2 DEF dc_delete, IndexesAreSound, files
    <2> QED
      BY <2>3, <2>4, <2>5
  <1>9. CASE dc_save
    <2>1. job' \in Job /\ job'.pc = "idle" /\ Sound(job'.mem)
      BY <1>9, IdleFields, EmptyIsSound DEF dc_save, Done
    <2>2. /\ job.mem \in Index /\ Sound(job.mem) /\ job.mem.head \in IdOrNone
      BY <1>9 DEF dc_save, TypeOK, Job, IndexesAreSound, Index
    <2>6. current' \in Tree \cup {None}
      BY <1>9, <2>2, RebasedType DEF dc_save, TypeOK
    <2>3. TypeOK'
      BY <1>9, <2>1, <2>2, <2>6 DEF dc_save, TypeOK, trees, files, rest
    <2>4. JobHasArguments'
      BY <1>9, <2>1 DEF dc_save, JobHasArguments, RollbackSteps, At
    <2>5. IndexesAreSound'
      BY <1>9, <2>1, <2>2 DEF dc_save, IndexesAreSound, files, rest
    <2> QED
      BY <2>3, <2>4, <2>5
  <1>10. CASE \E cp \in Ids, rid \in RecoveryIds \cup {None} : rollback(cp, rid)
    <2>0. PICK cp \in Ids, rid \in RecoveryIds \cup {None} : rollback(cp, rid)
      BY <1>10
    <2>1. /\ transaction' \in Transaction /\ transaction' # None /\ transaction'.cp = cp
      <3>1. current \in Tree
        BY <2>0 DEF rollback, TypeOK
      <3>2. transaction' \in Transaction /\ transaction'.cp = cp
        BY <2>0, <3>1 DEF rollback, Transaction, Phases
      <3> QED
        BY <3>2, NothingAssumption
    <2>2. /\ job' \in Job /\ job'.pc = "rb_snapshot" /\ job'.id = cp /\ job'.mem = load_index
      BY <1>0, <2>0, IdleFields DEF rollback, Job, Pcs, IdOrNone
    <2>3. TypeOK'
      BY <1>0, <2>0, <2>1, <2>2 DEF rollback, TypeOK, trees
    <2>4. cp \in load_index.known
      BY <1>0, <2>0 DEF rollback, actual_checkpoint_ids
    <2>5. JobHasArguments'
      BY <2>0, <2>1, <2>2, <2>4 DEF rollback, JobHasArguments, RollbackSteps, At
    <2>6. IndexesAreSound'
      BY <1>0, <2>0, <2>2 DEF rollback, IndexesAreSound
    <2> QED
      BY <2>3, <2>5, <2>6
  <1>11. CASE complete_deferred_rollback
    <2>1. /\ transaction \in Transaction /\ transaction.rid \in RecoveryIds
          /\ transaction.phase = "committed" /\ Deferred /\ transaction # None
      BY <1>11 DEF complete_deferred_rollback, Deferred, TypeOK, Transaction
    <2>2. /\ job' \in Job /\ job'.pc = "cd_delete" /\ job'.rid = transaction.rid
          /\ job'.mem = EmptyIndex
      BY <1>11, <2>1, IdleFields DEF complete_deferred_rollback, Job, Pcs
    <2>3. receipts' \in [RecoveryIds -> Receipt]
      BY <1>11, <2>1 DEF complete_deferred_rollback, TypeOK, Receipt
    <2>4. TypeOK'
      BY <1>0, <1>11, <2>2, <2>3 DEF complete_deferred_rollback, TypeOK, trees, rest
    <2>5. JobHasArguments'
      BY <1>11, <2>1, <2>2 DEF complete_deferred_rollback, JobHasArguments, RollbackSteps, Deferred, At
    <2>6. IndexesAreSound'
      BY <1>0, <1>11, <2>2, EmptyIsSound DEF complete_deferred_rollback, IndexesAreSound, rest
    <2> QED
      BY <2>4, <2>5, <2>6
  <1>12. CASE rb_snapshot
    <2>0. job.id \in Ids /\ At("rb_snapshot") /\ UNCHANGED <<indexFile, transaction, readers>>
      BY <1>12 DEF rb_snapshot, At, JobHasArguments, RollbackSteps, files
    <2>1. job' \in Job /\ job'.pc \in {"rb_prepared", "rb_undo_delete"} /\ Arguments
      BY <1>12, GotoFields DEF rb_snapshot, Pcs
    <2>2. restored' \in Tree \cup {None} /\ faults' \in 0..MaxFaults
      <3>1. [data |-> checkpoints[job.id], base |-> job.id] \in Tree
        BY <1>12, <2>0 DEF rb_snapshot, JobHasArguments, TypeOK, Tree, IdOrNone, At
      <3>2. restored' \in Tree \cup {None}
        BY <1>12, <3>1 DEF rb_snapshot, TypeOK
      <3> QED
        BY <1>12, <3>2, MaxFaultsAssumption DEF rb_snapshot, TypeOK, Fault
    <2>3. TypeOK'
      BY <1>12, <2>1, <2>2 DEF rb_snapshot, TypeOK, files
    <2>4. JobHasArguments'
      BY <2>0, <2>1 DEF JobHasArguments, RollbackSteps, Deferred, Arguments, At
    <2>5. IndexesAreSound'
      BY <2>0, <2>1 DEF IndexesAreSound, Arguments
    <2> QED
      BY <2>3, <2>4, <2>5
  <1>13. CASE rb_prepared
    <2>1. At("rb_prepared") /\ job' \in Job /\ job'.pc = "rb_move" /\ Arguments
      BY <1>13, GotoFields DEF rb_prepared, Pcs
    <2>2. /\ transaction' \in Transaction /\ transaction' # None
          /\ transaction'.phase = "prepared" /\ transaction'.cp = transaction.cp
          /\ transaction'.rid = transaction.rid
      <3>1. transaction # None
        BY <1>13 DEF rb_prepared, At, JobHasArguments, RollbackSteps
      <3> QED
        BY <1>13, <3>1, SetPhaseFields DEF rb_prepared, Phases
    <2>3. TypeOK'
      BY <1>13, <2>1, <2>2 DEF rb_prepared, TypeOK, trees, files, rest
    <2>4. JobHasArguments'
      BY <1>13, <2>1, <2>2 DEF rb_prepared, JobHasArguments, RollbackSteps, Deferred, Arguments, At, files, trees
    <2>5. IndexesAreSound'
      BY <1>13, <2>1 DEF rb_prepared, IndexesAreSound, Arguments, files, rest
    <2> QED
      BY <2>3, <2>4, <2>5
  <1>14. CASE rb_move
    <2>1. At("rb_move") /\ job' \in Job /\ job'.pc = "rb_moved" /\ Arguments
      BY <1>14, GotoFields DEF rb_move, Pcs
    <2>3. TypeOK'
      BY <1>14, <2>1 DEF rb_move, TypeOK, trees, files, rest
    <2>4. JobHasArguments'
      BY <1>14, <2>1 DEF rb_move, JobHasArguments, RollbackSteps, Deferred, Arguments, At, files, trees
    <2>5. IndexesAreSound'
      BY <1>14, <2>1 DEF rb_move, IndexesAreSound, Arguments, files, rest
    <2> QED
      BY <2>3, <2>4, <2>5
  <1>15. CASE rb_moved
    <2>1. At("rb_moved") /\ job' \in Job /\ job'.pc = "rb_install" /\ Arguments
      BY <1>15, GotoFields DEF rb_moved, Pcs
    <2>2. /\ transaction' \in Transaction /\ transaction' # None
          /\ transaction'.phase = "old_moved" /\ transaction'.cp = transaction.cp
          /\ transaction'.rid = transaction.rid
      <3>1. transaction # None
        BY <1>15 DEF rb_moved, At, JobHasArguments, RollbackSteps
      <3> QED
        BY <1>15, <3>1, SetPhaseFields DEF rb_moved, Phases
    <2>3. TypeOK'
      BY <1>15, <2>1, <2>2 DEF rb_moved, TypeOK, trees, files, rest
    <2>4. JobHasArguments'
      BY <1>15, <2>1, <2>2 DEF rb_moved, JobHasArguments, RollbackSteps, Deferred, Arguments, At, files, trees
    <2>5. IndexesAreSound'
      BY <1>15, <2>1 DEF rb_moved, IndexesAreSound, Arguments, files, rest
    <2> QED
      BY <2>3, <2>4, <2>5
  <1>16. CASE rb_install
    <2>0. At("rb_install") /\ UNCHANGED <<indexFile, transaction, readers>>
      BY <1>16 DEF rb_install, files
    <2>1. job' \in Job /\ job'.pc \in {"rb_save", "rb_commit", "rb_undo"} /\ Arguments
      BY <1>16, GotoFields DEF rb_install, Pcs
    <2>2. /\ restored' \in Tree \cup {None} /\ current' \in Tree \cup {None}
          /\ faults' \in 0..MaxFaults
      BY <1>16, MaxFaultsAssumption DEF rb_install, TypeOK, Fault
    <2>3. TypeOK'
      BY <1>16, <2>1, <2>2 DEF rb_install, TypeOK, files
    <2>4. JobHasArguments'
      BY <2>0, <2>1 DEF JobHasArguments, RollbackSteps, Deferred, Arguments, At
    <2>5. IndexesAreSound'
      BY <2>0, <2>1 DEF IndexesAreSound, Arguments
    <2> QED
      BY <2>3, <2>4, <2>5
  <1>17. CASE rb_undo
    <2>1. At("rb_undo") /\ job' \in Job /\ job'.pc = "rb_undo_delete" /\ Arguments
      BY <1>17, GotoFields DEF rb_undo, Pcs
    <2>3. TypeOK'
      BY <1>17, <2>1 DEF rb_undo, TypeOK, trees, files, rest
    <2>4. JobHasArguments'
      BY <1>17, <2>1 DEF rb_undo, JobHasArguments, RollbackSteps, Deferred, Arguments, At, files, trees
    <2>5. IndexesAreSound'
      BY <1>17, <2>1 DEF rb_undo, IndexesAreSound, Arguments, files, rest
    <2> QED
      BY <2>3, <2>4, <2>5
  <1>18. CASE rb_undo_delete
    <2>1. At("rb_undo_delete") /\ job' \in Job /\ job'.pc = "rb_undo_clear" /\ Arguments
      BY <1>18, GotoFields DEF rb_undo_delete, Pcs
    <2>3. TypeOK'
      BY <1>18, <2>1 DEF rb_undo_delete, TypeOK, trees, files, rest
    <2>4. JobHasArguments'
      BY <1>18, <2>1 DEF rb_undo_delete, JobHasArguments, RollbackSteps, Deferred, Arguments, At, files, trees
    <2>5. IndexesAreSound'
      BY <1>18, <2>1 DEF rb_undo_delete, IndexesAreSound, Arguments, files, rest
    <2> QED
      BY <2>3, <2>4, <2>5
  <1>19. CASE rb_commit
    <2>1. transaction # None /\ Sound(job.mem)
      BY <1>19 DEF rb_commit, At, JobHasArguments, RollbackSteps, IndexesAreSound
    <2>2. /\ transaction' \in Transaction /\ transaction' # None
          /\ transaction'.cp = transaction.cp /\ transaction'.rid = transaction.rid
      BY <1>19, <2>1, SetPhaseFields DEF rb_commit, Phases
    <2>3. CASE Done
      <3>1. job' \in Job /\ job'.pc = "idle" /\ Sound(job'.mem)
        BY <2>3, IdleFields, EmptyIsSound DEF Done
      <3> QED
        BY <1>19, <2>2, <3>1 DEF rb_commit, TypeOK, JobHasArguments, RollbackSteps, IndexesAreSound, trees, rest, At
    <2>4. CASE Goto("rb_delete")
      <3>1. job' \in Job /\ job'.pc = "rb_delete" /\ Arguments
        BY <2>4, GotoFields DEF Pcs
      <3>2. TypeOK'
        BY <1>19, <2>2, <3>1 DEF rb_commit, TypeOK, trees, rest
      <3>3. JobHasArguments'
        BY <1>19, <2>2, <3>1 DEF rb_commit, JobHasArguments, RollbackSteps, Arguments, At
      <3> QED
        BY <1>19, <2>1, <3>1, <3>2, <3>3 DEF rb_commit, IndexesAreSound, Arguments, rest
    <2> QED
      BY <1>19, <2>3, <2>4 DEF rb_commit
  <1>20. CASE rb_delete
    <2>1. At("rb_delete") /\ job' \in Job /\ job'.pc = "rb_save" /\ Arguments
      BY <1>20, GotoFields DEF rb_delete, Pcs
    <2>3. TypeOK'
      BY <1>20, <2>1 DEF rb_delete, TypeOK, trees, files, rest
    <2>4. JobHasArguments'
      BY <1>20, <2>1 DEF rb_delete, JobHasArguments, RollbackSteps, Deferred, Arguments, At, files, trees
    <2>5. IndexesAreSound'
      BY <1>20, <2>1 DEF rb_delete, IndexesAreSound, Arguments, files, rest
    <2> QED
      BY <2>3, <2>4, <2>5
  <1>21. CASE rb_save
    <2>0. Sound(job.mem) /\ job.id \in job.mem.known
      BY <1>21 DEF rb_save, At, JobHasArguments, RollbackSteps, IndexesAreSound
    <2>1. At("rb_save") /\ job' \in Job /\ job'.pc \in {"rb_commit", "rb_clear"} /\ Arguments
      BY <1>21, GotoFields DEF rb_save, Pcs
    <2>2. Sound(indexFile') /\ indexFile' \in Index
      BY <1>21, <2>0, MoveHeadIsSound DEF rb_save, Sound
    <2>3. TypeOK'
      BY <1>21, <2>1, <2>2 DEF rb_save, TypeOK, trees, rest
    <2>4. JobHasArguments'
      BY <1>21, <2>1 DEF rb_save, JobHasArguments, RollbackSteps, Deferred, Arguments, At
    <2>5. IndexesAreSound'
      BY <1>21, <2>1, <2>2 DEF rb_save, IndexesAreSound, Arguments, rest
    <2> QED
      BY <2>3, <2>4, <2>5
  <1>22. CASE rb_clear
    <2>1. job' \in Job /\ job'.pc = "idle" /\ Sound(job'.mem)
      BY <1>22, IdleFields, EmptyIsSound DEF rb_clear, Done
    <2>3. TypeOK'
      BY <1>22, <2>1 DEF rb_clear, TypeOK, trees, files, rest
    <2>4. JobHasArguments'
      BY <1>22, <2>1 DEF rb_clear, JobHasArguments, RollbackSteps, At
    <2>5. IndexesAreSound'
      BY <1>22, <2>1 DEF rb_clear, IndexesAreSound, files, rest
    <2> QED
      BY <2>3, <2>4, <2>5
  <1>23. CASE cd_delete
    <2>1. At("cd_delete") /\ job' \in Job /\ job'.pc = "cd_receipt" /\ Arguments
      BY <1>23, GotoFields DEF cd_delete, Pcs
    <2>3. TypeOK'
      BY <1>23, <2>1 DEF cd_delete, TypeOK, trees, files, rest
    <2>4. JobHasArguments'
      BY <1>23, <2>1 DEF cd_delete, JobHasArguments, RollbackSteps, Deferred, Arguments, At, files, trees
    <2>5. IndexesAreSound'
      BY <1>23, <2>1 DEF cd_delete, IndexesAreSound, Arguments, files, rest
    <2> QED
      BY <2>3, <2>4, <2>5
  <1>24. CASE cd_receipt
    <2>1. At("cd_receipt") /\ job' \in Job /\ job'.pc = "cd_clear" /\ Arguments
      BY <1>24, GotoFields DEF cd_receipt, Pcs
    <2>2. receipts' \in [RecoveryIds -> Receipt]
      BY <1>24 DEF cd_receipt, TypeOK, Receipt
    <2>3. TypeOK'
      BY <1>24, <2>1, <2>2 DEF cd_receipt, TypeOK, trees, files, rest
    <2>4. JobHasArguments'
      BY <1>24, <2>1 DEF cd_receipt, JobHasArguments, RollbackSteps, Deferred, Arguments, At, files, trees
    <2>5. IndexesAreSound'
      BY <1>24, <2>1 DEF cd_receipt, IndexesAreSound, Arguments, files, rest
    <2> QED
      BY <2>3, <2>4, <2>5
  <1>25. CASE cd_clear
    <2>1. job' \in Job /\ job'.pc = "idle" /\ Sound(job'.mem)
      BY <1>25, IdleFields, EmptyIsSound DEF cd_clear, Done, RecoveryDone
    <2>3. TypeOK'
      BY <1>25, <2>1 DEF cd_clear, TypeOK, trees, files, rest, RecoveryDone
    <2>4. JobHasArguments'
      BY <1>25, <2>1 DEF cd_clear, JobHasArguments, RollbackSteps, At
    <2>5. IndexesAreSound'
      BY <1>25, <2>1 DEF cd_clear, IndexesAreSound, files, rest
    <2> QED
      BY <2>3, <2>4, <2>5
  <1>26. CASE rc_delete_discard
    <2>1. At("rc_delete_discard") /\ job' \in Job /\ job'.pc = "rc_delete_restore" /\ Arguments
      BY <1>26, GotoFields DEF rc_delete_discard, Pcs
    <2>3. TypeOK'
      BY <1>26, <2>1 DEF rc_delete_discard, TypeOK, trees, files, rest
    <2>4. JobHasArguments'
      BY <1>26, <2>1 DEF rc_delete_discard, JobHasArguments, RollbackSteps, Deferred, Arguments, At, files, trees
    <2>5. IndexesAreSound'
      BY <1>26, <2>1 DEF rc_delete_discard, IndexesAreSound, Arguments, files, rest
    <2> QED
      BY <2>3, <2>4, <2>5
  <1>27. CASE rc_delete_restore
    <2>1. At("rc_delete_restore") /\ job' \in Job /\ job'.pc \in {"rc_save", "cd_clear"} /\ Arguments
      BY <1>27, GotoFields DEF rc_delete_restore, Pcs
    <2>3. TypeOK'
      BY <1>27, <2>1 DEF rc_delete_restore, TypeOK, trees, files, rest
    <2>4. JobHasArguments'
      BY <1>27, <2>1 DEF rc_delete_restore, JobHasArguments, RollbackSteps, Deferred, Arguments, At, files, trees
    <2>5. IndexesAreSound'
      BY <1>27, <2>1 DEF rc_delete_restore, IndexesAreSound, Arguments, files, rest
    <2> QED
      BY <2>3, <2>4, <2>5
  <1>28. CASE rc_save
    <2> DEFINE found == resolve(load_index, transaction.cp, Matches[transaction.cp])
    <2>1. \/ indexFile' \in {indexFile, load_index}
          \/ \E c \in found : indexFile' = move_head(load_index, c)
      BY <1>28 DEF rc_save
    <2>2. indexFile' = indexFile \/ (Sound(indexFile') /\ indexFile' \in Index)
      BY <1>0, <2>1, ResolveFinds, MoveHeadIsSound DEF Sound
    <2>3. /\ job' \in Job /\ job'.pc \in {"idle", "rc_commit", "cd_clear"}
          /\ Sound(job'.mem) /\ daemon' \in {"up", "booting", "failed"}
      BY <1>28, GotoFields, IdleFields, EmptyIsSound
      DEF rc_save, RecoveryRaises, Done, Pcs, Arguments, IndexesAreSound, TypeOK
    <2>4. TypeOK'
      BY <1>28, <2>2, <2>3 DEF rc_save, TypeOK, trees
    <2>5. JobHasArguments'
      BY <1>28, <2>3 DEF rc_save, JobHasArguments, RollbackSteps, At
    <2>6. IndexesAreSound'
      BY <1>28, <2>2, <2>3 DEF rc_save, IndexesAreSound
    <2> QED
      BY <2>4, <2>5, <2>6
  <1>29. CASE rc_commit
    <2>0. transaction # None
      BY <1>29 DEF rc_commit, At, JobHasArguments
    <2>1. job' \in Job /\ job'.pc = "idle" /\ Sound(job'.mem)
      BY <1>29, IdleFields, EmptyIsSound DEF rc_commit, Done, RecoveryDone
    <2>2. transaction' \in Transaction
      BY <1>29, <2>0, SetPhaseFields DEF rc_commit, Phases
    <2>3. TypeOK'
      BY <1>29, <2>1, <2>2 DEF rc_commit, TypeOK, trees, files, rest, RecoveryDone
    <2>4. JobHasArguments'
      BY <1>29, <2>1 DEF rc_commit, JobHasArguments, RollbackSteps, At
    <2>5. IndexesAreSound'
      BY <1>29, <2>1 DEF rc_commit, IndexesAreSound, files, rest
    <2> QED
      BY <2>3, <2>4, <2>5
  <1>30. CASE recover_nothing
    <2>1. job' \in Job /\ job'.pc = "idle" /\ Sound(job'.mem)
      BY <1>30, IdleFields, EmptyIsSound DEF recover_nothing, Done, RecoveryDone
    <2>3. TypeOK'
      BY <1>30, <2>1 DEF recover_nothing, TypeOK, trees, files, rest, RecoveryDone
    <2>4. JobHasArguments'
      BY <1>30, <2>1 DEF recover_nothing, JobHasArguments, RollbackSteps, At
    <2>5. IndexesAreSound'
      BY <1>30, <2>1 DEF recover_nothing, IndexesAreSound, files, rest
    <2> QED
      BY <2>3, <2>4, <2>5
  <1>31. CASE recover_committed_deferred
    <2>1. /\ transaction \in Transaction /\ transaction.rid \in RecoveryIds
          /\ transaction.phase = "committed" /\ Deferred /\ transaction # None
      BY <1>31 DEF recover_committed_deferred, CommittedDeferred, Deferred, TypeOK, Transaction
    <2>2. \/ Done
          \/ job' = [Idle EXCEPT !.pc = "cd_delete", !.rid = transaction.rid]
      BY <1>31 DEF recover_committed_deferred, RecoveryRaises, RecoveryDone
    <2>3. /\ job' \in Job /\ job'.pc \in {"idle", "cd_delete"} /\ job'.mem = EmptyIndex
          /\ job'.pc = "cd_delete" => job'.rid = transaction.rid
      BY <2>1, <2>2, IdleFields DEF Done, Job, Pcs
    <2>4. /\ daemon' \in {"up", "booting", "failed"}
          /\ indexFile' \in {indexFile, load_index}
          /\ UNCHANGED <<trees, checkpoints, transaction, receipts, readers, released, faults, acked>>
      BY <1>31 DEF recover_committed_deferred, RecoveryRaises, RecoveryDone, TypeOK
    <2>5. TypeOK'
      BY <1>0, <2>3, <2>4 DEF TypeOK, trees
    <2>6. JobHasArguments'
      BY <2>1, <2>3, <2>4 DEF JobHasArguments, RollbackSteps, Deferred, At
    <2>7. IndexesAreSound'
      BY <1>0, <2>3, <2>4, EmptyIsSound DEF IndexesAreSound
    <2> QED
      BY <2>5, <2>6, <2>7
  <1>32. CASE recover_swap
    <2>1. \/ Done
          \/ \E flag \in BOOLEAN, pc \in {"rc_save", "rc_delete_discard"} :
               job' = [Idle EXCEPT !.flag = flag, !.pc = pc]
      <3> DEFINE forward == restored # None /\ transaction.phase # "preparing"
                 commit == IF current # None THEN transaction.phase \in swapped_phases
                           ELSE forward
      <3>1. commit \in BOOLEAN
        <4>1. CASE current # None
          BY <4>1
        <4>2. CASE current = None
          BY <4>2
        <4> QED
          BY <4>1, <4>2
      <3>2. \/ Done
            \/ job' = [Idle EXCEPT !.flag = commit, !.pc =
                         IF Deferred /\ commit THEN "rc_save" ELSE "rc_delete_discard"]
        BY <1>32 DEF recover_swap, RecoveryRaises
      <3> HIDE DEF commit
      <3> QED
        BY <3>1, <3>2
    <2>2. /\ job' \in Job /\ job'.pc \in {"idle", "rc_save", "rc_delete_discard"}
          /\ job'.mem = EmptyIndex
      BY <2>1, IdleFields DEF Done, Job, Pcs
    <2>3. /\ daemon' \in {"up", "booting", "failed"}
          /\ {current', restored', discarded'} \subseteq Tree \cup {None}
          /\ UNCHANGED <<checkpoints, files, readers, released, faults, acked>>
          /\ transaction # None
      BY <1>32 DEF recover_swap, RecoveryRaises, TypeOK, trees
    <2>4. TypeOK'
      BY <2>2, <2>3 DEF TypeOK, files
    <2>5. JobHasArguments'
      BY <2>2, <2>3 DEF JobHasArguments, RollbackSteps, files, At
    <2>6. IndexesAreSound'
      BY <2>2, <2>3, EmptyIsSound DEF IndexesAreSound, files
    <2> QED
      BY <2>4, <2>5, <2>6
  <1>33. CASE \E r \in Readers : read_index(r) \/ reconcile_index(r) \/ write_back_index(r)
    <2>0. PICK r \in Readers : read_index(r) \/ reconcile_index(r) \/ write_back_index(r)
      BY <1>33
    <2> DEFINE Reader == [pc : {"idle", "read", "save"}, mem : Index]
               Keeps(new) == new \in Reader /\ Sound(new.mem)
    <2>1. /\ Sound(readers[r].mem) /\ readers[r].mem \in Index
          /\ Sound(reconcile(readers[r].mem, actual_checkpoint_ids))
      BY ReconcileIsSound DEF IndexesAreSound, Sound, actual_checkpoint_ids
    <2>2. /\ Keeps([pc |-> "read", mem |-> SavedIndex])
          /\ Keeps([pc |-> "save", mem |-> reconcile(readers[r].mem, actual_checkpoint_ids)])
          /\ Keeps([pc |-> "idle", mem |-> EmptyIndex])
      BY <1>0, <2>1, EmptyIsSound DEF Sound
    <2>3. \E new : Keeps(new) /\ readers' = [readers EXCEPT ![r] = new]
      <3> HIDE DEF Keeps
      <3> QED
        BY <2>0, <2>2 DEF read_index, reconcile_index, write_back_index
    <2>4. /\ readers' \in [Readers -> Reader]
          /\ \A q \in Readers : Sound(readers'[q].mem)
      BY <2>3 DEF TypeOK, IndexesAreSound
    <2>5. /\ indexFile' \in {indexFile, readers[r].mem} /\ faults' \in 0..MaxFaults
          /\ UNCHANGED <<trees, checkpoints, transaction, receipts, job, released, daemon, acked>>
      BY <2>0, MaxFaultsAssumption DEF read_index, reconcile_index, write_back_index, TypeOK, files
    <2>6. TypeOK'
      BY <2>1, <2>4, <2>5 DEF TypeOK, trees
    <2>7. IndexesAreSound'
      BY <2>1, <2>4, <2>5 DEF IndexesAreSound
    <2> QED
      BY <2>5, <2>6, <2>7 DEF JobHasArguments, Deferred, At, RollbackSteps, trees
  <1>34. CASE describe
    <2>1. TypeOK'
      BY <1>0, <1>34 DEF describe, TypeOK, trees, rest
    <2> QED
      BY <1>0, <1>34, <2>1 DEF describe, JobHasArguments, IndexesAreSound, rest, Deferred, At, RollbackSteps, trees
  <1>35. CASE release_fence
    <2>1. TypeOK'
      BY <1>35 DEF release_fence, TypeOK, trees, files
    <2> QED
      BY <1>35, <2>1 DEF release_fence, JobHasArguments, IndexesAreSound, files, Deferred, At, RollbackSteps, trees
  <1>36. CASE raise \/ kill_helper
    <2>1. /\ job' \in Job /\ job'.pc = "idle" /\ Sound(job'.mem)
          /\ faults' \in 0..MaxFaults /\ daemon' \in {"up", "booting", "failed"}
      BY <1>36, IdleFields, EmptyIsSound, MaxFaultsAssumption DEF raise, kill_helper, Done, RecoveryRaises, Fault, TypeOK
    <2>2. TypeOK'
      BY <1>36, <2>1 DEF raise, kill_helper, TypeOK, trees, files
    <2>3. JobHasArguments'
      BY <2>1 DEF JobHasArguments, RollbackSteps, At
    <2>4. IndexesAreSound'
      BY <1>36, <2>1 DEF raise, kill_helper, IndexesAreSound, files
    <2> QED
      BY <2>2, <2>3, <2>4
  <1>37. CASE crash
    <2>1. /\ job' \in Job /\ Sound(job'.mem) /\ (job' = job \/ job'.pc = "idle")
          /\ faults' \in 0..MaxFaults
      BY <1>37, IdleFields, EmptyIsSound, MaxFaultsAssumption DEF crash, Done, Fault, TypeOK, IndexesAreSound
    <2>2. /\ readers' \in [Readers -> [pc : {"idle", "read", "save"}, mem : Index]]
          /\ \A r \in Readers : Sound(readers'[r].mem)
      BY <1>37, EmptyIsSound DEF crash, Sound
    <2>3. TypeOK'
      BY <1>37, <2>1, <2>2 DEF crash, TypeOK, trees, files
    <2>4. JobHasArguments'
      BY <1>37, <2>1 DEF crash, JobHasArguments, RollbackSteps, Deferred, files, trees, At
    <2>5. IndexesAreSound'
      BY <1>37, <2>1, <2>2 DEF crash, IndexesAreSound, files
    <2> QED
      BY <2>3, <2>4, <2>5
  <1>38. CASE UNCHANGED vars
    <2>1. TypeOK'
      BY <1>38 DEF vars, TypeOK
    <2> QED
      BY <1>38, <2>1 DEF vars, JobHasArguments, IndexesAreSound, Deferred, At
  <1> QED
    BY <1>1, <1>2, <1>3, <1>4, <1>5, <1>6, <1>7, <1>8, <1>9, <1>10,
       <1>11, <1>12, <1>13, <1>14, <1>15, <1>16, <1>17, <1>18, <1>19, <1>20,
       <1>21, <1>22, <1>23, <1>24, <1>25, <1>26, <1>27, <1>28, <1>29, <1>30,
       <1>31, <1>32, <1>33, <1>34, <1>35, <1>36, <1>37, <1>38 DEF Next, JobStep, Recover

\* In every reachable state the variables have their types, a job has its
\* arguments, and the index in the file, in the hands of the mutator and of
\* every unlocked reader is sound.
THEOREM StoreInvariant == Spec => []IndexIInv
  <1>1. Init => IndexIInv
    <2>1. Init => TypeOK
      <3>1. EmptyIndex \in Index
        BY EmptyIsSound DEF Sound
      <3>2. 0 \in 0..MaxFaults
        BY MaxFaultsAssumption
      <3>3. ASSUME Init PROVE TypeOK
        <4>1. /\ receipts \in [RecoveryIds -> Receipt] /\ checkpoints \in [Ids -> Data \cup {None}]
              /\ acked \in [Ids -> {"none", "plain", "pinned"}]
          BY <3>3 DEF Init, Receipt
        <4>2. readers \in [Readers -> [pc : {"idle", "read", "save"}, mem : Index]]
          BY <3>1, <3>3 DEF Init
        <4>3. {current, restored, discarded} \subseteq Tree \cup {None}
          BY <3>3 DEF Init
        <4> QED
          BY <3>2, <3>3, <4>1, <4>2, <4>3, IdleFields DEF Init, TypeOK
      <3> QED
        BY <3>3
    <2> QED
      BY <2>1, IdleFields, EmptyIsSound
      DEF Init, IndexIInv, JobHasArguments, RollbackSteps, IndexesAreSound, At
  <1>2. IndexIInv /\ [Next]_vars => IndexIInv'
    BY IndexStep
  <1> QED
    BY <1>1, <1>2, PTL DEF Spec

\* The saved lineage is always a forest whose links agree, also when readers
\* without the lock write back what they reconciled: LineageIsAForest, for
\* any number of checkpoints, readers and faults.
THEOREM LineageStaysAForest == Spec => []LineageIsAForest
  <1>1. IndexIInv => LineageIsAForest
    BY DEF IndexIInv, IndexesAreSound, Sound, LineageIsAForest
  <1> QED
    BY <1>1, StoreInvariant, PTL

-----------------------------------------------------------------------------
(* The trees of a rollback and its receipt *)

LEMMA TreeStep ==
  ASSUME IndexIInv, TreeIInv, [Next]_vars
  PROVE  TreeIInv'
  <1>0. /\ TypeOK /\ JobHasArguments
        /\ TreesFollowJob /\ ReceiptsFollowCommit /\ ReceiptDecidesDiscard
        /\ \A t \in Tree \cup RecoveryIds : t # None
        /\ transaction # None => transaction \in Transaction
        /\ Deferred => transaction.rid \in RecoveryIds
    BY NothingAssumption DEF IndexIInv, TreeIInv, TypeOK, Deferred, Transaction
  <1> SUFFICES TreesFollowJob' /\ ReceiptsFollowCommit' /\ ReceiptDecidesDiscard'
    BY DEF TreeIInv
  <1>1. CASE create_session
    <2>1. [data |-> EmptyData, base |-> None] # None
      BY <1>0, EmptyDataAssumption DEF Tree, IdOrNone
    <2>2. job'.pc = "cs_save"
      BY <1>0, <1>1, GotoFields DEF create_session, Pcs
    <2>4. TreesFollowJob'
      BY <1>0, <1>1, <2>1, <2>2
      DEF create_session, TreesFollowJob, JobHasArguments, RollbackSteps, Deferred, At, files
    <2>5. ReceiptsFollowCommit' /\ ReceiptDecidesDiscard'
      BY <1>0, <1>1, <2>1, <2>2
      DEF create_session, TreesFollowJob, ReceiptsFollowCommit, ReceiptDecidesDiscard, JobHasArguments,
          CommittedDeferred, RollbackSteps, Deferred, At, files
    <2> QED
      BY <2>4, <2>5
  <1>2. CASE cs_save
    <2>1. job'.pc = "idle"
      BY <1>2, IdleFields DEF cs_save, Done
    <2>4. TreesFollowJob'
      BY <1>0, <1>2, <2>1
      DEF cs_save, TreesFollowJob, JobHasArguments, RollbackSteps, Deferred, At, trees, files, rest
    <2>5. ReceiptsFollowCommit' /\ ReceiptDecidesDiscard'
      BY <1>0, <1>2, <2>1
      DEF cs_save, TreesFollowJob, ReceiptsFollowCommit, ReceiptDecidesDiscard, JobHasArguments,
          CommittedDeferred, RollbackSteps, Deferred, At, trees, files, rest
    <2> QED
      BY <2>4, <2>5
  <1>3. CASE \E d \in Data : write_workspace(d)
    <2>1. PICK d \in Data : write_workspace(d)
      BY <1>3
    <2>2. current' # None /\ job' = job /\ job.pc = "idle"
      <3>1. current' \in Tree
        BY <1>0, <2>1 DEF write_workspace, TypeOK, Tree
      <3> QED
        BY <1>0, <2>1, <3>1, IdleFields DEF write_workspace, Unfenced, Serving
    <2>4. TreesFollowJob'
      BY <1>0, <2>1, <2>2
      DEF write_workspace, TreesFollowJob, JobHasArguments, RollbackSteps, Deferred, At, files, rest
    <2>5. ReceiptsFollowCommit' /\ ReceiptDecidesDiscard'
      BY <1>0, <2>1, <2>2
      DEF write_workspace, TreesFollowJob, ReceiptsFollowCommit, ReceiptDecidesDiscard, JobHasArguments,
          CommittedDeferred, RollbackSteps, Deferred, At, files, rest
    <2> QED
      BY <2>4, <2>5
  <1>4. CASE \E c \in Ids, pin \in BOOLEAN : create_checkpoint(c, pin)
    <2>1. PICK c \in Ids, pin \in BOOLEAN : create_checkpoint(c, pin)
      BY <1>4
    <2>2. job'.pc = "cc_snapshot"
      BY <2>1, IdleFields DEF create_checkpoint, Job
    <2>4. TreesFollowJob'
      BY <1>0, <2>1, <2>2
      DEF create_checkpoint, TreesFollowJob, JobHasArguments, RollbackSteps, Deferred, At, trees
    <2>5. ReceiptsFollowCommit' /\ ReceiptDecidesDiscard'
      BY <1>0, <2>1, <2>2
      DEF create_checkpoint, TreesFollowJob, ReceiptsFollowCommit, ReceiptDecidesDiscard, JobHasArguments,
          CommittedDeferred, RollbackSteps, Deferred, At, trees
    <2> QED
      BY <2>4, <2>5
  <1>5. CASE cc_snapshot
    <2>1. At("cc_snapshot") /\ job'.pc = "cc_save" /\ Arguments
      BY <1>0, <1>5, GotoFields DEF cc_snapshot, Pcs
    <2>4. TreesFollowJob'
      BY <1>0, <1>5, <2>1
      DEF cc_snapshot, Arguments, TreesFollowJob, JobHasArguments, RollbackSteps, Deferred, At, trees, files, rest
    <2>5. ReceiptsFollowCommit' /\ ReceiptDecidesDiscard'
      BY <1>0, <1>5, <2>1
      DEF cc_snapshot, Arguments, TreesFollowJob, ReceiptsFollowCommit, ReceiptDecidesDiscard, JobHasArguments,
          CommittedDeferred, RollbackSteps, Deferred, At, trees, files, rest
    <2> QED
      BY <2>4, <2>5
  <1>6. CASE cc_save
    <2>1. job'.pc = "idle"
      BY <1>6, IdleFields DEF cc_save, Done
    <2>2. current' = None <=> current = None
      BY <1>0, <1>6, RebasedType DEF cc_save, TypeOK, Job
    <2>4. TreesFollowJob'
      BY <1>0, <1>6, <2>1, <2>2
      DEF cc_save, TreesFollowJob, JobHasArguments, RollbackSteps, Deferred, At, trees, files, rest
    <2>5. ReceiptsFollowCommit' /\ ReceiptDecidesDiscard'
      BY <1>0, <1>6, <2>1, <2>2
      DEF cc_save, TreesFollowJob, ReceiptsFollowCommit, ReceiptDecidesDiscard, JobHasArguments,
          CommittedDeferred, RollbackSteps, Deferred, At, trees, files, rest
    <2> QED
      BY <2>4, <2>5
  <1>7. CASE \E name \in DOMAIN Matches, force \in BOOLEAN : delete_checkpoint(name, force)
    <2>1. PICK name \in DOMAIN Matches, force \in BOOLEAN : delete_checkpoint(name, force)
      BY <1>7
    <2>2. job'.pc = "dc_delete"
      BY <2>1, IdleFields DEF delete_checkpoint, Job
    <2>4. TreesFollowJob'
      BY <1>0, <2>1, <2>2
      DEF delete_checkpoint, TreesFollowJob, JobHasArguments, RollbackSteps, Deferred, At, trees
    <2>5. ReceiptsFollowCommit' /\ ReceiptDecidesDiscard'
      BY <1>0, <2>1, <2>2
      DEF delete_checkpoint, TreesFollowJob, ReceiptsFollowCommit, ReceiptDecidesDiscard, JobHasArguments,
          CommittedDeferred, RollbackSteps, Deferred, At, trees
    <2> QED
      BY <2>4, <2>5
  <1>8. CASE dc_delete
    <2>1. job'.pc = "dc_save"
      BY <1>0, <1>8 DEF dc_delete, TypeOK, Job
    <2>4. TreesFollowJob'
      BY <1>0, <1>8, <2>1
      DEF dc_delete, TreesFollowJob, JobHasArguments, RollbackSteps, Deferred, At, trees, files
    <2>5. ReceiptsFollowCommit' /\ ReceiptDecidesDiscard'
      BY <1>0, <1>8, <2>1
      DEF dc_delete, TreesFollowJob, ReceiptsFollowCommit, ReceiptDecidesDiscard, JobHasArguments,
          CommittedDeferred, RollbackSteps, Deferred, At, trees, files
    <2> QED
      BY <2>4, <2>5
  <1>9. CASE dc_save
    <2>1. job'.pc = "idle"
      BY <1>9, IdleFields DEF dc_save, Done
    <2>2. current' = None <=> current = None
      <3>1. job.mem.head \in IdOrNone
        BY <1>0 DEF TypeOK, Job, Index
      <3> QED
        BY <1>0, <1>9, <3>1, RebasedType DEF dc_save, TypeOK
    <2>4. TreesFollowJob'
      BY <1>0, <1>9, <2>1, <2>2
      DEF dc_save, TreesFollowJob, JobHasArguments, RollbackSteps, Deferred, At, trees, files, rest
    <2>5. ReceiptsFollowCommit' /\ ReceiptDecidesDiscard'
      BY <1>0, <1>9, <2>1, <2>2
      DEF dc_save, TreesFollowJob, ReceiptsFollowCommit, ReceiptDecidesDiscard, JobHasArguments,
          CommittedDeferred, RollbackSteps, Deferred, At, trees, files, rest
    <2> QED
      BY <2>4, <2>5
  <1>10. CASE \E cp \in Ids, rid \in RecoveryIds \cup {None} : rollback(cp, rid)
    <2>1. PICK cp \in Ids, rid \in RecoveryIds \cup {None} : rollback(cp, rid)
      BY <1>10
    <2>2. /\ transaction' # None /\ transaction'.phase = "preparing"
          /\ transaction'.rid = rid /\ transaction'.old = current
      <3>1. current \in Tree
        BY <1>0, <2>1 DEF rollback, TypeOK
      <3>2. /\ transaction' \in Transaction /\ transaction'.phase = "preparing"
            /\ transaction'.rid = rid /\ transaction'.old = current
        BY <2>1, <3>1 DEF rollback, Transaction, Phases
      <3> QED
        BY <3>2, NothingAssumption
    <2>3. job'.pc = "rb_snapshot"
      BY <2>1, IdleFields DEF rollback, Job
    <2>4. TreesFollowJob'
      BY <1>0, <2>1, <2>2, <2>3
      DEF rollback, TreesFollowJob, JobHasArguments, RollbackSteps, Deferred, At, trees
    <2>5. ReceiptsFollowCommit' /\ ReceiptDecidesDiscard'
      BY <1>0, <2>1, <2>2, <2>3
      DEF rollback, TreesFollowJob, ReceiptsFollowCommit, ReceiptDecidesDiscard, JobHasArguments,
          CommittedDeferred, RollbackSteps, Deferred, At, trees
    <2> QED
      BY <2>4, <2>5
  <1>11. CASE complete_deferred_rollback
    <2>1. job'.pc = "cd_delete"
      BY <1>11, IdleFields DEF complete_deferred_rollback, Job
    <2>2. /\ receipts'[transaction.rid] # "none"
          /\ \A r \in RecoveryIds : /\ receipts[r] # "none" => receipts'[r] # "none"
                                    /\ receipts'[r] = "completed" => receipts[r] = "completed"
      BY <1>0, <1>11 DEF complete_deferred_rollback, TypeOK
    <2>4. TreesFollowJob'
      BY <1>0, <1>11, <2>1, <2>2
      DEF complete_deferred_rollback, TreesFollowJob, JobHasArguments, RollbackSteps, Deferred, At, DeferredIntact, trees
    <2>5. ReceiptsFollowCommit' /\ ReceiptDecidesDiscard'
      BY <1>0, <1>11, <2>1, <2>2
      DEF complete_deferred_rollback, TreesFollowJob, ReceiptsFollowCommit, ReceiptDecidesDiscard, JobHasArguments,
          CommittedDeferred, RollbackSteps, Deferred, At, DeferredIntact, trees
    <2> QED
      BY <2>4, <2>5
  <1>12. CASE rb_snapshot
    <2>1. /\ At("rb_snapshot") /\ UNCHANGED <<current, discarded, transaction, receipts>>
          /\ Arguments
          /\ \/ job'.pc = "rb_prepared" /\ restored' # None
             \/ job'.pc = "rb_undo_delete"
      <3>1. [data |-> checkpoints[job.id], base |-> job.id] # None
        <4>1. [data |-> checkpoints[job.id], base |-> job.id] \in Tree
          BY <1>0, <1>12 DEF rb_snapshot, JobHasArguments, RollbackSteps, At, TypeOK, Tree, IdOrNone
        <4> QED
          BY <1>0, <4>1
      <3> QED
        BY <1>0, <1>12, <3>1, GotoFields DEF rb_snapshot, files, Pcs
    <2>4. TreesFollowJob'
      BY <1>0, <2>1
      DEF Arguments, TreesFollowJob, JobHasArguments, RollbackSteps, Deferred, At
    <2>5. ReceiptsFollowCommit' /\ ReceiptDecidesDiscard'
      BY <1>0, <2>1
      DEF Arguments, TreesFollowJob, ReceiptsFollowCommit, ReceiptDecidesDiscard, JobHasArguments,
          CommittedDeferred, RollbackSteps, Deferred, At
    <2> QED
      BY <2>4, <2>5
  <1>13. CASE rb_prepared
    <2>1. At("rb_prepared") /\ job'.pc = "rb_move" /\ Arguments
      BY <1>0, <1>13, GotoFields DEF rb_prepared, Pcs
    <2>2. /\ transaction # None /\ transaction' # None
          /\ transaction'.phase = "prepared" /\ transaction'.old = transaction.old
          /\ transaction'.rid = transaction.rid
      <3>1. transaction # None
        BY <1>0, <1>13 DEF rb_prepared, At, JobHasArguments, RollbackSteps
      <3> QED
        BY <1>0, <1>13, <3>1, SetPhaseFields DEF rb_prepared, Phases
    <2>4. TreesFollowJob'
      BY <1>0, <1>13, <2>1, <2>2
      DEF rb_prepared, Arguments, TreesFollowJob, JobHasArguments, RollbackSteps, Deferred, At, trees, files, rest
    <2>5. ReceiptsFollowCommit' /\ ReceiptDecidesDiscard'
      BY <1>0, <1>13, <2>1, <2>2
      DEF rb_prepared, Arguments, TreesFollowJob, ReceiptsFollowCommit, ReceiptDecidesDiscard, JobHasArguments,
          CommittedDeferred, RollbackSteps, Deferred, At, trees, files, rest
    <2> QED
      BY <2>4, <2>5
  <1>14. CASE rb_move
    <2>1. At("rb_move") /\ job'.pc = "rb_moved" /\ Arguments
      BY <1>0, <1>14, GotoFields DEF rb_move, Pcs
    <2>2. current # None /\ transaction # None /\ transaction.old = current
      BY <1>0, <2>1 DEF TreesFollowJob, JobHasArguments, RollbackSteps, At, Transaction
    <2>4. TreesFollowJob'
      BY <1>0, <1>14, <2>1, <2>2
      DEF rb_move, Arguments, TreesFollowJob, JobHasArguments, RollbackSteps, Deferred, At, trees, files, rest
    <2>5. ReceiptsFollowCommit' /\ ReceiptDecidesDiscard'
      BY <1>0, <1>14, <2>1, <2>2
      DEF rb_move, Arguments, TreesFollowJob, ReceiptsFollowCommit, ReceiptDecidesDiscard, JobHasArguments,
          CommittedDeferred, RollbackSteps, Deferred, At, trees, files, rest
    <2> QED
      BY <2>4, <2>5
  <1>15. CASE rb_moved
    <2>1. At("rb_moved") /\ job'.pc = "rb_install" /\ Arguments
      BY <1>0, <1>15, GotoFields DEF rb_moved, Pcs
    <2>2. /\ transaction # None /\ transaction' # None
          /\ transaction'.phase = "old_moved" /\ transaction'.old = transaction.old
          /\ transaction'.rid = transaction.rid
      <3>1. transaction # None
        BY <1>0, <1>15 DEF rb_moved, At, JobHasArguments, RollbackSteps
      <3> QED
        BY <1>0, <1>15, <3>1, SetPhaseFields DEF rb_moved, Phases
    <2>4. TreesFollowJob'
      BY <1>0, <1>15, <2>1, <2>2
      DEF rb_moved, Arguments, TreesFollowJob, JobHasArguments, RollbackSteps, Deferred, At, trees, files, rest
    <2>5. ReceiptsFollowCommit' /\ ReceiptDecidesDiscard'
      BY <1>0, <1>15, <2>1, <2>2
      DEF rb_moved, Arguments, TreesFollowJob, ReceiptsFollowCommit, ReceiptDecidesDiscard, JobHasArguments,
          CommittedDeferred, RollbackSteps, Deferred, At, trees, files, rest
    <2> QED
      BY <2>4, <2>5
  <1>16. CASE rb_install
    <2>1. /\ At("rb_install") /\ UNCHANGED <<discarded, transaction, receipts>> /\ Arguments
          /\ \/ /\ current' = restored /\ restored' = None
                /\ job'.pc = IF Deferred THEN "rb_save" ELSE "rb_commit"
             \/ job'.pc = "rb_undo" /\ UNCHANGED <<current, restored>>
      BY <1>0, <1>16, GotoFields DEF rb_install, files, Pcs
    <2>4. TreesFollowJob'
      BY <1>0, <2>1
      DEF Arguments, TreesFollowJob, JobHasArguments, RollbackSteps, Deferred, At
    <2>5. ReceiptsFollowCommit' /\ ReceiptDecidesDiscard'
      BY <1>0, <2>1
      DEF Arguments, TreesFollowJob, ReceiptsFollowCommit, ReceiptDecidesDiscard, JobHasArguments,
          CommittedDeferred, RollbackSteps, Deferred, At
    <2> QED
      BY <2>4, <2>5
  <1>17. CASE rb_undo
    <2>1. At("rb_undo") /\ job'.pc = "rb_undo_delete" /\ Arguments
      BY <1>0, <1>17, GotoFields DEF rb_undo, Pcs
    <2>4. TreesFollowJob'
      BY <1>0, <1>17, <2>1
      DEF rb_undo, Arguments, TreesFollowJob, JobHasArguments, RollbackSteps, Deferred, At, trees, files, rest
    <2>5. ReceiptsFollowCommit' /\ ReceiptDecidesDiscard'
      BY <1>0, <1>17, <2>1
      DEF rb_undo, Arguments, TreesFollowJob, ReceiptsFollowCommit, ReceiptDecidesDiscard, JobHasArguments,
          CommittedDeferred, RollbackSteps, Deferred, At, trees, files, rest
    <2> QED
      BY <2>4, <2>5
  <1>18. CASE rb_undo_delete
    <2>1. At("rb_undo_delete") /\ job'.pc = "rb_undo_clear" /\ Arguments
      BY <1>0, <1>18, GotoFields DEF rb_undo_delete, Pcs
    <2>4. TreesFollowJob'
      BY <1>0, <1>18, <2>1
      DEF rb_undo_delete, Arguments, TreesFollowJob, JobHasArguments, RollbackSteps, Deferred, At, trees, files, rest
    <2>5. ReceiptsFollowCommit' /\ ReceiptDecidesDiscard'
      BY <1>0, <1>18, <2>1
      DEF rb_undo_delete, Arguments, TreesFollowJob, ReceiptsFollowCommit, ReceiptDecidesDiscard, JobHasArguments,
          CommittedDeferred, RollbackSteps, Deferred, At, trees, files, rest
    <2> QED
      BY <2>4, <2>5
  <1>19. CASE rb_commit
    <2>2. /\ transaction # None /\ transaction' # None
          /\ transaction'.phase = "committed" /\ transaction'.old = transaction.old
          /\ transaction'.rid = transaction.rid
      <3>1. transaction # None
        BY <1>0, <1>19 DEF rb_commit, At, JobHasArguments, RollbackSteps
      <3> QED
        BY <1>0, <1>19, <3>1, SetPhaseFields DEF rb_commit, Phases
    <2>1. /\ At("rb_commit") /\ UNCHANGED <<trees, receipts>>
          /\ \/ Deferred /\ job'.pc = "idle"
             \/ ~Deferred /\ job'.pc = "rb_delete"
      BY <1>0, <1>19, GotoFields, IdleFields DEF rb_commit, Done, Pcs
    <2>4. TreesFollowJob'
      BY <1>0, <2>1, <2>2
      DEF TreesFollowJob, JobHasArguments, RollbackSteps, Deferred, At, trees
    <2>5. ReceiptsFollowCommit' /\ ReceiptDecidesDiscard'
      BY <1>0, <2>1, <2>2
      DEF TreesFollowJob, ReceiptsFollowCommit, ReceiptDecidesDiscard, JobHasArguments,
          CommittedDeferred, RollbackSteps, Deferred, At, trees
    <2> QED
      BY <2>4, <2>5
  <1>20. CASE rb_delete
    <2>1. At("rb_delete") /\ job'.pc = "rb_save" /\ Arguments
      BY <1>0, <1>20, GotoFields DEF rb_delete, Pcs
    <2>4. TreesFollowJob'
      BY <1>0, <1>20, <2>1
      DEF rb_delete, Arguments, TreesFollowJob, JobHasArguments, RollbackSteps, Deferred, At, trees, files, rest
    <2>5. ReceiptsFollowCommit' /\ ReceiptDecidesDiscard'
      BY <1>0, <1>20, <2>1
      DEF rb_delete, Arguments, TreesFollowJob, ReceiptsFollowCommit, ReceiptDecidesDiscard, JobHasArguments,
          CommittedDeferred, RollbackSteps, Deferred, At, trees, files, rest
    <2> QED
      BY <2>4, <2>5
  <1>21. CASE rb_save
    <2>1. /\ At("rb_save") /\ UNCHANGED <<trees, transaction, receipts>> /\ Arguments
          /\ job'.pc = IF Deferred THEN "rb_commit" ELSE "rb_clear"
      BY <1>0, <1>21, GotoFields DEF rb_save, Pcs
    <2>4. TreesFollowJob'
      BY <1>0, <2>1
      DEF Arguments, TreesFollowJob, JobHasArguments, RollbackSteps, Deferred, At, trees
    <2>5. ReceiptsFollowCommit' /\ ReceiptDecidesDiscard'
      BY <1>0, <2>1
      DEF Arguments, TreesFollowJob, ReceiptsFollowCommit, ReceiptDecidesDiscard, JobHasArguments,
          CommittedDeferred, RollbackSteps, Deferred, At, trees
    <2> QED
      BY <2>4, <2>5
  <1>22. CASE rb_clear
    <2>1. job'.pc = "idle"
      BY <1>22, IdleFields DEF rb_clear, Done
    <2>4. TreesFollowJob'
      BY <1>0, <1>22, <2>1
      DEF rb_clear, TreesFollowJob, JobHasArguments, RollbackSteps, Deferred, At, trees, files, rest
    <2>5. ReceiptsFollowCommit' /\ ReceiptDecidesDiscard'
      BY <1>0, <1>22, <2>1
      DEF rb_clear, TreesFollowJob, ReceiptsFollowCommit, ReceiptDecidesDiscard, JobHasArguments,
          CommittedDeferred, RollbackSteps, Deferred, At, trees, files, rest
    <2> QED
      BY <2>4, <2>5
  <1>23. CASE cd_delete
    <2>1. At("cd_delete") /\ job'.pc = "cd_receipt" /\ Arguments
      BY <1>0, <1>23, GotoFields DEF cd_delete, Pcs
    <2>4. TreesFollowJob'
      BY <1>0, <1>23, <2>1
      DEF cd_delete, Arguments, TreesFollowJob, JobHasArguments, RollbackSteps, Deferred, At, trees, files, rest
    <2>5. ReceiptsFollowCommit' /\ ReceiptDecidesDiscard'
      BY <1>0, <1>23, <2>1
      DEF cd_delete, Arguments, TreesFollowJob, ReceiptsFollowCommit, ReceiptDecidesDiscard, JobHasArguments,
          CommittedDeferred, RollbackSteps, Deferred, At, trees, files, rest
    <2> QED
      BY <2>4, <2>5
  <1>24. CASE cd_receipt
    <2>1. At("cd_receipt") /\ job'.pc = "cd_clear" /\ Arguments
      BY <1>0, <1>24, GotoFields DEF cd_receipt, Pcs
    <2>2. /\ receipts'[transaction.rid] = "completed"
          /\ \A r \in RecoveryIds : r # transaction.rid => receipts'[r] = receipts[r]
      BY <1>0, <1>24 DEF cd_receipt, JobHasArguments, At, TypeOK
    <2>4. TreesFollowJob'
      BY <1>0, <1>24, <2>1, <2>2
      DEF cd_receipt, Arguments, TreesFollowJob, JobHasArguments, RollbackSteps, Deferred, At, trees, files, rest
    <2>5. ReceiptsFollowCommit' /\ ReceiptDecidesDiscard'
      BY <1>0, <1>24, <2>1, <2>2
      DEF cd_receipt, Arguments, TreesFollowJob, ReceiptsFollowCommit, ReceiptDecidesDiscard, JobHasArguments,
          CommittedDeferred, RollbackSteps, Deferred, At, trees, files, rest
    <2> QED
      BY <2>4, <2>5
  <1>25. CASE cd_clear
    <2>1. job'.pc = "idle"
      BY <1>25, IdleFields DEF cd_clear, Done, RecoveryDone
    <2>4. TreesFollowJob'
      BY <1>0, <1>25, <2>1
      DEF cd_clear, TreesFollowJob, JobHasArguments, RollbackSteps, Deferred, At, trees, files, rest
    <2>5. ReceiptsFollowCommit' /\ ReceiptDecidesDiscard'
      BY <1>0, <1>25, <2>1
      DEF cd_clear, TreesFollowJob, ReceiptsFollowCommit, ReceiptDecidesDiscard, JobHasArguments,
          CommittedDeferred, RollbackSteps, Deferred, At, trees, files, rest
    <2> QED
      BY <2>4, <2>5
  <1>26. CASE rc_delete_discard
    <2>1. At("rc_delete_discard") /\ job'.pc = "rc_delete_restore" /\ Arguments
      BY <1>0, <1>26, GotoFields DEF rc_delete_discard, Pcs
    <2>4. TreesFollowJob'
      BY <1>0, <1>26, <2>1
      DEF rc_delete_discard, Arguments, TreesFollowJob, JobHasArguments, RollbackSteps, Deferred, At, trees, files, rest
    <2>5. ReceiptsFollowCommit' /\ ReceiptDecidesDiscard'
      BY <1>0, <1>26, <2>1
      DEF rc_delete_discard, Arguments, TreesFollowJob, ReceiptsFollowCommit, ReceiptDecidesDiscard, JobHasArguments,
          CommittedDeferred, RollbackSteps, Deferred, At, trees, files, rest
    <2> QED
      BY <2>4, <2>5
  <1>27. CASE rc_delete_restore
    <2>1. /\ At("rc_delete_restore") /\ restored' = None
          /\ UNCHANGED <<current, discarded, transaction, receipts>> /\ Arguments
          /\ \/ job.flag = TRUE /\ job'.pc = "rc_save"
             \/ job.flag = FALSE /\ job'.pc = "cd_clear"
      BY <1>0, <1>27, GotoFields DEF rc_delete_restore, files, Pcs, TypeOK, Job
    <2>4. TreesFollowJob'
      BY <1>0, <2>1
      DEF Arguments, TreesFollowJob, JobHasArguments, RollbackSteps, Deferred, At
    <2>5. ReceiptsFollowCommit' /\ ReceiptDecidesDiscard'
      BY <1>0, <2>1
      DEF Arguments, TreesFollowJob, ReceiptsFollowCommit, ReceiptDecidesDiscard, JobHasArguments,
          CommittedDeferred, RollbackSteps, Deferred, At
    <2> QED
      BY <2>4, <2>5
  <1>28. CASE rc_save
    <2>1. /\ At("rc_save") /\ UNCHANGED <<trees, transaction, receipts>>
          /\ \/ job'.pc = "idle"
             \/ /\ ~(Deferred /\ (discarded = None \/ restored # None)) /\ Arguments
                /\ job'.pc = IF Deferred THEN "rc_commit" ELSE "cd_clear"
      <3>1. CASE Done
        BY <1>28, <3>1, IdleFields DEF rc_save, Done
      <3>2. CASE /\ ~(Deferred /\ (discarded = None \/ restored # None))
                 /\ Goto(IF Deferred THEN "rc_commit" ELSE "cd_clear")
        BY <1>0, <1>28, <3>2, GotoFields DEF rc_save, Pcs
      <3> QED
        BY <1>28, <3>1, <3>2 DEF rc_save, RecoveryRaises
    <2>4. TreesFollowJob'
      BY <1>0, <2>1
      DEF Arguments, TreesFollowJob, JobHasArguments, RollbackSteps, Deferred, At, trees
    <2>5. ReceiptsFollowCommit' /\ ReceiptDecidesDiscard'
      BY <1>0, <2>1
      DEF Arguments, TreesFollowJob, ReceiptsFollowCommit, ReceiptDecidesDiscard, JobHasArguments,
          CommittedDeferred, RollbackSteps, Deferred, At, trees
    <2> QED
      BY <2>4, <2>5
  <1>29. CASE rc_commit
    <2>2. /\ transaction # None /\ transaction' # None
          /\ transaction'.phase = "committed" /\ transaction'.old = transaction.old
          /\ transaction'.rid = transaction.rid
      <3>1. transaction # None
        BY <1>0, <1>29 DEF rc_commit, At, JobHasArguments, RollbackSteps
      <3> QED
        BY <1>0, <1>29, <3>1, SetPhaseFields DEF rc_commit, Phases
    <2>1. At("rc_commit") /\ UNCHANGED <<trees, receipts>> /\ job'.pc = "idle"
      BY <1>29, IdleFields DEF rc_commit, RecoveryDone, Done
    <2>4. TreesFollowJob'
      BY <1>0, <2>1, <2>2
      DEF TreesFollowJob, JobHasArguments, RollbackSteps, Deferred, At, trees
    <2>5. ReceiptsFollowCommit' /\ ReceiptDecidesDiscard'
      BY <1>0, <2>1, <2>2
      DEF TreesFollowJob, ReceiptsFollowCommit, ReceiptDecidesDiscard, JobHasArguments,
          CommittedDeferred, RollbackSteps, Deferred, At, trees
    <2> QED
      BY <2>4, <2>5
  <1>30. CASE recover_nothing
    <2>1. job'.pc = "idle"
      BY <1>30, IdleFields DEF recover_nothing, Done, RecoveryDone
    <2>4. TreesFollowJob'
      BY <1>0, <1>30, <2>1
      DEF recover_nothing, TreesFollowJob, JobHasArguments, RollbackSteps, Deferred, At, trees, files, rest
    <2>5. ReceiptsFollowCommit' /\ ReceiptDecidesDiscard'
      BY <1>0, <1>30, <2>1
      DEF recover_nothing, TreesFollowJob, ReceiptsFollowCommit, ReceiptDecidesDiscard, JobHasArguments,
          CommittedDeferred, RollbackSteps, Deferred, At, trees, files, rest
    <2> QED
      BY <2>4, <2>5
  <1>31. CASE recover_committed_deferred
    <2>1. /\ UNCHANGED <<trees, transaction, receipts>> /\ CommittedDeferred
          /\ \/ job'.pc = "idle"
             \/ /\ job'.pc = "cd_delete" /\ job'.rid = transaction.rid
                /\ DeferredIntact /\ receipts[transaction.rid] # "none"
      <3>1. CASE Done
        BY <1>31, <3>1, IdleFields DEF recover_committed_deferred, Done
      <3>2. CASE /\ DeferredIntact /\ receipts[transaction.rid] # "none"
                 /\ job' = [Idle EXCEPT !.pc = "cd_delete", !.rid = transaction.rid]
        BY <1>31, <3>2, IdleFields DEF recover_committed_deferred, Job
      <3> QED
        BY <1>31, <3>1, <3>2 DEF recover_committed_deferred, RecoveryRaises, RecoveryDone
    <2>4. TreesFollowJob'
      BY <1>0, <2>1
      DEF DeferredIntact, CommittedDeferred, TreesFollowJob, JobHasArguments, RollbackSteps, Deferred, At, trees
    <2>5. ReceiptsFollowCommit' /\ ReceiptDecidesDiscard'
      BY <1>0, <2>1
      DEF DeferredIntact, CommittedDeferred, TreesFollowJob, ReceiptsFollowCommit, ReceiptDecidesDiscard, JobHasArguments,
          RollbackSteps, Deferred, At, trees
    <2> QED
      BY <2>4, <2>5
  <1>32. CASE recover_swap
    <2> DEFINE forward == restored # None /\ transaction.phase # "preparing"
               commit == IF current # None THEN transaction.phase \in swapped_phases
                         ELSE forward
    <2>1. /\ job.pc = "idle" /\ transaction # None /\ ~CommittedDeferred
          /\ UNCHANGED <<transaction, receipts>>
          /\ \/ current # None /\ UNCHANGED trees
             \/ current = None /\ forward /\ current' = restored /\ restored' = None /\ discarded' = discarded
             \/ current = None /\ ~forward /\ current' = discarded /\ discarded' = None /\ restored' = restored
      BY <1>32, IdleFields DEF recover_swap, Recovering, files
    <2>2. \/ Done
          \/ /\ ~(current = None /\ ~forward /\ discarded = None)
             /\ job' = [Idle EXCEPT !.flag = commit, !.pc =
                          IF Deferred /\ commit THEN "rc_save" ELSE "rc_delete_discard"]
      BY <1>32 DEF recover_swap, RecoveryRaises
    <2>3. \/ job'.pc = "idle"
          \/ /\ ~(current = None /\ ~forward /\ discarded = None)
             /\ \/ Deferred /\ commit /\ job'.pc = "rc_save"
                \/ ~(Deferred /\ commit) /\ job'.pc = "rc_delete_discard"
             /\ job'.flag <=> commit
      <3>1. commit \in BOOLEAN
        <4>1. CASE current # None
          BY <4>1
        <4>2. CASE current = None
          BY <4>2
        <4> QED
          BY <4>1, <4>2
      <3> HIDE DEF commit, forward
      <3>2. CASE Done
        BY <3>2, IdleFields DEF Done
      <3>3. CASE /\ ~(current = None /\ ~forward /\ discarded = None)
                 /\ job' = [Idle EXCEPT !.flag = commit, !.pc =
                              IF Deferred /\ commit THEN "rc_save" ELSE "rc_delete_discard"]
        <4>1. job'.pc = (IF Deferred /\ commit THEN "rc_save" ELSE "rc_delete_discard") /\ job'.flag = commit
          BY <3>3, IdleFields DEF Job
        <4> QED
          BY <3>1, <3>3, <4>1
      <3> QED
        BY <2>2, <3>2, <3>3
    <2>4. TreesFollowJob'
      BY <1>0, <2>1, <2>3
      DEF swapped_phases, Phases, Transaction, TreesFollowJob, JobHasArguments, RollbackSteps, Deferred, At, trees
    <2>5. ReceiptsFollowCommit' /\ ReceiptDecidesDiscard'
      BY <1>0, <2>1, <2>3
      DEF swapped_phases, Phases, Transaction, TreesFollowJob, ReceiptsFollowCommit, ReceiptDecidesDiscard, JobHasArguments,
          CommittedDeferred, RollbackSteps, Deferred, At, trees
    <2> QED
      BY <2>4, <2>5
  <1>33. CASE \E r \in Readers : read_index(r) \/ reconcile_index(r) \/ write_back_index(r)
    <2>1. UNCHANGED <<trees, transaction, receipts, job>>
      BY <1>33 DEF read_index, reconcile_index, write_back_index, files
    <2>4. TreesFollowJob'
      BY <1>0, <2>1
      DEF TreesFollowJob, JobHasArguments, RollbackSteps, Deferred, At, trees
    <2>5. ReceiptsFollowCommit' /\ ReceiptDecidesDiscard'
      BY <1>0, <2>1
      DEF TreesFollowJob, ReceiptsFollowCommit, ReceiptDecidesDiscard, JobHasArguments,
          CommittedDeferred, RollbackSteps, Deferred, At, trees
    <2> QED
      BY <2>4, <2>5
  <1>34. CASE describe \/ release_fence \/ UNCHANGED vars
    <2>1. UNCHANGED <<trees, transaction, receipts, job>>
      BY <1>34 DEF describe, release_fence, vars, trees, files
    <2>4. TreesFollowJob'
      BY <1>0, <2>1
      DEF TreesFollowJob, JobHasArguments, RollbackSteps, Deferred, At, trees
    <2>5. ReceiptsFollowCommit' /\ ReceiptDecidesDiscard'
      BY <1>0, <2>1
      DEF TreesFollowJob, ReceiptsFollowCommit, ReceiptDecidesDiscard, JobHasArguments,
          CommittedDeferred, RollbackSteps, Deferred, At, trees
    <2> QED
      BY <2>4, <2>5
  <1>35. CASE raise \/ kill_helper \/ crash
    <2>1. UNCHANGED <<trees, transaction, receipts>> /\ (job'.pc = "idle" \/ job' = job)
      BY <1>35, IdleFields DEF raise, kill_helper, crash, RecoveryRaises, Done, files
    <2>4. TreesFollowJob'
      BY <1>0, <2>1
      DEF TreesFollowJob, JobHasArguments, RollbackSteps, Deferred, At, trees
    <2>5. ReceiptsFollowCommit' /\ ReceiptDecidesDiscard'
      BY <1>0, <2>1
      DEF TreesFollowJob, ReceiptsFollowCommit, ReceiptDecidesDiscard, JobHasArguments,
          CommittedDeferred, RollbackSteps, Deferred, At, trees
    <2> QED
      BY <2>4, <2>5
  <1> QED
    BY <1>1, <1>2, <1>3, <1>4, <1>5, <1>6, <1>7, <1>8, <1>9, <1>10,
       <1>11, <1>12, <1>13, <1>14, <1>15, <1>16, <1>17, <1>18, <1>19, <1>20,
       <1>21, <1>22, <1>23, <1>24, <1>25, <1>26, <1>27, <1>28, <1>29, <1>30,
       <1>31, <1>32, <1>33, <1>34, <1>35 DEF Next, JobStep, Recover

\* In every reachable state the trees are where the position of the rollback's
\* job says, and receipts and trees agree.
THEOREM TreeInvariant == Spec => []TreeIInv
  <1>1. Init => TreeIInv
    BY IdleFields DEF Init, TreeIInv, TreesFollowJob, ReceiptsFollowCommit,
       ReceiptDecidesDiscard, CommittedDeferred, Deferred, At
  <1>2. IndexIInv /\ TreeIInv /\ [Next]_vars => TreeIInv'
    BY TreeStep
  <1> QED
    BY <1>1, <1>2, StoreInvariant, PTL DEF Spec

\* A Session without a transaction record has no .restore- or .discard- tree:
\* NoLeftovers, whatever steps raise and wherever the daemon or the helper dies.
THEOREM NothingIsLeftOver == Spec => []NoLeftovers
  <1>1. TreeIInv => NoLeftovers
    BY DEF TreeIInv, TreesFollowJob, NoLeftovers
  <1> QED
    BY <1>1, TreeInvariant, PTL

\* The tree a deferred rollback replaced is kept until its receipt authorises
\* the deletion, and gone once the receipt says completed: ReceiptDecidesDiscard.
THEOREM ReceiptsDecide == Spec => []ReceiptDecidesDiscard
  <1>1. TreeIInv => ReceiptDecidesDiscard
    BY DEF TreeIInv
  <1> QED
    BY <1>1, TreeInvariant, PTL

\* No step takes away the last tree of a Session.
LEMMA WorkspaceStep ==
  ASSUME IndexIInv, TreeIInv, [Next]_vars, HasWorkspace
  PROVE  HasWorkspace'
  <1>0. /\ TypeOK /\ JobHasArguments /\ TreesFollowJob
        /\ \A t \in Tree : t # None
        /\ transaction # None => transaction \in Transaction /\ transaction.old \in Tree
    BY NothingAssumption DEF IndexIInv, TreeIInv, TypeOK, Transaction
  <1>1. CASE create_session
    <2>1. [data |-> EmptyData, base |-> None] \in Tree
      BY EmptyDataAssumption DEF Tree, IdOrNone
    <2> QED
      BY <1>0, <1>1, <2>1 DEF create_session, HasWorkspace
  <1>2. CASE \E d \in Data : write_workspace(d)
    <2>1. PICK d \in Data : write_workspace(d)
      BY <1>2
    <2>2. current' \in Tree
      BY <1>0, <2>1 DEF write_workspace, TypeOK, Tree
    <2> QED
      BY <1>0, <2>2 DEF HasWorkspace
  <1>3. CASE cc_save \/ dc_save
    <2>1. job.id \in IdOrNone /\ job.mem.head \in IdOrNone
      BY <1>0 DEF TypeOK, Job, Index
    <2>2. current' = None <=> current = None
      BY <1>0, <1>3, <2>1, RebasedType DEF cc_save, dc_save, TypeOK
    <2> QED
      BY <1>3, <2>2 DEF cc_save, dc_save, HasWorkspace
  <1>4. CASE \E cp \in Ids, rid \in RecoveryIds \cup {None} : rollback(cp, rid)
    BY <1>4 DEF rollback, HasWorkspace, trees
  <1>5. CASE rb_snapshot
    BY <1>0, <1>5 DEF rb_snapshot, TreesFollowJob, JobHasArguments, RollbackSteps, At, HasWorkspace
  <1>6. CASE rb_move
    BY <1>0, <1>6 DEF rb_move, TreesFollowJob, JobHasArguments, RollbackSteps, At, HasWorkspace, files
  <1>7. CASE rb_install
    BY <1>0, <1>7 DEF rb_install, TreesFollowJob, JobHasArguments, RollbackSteps, At, HasWorkspace, files
  <1>8. CASE rb_undo
    BY <1>0, <1>8 DEF rb_undo, TreesFollowJob, At, HasWorkspace
  <1>9. CASE rb_undo_delete \/ rb_delete \/ cd_delete \/ rc_delete_discard \/ rc_delete_restore
    BY <1>0, <1>9 DEF rb_undo_delete, rb_delete, cd_delete, rc_delete_discard, rc_delete_restore,
       TreesFollowJob, At, HasWorkspace
  <1>10. CASE rb_clear \/ cd_clear
    BY <1>0, <1>10 DEF rb_clear, cd_clear, TreesFollowJob, At, HasWorkspace, trees
  <1>11. CASE rb_prepared \/ rb_moved \/ rb_commit \/ rc_commit
    <2>1. transaction # None /\ \E phase \in Phases : SetPhase(phase)
      BY <1>0, <1>11 DEF rb_prepared, rb_moved, rb_commit, rc_commit, JobHasArguments,
         RollbackSteps, At, Phases
    <2>2. transaction' # None
      BY <1>0, <2>1, SetPhaseFields
    <2> QED
      BY <1>11, <2>2 DEF rb_prepared, rb_moved, rb_commit, rc_commit, HasWorkspace, trees
  <1>12. CASE recover_swap
    BY <1>12 DEF recover_swap, HasWorkspace, trees, files
  <1>13. CASE UNCHANGED <<trees, transaction>>
    BY <1>13 DEF HasWorkspace, trees
  <1>14. [Next]_vars =>
           \/ create_session \/ (\E d \in Data : write_workspace(d)) \/ cc_save \/ dc_save
           \/ (\E cp \in Ids, rid \in RecoveryIds \cup {None} : rollback(cp, rid))
           \/ rb_snapshot \/ rb_move \/ rb_install \/ rb_undo \/ rb_undo_delete \/ rb_delete
           \/ cd_delete \/ rc_delete_discard \/ rc_delete_restore \/ rb_clear \/ cd_clear
           \/ rb_prepared \/ rb_moved \/ rb_commit \/ rc_commit \/ recover_swap
           \/ UNCHANGED <<trees, transaction>>
    BY DEF Next, JobStep, Recover, cs_save, create_checkpoint, cc_snapshot, delete_checkpoint,
       dc_delete, complete_deferred_rollback, rb_save, cd_receipt, rc_save, recover_nothing,
       recover_committed_deferred, read_index, reconcile_index, write_back_index, describe,
       release_fence, raise, kill_helper, crash, vars, trees, files
  <1> QED
    BY <1>1, <1>2, <1>3, <1>4, <1>5, <1>6, <1>7, <1>8, <1>9, <1>10,
       <1>11, <1>12, <1>13, <1>14

\* A Session never loses its workspace, not even between the renames of a
\* rollback or in a recovery from a crash: WorkspaceSurvives.
THEOREM WorkspaceIsNeverLost == Spec => WorkspaceSurvives
  <1>1. IndexIInv /\ TreeIInv /\ [Next]_vars => [HasWorkspace => HasWorkspace']_vars
    BY WorkspaceStep
  <1> QED
    BY <1>1, StoreInvariant, TreeInvariant, PTL DEF Spec, WorkspaceSurvives

-----------------------------------------------------------------------------
(* Acknowledged checkpoints stay in the index *)

\* ix records every acknowledged checkpoint and its pin.
Records(ix) ==
  \A c \in Ids : /\ acked[c] # "none" => c \in ix.known
                 /\ acked[c] = "pinned" => c \in ix.pinned

LEMMA RecordsStep ==
  ASSUME IndexIInv, TreeIInv, RecordsAreKept, [Next]_vars
  PROVE  RecordsAreKept'
  <1> SUFFICES ASSUME Readers = {}, ~Recreate
               PROVE  RecordsAreKept'
    BY DEF RecordsAreKept
  <1> DEFINE Editing == RollbackSteps \cup {"cc_snapshot", "cc_save", "dc_delete", "dc_save"}
             Nothing == \A c \in Ids : acked[c] = "none"
             Entered == job.id \in job.mem.known /\ (job.flag => job.id \in job.mem.pinned)
             Kept == /\ Records(SavedIndex)
                     /\ ~HasWorkspace \/ At("cs_save") => Nothing
                     /\ job.pc \in Editing => Records(job.mem)
                     /\ At("cc_save") \/ At("cc_snapshot") => Entered
                     /\ At("dc_save") => acked[job.id] = "none"
  <1>0. /\ TypeOK /\ JobHasArguments /\ IndexesAreSound /\ TreesFollowJob /\ Kept
        /\ Sound(load_index) /\ load_index # None /\ load_index \in Index
        /\ Records(load_index)
    <2>1. TypeOK /\ JobHasArguments /\ IndexesAreSound /\ TreesFollowJob /\ Kept
      BY DEF IndexIInv, TreeIInv, RecordsAreKept, AckedIsRecorded, Records
    <2>2. /\ Sound(load_index) /\ load_index # None /\ load_index \in Index
          /\ SavedIndex.known \subseteq load_index.known
          /\ SavedIndex.pinned = load_index.pinned
      BY LoadIsSound
    <2> QED
      BY <2>1, <2>2 DEF Records
  <1> SUFFICES Kept'
    BY DEF RecordsAreKept, AckedIsRecorded, Records
  <1>w. HasWorkspace => HasWorkspace'
    BY WorkspaceStep
  \* A step that acknowledges nothing, leaves a file that records everything
  \* and no editor, or one with the arguments it had.
  <1>q. ASSUME UNCHANGED acked,
               indexFile' = indexFile \/ (indexFile' # None /\ Records(indexFile)'),
               \/ job'.pc \notin Editing \cup {"cs_save"}
               \/ /\ Arguments
                  /\ \/ job'.pc = job.pc
                     \/ job.pc \in RollbackSteps /\ job'.pc \in RollbackSteps
                     \/ job.pc = "cc_snapshot" /\ job'.pc = "cc_save"
        PROVE  Kept'
    <2>1. Records(SavedIndex)'
      BY <1>0, <1>q DEF Records, SavedIndex
    <2>2. (~HasWorkspace \/ At("cs_save") => Nothing)'
      BY <1>0, <1>q, <1>w DEF At, RollbackSteps
    <2>3. (job.pc \in Editing => Records(job.mem))'
      BY <1>0, <1>q DEF Arguments, Records, RollbackSteps
    <2>4. (At("cc_save") \/ At("cc_snapshot") => Entered)'
      BY <1>0, <1>q DEF Arguments, At, RollbackSteps
    <2>5. (At("dc_save") => acked[job.id] = "none")'
      BY <1>0, <1>q DEF Arguments, At, RollbackSteps
    <2> QED
      BY <2>1, <2>2, <2>3, <2>4, <2>5
  \* A step that saves what it loaded.
  <1>l. ASSUME UNCHANGED acked, indexFile' = load_index
        PROVE  indexFile' # None /\ Records(indexFile)'
    BY <1>0, <1>l DEF Records
  <1>m. ASSUME NEW c, NEW ix, Sound(ix), c \in ix.known, Records(ix),
               indexFile' = move_head(ix, c), UNCHANGED acked
        PROVE  indexFile' # None /\ Records(indexFile)'
    <2>1. ix \in Index /\ c \in Ids
      BY <1>m DEF Sound, Index
    <2>2. /\ move_head(ix, c) \in Index /\ move_head(ix, c).known = ix.known
          /\ move_head(ix, c).pinned = ix.pinned
      BY <2>1, MoveHeadFields
    <2> QED
      BY <1>m, <2>2, NothingAssumption DEF Records
  <1>1. CASE create_session
    <2>1. /\ job'.pc = "cs_save" /\ UNCHANGED <<indexFile, acked>> /\ ~HasWorkspace
      BY <1>0, <1>1, GotoFields DEF create_session, Pcs, HasWorkspace, files, rest
    <2> QED
      BY <1>0, <2>1 DEF At, Records, SavedIndex, RollbackSteps
  <1>2. CASE cs_save
    <2>1. /\ job'.pc = "idle" /\ UNCHANGED acked /\ Nothing
      BY <1>0, <1>2, IdleFields DEF cs_save, Done, rest
    <2> QED
      BY <2>1 DEF At, Records, RollbackSteps
  <1>3. CASE \E c \in Ids, pin \in BOOLEAN : create_checkpoint(c, pin)
    <2>1. PICK c \in Ids, pin \in BOOLEAN : create_checkpoint(c, pin)
      BY <1>3
    <2> DEFINE mem == add(load_index, c, pin)
    <2>2. /\ mem.known = load_index.known \cup {c}
          /\ load_index.pinned \subseteq mem.pinned
          /\ pin = TRUE => c \in mem.pinned
      <3>1. c \in Ids \ load_index.known
        BY <2>1 DEF create_checkpoint
      <3> QED
        BY <1>0, <3>1, AddIsSound
    <2>3. /\ job'.pc = "cc_snapshot" /\ job'.id = c /\ job'.flag = pin /\ job'.mem = mem
      BY <2>1, IdleFields DEF create_checkpoint, Job
    <2> HIDE DEF mem
    <2>4. /\ UNCHANGED acked /\ indexFile' = load_index
      BY <2>1 DEF create_checkpoint, rest
    <2>5. Records(SavedIndex)' /\ Records(job.mem)'
      BY <1>0, <1>l, <2>2, <2>3, <2>4 DEF Records, SavedIndex
    <2>6. HasWorkspace'
      BY <1>w, <2>1 DEF create_checkpoint, HasWorkspace
    <2>7. Entered'
      BY <2>2, <2>3
    <2> QED
      BY <2>3, <2>5, <2>6, <2>7 DEF At
  <1>4. CASE cc_save
    <2>1. /\ job'.pc = "idle" /\ indexFile' = job.mem /\ job.id \in Ids
          /\ acked' = [acked EXCEPT ![job.id] = IF job.flag THEN "pinned" ELSE "plain"]
      BY <1>0, <1>4, IdleFields DEF cc_save, Done, JobHasArguments, At
    <2>2. HasWorkspace'
      BY <1>0, <1>4, <1>w DEF cc_save, JobHasArguments, HasWorkspace
    <2>3. job.mem # None
      BY <1>0, NothingAssumption DEF TypeOK, Job
    <2>4. Records(job.mem) /\ Entered
      BY <1>0, <1>4 DEF cc_save, At
    <2>5. Records(SavedIndex)'
      BY <1>0, <2>1, <2>3, <2>4 DEF Records, SavedIndex, TypeOK
    <2> QED
      BY <2>1, <2>2, <2>5 DEF At, RollbackSteps
  <1>5. CASE \E name \in DOMAIN Matches, force \in BOOLEAN : delete_checkpoint(name, force)
    <2>1. PICK name \in DOMAIN Matches, force \in BOOLEAN : delete_checkpoint(name, force)
      BY <1>5
    <2>2. /\ job'.pc = "dc_delete" /\ job'.mem = load_index
          /\ UNCHANGED acked /\ indexFile' = load_index
      BY <2>1, IdleFields DEF delete_checkpoint, Job, rest
    <2>3. Records(SavedIndex)' /\ Records(job.mem)'
      BY <1>0, <2>2 DEF Records, SavedIndex
    <2>4. ~HasWorkspace' => Nothing'
      BY <1>0, <1>w, <2>2
    <2> QED
      BY <2>2, <2>3, <2>4 DEF At
  <1>6. CASE dc_delete
    <2>1. /\ job'.pc = "dc_save" /\ job'.id = job.id /\ job'.mem = remove(job.mem, job.id)
          /\ acked' = [acked EXCEPT ![job.id] = "none"] /\ indexFile' = indexFile
          /\ job.id \in Ids /\ job.id \in job.mem.known /\ Sound(job.mem) /\ Records(job.mem)
      BY <1>0, <1>6 DEF dc_delete, JobHasArguments, IndexesAreSound, TypeOK, Job, At, files
    <2>2. /\ remove(job.mem, job.id).known = job.mem.known \ {job.id}
          /\ remove(job.mem, job.id).pinned = job.mem.pinned \ {job.id}
      BY <2>1, RemoveFields
    <2>3. /\ acked'[job.id] = "none"
          /\ \A c \in Ids : acked'[c] \in {"none", acked[c]}
          /\ \A c \in Ids \ {job.id} : acked'[c] = acked[c]
      BY <1>0, <2>1 DEF TypeOK
    <2>4. Records(SavedIndex)' /\ Records(job.mem)'
      BY <1>0, <2>1, <2>2, <2>3 DEF Records, SavedIndex
    <2>5. ~HasWorkspace' => Nothing'
      BY <1>0, <1>w, <2>3
    <2> QED
      BY <2>1, <2>3, <2>4, <2>5 DEF At
  <1>7. CASE dc_save
    <2>1. /\ job'.pc = "idle" /\ indexFile' = job.mem /\ UNCHANGED acked /\ Records(job.mem)
      BY <1>0, <1>7, IdleFields DEF dc_save, Done, At, rest
    <2>2. job.mem # None
      BY <1>0, NothingAssumption DEF TypeOK, Job
    <2>3. Records(indexFile)'
      BY <2>1 DEF Records
    <2> QED
      BY <1>q, <2>1, <2>2, <2>3 DEF RollbackSteps
  <1>8. CASE \E cp \in Ids, rid \in RecoveryIds \cup {None} : rollback(cp, rid)
    <2>1. PICK cp \in Ids, rid \in RecoveryIds \cup {None} : rollback(cp, rid)
      BY <1>8
    <2>2. /\ job'.pc = "rb_snapshot" /\ job'.mem = load_index
          /\ UNCHANGED acked /\ indexFile' = load_index
      BY <2>1, IdleFields DEF rollback, Job
    <2>3. Records(SavedIndex)' /\ Records(job.mem)'
      BY <1>0, <2>2 DEF Records, SavedIndex
    <2>4. ~HasWorkspace' => Nothing'
      BY <1>0, <1>w, <2>2
    <2> QED
      BY <2>2, <2>3, <2>4 DEF At
  <1>9. CASE rb_save
    <2>1. /\ job'.pc \in {"rb_commit", "rb_clear"} /\ job.pc = "rb_save" /\ Arguments
          /\ indexFile' = move_head(job.mem, job.id) /\ UNCHANGED acked
      BY <1>0, <1>9, GotoFields DEF rb_save, Pcs, At, rest
    <2>2. Sound(job.mem) /\ job.id \in job.mem.known /\ Records(job.mem)
      BY <1>0, <2>1 DEF IndexesAreSound, JobHasArguments, RollbackSteps
    <2>3. indexFile' # None /\ Records(indexFile)'
      BY <1>m, <2>1, <2>2
    <2> QED
      BY <1>q, <2>1, <2>3 DEF RollbackSteps
  <1>10. CASE rc_save
    <2>1. /\ UNCHANGED acked /\ job'.pc \in {"idle", "rc_commit", "cd_clear"}
      BY <1>0, <1>10, GotoFields, IdleFields DEF rc_save, RecoveryRaises, Done, Pcs
    <2>2. \/ indexFile' \in {indexFile, load_index}
          \/ \E c \in load_index.known : indexFile' = move_head(load_index, c)
      BY <1>10, ResolveFinds DEF rc_save
    <2>3. indexFile' = indexFile \/ (indexFile' # None /\ Records(indexFile)')
      BY <1>0, <1>l, <1>m, <2>1, <2>2
    <2> QED
      BY <1>q, <2>1, <2>3 DEF RollbackSteps
  <1>11. CASE complete_deferred_rollback \/ recover_committed_deferred
    <2>1. /\ UNCHANGED acked /\ job'.pc \in {"idle", "cd_delete"}
          /\ indexFile' \in {indexFile, load_index}
      BY <1>11, IdleFields DEF complete_deferred_rollback, recover_committed_deferred,
         RecoveryRaises, RecoveryDone, Done, Job, rest
    <2> QED
      BY <1>q, <1>l, <2>1 DEF RollbackSteps
  <1>12. CASE describe
    BY <1>q, <1>l, <1>12 DEF describe, rest, Arguments
  <1>13. CASE cc_snapshot
    BY <1>0, <1>q, <1>13, GotoFields DEF cc_snapshot, Pcs, At, files, rest
  <1>14. CASE \/ rb_snapshot \/ rb_prepared \/ rb_move \/ rb_moved \/ rb_install \/ rb_undo
              \/ rb_undo_delete \/ rb_commit \/ rb_delete
    <2>1. /\ job'.pc = "idle" \/ (job.pc \in RollbackSteps /\ job'.pc \in RollbackSteps /\ Arguments)
          /\ UNCHANGED <<indexFile, acked>>
      BY <1>0, <1>14, GotoFields, IdleFields DEF rb_snapshot, rb_prepared, rb_move, rb_moved,
         rb_install, rb_undo, rb_undo_delete, rb_commit, rb_delete, Done, Pcs, At, RollbackSteps, files, rest
    <2> QED
      BY <1>q, <2>1 DEF RollbackSteps
  <1>15. CASE \/ rb_clear \/ cd_delete \/ cd_receipt \/ cd_clear \/ rc_delete_discard
              \/ rc_delete_restore \/ rc_commit \/ recover_nothing
    <2>1. /\ job'.pc \in {"idle", "cd_receipt", "cd_clear", "rc_delete_restore", "rc_save"}
          /\ UNCHANGED <<indexFile, acked>>
      BY <1>0, <1>15, GotoFields, IdleFields DEF rb_clear, cd_delete, cd_receipt, cd_clear,
         rc_delete_discard, rc_delete_restore, rc_commit, recover_nothing, RecoveryDone, Done,
         Pcs, files, rest
    <2> QED
      BY <1>q, <2>1 DEF RollbackSteps
  <1>16. CASE recover_swap
    <2>1. /\ job'.pc \in {"idle", "rc_save", "rc_delete_discard"} /\ UNCHANGED <<indexFile, acked>>
      BY <1>16, IdleFields DEF recover_swap, RecoveryRaises, Done, Job, files
    <2> QED
      BY <1>q, <2>1 DEF RollbackSteps
  <1>17. CASE raise \/ kill_helper \/ crash
    <2>1. (job'.pc = "idle" \/ job' = job) /\ UNCHANGED <<indexFile, acked>>
      BY <1>17, IdleFields DEF raise, kill_helper, crash, RecoveryRaises, Done, files
    <2> QED
      BY <1>q, <2>1 DEF RollbackSteps, Arguments
  <1>18. CASE (\E d \in Data : write_workspace(d)) \/ release_fence \/ UNCHANGED vars
    <2>1. UNCHANGED <<indexFile, acked, job>>
      BY <1>18 DEF write_workspace, release_fence, vars, files, rest
    <2> QED
      BY <1>q, <2>1 DEF Arguments
  <1> QED
    BY <1>1, <1>2, <1>3, <1>4, <1>5, <1>6, <1>7, <1>8, <1>9, <1>10, <1>11, <1>12,
       <1>13, <1>14, <1>15, <1>16, <1>17, <1>18 DEF Next, JobStep, Recover

\* A checkpoint whose creation was acknowledged stays in the index, with its
\* pin, until it is deleted, as long as nobody writes the index back without
\* the lock and session.create is not repeated: AckedIsRecorded, whatever
\* steps raise and wherever the daemon or the helper dies.
THEOREM AckedStaysRecorded ==
  ASSUME Readers = {}, ~Recreate
  PROVE  Spec => []AckedIsRecorded
  <1>1. Init => RecordsAreKept
    BY IdleFields DEF Init, RecordsAreKept, AckedIsRecorded, At, RollbackSteps
  <1>2. IndexIInv /\ TreeIInv /\ RecordsAreKept /\ [Next]_vars => RecordsAreKept'
    BY RecordsStep
  <1>3. RecordsAreKept => AckedIsRecorded
    BY DEF RecordsAreKept
  <1> QED
    BY <1>1, <1>2, <1>3, StoreInvariant, TreeInvariant, PTL DEF Spec

-----------------------------------------------------------------------------
(* The store implements the atomic Session *)

LEMMA FenceStep ==
  ASSUME IndexIInv, TreeIInv, RollbackIsFenced, [Next]_vars
  PROVE  RollbackIsFenced'
  <1> SUFFICES ASSUME ~Failures, ~Recreate, ~Advisory
               PROVE  RollbackIsFenced'
    BY DEF RollbackIsFenced
  <1> DEFINE Saving == {"cs_save", "cc_snapshot", "cc_save", "dc_delete", "dc_save"}
             Recovery == {"cd_clear", "rc_delete_discard", "rc_delete_restore", "rc_save"}
             Undoing == {"rb_undo", "rb_undo_delete", "rb_undo_clear"}
             Restores == transaction # None /\ restored # None =>
                           restored.data = checkpoints[transaction.cp]
             Fenced == /\ ~released
                       /\ job.pc \notin Undoing
                       /\ daemon = "up" /\ job = Idle /\ transaction # None => Deferred
                       /\ job.pc \in Recovery /\ ~Deferred => daemon # "up"
                       /\ job.pc \in Saving => transaction = None
                       /\ At("cc_snapshot") => checkpoints[job.id] = None
                       /\ Restores
  <1>0. /\ TypeOK /\ JobHasArguments /\ TreesFollowJob /\ Fenced
        /\ transaction # None => transaction \in Transaction
    BY DEF IndexIInv, TreeIInv, RollbackIsFenced, TypeOK
  <1> SUFFICES Fenced'
    BY DEF RollbackIsFenced
  \* While a mutator may start, there is no transaction.
  <1>u. Unfenced => transaction = None
    BY <1>0 DEF Unfenced, Serving
  <1>i. job = Idle => job.pc = "idle"
    BY IdleFields
  <1>j. job' = Idle => job'.pc = "idle"
    BY IdleFields
  \* A step of a job that goes on, or ends with the transaction gone or deferred.
  <1>q. ASSUME UNCHANGED <<checkpoints, released>>,
               Restores',
               job'.pc \notin Undoing \cup {"cs_save", "cc_snapshot", "dc_delete"},
               job'.pc \in {"cc_save", "dc_save"} => transaction' = None,
               \/ daemon' # "up"
               \/ transaction' = None /\ job'.pc \notin Recovery
               \/ Deferred'
               \/ job'.pc \notin Recovery \cup {"idle"}
        PROVE  Fenced'
    BY <1>0, <1>j, <1>q DEF At
  <1>1. CASE create_session
    <2>1. /\ job'.pc = "cs_save" /\ transaction = None
          /\ UNCHANGED <<transaction, released, restored>>
      BY <1>0, <1>1, GotoFields DEF create_session, Pcs, files, rest
    <2> QED
      BY <1>0, <1>j, <2>1 DEF At
  <1>2. CASE cs_save \/ cc_save \/ dc_save
    <2>1. /\ job'.pc = "idle" /\ transaction = None
          /\ UNCHANGED <<transaction, released, checkpoints>>
      BY <1>0, <1>2, IdleFields DEF cs_save, cc_save, dc_save, Done, At, rest
    <2> QED
      BY <1>q, <2>1
  <1>3. CASE \E d \in Data : write_workspace(d)
    <2>1. /\ UNCHANGED <<transaction, restored, released, checkpoints, job, daemon>>
      BY <1>3 DEF write_workspace, files, rest
    <2> QED
      BY <1>0, <2>1 DEF Deferred, At
  <1>4. CASE \E c \in Ids, pin \in BOOLEAN : create_checkpoint(c, pin)
    <2>1. PICK c \in Ids, pin \in BOOLEAN : create_checkpoint(c, pin)
      BY <1>4
    <2>2. /\ job'.pc = "cc_snapshot" /\ job'.id = c /\ checkpoints[c] = None
          /\ transaction = None /\ UNCHANGED <<transaction, released, checkpoints>>
      BY <1>u, <2>1, IdleFields DEF create_checkpoint, Job, rest
    <2> QED
      BY <1>0, <1>j, <2>2 DEF At
  <1>5. CASE cc_snapshot
    <2>1. /\ job'.pc = "cc_save" /\ transaction = None
          /\ UNCHANGED <<transaction, released>>
      BY <1>0, <1>5, GotoFields DEF cc_snapshot, Pcs, At, files, rest
    <2> QED
      BY <1>0, <1>j, <2>1 DEF At
  <1>6. CASE \E name \in DOMAIN Matches, force \in BOOLEAN : delete_checkpoint(name, force)
    <2>1. PICK name \in DOMAIN Matches, force \in BOOLEAN : delete_checkpoint(name, force)
      BY <1>6
    <2>2. /\ job'.pc = "dc_delete" /\ transaction = None
          /\ UNCHANGED <<transaction, released, checkpoints>>
      BY <1>u, <2>1, IdleFields DEF delete_checkpoint, Job, rest
    <2> QED
      BY <1>0, <1>j, <2>2 DEF At
  <1>7. CASE dc_delete
    <2>1. /\ job'.pc = "dc_save" /\ transaction = None
          /\ UNCHANGED <<transaction, released>>
      BY <1>0, <1>7 DEF dc_delete, TypeOK, Job, At, files
    <2> QED
      BY <1>0, <1>j, <2>1 DEF At
  <1>8. CASE \E cp \in Ids, rid \in RecoveryIds \cup {None} : rollback(cp, rid)
    <2>1. PICK cp \in Ids, rid \in RecoveryIds \cup {None} : rollback(cp, rid)
      BY <1>8
    <2>2. /\ job'.pc = "rb_snapshot" /\ released' = FALSE
          /\ restored = None /\ UNCHANGED <<restored, checkpoints>>
      BY <1>0, <2>1, IdleFields DEF rollback, Job, TreesFollowJob, trees
    <2> QED
      BY <1>j, <2>2 DEF At
  <1>9. CASE rb_snapshot
    <2>1. /\ job'.pc = "rb_prepared" /\ transaction.cp = job.id
          /\ restored'.data = checkpoints[job.id]
          /\ UNCHANGED <<transaction, released, checkpoints>>
      BY <1>0, <1>9, GotoFields DEF rb_snapshot, Pcs, At, JobHasArguments, RollbackSteps, files
    <2> QED
      BY <1>q, <2>1
  <1>10. CASE \/ rb_prepared \/ rb_moved \/ rb_commit \/ rc_commit
    <2>1. transaction # None /\ \E phase \in Phases : SetPhase(phase)
      BY <1>0, <1>10 DEF rb_prepared, rb_moved, rb_commit, rc_commit, JobHasArguments,
         RollbackSteps, At, Phases
    <2>2. transaction' # None /\ transaction'.cp = transaction.cp /\ (Deferred' <=> Deferred)
      BY <1>0, <2>1, SetPhaseFields
    <2>3. \/ job'.pc \in {"rb_move", "rb_install", "rb_delete"}
          \/ job'.pc = "idle" /\ Deferred
      BY <1>0, <1>10, GotoFields, IdleFields DEF rb_prepared, rb_moved, rb_commit, rc_commit,
         RecoveryDone, Done, Pcs, TreesFollowJob, At
    <2>4. UNCHANGED <<restored, released, checkpoints>>
      BY <1>10 DEF rb_prepared, rb_moved, rb_commit, rc_commit, trees, rest
    <2> QED
      BY <1>0, <1>q, <2>1, <2>2, <2>3, <2>4
  <1>11. CASE rb_move \/ rb_install \/ rb_delete \/ rb_save
    <2>1. /\ job'.pc \in {"rb_moved", "rb_save", "rb_commit", "rb_clear"}
          /\ restored' \in {restored, None}
          /\ UNCHANGED <<transaction, released, checkpoints>>
      BY <1>0, <1>11, GotoFields DEF rb_move, rb_install, rb_delete, rb_save, Pcs, files, rest, trees
    <2> QED
      BY <1>0, <1>q, <2>1
  <1>12. CASE rb_undo \/ rb_undo_delete
    BY <1>0, <1>12 DEF rb_undo, rb_undo_delete, At
  <1>13. CASE rb_clear \/ cd_clear
    <2>1. /\ job'.pc = "idle" /\ transaction' = None /\ UNCHANGED <<released, checkpoints>>
      BY <1>13, IdleFields DEF rb_clear, cd_clear, RecoveryDone, Done, rest
    <2> QED
      BY <1>q, <2>1
  <1>14. CASE complete_deferred_rollback \/ recover_committed_deferred
    <2>1. /\ job'.pc \in {"idle", "cd_delete"} /\ Deferred
          /\ UNCHANGED <<restored, transaction, released, checkpoints>>
      BY <1>14, IdleFields DEF complete_deferred_rollback, recover_committed_deferred,
         CommittedDeferred, RecoveryRaises, RecoveryDone, Done, Job, rest, trees
    <2> QED
      BY <1>0, <1>q, <2>1 DEF Deferred
  <1>15. CASE cd_delete \/ cd_receipt
    <2>1. /\ job'.pc \in {"cd_receipt", "cd_clear"} /\ Deferred
          /\ UNCHANGED <<restored, transaction, released, checkpoints>>
      BY <1>0, <1>15, GotoFields DEF cd_delete, cd_receipt, Pcs, JobHasArguments, At, files, rest, trees
    <2> QED
      BY <1>0, <1>q, <2>1 DEF Deferred
  <1>16. CASE rc_delete_discard \/ rc_delete_restore
    <2>1. /\ job'.pc \in {"rc_delete_restore", "rc_save", "cd_clear"}
          /\ Deferred \/ daemon # "up"
          /\ restored' \in {restored, None}
          /\ UNCHANGED <<transaction, released, checkpoints, daemon>>
      BY <1>0, <1>16, GotoFields DEF rc_delete_discard, rc_delete_restore, Pcs, At, files, rest
    <2> QED
      BY <1>0, <1>q, <2>1 DEF Deferred
  <1>17. CASE rc_save
    <2>1. /\ job'.pc \in {"idle", "rc_commit", "cd_clear"}
          /\ Deferred \/ daemon # "up"
          /\ daemon' \in {daemon, "failed"}
          /\ UNCHANGED <<restored, transaction, released, checkpoints>>
      BY <1>0, <1>17, GotoFields, IdleFields DEF rc_save, RecoveryRaises, Done, Pcs, At, trees
    <2> QED
      BY <1>0, <1>q, <2>1 DEF Deferred
  <1>18. CASE recover_nothing
    BY <1>q, <1>18, IdleFields DEF recover_nothing, RecoveryDone, Done, files
  <1>19. CASE recover_swap
    <2>1. /\ job'.pc \in {"idle", "rc_save", "rc_delete_discard"}
          /\ job = Idle /\ transaction # None
          /\ daemon' \in {daemon, "failed"}
          /\ restored' \in {restored, None}
          /\ UNCHANGED <<transaction, released, checkpoints>>
      BY <1>19, IdleFields DEF recover_swap, Recovering, RecoveryRaises, Done, Job, files, trees
    <2> QED
      BY <1>0, <1>q, <2>1 DEF Deferred
  <1>20. CASE \E r \in Readers : read_index(r) \/ reconcile_index(r) \/ write_back_index(r)
    <2>1. UNCHANGED <<restored, transaction, released, checkpoints, job, daemon>>
      BY <1>20 DEF read_index, reconcile_index, write_back_index, files, trees
    <2> QED
      BY <1>0, <2>1 DEF Deferred, At
  <1>21. CASE describe \/ UNCHANGED vars
    <2>1. UNCHANGED <<restored, transaction, released, checkpoints, job, daemon>>
      BY <1>21 DEF describe, vars, rest, trees
    <2> QED
      BY <1>0, <2>1 DEF Deferred, At
  <1>22. CASE raise \/ release_fence
    BY <1>22 DEF raise, release_fence
  <1>23. CASE kill_helper
    BY <1>0, <1>q, <1>23, IdleFields DEF kill_helper, InHelper, Deferred, Done, trees, files
  <1>24. CASE crash
    <2>1. /\ daemon' = "booting" /\ (job'.pc = "idle" \/ (job' = job /\ job.pc \in RollbackSteps))
          /\ UNCHANGED <<restored, transaction, released, checkpoints>>
      BY <1>24, IdleFields DEF crash, InHelper, Done, trees, files
    <2> QED
      BY <1>0, <1>q, <2>1 DEF RollbackSteps
  <1> QED
    BY <1>1, <1>2, <1>3, <1>4, <1>5, <1>6, <1>7, <1>8, <1>9, <1>10, <1>11, <1>12, <1>13,
       <1>14, <1>15, <1>16, <1>17, <1>18, <1>19, <1>20, <1>21, <1>22, <1>23, <1>24
    DEF Next, JobStep, Recover

\* Every step of the store is a step of the atomic Session, or none.
LEMMA SessionStep ==
  ASSUME IndexIInv, TreeIInv, RollbackIsFenced, [Next]_vars,
         ~Failures, ~Recreate, ~Advisory
  PROVE  [Session!Next]_(Session!vars)
  <1>0. /\ TypeOK /\ JobHasArguments /\ TreesFollowJob
        /\ ~released
        /\ daemon = "up" /\ job = Idle /\ transaction # None => Deferred
        /\ job.pc \in {"cs_save", "cc_snapshot", "cc_save", "dc_delete", "dc_save"} => transaction = None
        /\ At("cc_snapshot") => checkpoints[job.id] = None
        /\ transaction # None /\ restored # None => restored.data = checkpoints[transaction.cp]
        /\ \A t \in Tree : t # None /\ t.data \in Data
        /\ \A d \in Data \cup Ids : d # None
        /\ transaction # None => transaction.cp \in Ids
    BY NothingAssumption, NoneAssumption
    DEF IndexIInv, TreeIInv, RollbackIsFenced, TypeOK, Tree, Transaction
  <1>u. Unfenced => transaction = None
    BY <1>0 DEF Unfenced, Serving
  <1>d. current # None => View = current.data /\ View \in Data
    BY <1>0 DEF View, TypeOK
  <1>s. ASSUME View' = View, UNCHANGED <<checkpoints, transaction>>
        PROVE  UNCHANGED Session!vars
    BY <1>s DEF Session!vars
  <1>e. ASSUME transaction # None, transaction' = None, UNCHANGED <<trees, checkpoints>>
        PROVE  Session!End
    BY <1>0, <1>e DEF Session!End, View, trees
  <1>r. ASSUME transaction # None, restored # None, current' = restored,
               UNCHANGED <<transaction, checkpoints>>
        PROVE  Session!Restore
    BY <1>0, <1>r DEF Session!Restore, View
  <1>1. CASE create_session
    <2>1. /\ transaction = None /\ current = None /\ discarded = None
          /\ current' = [data |-> EmptyData, base |-> None]
          /\ UNCHANGED <<checkpoints, transaction>>
      BY <1>0, <1>1 DEF create_session, TreesFollowJob, files
    <2>2. [data |-> EmptyData, base |-> None] # None
      <3>1. [data |-> EmptyData, base |-> None] \in Tree
        BY EmptyDataAssumption DEF Tree, IdOrNone
      <3> QED
        BY <1>0, <3>1
    <2>3. Session!Create
      BY <2>1, <2>2 DEF Session!Create, View
    <2> QED
      BY <2>3 DEF Session!Next
  <1>2. CASE \E d \in Data : write_workspace(d)
    <2>1. PICK d \in Data : write_workspace(d)
      BY <1>2
    <2>2. /\ current # None /\ current' = [current EXCEPT !.data = d] /\ transaction = None
          /\ UNCHANGED <<checkpoints, transaction>>
      BY <1>u, <2>1 DEF write_workspace, files
    <2>3. current' \in Tree /\ current'.data = d
      BY <1>0, <2>2 DEF TypeOK, Tree
    <2>4. Session!Write
      BY <1>0, <1>d, <2>2, <2>3 DEF Session!Write, View
    <2> QED
      BY <2>4 DEF Session!Next
  <1>3. CASE cc_snapshot
    <2>1. /\ job.id \in Ids /\ current # None /\ transaction = None /\ checkpoints[job.id] = None
          /\ checkpoints' = [checkpoints EXCEPT ![job.id] = current.data]
          /\ UNCHANGED <<trees, transaction>>
      BY <1>0, <1>3 DEF cc_snapshot, JobHasArguments, At, files
    <2>2. Session!Save(job.id)
      BY <1>0, <1>d, <2>1 DEF Session!Save, View, trees
    <2> QED
      BY <2>1, <2>2 DEF Session!Next
  <1>4. CASE dc_delete
    <2>1. /\ job.id \in Ids /\ transaction = None
          /\ checkpoints' = [checkpoints EXCEPT ![job.id] = None]
          /\ UNCHANGED <<trees, transaction>>
      BY <1>0, <1>4 DEF dc_delete, JobHasArguments, At, files
    <2>2. Session!Delete(job.id)
      BY <2>1 DEF Session!Delete, View, trees
    <2> QED
      BY <2>1, <2>2 DEF Session!Next
  <1>5. CASE \E cp \in Ids, rid \in RecoveryIds \cup {None} : rollback(cp, rid)
    <2>1. PICK cp \in Ids, rid \in RecoveryIds \cup {None} : rollback(cp, rid)
      BY <1>5
    <2>2. transaction' # None /\ transaction'.cp = cp
      <3>1. current \in Tree
        BY <1>0, <2>1 DEF rollback, TypeOK
      <3>2. transaction' \in Transaction /\ transaction'.cp = cp
        BY <2>1, <3>1 DEF rollback, Transaction, Phases
      <3> QED
        BY <3>2, NothingAssumption
    <2>3. /\ transaction = None /\ current # None /\ checkpoints[cp] # None
          /\ UNCHANGED <<trees, checkpoints>>
      BY <2>1 DEF rollback
    <2>4. Session!Begin(cp)
      BY <1>0, <1>d, <2>2, <2>3 DEF Session!Begin, View, trees
    <2> QED
      BY <2>4 DEF Session!Next
  <1>6. CASE rb_install
    <2>1. /\ transaction # None /\ restored # None /\ current' = restored
          /\ UNCHANGED <<transaction, checkpoints>>
      BY <1>0, <1>6 DEF rb_install, TreesFollowJob, JobHasArguments, RollbackSteps, At, files
    <2> QED
      BY <1>r, <2>1 DEF Session!Next
  <1>7. CASE recover_swap
    <2>1. /\ transaction # None /\ UNCHANGED <<transaction, checkpoints>>
          /\ \/ UNCHANGED trees
             \/ restored # None /\ current' = restored
             \/ current = None /\ current' = discarded /\ discarded' = None
      BY <1>7 DEF recover_swap, files
    <2>2. CASE UNCHANGED trees
      BY <1>s, <2>1, <2>2 DEF View, trees
    <2>3. CASE restored # None /\ current' = restored
      BY <1>r, <2>1, <2>3 DEF Session!Next
    <2>4. CASE current = None /\ current' = discarded /\ discarded' = None
      BY <1>s, <2>1, <2>4 DEF View
    <2> QED
      BY <2>1, <2>2, <2>3, <2>4
  <1>8. CASE rb_clear \/ cd_clear
    <2>1. transaction # None /\ transaction' = None /\ UNCHANGED <<trees, checkpoints>>
      BY <1>0, <1>8 DEF rb_clear, cd_clear, JobHasArguments, RollbackSteps, At
    <2> QED
      BY <1>e, <2>1 DEF Session!Next
  <1>9. CASE rb_move
    <2>1. /\ current # None /\ discarded' = current /\ current' = None
          /\ UNCHANGED <<transaction, checkpoints>>
      BY <1>0, <1>9 DEF rb_move, TreesFollowJob, JobHasArguments, RollbackSteps, At, files,
         TypeOK, Transaction
    <2> QED
      BY <1>s, <2>1 DEF View
  <1>10. CASE rb_undo
    BY <1>0, <1>s, <1>10 DEF rb_undo, TreesFollowJob, At, View, files
  <1>11. CASE rb_prepared \/ rb_moved \/ rb_commit \/ rc_commit
    <2>1. transaction # None /\ \E phase \in Phases : SetPhase(phase)
      BY <1>0, <1>11 DEF rb_prepared, rb_moved, rb_commit, rc_commit, JobHasArguments,
         RollbackSteps, At, Phases
    <2>2. transaction' # None /\ transaction'.cp = transaction.cp
      BY <1>0, <2>1, SetPhaseFields
    <2>3. UNCHANGED <<trees, checkpoints>>
      BY <1>11 DEF rb_prepared, rb_moved, rb_commit, rc_commit
    <2> QED
      BY <2>1, <2>2, <2>3 DEF Session!vars, View, trees
  <1>12. CASE cc_save \/ dc_save
    <2>1. job.id \in IdOrNone /\ job.mem.head \in IdOrNone /\ current \in Tree \cup {None}
      BY <1>0 DEF TypeOK, Job, Index
    <2>2. /\ current' = None <=> current = None
          /\ current # None => current'.data = current.data
      BY <1>12, <2>1, RebasedType DEF cc_save, dc_save
    <2>3. UNCHANGED <<discarded, checkpoints, transaction>>
      BY <1>12 DEF cc_save, dc_save
    <2> QED
      BY <1>s, <2>2, <2>3 DEF View
  <1>13. CASE \/ rb_snapshot \/ rb_undo_delete \/ rb_delete \/ cd_delete
              \/ rc_delete_discard \/ rc_delete_restore
    <2>1. /\ current # None /\ current' = current /\ UNCHANGED <<checkpoints, transaction>>
      BY <1>0, <1>13 DEF rb_snapshot, rb_undo_delete, rb_delete, cd_delete, rc_delete_discard,
         rc_delete_restore, TreesFollowJob, JobHasArguments, RollbackSteps, At, files
    <2> QED
      BY <1>s, <2>1 DEF View
  <1>14. CASE UNCHANGED <<trees, checkpoints, transaction>>
    BY <1>s, <1>14 DEF View, trees
  <1>15. \/ create_session \/ (\E d \in Data : write_workspace(d)) \/ cc_snapshot \/ dc_delete
         \/ (\E cp \in Ids, rid \in RecoveryIds \cup {None} : rollback(cp, rid))
         \/ rb_install \/ recover_swap \/ rb_clear \/ cd_clear \/ rb_move \/ rb_undo
         \/ rb_prepared \/ rb_moved \/ rb_commit \/ rc_commit \/ cc_save \/ dc_save
         \/ rb_snapshot \/ rb_undo_delete \/ rb_delete \/ cd_delete
         \/ rc_delete_discard \/ rc_delete_restore
         \/ UNCHANGED <<trees, checkpoints, transaction>>
    BY DEF Next, JobStep, Recover, cs_save, create_checkpoint, delete_checkpoint,
       complete_deferred_rollback, rb_save, cd_receipt, rc_save, recover_nothing,
       recover_committed_deferred, read_index, reconcile_index, write_back_index, describe,
       release_fence, raise, kill_helper, crash, vars, trees, files
  <1> QED
    BY <1>1, <1>2, <1>3, <1>4, <1>5, <1>6, <1>7, <1>8, <1>9, <1>10, <1>11, <1>12, <1>13, <1>14, <1>15

\* Renames, phases, receipts, crashes, helper kills and recoveries never show:
\* when no step raises, consistency is required and session.create is not
\* repeated inside a rollback, the store is a Session whose rollback replaces
\* the workspace in one step with everyone else kept out: ImplementsSession,
\* the step relation of AtomicSession under the mapping of View and pending.
THEOREM StoreImplementsSession ==
  ASSUME ~Failures, ~Recreate, ~Advisory
  PROVE  Spec => ImplementsSession
  <1>1. Init => RollbackIsFenced
    BY IdleFields DEF Init, RollbackIsFenced, At
  <1>2. IndexIInv /\ TreeIInv /\ RollbackIsFenced /\ [Next]_vars => RollbackIsFenced'
    BY FenceStep
  <1>3. Init => Session!Init
    BY DEF Init, Session!Init, View
  <1>4. IndexIInv /\ TreeIInv /\ RollbackIsFenced /\ [Next]_vars => [Session!Next]_(Session!vars)
    BY SessionStep
  <1> QED
    BY <1>1, <1>2, <1>3, <1>4, StoreInvariant, TreeInvariant, PTL
    DEF Spec, ImplementsSession, Session!Spec

-----------------------------------------------------------------------------
(* One fault is repaired: head and workspace agree again *)

\* Loading an index does not change for which workspace it is right.
LEMMA FitsWhenLoaded ==
  ASSUME NEW ix \in Index, NEW actual \in SUBSET Ids, NEW base, HeadFits(ix, base, actual)
  PROVE  HeadFits(reconcile(ix, actual), base, actual)
  <1>1. /\ reconcile(ix, actual).known = ix.known \cup actual
        /\ reconcile(ix, actual).head = IF ix.head \in actual THEN ix.head ELSE None
    BY ReconcileFields
  <1> QED
    BY <1>1 DEF HeadFits

\* An index that names as head the checkpoint a tree is from is right for it.
LEMMA FitsWhenHead ==
  ASSUME NEW ix, NEW base, NEW actual, ix.head = base, base \in ix.known \cup {None}
  PROVE  HeadFits(ix, base, actual)
  BY DEF HeadFits

\* A new snapshot that is unknown to the index does not matter to it.
LEMMA FitsBesideSnapshot ==
  ASSUME NEW ix, Sound(ix), NEW base, NEW actual \in SUBSET Ids, NEW c \in Ids, c \notin ix.known,
         HeadFits(ix, base, actual)
  PROVE  HeadFits(ix, base, actual \cup {c})
  <1>1. base # c /\ ix.head # c
    BY NoneAssumption DEF Sound, HeadFits
  <1> QED
    BY <1>1 DEF HeadFits

\* When a snapshot is deleted, the index as it was is right for the workspace
\* as it is, and the one without its entry too if the workspace is not from it.
LEMMA FitsWithoutSnapshot ==
  ASSUME NEW ix, Sound(ix), NEW base, NEW actual \in SUBSET Ids, NEW c \in Ids,
         HeadFits(ix, base, actual)
  PROVE  /\ HeadFits(ix, base, actual \ {c})
         /\ /\ c \in ix.known /\ base # c
            /\ ix.head \in actual \cup {None}
            => HeadFits(remove(ix, c), base, actual \ {c})
  <1>1. HeadFits(ix, base, actual \ {c})
    BY NoneAssumption DEF HeadFits
  <1>2. ASSUME c \in ix.known, base # c, ix.head \in actual \cup {None}
        PROVE  HeadFits(remove(ix, c), base, actual \ {c})
    <2>1. /\ remove(ix, c).head = IF ix.head = c THEN ix.parent[c] ELSE ix.head
          /\ remove(ix, c).known = ix.known \ {c}
      BY <1>2, RemoveFields
    <2>2. ix.head # c
      BY <1>2, NoneAssumption DEF HeadFits
    <2> QED
      BY <1>2, <2>1, <2>2, NoneAssumption DEF HeadFits
  <1> QED
    BY <1>1, <1>2
LEMMA AddHead ==
  ASSUME NEW ix \in Index, NEW c \in Ids, NEW pin
  PROVE  add(ix, c, pin).head = c
  BY DEF add, Index

LEMMA RebasedBase ==
  ASSUME NEW tree \in Tree, NEW base \in IdOrNone
  PROVE  Rebased(tree, base) # None /\ Rebased(tree, base).base = base
  <1>1. Rebased(tree, base) = [tree EXCEPT !.base = base]
    BY NothingAssumption DEF Rebased
  <1>2. [tree EXCEPT !.base = base] \in Tree /\ [tree EXCEPT !.base = base].base = base
    BY DEF Tree
  <1> QED
    BY <1>1, <1>2, NothingAssumption

\* A job of a Session without a transaction is one of the four mutators.
LEMMA NoRollbackSteps ==
  ASSUME IndexIInv, RollbackIsFenced, ~Failures, ~Recreate, ~Advisory, Readers = {},
         transaction = None, [Next]_vars
  PROVE  \/ create_session \/ cs_save \/ cc_snapshot \/ cc_save \/ dc_delete \/ dc_save
         \/ \E d \in Data : write_workspace(d)
         \/ \E c \in Ids, pin \in BOOLEAN : create_checkpoint(c, pin)
         \/ \E name \in DOMAIN Matches, force \in BOOLEAN : delete_checkpoint(name, force)
         \/ \E cp \in Ids, rid \in RecoveryIds \cup {None} : rollback(cp, rid)
         \/ recover_nothing \/ describe \/ crash \/ UNCHANGED vars
  <1>1. /\ job.pc \notin RollbackSteps
        /\ job.pc \notin {"cd_delete", "cd_receipt", "cd_clear", "rc_delete_discard",
                          "rc_delete_restore", "rc_save", "rc_commit"}
        /\ ~Deferred
    BY DEF IndexIInv, JobHasArguments, Deferred
  <1>2. ~rb_snapshot /\ ~rb_prepared /\ ~rb_move /\ ~rb_moved /\ ~rb_install /\ ~rb_undo
        /\ ~rb_undo_delete /\ ~rb_commit /\ ~rb_delete /\ ~rb_save /\ ~rb_clear
    BY <1>1 DEF rb_snapshot, rb_prepared, rb_move, rb_moved, rb_install, rb_undo,
       rb_undo_delete, rb_commit, rb_delete, rb_save, rb_clear, At, RollbackSteps
  <1>3. ~cd_delete /\ ~cd_receipt /\ ~cd_clear /\ ~rc_delete_discard /\ ~rc_delete_restore
        /\ ~rc_save /\ ~rc_commit
    BY <1>1 DEF cd_delete, cd_receipt, cd_clear, rc_delete_discard, rc_delete_restore,
       rc_save, rc_commit, At
  <1>4. ~complete_deferred_rollback /\ ~recover_committed_deferred /\ ~recover_swap
        /\ ~raise /\ ~release_fence /\ ~kill_helper
    BY <1>1 DEF complete_deferred_rollback, recover_committed_deferred, recover_swap,
       raise, release_fence, kill_helper, InHelper, CommittedDeferred
  <1> QED
    BY <1>2, <1>3, <1>4 DEF Next, JobStep, Recover

\* Without a rollback the saved head stays that of the workspace.
LEMMA HeadStep ==
  ASSUME IndexIInv, IndexIInv', RollbackIsFenced, HeadWithoutRollback,
         ~Failures, ~Recreate, ~Advisory, Readers = {},
         transaction = None, transaction' = None, [Next]_vars
  PROVE  HeadWithoutRollback'
  <1> DEFINE actual == actual_checkpoint_ids
  <1>0. /\ TypeOK /\ TypeOK' /\ JobHasArguments
        /\ current = None => SavedIndex.head = None
        /\ current # None => SavedFits(current)
        /\ current # None => current \in Tree
        /\ Sound(SavedIndex) /\ SavedIndex \in Index /\ Sound(load_index)
        /\ load_index # None /\ Sound(job.mem) /\ job.mem \in Index /\ job.mem # None
        /\ actual \in SUBSET Ids
    BY LoadIsSound, NothingAssumption DEF IndexIInv, IndexesAreSound, TypeOK, Sound,
       HeadWithoutRollback, actual_checkpoint_ids
  <1>1. /\ load_index.head = IF SavedIndex.head \in actual THEN SavedIndex.head ELSE None
        /\ load_index.known = SavedIndex.known \cup actual
    BY <1>0, ReconcileFields DEF load_index
  <1>2. current # None => HeadFits(load_index, current.base, actual)
    BY <1>0, FitsWhenLoaded DEF SavedFits, load_index
  <1>i. job = Idle => job.pc = "idle"
    BY IdleFields
  \* What is left to show when no mutator runs afterwards, or a step is one of
  \* the workspace's writes or of a reader.
  <1>q. ASSUME UNCHANGED checkpoints, job'.pc = "idle",
               current = None => current' = None,
               current # None => current' # None /\ current'.base = current.base,
               indexFile' \in {indexFile, load_index}
        PROVE  HeadWithoutRollback'
    <2>1. actual' = actual /\ SavedIndex' \in {SavedIndex, load_index}
      BY <1>0, <1>q DEF actual_checkpoint_ids, SavedIndex
    <2>2. current' = None => SavedIndex'.head = None
      BY <1>0, <1>1, <1>q, <2>1
    <2>3. current' # None => HeadFits(SavedIndex', current'.base, actual')
      BY <1>0, <1>2, <1>q, <2>1 DEF SavedFits
    <2> QED
      BY <1>q, <2>2, <2>3 DEF HeadWithoutRollback, SavedFits, At
  <1>3. CASE create_session
    <2>1. /\ job'.pc = "cs_save" /\ current = None /\ current' # None /\ current'.base = None
          /\ UNCHANGED <<indexFile, checkpoints>>
      <3>1. [data |-> EmptyData, base |-> None] \in Tree
        BY EmptyDataAssumption DEF Tree, IdOrNone
      <3> QED
        BY <1>0, <1>3, <3>1, GotoFields, NothingAssumption DEF create_session, Pcs, files
    <2>2. SavedIndex'.head = None
      BY <1>0, <2>1 DEF SavedIndex
    <2>3. SavedFits(current)'
      BY <2>1, <2>2 DEF SavedFits, HeadFits
    <2> QED
      BY <2>1, <2>3 DEF HeadWithoutRollback, At
  <1>4. CASE cs_save
    <2>1. /\ job'.pc = "idle" /\ current' = current /\ UNCHANGED checkpoints
          /\ current # None => current.base = None
          /\ indexFile' = reconcile(EmptyIndex, actual)
      BY <1>4, IdleFields DEF cs_save, Done, HeadWithoutRollback, trees
    <2>2. /\ reconcile(EmptyIndex, actual).head = None /\ reconcile(EmptyIndex, actual) # None
      <3>1. EmptyIndex \in Index /\ EmptyIndex.head = None
        BY EmptyIsSound DEF Sound, EmptyIndex
      <3> QED
        BY <1>0, <3>1, ReconcileFields, NothingAssumption
    <2>3. SavedIndex'.head = None
      BY <2>1, <2>2 DEF SavedIndex
    <2> QED
      BY <2>1, <2>3 DEF HeadWithoutRollback, SavedFits, HeadFits, At
  <1>5. CASE \E d \in Data : write_workspace(d)
    <2>1. PICK d \in Data : write_workspace(d)
      BY <1>5
    <2>2. /\ job'.pc = "idle" /\ UNCHANGED <<checkpoints, indexFile>>
          /\ current # None /\ current' = [current EXCEPT !.data = d]
      BY <1>i, <2>1 DEF write_workspace, Unfenced, Serving, files
    <2>3. current' # None /\ current'.base = current.base
      BY <1>0, <2>2, NothingAssumption DEF Tree
    <2> QED
      BY <1>q, <2>2, <2>3
  <1>6. CASE \E c \in Ids, pin \in BOOLEAN : create_checkpoint(c, pin)
    <2>1. PICK c \in Ids, pin \in BOOLEAN : create_checkpoint(c, pin)
      BY <1>6
    <2>2. /\ job'.pc = "cc_snapshot" /\ job'.id = c /\ job'.mem = add(load_index, c, pin)
          /\ indexFile' = load_index /\ UNCHANGED <<checkpoints, current>>
          /\ c \in Ids \ load_index.known
          /\ current # None
      BY <2>1, IdleFields DEF create_checkpoint, Job, trees
    <2>3. SavedIndex' = load_index /\ actual' = actual
      BY <1>0, <2>2 DEF SavedIndex, actual_checkpoint_ids
    <2>4. job'.mem.head = c /\ c \in job'.mem.known
      <3>1. add(load_index, c, pin).head = c
        BY <1>0, AddHead DEF Sound
      <3>2. add(load_index, c, pin).known = load_index.known \cup {c}
        BY <1>0, <2>2, AddIsSound
      <3> QED
        BY <2>2, <3>1, <3>2
    <2>5. SavedFits(current)'
      BY <1>2, <2>2, <2>3 DEF SavedFits
    <2> QED
      BY <2>2, <2>3, <2>4, <2>5 DEF HeadWithoutRollback, At
  <1>7. CASE cc_snapshot
    <2>1. /\ job'.pc = "cc_save" /\ job'.id = job.id /\ job'.mem = job.mem
          /\ UNCHANGED <<indexFile, current>>
          /\ checkpoints' = [checkpoints EXCEPT ![job.id] = current.data]
      BY <1>0, <1>7, GotoFields DEF cc_snapshot, Pcs, Arguments, files, trees
    <2>2. /\ job.id \in Ids /\ current # None /\ current.data # None
          /\ job.id \notin SavedIndex.known
          /\ job.mem.head = job.id /\ job.id \in job.mem.known
      BY <1>0, <1>7, NothingAssumption DEF cc_snapshot, HeadWithoutRollback, JobHasArguments, At, Tree
    <2>3. actual' = actual \cup {job.id} /\ SavedIndex' = SavedIndex /\ checkpoints'[job.id] # None
      BY <1>0, <2>1, <2>2 DEF actual_checkpoint_ids, SavedIndex, TypeOK
    <2>4. HeadFits(SavedIndex, current.base, actual \cup {job.id})
      BY <1>0, <2>2, FitsBesideSnapshot DEF SavedFits
    <2> QED
      BY <2>1, <2>2, <2>3, <2>4 DEF HeadWithoutRollback, SavedFits, At
  <1>8. CASE cc_save
    <2>1. /\ job'.pc = "idle" /\ indexFile' = job.mem /\ current' = Rebased(current, job.id)
          /\ current # None
          /\ job.mem.head = job.id /\ job.id \in job.mem.known
      BY <1>0, <1>8, IdleFields DEF cc_save, Done, HeadWithoutRollback, JobHasArguments, At
    <2>2. current' # None /\ current'.base = job.id
      BY <1>0, <2>1, RebasedBase DEF TypeOK, Job
    <2>3. HeadFits(SavedIndex', current'.base, actual')
      BY <1>0, <2>1, <2>2 DEF SavedIndex, HeadFits
    <2> QED
      BY <2>1, <2>2, <2>3 DEF HeadWithoutRollback, SavedFits, At
  <1>9. CASE \E name \in DOMAIN Matches, force \in BOOLEAN : delete_checkpoint(name, force)
    <2>1. PICK name \in DOMAIN Matches, force \in BOOLEAN : delete_checkpoint(name, force)
      BY <1>9
    <2>2. /\ job'.pc = "dc_delete" /\ job'.mem = load_index /\ indexFile' = load_index
          /\ UNCHANGED <<checkpoints, current>>
      BY <2>1, IdleFields DEF delete_checkpoint, Job, trees
    <2>3. SavedIndex' = load_index /\ actual' = actual
      BY <1>0, <2>2 DEF SavedIndex, actual_checkpoint_ids
    <2>4. load_index.head \in actual \cup {None} /\ (current = None => load_index.head = None)
      BY <1>0, <1>1
    <2> QED
      BY <1>2, <2>2, <2>3, <2>4 DEF HeadWithoutRollback, SavedFits, At
  <1>10. CASE dc_delete
    <2>1. /\ job'.pc = "dc_save" /\ job'.id = job.id /\ job'.mem = remove(job.mem, job.id)
          /\ UNCHANGED <<indexFile, current>>
          /\ checkpoints' = [checkpoints EXCEPT ![job.id] = None]
      BY <1>0, <1>10 DEF dc_delete, TypeOK, Job, files, trees
    <2>2. /\ job.id \in Ids /\ job.id \in job.mem.known
          /\ job.mem.head \in actual \cup {None}
          /\ current # None => HeadFits(job.mem, current.base, actual)
          /\ current = None => job.mem.head = None
      BY <1>0, <1>10 DEF dc_delete, HeadWithoutRollback, JobHasArguments, At
    <2>3. actual' = actual \ {job.id} /\ SavedIndex' = SavedIndex /\ checkpoints'[job.id] = None
      BY <1>0, <2>1, <2>2 DEF actual_checkpoint_ids, SavedIndex, TypeOK
    <2>4. current # None => HeadFits(SavedIndex, current.base, actual \ {job.id})
      BY <1>0, <2>2, FitsWithoutSnapshot DEF SavedFits
    <2>5. current # None /\ current.base # job.id =>
            HeadFits(remove(job.mem, job.id), current.base, actual \ {job.id})
      BY <1>0, <2>2, FitsWithoutSnapshot
    <2>6. current = None => remove(job.mem, job.id).head = None
      BY <1>0, <2>2, RemoveFields, NoneAssumption
    <2> QED
      BY <1>0, <2>1, <2>3, <2>4, <2>5, <2>6 DEF HeadWithoutRollback, SavedFits, At
  <1>11. CASE dc_save
    <2>1. /\ job'.pc = "idle" /\ indexFile' = job.mem /\ UNCHANGED checkpoints
          /\ current' = IF current # None /\ current.base = job.id
                        THEN Rebased(current, job.mem.head) ELSE current
          /\ current # None /\ current.base # job.id =>
               HeadFits(job.mem, current.base, actual)
          /\ current = None => job.mem.head = None
      BY <1>11, IdleFields DEF dc_save, Done, HeadWithoutRollback, At
    <2>2. SavedIndex' = job.mem /\ actual' = actual
      BY <1>0, <2>1 DEF SavedIndex, actual_checkpoint_ids
    <2>3. current # None /\ current.base = job.id =>
            current' # None /\ current'.base = job.mem.head
      BY <1>0, <2>1, RebasedBase DEF Index
    <2>4. current' # None => HeadFits(SavedIndex', current'.base, actual')
      BY <1>0, <2>1, <2>2, <2>3, FitsWhenHead DEF Sound
    <2> QED
      BY <2>1, <2>2, <2>3, <2>4 DEF HeadWithoutRollback, SavedFits, At
  <1>12. CASE recover_nothing \/ describe
    BY <1>q, <1>i, <1>12, IdleFields DEF recover_nothing, describe, RecoveryDone, Done, Serving,
       files, trees
  <1>13. CASE crash
    <2>1. job' = Idle
      BY <1>13 DEF crash, InHelper, Deferred, Done
    <2> QED
      BY <1>q, <1>13, <2>1, IdleFields DEF crash, files, trees
  <1>14. CASE UNCHANGED vars
    BY <1>14 DEF vars, HeadWithoutRollback, SavedFits, SavedIndex, actual_checkpoint_ids, At
  <1>15. CASE \E cp \in Ids, rid \in RecoveryIds \cup {None} : rollback(cp, rid)
    <2>1. transaction' \in Transaction
      BY <1>0, <1>15 DEF rollback, Transaction, Phases, TypeOK
    <2> QED
      BY <2>1, NothingAssumption
  <1> QED
    BY <1>3, <1>4, <1>5, <1>6, <1>7, <1>8, <1>9, <1>10, <1>11, <1>12, <1>13, <1>14, <1>15,
       NoRollbackSteps

\* While a transaction is open only its rollback, its completion and a
\* recovery go on.
LEMMA RollbackOnlySteps ==
  ASSUME IndexIInv, RollbackIsFenced, ~Failures, ~Recreate, ~Advisory, Readers = {},
         transaction # None, [Next]_vars
  PROVE  \/ rb_snapshot \/ rb_prepared \/ rb_move \/ rb_moved \/ rb_install \/ rb_commit
         \/ rb_delete \/ rb_save \/ (rb_clear /\ At("rb_clear"))
         \/ complete_deferred_rollback \/ cd_delete \/ cd_receipt \/ cd_clear
         \/ recover_committed_deferred \/ recover_swap
         \/ rc_delete_discard \/ rc_delete_restore \/ rc_save \/ rc_commit
         \/ describe \/ kill_helper \/ crash \/ UNCHANGED vars
  <1>1. /\ job.pc \notin {"cs_save", "cc_snapshot", "cc_save", "dc_delete", "dc_save"}
        /\ job.pc \notin {"rb_undo", "rb_undo_delete", "rb_undo_clear"}
        /\ ~Unfenced
    BY DEF RollbackIsFenced, Unfenced, Serving
  <1>2. ~cs_save /\ ~cc_snapshot /\ ~cc_save /\ ~dc_delete /\ ~dc_save /\ ~rb_undo
        /\ ~rb_undo_delete /\ (rb_clear => At("rb_clear"))
    BY <1>1 DEF cs_save, cc_snapshot, cc_save, dc_delete, dc_save, rb_undo, rb_undo_delete,
       rb_clear, At
  <1>3. ~create_session /\ ~recover_nothing /\ ~raise /\ ~release_fence
    BY DEF create_session, recover_nothing, raise, release_fence
  <1>4. \A d \in Data : ~write_workspace(d)
    BY <1>1 DEF write_workspace
  <1>5. \A c \in Ids, pin \in BOOLEAN : ~create_checkpoint(c, pin)
    BY <1>1 DEF create_checkpoint
  <1>6. ASSUME NEW name \in DOMAIN Matches, NEW force \in BOOLEAN,
              delete_checkpoint(name, force)
       PROVE  FALSE
    BY <1>1, <1>6 DEF delete_checkpoint
  <1>7. \A cp \in Ids, rid \in RecoveryIds \cup {None} : ~rollback(cp, rid)
    BY DEF rollback
  <1> QED
    BY <1>2, <1>3, <1>4, <1>5, <1>6, <1>7 DEF Next, JobStep, Recover

\* With a transaction open, one fault at most leaves what a recovery can
\* repair, and a recovery repairs it.
LEMMA RepairStep ==
  ASSUME IndexIInv, IndexIInv', TreeIInv, TreeIInv', RollbackIsFenced,
         RollbackIsRepairable, RecoveryRepairs, faults <= 1, faults' <= 1,
         ~Failures, ~Recreate, ~Advisory, Readers = {},
         transaction # None, [Next]_vars
  PROVE  IF transaction' = None THEN HeadWithoutRollback'
         ELSE RollbackIsRepairable' /\ RecoveryRepairs'
  <1> DEFINE actual == actual_checkpoint_ids
             cp == transaction.cp
             HeadIsCp == SavedIndex.head = cp
             Trees == restored # None => restored.base = cp
             Positions ==
               /\ At("rb_clear") \/ (At("rb_commit") /\ Deferred) => HeadIsCp
               /\ At("rb_moved") => transaction.phase = "prepared"
               /\ job.pc \in {"rb_commit", "rb_install"} \/ (At("rb_save") /\ Deferred)
                    => transaction.phase = "old_moved"
               /\ job.pc \in {"rb_delete", "rb_clear"} \/ (At("rb_save") /\ ~Deferred)
                    => transaction.phase = "committed"
  <1>0. /\ TypeOK /\ TypeOK' /\ JobHasArguments /\ TreesFollowJob /\ TreesFollowJob'
        /\ transaction \in Transaction /\ cp \in Ids /\ transaction.old \in Tree
        /\ transaction.phase \in Phases
        /\ current # None => current \in Tree
        /\ Sound(SavedIndex) /\ SavedIndex \in Index /\ Sound(SavedIndex)'
        /\ Sound(load_index) /\ load_index \in Index /\ load_index # None
        /\ Sound(job.mem) /\ job.mem \in Index /\ job.mem # None
        /\ actual \in SUBSET Ids /\ faults \in {0, 1} /\ faults' \in {0, 1}
    <2>1. TypeOK /\ TypeOK' /\ JobHasArguments /\ TreesFollowJob /\ TreesFollowJob'
      BY DEF IndexIInv, TreeIInv
    <2>2. /\ transaction \in Transaction /\ cp \in Ids /\ transaction.old \in Tree
          /\ transaction.phase \in Phases /\ (current # None => current \in Tree)
      BY <2>1 DEF TypeOK, Transaction
    <2>3. /\ Sound(SavedIndex) /\ SavedIndex \in Index
          /\ Sound(load_index) /\ load_index \in Index /\ load_index # None
          /\ Sound(job.mem) /\ job.mem \in Index /\ job.mem # None
      BY <2>1, LoadIsSound, NothingAssumption DEF IndexIInv, IndexesAreSound, Sound
    <2>4. Sound(SavedIndex)'
      BY EmptyIsSound DEF IndexIInv, IndexesAreSound, SavedIndex
    <2>5. faults \in {0, 1} /\ faults' \in {0, 1}
      BY <2>1, MaxFaultsAssumption DEF TypeOK
    <2> QED
      BY <2>1, <2>2, <2>3, <2>4, <2>5 DEF actual_checkpoint_ids
  <1>1. /\ checkpoints[cp] # None /\ cp \in actual
        /\ Trees /\ Positions
        /\ job.pc \notin RecoverySteps \cup {"cd_clear"} => DiskIsRepairable
    BY <1>0 DEF RollbackIsRepairable, actual_checkpoint_ids
  <1>2. /\ load_index.head = IF SavedIndex.head \in actual THEN SavedIndex.head ELSE None
        /\ load_index.known = SavedIndex.known \cup actual
    BY <1>0, ReconcileFields DEF load_index
  <1>i. job = Idle => job.pc = "idle"
    BY IdleFields
  \* A tree of the checkpoint fits an index whose head it is.
  <1>h. ASSUME NEW base, base = cp, SavedIndex'.head = cp
        PROVE  HeadFits(SavedIndex', base, actual')
    BY <1>0, <1>h, NoneAssumption, FitsWhenHead DEF Sound
  \* Nothing but the job and, by a load, the index file changes.
  <1>s. ASSUME UNCHANGED checkpoints, indexFile' \in {indexFile, load_index},
               NEW base, HeadFits(SavedIndex, base, actual)
        PROVE  HeadFits(SavedIndex', base, actual')
    <2>1. actual' = actual /\ SavedIndex' \in {SavedIndex, load_index}
      BY <1>0, <1>s DEF actual_checkpoint_ids, SavedIndex
    <2> QED
      BY <1>0, <1>s, <2>1, FitsWhenLoaded DEF load_index
  <1>c. ASSUME indexFile' \in {indexFile, load_index}, HeadIsCp
        PROVE  SavedIndex'.head = cp
    BY <1>0, <1>1, <1>2, <1>c DEF SavedIndex
  <1>d. ASSUME UNCHANGED <<trees, checkpoints, transaction>>,
               indexFile' \in {indexFile, load_index}, DiskIsRepairable
        PROVE  DiskIsRepairable'
    BY <1>c, <1>d, <1>s DEF DiskIsRepairable, SavedFits, Deferred, trees
  \* No recovery runs afterwards, nor the last step of one.
  <1>q. ASSUME UNCHANGED checkpoints, transaction' # None, transaction'.cp = cp,
               Trees', Positions', DiskIsRepairable',
               job'.pc \notin RecoverySteps \cup {"cd_clear"},
               faults' = 0 /\ job'.pc = "idle" => CommittedDeferred'
        PROVE  RollbackIsRepairable' /\ RecoveryRepairs'
    <2>1. RollbackIsRepairable'
      BY <1>1, <1>q DEF RollbackIsRepairable
    <2>2. RecoveryRepairs'
      BY <1>q DEF RecoveryRepairs, At
    <2> QED
      BY <2>1, <2>2
  <1>3. CASE rb_snapshot
    <2>1. /\ job.pc = "rb_snapshot" /\ job'.pc = "rb_prepared" /\ job.id = cp
          /\ restored' = [data |-> checkpoints[job.id], base |-> job.id]
          /\ UNCHANGED <<current, discarded, checkpoints, transaction, indexFile>>
      BY <1>0, <1>3, GotoFields DEF rb_snapshot, Pcs, At, JobHasArguments, RollbackSteps, files
    <2>2. transaction.phase = "preparing" /\ DiskIsRepairable
      BY <1>0, <1>1, <2>1 DEF TreesFollowJob, RecoverySteps
    <2>3. DiskIsRepairable'
      BY <2>1, <2>2, <1>s DEF DiskIsRepairable, SavedFits
    <2> QED
      BY <1>q, <2>1, <2>3 DEF At, RecoverySteps
  <1>4. CASE rb_prepared
    <2>1. /\ job.pc = "rb_prepared" /\ job'.pc = "rb_move"
          /\ UNCHANGED <<current, restored, discarded, checkpoints, indexFile>>
      BY <1>0, <1>4, GotoFields DEF rb_prepared, Pcs, At, trees
    <2>2. /\ transaction' # None /\ transaction'.phase = "prepared" /\ transaction'.cp = cp
          /\ transaction'.old = transaction.old
      BY <1>0, <1>4, SetPhaseFields DEF rb_prepared, Phases
    <2>3. transaction.phase = "preparing" /\ DiskIsRepairable /\ restored # None
      BY <1>0, <1>1, <2>1 DEF TreesFollowJob, RecoverySteps
    <2>4. DiskIsRepairable'
      BY <2>1, <2>2, <2>3, <1>s DEF DiskIsRepairable, SavedFits
    <2> QED
      BY <1>1, <1>q, <2>1, <2>2, <2>4 DEF At, RecoverySteps
  <1>5. CASE rb_move
    <2>1. /\ job.pc = "rb_move" /\ job'.pc = "rb_moved"
          /\ discarded' = current /\ current' = None
          /\ UNCHANGED <<restored, checkpoints, indexFile, transaction>>
      BY <1>0, <1>5, GotoFields DEF rb_move, Pcs, At, files
    <2>2. /\ transaction.phase = "prepared" /\ DiskIsRepairable /\ restored # None
          /\ current = transaction.old
      BY <1>0, <1>1, <2>1 DEF TreesFollowJob, RecoverySteps, At
    <2>4. current # None
      BY <1>0, <2>2, NothingAssumption
    <2>3. DiskIsRepairable'
      BY <2>1, <2>2, <2>4, <1>s DEF DiskIsRepairable, SavedFits
    <2> QED
      BY <1>1, <1>q, <2>1, <2>2, <2>3 DEF At, RecoverySteps
  <1>6. CASE rb_moved
    <2>1. /\ job.pc = "rb_moved" /\ job'.pc = "rb_install"
          /\ UNCHANGED <<current, restored, discarded, checkpoints, indexFile>>
      BY <1>0, <1>6, GotoFields DEF rb_moved, Pcs, At, trees
    <2>2. /\ transaction' # None /\ transaction'.phase = "old_moved" /\ transaction'.cp = cp
      BY <1>0, <1>6, SetPhaseFields DEF rb_moved, Phases
    <2>3. current = None /\ restored # None /\ discarded # None
      BY <1>0, <2>1 DEF TreesFollowJob
    <2>4. DiskIsRepairable'
      BY <2>1, <2>2, <2>3 DEF DiskIsRepairable
    <2> QED
      BY <1>1, <1>q, <2>1, <2>2, <2>4 DEF At, RecoverySteps
  <1>7. CASE rb_install
    <2>1. /\ job.pc = "rb_install" /\ job'.pc = IF Deferred THEN "rb_save" ELSE "rb_commit"
          /\ current' = restored /\ restored' = None
          /\ UNCHANGED <<discarded, checkpoints, indexFile, transaction>>
      BY <1>0, <1>7, GotoFields DEF rb_install, Pcs, At, files
    <2>2. /\ transaction.phase = "old_moved" /\ DiskIsRepairable /\ restored # None
      BY <1>0, <1>1, <2>1 DEF TreesFollowJob, RecoverySteps
    <2>3. DiskIsRepairable' /\ (Deferred' <=> Deferred)
      BY <1>1, <2>1, <2>2 DEF DiskIsRepairable, Deferred
    <2> QED
      BY <1>1, <1>q, <2>1, <2>2, <2>3 DEF At, RecoverySteps
  <1>8. CASE rb_commit
    <2>1. /\ job.pc = "rb_commit" /\ job'.pc = IF Deferred THEN "idle" ELSE "rb_delete"
          /\ UNCHANGED <<current, restored, discarded, checkpoints, indexFile>>
      BY <1>0, <1>8, GotoFields, IdleFields DEF rb_commit, Done, Pcs, At, trees
    <2>2. /\ transaction' # None /\ transaction'.phase = "committed" /\ transaction'.cp = cp
          /\ Deferred' <=> Deferred
      BY <1>0, <1>8, SetPhaseFields DEF rb_commit, Phases
    <2>3. /\ transaction.phase = "old_moved" /\ DiskIsRepairable /\ current # None
          /\ Deferred => HeadIsCp
      BY <1>0, <1>1, <2>1 DEF TreesFollowJob, RecoverySteps, At
    <2>4. DiskIsRepairable'
      BY <1>c, <2>1, <2>2, <2>3 DEF DiskIsRepairable
    <2> QED
      BY <1>1, <1>q, <2>1, <2>2, <2>3, <2>4 DEF At, RecoverySteps, CommittedDeferred
  <1>9. CASE rb_delete
    <2>1. /\ job.pc = "rb_delete" /\ job'.pc = "rb_save" /\ ~Deferred
          /\ discarded' = None
          /\ UNCHANGED <<current, restored, checkpoints, indexFile, transaction>>
      BY <1>0, <1>9, GotoFields DEF rb_delete, Pcs, At, files, TreesFollowJob
    <2>2. /\ transaction.phase = "committed" /\ DiskIsRepairable
      BY <1>1, <2>1 DEF RecoverySteps
    <2>3. DiskIsRepairable' /\ ~Deferred'
      BY <2>1, <2>2 DEF DiskIsRepairable, Deferred
    <2> QED
      BY <1>1, <1>q, <2>1, <2>2, <2>3 DEF At, RecoverySteps
  <1>10. CASE rb_save
    <2>1. /\ job.pc = "rb_save" /\ job'.pc = IF Deferred THEN "rb_commit" ELSE "rb_clear"
          /\ indexFile' = move_head(job.mem, job.id) /\ job.id = cp
          /\ UNCHANGED <<current, restored, discarded, checkpoints, transaction>>
      BY <1>0, <1>10, GotoFields DEF rb_save, Pcs, At, trees, JobHasArguments, RollbackSteps
    <2>2. SavedIndex'.head = cp
      BY <1>0, <2>1, MoveHeadFields, NothingAssumption DEF SavedIndex
    <2>3. /\ transaction.phase = IF Deferred THEN "old_moved" ELSE "committed"
          /\ DiskIsRepairable
      BY <1>1, <2>1 DEF RecoverySteps, At
    <2>4. DiskIsRepairable' /\ (Deferred' <=> Deferred)
      BY <2>1, <2>2, <2>3 DEF DiskIsRepairable, Deferred
    <2> QED
      BY <1>1, <1>q, <2>1, <2>2, <2>3, <2>4 DEF At, RecoverySteps
  <1>11. CASE rb_clear /\ At("rb_clear")
    <2>1. /\ job.pc = "rb_clear" /\ job'.pc = "idle" /\ transaction' = None
          /\ UNCHANGED <<current, restored, discarded, checkpoints, indexFile>>
      BY <1>11, IdleFields DEF rb_clear, At, Done, trees
    <2>2. HeadIsCp /\ current # None /\ current.base = cp
      BY <1>1, <2>1 DEF At, RecoverySteps, DiskIsRepairable
    <2>3. SavedFits(current)'
      BY <1>c, <1>h, <2>1, <2>2 DEF SavedFits
    <2> QED
      BY <2>1, <2>2, <2>3 DEF HeadWithoutRollback, At
  <1>12. CASE cd_clear
    <2>1. /\ job.pc = "cd_clear" /\ job'.pc = "idle" /\ transaction' = None
          /\ UNCHANGED <<current, restored, discarded, checkpoints, indexFile>>
      BY <1>12, IdleFields DEF cd_clear, At, RecoveryDone, Done, trees
    <2>2. SavedFits(current) /\ current # None
      BY <1>0, <2>1 DEF RecoveryRepairs, TreesFollowJob, At
    <2>3. SavedFits(current)'
      BY <1>s, <2>1, <2>2 DEF SavedFits
    <2> QED
      BY <2>1, <2>2, <2>3 DEF HeadWithoutRollback, At
  <1>13. CASE complete_deferred_rollback \/ recover_committed_deferred \/ describe
    <2>1. /\ job.pc = "idle" /\ job'.pc \in {"idle", "cd_delete"}
          /\ indexFile' \in {indexFile, load_index}
          /\ UNCHANGED <<trees, checkpoints, transaction, faults>>
      BY <1>i, <1>13, IdleFields DEF complete_deferred_rollback, recover_committed_deferred,
         describe, Serving, Recovering, RecoveryRaises, RecoveryDone, Done, Job, rest
    <2>2. DiskIsRepairable'
      BY <1>1, <1>d, <2>1 DEF RecoverySteps
    <2>3. faults' = 0 => CommittedDeferred'
      BY <2>1 DEF RecoveryRepairs, CommittedDeferred, Deferred, trees
    <2> QED
      BY <1>1, <1>q, <2>1, <2>2, <2>3 DEF At, RecoverySteps, trees
  <1>14. CASE cd_delete
    <2>1. /\ job.pc = "cd_delete" /\ job'.pc = "cd_receipt" /\ transaction.phase = "committed"
          /\ discarded' = None
          /\ UNCHANGED <<current, restored, checkpoints, indexFile, transaction>>
      BY <1>0, <1>14, GotoFields DEF cd_delete, Pcs, At, files, JobHasArguments
    <2>2. DiskIsRepairable'
      BY <1>1, <1>c, <2>1 DEF DiskIsRepairable, Deferred, RecoverySteps
    <2> QED
      BY <1>1, <1>q, <2>1, <2>2 DEF At, RecoverySteps
  <1>15. CASE cd_receipt
    <2>1. /\ job.pc = "cd_receipt" /\ job'.pc = "cd_clear"
          /\ Deferred /\ transaction.phase = "committed"
          /\ UNCHANGED <<trees, checkpoints, indexFile, transaction>>
      BY <1>0, <1>15, GotoFields DEF cd_receipt, Pcs, At, JobHasArguments
    <2>2. DiskIsRepairable /\ DiskIsRepairable'
      BY <1>1, <1>d, <2>1 DEF RecoverySteps
    <2>3. HeadIsCp /\ current # None /\ current.base = cp
      BY <2>1, <2>2 DEF DiskIsRepairable
    <2>4. SavedFits(current)'
      BY <1>c, <1>h, <2>1, <2>3 DEF SavedFits, trees
    <2>5. CommittedDeferred'
      BY <2>1, <2>3 DEF CommittedDeferred, Deferred, trees
    <2>6. RollbackIsRepairable'
      BY <1>1, <2>1 DEF RollbackIsRepairable, At, trees
    <2>7. RecoveryRepairs'
      BY <2>1, <2>2, <2>4, <2>5 DEF RecoveryRepairs, At, RecoverySteps
    <2> QED
      BY <2>1, <2>6, <2>7
  <1>16. CASE recover_swap
    <2> DEFINE forward == restored # None /\ transaction.phase # "preparing"
               commit == IF current # None THEN transaction.phase \in swapped_phases
                         ELSE forward
    <2>1. /\ job = Idle /\ job.pc = "idle" /\ ~CommittedDeferred
          /\ UNCHANGED <<checkpoints, indexFile, transaction, faults>>
      BY <1>i, <1>16 DEF recover_swap, Recovering, files
    <2>2. DiskIsRepairable /\ faults' = 1
      BY <1>0, <1>1, <2>1 DEF RecoveryRepairs, RecoverySteps
    <2>3. current = None => forward
      BY <1>0, <2>2, NothingAssumption DEF DiskIsRepairable, Phases
    <2>4. ~(Deferred /\ ~commit /\ receipts[transaction.rid] # "none")
      BY <2>3 DEF TreeIInv, ReceiptsFollowCommit, swapped_phases
    <2>5. /\ job'.flag = commit
          /\ job'.pc = IF Deferred /\ commit THEN "rc_save" ELSE "rc_delete_discard"
          /\ discarded' = discarded
          /\ IF current # None THEN UNCHANGED <<current, restored>>
             ELSE current' = restored /\ restored' = None
      BY <1>16, <2>3, <2>4, IdleFields DEF recover_swap, Job, trees
    <2> HIDE DEF forward
    <2>6. CASE ~commit
      <3>1. current = transaction.old /\ SavedFits(transaction.old)
        BY <1>0, <2>2, <2>3, <2>6 DEF DiskIsRepairable, Phases, swapped_phases
      <3>2. SavedFits(current)'
        BY <1>0, <1>s, <2>1, <2>5, <3>1, NothingAssumption DEF SavedFits
      <3> QED
        BY <1>0, <1>1, <2>1, <2>2, <2>5, <2>6, <3>1, <3>2, NothingAssumption
        DEF RollbackIsRepairable, RecoveryRepairs, RecoverySteps, At, Deferred
    <2>7. CASE commit
      <3>1. /\ current'.base = cp
            /\ Deferred => discarded' # None /\ restored' = None
        <4>1. CASE current = None
          BY <1>0, <1>1, <2>2, <2>3, <2>5, <4>1, NothingAssumption DEF DiskIsRepairable, Phases, forward
        <4>2. CASE current # None
          BY <2>1, <2>2, <2>5, <2>7, <4>2 DEF DiskIsRepairable, swapped_phases, CommittedDeferred
        <4> QED
          BY <4>1, <4>2
      <3>2. restored' \in {restored, None}
        BY <2>5
      <3> QED
        BY <1>1, <2>1, <2>2, <2>5, <2>7, <3>1, <3>2
        DEF RollbackIsRepairable, RecoveryRepairs, RecoverySteps, At, Deferred
    <2> QED
      BY <2>6, <2>7
  <1>17. CASE rc_delete_discard
    <2>1. /\ job.pc = "rc_delete_discard" /\ job'.pc = "rc_delete_restore" /\ job'.flag = job.flag
          /\ UNCHANGED <<current, restored, checkpoints, indexFile, transaction, faults>>
      BY <1>0, <1>17, GotoFields DEF rc_delete_discard, Pcs, Arguments, At, files, rest
    <2>2. Deferred' => ~job'.flag
      BY <1>0, <2>1 DEF TreesFollowJob
    <2>3. /\ faults = 1
          /\ IF job.flag THEN current.base = cp ELSE SavedFits(current)
      BY <2>1 DEF RecoveryRepairs, RecoverySteps
    <2>4. SavedFits(current) => SavedFits(current)'
      BY <1>s, <2>1 DEF SavedFits
    <2>5. RollbackIsRepairable'
      BY <1>1, <2>1 DEF RollbackIsRepairable, RecoverySteps, At
    <2>6. RecoveryRepairs'
      BY <2>1, <2>2, <2>3, <2>4 DEF RecoveryRepairs, RecoverySteps, At
    <2> QED
      BY <2>1, <2>5, <2>6
  <1>18. CASE rc_delete_restore
    <2>1. /\ job.pc = "rc_delete_restore" /\ job'.flag = job.flag
          /\ job'.pc = IF job.flag THEN "rc_save" ELSE "cd_clear"
          /\ restored' = None
          /\ UNCHANGED <<current, discarded, checkpoints, indexFile, transaction, faults>>
      BY <1>0, <1>18, GotoFields DEF rc_delete_restore, Pcs, Arguments, At, files, rest
    <2>2. Deferred' => ~job'.flag
      BY <1>0, <2>1 DEF TreesFollowJob, Deferred
    <2>3. /\ faults = 1
          /\ IF job.flag THEN current.base = cp ELSE SavedFits(current)
      BY <2>1 DEF RecoveryRepairs, RecoverySteps
    <2>4. SavedFits(current) => SavedFits(current)'
      BY <1>s, <2>1 DEF SavedFits
    <2>5. RollbackIsRepairable'
      BY <1>1, <2>1 DEF RollbackIsRepairable, RecoverySteps, At
    <2>6. RecoveryRepairs'
      BY <2>1, <2>2, <2>3, <2>4 DEF RecoveryRepairs, RecoverySteps, At
    <2> QED
      BY <2>1, <2>5, <2>6
  <1>19. CASE rc_save
    <2>1. /\ job.pc = "rc_save"
          /\ UNCHANGED <<current, restored, discarded, checkpoints, transaction, faults>>
      BY <1>19 DEF rc_save, At, trees
    <2>2. /\ faults = 1 /\ job.flag /\ current.base = cp
          /\ Deferred => discarded # None /\ restored = None
      BY <2>1 DEF RecoveryRepairs, RecoverySteps
    <2>3. resolve(load_index, cp, Matches[cp]) = {cp}
      <3>1. load_index.missing = (SavedIndex.known \cup actual) \ actual
        BY <1>0, ReconcileFields DEF load_index
      <3> QED
        BY <1>1, <1>2, <3>1 DEF resolve
    <2>4. Cardinality({cp}) = 1
      BY FS_Singleton
    <2>5. /\ indexFile' = move_head(load_index, cp)
          /\ job'.pc = (IF Deferred THEN "rc_commit" ELSE "cd_clear") /\ job'.flag = job.flag
      BY <1>0, <1>19, <2>2, <2>3, <2>4, GotoFields DEF rc_save, Pcs, Arguments
    <2>6. SavedIndex'.head = cp
      BY <1>0, <2>5, MoveHeadFields, NothingAssumption DEF SavedIndex
    <2>7. SavedFits(current)'
      BY <1>h, <2>1, <2>2, <2>6 DEF SavedFits
    <2>8. RollbackIsRepairable'
      BY <1>1, <2>1, <2>5 DEF RollbackIsRepairable, RecoverySteps, At
    <2>9. RecoveryRepairs'
      BY <2>1, <2>2, <2>5, <2>6, <2>7 DEF RecoveryRepairs, RecoverySteps, At, Deferred
    <2> QED
      BY <2>1, <2>8, <2>9
  <1>20. CASE rc_commit
    <2>1. /\ job.pc = "rc_commit" /\ job'.pc = "idle"
          /\ UNCHANGED <<current, restored, discarded, checkpoints, indexFile, faults>>
      BY <1>20, IdleFields DEF rc_commit, At, RecoveryDone, Done, trees
    <2>2. /\ transaction' # None /\ transaction'.phase = "committed" /\ transaction'.cp = cp
      BY <1>0, <1>20, SetPhaseFields DEF rc_commit, Phases
    <2>3. Deferred /\ current # None
      BY <1>0, <2>1 DEF TreesFollowJob
    <2>4. faults = 1 /\ current.base = cp /\ restored = None /\ HeadIsCp
      BY <2>1, <2>3 DEF RecoveryRepairs, RecoverySteps, At
    <2>5. DiskIsRepairable'
      BY <1>c, <2>1, <2>2, <2>3, <2>4 DEF DiskIsRepairable
    <2> QED
      BY <1>1, <1>q, <2>1, <2>2, <2>4, <2>5 DEF At, RecoverySteps
  <1>21. CASE kill_helper \/ crash
    <2>1. /\ faults = 0 /\ faults' = 1
          /\ UNCHANGED <<trees, checkpoints, indexFile, transaction>>
      BY <1>0, <1>21 DEF kill_helper, crash, Fault, files
    <2>2. job'.pc = "idle" \/ (job' = job /\ job.pc \in RollbackSteps)
      BY <1>21, IdleFields DEF kill_helper, crash, Done, InHelper
    <2>3. DiskIsRepairable
      BY <1>1, <2>1 DEF RecoveryRepairs
    <2>4. DiskIsRepairable'
      BY <1>d, <2>1, <2>3
    <2>5. Positions'
      BY <1>1, <1>c, <2>1, <2>2 DEF At, Deferred
    <2> QED
      BY <1>1, <1>q, <2>1, <2>2, <2>4, <2>5 DEF RecoverySteps, RollbackSteps, trees
  <1>22. CASE UNCHANGED vars
    BY <1>22 DEF vars, RollbackIsRepairable, RecoveryRepairs, DiskIsRepairable, SavedFits,
       SavedIndex, actual_checkpoint_ids, At, Deferred, CommittedDeferred
  <1> QED
    BY <1>3, <1>4, <1>5, <1>6, <1>7, <1>8, <1>9, <1>10, <1>11, <1>12, <1>13, <1>14, <1>15,
       <1>16, <1>17, <1>18, <1>19, <1>20, <1>21, <1>22, RollbackOnlySteps

\* A rollback begins with the workspace and the head it would return to.
LEMMA RollbackStarts ==
  ASSUME IndexIInv, HeadWithoutRollback, transaction = None, transaction' # None, [Next]_vars,
         RollbackIsFenced, TreeIInv, ~Failures, ~Recreate, ~Advisory, Readers = {}
  PROVE  RollbackIsRepairable' /\ RecoveryRepairs'
  <1>1. PICK cp \in Ids, rid \in RecoveryIds \cup {None} : rollback(cp, rid)
    <2>1. ~create_session /\ ~cs_save /\ ~cc_snapshot /\ ~cc_save /\ ~dc_delete /\ ~dc_save
      BY DEF create_session, cs_save, cc_snapshot, cc_save, dc_delete, dc_save, files
    <2>2. ~recover_nothing /\ ~describe /\ ~crash /\ ~UNCHANGED vars
      BY DEF recover_nothing, describe, crash, vars, files
    <2>3. \A d \in Data : ~write_workspace(d)
      BY DEF write_workspace, files
    <2>4. \A c \in Ids, pin \in BOOLEAN : ~create_checkpoint(c, pin)
      BY DEF create_checkpoint
    <2>5. ASSUME NEW name \in DOMAIN Matches, NEW force \in BOOLEAN,
                delete_checkpoint(name, force)
         PROVE  FALSE
      BY <2>5 DEF delete_checkpoint
    <2> QED
      BY <2>1, <2>2, <2>3, <2>4, <2>5, NoRollbackSteps
  <1>2. /\ current # None /\ SavedFits(current) /\ checkpoints[cp] # None
        /\ indexFile' = load_index /\ UNCHANGED <<current, restored, discarded, checkpoints>>
        /\ transaction' = [phase |-> "preparing", cp |-> cp, rid |-> rid, old |-> current]
        /\ job'.pc = "rb_snapshot"
    BY <1>1, IdleFields DEF rollback, HeadWithoutRollback, Job, trees
  <1>3. restored = None /\ discarded = None
    BY DEF TreeIInv, TreesFollowJob
  <1>4. SavedIndex' = load_index /\ actual_checkpoint_ids' = actual_checkpoint_ids
    BY <1>2, LoadIsSound DEF SavedIndex, actual_checkpoint_ids
  <1>5. HeadFits(load_index, current.base, actual_checkpoint_ids)
    BY <1>2, LoadIsSound, FitsWhenLoaded DEF SavedFits, load_index, Sound, actual_checkpoint_ids
  <1>6. DiskIsRepairable'
    BY <1>2, <1>3, <1>4, <1>5 DEF DiskIsRepairable, SavedFits
  <1> QED
    BY <1>2, <1>3, <1>6 DEF RollbackIsRepairable, RecoveryRepairs, RecoverySteps, At

LEMMA FaultsGrow ==
  ASSUME TypeOK, Readers = {}, [Next]_vars
  PROVE  faults \in Nat /\ faults' \in {faults, faults + 1}
  <1>1. faults \in Nat
    BY MaxFaultsAssumption DEF TypeOK
  <1>2. JobStep => faults' \in {faults, faults + 1}
    BY DEF JobStep, cs_save, cc_snapshot, cc_save, dc_delete, dc_save, rb_snapshot,
       rb_prepared, rb_move, rb_moved, rb_install, rb_undo, rb_undo_delete, rb_commit,
       rb_delete, rb_save, rb_clear, cd_delete, cd_receipt, cd_clear, rc_delete_discard,
       rc_delete_restore, rc_save, rc_commit, rest, Fault
  <1>3. Recover => faults' = faults
    BY DEF Recover, recover_nothing, recover_committed_deferred, recover_swap
  <1>4. \A d \in Data : write_workspace(d) => faults' = faults
    BY DEF write_workspace, rest
  <1>5. \A c \in Ids, pin \in BOOLEAN : create_checkpoint(c, pin) => faults' = faults
    BY DEF create_checkpoint, rest
  <1>6. \A name \in DOMAIN Matches, force \in BOOLEAN :
          delete_checkpoint(name, force) => faults' = faults
    BY DEF delete_checkpoint, rest
  <1>7. \A cp \in Ids, rid \in RecoveryIds \cup {None} : rollback(cp, rid) => faults' = faults
    BY DEF rollback
  <1>8. create_session \/ complete_deferred_rollback \/ describe \/ release_fence
          \/ UNCHANGED vars
        => faults' = faults
    BY DEF create_session, complete_deferred_rollback, describe, release_fence, rest, vars
  <1>9. raise \/ kill_helper \/ crash => faults' = faults + 1
    BY DEF raise, kill_helper, crash, Fault
  <1> QED
    BY <1>1, <1>2, <1>3, <1>4, <1>5, <1>6, <1>7, <1>8, <1>9 DEF Next

\* A crash of the daemon or a kill of the helper, at any step of any operation
\* or of none, is repaired in full when it is the only one: afterwards the
\* saved head is the checkpoint the workspace is from.  Failing calls and
\* advisory recovery are excluded because they can part head and workspace;
\* repeated creation and unlocked readers, which write an index of their own,
\* are left to the other theorems.
THEOREM OneFaultIsHarmless ==
  ASSUME ~Failures, ~Recreate, ~Advisory, Readers = {}
  PROVE  Spec => []OneFaultHead
  <1>1. Init => RollbackIsFenced /\ OneFaultIsRepaired
    BY IdleFields DEF Init, RollbackIsFenced, OneFaultIsRepaired, HeadWithoutRollback,
       RollbackIsRepairable, RecoveryRepairs, SavedIndex, EmptyIndex, At
  <1>2. IndexIInv /\ TreeIInv /\ RollbackIsFenced /\ [Next]_vars => RollbackIsFenced'
    BY FenceStep
  <1>3. ASSUME IndexIInv, IndexIInv', TreeIInv, TreeIInv', RollbackIsFenced, OneFaultIsRepaired,
               [Next]_vars
        PROVE  OneFaultIsRepaired'
    <2> SUFFICES ASSUME faults' <= 1
                 PROVE  HeadWithoutRollback' /\ RollbackIsRepairable' /\ RecoveryRepairs'
      BY DEF OneFaultIsRepaired
    <2>1. faults <= 1
      BY <1>3, FaultsGrow DEF IndexIInv
    <2>2. HeadWithoutRollback /\ RollbackIsRepairable /\ RecoveryRepairs
      BY <1>3, <2>1 DEF OneFaultIsRepaired
    <2>3. CASE transaction # None
      BY <1>3, <2>1, <2>2, <2>3, RepairStep
      DEF HeadWithoutRollback, RollbackIsRepairable, RecoveryRepairs
    <2>4. CASE transaction = None /\ transaction' = None
      BY <1>3, <2>2, <2>4, HeadStep DEF RollbackIsRepairable, RecoveryRepairs
    <2>5. CASE transaction = None /\ transaction' # None
      BY <1>3, <2>2, <2>5, RollbackStarts DEF HeadWithoutRollback
    <2> QED
      BY <2>3, <2>4, <2>5
  <1>4. ASSUME IndexIInv, OneFaultIsRepaired
        PROVE  OneFaultHead
    <2> SUFFICES ASSUME faults <= 1, job = Idle, current # None,
                        transaction = None \/ CommittedDeferred
                 PROVE  load_index.head = IF current.base \in actual_checkpoint_ids
                                          THEN current.base ELSE None
      BY DEF OneFaultHead, HeadMatchesWorkspace
    <2>1. HeadWithoutRollback /\ RollbackIsRepairable
      BY <1>4 DEF OneFaultIsRepaired
    <2>2. load_index.head = IF SavedIndex.head \in actual_checkpoint_ids
                            THEN SavedIndex.head ELSE None
      BY <1>4, LoadIsSound, ReconcileFields DEF load_index, Sound, actual_checkpoint_ids
    <2>3. CASE transaction = None
      BY <2>1, <2>2, <2>3 DEF HeadWithoutRollback, SavedFits, HeadFits
    <2>4. CASE CommittedDeferred
      <3>1. DiskIsRepairable
        BY <2>1, <2>4, IdleFields DEF RollbackIsRepairable, RecoverySteps, CommittedDeferred, Deferred
      <3> QED
        BY <2>2, <2>4, <3>1 DEF DiskIsRepairable, CommittedDeferred
    <2> QED
      BY <2>3, <2>4
  <1> QED
    BY <1>1, <1>2, <1>3, <1>4, StoreInvariant, TreeInvariant, PTL DEF Spec
=============================================================================
