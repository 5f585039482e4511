---------------------------- MODULE AtomicSession ----------------------------
(***************************************************************************)
(* What store.py promises of one Session, without subvolumes, files, locks *)
(* or crashes: a workspace, its checkpoints, and a rollback that replaces  *)
(* the workspace in one step or not at all, during which nobody else       *)
(* writes, saves or deletes.                                               *)
(***************************************************************************)
CONSTANTS Ids, Data, EmptyData, None

VARIABLES
  data,      \* contents of the workspace, None before session.create
  saves,     \* id -> contents of the checkpoint, or None
  pending    \* the checkpoint of the rollback under way, or None

vars == <<data, saves, pending>>

Init ==
  /\ data = None
  /\ saves = [c \in Ids |-> None]
  /\ pending = None

Create == data = None /\ data' = EmptyData /\ UNCHANGED <<saves, pending>>

Write ==
  /\ data # None /\ pending = None
  /\ data' \in Data
  /\ UNCHANGED <<saves, pending>>

Save(c) ==
  /\ data # None /\ pending = None /\ saves[c] = None
  /\ saves' = [saves EXCEPT ![c] = data]
  /\ UNCHANGED <<data, pending>>

Delete(c) ==
  /\ pending = None
  /\ saves' = [saves EXCEPT ![c] = None]
  /\ UNCHANGED <<data, pending>>

Begin(c) ==
  /\ data # None /\ pending = None /\ saves[c] # None
  /\ pending' = c
  /\ UNCHANGED <<data, saves>>

Restore ==
  /\ pending # None
  /\ data' = saves[pending]
  /\ UNCHANGED <<saves, pending>>

End == pending # None /\ pending' = None /\ UNCHANGED <<data, saves>>

Next ==
  \/ Create \/ Write \/ Restore \/ End
  \/ \E c \in Ids : Save(c) \/ Delete(c) \/ Begin(c)

Spec == Init /\ [][Next]_vars
=============================================================================
