---------------------------- MODULE WorkspaceStore ----------------------------
(***************************************************************************)
(* workspace/store.py for one Session: the working subvolume `current/`,   *)
(* the read-only checkpoint subvolumes, the checkpoint index file, the     *)
(* rollback transaction file and the recovery receipts.                    *)
(*                                                                         *)
(* Every mutator holds the Session lock (_session_lock) from its first     *)
(* read to its last write, so at most one runs at a time: `job`.  A job    *)
(* takes one step per durable effect (a Btrfs command, a rename, an atomic *)
(* JSON write), and the daemon may crash between any two.  describe() and  *)
(* checkpoint_status() load the index, and may write it back, without the  *)
(* lock: `readers`.  The helper process of a recovery run executes the     *)
(* deferred rollback and survives a crash of the daemon.                   *)
(*                                                                         *)
(* A workspace tree is its data and, for the specification only, `base`:   *)
(* the checkpoint it was last saved to or restored from.                   *)
(***************************************************************************)
EXTENDS CheckpointIndex

CONSTANTS
  Matches,       \* requested name -> the ids it is a prefix of
  RecoveryIds,
  Data,          \* file contents of a workspace tree
  EmptyData,     \* contents of a new subvolume
  Readers,       \* threads inside an unlocked describe / checkpoint_status
  Failures,      \* BOOLEAN: may a Btrfs command, a rename or a write raise
  Recreate,      \* BOOLEAN: may session.create be repeated while a rollback is unfinished
  Advisory,      \* BOOLEAN: recovery runs use require_consistent=false
  MaxAncestors,  \* bound on num_ancestors
  MaxFaults      \* bound on crashes, helper kills, raised errors and unlocked reads

ASSUME MatchesAssumption == \A c \in Ids : c \in DOMAIN Matches /\ c \in Matches[c]
ASSUME EmptyDataAssumption == EmptyData \in Data
ASSUME MaxFaultsAssumption == MaxFaults \in Nat

VARIABLES
  current, restored, discarded,  \* subvolumes of the Session directory, or None
  checkpoints,                   \* id -> data of its subvolume, or None
  indexFile,                     \* the saved index, or None
  transaction,                   \* the rollback transaction file, or None
  receipts,                      \* recovery id -> deferred cleanup receipt
  job,                           \* the mutator holding the Session lock
  readers,                       \* reader -> the index it holds in memory
  released,                      \* the lease of a failed recovery run was given up
  daemon,                        \* "up", "booting" or "failed" (initialize raised)
  faults,
  acked                          \* history: id -> "none", "plain" or "pinned"

trees == <<current, restored, discarded>>
files == <<indexFile, transaction, receipts>>
vars == <<current, restored, discarded, checkpoints, indexFile, transaction,
          receipts, job, readers, released, daemon, faults, acked>>

Tree == [data : Data, base : IdOrNone]
Phases == {"preparing", "prepared", "old_moved", "committed"}
Transaction == [phase : Phases, cp : Ids, rid : RecoveryIds \cup {None}, old : Tree]
Receipt == {"none", "cleanup_started", "completed"}

ASSUME NothingAssumption == None \notin Data \cup Tree \cup Transaction \cup Index \cup RecoveryIds

\* A job: what it does next, its checkpoint, its boolean argument (pinned,
\* force, or the commit decision of a recovery), its recovery id and the
\* index it loaded.
Idle == [pc |-> "idle", id |-> None, flag |-> FALSE, rid |-> None, mem |-> EmptyIndex]
Pcs == {"idle", "cs_save", "cc_snapshot", "cc_save", "dc_delete", "dc_save",
        "rb_snapshot", "rb_prepared", "rb_move", "rb_moved", "rb_install",
        "rb_undo", "rb_undo_delete", "rb_undo_clear", "rb_commit", "rb_save",
        "rb_delete", "rb_clear", "cd_delete", "cd_receipt", "cd_clear",
        "rc_delete_discard", "rc_delete_restore", "rc_save", "rc_commit"}
Job == [pc : Pcs, id : IdOrNone, flag : BOOLEAN, rid : RecoveryIds \cup {None}, mem : Index]

TypeOK ==
  /\ {current, restored, discarded} \subseteq Tree \cup {None}
  /\ checkpoints \in [Ids -> Data \cup {None}]
  /\ indexFile \in Index \cup {None}
  /\ transaction \in Transaction \cup {None}
  /\ receipts \in [RecoveryIds -> Receipt]
  /\ job \in Job
  /\ readers \in [Readers -> [pc : {"idle", "read", "save"}, mem : Index]]
  /\ released \in BOOLEAN
  /\ daemon \in {"up", "booting", "failed"}
  /\ faults \in 0..MaxFaults
  /\ acked \in [Ids -> {"none", "plain", "pinned"}]

Init ==
  /\ current = None /\ restored = None /\ discarded = None
  /\ checkpoints = [c \in Ids |-> None]
  /\ indexFile = None
  /\ transaction = None
  /\ receipts = [r \in RecoveryIds |-> "none"]
  /\ job = Idle
  /\ readers = [r \in Readers |-> [pc |-> "idle", mem |-> EmptyIndex]]
  /\ released = FALSE
  /\ daemon = "up"
  /\ faults = 0
  /\ acked = [c \in Ids |-> "none"]

-----------------------------------------------------------------------------
(* Helpers *)

actual_checkpoint_ids == {c \in Ids : checkpoints[c] # None}

SavedIndex == IF indexFile = None THEN EmptyIndex ELSE indexFile

\* load_index: the file reconciled with the checkpoint directory; what it
\* returns is also what it leaves in the file.
load_index == reconcile(SavedIndex, actual_checkpoint_ids)

Deferred == transaction # None /\ transaction.rid # None

\* A request is served when no other one holds the Session lock.
Serving == daemon = "up" /\ job = Idle

\* Faulty variant: a deferred rollback keeps nobody out.
Bug_NoFence == Serving

\* The lease of a recovery execution keeps checkpoint.create,
\* checkpoint.delete and session.rollback out until its deferred rollback
\* is completed (ExecutionRegistry: MutationIsExclusive) or, when the helper
\* failed under require_consistent=false, until the run is released.
Unfenced == Serving /\ (Deferred => released)

Fault == faults < MaxFaults /\ faults' = faults + 1

At(pc) == job.pc = pc
Goto(next) == job' = [job EXCEPT !.pc = next]
Done == job' = Idle

RollbackSteps == {"rb_snapshot", "rb_prepared", "rb_move", "rb_moved", "rb_install",
                  "rb_undo", "rb_undo_delete", "rb_undo_clear", "rb_commit",
                  "rb_save", "rb_delete", "rb_clear"}
\* The deferred rollback runs in the helper process.
InHelper == Deferred /\ job.pc \in RollbackSteps

\* initialize() returns, and a booting daemon starts to serve; or it raises.
RecoveryDone == Done /\ daemon' = "up"
RecoveryRaises == Done /\ daemon' = IF daemon = "booting" THEN "failed" ELSE daemon

Rebased(tree, base) == IF tree = None THEN None ELSE [tree EXCEPT !.base = base]
SetPhase(phase) == transaction' = [transaction EXCEPT !.phase = phase]

rest == <<readers, released, daemon, faults, acked>>

-----------------------------------------------------------------------------
(* session.create, and the agent's own writes to its workspace *)

create_session ==
  /\ Serving
  /\ current = None
  /\ Recreate \/ transaction = None
  /\ current' = [data |-> EmptyData, base |-> None]
  /\ Goto("cs_save")
  /\ UNCHANGED <<restored, discarded, checkpoints, files, rest>>

\* The empty index is saved and then described.
cs_save ==
  /\ At("cs_save")
  /\ indexFile' = reconcile(EmptyIndex, actual_checkpoint_ids)
  /\ Done
  /\ UNCHANGED <<trees, checkpoints, transaction, receipts, rest>>

write_workspace(d) ==
  /\ Unfenced
  /\ current # None
  /\ current' = [current EXCEPT !.data = d]
  /\ UNCHANGED <<restored, discarded, checkpoints, files, job, rest>>

-----------------------------------------------------------------------------
(* checkpoint.create and checkpoint.delete *)

create_checkpoint(c, pin) ==
  /\ Unfenced
  /\ current # None
  /\ checkpoints[c] = None
  /\ c \notin load_index.known
  /\ indexFile' = load_index
  /\ job' = [Idle EXCEPT !.pc = "cc_snapshot", !.id = c, !.flag = pin,
                         !.mem = add(load_index, c, pin)]
  /\ UNCHANGED <<trees, checkpoints, transaction, receipts, rest>>

cc_snapshot ==
  /\ At("cc_snapshot")
  /\ checkpoints' = [checkpoints EXCEPT ![job.id] = current.data]
  /\ Goto("cc_save")
  /\ UNCHANGED <<trees, files, rest>>

cc_save ==
  /\ At("cc_save")
  /\ indexFile' = job.mem
  /\ current' = Rebased(current, job.id)
  /\ acked' = [acked EXCEPT ![job.id] = IF job.flag THEN "pinned" ELSE "plain"]
  /\ Done
  /\ UNCHANGED <<restored, discarded, checkpoints, transaction, receipts,
                 readers, released, daemon, faults>>

delete_checkpoint(name, force) ==
  /\ Unfenced
  /\ \E c \in Ids :
       /\ resolve(load_index, name, Matches[name]) = {c}
       /\ c \in load_index.pinned => force
       /\ indexFile' = load_index
       /\ job' = [Idle EXCEPT !.pc = "dc_delete", !.id = c, !.flag = force,
                              !.mem = load_index]
  /\ UNCHANGED <<trees, checkpoints, transaction, receipts, rest>>

dc_delete ==
  /\ At("dc_delete")
  /\ checkpoints' = [checkpoints EXCEPT ![job.id] = None]
  /\ acked' = [acked EXCEPT ![job.id] = "none"]
  /\ job' = [job EXCEPT !.pc = "dc_save", !.mem = remove(@, job.id)]
  /\ UNCHANGED <<trees, files, readers, released, daemon, faults>>

dc_save ==
  /\ At("dc_save")
  /\ indexFile' = job.mem
  /\ current' = IF current # None /\ current.base = job.id
                THEN Rebased(current, job.mem.head) ELSE current
  /\ Done
  /\ UNCHANGED <<restored, discarded, checkpoints, transaction, receipts, rest>>

-----------------------------------------------------------------------------
(* rollback, immediate (rid = None) or deferred *)

\* The requested name, or ancestor number, selects cp; a deferred rollback
\* takes only the complete id.
Selects(ix, cp, rid) ==
  \/ \E name \in DOMAIN Matches :
       /\ rid # None => name = cp
       /\ resolve(ix, name, Matches[name]) = {cp}
  \/ rid = None /\ \E n \in 1..MaxAncestors : resolve_ancestor(ix, n) = cp

rollback(cp, rid) ==
  /\ job = Idle
  /\ rid = None => daemon = "up"
  /\ transaction = None
  /\ rid # None => receipts[rid] = "none"
  /\ Selects(load_index, cp, rid)
  /\ checkpoints[cp] # None
  /\ current # None
  /\ indexFile' = load_index
  /\ transaction' = [phase |-> "preparing", cp |-> cp, rid |-> rid, old |-> current]
  /\ released' = FALSE
  /\ job' = [Idle EXCEPT !.pc = "rb_snapshot", !.id = cp, !.mem = load_index]
  /\ UNCHANGED <<trees, checkpoints, receipts, readers, daemon, faults, acked>>

\* Faulty variant: a failed snapshot undoes a move that did not happen.
Bug_SnapshotFailureUndoesMove ==
  /\ At("rb_snapshot")
  /\ \/ /\ restored' = [data |-> checkpoints[job.id], base |-> job.id]
        /\ Goto("rb_prepared")
        /\ UNCHANGED faults
     \/ Failures /\ Fault /\ Goto("rb_undo") /\ UNCHANGED restored
  /\ UNCHANGED <<current, discarded, checkpoints, files, readers, released, daemon, acked>>

rb_snapshot ==
  /\ At("rb_snapshot")
  /\ \/ /\ restored' = [data |-> checkpoints[job.id], base |-> job.id]
        /\ Goto("rb_prepared")
        /\ UNCHANGED faults
     \/ Failures /\ Fault /\ Goto("rb_undo_delete") /\ UNCHANGED restored
  /\ UNCHANGED <<current, discarded, checkpoints, files, readers, released, daemon, acked>>

rb_prepared ==
  /\ At("rb_prepared")
  /\ SetPhase("prepared")
  /\ Goto("rb_move")
  /\ UNCHANGED <<trees, checkpoints, indexFile, receipts, rest>>

rb_move ==
  /\ At("rb_move")
  /\ discarded' = current /\ current' = None
  /\ Goto("rb_moved")
  /\ UNCHANGED <<restored, checkpoints, files, rest>>

rb_moved ==
  /\ At("rb_moved")
  /\ SetPhase("old_moved")
  /\ Goto("rb_install")
  /\ UNCHANGED <<trees, checkpoints, indexFile, receipts, rest>>

rb_install ==
  /\ At("rb_install")
  /\ \/ /\ current' = restored /\ restored' = None
        /\ Goto(IF Deferred THEN "rb_save" ELSE "rb_commit")
        /\ UNCHANGED faults
     \/ Failures /\ Fault /\ Goto("rb_undo") /\ UNCHANGED <<current, restored>>
  /\ UNCHANGED <<discarded, checkpoints, files, readers, released, daemon, acked>>

\* Faulty variant: the prepared tree is left behind.
Bug_UndoKeepsRestore ==
  /\ At("rb_undo")
  /\ current' = discarded /\ discarded' = None
  /\ Goto("rb_undo_clear")
  /\ UNCHANGED <<restored, checkpoints, files, rest>>

rb_undo ==
  /\ At("rb_undo")
  /\ current' = discarded /\ discarded' = None
  /\ Goto("rb_undo_delete")
  /\ UNCHANGED <<restored, checkpoints, files, rest>>

rb_undo_delete ==
  /\ At("rb_undo_delete")
  /\ restored' = None
  /\ Goto("rb_undo_clear")
  /\ UNCHANGED <<current, discarded, checkpoints, files, rest>>

\* Faulty variant: a deferred rollback releases the old tree at once.
Bug_CommitNotDeferred ==
  /\ At("rb_commit")
  /\ SetPhase("committed")
  /\ Goto("rb_delete")
  /\ UNCHANGED <<trees, checkpoints, indexFile, receipts, rest>>

\* The immediate rollback commits, deletes the old tree and then moves the
\* head; the deferred one moves the head, commits and keeps the old tree.
rb_commit ==
  /\ At("rb_commit")
  /\ SetPhase("committed")
  /\ IF Deferred THEN Done ELSE Goto("rb_delete")
  /\ UNCHANGED <<trees, checkpoints, indexFile, receipts, rest>>

rb_delete ==
  /\ At("rb_delete")
  /\ discarded' = None
  /\ Goto("rb_save")
  /\ UNCHANGED <<current, restored, checkpoints, files, rest>>

rb_save ==
  /\ At("rb_save")
  /\ indexFile' = move_head(job.mem, job.id)
  /\ Goto(IF Deferred THEN "rb_commit" ELSE "rb_clear")
  /\ UNCHANGED <<trees, checkpoints, transaction, receipts, rest>>

rb_clear ==
  /\ job.pc \in {"rb_clear", "rb_undo_clear"}
  /\ transaction' = None
  /\ Done
  /\ UNCHANGED <<trees, checkpoints, indexFile, receipts, rest>>

-----------------------------------------------------------------------------
(* complete_deferred_rollback: the receipt authorises the cleanup, then the *)
(* old tree is deleted, the receipt completed and the transaction cleared.  *)
(* With no transaction the call only reads.                                 *)

\* What both the completion and a recovery demand of a committed deferred
\* rollback.
DeferredIntact ==
  /\ restored = None
  /\ load_index.head = transaction.cp
  /\ receipts[transaction.rid] = "none" => discarded # None

complete_deferred_rollback ==
  /\ Serving /\ ~released
  /\ Deferred /\ transaction.phase = "committed"
  /\ current # None
  /\ DeferredIntact
  /\ indexFile' = load_index
  /\ receipts' = [receipts EXCEPT ![transaction.rid] =
                    IF @ = "none" THEN "cleanup_started" ELSE @]
  /\ job' = [Idle EXCEPT !.pc = "cd_delete", !.rid = transaction.rid]
  /\ UNCHANGED <<trees, checkpoints, transaction, rest>>

cd_delete ==
  /\ At("cd_delete")
  /\ discarded' = None
  /\ Goto("cd_receipt")
  /\ UNCHANGED <<current, restored, checkpoints, files, rest>>

cd_receipt ==
  /\ At("cd_receipt")
  /\ receipts' = [receipts EXCEPT ![job.rid] = "completed"]
  /\ Goto("cd_clear")
  /\ UNCHANGED <<trees, checkpoints, indexFile, transaction, rest>>

cd_clear ==
  /\ At("cd_clear")
  /\ transaction' = None
  /\ RecoveryDone
  /\ UNCHANGED <<trees, checkpoints, indexFile, receipts, readers, released, faults, acked>>

-----------------------------------------------------------------------------
(* _recover_session, from initialize(): at boot before the daemon serves,   *)
(* or on a store.initialize request                                         *)

Recovering == job = Idle /\ daemon \in {"up", "booting"}

recover_nothing ==
  /\ Recovering /\ daemon = "booting"
  /\ transaction = None
  /\ RecoveryDone
  /\ UNCHANGED <<trees, checkpoints, files, readers, released, faults, acked>>

CommittedDeferred == Deferred /\ transaction.phase = "committed" /\ current # None

\* Faulty variant: the daemon waits for the cleanup before it serves.
Bug_RecoverAwaitsReceipt ==
  /\ Recovering
  /\ CommittedDeferred
  /\ indexFile' = IF restored = None THEN load_index ELSE indexFile
  /\ IF ~DeferredIntact THEN RecoveryRaises
     ELSE /\ receipts[transaction.rid] # "none"
          /\ job' = [Idle EXCEPT !.pc = "cd_delete", !.rid = transaction.rid]
          /\ UNCHANGED daemon
  /\ UNCHANGED <<trees, checkpoints, transaction, receipts, readers, released, faults, acked>>

recover_committed_deferred ==
  /\ Recovering
  /\ CommittedDeferred
  /\ indexFile' = IF restored = None THEN load_index ELSE indexFile
  /\ IF ~DeferredIntact THEN RecoveryRaises
     ELSE IF receipts[transaction.rid] = "none" THEN RecoveryDone
     ELSE /\ job' = [Idle EXCEPT !.pc = "cd_delete", !.rid = transaction.rid]
          /\ UNCHANGED daemon
  /\ UNCHANGED <<trees, checkpoints, transaction, receipts, readers, released, faults, acked>>

\* The phases in which a current/ directory is the checkpoint's tree.
swapped_phases == {"old_moved", "committed"}

\* Decide whether the swap is completed or undone, and rename a tree to
\* current/ if the interrupted rollback left none there.
recover_swap ==
  /\ Recovering
  /\ transaction # None /\ ~CommittedDeferred
  /\ LET forward == restored # None /\ transaction.phase # "preparing"
         commit == IF current # None THEN transaction.phase \in swapped_phases
                   ELSE forward
         receipted == Deferred /\ ~commit /\ receipts[transaction.rid] # "none"
     IN  /\ IF current # None THEN UNCHANGED trees
            ELSE IF forward
            THEN current' = restored /\ restored' = None /\ UNCHANGED discarded
            ELSE current' = discarded /\ discarded' = None /\ UNCHANGED restored
         /\ IF receipted \/ (current = None /\ ~forward /\ discarded = None)
            THEN RecoveryRaises
            ELSE /\ job' = [Idle EXCEPT !.flag = commit, !.pc =
                              IF Deferred /\ commit THEN "rc_save" ELSE "rc_delete_discard"]
                 /\ UNCHANGED daemon
  /\ UNCHANGED <<checkpoints, files, readers, released, faults, acked>>

rc_delete_discard ==
  /\ At("rc_delete_discard")
  /\ discarded' = None
  /\ Goto("rc_delete_restore")
  /\ UNCHANGED <<current, restored, checkpoints, files, rest>>

\* Faulty variant: a completed swap does not move the head.
Bug_RecoverForgetsHead ==
  /\ At("rc_delete_restore")
  /\ restored' = None
  /\ Goto("cd_clear")
  /\ UNCHANGED <<current, discarded, checkpoints, files, rest>>

rc_delete_restore ==
  /\ At("rc_delete_restore")
  /\ restored' = None
  /\ Goto(IF job.flag THEN "rc_save" ELSE "cd_clear")
  /\ UNCHANGED <<current, discarded, checkpoints, files, rest>>

rc_save ==
  /\ At("rc_save")
  /\ LET found == resolve(load_index, transaction.cp, Matches[transaction.cp])
     IN  IF Deferred /\ (discarded = None \/ restored # None)
         THEN RecoveryRaises /\ UNCHANGED indexFile
         ELSE IF Cardinality(found) # 1
         THEN RecoveryRaises /\ indexFile' = load_index
         ELSE /\ \E c \in found : indexFile' = move_head(load_index, c)
              /\ Goto(IF Deferred THEN "rc_commit" ELSE "cd_clear")
              /\ UNCHANGED daemon
  /\ UNCHANGED <<trees, checkpoints, transaction, receipts, readers, released, faults, acked>>

rc_commit ==
  /\ At("rc_commit")
  /\ SetPhase("committed")
  /\ RecoveryDone
  /\ UNCHANGED <<trees, checkpoints, indexFile, receipts, readers, released, faults, acked>>

-----------------------------------------------------------------------------
(* Unlocked index readers: session.describe and checkpoint.list.  The file  *)
(* is read, then the directory, and a changed index is written back.  A read *)
(* counts as two faults: under MaxFaults = 2 reads and faults come apart.    *)

read_index(r) ==
  /\ daemon = "up"
  /\ readers[r].pc = "idle"
  /\ faults + 2 <= MaxFaults /\ faults' = faults + 2
  /\ readers' = [readers EXCEPT ![r] = [pc |-> "read", mem |-> SavedIndex]]
  /\ UNCHANGED <<trees, checkpoints, files, job, released, daemon, acked>>

reconcile_index(r) ==
  /\ readers[r].pc = "read"
  /\ LET ix == reconcile(readers[r].mem, actual_checkpoint_ids)
     IN  readers' = [readers EXCEPT ![r] =
           IF ix # readers[r].mem \/ indexFile = None THEN [pc |-> "save", mem |-> ix]
           ELSE [pc |-> "idle", mem |-> EmptyIndex]]
  /\ UNCHANGED <<trees, checkpoints, files, job, released, daemon, faults, acked>>

write_back_index(r) ==
  /\ readers[r].pc = "save"
  /\ indexFile' = readers[r].mem
  /\ readers' = [readers EXCEPT ![r] = [pc |-> "idle", mem |-> EmptyIndex]]
  /\ UNCHANGED <<trees, checkpoints, transaction, receipts, job, released, daemon, faults, acked>>

\* A reader, or a mutator that is refused after loading the index, that met
\* no concurrent writer.
describe ==
  /\ Serving
  /\ indexFile' = load_index
  /\ UNCHANGED <<trees, checkpoints, transaction, receipts, job, rest>>

-----------------------------------------------------------------------------
(* Faults *)

\* A recovery run whose helper failed ends without cleanup; its receipt
\* allows the release of the lease when consistency is only advisory.
release_fence ==
  /\ Advisory
  /\ Serving /\ Deferred
  /\ ~released /\ released' = TRUE
  /\ UNCHANGED <<trees, checkpoints, files, job, readers, daemon, faults, acked>>

\* A step other than the two with exception handlers raises: the request
\* ends where it stands and the daemon keeps serving (or fails to boot).
raise ==
  /\ Failures /\ Fault
  /\ job.pc \notin {"idle", "rb_snapshot", "rb_install"}
  /\ IF job.pc \in RollbackSteps THEN Done /\ UNCHANGED daemon ELSE RecoveryRaises
  /\ UNCHANGED <<trees, checkpoints, files, readers, released, acked>>

\* The recovery runner kills its helper on a timeout.
kill_helper ==
  /\ InHelper
  /\ Fault
  /\ Done
  /\ UNCHANGED <<trees, checkpoints, files, readers, released, daemon, acked>>

crash ==
  /\ Fault
  /\ daemon' = "booting"
  /\ readers' = [r \in Readers |-> [pc |-> "idle", mem |-> EmptyIndex]]
  /\ IF InHelper THEN UNCHANGED job ELSE Done
  /\ UNCHANGED <<trees, checkpoints, files, released, acked>>

-----------------------------------------------------------------------------
JobStep ==
  \/ cs_save \/ cc_snapshot \/ cc_save \/ dc_delete \/ dc_save
  \/ rb_snapshot \/ rb_prepared \/ rb_move \/ rb_moved \/ rb_install
  \/ rb_undo \/ rb_undo_delete \/ rb_commit \/ rb_delete \/ rb_save \/ rb_clear
  \/ cd_delete \/ cd_receipt \/ cd_clear
  \/ rc_delete_discard \/ rc_delete_restore \/ rc_save \/ rc_commit

Recover == recover_nothing \/ recover_committed_deferred \/ recover_swap

Next ==
  \/ create_session
  \/ \E d \in Data : write_workspace(d)
  \/ \E c \in Ids, pin \in BOOLEAN : create_checkpoint(c, pin)
  \/ \E name \in DOMAIN Matches, force \in BOOLEAN : delete_checkpoint(name, force)
  \/ \E cp \in Ids, rid \in RecoveryIds \cup {None} : rollback(cp, rid)
  \/ complete_deferred_rollback
  \/ JobStep
  \/ Recover
  \/ \E r \in Readers : read_index(r) \/ reconcile_index(r) \/ write_back_index(r)
  \/ describe
  \/ raise
  \/ kill_helper
  \/ release_fence
  \/ crash

Spec == Init /\ [][Next]_vars

\* Whoever holds the lock runs on, and a booting daemon runs its recovery.
FairSpec == Spec /\ WF_vars(JobStep) /\ WF_vars(Recover /\ daemon = "booting")

-----------------------------------------------------------------------------
(* Properties *)

\* Also the write-backs of unlocked readers keep the lineage a forest with
\* agreeing links, so that ancestor lookup terminates (the working-copy mark
\* may go astray then).
LineageIsAForest == indexFile # None => LinksAgree(indexFile) /\ Acyclic(indexFile)

\* When no mutator runs, a Session without a transaction record has no
\* .restore-/.discard- tree left: nothing the store does relies on the
\* orphan branch of _recover_session.
NoLeftovers ==
  job = Idle /\ transaction = None => restored = None /\ discarded = None

\* The recorded head is the checkpoint the working copy was last saved to or
\* restored from, if that still has a snapshot: a rollback that a crash
\* interrupts leaves head and workspace on the same side of the swap.
HeadMatchesWorkspace ==
  job = Idle /\ current # None /\ (transaction = None \/ CommittedDeferred) =>
    load_index.head = IF current.base \in actual_checkpoint_ids THEN current.base ELSE None

\* One fault, a crash or a killed helper, at any step is repaired in full.
OneFaultHead == faults <= 1 => HeadMatchesWorkspace

\* A checkpoint whose creation was acknowledged stays indexed, with its pin,
\* until it is deleted.
AckedIsRecorded ==
  \A c \in Ids : /\ acked[c] # "none" => c \in SavedIndex.known
                 /\ acked[c] = "pinned" => c \in SavedIndex.pinned

\* The receipt decides over the tree a deferred rollback replaced: it is
\* kept, unchanged, until a receipt authorises its deletion, and it is gone
\* once the receipt says completed, also while the transaction record still
\* names it.
ReceiptDecidesDiscard ==
  /\ CommittedDeferred /\ receipts[transaction.rid] = "none" =>
       discarded = transaction.old
  /\ \A r \in RecoveryIds :
       receipts[r] = "completed" /\ transaction # None /\ transaction.rid = r
         => discarded = None

\* A recovery that decides to commit has the checkpoint's tree in current/:
\* no .restore- tree is left for it to delete.
CommitMeansInstalled == At("rc_delete_discard") /\ job.flag => restored = None

\* A recovery that decides to abort has the replaced tree back in current/:
\* it never deletes the only copy of it.
AbortKeepsOldTree == At("rc_delete_discard") /\ ~job.flag => discarded = None

\* The workspace as the store will serve it: current/, or between the two
\* renames of a rollback the tree that was moved away.
View == IF current # None THEN current.data
        ELSE IF discarded # None THEN discarded.data ELSE None

\* Renames, phases, receipts, crashes and recoveries never show: the store
\* behaves like a Session whose rollback replaces the workspace in one step,
\* with nobody else writing, saving or deleting until it has ended.
Session == INSTANCE AtomicSession WITH
  data <- View, saves <- checkpoints,
  pending <- IF transaction = None THEN None ELSE transaction.cp

ImplementsSession == Session!Spec

\* A Session that has a workspace never loses it, not even between two
\* steps of a rollback: some tree is always there to be recovered.
HasWorkspace ==
  \/ current # None
  \/ transaction # None /\ (discarded # None \/ restored # None)
WorkspaceSurvives == [][HasWorkspace => HasWorkspace']_vars

\* After a crash the daemon serves again.
BootsUp == daemon = "booting" ~> daemon = "up"
-----------------------------------------------------------------------------
(* The inductive invariants behind the properties above *)

\* A job has the arguments its steps use.
JobHasArguments ==
  /\ job.pc \in RollbackSteps \cup {"cc_snapshot", "cc_save", "dc_delete", "dc_save"}
       => job.id \in Ids
  /\ job.pc \in RollbackSteps \cup {"dc_delete"} => job.id \in job.mem.known
  /\ job.pc \in RollbackSteps => transaction # None /\ transaction.cp = job.id
  /\ job.pc \in {"cd_delete", "cd_receipt", "cd_clear", "rc_delete_discard",
                 "rc_delete_restore", "rc_save", "rc_commit"} => transaction # None
  /\ job.pc \in {"cd_delete", "cd_receipt"} =>
       Deferred /\ job.rid = transaction.rid /\ transaction.phase = "committed"
  /\ At("cc_snapshot") \/ At("cc_save") => current # None
  /\ At("rb_snapshot") => checkpoints[job.id] # None

\* Every index in a file or in memory is sound, also the ones that unlocked
\* readers hold and write back.
IndexesAreSound ==
  /\ indexFile # None => Sound(indexFile)
  /\ Sound(job.mem)
  /\ \A r \in Readers : Sound(readers[r].mem)

IndexIInv == TypeOK /\ JobHasArguments /\ IndexesAreSound

\* Where the three trees of a rollback are, by the position of its job.
TreesFollowJob ==
  /\ transaction = None => restored = None /\ discarded = None
  /\ transaction # None /\ discarded # None => discarded = transaction.old
  /\ transaction # None /\ transaction.phase \in {"preparing", "committed"} => current # None
  /\ job.pc \in {"cs_save", "rb_commit", "rb_delete", "rb_save", "rb_clear",
                 "rb_undo_delete", "rb_undo_clear", "cd_delete", "cd_receipt", "cd_clear",
                 "rc_delete_discard", "rc_delete_restore", "rc_save", "rc_commit"}
       => current # None
  /\ job.pc \in {"rb_snapshot", "rb_prepared"} => transaction.phase = "preparing"
  /\ At("rb_move") => transaction.phase = "prepared"
  /\ job.pc \in {"rb_snapshot", "rb_prepared", "rb_move"} =>
       current = transaction.old /\ discarded = None
  /\ job.pc \in {"rb_prepared", "rb_move", "rb_moved", "rb_install"} => restored # None
  /\ job.pc \in {"rb_moved", "rb_install", "rb_undo"} => current = None /\ discarded # None
  /\ job.pc = "rb_commit" \/ (job.pc = "rb_save" /\ Deferred) => discarded # None
  /\ job.pc \in {"rb_commit", "rb_delete", "rb_save", "rb_clear", "rb_undo_clear",
                 "cd_delete", "cd_receipt", "cd_clear"} => restored = None
  /\ job.pc \in {"rb_delete", "rb_clear"} => ~Deferred
  /\ job.pc \in {"rb_undo_delete", "rb_undo_clear", "rb_clear", "cd_receipt", "cd_clear",
                 "rc_delete_restore"}
       => discarded = None
  /\ job.pc = "rb_save" /\ ~Deferred => discarded = None
  /\ job.pc = "rc_save" /\ ~Deferred => restored = None /\ discarded = None
  /\ job.pc = "rc_commit" => Deferred /\ discarded # None
  /\ job.pc \in {"rc_delete_discard", "rc_delete_restore"} /\ Deferred =>
       ~job.flag /\ transaction.phase # "committed"

\* A receipt is written only for a committed deferred rollback.
ReceiptsFollowCommit ==
  /\ Deferred /\ receipts[transaction.rid] # "none" => transaction.phase = "committed"
  /\ job.pc \in {"cd_delete", "cd_receipt"} => receipts[transaction.rid] # "none"

TreeIInv == TreesFollowJob /\ ReceiptsFollowCommit /\ ReceiptDecidesDiscard

\* With nobody writing back without the lock, and session.create never
\* repeated, what was acknowledged is in the file and in the index a job
\* will write.
RecordsAreKept ==
  Readers = {} /\ ~Recreate =>
    /\ AckedIsRecorded
    /\ ~HasWorkspace \/ At("cs_save") => \A c \in Ids : acked[c] = "none"
    /\ job.pc \in RollbackSteps \cup {"cc_snapshot", "cc_save", "dc_delete", "dc_save"} =>
         \A c \in Ids : /\ acked[c] # "none" => c \in job.mem.known
                        /\ acked[c] = "pinned" => c \in job.mem.pinned
    /\ At("cc_save") \/ At("cc_snapshot") =>
         job.id \in job.mem.known /\ (job.flag => job.id \in job.mem.pinned)
    /\ At("dc_save") => acked[job.id] = "none"

\* What keeps everyone else out of a rollback, when no step raises: its job,
\* the boot of the daemon, or the lease of the recovery run.
RollbackIsFenced ==
  ~Failures /\ ~Recreate /\ ~Advisory =>
    /\ ~released
    /\ job.pc \notin {"rb_undo", "rb_undo_delete", "rb_undo_clear"}
    /\ daemon = "up" /\ job = Idle /\ transaction # None => Deferred
    /\ job.pc \in {"cd_clear", "rc_delete_discard", "rc_delete_restore", "rc_save"}
         /\ ~Deferred => daemon # "up"
    /\ job.pc \in {"cs_save", "cc_snapshot", "cc_save", "dc_delete", "dc_save"}
         => transaction = None
    /\ At("cc_snapshot") => checkpoints[job.id] = None
    /\ transaction # None /\ restored # None =>
         restored.data = checkpoints[transaction.cp]

\* An index names as head the checkpoint `base` that a tree was saved to or
\* restored from, as far as that still has a snapshot, and knows it.
HeadFits(ix, base, actual) ==
  /\ (IF ix.head \in actual THEN ix.head ELSE None) = (IF base \in actual THEN base ELSE None)
  /\ base \in ix.known \cup {None}

SavedFits(tree) == HeadFits(SavedIndex, tree.base, actual_checkpoint_ids)

RecoverySteps == {"rc_delete_discard", "rc_delete_restore", "rc_save", "rc_commit"}

\* Without a transaction the saved head is that of the workspace, and a job
\* is about to save an index that is right for the workspace as it then is.
HeadWithoutRollback ==
  transaction = None =>
    /\ current = None => SavedIndex.head = None
    /\ current # None => SavedFits(current)
    /\ At("cs_save") => current.base = None
    /\ At("cc_snapshot") => job.id \notin SavedIndex.known
    /\ At("cc_save") => checkpoints[job.id] # None
    /\ At("cc_snapshot") \/ At("cc_save") => job.mem.head = job.id /\ job.id \in job.mem.known
    /\ At("dc_delete") => job.mem.head \in actual_checkpoint_ids \cup {None}
    /\ At("dc_save") => checkpoints[job.id] = None
    /\ (At("dc_delete") \/ At("dc_save")) /\ current = None => job.mem.head = None
    /\ (At("dc_delete") \/ At("dc_save")) /\ current # None
         /\ (At("dc_save") => current.base # job.id)
       => HeadFits(job.mem, current.base, actual_checkpoint_ids)

\* What a rollback has on disk in each phase, wherever a first fault cuts it
\* off: before the swap the old tree and its head, after it the checkpoint's
\* tree.
DiskIsRepairable ==
  /\ transaction.phase = "preparing" =>
       current = transaction.old /\ discarded = None /\ SavedFits(transaction.old)
  /\ transaction.phase = "prepared" =>
       /\ restored # None /\ SavedFits(transaction.old)
       /\ \/ current = transaction.old /\ discarded = None
          \/ current = None /\ discarded # None
  /\ transaction.phase = "old_moved" =>
       /\ Deferred => discarded # None
       /\ current = None => restored # None
       /\ current # None => restored = None /\ current.base = transaction.cp
  /\ transaction.phase = "committed" =>
       /\ restored = None /\ current # None /\ current.base = transaction.cp
       /\ Deferred => SavedIndex.head = transaction.cp

RollbackIsRepairable ==
  transaction # None =>
    /\ checkpoints[transaction.cp] # None
    /\ restored # None => restored.base = transaction.cp
    /\ job.pc \notin RecoverySteps \cup {"cd_clear"} => DiskIsRepairable
    /\ At("rb_clear") \/ (At("rb_commit") /\ Deferred) => SavedIndex.head = transaction.cp
    /\ At("rb_moved") => transaction.phase = "prepared"
    /\ job.pc \in {"rb_commit", "rb_install"} \/ (At("rb_save") /\ Deferred)
         => transaction.phase = "old_moved"
    /\ job.pc \in {"rb_delete", "rb_clear"} \/ (At("rb_save") /\ ~Deferred)
         => transaction.phase = "committed"

\* A recovery that commits has the checkpoint's tree, one that aborts the old
\* tree and its head; without a fault only a committed deferred rollback is
\* ever met.
RecoveryRepairs ==
  transaction # None =>
    /\ job.pc \in RecoverySteps =>
         /\ faults = 1
         /\ IF job.flag THEN current.base = transaction.cp
            ELSE SavedFits(current) /\ job.pc \notin {"rc_save", "rc_commit"}
         /\ Deferred /\ job.flag => discarded # None /\ restored = None
         /\ At("rc_commit") => SavedIndex.head = transaction.cp
    /\ At("cd_clear") => SavedFits(current)
    /\ faults = 0 /\ job.pc \in {"idle", "cd_clear"} => CommittedDeferred /\ DiskIsRepairable

\* One fault at most, and head and workspace are brought together again.
OneFaultIsRepaired ==
  Readers = {} /\ ~Failures /\ ~Recreate /\ ~Advisory /\ faults <= 1 =>
    HeadWithoutRollback /\ RollbackIsRepairable /\ RecoveryRepairs
=============================================================================
