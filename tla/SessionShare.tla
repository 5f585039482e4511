----------------------------- MODULE SessionShare -----------------------------
(***************************************************************************)
(* The session-share plugin (sharing.py): a Session that opted in lists,   *)
(* reads and writes files of another that opted in.  It is composed with   *)
(* the ExecutionRegistry (share_access, mutation, reset_mutation) and with *)
(* the store's checkpoint and rollback of the target, both under the       *)
(* store's Session lock.                                                   *)
(*                                                                         *)
(* dispatch() holds one RLock from the first policy read to the last audit *)
(* event.  A rollback of the target, the registry, a completed reset and a *)
(* crash of the daemon interleave with its steps.                          *)
(*                                                                         *)
(* A tree is the set of temporary files a share write left in it and a     *)
(* number that every rollback changes; path walks, sizes and link checks   *)
(* are one choice: the file can be had or it cannot.  Left out: status,    *)
(* which changes nothing, and the socket that carries a request.           *)
(***************************************************************************)
EXTENDS ExecutionRegistry

CONSTANTS
  Writes,      \* uuid4 names of temporary files: one per write
  MaxSwaps,    \* bound: rollbacks of a Session
  MaxCrashes   \* bound: crashes of the daemon

ASSUME SwapsAssumption == MaxSwaps \in Nat
ASSUME CrashesAssumption == MaxCrashes \in Nat
ASSUME NamesAssumption == None \notin Writes \cup Handlers

VARIABLES
  policy,     \* Session -> off, read, write: the policy file
  lock,       \* the handler that holds ShareService._lock, or None
  sessionLock,\* Session -> the handler that holds the store's lock, or None
  present,    \* Session -> current/ exists
  tree,       \* Session -> the number of the tree that is current/
  temps,      \* Session -> temporary files of share writes in current/
  saved,      \* Session -> temporary files in its newest checkpoint
  prepared,   \* writes whose share.write_prepared event is in the log
  replaced,   \* writes that replaced their file
  job,        \* handler -> its position in dispatch() or in the store
  crashes,
  stranded    \* history: temporary files a crash left

sharevars == <<policy, lock, sessionLock, present, tree, temps, saved, prepared,
               replaced, job, crashes, stranded>>
files == <<present, tree, temps, saved, prepared, replaced>>
allvars == <<vars, sharevars>>

NoJob == [pc |-> "idle", action |-> None, caller |-> None, key |-> None,
          tree |-> None, file |-> None]
Permissions == {"read", "write"}
Accesses == {"read", "write"}    \* list takes the steps of read

ShareTypeOK ==
  /\ policy \in [Sessions -> {"off"} \cup Permissions]
  /\ lock \in Handlers \cup {None}
  /\ sessionLock \in [Sessions -> Handlers \cup {None}]
  /\ present \in [Sessions -> BOOLEAN]
  /\ tree \in [Sessions -> 0..MaxSwaps]
  /\ {temps, saved} \subseteq [Sessions -> SUBSET Writes]
  /\ prepared \cup replaced \cup stranded \subseteq Writes
  /\ crashes \in 0..MaxCrashes

ShareInit ==
  /\ Init
  /\ policy = [s \in Sessions |-> "off"]
  /\ lock = None
  /\ sessionLock = [s \in Sessions |-> None]
  /\ present = [s \in Sessions |-> TRUE]
  /\ tree = [s \in Sessions |-> 0]
  /\ temps = [s \in Sessions |-> {}]
  /\ saved = [s \in Sessions |-> {}]
  /\ prepared = {} /\ replaced = {} /\ stranded = {}
  /\ job = [h \in Handlers |-> NoJob]
  /\ crashes = 0

-----------------------------------------------------------------------------
(* Helpers *)

At(h, pc) == job[h].pc = pc
Goto(h, pc) == job' = [job EXCEPT ![h].pc = pc]

\* dispatch() returns or raises, which releases its lock.  Denied and failed
\* accesses are audited here as well; the event decides nothing.
Return(h) ==
  /\ job' = [job EXCEPT ![h] = NoJob]
  /\ lock' = None

\* The access is over and its descriptors are closed.
Close(h) ==
  job' = [job EXCEPT ![h] = [NoJob EXCEPT !.pc = "leave", !.action = job[h].action,
                                          !.key = job[h].key]]

\* What share_access asks of the registry.
Admits(s, write) ==
  /\ s \notin mutating
  /\ IF write THEN shareReaders[s] = 0 /\ ~Leased(s) /\ background[s] = {}
              ELSE ~RecoveryLeased(s)

TakeSessionLock(h) ==
  LET s == job[h].key
  IN  /\ sessionLock[s] = None
      /\ sessionLock' = [sessionLock EXCEPT ![s] = h]

DropSessionLock(h) == sessionLock' = [sessionLock EXCEPT ![job[h].key] = None]

-----------------------------------------------------------------------------
(* dispatch: enable and disable.  Policies are read and written only under  *)
(* the lock, so each is one step.                                           *)

\* The scope is opened under the caller's Session lock, then the policy is
\* written; with an invalid scope the old policy stays.
enable(caller, permission) ==
  /\ lock = None
  /\ present[caller] /\ sessionLock[caller] = None
  /\ policy' = [policy EXCEPT ![caller] = permission]
  /\ UNCHANGED <<vars, lock, sessionLock, files, job, crashes, stranded>>

Bug_DisableUnlocked(caller) ==
  /\ present[caller]
  /\ policy' = [policy EXCEPT ![caller] = "off"]
  /\ UNCHANGED <<vars, lock, sessionLock, files, job, crashes, stranded>>

disable(caller) ==
  /\ lock = None
  /\ present[caller]
  /\ policy' = [policy EXCEPT ![caller] = "off"]
  /\ UNCHANGED <<vars, lock, sessionLock, files, job, crashes, stranded>>

-----------------------------------------------------------------------------
(* dispatch: list, read and write *)

Allows(caller, target, action) ==
  /\ policy[caller] # "off"
  /\ policy[target] # "off"
  /\ action = "write" => policy[target] = "write"

\* Both policies are read, which needs current/ of both Sessions, and are
\* compared with the action; a denied access only leaves its audit event.
dispatch(h, caller, target, action) ==
  /\ op[h] = Idle /\ At(h, "idle")
  /\ lock = None
  /\ present[caller] /\ present[target]
  /\ Allows(caller, target, action)
  /\ lock' = h
  /\ job' = [job EXCEPT ![h] = [NoJob EXCEPT !.pc = "enter", !.action = action,
                                            !.caller = caller, !.key = target]]
  /\ UNCHANGED <<vars, policy, sessionLock, files, crashes, stranded>>

share_access(h) ==
  LET s == job[h].key
      write == job[h].action = "write"
  IN  /\ At(h, "enter")
      /\ \/ /\ IF write THEN mutation_enter(h, s) ELSE share_access_enter(h, s)
            /\ Goto(h, "lock")
            /\ UNCHANGED lock
         \/ /\ ~Admits(s, write)
            /\ Return(h)
            /\ UNCHANGED vars
      /\ UNCHANGED <<policy, sessionLock, files, crashes, stranded>>

Bug_WithoutSessionLock(h) ==
  /\ At(h, "lock")
  /\ Goto(h, "open")
  /\ UNCHANGED <<vars, sessionLock, policy, lock, files, crashes, stranded>>

lock_target(h) ==
  /\ At(h, "lock")
  /\ TakeSessionLock(h)
  /\ Goto(h, "open")
  /\ UNCHANGED <<vars, policy, lock, files, crashes, stranded>>

\* _open walks from current/ by directory descriptors; or some component is
\* missing, a link, or on another file system.
open_path(h) ==
  LET s == job[h].key
  IN  /\ At(h, "open")
      /\ \/ /\ present[s]
            /\ job' = [job EXCEPT ![h].pc = IF job[h].action = "write" THEN "temporary" ELSE "read",
                                  ![h].tree = tree[s]]
         \/ Close(h)
      /\ UNCHANGED <<vars, policy, lock, sessionLock, files, crashes, stranded>>

read(h) ==
  /\ At(h, "read")
  /\ Close(h)
  /\ UNCHANGED <<vars, policy, lock, sessionLock, files, crashes, stranded>>

\* The file the descriptor leads to is in the tree that was opened: once that
\* tree is swapped out, nothing of it is seen under current/.
InCurrent(h) == present[job[h].key] /\ job[h].tree = tree[job[h].key]

write_temporary(h, w) ==
  /\ At(h, "temporary")
  /\ w \notin prepared \cup stranded /\ \A s \in Sessions : w \notin temps[s] \cup saved[s]
  /\ \A g \in Handlers : job[g].file # w
  /\ job' = [job EXCEPT ![h].pc = "prepare", ![h].file = w]
  /\ temps' = IF InCurrent(h) THEN [temps EXCEPT ![job[h].key] = @ \cup {w}] ELSE temps
  /\ UNCHANGED <<vars, policy, lock, sessionLock, present, tree, saved, prepared,
                 replaced, crashes, stranded>>

\* The event is in the log before the file is replaced; if it cannot be
\* written the file stays.
write_prepared(h) ==
  /\ At(h, "prepare")
  /\ \/ Goto(h, "replace") /\ prepared' = prepared \cup {job[h].file}
     \/ Goto(h, "unlink") /\ UNCHANGED prepared
  /\ UNCHANGED <<vars, policy, lock, sessionLock, present, tree, temps, saved,
                 replaced, crashes, stranded>>

replace(h) ==
  /\ At(h, "replace")
  /\ Goto(h, "unlink")
  /\ \/ /\ replaced' = replaced \cup {job[h].file}
        /\ temps' = IF InCurrent(h) THEN [temps EXCEPT ![job[h].key] = @ \ {job[h].file}] ELSE temps
     \/ UNCHANGED <<replaced, temps>>
  /\ UNCHANGED <<vars, policy, lock, sessionLock, present, tree, saved, prepared,
                 crashes, stranded>>

Bug_UnlinkOnSuccessOnly(h) ==
  /\ At(h, "unlink")
  /\ Close(h)
  /\ UNCHANGED <<vars, policy, lock, sessionLock, files, crashes, stranded>>

\* `finally`: whatever happened, the temporary name goes.
unlink(h) ==
  /\ At(h, "unlink")
  /\ Close(h)
  /\ temps' = IF InCurrent(h) THEN [temps EXCEPT ![job[h].key] = @ \ {job[h].file}] ELSE temps
  /\ UNCHANGED <<vars, policy, lock, sessionLock, present, tree, saved, prepared,
                 replaced, crashes, stranded>>

\* The Session lock and the registry are left, the result is audited, the
\* lock is released.
share_leave(h) ==
  /\ At(h, "leave")
  /\ DropSessionLock(h)
  /\ IF job[h].action = "write" THEN mutation_exit(h) ELSE share_access_exit(h)
  /\ Return(h)
  /\ UNCHANGED <<policy, files, crashes, stranded>>

-----------------------------------------------------------------------------
(* checkpoint.create and the two rollbacks of the workspace daemon: the     *)
(* registry first, then the store's Session lock.                           *)

begin_mutation(h, s, action) ==
  /\ At(h, "idle")
  /\ mutation_enter(h, s)
  /\ job' = [job EXCEPT ![h] = [NoJob EXCEPT !.pc = "store", !.action = action, !.key = s]]
  /\ UNCHANGED <<policy, lock, sessionLock, files, crashes, stranded>>

begin_reset_rollback(h, t) ==
  /\ At(h, "idle")
  /\ reset_mutation_enter(h, t)
  /\ job' = [job EXCEPT ![h] = [NoJob EXCEPT !.pc = "store", !.action = "rollback", !.key = resets[t]]]
  /\ UNCHANGED <<policy, lock, sessionLock, files, crashes, stranded>>

store_lock(h) ==
  /\ At(h, "store")
  /\ TakeSessionLock(h)
  /\ job' = [job EXCEPT ![h].pc = job[h].action, ![h].action = None]
  /\ UNCHANGED <<vars, policy, lock, files, crashes, stranded>>

create_checkpoint(h) ==
  /\ At(h, "checkpoint")
  /\ saved' = [saved EXCEPT ![job[h].key] = temps[job[h].key]]
  /\ Goto(h, "stored")
  /\ UNCHANGED <<vars, policy, lock, sessionLock, present, tree, temps, prepared,
                 replaced, crashes, stranded>>

\* rollback: current/ is moved away ...
swap_out(h) ==
  /\ At(h, "rollback")
  /\ present' = [present EXCEPT ![job[h].key] = FALSE]
  /\ Goto(h, "swap_in")
  /\ UNCHANGED <<vars, policy, lock, sessionLock, tree, temps, saved, prepared,
                 replaced, crashes, stranded>>

\* ... and the restored tree takes its place, or the old one comes back.
swap_in(h) ==
  LET s == job[h].key
  IN  /\ At(h, "swap_in")
      /\ present' = [present EXCEPT ![s] = TRUE]
      /\ \/ /\ tree[s] < MaxSwaps
            /\ tree' = [tree EXCEPT ![s] = @ + 1]
            /\ temps' = [temps EXCEPT ![s] = saved[s]]
         \/ UNCHANGED <<tree, temps>>
      /\ Goto(h, "stored")
      /\ UNCHANGED <<vars, policy, lock, sessionLock, saved, prepared, replaced,
                     crashes, stranded>>

end_mutation(h) ==
  /\ At(h, "stored")
  /\ DropSessionLock(h)
  /\ IF op[h].kind = "mutation" THEN mutation_exit(h) ELSE reset_mutation_exit(h)
  /\ job' = [job EXCEPT ![h] = NoJob]
  /\ UNCHANGED <<policy, lock, files, crashes, stranded>>

\* The daemon dies: locks and tables go, files and events stay; recovery
\* completes an interrupted swap or undoes it (see WorkspaceStore).
Crash ==
  /\ crashes < MaxCrashes
  /\ Restart
  /\ crashes' = crashes + 1
  /\ lock' = None
  /\ sessionLock' = [s \in Sessions |-> None]
  /\ job' = [h \in Handlers |-> NoJob]
  /\ present' = [s \in Sessions |-> TRUE]
  /\ \E done \in SUBSET {s \in Sessions : ~present[s] /\ tree[s] < MaxSwaps} :
       /\ tree' = [s \in Sessions |-> IF s \in done THEN tree[s] + 1 ELSE tree[s]]
       /\ temps' = [s \in Sessions |-> IF s \in done THEN saved[s] ELSE temps[s]]
  /\ stranded' = stranded \cup UNION {temps[s] : s \in Sessions}
  /\ UNCHANGED <<policy, saved, prepared, replaced>>

ShareNext ==
  \/ \E h \in Handlers :
       \/ \E caller, target \in Sessions, action \in Accesses :
            dispatch(h, caller, target, action)
       \/ share_access(h)
       \/ lock_target(h)
       \/ open_path(h)
       \/ read(h)
       \/ \E w \in Writes : write_temporary(h, w)
       \/ write_prepared(h)
       \/ replace(h)
       \/ unlink(h)
       \/ share_leave(h)
       \/ \E s \in Sessions, action \in {"checkpoint", "rollback"} : begin_mutation(h, s, action)
       \/ \E t \in Tokens : begin_reset_rollback(h, t)
       \/ store_lock(h)
       \/ create_checkpoint(h)
       \/ swap_out(h)
       \/ swap_in(h)
       \/ end_mutation(h)
  \/ \E caller \in Sessions, permission \in Permissions : enable(caller, permission)
  \/ \E caller \in Sessions : disable(caller)
  \/ /\ \/ \E s \in Sessions, t \in Tokens, recovery \in BOOLEAN : acquire(s, recovery, t)
        \/ \E t \in Tokens : release(t)
        \/ \E s \in Sessions, x \in Executions : register_background(s, x)
        \/ \E s \in Sessions, t \in Tokens : begin_runtime_reset(s, t)
        \/ \E t \in Tokens, success \in BOOLEAN : complete_runtime_reset(t, success)
     /\ UNCHANGED sharevars
  \/ Crash

ShareSpec == ShareInit /\ [][ShareNext]_allvars

-----------------------------------------------------------------------------
(* Properties *)

Open(h) == job[h].pc \in {"read", "temporary", "prepare", "replace", "unlink"}

\* "Serializes configure/disable with the complete access operation": as
\* long as dispatch holds a file of the target, both Sessions still share and
\* the target still grants the action, so once disable() has returned no
\* access of that Session is under way.
AccessIsGranted ==
  \A h \in Handlers : Open(h) => Allows(job[h].caller, job[h].key, job[h].action)

\* "Reads may observe a live writer, but cannot overlap a workspace swap": the
\* tree a share access has opened is current/ until it is done, also when the
\* reset that fenced the Session was completed while its rollback still ran,
\* so that the registry admits both.
AccessSeesOneTree == \A h \in Handlers : Open(h) => InCurrent(h)

\* What a share write leaves behind, whatever failed or crashed in it: a
\* replaced file has its share.write_prepared event in the target's log, and
\* no checkpoint contains the temporary file of a write, except one a crash
\* had left in the workspace.
WritesLeaveNoStray ==
  /\ replaced \subseteq prepared
  /\ \A s \in Sessions : saved[s] \subseteq stranded

-----------------------------------------------------------------------------
(* The inductive invariant behind the properties above *)

Accessing == {"enter", "lock", "open", "read", "temporary", "prepare", "replace",
              "unlink", "leave"}
Storing == {"store", "checkpoint", "rollback", "swap_in", "stored"}
Locked == (Accessing \ {"enter", "lock"}) \cup (Storing \ {"store"})
Writing == {"prepare", "replace", "unlink"}

Job == [pc : {"idle"} \cup Accessing \cup Storing,
        action : Accesses \cup {"checkpoint", "rollback", None},
        caller : Sessions \cup {None}, key : Sessions \cup {None},
        tree : (0..MaxSwaps) \cup {None}, file : Writes \cup {None}]

JobsAreTyped ==
  /\ job \in [Handlers -> Job]
  /\ \A h \in Handlers : ~At(h, "idle") => job[h].key \in Sessions
  /\ \A h \in Handlers : At(h, "store") => job[h].action \in {"checkpoint", "rollback"}
  /\ \A h \in Handlers : job[h].pc \in Writing => job[h].file \in Writes

\* The share lock is held exactly by the handler inside an access, a Session
\* lock exactly by the handler whose position is under it.
JobsHoldLocks ==
  \A h \in Handlers :
    /\ lock = h <=> job[h].pc \in Accessing
    /\ \A s \in Sessions : sessionLock[s] = h <=> job[h].pc \in Locked /\ job[h].key = s
    /\ job[h].pc \in Accessing \ {"leave"} => Allows(job[h].caller, job[h].key, job[h].action)

\* A temporary file in a workspace is the one of the write under way there, or
\* was left by a crash; what is about to be replaced has been announced.
FilesAreTracked ==
  /\ \A h \in Handlers : At(h, "replace") => job[h].file \in prepared
  /\ \A s \in Sessions : \A w \in temps[s] :
       \/ w \in stranded
       \/ \E h \in Handlers : job[h].pc \in Writing /\ job[h].key = s /\ job[h].file = w

ShareIInv ==
  /\ IInv
  /\ ShareTypeOK
  /\ JobsAreTyped
  /\ JobsHoldLocks
  /\ AccessSeesOneTree
  /\ FilesAreTracked
  /\ WritesLeaveNoStray
=============================================================================
