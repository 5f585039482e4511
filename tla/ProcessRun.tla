------------------------------ MODULE ProcessRun ------------------------------
(***************************************************************************)
(* runtime/process_tracking/service.py and cgroup.py for one Session: the  *)
(* launch, supervision, termination and finalisation of process runs, the  *)
(* durable run rows, and the execution lease a run holds.                  *)
(*                                                                         *)
(* Threads: the RPC handler in start(), under the launch lock; the watcher *)
(* of every run; the timer, stop requests and provider failures, all of    *)
(* which terminate a run under the launch lock; the callback of a failing  *)
(* lifecycle feature, which does not; and requests that drain the Session  *)
(* before a rollback.  `_lock` is held across several steps only by the    *)
(* last part of the watcher.                                               *)
(*                                                                         *)
(* The execution registry (ExecutionRegistry) is reduced to this Session:  *)
(* one lease; mutation(), which is refused beside a lease and keeps leases *)
(* out; and a runtime reset, whose fence is lifted by a request of its own *)
(* while reset_mutation, the rollback it is for, holds nothing.            *)
(***************************************************************************)
EXTENDS Naturals, FiniteSets

CONSTANTS
  Runs,
  None,
  Recovered,   \* the lease taken for rows that a crash left open
  Lifecycle,   \* BOOLEAN: a feature with an execution lifecycle is enabled
  Failures,    \* BOOLEAN: operations of the kernel, the disk and the plugins may fail
  MaxCrashes   \* bound on daemon crashes

ASSUME MarkersAssumption ==
  /\ {None, Recovered, "term", "drain"} \cap Runs = {}
  /\ None \notin {Recovered, "term", "drain"}
ASSUME CrashesAssumption == MaxCrashes \in Nat

VARIABLES
  run,        \* run -> in-memory state (row, thread position)
  disk,       \* run -> its state.json, or None
  procs,      \* runs with a process in the Session cgroup
  lease,      \* a run, Recovered or None
  launch,     \* owner of the launch lock: a run, "term", "drain" or None
  lock,       \* the watcher inside its final _lock block, or None
  killer,     \* the run a terminate() under the launch lock is about to kill
  terminations,  \* <<run, reason>>: threads waiting for the launch lock
  callbacks,  \* runs whose feature failure is not yet handled
  killing,    \* runs a feature callback is about to kill
  backend_error, closed,
  mutating,   \* the requests that are changing the workspace, one of each kind
  reset,      \* BOOLEAN: a runtime reset fences the Session
  crashes,
  noted,      \* history: runs with a feature failure recorded before they ended
  fenced,     \* history: runs that ended with their row fenced
  unsaved,    \* history: runs over and in order whose last row could not be saved
  misdirected \* history: kills, by their origin, that hit another run than their own

threads == <<launch, lock, killer, terminations, callbacks, killing>>
notes == <<noted, fenced, unsaved, misdirected>>
vars == <<run, disk, procs, lease, launch, lock, killer, terminations, callbacks,
          killing, backend_error, closed, mutating, reset, crashes, noted,
          fenced, unsaved, misdirected>>

Starting == {"acquired", "registered", "spawned", "attached", "seeded", "observed", "committed"}
Watching == {"watch", "w_exited", "w_empty", "w_finish", "w_save", "w_remove", "w_release"}
Failing == {"f_kill", "f_finish", "f_save"}
Ended == {"done", "gone"}

Origins == {"terminate", "callback"}

\* A checkpoint or rollback inside mutation(), or a rollback inside
\* reset_mutation(); the drained ones hold the launch lock throughout.
Kinds == {"plain", "drained", "reset", "reset drained"}
Drained == {"drained", "reset drained"}

Row == [state : {"starting", "running", "completed", "stopped", "failed", "interrupted"},
        fenced : BOOLEAN]
ASSUME NoneAssumption == None \notin Row

NewRow == [state |-> "starting", fenced |-> FALSE]
New == [pc |-> "new", row |-> NewRow, exited |-> FALSE, seeded |-> FALSE,
        feature |-> "none", stop |-> FALSE, ok |-> FALSE]

RunState == [pc : {"new"} \cup Starting \cup Watching \cup Failing \cup Ended,
             row : Row, exited : BOOLEAN, seeded : BOOLEAN,
             feature : {"none", "active", "failed", "finishing", "closed"},
             stop : BOOLEAN, ok : BOOLEAN]

TypeOK ==
  /\ run \in [Runs -> RunState]
  /\ disk \in [Runs -> Row \cup {None}]
  /\ procs \subseteq Runs
  /\ lease \in Runs \cup {Recovered, None}
  /\ launch \in Runs \cup {"term", "drain", None}
  /\ {lock, killer} \subseteq Runs \cup {None}
  /\ terminations \subseteq Runs \X {"timeout", "requested"}
  /\ callbacks \subseteq Runs /\ killing \subseteq Runs
  /\ {backend_error, closed, reset} \subseteq BOOLEAN
  /\ mutating \subseteq Kinds
  /\ crashes \in 0..MaxCrashes
  /\ noted \subseteq Runs /\ fenced \subseteq Runs /\ unsaved \subseteq Runs
  /\ misdirected \subseteq Origins

Init ==
  /\ run = [r \in Runs |-> New]
  /\ disk = [r \in Runs |-> None]
  /\ procs = {}
  /\ lease = None
  /\ launch = None /\ lock = None /\ killer = None
  /\ terminations = {} /\ callbacks = {} /\ killing = {}
  /\ backend_error = FALSE /\ closed = FALSE
  /\ mutating = {} /\ reset = FALSE
  /\ crashes = 0
  /\ noted = {} /\ fenced = {} /\ unsaved = {} /\ misdirected = {}

At(r, pc) == run[r].pc = pc
Goto(r, pc) == run' = [run EXCEPT ![r].pc = pc]
Active(r) == run[r].pc \in Starting \cup Watching \cup Failing
InRuns(r) == Active(r) /\ ~At(r, "acquired")
EndedFenced(r) == fenced' = IF run'[r].row.fenced THEN fenced \cup {r} ELSE fenced

\* _save and _save_durable: the whole row, atomically.
save_durable(r, row) == disk' = [disk EXCEPT ![r] = row]

\* _save_durable raises: before its rename, or at the fsync after it.
save_raises(r, row) ==
  /\ Failures
  /\ disk' \in {disk, [disk EXCEPT ![r] = row]}

\* The registry's _mutating.
Fenced == reset \/ mutating \cap {"plain", "drained"} # {}

\* The Session cgroup, as far as this run is concerned: wait_empty with
\* quiesce_empty, and remove, succeed only on an empty one.
wait_empty(r) == r \notin procs
remove_cgroup(r) == r \notin procs

-----------------------------------------------------------------------------
(* start, under the launch lock *)

service == <<backend_error, closed, mutating, reset, crashes>>

acquire_lease(r) ==
  /\ launch = None
  /\ At(r, "new")
  /\ lease = None /\ ~Fenced
  /\ lease' = r /\ launch' = r
  /\ Goto(r, "acquired")
  /\ UNCHANGED <<disk, procs, lock, killer, terminations, callbacks, killing, service, notes>>

\* The service is closed, its provider failed, or preparing the run fails:
\* it is not in _runs yet, there is no row, and the lease is given back.
start_refused(r) ==
  /\ At(r, "acquired") /\ lock = None
  /\ closed \/ backend_error \/ Failures
  /\ lease' = None /\ launch' = None
  /\ Goto(r, "done")
  /\ UNCHANGED <<disk, procs, lock, killer, terminations, callbacks, killing, service, notes>>

\* Nothing was spawned: the error path finds nothing to end or to finalise
\* before it saves the row.
Unspawned(r) == run' = [run EXCEPT ![r].pc = "f_save", ![r].ok = TRUE]

\* The run is put into _runs, then its first row is saved, or not.
register(r) ==
  /\ At(r, "acquired") /\ lock = None
  /\ ~closed /\ ~backend_error
  /\ \/ save_durable(r, NewRow) /\ Goto(r, "registered")
     \/ Failures /\ UNCHANGED disk /\ Unspawned(r)
  /\ UNCHANGED <<procs, lease, threads, service, notes>>

\* The gate process, stopped and outside the cgroup.
spawn(r) ==
  /\ At(r, "registered")
  /\ Goto(r, "spawned")
  /\ UNCHANGED <<disk, procs, lease, threads, service, notes>>

attach(r) ==
  /\ At(r, "spawned")
  /\ procs = {}
  /\ procs' = {r}
  /\ Goto(r, "attached")
  /\ UNCHANGED <<disk, lease, threads, service, notes>>

seed(r) ==
  /\ At(r, "attached")
  /\ ~backend_error
  /\ run' = [run EXCEPT ![r].pc = "seeded", ![r].seeded = TRUE]
  /\ UNCHANGED <<disk, procs, lease, threads, service, notes>>

start_execution(r) ==
  /\ At(r, "seeded")
  /\ run' = [run EXCEPT ![r].pc = "observed",
                        ![r].feature = IF Lifecycle THEN "active" ELSE "none"]
  /\ UNCHANGED <<disk, procs, lease, threads, service, notes>>

commit_running(r) ==
  /\ At(r, "observed") /\ lock = None
  /\ ~backend_error /\ run[r].feature # "failed"
  /\ LET row == [run[r].row EXCEPT !.state = "running"]
     IN  \/ /\ run' = [run EXCEPT ![r].pc = "committed", ![r].row = row]
            /\ save_durable(r, row)
         \/ /\ run' = [run EXCEPT ![r].pc = "f_kill", ![r].row = row]
            /\ save_raises(r, row)
  /\ UNCHANGED <<procs, lease, threads, service, notes>>

\* agent_started, SIGCONT and thaw; the timer and the watcher are started.
resume(r) ==
  /\ At(r, "committed")
  /\ run[r].feature # "failed"
  /\ Goto(r, "watch")
  /\ launch' = None
  /\ UNCHANGED <<disk, procs, lease, lock, killer, terminations, callbacks, killing,
                 service, notes>>

\* Some step after the registration raises: by itself, because the provider
\* or the feature has failed, or because the cgroup is not empty.
start_raises(r) ==
  /\ run[r].pc \in Starting \ {"acquired"}
  /\ \/ Failures \/ backend_error \/ run[r].feature = "failed"
     \/ At(r, "spawned") /\ procs # {}
  /\ IF At(r, "registered") THEN Unspawned(r) ELSE Goto(r, "f_kill")
  /\ UNCHANGED <<disk, procs, lease, threads, service, notes>>

\* cgroup.kill, process.kill and the waits for an empty cgroup.
fail_kill(r) ==
  /\ At(r, "f_kill")
  /\ \/ procs' = procs \ {r}
     \/ Failures /\ procs' = procs
  /\ run' = [run EXCEPT ![r].pc = "f_finish", ![r].exited = TRUE, ![r].ok = r \notin procs']
  /\ UNCHANGED <<disk, lease, threads, service, notes>>

\* Faulty variant: the lease is released though the cgroup is not empty.
Bug_FailReleasesUnsafely(r) ==
  /\ At(r, "f_finish")
  /\ run' = [run EXCEPT ![r].pc = "f_save", ![r].ok = TRUE,
                        ![r].feature = IF @ = "none" THEN @ ELSE "closed"]
  /\ UNCHANGED <<disk, procs, lease, threads, service, notes>>

\* Quiescence, the provider's and the features' finalisation and the removal
\* of the cgroup: all of them must succeed for the lease to be released.
fail_finish(r) ==
  /\ At(r, "f_finish")
  /\ \E safe \in {/\ run[r].ok
                  /\ run[r].seeded => ~backend_error
                  /\ run[r].feature # "failed"} \cup (IF Failures THEN {FALSE} ELSE {}) :
       run' = [run EXCEPT ![r].pc = "f_save", ![r].ok = safe,
                          ![r].feature = IF @ = "none" THEN @ ELSE "closed"]
  /\ UNCHANGED <<disk, procs, lease, threads, service, notes>>

\* The save of a final row raised; `ok`: the run was in order up to then.
Unsaved(r, ok) == unsaved' = IF ok THEN unsaved \cup {r} ELSE unsaved

fail_save(r) ==
  /\ At(r, "f_save") /\ lock = None
  /\ LET row == [state |-> "failed", fenced |-> ~run[r].ok]
     IN  \/ /\ run' = [run EXCEPT ![r].pc = "done", ![r].row = row]
            /\ save_durable(r, row)
            /\ lease' = IF run[r].ok THEN None ELSE lease
            /\ UNCHANGED unsaved
         \/ /\ run' = [run EXCEPT ![r].pc = "done", ![r].row = [row EXCEPT !.fenced = TRUE]]
            /\ save_raises(r, row)
            /\ Unsaved(r, run[r].ok)
            /\ UNCHANGED lease
  /\ launch' = None
  /\ EndedFenced(r)
  /\ UNCHANGED <<procs, lock, killer, terminations, callbacks, killing, service,
                 noted, misdirected>>

-----------------------------------------------------------------------------
(* The processes of a run, and its watcher *)

\* The root process exits, alone or as the last one.
root_exit(r) ==
  /\ r \in procs
  /\ run[r].pc = "watch" /\ ~run[r].exited
  /\ run' = [run EXCEPT ![r].exited = TRUE]
  /\ procs' \in {procs, procs \ {r}}
  /\ UNCHANGED <<disk, lease, threads, service, notes>>

descendants_exit(r) ==
  /\ r \in procs
  /\ run[r].exited \/ run[r].pc = "gone"
  /\ procs' = procs \ {r}
  /\ UNCHANGED <<run, disk, lease, threads, service, notes>>

\* A process killed from outside is an exited root.
RootGone(r) == run[r].exited \/ r \notin procs

watch_exit(r) ==
  /\ At(r, "watch") /\ lock = None
  /\ RootGone(r)
  /\ run' = [run EXCEPT ![r].pc = "w_exited", ![r].exited = TRUE]
  /\ UNCHANGED <<disk, procs, lease, threads, service, notes>>

\* Faulty variant: the root's exit is taken for the end of the run.
Bug_RootExitIsEnough(r) ==
  /\ At(r, "w_exited")
  /\ Goto(r, "w_empty")
  /\ UNCHANGED <<disk, procs, lease, threads, service, notes>>

\* wait_empty and quiesce_empty; descendants may outlive the ten seconds.
watch_empty(r) ==
  /\ At(r, "w_exited")
  /\ \/ wait_empty(r) /\ Goto(r, "w_empty")
     \/ (~wait_empty(r) \/ Failures) /\ Goto(r, "w_save")
  /\ UNCHANGED <<disk, procs, lease, threads, service, notes>>

\* execution_finished, backend.finish and assert_healthy.
watch_finish(r) ==
  /\ At(r, "w_empty")
  /\ \/ /\ ~backend_error /\ run[r].feature # "failed"
        /\ run' = [run EXCEPT ![r].pc = "w_finish",
                              ![r].feature = IF @ = "active" THEN "finishing" ELSE @]
     \/ /\ Failures \/ backend_error \/ run[r].feature = "failed"
        /\ run' = [run EXCEPT ![r].pc = "w_save",
                              ![r].feature = IF @ = "none" THEN @ ELSE "closed"]
  /\ UNCHANGED <<disk, procs, lease, threads, service, notes>>

\* The features' finish(): finalised and, for a recovery, authorised, or not.
watch_features(r) ==
  /\ At(r, "w_finish")
  /\ \E good \in {TRUE} \cup (IF Failures /\ Lifecycle THEN {FALSE} ELSE {}) :
       run' = [run EXCEPT ![r].pc = "w_save", ![r].ok = good,
                          ![r].feature = IF @ = "none" THEN @ ELSE "closed"]
  /\ UNCHANGED <<disk, procs, lease, threads, service, notes>>

FinalRow(r, good) ==
  [state |-> IF ~good THEN "failed" ELSE IF run[r].stop THEN "stopped" ELSE "completed",
   fenced |-> ~good]

\* Takes _lock and keeps it to the end.
watch_save(r) ==
  /\ At(r, "w_save") /\ lock = None
  /\ lock' = r
  /\ LET good == run[r].ok /\ ~backend_error
     IN  \/ /\ run' = [run EXCEPT ![r].pc = IF good THEN "w_remove" ELSE "w_release",
                                  ![r].ok = good, ![r].row = FinalRow(r, good)]
            /\ save_durable(r, FinalRow(r, good))
            /\ UNCHANGED unsaved
         \/ /\ run' = [run EXCEPT ![r].pc = "w_release", ![r].ok = FALSE,
                                  ![r].row = FinalRow(r, FALSE)]
            /\ save_raises(r, FinalRow(r, good))
            /\ Unsaved(r, good)
  /\ UNCHANGED <<procs, lease, launch, killer, terminations, callbacks, killing, service,
                 noted, fenced, misdirected>>

\* cgroups.remove, then the final save.
watch_remove(r) ==
  /\ At(r, "w_remove")
  /\ \E removed \in {remove_cgroup(r)} \cup (IF Failures THEN {FALSE} ELSE {}) :
       \/ /\ run' = [run EXCEPT ![r].pc = "w_release", ![r].ok = removed,
                                ![r].row = FinalRow(r, removed)]
          /\ save_durable(r, FinalRow(r, removed))
          /\ UNCHANGED unsaved
       \/ /\ run' = [run EXCEPT ![r].pc = "w_release", ![r].ok = FALSE,
                                ![r].row = FinalRow(r, FALSE)]
          /\ save_raises(r, FinalRow(r, removed))
          /\ Unsaved(r, TRUE)
  /\ UNCHANGED <<procs, lease, threads, service, noted, fenced, misdirected>>

watch_release(r) ==
  /\ At(r, "w_release")
  /\ Goto(r, "done")
  /\ lease' = IF run[r].ok THEN None ELSE lease
  /\ lock' = None
  /\ EndedFenced(r)
  /\ UNCHANGED <<disk, procs, launch, killer, terminations, callbacks, killing, service,
                 noted, unsaved, misdirected>>

-----------------------------------------------------------------------------
(* Termination *)

\* The timer runs out, or a client calls stop().
timer_fires(r) ==
  /\ run[r].pc = "watch"
  /\ terminations' = terminations \cup {<<r, "timeout">>}
  /\ UNCHANGED <<run, disk, procs, lease, launch, lock, killer, callbacks, killing,
                 service, notes>>

stop_requested(r) ==
  /\ InRuns(r)
  /\ terminations' = terminations \cup {<<r, "requested">>}
  /\ UNCHANGED <<run, disk, procs, lease, launch, lock, killer, callbacks, killing,
                 service, notes>>

\* Faulty variant: a fenced row is taken for a run that is being terminated.
Bug_FencedIsTerminated(r, reason) ==
  /\ Active(r) /\ ~run[r].row.fenced
  /\ reason = "timeout" => ~RootGone(r)

\* _terminate_locked up to its kill: nothing for an ended run, and no timeout
\* for an exited one.
Terminates(r, reason) ==
  /\ Active(r)
  /\ reason = "timeout" => ~RootGone(r)

\* The rows of R are saved; a failing save is ignored.
TrySave(R) ==
  \E saved \in SUBSET R :
    disk' = [r \in Runs |-> IF r \in saved THEN run'[r].row ELSE disk[r]]

\* The first stop reason of a run is kept.
StopRows(R) ==
  /\ run' = [r \in Runs |-> IF r \in R THEN [run[r] EXCEPT !.stop = TRUE] ELSE run[r]]
  /\ TrySave({r \in R : ~run[r].stop})

\* Faulty variant: a termination does not wait for the launch lock.
Bug_TerminateUnlocked(r, reason) ==
  /\ lock = None /\ killer = None
  /\ <<r, reason>> \in terminations
  /\ terminations' = terminations \ {<<r, reason>>}
  /\ IF Terminates(r, reason)
     THEN StopRows({r}) /\ killer' = r
     ELSE UNCHANGED <<run, disk, killer>>
  /\ UNCHANGED <<procs, lease, launch, lock, callbacks, killing, service, notes>>

terminate(r, reason) ==
  /\ launch = None /\ lock = None
  /\ <<r, reason>> \in terminations
  /\ terminations' = terminations \ {<<r, reason>>}
  /\ IF Terminates(r, reason)
     THEN StopRows({r}) /\ launch' = "term" /\ killer' = r
     ELSE UNCHANGED <<run, disk, launch, killer>>
  /\ UNCHANGED <<procs, lease, lock, callbacks, killing, service, notes>>

\* cgroup.kill takes whatever is in the Session cgroup.
Kill(r, origin) ==
  /\ procs' = {}
  /\ misdirected' = misdirected \cup {o \in {origin} : ~(procs \subseteq {r})}

terminate_kill ==
  /\ killer # None
  /\ Kill(killer, "terminate")
  /\ launch' = IF launch = "term" THEN None ELSE launch
  /\ killer' = None
  /\ UNCHANGED <<run, disk, lease, lock, terminations, callbacks, killing, service,
                 noted, fenced, unsaved>>

\* _backend_failed: every open row is fenced, every open run terminated.
backend_failed ==
  /\ Failures
  /\ lock = None /\ ~backend_error
  /\ backend_error' = TRUE
  /\ LET open == {r \in Runs : InRuns(r)}
     IN  /\ run' = [r \in Runs |-> IF r \in open THEN [run[r] EXCEPT !.row.fenced = TRUE]
                                   ELSE run[r]]
         /\ TrySave(open)
         /\ terminations' = terminations \cup (open \X {"requested"})
  /\ UNCHANGED <<procs, lease, launch, lock, killer, callbacks, killing, closed,
                 mutating, reset, crashes, notes>>

\* A sidecar fails; its finish() raises unless the failure is reported while
\* it already runs.
feature_fails(r) ==
  /\ Failures
  /\ run[r].feature \in {"active", "finishing"}
  /\ r \notin callbacks \cup noted
  /\ run' = [run EXCEPT ![r].feature = IF @ = "active" THEN "failed" ELSE @]
  /\ callbacks' = callbacks \cup {r}
  /\ UNCHANGED <<disk, procs, lease, launch, lock, killer, terminations, killing, service, notes>>

\* _feature_failed, its _lock block and then its kill.
feature_failed(r) ==
  /\ lock = None
  /\ r \in callbacks
  /\ callbacks' = callbacks \ {r}
  /\ IF InRuns(r)
     THEN /\ run' = [run EXCEPT ![r].row.fenced = TRUE, ![r].stop = TRUE]
          /\ TrySave({r})
          /\ killing' = killing \cup {r}
          /\ noted' = noted \cup {r}
     ELSE UNCHANGED <<run, disk, killing, noted>>
  /\ UNCHANGED <<procs, lease, launch, lock, killer, terminations, service,
                 fenced, unsaved, misdirected>>

feature_kill(r) ==
  /\ r \in killing
  /\ killing' = killing \ {r}
  /\ Kill(r, "callback")
  /\ UNCHANGED <<run, disk, lease, launch, lock, killer, terminations, callbacks,
                 service, noted, fenced, unsaved>>

-----------------------------------------------------------------------------
(* session_launch_fence, workspace mutations, shutdown and restart *)

\* Stop what runs in the Session and keep launches out meanwhile: before a
\* rollback that kills processes, or for good in close().
drain(shutdown) ==
  /\ launch = None /\ lock = None
  /\ launch' = "drain"
  /\ closed' = (closed \/ shutdown)
  /\ LET open == {r \in Runs : Active(r)}
     IN  /\ StopRows(open)
         /\ procs' = IF open = {} THEN procs ELSE {}
         /\ misdirected' = misdirected \cup
              {o \in {"terminate"} : open # {} /\ ~(procs \subseteq open)}
  /\ UNCHANGED <<lease, lock, killer, terminations, callbacks, killing,
                 backend_error, mutating, reset, crashes, noted, fenced, unsaved>>

\* The drained run is over, or the wait times out; the request ends, or it
\* goes on to mutate the workspace with the launch lock held.
drain_end ==
  /\ launch = "drain" /\ mutating \cap Drained = {}
  /\ launch' = None
  /\ UNCHANGED <<run, disk, procs, lease, lock, killer, terminations, callbacks, killing,
                 service, notes>>

\* The request has drained the Session, and none is inside with its lock.
DrainedNow ==
  /\ launch = "drain" /\ ~closed /\ mutating \cap Drained = {}
  /\ \A r \in Runs : ~Active(r)

Mutate(kind) ==
  /\ mutating' = mutating \cup {kind}
  /\ UNCHANGED <<run, disk, procs, lease, threads, backend_error, closed, reset, crashes, notes>>

\* Faulty variant: a drained Session is mutated without asking the registry.
Bug_MutateWithoutRegistry ==
  \/ ~Fenced /\ lease = None /\ Mutate("plain")
  \/ ~Fenced /\ launch = "drain" /\ ~closed /\ Mutate("drained")
  \/ reset /\ Mutate("reset")
  \/ reset /\ DrainedNow /\ Mutate("reset drained")

\* mutation() excludes leases and fences; reset_mutation() only looks whether
\* the reset is still open, and holds nothing.
mutation_enter ==
  \/ ~Fenced /\ lease = None /\ Mutate("plain")
  \/ ~Fenced /\ lease = None /\ DrainedNow /\ Mutate("drained")
  \/ reset /\ Mutate("reset")
  \/ reset /\ DrainedNow /\ Mutate("reset drained")

mutation_exit ==
  \E kind \in mutating :
    /\ mutating' = mutating \ {kind}
    /\ launch' = IF kind \in Drained THEN None ELSE launch
    /\ UNCHANGED <<run, disk, procs, lease, lock, killer, terminations, callbacks, killing,
                   backend_error, closed, reset, crashes, notes>>

\* runtime.begin_reset, drained before or not, and runtime.complete_reset,
\* which a client may send while the rollback it asked for is under way.
begin_reset ==
  /\ ~Fenced /\ lease = None
  /\ reset' = TRUE
  /\ UNCHANGED <<run, disk, procs, lease, threads, backend_error, closed, mutating, crashes,
                 notes>>

complete_reset ==
  /\ reset
  /\ reset' = FALSE
  /\ UNCHANGED <<run, disk, procs, lease, threads, backend_error, closed, mutating, crashes,
                 notes>>

\* Faulty variant: only rows found running are fenced after a restart.
Bug_OpenRow(row) == row # None /\ row.state \in {"starting", "running"}

OpenRow(row) == row # None /\ (row.state \in {"starting", "running"} \/ row.fenced)

\* The daemon dies and its successor reads the rows; the processes of the
\* Session may survive.
restart ==
  /\ crashes < MaxCrashes /\ crashes' = crashes + 1
  /\ procs' \in {procs, {}}
  /\ run' = [r \in Runs |-> IF At(r, "new") THEN run[r] ELSE [New EXCEPT !.pc = "gone"]]
  /\ disk' = [r \in Runs |-> IF OpenRow(disk[r])
                             THEN [state |-> "interrupted", fenced |-> TRUE] ELSE disk[r]]
  /\ lease' = IF \E r \in Runs : OpenRow(disk[r]) THEN Recovered ELSE None
  /\ launch' = None /\ lock' = None /\ killer' = None
  /\ terminations' = {} /\ callbacks' = {} /\ killing' = {}
  /\ backend_error' = FALSE /\ closed' = FALSE
  /\ mutating' = {} /\ reset' = FALSE
  /\ UNCHANGED notes

-----------------------------------------------------------------------------
Start(r) ==
  \/ start_refused(r) \/ register(r) \/ spawn(r) \/ attach(r) \/ seed(r)
  \/ start_execution(r) \/ commit_running(r) \/ resume(r) \/ start_raises(r)
  \/ fail_kill(r) \/ fail_finish(r) \/ fail_save(r)

Watch(r) ==
  \/ watch_exit(r) \/ watch_empty(r) \/ watch_finish(r) \/ watch_features(r)
  \/ watch_save(r) \/ watch_remove(r) \/ watch_release(r)

Terminate(r) == \E reason \in {"timeout", "requested"} : terminate(r, reason)

Next ==
  \/ \E r \in Runs :
       \/ acquire_lease(r) \/ Start(r) \/ Watch(r)
       \/ root_exit(r) \/ descendants_exit(r)
       \/ timer_fires(r) \/ stop_requested(r) \/ Terminate(r)
       \/ feature_fails(r) \/ feature_failed(r) \/ feature_kill(r)
  \/ terminate_kill
  \/ backend_failed
  \/ \E shutdown \in BOOLEAN : drain(shutdown)
  \/ drain_end
  \/ mutation_enter \/ mutation_exit
  \/ begin_reset \/ complete_reset
  \/ restart

Spec == Init /\ [][Next]_vars

\* Threads that are not waiting run on; the timer of a run fires at last; a
\* lock is not kept from a waiting thread for ever.
FairSpec ==
  /\ Spec
  /\ \A r \in Runs : /\ WF_vars(Start(r)) /\ WF_vars(Watch(r))
                     /\ WF_vars(timer_fires(r)) /\ SF_vars(Terminate(r))
  /\ WF_vars(terminate_kill) /\ WF_vars(drain_end) /\ WF_vars(mutation_exit)

-----------------------------------------------------------------------------
(* Properties *)

\* A process in the Session cgroup is covered by the lease of its own run, or
\* by the one taken for it after a restart: no other command and no mutation
\* is admitted while it can write to the workspace.
LiveMeansLeased == procs # {} => lease = Recovered \/ procs = {lease}

\* The workspace is not mutated under a live process, so that a discarded
\* branch keeps no listener or child once it is restored: neither inside
\* mutation(), nor by a rollback of a reset that is still open, nor by one that
\* holds the launch lock.  What is left is the rollback of a reset that was
\* completed while it runs (see NoRollbackBesideARun).
MutationMeansQuiet == procs # {} => ~reset /\ mutating \subseteq {"reset"}

\* "An active run holds the Session's lease; checkpoint/rollback cannot be
\* concurrent with writes" (process-tracking.md): no request changes the
\* workspace beside a live process, whatever the client does with its reset.
NoRollbackBesideARun == mutating = {} \/ procs = {}

\* A row that reports a finished, unfenced run is true: all its processes are
\* gone.
ReceiptIsTrue ==
  \A r \in Runs : disk[r] # None /\ disk[r].state \in {"completed", "stopped"}
                    /\ ~disk[r].fenced => r \notin procs

\* Once a run ended fenced the Session stays fenced, also across restarts and
\* when every save from then on raises.  Only a run whose processes, tracker
\* and features were found in order, and which is fenced because its own last
\* save raised, may lose the fence, and only to a restart.
FencePersists == lease = None => \A r \in fenced : r \in unsaved /\ At(r, "gone")

\* A timeout, a stop or a drain never kills the processes of another run.
KillHitsOwnRun == "terminate" \notin misdirected

\* Nor does the kill of a feature callback.
CallbackHitsOwnRun == "callback" \notin misdirected

\* A feature failure that is recorded before the run ends leaves the Session
\* fenced.
FeatureFailureFences == \A r \in noted : At(r, "done") => lease # None

\* Every run that is started ends: it is finalised, or lost with the daemon.
RunEnds == \A r \in Runs : Active(r) ~> run[r].pc \in Ended
-----------------------------------------------------------------------------
(* The inductive invariant behind the safety properties above *)

\* A lock is held exactly by the thread inside the block it protects.
LocksAreOwned ==
  /\ \A r \in Runs : launch = r <=> run[r].pc \in Starting \cup Failing
  /\ \A r \in Runs : lock = r <=> run[r].pc \in {"w_remove", "w_release"}
  /\ launch = "term" <=> killer # None
  /\ mutating \cap Drained # {} => launch = "drain"
  /\ ~(Drained \subseteq mutating)

\* Between its registration and its final save a run has an open row, unless
\* the first save raised: then the run is in order, and only its last save
\* is left.
Registered == (Starting \ {"acquired"}) \cup Failing
                \cup {"watch", "w_exited", "w_empty", "w_finish", "w_save"}

\* An active run holds the lease, and its position tells whether it can have
\* processes: not before attach(), not after an empty cgroup was found.  A
\* process is known to a row that fences the Session after a restart.
RunIsCovered(r) ==
  /\ Active(r) => lease = r
  /\ run[r].pc \in {"new", "acquired", "registered", "spawned", "w_empty", "w_finish", "w_remove"}
       => r \notin procs
  /\ run[r].pc \in {"f_finish", "f_save", "w_save", "w_release"} /\ run[r].ok => r \notin procs
  /\ run[r].pc \in {"new", "watch", "w_exited", "w_empty", "w_finish"} \cup Starting => ~run[r].ok
  /\ run[r].pc \in {"new", "acquired"} \cup Registered =>
       run[r].row.state \in {"starting", "running"}
  /\ run[r].pc \in Registered /\ ~(At(r, "f_save") /\ run[r].ok) => OpenRow(disk[r])
  /\ At(r, "w_release") => /\ run[r].row.fenced <=> ~run[r].ok
                           /\ ~run[r].ok /\ r \notin unsaved => OpenRow(disk[r])
  /\ r \in procs => OpenRow(disk[r])

\* Nobody holds the lease while the registry's fence is up, or a rollback
\* has the launch lock; whoever is about to kill under the launch lock finds
\* only processes of its own run.
SessionIsGuarded ==
  /\ Fenced \/ mutating \cap Drained # {} => lease = None
  /\ killer # None => procs \subseteq {killer}

\* What a fenced end leaves behind: the lease and, unless the run was in
\* order but for its last save, a row for the next daemon.
FenceIsRecorded ==
  \A r \in fenced :
    /\ run[r].pc \in Ended
    /\ At(r, "done") => lease = r
    /\ r \notin unsaved => OpenRow(disk[r]) /\ (At(r, "gone") => lease = Recovered)

IInv ==
  /\ TypeOK
  /\ LocksAreOwned
  /\ \A r \in Runs : RunIsCovered(r)
  /\ LiveMeansLeased
  /\ SessionIsGuarded
  /\ FenceIsRecorded
  /\ KillHitsOwnRun
=============================================================================
