----------------------------- MODULE ObserverRun -----------------------------
(***************************************************************************)
(* The system-effects plugin: one privileged Observer child per observed   *)
(* execution, spoken to over a line protocol.  An execution without a      *)
(* recovery plan speaks protocol v2 (SystemEffectsRun), one with a plan    *)
(* v3 (RecoverySystemEffectsRun), in which the Observer also has the       *)
(* workspace rolled back and the daemon deletes the old tree once the      *)
(* evidence is verified.                                                   *)
(*                                                                         *)
(* The module follows one handle.  Its threads: the execution's own thread *)
(* ("run": constructor, agent_started, finish and the error paths, one     *)
(* after the other under the lock of ActiveFeatureExecutions), the reader  *)
(* of the Observer's stdout, and the daemon's shutdown ("shutdown":        *)
(* SystemEffectsFeature.close, which reaches the handle past that lock).   *)
(* One step per region of _lock, per message taken from the queue and per  *)
(* child awaited.  Other executions, of this daemon and of others on the   *)
(* host, are seen through the slot and the host lock they take.  A         *)
(* deadline may pass at any moment.  The Observer and the verifier are     *)
(* external: they follow the protocol but for at most MaxFaults faults,    *)
(* and are gone when they have been killed and waited for.                 *)
(***************************************************************************)
EXTENDS Integers, Sequences

CONSTANTS
  QueueMax2,  \* bound of the message queue of a v2 run
  QueueMax3,  \* bound of the message queue of a v3 run
  MaxFaults   \* bound on faults of the Observer, the verifier and the disk

(* What a well-behaved Observer sends unasked (one answer of v2, three of  *)
(* v3), and the marks of two closes.                                       *)
ASSUME QueueHoldsABurst == /\ QueueMax2 \in Nat /\ QueueMax2 >= 3
                           /\ QueueMax3 \in Nat /\ QueueMax3 >= 5
ASSUME FaultsAssumption == MaxFaults \in Nat

VARIABLES
  kind,      \* the protocol: "v2" or "v3"
  pc,        \* pc[t]: where thread t stands
  phase,     \* _phase
  failed,    \* _failure_reason is not None
  shut,      \* _expected_shutdown
  seen,      \* _terminal_seen (v3)
  queue,     \* _messages
  reader,    \* the stdout reader: "off", "reading", "notify"
  notified,  \* number of on_failure callbacks
  got, cmds, \* answers accepted, commands sent
  ver,       \* the verifier child: "none", "running", "killed"
  proven,    \* the verification was validated and written
  deleted,   \* complete_deferred_rollback deleted the old tree
  receipt,   \* the receipt is on disk
  retired,   \* _retired
  active,    \* the plugin's _active holds the handle
  closed,    \* _closed of the plugin
  slot,      \* _run_slot of the daemon: "free", "self", "other"
  flock,     \* the host lock: "free", "self", "other"
  obs, pos,  \* the Observer child, answers it sent
  helper,    \* "success" of the recovery helper as the Observer reports it
  faults     \* faults so far

state == <<phase, failed, shut, seen, queue>>
dialogue == <<got, cmds>>
reading == <<reader, notified>>
evidence == <<ver, proven, deleted, receipt>>
plugin == <<kind, retired, active, closed, slot, flock>>
observer == <<obs, pos, helper>>
vars == <<pc, state, dialogue, reading, evidence, plugin, observer, faults>>

Threads == {"run", "shutdown"}
PCs == {"idle", "slot", "ctor", "await", "accept", "started", "running",
        "send", "exit", "artifacts", "verify", "cleanup", "receipt", "final",
        "close", "fail", "sd", "kill", "retire", "done"}
Phases == {"STARTING", "READY", "AGENT_STARTING", "AGENT_RUNNING",
           "RECOVERING", "FINISHING", "TERMINAL_RECEIVED", "FINISHED",
           "FAILED", "CLOSED_UNVERIFIED"}

(* The dialogue: the i-th answer, and how many commands it waits for. *)
Script == IF kind = "v2" THEN <<"READY", "FINISHED">>
          ELSE <<"READY", "AGENT_STARTED", "SNAPSHOT_B",
                 "RESTORE_COMPLETE", "SNAPSHOT_C", "FINISHED">>
Awaits == IF kind = "v2" THEN <<0, 1>> ELSE <<0, 1, 2, 2, 2, 3>>

At(l) == pc["run"] = l
Goto(t, l) == pc' = [pc EXCEPT ![t] = l]
Run(from, to) == At(from) /\ Goto("run", to)
QueueMax == IF kind = "v2" THEN QueueMax2 ELSE QueueMax3

(* _events.put, and the put of a failure mark that a full queue drops. *)
Put(x) == queue' = IF Len(queue) < QueueMax THEN Append(queue, x) ELSE queue
Fault == faults < MaxFaults /\ faults' = faults + 1

(* assert_healthy *)
Healthy == /\ ~failed
           /\ phase \in {"READY", "AGENT_RUNNING"}
           /\ obs = "alive"
           /\ queue = <<>>

Init ==
  /\ kind \in {"v2", "v3"}
  /\ pc = [t \in Threads |-> "idle"] /\ phase = "STARTING"
  /\ failed = FALSE /\ shut = FALSE /\ seen = FALSE /\ queue = <<>>
  /\ reader = "off" /\ notified = 0 /\ got = 0 /\ cmds = 0
  /\ ver = "none" /\ proven = FALSE /\ deleted = FALSE /\ receipt = FALSE
  /\ retired = FALSE /\ active = FALSE /\ closed = FALSE
  /\ slot = "free" /\ flock = "free"
  /\ obs = "none" /\ pos = 0 /\ helper = FALSE /\ faults = 0

-----------------------------------------------------------------------------
(* SystemEffectsFeature.start_execution: slot, host lock, constructor.     *)

take_slot ==
  /\ Run("idle", "slot") /\ ~closed /\ slot = "free" /\ slot' = "self"
  /\ UNCHANGED <<state, dialogue, reading, evidence, kind, retired, active,
                 closed, flock, observer, faults>>

refuse_slot ==
  /\ Run("idle", "done") /\ (closed \/ slot # "free")
  /\ UNCHANGED <<state, dialogue, reading, evidence, plugin, observer, faults>>

take_host_lock ==
  /\ Run("slot", "ctor") /\ flock = "free" /\ flock' = "self"
  /\ UNCHANGED <<state, dialogue, reading, evidence, kind, retired, active,
                 closed, slot, observer, faults>>

host_lock_times_out ==
  /\ Run("slot", "done") /\ flock # "free" /\ slot' = "free"
  /\ UNCHANGED <<state, dialogue, reading, evidence, kind, retired, active,
                 closed, flock, observer, faults>>

(* Mutant: no _retired and no released flag. *)
Bug_RetireTwice ==
  /\ retired' = TRUE /\ active' = FALSE /\ slot' = "free" /\ flock' = "free"
  /\ UNCHANGED <<kind, closed>>

(* _retire and the plugin's retire callback: once per handle. *)
Retire ==
  IF retired THEN UNCHANGED plugin
  ELSE /\ retired' = TRUE /\ active' = FALSE
       /\ slot' = "free" /\ flock' = "free"
       /\ UNCHANGED <<kind, closed>>

spawn_observer ==
  /\ Run("ctor", "await") /\ obs' = "alive" /\ reader' = "reading"
  /\ UNCHANGED <<state, dialogue, notified, evidence, plugin, pos, helper, faults>>

(* The config cannot be written or the Observer cannot be started. *)
spawn_fails ==
  /\ Run("ctor", "done") /\ Fault
  /\ failed' = TRUE /\ phase' = "FAILED" /\ Retire
  /\ UNCHANGED <<shut, seen, queue, dialogue, reading, evidence, observer>>

-----------------------------------------------------------------------------
(* The dialogue on the side of the run's thread.  An exception in the      *)
(* constructor leads to close_unverified, a later one to _set_failed.      *)

Raise(from, answers) == Run(from, IF answers = 0 THEN "close" ELSE "fail")

(* _receive: the next item of the queue, or the deadline. *)
receive ==
  /\ At("await") /\ queue # <<>> /\ queue' = Tail(queue)
  /\ IF Head(queue) = Script[got + 1]
     THEN got' = got + 1 /\ Run("await", "accept")
     ELSE UNCHANGED got /\ Raise("await", got)
  /\ UNCHANGED <<phase, failed, shut, seen, cmds, reading, evidence, plugin,
                 observer, faults>>

receive_times_out ==
  /\ Raise("await", got)
  /\ UNCHANGED <<state, dialogue, reading, evidence, plugin, observer, faults>>

(* The answer binds another run, or differs from the committed artifacts. *)
refuse ==
  /\ Raise("accept", got - 1) /\ Fault
  /\ UNCHANGED <<state, dialogue, reading, evidence, plugin, obs, pos, helper>>

(* READY, the assert_healthy that ends the constructor and the entry in    *)
(* _active, before which plugin.close does not know the handle.            *)
accept_ready ==
  /\ got = 1
  /\ IF failed THEN Run("accept", "close") /\ UNCHANGED <<phase, active>>
     ELSE /\ phase' = "READY"
          /\ IF obs = "alive" /\ queue = <<>> /\ ~closed
             THEN active' = TRUE /\ Run("accept", "started")
             ELSE UNCHANGED active /\ Run("accept", "close")
  /\ UNCHANGED <<failed, shut, seen, queue, dialogue, reading, evidence, kind,
                 retired, closed, slot, flock, observer, faults>>

(* v3 claims the Observer for AGENT_STARTED; v2 only asserts its health. *)
agent_started ==
  /\ Healthy
  /\ IF kind = "v2" THEN UNCHANGED phase /\ Run("started", "running")
     ELSE phase' = "AGENT_STARTING" /\ Run("started", "send")
  /\ UNCHANGED <<failed, shut, seen, queue, dialogue, reading, evidence, plugin,
                 observer, faults>>

accept_agent_started ==
  /\ kind = "v3" /\ got = 2
  /\ IF failed THEN UNCHANGED phase /\ Run("accept", "fail")
     ELSE phase' = "AGENT_RUNNING" /\ Run("accept", "running")
  /\ UNCHANGED <<failed, shut, seen, queue, dialogue, reading, evidence, plugin,
                 observer, faults>>

(* The tracked process is gone: assert_healthy and the claim of finish. *)
finish ==
  /\ Run("running", "send") /\ Healthy
  /\ phase' = IF kind = "v2" THEN "FINISHING" ELSE "RECOVERING"
  /\ UNCHANGED <<failed, shut, seen, queue, dialogue, reading, evidence, plugin,
                 observer, faults>>

(* assert_healthy raises, or another step of the start or of the watcher   *)
(* does, and the service closes the handle.                                *)
abandon ==
  /\ Run("started", "close") \/ Run("running", "close")
  /\ (~Healthy /\ UNCHANGED faults) \/ Fault
  /\ UNCHANGED <<state, dialogue, reading, evidence, plugin, observer>>

send ==
  /\ Run("send", "await") /\ obs = "alive" /\ cmds' = cmds + 1
  /\ UNCHANGED <<state, got, reading, evidence, plugin, observer, faults>>

(* The Observer is gone, or a shutdown has closed its stdin. *)
send_fails ==
  /\ Run("send", "fail") /\ (obs # "alive" \/ shut)
  /\ UNCHANGED <<state, dialogue, reading, evidence, plugin, observer, faults>>

(* SNAPSHOT_B, RESTORE_COMPLETE and SNAPSHOT_C need no step under _lock. *)
accept_snapshot ==
  /\ got \in 3..5 /\ Run("accept", IF got = 5 THEN "send" ELSE "await")
  /\ UNCHANGED <<state, dialogue, reading, evidence, plugin, observer, faults>>

accept_finished ==
  /\ Run("accept", "exit") /\ got = Len(Script)
  /\ phase' = IF kind = "v2" THEN phase ELSE "TERMINAL_RECEIVED"
  /\ UNCHANGED <<failed, shut, seen, queue, dialogue, reading, evidence, plugin,
                 observer, faults>>

-----------------------------------------------------------------------------
(* The end of finish: exit status, artifacts, verifier, cleanup, receipt.  *)

finishing == <<dialogue, reading, plugin, observer>>

(* _require_observer_exit; the reader is joined for one second only. *)
require_observer_exit ==
  /\ Run("exit", "artifacts") /\ obs = "exit0"
  /\ UNCHANGED <<state, finishing, evidence, faults>>

observer_exit_fails ==
  /\ Run("exit", "fail")
  /\ UNCHANGED <<state, finishing, evidence, faults>>

(* Digests and bindings agree, the expectation is written, the verifier runs. *)
validate_terminal_artifacts ==
  /\ Run("artifacts", "verify") /\ ver' = "running"
  /\ UNCHANGED <<state, finishing, proven, deleted, receipt, faults>>

(* They do not agree, or a file cannot be written. *)
finish_step_fails ==
  /\ (Run("artifacts", "fail") \/ Run("receipt", "fail")) /\ Fault
  /\ UNCHANGED <<state, finishing, evidence>>

run_verifier ==
  /\ Run("verify", "cleanup") /\ ver = "running"
  /\ ver' = "none" /\ proven' = TRUE
  /\ UNCHANGED <<state, finishing, deleted, receipt, faults>>

(* It timed out, exited nonzero, did not verify this run or was killed. *)
verifier_fails ==
  /\ Run("verify", "fail") /\ ver' = "none"
  /\ UNCHANGED <<state, finishing, proven, deleted, receipt, faults>>

(* Mutant: the result of the helper is not looked at. *)
Bug_DeleteAnyway == kind = "v3"

(* A successful helper left a committed rollback whose old tree may go now. *)
MayDelete == kind = "v3" /\ helper

cleanup ==
  /\ Run("cleanup", "receipt") /\ deleted' = MayDelete
  /\ UNCHANGED <<state, finishing, ver, proven, receipt, faults>>

cleanup_fails ==
  /\ Run("cleanup", "fail") /\ MayDelete /\ Fault /\ deleted' \in BOOLEAN
  /\ UNCHANGED <<state, finishing, ver, proven, receipt>>

write_receipt ==
  /\ Run("receipt", "final") /\ receipt' = TRUE
  /\ UNCHANGED <<state, finishing, ver, proven, deleted, faults>>

finished ==
  /\ Run("final", "sd") /\ phase' = "FINISHED"
  /\ UNCHANGED <<failed, shut, seen, queue, finishing, evidence, faults>>

(* Mutant: the exception leaves finish without _shutdown. *)
Bug_FailWithoutShutdown ==
  /\ Run("fail", "done") /\ failed' = TRUE /\ phase' = "FAILED"
  /\ UNCHANGED <<shut, seen, queue, finishing, evidence, faults>>

set_failed ==
  /\ Run("fail", "sd") /\ failed' = TRUE /\ phase' = "FAILED"
  /\ UNCHANGED <<shut, seen, queue, finishing, evidence, faults>>

-----------------------------------------------------------------------------
(* close_unverified and _shutdown, by the run's thread or by the daemon's. *)

plugin_close ==
  /\ ~closed /\ closed' = TRUE
  /\ IF active THEN Goto("shutdown", "close") ELSE UNCHANGED pc
  /\ UNCHANGED <<state, dialogue, reading, evidence, kind, retired, active,
                 slot, flock, observer, faults>>

close_unverified(t) ==
  /\ pc[t] = "close"
  /\ IF shut THEN Retire /\ Goto(t, "done") /\ UNCHANGED <<phase, queue>>
     ELSE /\ phase' = IF phase = "FINISHED" THEN phase ELSE "CLOSED_UNVERIFIED"
          /\ Put("FAILURE") /\ Goto(t, "sd") /\ UNCHANGED plugin
  /\ UNCHANGED <<failed, shut, seen, dialogue, reading, evidence, observer,
                 faults>>

(* Mutant: the handle is retired before its children are gone. *)
Bug_RetireBeforeKill(t) ==
  /\ pc[t] = "sd" /\ Retire
  /\ IF shut THEN Goto(t, "done") /\ UNCHANGED <<shut, ver>>
     ELSE /\ shut' = TRUE
          /\ ver' = IF ver = "running" THEN "killed" ELSE ver
          /\ Goto(t, "kill")
  /\ UNCHANGED <<phase, failed, seen, queue, dialogue, reading, proven, deleted,
                 receipt, observer, faults>>

(* Whoever comes second retires the handle at once.  The verifier that the *)
(* first one finds is killed in the same step.                             *)
shutdown(t) ==
  /\ pc[t] = "sd"
  /\ IF shut THEN Retire /\ Goto(t, "done") /\ UNCHANGED <<shut, ver>>
     ELSE /\ shut' = TRUE
          /\ ver' = IF ver = "running" THEN "killed" ELSE ver
          /\ Goto(t, "kill") /\ UNCHANGED plugin
  /\ UNCHANGED <<phase, failed, seen, queue, dialogue, reading, proven, deleted,
                 receipt, observer, faults>>

terminate_process_group(t) ==
  /\ pc[t] = "kill" /\ Goto(t, "retire")
  /\ obs' = IF obs = "alive" THEN "dead" ELSE obs
  /\ UNCHANGED <<state, dialogue, reading, evidence, plugin, pos, helper, faults>>

retire(t) ==
  /\ pc[t] = "retire" /\ Retire /\ Goto(t, "done")
  /\ UNCHANGED <<state, dialogue, reading, evidence, observer, faults>>

-----------------------------------------------------------------------------
(* The reader thread: _read_stdout and _publish_failure.                   *)

(* Mutant: the failure reaches the queue but not the service. *)
Bug_PublishWithoutCallback ==
  /\ IF failed \/ shut THEN UNCHANGED <<failed, phase>>
     ELSE failed' = TRUE /\ phase' = "FAILED"
  /\ reader' = "off" /\ Put("FAILURE")

(* _publish_failure, as the last thing the reader does. *)
publish_failure ==
  /\ IF failed \/ shut THEN UNCHANGED <<failed, phase>> /\ reader' = "off"
     ELSE failed' = TRUE /\ phase' = "FAILED" /\ reader' = "notify"
  /\ Put("FAILURE")

(* v2 checks the order here and notes the terminal message in _phase. *)
InOrder(m) ==
  \/ kind = "v3" /\ m # "garbage"
  \/ kind = "v2" /\ phase = "STARTING" /\ m = "READY"
  \/ kind = "v2" /\ phase = "FINISHING" /\ m = "FINISHED"

(* A line of the Observer, read as it is written. *)
read_line(m) ==
  IF reader # "reading" THEN UNCHANGED <<phase, failed, seen, queue, reader>>
  ELSE /\ seen' = (seen \/ (kind = "v3" /\ m = "FINISHED"))
       /\ IF InOrder(m) /\ Len(queue) < QueueMax
          THEN /\ queue' = Append(queue, m)
               /\ phase' = IF kind = "v2" /\ m = "FINISHED"
                           THEN "TERMINAL_RECEIVED" ELSE phase
               /\ UNCHANGED <<failed, reader>>
          ELSE publish_failure

EofExpected == \/ shut
               \/ kind = "v3" /\ seen
               \/ kind = "v2" /\ phase = "TERMINAL_RECEIVED"

read_eof ==
  /\ reader = "reading" /\ obs \in {"exit0", "dead"}
  /\ IF EofExpected
     THEN reader' = "off" /\ UNCHANGED <<failed, phase, queue>>
     ELSE publish_failure
  /\ UNCHANGED <<pc, shut, seen, dialogue, notified, evidence, plugin, observer,
                 faults>>

(* on_failure, outside _lock: the service fences the Session. *)
on_failure ==
  /\ reader = "notify" /\ reader' = "off" /\ notified' = notified + 1
  /\ UNCHANGED <<pc, state, dialogue, evidence, plugin, observer, faults>>

-----------------------------------------------------------------------------
(* The Observer, and the other executions on the host (external).          *)

observer_answers ==
  /\ obs = "alive" /\ pos < Len(Script) /\ cmds >= Awaits[pos + 1]
  /\ pos' = pos + 1 /\ read_line(Script[pos + 1])
  /\ IF Script[pos + 1] = "RESTORE_COMPLETE" THEN helper' \in BOOLEAN
     ELSE UNCHANGED helper
  /\ UNCHANGED <<pc, shut, dialogue, notified, evidence, plugin, obs,
                 faults>>

observer_exits ==
  /\ obs = "alive" /\ pos = Len(Script) /\ obs' = "exit0"
  /\ UNCHANGED <<pc, state, dialogue, reading, evidence, plugin, pos, helper, faults>>

(* It dies, or sends something nobody asked for. *)
observer_misbehaves ==
  /\ obs = "alive" /\ Fault
  /\ \/ obs' = "dead" /\ UNCHANGED <<phase, failed, seen, queue, reader>>
     \/ /\ \E m \in {"garbage", "EXTRA", "FINISHED"} : read_line(m)
        /\ UNCHANGED obs
  /\ UNCHANGED <<pc, shut, dialogue, notified, evidence, plugin, pos, helper>>

(* An execution of this daemon needs its slot too, one of another does not. *)
other_starts ==
  /\ flock = "free" /\ flock' = "other"
  /\ \/ slot = "free" /\ ~closed /\ slot' = "other"
     \/ UNCHANGED slot
  /\ UNCHANGED <<pc, state, dialogue, reading, evidence, kind, retired, active,
                 closed, observer, faults>>

other_ends ==
  /\ flock = "other" /\ flock' = "free"
  /\ slot' = IF slot = "other" THEN "free" ELSE slot
  /\ UNCHANGED <<pc, state, dialogue, reading, evidence, kind, retired, active,
                 closed, observer, faults>>

-----------------------------------------------------------------------------
Start == \/ take_slot \/ refuse_slot \/ take_host_lock \/ host_lock_times_out
         \/ spawn_observer \/ spawn_fails
Dialogue == \/ receive \/ receive_times_out \/ refuse \/ accept_ready
            \/ agent_started \/ accept_agent_started \/ send \/ send_fails
            \/ accept_snapshot \/ accept_finished
Conclude == \/ require_observer_exit \/ observer_exit_fails
            \/ validate_terminal_artifacts \/ finish_step_fails
            \/ run_verifier \/ verifier_fails \/ cleanup \/ cleanup_fails
            \/ write_receipt \/ finished \/ set_failed
Closing(t) == \/ close_unverified(t) \/ shutdown(t)
              \/ terminate_process_group(t) \/ retire(t)
Reader == read_eof \/ on_failure
Environment == \/ observer_answers \/ observer_exits \/ observer_misbehaves
               \/ other_starts \/ other_ends

Next == \/ Start \/ Dialogue \/ finish \/ abandon \/ Conclude
        \/ plugin_close \/ \E t \in Threads : Closing(t)
        \/ Reader \/ Environment

Spec == Init /\ [][Next]_vars

(* The threads of the daemon run, and every wait of theirs has a deadline; *)
(* nothing is assumed of the tracked process, of the Observer or of others. *)
FairSpec == /\ Spec
            /\ WF_vars(Dialogue \/ Conclude \/ Closing("run")
                       \/ spawn_observer \/ (At("started") /\ abandon))
            /\ WF_vars(Closing("shutdown"))
            /\ WF_vars(Reader)

-----------------------------------------------------------------------------
Items == {"READY", "AGENT_STARTED", "SNAPSHOT_B", "RESTORE_COMPLETE",
          "SNAPSHOT_C", "FINISHED", "EXTRA", "garbage", "FAILURE"}

(* The variables keep their types; the queue never outgrows its bound and  *)
(* on_failure is called at most once.                                      *)
TypeOK ==
  /\ kind \in {"v2", "v3"} /\ pc \in [Threads -> PCs] /\ phase \in Phases
  /\ failed \in BOOLEAN /\ shut \in BOOLEAN /\ seen \in BOOLEAN
  /\ proven \in BOOLEAN /\ deleted \in BOOLEAN /\ receipt \in BOOLEAN
  /\ retired \in BOOLEAN /\ active \in BOOLEAN /\ closed \in BOOLEAN
  /\ helper \in BOOLEAN
  /\ queue \in Seq(Items) /\ Len(queue) <= QueueMax
  /\ reader \in {"off", "reading", "notify"} /\ notified \in 0..1
  /\ got \in 0..Len(Script) /\ pos \in 0..Len(Script) /\ cmds \in 0..3
  /\ ver \in {"none", "running", "killed"}
  /\ slot \in {"free", "self", "other"} /\ flock \in {"free", "self", "other"}
  /\ obs \in {"none", "alive", "exit0", "dead"} /\ faults \in 0..MaxFaults

Working == \/ obs = "alive" \/ ver = "running"
           \/ pc["run"] \in {"exit", "artifacts", "verify", "cleanup",
                             "receipt", "final"}

(* The host lock is held from before the Observer starts until the receipt *)
(* is written or the children are gone, on every error path too; only the  *)
(* shutdown of the daemon may give it up earlier.                          *)
LockCoversTheRun == Working => flock = "self" \/ closed

(* plugin.py: "overlapping global snapshots are forbidden".  While this    *)
(* Observer is alive no other execution holds the host lock.               *)
OneObserver == obs = "alive" => flock # "other"

(* The end of an execution frees its own slot and lock, once: what another *)
(* execution took in the meantime is left alone.                           *)
OthersKeepTheirLocks ==
  [][/\ flock = "other" /\ flock' # "other" => pc' = pc
     /\ slot = "other" /\ slot' # "other" => pc' = pc]_vars

(* A receipt, and the deletion of the tree from before the rollback, need  *)
(* the whole dialogue, an Observer that exited with 0 by itself and a      *)
(* verified transcript, whatever failures and shutdowns came between; the  *)
(* deletion also needs a helper that succeeded.                            *)
EvidenceIsComplete ==
  /\ receipt \/ deleted => proven /\ obs = "exit0" /\ got = Len(Script)
  /\ deleted => kind = "v3" /\ helper

-----------------------------------------------------------------------------
(* What the properties above rest on.                                      *)

Before == {"idle", "slot", "ctor"}
Ending == {"exit", "artifacts", "verify", "cleanup", "receipt", "final"}
Proved == {"cleanup", "receipt", "final"}

(* Slot and host lock belong to the handle from the constructor until it   *)
(* is retired, which before its thread is done only the shutdown of the    *)
(* daemon does; that shutdown only knows handles that have both.           *)
HandleHoldsItsLocks ==
  /\ pc["run"] = "idle" => slot # "self"
  /\ pc["run"] = "slot" => slot = "self"
  /\ pc["run"] \in {"idle", "slot"} => flock # "self"
  /\ pc["run"] \in Before => ~retired /\ ~active
  /\ ~retired /\ pc["run"] \notin {"idle", "slot", "done"} =>
       slot = "self" /\ flock = "self"
  /\ retired => closed \/ pc["run"] = "done"
  /\ active => ~retired /\ pc["run"] # "done"
  /\ pc["shutdown"] \in {"idle", "close", "sd", "kill", "retire", "done"}
  /\ pc["shutdown"] # "idle" =>
       closed /\ pc["run"] \notin Before /\ (retired \/ pc["run"] # "done")

(* The children are gone when the handle's own thread retires it.          *)
ChildrenAreGone ==
  /\ pc["run"] \in Before => obs = "none" /\ reader = "off"
  /\ ver # "none" => pc["run"] = "verify"
  /\ ~closed /\ shut => pc["run"] \in {"kill", "retire", "done"}
  /\ ~closed /\ pc["run"] \in {"retire", "done"} => obs # "alive"

(* The run's thread and the Observer are at the same place of the          *)
(* dialogue: an answer is awaited when the commands it waits for are sent. *)
DialogueInStep ==
  /\ pc["run"] \in Before => got = 0 /\ cmds = 0
  /\ At("await") => got < Len(Script) /\ cmds = Awaits[got + 1]
  /\ At("accept") => got >= 1 /\ cmds = Awaits[got]
  /\ At("send") => /\ got \in {1, 2, 5} /\ got < Len(Script)
                  /\ cmds + 1 = Awaits[got + 1]
  /\ At("started") => got = 1 /\ cmds = 0
  /\ At("running") => got = (IF kind = "v2" THEN 1 ELSE 2) /\ cmds = Awaits[got]

(* The one on_failure is the last thing the reader does. *)
ReaderNotifiesOnce ==
  notified = 1 => reader = "off" /\ pc["run"] \notin Before

(* Each step of the end of finish rests on the ones before it, and no      *)
(* shutdown takes back what they have seen.                                *)
StepsOfFinish ==
  /\ pc["run"] \in Ending => got = Len(Script)
  /\ pc["run"] \in Ending \ {"exit"} => obs = "exit0"
  /\ pc["run"] \in Proved => proven
  /\ proven => /\ pc["run"] \in Proved \cup {"fail", "sd", "kill", "retire", "done"}
               /\ obs = "exit0" /\ got = Len(Script)

IInv == /\ TypeOK /\ HandleHoldsItsLocks /\ ChildrenAreGone /\ DialogueInStep
        /\ ReaderNotifiesOnce /\ StepsOfFinish /\ EvidenceIsComplete

Busy == pc["run"] \notin {"idle", "slot", "running", "done"}

(* Every deadline and error path together: an execution that starts gets   *)
(* to run its process or gives the host lock back, and one that is being   *)
(* finished gives it back, with an Observer that never answers.            *)
LockIsReturned == Busy ~> (At("running") \/ flock # "self")

(* An Observer that dies while the tracked process runs is reported to the *)
(* service, which fences the Session, unless it had announced its end or   *)
(* the handle is shut down.                                                *)
DeathIsNoticed ==
  (At("running") /\ obs = "dead" /\ ~seen) ~> (notified = 1 \/ shut)
=============================================================================
