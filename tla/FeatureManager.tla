---------------------------- MODULE FeatureManager ----------------------------
(***************************************************************************)
(* runtime/extensions.py: the FeatureManager that activates the enabled    *)
(* plugins and closes them again, and the ActiveFeatureExecutions that     *)
(* owns the lifecycle handles of one run, as the process tracking service  *)
(* drives them (service.py).                                               *)
(*                                                                         *)
(* Any callback of a plugin may raise, at the cost of one of MaxFaults.    *)
(* Threads: the daemon's main thread, which activates the plugins and      *)
(* closes them at shutdown; process.start, which the launch lock keeps     *)
(* apart from shutdown; and the watcher of the run, which nothing does:    *)
(* shutdown waits ten seconds for it and then closes the plugins.          *)
(***************************************************************************)
EXTENDS Naturals, Sequences, SequencesExt

CONSTANTS
  Abi,        \* <<a1, ..., an>>: execution_lifecycle_abi of each plugin, 0 if none
  MaxFaults

Features == 1..Len(Abi)

ASSUME AbiAssumption == Abi \in Seq({0, 1, 2})
ASSUME FaultsAssumption == MaxFaults \in Nat

VARIABLES
  manager,   \* activating, ready, closing, closed
  features,  \* _features, a sequence of plugins
  closed,    \* plugins whose close() was called, in that order
  run,       \* the run's position: see Start and Watch below
  next,      \* loop variable of the run's thread: the plugin to be called next
  entries,   \* handles of the run, in the order of their start
  state,     \* ActiveFeatureExecutions._state, or none
  handle,    \* plugin -> none, active, finished, closed (unverified)
  told,      \* plugins whose execution_started() returned
  observed,  \* plugins whose execution_finished() returned
  faults,
  made       \* history: plugins that a factory returned

vars == <<manager, features, closed, run, next, entries, state, handle, told,
          observed, faults, made>>
daemonVars == <<manager, features, closed, made>>
runVars == <<run, next, entries, state, handle, told, observed>>

Start == {"start", "started", "agent"}
Watch == {"live", "observe", "finish"}
Over == {"succeeded", "failed", "refused"}

TypeOK ==
  /\ manager \in {"activating", "ready", "closing", "closed"}
  /\ features \in Seq(Features) /\ closed \in Seq(Features) /\ entries \in Seq(Features)
  /\ run \in {"new", "fail"} \cup Start \cup Watch \cup Over
  /\ next \in 0..Len(Abi) + 1
  /\ state \in {"none", "active", "finalizing", "closed"}
  /\ handle \in [Features -> {"none", "active", "finished", "closed"}]
  /\ told \subseteq Features /\ observed \subseteq Features
  /\ faults \in 0..MaxFaults /\ made \subseteq Features

Init ==
  /\ manager = "activating"
  /\ features = <<>> /\ closed = <<>>
  /\ run = "new" /\ next = 0
  /\ entries = <<>> /\ state = "none"
  /\ handle = [f \in Features |-> "none"]
  /\ told = {} /\ observed = {}
  /\ faults = 0 /\ made = {}

Raise == faults < MaxFaults /\ faults' = faults + 1

-----------------------------------------------------------------------------
(* Activation and close *)

\* The next plugin is made and owned; or its factory raises; or it is owned
\* and then found invalid by its name, ABI, lifecycle ABI or a route.
activate ==
  LET f == Len(features) + 1
  IN  /\ manager = "activating"
      /\ \/ /\ f \in Features
            /\ features' = Append(features, f)
            /\ made' = made \cup {f}
            /\ \/ UNCHANGED <<manager, faults>>
               \/ Raise /\ manager' = "closing"
         \/ /\ f \in Features
            /\ Raise
            /\ manager' = "closing"
            /\ UNCHANGED <<features, made>>
         \/ /\ f \notin Features
            /\ manager' = "ready"
            /\ UNCHANGED <<features, faults, made>>
      /\ UNCHANGED <<closed, runVars>>

\* Dispatcher.close: processes.close() under the launch lock, ten seconds for
\* the watcher, then the plugins.
shutdown ==
  /\ manager = "ready"
  /\ run \notin Start \cup {"fail"}
  /\ manager' = "closing"
  /\ UNCHANGED <<features, closed, runVars, faults, made>>

close_feature ==
  /\ manager = "closing"
  /\ Len(closed) < Len(features)
  /\ closed' = Append(closed, features[Len(features) - Len(closed)])
  /\ UNCHANGED <<manager, features, runVars, faults, made>>

close_done ==
  /\ manager = "closing"
  /\ Len(closed) = Len(features)
  /\ manager' = "closed"
  /\ features' = <<>>
  /\ UNCHANGED <<closed, runVars, faults, made>>

-----------------------------------------------------------------------------
(* Handles *)

\* close_unverified() of every handle, last first; what they raise is ignored.
CloseAll(h) == [f \in Features |-> IF f \in Range(entries) THEN "closed" ELSE h[f]]

\* ActiveFeatureExecutions.close_unverified
close_unverified ==
  IF state = "closed" THEN UNCHANGED <<state, handle>>
  ELSE state' = "closed" /\ handle' = CloseAll(handle)

\* ActiveFeatureExecutions.finish, last handle first.  When one raises, all
\* are closed, also those that had finished.
finish(ok) ==
  /\ state' = "closed"
  /\ \/ ok /\ handle' = [f \in Features |-> IF f \in Range(entries) THEN "finished" ELSE handle[f]]
     \/ ~ok /\ entries # <<>> /\ handle' = CloseAll(handle)

-----------------------------------------------------------------------------
(* process.start *)

prepare_execution ==
  /\ manager = "ready" /\ run = "new"
  /\ \/ run' = "start" /\ next' = 1 /\ UNCHANGED faults
     \* A plugin refuses, or two plugins conflict on a variable, a mount or
     \* an item of metadata.
     \/ run' = "refused" /\ Raise /\ UNCHANGED next
  /\ UNCHANGED <<daemonVars, entries, state, handle, told, observed>>

\* start_execution: one plugin after the other.  Undo closes what was started.
Bug_StartForgetsUndo ==
  /\ run = "start" /\ next <= Len(features)
  /\ \/ /\ Abi[next] # 0
        /\ handle' = [handle EXCEPT ![next] = "active"]
        /\ entries' = Append(entries, next)
        /\ next' = next + 1
        /\ UNCHANGED <<run, state, faults>>
     \/ /\ Abi[next] = 0
        /\ next' = next + 1
        /\ UNCHANGED <<run, entries, state, handle, faults>>
     \/ /\ Abi[next] # 0
        /\ Raise
        /\ run' = "refused"
        /\ UNCHANGED <<next, entries, state, handle>>
  /\ UNCHANGED <<daemonVars, told, observed>>

start_execution ==
  /\ run = "start" /\ next <= Len(features)
  /\ \/ /\ Abi[next] # 0
        /\ handle' = [handle EXCEPT ![next] = "active"]
        /\ entries' = Append(entries, next)
        /\ next' = next + 1
        /\ UNCHANGED <<run, state, faults>>
     \/ /\ Abi[next] = 0
        /\ next' = next + 1
        /\ UNCHANGED <<run, entries, state, handle, faults>>
     \* start() raises, or its handle is invalid and is closed at once.
     \/ /\ Abi[next] # 0
        /\ Raise
        /\ run' = "refused"
        /\ \E h \in {"none", "closed"} : handle' = CloseAll([handle EXCEPT ![next] = h])
        /\ UNCHANGED <<next, entries, state>>
  /\ UNCHANGED <<daemonVars, told, observed>>

\* All handles are started: assert_healthy() inside start_execution.
start_healthy ==
  /\ run = "start" /\ next > Len(features)
  /\ \/ run' = "started" /\ state' = "active" /\ next' = 1 /\ UNCHANGED <<handle, faults>>
     \/ run' = "refused" /\ Raise /\ handle' = CloseAll(handle) /\ UNCHANGED <<state, next>>
  /\ UNCHANGED <<daemonVars, entries, told, observed>>

\* The service checks the handles again and calls execution_started() of every
\* plugin in turn.
execution_started ==
  /\ run = "started"
  /\ \/ /\ next <= Len(features)
        /\ told' = told \cup {features[next]}
        /\ next' = next + 1
        /\ UNCHANGED <<run, faults>>
     \/ /\ next > Len(features)
        /\ run' = "agent"
        /\ next' = 1
        /\ UNCHANGED <<told, faults>>
     \/ /\ Raise
        /\ run' = "fail"
        /\ UNCHANGED <<next, told>>
  /\ UNCHANGED <<daemonVars, entries, state, handle, observed>>

\* agent_started() of the ABI 2 handles, then the process is continued.
agent_started ==
  /\ run = "agent"
  /\ \/ run' = "live" /\ UNCHANGED faults
     \/ run' = "fail" /\ Raise
  /\ UNCHANGED <<daemonVars, next, entries, state, handle, told, observed>>

\* The error path of process.start: finish() if the cgroup is empty and
\* verified, close_unverified() otherwise or when finish() raises.
start_failed ==
  /\ run = "fail"
  /\ run' = "failed"
  /\ \/ finish(TRUE) /\ UNCHANGED faults
     \/ finish(FALSE) /\ Raise
     \/ close_unverified /\ UNCHANGED faults
  /\ UNCHANGED <<daemonVars, next, entries, told, observed>>

-----------------------------------------------------------------------------
(* The watcher *)

\* The run's processes are gone and the cgroup verified.
quiescent ==
  /\ run = "live"
  /\ run' = "observe"
  /\ next' = Len(features)
  /\ UNCHANGED <<daemonVars, entries, state, handle, told, observed, faults>>

\* execution_finished() of the plugins, last first: an iterator over the list,
\* which ends when the list was cleared under it.
execution_finished ==
  /\ run = "observe"
  /\ next \in 1..Len(features)
  /\ observed' = observed \cup {features[next]}
  /\ next' = next - 1
  /\ UNCHANGED <<daemonVars, run, entries, state, handle, told, faults>>

\* What an observer raises ends the loop and nothing else.
Bug_ObserverErrorIgnored ==
  /\ run = "observe"
  /\ next \notin 1..Len(features) \/ Raise
  /\ run' = "finish"
  /\ UNCHANGED <<daemonVars, next, entries, state, handle, told, observed>>
  /\ next \notin 1..Len(features) => UNCHANGED faults

observers_done ==
  /\ run = "observe"
  /\ next \notin 1..Len(features)
  /\ run' = "finish"
  /\ UNCHANGED <<daemonVars, next, entries, state, handle, told, observed, faults>>

\* assert_healthy(), then finish() of the handles.
watch_finish ==
  /\ run = "finish"
  /\ run' = "succeeded"
  /\ finish(TRUE)
  /\ UNCHANGED <<daemonVars, next, entries, told, observed, faults>>

\* Anything on the way raises: the cgroup is not verified, a plugin, a handle.
watch_fails ==
  /\ run \in Watch
  /\ Raise
  /\ run' = "failed"
  /\ \/ run = "finish" /\ finish(FALSE)
     \/ close_unverified
  /\ UNCHANGED <<daemonVars, next, entries, told, observed>>

Next ==
  \/ activate \/ shutdown \/ close_feature \/ close_done
  \/ prepare_execution \/ start_execution \/ start_healthy
  \/ execution_started \/ agent_started \/ start_failed
  \/ quiescent \/ execution_finished \/ observers_done \/ watch_finish \/ watch_fails

Spec == Init /\ [][Next]_vars

-----------------------------------------------------------------------------
(* Properties *)

\* Whichever callback raised, and where, a run that is over has left no
\* lifecycle handle running: each was finished or closed.
NoHandleLeft ==
  run \in Over => \A f \in Features : handle[f] # "active"

\* A run reports success only if every handle it started was finished and
\* none was closed unverified, and if every plugin that was told of its start
\* was told of its end, unless all plugins were closed before the run ended.
SuccessIsWhole ==
  run = "succeeded" =>
    /\ \A f \in Features : handle[f] = IF Abi[f] = 0 THEN "none" ELSE "finished"
    /\ told = Features /\ (observed = told \/ manager = "closed")

\* A daemon that is down, or failed to come up, has closed every plugin that
\* was made, also one whose validation failed, each once and the last first.
PluginsAreClosed ==
  manager = "closed" =>
    /\ Range(closed) = made
    /\ \A i, j \in 1..Len(closed) : i < j => closed[i] > closed[j]

\* Nothing stays open: neither the handle of a run that is over nor a plugin
\* of a daemon that is down, wherever a callback, a validation or a close
\* raised.
NothingLeftOpen == NoHandleLeft /\ PluginsAreClosed

-----------------------------------------------------------------------------
(* The inductive invariant behind the properties above *)

\* The list holds the plugins made so far, in order, until it is cleared;
\* close() has got through its end, backwards.
ListIsInOrder ==
  LET last == IF manager = "closed" THEN Len(closed) ELSE Len(features)
  IN  /\ last <= Len(Abi) /\ made = 1..last
      /\ \A i \in 1..Len(features) : features[i] = i
      /\ \A i \in 1..Len(closed) : closed[i] = last + 1 - i
      /\ manager \in {"activating", "ready"} => closed = <<>>
      /\ manager = "closing" => Len(closed) <= Len(features)
      /\ manager = "closed" => features = <<>>

\* A run begins when all plugins are there, and its start is over before the
\* shutdown begins.
RunHasPlugins ==
  /\ manager = "ready" => Len(features) = Len(Abi)
  /\ run # "new" => manager = "closed" \/ Len(features) = Len(Abi)
  /\ run # "new" => manager # "activating"
  /\ run \in Start \cup {"fail"} => manager = "ready"

\* The run's handles are those of the lifecycle plugins called so far, and
\* they are active until the run is over.
HandlesAreEntered ==
  /\ run \in {"new", "start"} => state = "none" /\ told = {}
  /\ run = "new" => entries = <<>>
  /\ run \in {"started", "agent", "fail"} \cup Watch => state = "active"
  /\ run \in {"start", "started"} => next >= 1
  /\ run \notin Over => \A f \in Features :
       /\ handle[f] = IF f \in Range(entries) THEN "active" ELSE "none"
       /\ run # "new" =>
            (f \in Range(entries) <=> Abi[f] # 0 /\ (run = "start" => f < next))

\* How far the plugins were told of the start and of the end of the run.
PluginsAreTold ==
  /\ run = "started" => told = 1..(next - 1)
  /\ run \in {"agent"} \cup Watch => told = Features
  /\ run \notin {"observe", "finish"} \cup Over => observed = {}
  /\ run = "observe" => next <= Len(Abi) /\ (observed = (next + 1)..Len(Abi) \/ manager = "closed")
  /\ run = "finish" => observed = Features \/ manager = "closed"

IInv ==
  /\ TypeOK
  /\ ListIsInOrder
  /\ RunHasPlugins
  /\ HandlesAreEntered
  /\ PluginsAreTold
  /\ NoHandleLeft
  /\ SuccessIsWhole
=============================================================================
