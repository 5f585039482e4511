---------------------------- MODULE SessionNetwork ----------------------------
(***************************************************************************)
(* The session-network plugin (networking.py, plugin.py): one network      *)
(* namespace per Session, kept by a helper process, and in proxy mode a    *)
(* broker that listens on the Session's socket path.  It is composed with  *)
(* the ExecutionRegistry: network.configure runs inside mutation(), and    *)
(* process.start prepares the network under the lease of the new run.      *)
(*                                                                         *)
(* The manager's RLock serialises prepare, configure and close, so what    *)
(* interleaves with their steps is the rest of the world: helpers that     *)
(* exit, runs that end, a crash of the daemon.                             *)
(* A failure (no process, a full disk, a process that SIGKILL does not end *)
(* in time) costs one of MaxFaults, as do a crash and a helper's exit.     *)
(*                                                                         *)
(* Left out: status(), which changes nothing; the connections a broker     *)
(* serves; background executions, whose registration only keeps configure  *)
(* out (see ExecutionRegistry); a start that fails before its broker is    *)
(* bound, which leaves nothing behind and gives the lease back.            *)
(***************************************************************************)
EXTENDS ExecutionRegistry

CONSTANTS
  Attempts,     \* calls of _start_locked: a helper and, in proxy mode, a broker
  DefaultMode,
  MaxFaults

Modes == {"inherit", "isolated", "proxy"}

ASSUME DefaultModeAssumption == DefaultMode \in Modes
ASSUME NetNamesAssumption == None \notin Attempts \cup Handlers \cup Modes
ASSUME FaultsAssumption == MaxFaults \in Nat

VARIABLES
  configuration,  \* Session -> mode, the manager's dict
  disk,           \* Session -> mode, as sessions.json gives it
  runtime,        \* Session -> the attempt that serves it, or None
  helper,         \* attempt -> none, up, dead
  broker,         \* attempt -> none, open, closed
  path,           \* Session -> the attempt whose socket is bound there, or None
  netjob,         \* handler -> its position in process.start or network.configure
  netlock,        \* the handler that holds the manager's RLock, or None
  runs,           \* lease token -> what prepare() answered for the run, or None
  service,        \* open, closed (no new runs), closing (manager.close), down
  faults,
  lost,           \* history: attempts some failure took from the manager
  acked,          \* history: Session -> the mode last confirmed, None if unknown
  unsaved         \* history: Sessions whose write failed, until this daemon's next write

netvars == <<configuration, disk, runtime, helper, broker, path, netjob, netlock,
             runs, service, faults,
                 lost, acked, unsaved>>
world == <<helper, broker, path>>
netallvars == <<vars, netvars>>

NoNetJob == [pc |-> "idle", key |-> None, token |-> None, mode |-> None, attempt |-> None]

NetJob == [pc : {"idle", "prepare", "broker", "popen", "ready", "stop", "save"},
        key : Sessions \cup {None}, token : Tokens \cup {None}, mode : Modes \cup {None},
        attempt : Attempts \cup {None}]

NetTypeOK ==
  /\ {configuration, disk} \subseteq [Sessions -> Modes]
  /\ runtime \in [Sessions -> Attempts \cup {None}]
  /\ helper \in [Attempts -> {"none", "up", "dead"}]
  /\ broker \in [Attempts -> {"none", "open", "closed"}]
  /\ path \in [Sessions -> Attempts \cup {None}]
  /\ netjob \in [Handlers -> NetJob]
  /\ netlock \in Handlers \cup {None}
  /\ runs \in [Tokens -> [mode : Modes, attempt : Attempts \cup {None}] \cup {None}]
  /\ service \in {"open", "closed", "closing", "down"}
  /\ faults \in 0..MaxFaults
  /\ lost \subseteq Attempts
  /\ acked \in [Sessions -> Modes \cup {None}]
  /\ unsaved \subseteq Sessions

NetInit ==
  /\ Init
  /\ configuration = [s \in Sessions |-> DefaultMode]
  /\ disk = configuration
  /\ runtime = [s \in Sessions |-> None]
  /\ helper = [a \in Attempts |-> "none"]
  /\ broker = [a \in Attempts |-> "none"]
  /\ path = [s \in Sessions |-> None]
  /\ netjob = [h \in Handlers |-> NoNetJob]
  /\ netlock = None
  /\ runs = [t \in Tokens |-> None]
  /\ service = "open"
  /\ faults = 0
  /\ lost = {}
  /\ acked = [s \in Sessions |-> None]
  /\ unsaved = {}

-----------------------------------------------------------------------------
(* Helpers *)

NetAt(h, pc) == netjob[h].pc = pc
NetGoto(h, pc) == netjob' = [netjob EXCEPT ![h].pc = pc]
Fault == faults < MaxFaults /\ faults' = faults + 1
Serving(s) == runtime[s] # None /\ helper[runtime[s]] = "up"

\* SessionNetworkBroker.close: the listening socket is closed and the socket
\* path is removed, whoever owns it.
CloseBroker(a, s) ==
  IF broker[a] = "open"
  THEN /\ broker' = [broker EXCEPT ![a] = "closed"]
       /\ path' = [path EXCEPT ![s] = None]
  ELSE UNCHANGED <<broker, path>>

\* _stop_locked, given the entry that was popped: a helper that is still
\* running is ended first.
StopAttempt(a, s) ==
  /\ helper' = [helper EXCEPT ![a] = "dead"]
  /\ CloseBroker(a, s)

\* ... or SIGKILL does not end it within the timeout and wait() raises:
\* the entry is gone, the broker still listens.
CannotStop(a) ==
  /\ helper[a] = "up"
  /\ Fault
  /\ lost' = lost \cup {a}
  /\ UNCHANGED world

\* process.start fails before it has a process: the lease is given back.
StartFails(h) ==
  /\ release(netjob[h].token)
  /\ netjob' = [netjob EXCEPT ![h] = NoNetJob]
  /\ netlock' = None

-----------------------------------------------------------------------------
(* process.start: the lease, then prepare() under the service's lock *)

process_start(h, s, t) ==
  /\ service = "open"
  /\ op[h] = Idle /\ NetAt(h, "idle")
  /\ acquire(s, FALSE, t)
  /\ netjob' = [netjob EXCEPT ![h] = [NoNetJob EXCEPT !.pc = "prepare", !.key = s, !.token = t]]
  /\ UNCHANGED <<configuration, disk, runtime, world, netlock, runs, service, faults,
                 lost, acked, unsaved>>

\* The NetworkLaunch with which the service goes on to start the run.
Launch(h, mode, a) ==
  /\ runs' = [runs EXCEPT ![netjob[h].token] = [mode |-> mode, attempt |-> a]]
  /\ netjob' = [netjob EXCEPT ![h] = NoNetJob]
  /\ UNCHANGED vars

Bug_KeepDeadRuntime(h) ==
  LET s == netjob[h].key
      mode == configuration[s]
  IN  /\ NetAt(h, "prepare") /\ netlock = None /\ service = "open"
      /\ UNCHANGED <<configuration, disk, service, faults,
                 lost, acked, unsaved>>
      /\ \/ /\ mode = "inherit"
            /\ Launch(h, mode, None)
            /\ UNCHANGED <<runtime, world, netlock>>
         \/ /\ mode # "inherit" /\ Serving(s)
            /\ Launch(h, mode, runtime[s])
            /\ UNCHANGED <<runtime, world, netlock>>
         \/ /\ mode # "inherit" /\ ~Serving(s)
            /\ netlock' = h
            /\ netjob' = [netjob EXCEPT ![h].pc = "broker", ![h].mode = mode]
            /\ UNCHANGED <<runtime, world, runs, vars>>

prepare(h) ==
  LET s == netjob[h].key
      mode == configuration[s]
  IN  /\ NetAt(h, "prepare") /\ netlock = None /\ service = "open"
      /\ UNCHANGED <<configuration, disk, service, faults,
                 lost, acked, unsaved>>
      /\ \/ /\ mode = "inherit"
            /\ Launch(h, mode, None)
            /\ UNCHANGED <<runtime, world, netlock>>
         \/ /\ mode # "inherit" /\ Serving(s)
            /\ Launch(h, mode, runtime[s])
            /\ UNCHANGED <<runtime, world, netlock>>
         \/ /\ mode # "inherit" /\ ~Serving(s)
            /\ netlock' = h
            /\ netjob' = [netjob EXCEPT ![h].pc = "broker", ![h].mode = mode]
            /\ IF runtime[s] = None
               THEN UNCHANGED <<runtime, world>>
               ELSE /\ runtime' = [runtime EXCEPT ![s] = None]
                    /\ StopAttempt(runtime[s], s)
            /\ UNCHANGED <<runs, vars>>

\* The service was closed before this request got its lock.
prepare_refused(h) ==
  /\ NetAt(h, "prepare") /\ netlock = None /\ service # "open"
  /\ StartFails(h)
  /\ UNCHANGED <<configuration, disk, runtime, world, runs, service, faults,
                 lost, acked, unsaved>>

\* _start_locked up to the broker: a socket left at the path is unlinked and
\* a new one bound.
start_broker(h, a) ==
  /\ NetAt(h, "broker")
  /\ helper[a] = "none" /\ broker[a] = "none"
  /\ \A g \in Handlers : netjob[g].attempt # a
  /\ netjob' = [netjob EXCEPT ![h].pc = "popen", ![h].attempt = a]
  /\ IF netjob[h].mode = "proxy"
     THEN /\ broker' = [broker EXCEPT ![a] = "open"]
          /\ path' = [path EXCEPT ![netjob[h].key] = a]
     ELSE UNCHANGED <<broker, path>>
  /\ UNCHANGED <<vars, configuration, disk, runtime, helper, netlock, runs, service,
                 faults,
                 lost, acked, unsaved>>

popen(h) ==
  /\ NetAt(h, "popen")
  /\ helper' = [helper EXCEPT ![netjob[h].attempt] = "up"]
  /\ NetGoto(h, "ready")
  /\ UNCHANGED <<vars, configuration, disk, runtime, broker, path, netlock, runs, service,
                 faults,
                 lost, acked, unsaved>>

\* Popen is outside the try block: the broker is left listening.
popen_fails(h) ==
  /\ NetAt(h, "popen")
  /\ Fault
  /\ lost' = lost \cup {netjob[h].attempt}
  /\ StartFails(h)
  /\ UNCHANGED <<configuration, disk, runtime, world, runs, service, acked, unsaved>>

\* The helper has written its ready line; it may have exited since.
helper_ready(h) ==
  LET a == netjob[h].attempt
      s == netjob[h].key
  IN  /\ NetAt(h, "ready")
      /\ runtime' = [runtime EXCEPT ![s] = a]
      /\ Launch(h, netjob[h].mode, a)
      /\ netlock' = None
      /\ UNCHANGED <<configuration, disk, world, service, faults,
                 lost, acked, unsaved>>

\* The error path ends the helper and forgets the broker.
Bug_NotReadyKeepsBroker(h) ==
  /\ NetAt(h, "ready")
  /\ helper' = [helper EXCEPT ![netjob[h].attempt] = "dead"]
  /\ IF helper[netjob[h].attempt] = "dead" THEN UNCHANGED faults ELSE Fault
  /\ StartFails(h)
  /\ UNCHANGED <<configuration, disk, runtime, broker, path, runs, service, lost, acked, unsaved>>

\* No ready line: it exited, or said nothing for ten seconds.
helper_not_ready(h) ==
  LET a == netjob[h].attempt
      s == netjob[h].key
  IN  /\ NetAt(h, "ready")
      /\ \/ /\ StopAttempt(a, s)
            /\ UNCHANGED lost
            /\ IF helper[a] = "dead" THEN UNCHANGED faults ELSE Fault
         \/ CannotStop(a)
      /\ StartFails(h)
      /\ UNCHANGED <<configuration, disk, runtime, runs, service, acked, unsaved>>

run_ends(t) ==
  /\ runs[t] # None
  /\ runs' = [runs EXCEPT ![t] = None]
  /\ release(t)
  /\ UNCHANGED <<configuration, disk, runtime, world, netjob, netlock, service, faults,
                 lost, acked, unsaved>>

-----------------------------------------------------------------------------
(* network.configure, inside mutation() *)

\* Without mutation(): the registry is not asked.
Bug_ConfigureUnfenced(h, s, mode) ==
  /\ service # "down"
  /\ NetAt(h, "idle") /\ op[h] = Idle
  /\ op' = [op EXCEPT ![h] = [kind |-> "mutation", key |-> s]]
  /\ mutating' = mutating \cup {s}
  /\ UNCHANGED <<leases, recoveryLeases, background, resets, shareReaders, issued>>
  /\ netjob' = [netjob EXCEPT ![h] = [NoNetJob EXCEPT !.pc = "stop", !.key = s, !.mode = mode]]
  /\ UNCHANGED <<configuration, disk, runtime, world, netlock, runs, service, faults,
                 lost, acked, unsaved>>

configure_begin(h, s, mode) ==
  /\ service # "down"
  /\ NetAt(h, "idle")
  /\ mutation_enter(h, s)
  /\ netjob' = [netjob EXCEPT ![h] = [NoNetJob EXCEPT !.pc = "stop", !.key = s, !.mode = mode]]
  /\ UNCHANGED <<configuration, disk, runtime, world, netlock, runs, service, faults,
                 lost, acked, unsaved>>

ConfigureEnds(h) ==
  /\ mutation_exit(h)
  /\ netjob' = [netjob EXCEPT ![h] = NoNetJob]

\* The mode in memory is the one asked for, which is confirmed without a
\* write, or the Session's runtime is stopped first.
configure_stop(h) ==
  LET s == netjob[h].key
      a == runtime[s]
  IN  /\ NetAt(h, "stop") /\ netlock = None
      /\ UNCHANGED <<configuration, disk, runs, service, unsaved>>
      /\ \/ /\ configuration[s] = netjob[h].mode
            /\ ConfigureEnds(h)
            /\ acked' = [acked EXCEPT ![s] = netjob[h].mode]
            /\ UNCHANGED <<runtime, world, netlock, faults, lost>>
         \/ /\ configuration[s] # netjob[h].mode
            /\ UNCHANGED acked
            /\ runtime' = [runtime EXCEPT ![s] = None]
            /\ \/ /\ IF a = None THEN UNCHANGED world ELSE StopAttempt(a, s)
                  /\ NetGoto(h, "save")
                  /\ netlock' = h
                  /\ UNCHANGED <<vars, faults, lost>>
               \/ /\ a # None
                  /\ CannotStop(a)
                  /\ ConfigureEnds(h)
                  /\ UNCHANGED netlock

\* The file is written before the dict is changed.
Bug_SaveFirst(h) ==
  LET s == netjob[h].key
  IN  /\ NetAt(h, "save")
      /\ configuration' = [configuration EXCEPT ![s] = netjob[h].mode]
      /\ ConfigureEnds(h)
      /\ netlock' = None
      /\ disk' = configuration /\ unsaved' = {}
      /\ acked' = [acked EXCEPT ![s] = netjob[h].mode]
      /\ UNCHANGED <<runtime, world, runs, service, faults, lost>>

\* The dict is changed, then written to a temporary file that replaces
\* sessions.json; when that fails the dict stays changed.  The file is the
\* whole dict: a write that succeeds makes up for the ones that failed.
configure_save(h) ==
  LET s == netjob[h].key
  IN  /\ NetAt(h, "save")
      /\ configuration' = [configuration EXCEPT ![s] = netjob[h].mode]
      /\ ConfigureEnds(h)
      /\ netlock' = None
      /\ \/ /\ disk' = configuration' /\ unsaved' = {}
            /\ acked' = [acked EXCEPT ![s] = netjob[h].mode]
            /\ UNCHANGED faults
         \/ /\ Fault
            /\ acked' = [acked EXCEPT ![s] = None]
            /\ unsaved' = unsaved \cup {s}
            /\ UNCHANGED disk
      /\ UNCHANGED <<runtime, world, runs, service, lost>>

-----------------------------------------------------------------------------
(* What runs beside the manager *)

helper_exits(a) ==
  /\ helper[a] = "up"
  /\ Fault
  /\ helper' = [helper EXCEPT ![a] = "dead"]
  /\ UNCHANGED <<vars, configuration, disk, runtime, broker, path, netjob, netlock, runs,
                 service, lost, acked, unsaved>>

-----------------------------------------------------------------------------
(* Shutdown and crash of the daemon *)

\* ProcessTrackingService.close sets _closed under the lock that process.start
\* holds around prepare().
service_close ==
  /\ service = "open"
  /\ \A h \in Handlers : netjob[h].pc \notin {"broker", "popen", "ready"}
  /\ service' = "closed"
  /\ UNCHANGED <<vars, configuration, disk, runtime, world, netjob, netlock, runs, faults,
                 lost, acked, unsaved>>

\* close() of the manager, one entry at a time under its lock; an entry that
\* cannot be stopped ends the loop, and the entries after it stay.
close_step(s) ==
  LET a == runtime[s]
  IN  /\ service \in {"closed", "closing"} /\ netlock = None
      /\ a # None
      /\ \/ /\ runtime' = [runtime EXCEPT ![s] = None]
            /\ StopAttempt(a, s)
            /\ service' = "closing"
            /\ UNCHANGED <<faults, lost>>
         \/ /\ helper[a] = "up" /\ Fault
            /\ runtime' = [runtime EXCEPT ![s] = None]
            /\ lost' = lost \cup {runtime[u] : u \in {u \in Sessions : runtime[u] # None}}
            /\ service' = "down"
            /\ UNCHANGED world
      /\ UNCHANGED <<vars, configuration, disk, netjob, netlock, runs, acked, unsaved>>

close_done ==
  /\ service \in {"closed", "closing"} /\ netlock = None
  /\ \A s \in Sessions : runtime[s] = None
  /\ service' = "down"
  /\ UNCHANGED <<vars, configuration, disk, runtime, world, netjob, netlock, runs, faults,
                 lost, acked, unsaved>>

\* The daemon dies, or has closed, and a new one starts: brokers and their
\* connections end with the process, helpers and socket files stay.  Runs that
\* were left are ended by the service's own recovery (see ProcessRun).  What
\* was confirmed from memory alone is lost.
Reboot ==
  /\ IF service = "down" THEN UNCHANGED faults ELSE Fault
  /\ Restart
  /\ configuration' = disk
  /\ runtime' = [s \in Sessions |-> None]
  /\ broker' = [a \in Attempts |-> IF broker[a] = "open" THEN "closed" ELSE broker[a]]
  /\ lost' = lost \cup {a \in Attempts : helper[a] = "up"}
  /\ netjob' = [h \in Handlers |-> NoNetJob]
  /\ netlock' = None
  /\ runs' = [t \in Tokens |-> None]
  /\ service' = "open"
  /\ acked' = [s \in Sessions |-> IF s \in unsaved THEN None ELSE acked[s]]
  /\ unsaved' = {}
  /\ UNCHANGED <<disk, helper, path>>

NetNext ==
  \/ \E h \in Handlers :
       \/ \E s \in Sessions, t \in Tokens : process_start(h, s, t)
       \/ prepare(h)
       \/ prepare_refused(h)
       \/ \E a \in Attempts : start_broker(h, a)
       \/ popen(h)
       \/ popen_fails(h)
       \/ helper_ready(h)
       \/ helper_not_ready(h)
       \/ \E s \in Sessions, mode \in Modes : configure_begin(h, s, mode)
       \/ configure_stop(h)
       \/ configure_save(h)
  \/ \E t \in Tokens : run_ends(t)
  \/ \E a \in Attempts : helper_exits(a)
  \/ service_close
  \/ \E s \in Sessions : close_step(s)
  \/ close_done
  \/ Reboot

NetSpec == NetInit /\ [][NetNext]_netallvars

-----------------------------------------------------------------------------
(* Properties *)

\* From prepare() to the end of the run, the Session's configured mode and
\* the namespace that serves the Session are the ones the run was started
\* with, whatever else is requested meanwhile: the lease keeps configure
\* out.  Closing the manager at shutdown is the one exception.
RunKeepsItsNetwork ==
  \A t \in Tokens : runs[t] # None /\ service \in {"open", "closed"} =>
    /\ runs[t].mode = configuration[leases[t]]
    /\ runs[t].attempt = runtime[leases[t]] \/ runs[t].mode = "inherit"

\* Between operations every running helper and every listening broker belongs
\* to the Session that runtime records, so that a later switch of the mode or
\* the shutdown ends it; only a failure takes one from the manager.
NothingStray ==
  \A a \in Attempts :
    \/ helper[a] # "up" /\ broker[a] # "open"
    \/ a \in lost
    \/ \E s \in Sessions : runtime[s] = a
    \/ \E h \in Handlers : netjob[h].attempt = a

\* A Session served in proxy mode is reached through its socket path: the
\* broker bound there is its own and listens, however many namespaces came
\* and went at that path before.
SocketReachesItsBroker ==
  \A s \in Sessions : runtime[s] # None /\ broker[runtime[s]] # "none" =>
    path[s] = runtime[s] /\ broker[runtime[s]] = "open"

\* A mode that configure confirmed is the one in force, and the one a
\* restarted daemon reads, also after other Sessions' modes were written and
\* after failures of theirs.  The one exception is a Session whose own write
\* failed and whose daemon has written nothing since: a retry is confirmed
\* from memory, and a restart would lose it.
ConfirmedModeIsDurable ==
  \A s \in Sessions : acked[s] # None =>
    /\ configuration[s] = acked[s]
    /\ disk[s] = acked[s] \/ s \in unsaved

-----------------------------------------------------------------------------
(* The inductive invariant behind the properties above *)

Starting == {"prepare", "broker", "popen", "ready"}
Locking == {"broker", "popen", "ready", "save"}

\* A job that starts a run has the lease of its Session, which no run uses
\* yet; a job that configures has the Session's fence; the manager's lock
\* is held from the first effect to the last.
JobsAreEntitled ==
  \A h \in Handlers :
    /\ netjob[h].pc \in Locking <=> netlock = h
    /\ netjob[h].pc # "idle" => netjob[h].key \in Sessions
    /\ netjob[h].pc \in Starting =>
         /\ netjob[h].token \in Tokens
         /\ leases[netjob[h].token] = netjob[h].key
         /\ runs[netjob[h].token] = None
    /\ netjob[h].pc \in {"stop", "save"} =>
         Inside(h, "mutation", netjob[h].key) /\ netjob[h].mode \in Modes

\* A namespace under construction is for a Session that has none, is known
\* to nobody else, and has its broker at the Session's path in proxy mode.
JobsBuild ==
  \A h \in Handlers :
    /\ netjob[h].pc \in {"broker", "popen", "ready"} =>
         netjob[h].mode = configuration[netjob[h].key] /\ runtime[netjob[h].key] = None
    /\ netjob[h].pc \in {"popen", "ready"} =>
         LET a == netjob[h].attempt
         IN  /\ a \in Attempts
             /\ \A s \in Sessions : runtime[s] # a
             /\ broker[a] # "none" => broker[a] = "open" /\ path[netjob[h].key] = a
             /\ netjob[h].pc = "ready" => helper[a] # "none"
    /\ netjob[h].pc \notin {"popen", "ready"} => netjob[h].attempt = None

TokensDiffer ==
  \A h, g \in Handlers :
    /\ h # g
    /\ {netjob[h].pc, netjob[g].pc} \subseteq Starting
    => netjob[h].token # netjob[g].token

RunsAreLeased == \A t \in Tokens : runs[t] # None => leases[t] \in Sessions

\* No two Sessions share a namespace, and each one was started.
RuntimesDiffer ==
  \A s \in Sessions : runtime[s] # None =>
    /\ helper[runtime[s]] # "none"
    /\ \A u \in Sessions : runtime[u] = runtime[s] => u = s

\* What was confirmed is in the dict that the next save writes, and the dict
\* is in the file but for the writes that failed.
ModesAgree ==
  \A s \in Sessions :
    /\ acked[s] # None => configuration[s] = acked[s]
    /\ s \notin unsaved => disk[s] = configuration[s]

NetInv ==
  /\ NetTypeOK
  /\ JobsAreEntitled
  /\ JobsBuild
  /\ TokensDiffer
  /\ RunsAreLeased
  /\ RuntimesDiffer
  /\ RunKeepsItsNetwork
  /\ NothingStray
  /\ SocketReachesItsBroker
  /\ ModesAgree

NetIInv == IInv /\ NetInv
=============================================================================
