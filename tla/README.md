# A TLA+ development of Allox OS

Allox OS runs AI agents in *Sessions*: a Session is a Btrfs subvolume the agent works in, a tree of
read-only checkpoints of it, a cgroup for the processes the agent starts, and a daemon
(`src/src/allox/workspace/daemon.py`) that serves all operations over a Unix socket. Plugins add
observation: agent traces, a process tree, network isolation, sharing between Sessions, and a
privileged *Observer* that proves what a rollback undid.

This directory holds TLA+ modules of the parts that keep state, TLC configurations that check them on
small instances, and proofs that hold for every instance. `PROJECT.json` maps every definition to the
lines it models and lists the hazards each property is for. Paths below are relative to the repository
root, without the leading `src/` that `PROJECT.json` puts before them; `store.py`, `daemon.py`,
`lifecycle.py` and `checkpoint_index.py` are in `src/allox/workspace/`, `service.py` and `cgroup.py` in
`src/allox/runtime/process_tracking/`, and `plugin.py`, `runner.py` and `recovery_runner.py` in
`plugins/system-effects/src/allox_system_effects/`; `networking.py`, `sharing.py`, and the `sdk.py`,
`store.py` and `endpoint.py` of the agent monitor are in the `src/` directory of their plugin.

## 1. Inventory

| Component | State | Operations | Hard behaviour | What makes it correct |
|---|---|---|---|---|
| Execution registry (`daemon.py` 24-168) | in-memory tables: leases, recovery leases, `_mutating`, background executions, reset tokens, reader counts | acquire, release, register_background, begin/complete_runtime_reset, reset_mutation, mutation, share_access | handler threads inside context managers beside each other; a restart that empties the tables | a mutated Session is used by nobody else; a fence has one owner; a recovery is alone |
| Checkpoint index (`checkpoint_index.py`) | the DAG: parent and child links, head, the working-copy mark, pins | add, reconcile, resolve, move_head, remove | long sequences of removals and head moves | the lineage stays a forest with agreeing links |
| Workspace store (`store.py`) | `current/`, `.restore-*`, `.discard-*`, checkpoint subvolumes, index file, transaction file, cleanup receipts | create_session, create/delete_checkpoint, rollback, deferred rollback and its completion, describe, status, startup recovery | a crash between any two durable steps, in recovery too; failing Btrfs calls; readers without the lock | a rollback is atomic; no tree is lost; acknowledged checkpoints stay; the daemon boots |
| Turn lifecycle (`lifecycle.py`) | turn counter, seen turn ids, the "skip next" mark | on_session_start, on_user_message, on_turn_end, rollback, set_enabled | hooks of concurrent callbacks; repeated events; the rollback RPC outside the lock | one checkpoint per turn; a rolled-back turn is not saved |
| Background exporter (`plugins/agent-monitor/.../background.py`) | queue, counters, worker, force target | submit, worker loop, flush, close | worker against barrier threads; partial failures; timeouts | accounting; no gap; flush is a barrier; nobody waits for ever |
| Process tracking (`service.py`, `cgroup.py`) | runs, durable rows, leases, timers, the cgroup | start, watch, timeout, stop, launch fence, failure callbacks, restart | five threads per run; every step can fail; descendants outlive the root; restart | live processes are leased; receipts are true; fences persist; runs end |
| System-effects plugin (`plugin.py`, `runner.py`, `recovery_runner.py`) | the run slot and host lock, phase, message queue, evidence, receipt | start_execution, agent_started, finish, close_unverified, the reader thread | an Observer that dies, stalls or talks out of turn; shutdown beside finish | the lock covers the run and comes back; only complete evidence is receipted |
| Daemon RPC (`daemon.py`) | none of its own | dispatch | fences chosen by operation and arguments | modelled inside the components it calls |
| Feature manager (`src/allox/runtime/extensions.py`) | the list of plugins, the handles of an execution | activation, prepare, start, agent_started, finish, close_unverified, observers of start and end, close | any hook of any plugin may raise; shutdown beside a watcher | nothing that was opened stays open; a successful run was seen whole by its plugins |
| Agent monitor (`sdk.py`, `transport.py`, `endpoint.py`, `plugin.py`, `store.py`) | counters and buffer of a Tracer, the table of runs, SQLite rows, accepted-event counter | emit, flush, spans, request handling, ingest, ingest_batch, the hooks of a run | lost replies; a request overtaken by the end of its run; a batch refused in the middle | complete means stored; a span belongs to the run that sent it; the counter is what was committed |
| Process-tree backend | eBPF events | collector subprocess | event loss | only its failure reaches the core |
| Session network (`networking.py`) | the configured modes in memory and in `sessions.json`, the runtime table, helper processes, brokers, socket paths | configure, prepare, stop, close | helpers that die or never answer; failing writes; configure beside a start; crash | a run keeps its network; the path reaches the right broker; nothing is left without an owner; a confirmed mode is durable |
| Session share (`sharing.py`) | the sharing policy of each Session, the share lock, temporary files | enable, disable, list, read, write | an access beside a rollback, a reset, a checkpoint or disable; a failing audit; crash | an access is granted and sees one tree throughout; a write is announced and leaves no temporary file |
| Sandbox, gate, bootstrap | none | argument vectors | none | straight-line code around the kernel, not modelled |

How they interact: the daemon's dispatch takes a fence or lease in the **registry**, then calls the
**store**. A tracked command takes a lease, registers a **process run**, which starts the **features**
(one of them the **system-effects** handle); its watcher waits for the cgroup to be empty, finishes the
features, saves the final row and releases the lease, or keeps it as a fence if anything failed. The
Observer's helper runs a *deferred rollback* of the store, whose old tree the plugin deletes through
`complete_deferred_rollback` once the evidence is verified. The **turn lifecycle** is a client of the
daemon; the **exporter** lives in the agent's process, and the **monitor** collects from it and from
the processes of each run. **Session share** and **session network** are plugins that take the fences
of the registry themselves: a shared access is a reader of it, a change of the network mode a mutation.

## 2. Modules

Every module has one variable (or field) per piece of state named in its header, one action per
operation or per atomic step of it, and keeps the names of the source. Definitions called `Bug_...`
stand beside the definition they vary; they show that a property depends on the code it is about and
are used by no specification.

* **ExecutionRegistry** - one action per method; a context manager is an `_enter` and an `_exit` action
  with the handler thread in `op` between them. `Restart` empties the tables. Tokens are taken fresh.
* **CheckpointIndex** - the DAG as a value and the five operations as functions on it. Time stamps,
  messages and metadata are left out; requested names are resolved through `Matches`, the set of ids a
  name is a prefix of, so exact and unique-prefix lookup are both exercised.
* **WorkspaceStore** (extends CheckpointIndex) - one Session. A mutator is a `job` holding the Session
  lock; it makes one step per *durable* effect: a subvolume command, a rename, an atomic JSON write.
  `crash` may come between any two of them, and again during recovery. `raise` lets a Btrfs call, a
  rename or a write fail; `kill_helper` ends the recovery helper. The unlocked readers load, reconcile
  and write back in three steps. What a tree was made from is a history field (`base`).
* **TurnLifecycle** - one step per region of the lifecycle's lock, the RPC between them; the daemon's
  reply may be an error even though the request took effect.
* **BackgroundExporter** - one step per region of the condition variable; the collector stores a batch
  whole or not at all, and its answer to a stored batch may still be lost. Bytes are counted through
  event sizes.
* **ProcessRun** - runs of one Session: the starting thread, the watcher, the timer, stop requests, the
  failure callbacks, the launch fence and the restart that reads the durable rows. The cgroup is the
  set of runs that have live processes. A save that raises may have renamed its file before (the fsync of
  the directory comes after it), so the row on disk is the old or the new one; the first save of a run
  comes after the run was put into `_runs`, and may fail too. Of the registry there is the lease, the fence
  of `mutation()`, and a reset: `begin_reset` and `complete_reset` are requests of their own, and a rollback
  inside `reset_mutation` (`"reset"`, or `"reset drained"` with the launch lock) holds nothing of the
  registry. The history variable `unsaved` names the runs that were in order (no process left, tracker and
  features finalised) when the save of their final row raised.
* **ObserverRun** - one handle of the system-effects plugin in protocol v2 or v3, with the threads that
  touch it: the execution's thread, the reader of the Observer's stdout and the daemon's shutdown.
  Schema and digest checks are one choice: accepted, or refused. Rival executions are seen through the
  slot and the host lock.
* **SessionShare** (extends ExecutionRegistry) - the registry composed with its users: `dispatch` of the
  share service in the order in which it takes the share lock, the registry's hold and the Session lock,
  one step per file operation; the daemon's checkpoints, rollbacks and resets with the two renames of a
  rollback as two steps; and every other registry operation. `tree` numbers the incarnations of
  `current/`. Listing takes the steps of reading.
* **SessionNetwork** (extends ExecutionRegistry) - the network manager with one step per effect outside
  the process: the broker's socket, the helper, its ready line, the file of modes. Each start of a
  namespace is a member of `Attempts`. `lost` are the helpers and brokers a failure took from the manager,
  `unsaved` the Sessions whose new mode is in memory only because its write failed. A `configure` that finds
  the mode in place confirms it without a write, and counts as a confirmation (`acked`). Failures of a start
  before its broker is bound change nothing and are not separate steps.
* **AgentMonitor** - Tracers of the orchestrator and of the processes of each run, handlers of the
  endpoint with one step per check, the store with one step per SQLite transaction, and the plugin's
  hooks. A Tracer gives up on an answer at any moment. `Valid` is the store's acceptance of an event.
* **FeatureManager** - the plugins as a sequence of lifecycle ABIs, one run and its watcher. Each hook may
  raise; a loop over plugins that only stops at an error is one step with the place of the error chosen.
* **DurableStream**, **AtomicSession** - abstract specifications. The first is what the exporter promises:
  events become durable in order, a barrier confirms only durable ones, an error ends the stream. The
  second is what the store promises of a Session: a workspace, its checkpoints, and a rollback that
  replaces the workspace in one step. `BackgroundExporter!ImplementsStream` and
  `WorkspaceStore!ImplementsSession` state that the detailed modules implement them. In the mapping of
  the store the workspace is `current/`, or, while the two renames are under way, the tree that will be
  or was there; a rollback is pending as long as its transaction record is (`View`).
* **SessionServicesProofs** (the registry and the two plugins that are composed with it),
  **BackgroundExporterProofs**, **TurnLifecycleProofs**, **ProcessRunProofs**, **WorkspaceStoreProofs**,
  **FeatureManagerProofs**, **ObserverRunProofs**, **AgentMonitorProofs** - the theorems of section 5, each
  with the lemmas it needs. The inductive invariants they use are defined at the end of the component's
  module.
* **MC_\*** - model values, symmetry and `MCMatches` for TLC.

## 3. Runs

| Run | Instance | What it shows |
|---|---|---|
| `share` | 2 Sessions, 2 handlers, 1 token, 1 execution, 1 write, 1 swap, 1 crash; symmetric | In every interleaving a fence has exactly one owner, so the unconditional `_mutating.discard` of either exit path lifts nobody else's fence; a fenced Session has no lease, no reader and, under `mutation()`, no background execution. An access to a shared file keeps its grant from open to end (the share lock) and sees one incarnation of `current/` (the Session lock: the registry alone does not exclude a reset that was completed early). A write is announced in the target's log before it is visible, and no checkpoint holds its temporary file. |
| `network` | 2 Sessions, 2 handlers, 2 tokens, 2 namespaces, 2 faults; symmetric | The lease keeps `network.configure` away from a Session with a run, so a run keeps mode and namespace; a new broker at the path of a dead one is reached and not removed by it; helpers and brokers always have an owner, but for the failures of section 6; a confirmed mode is the one in force and is on disk, also when writes for other Sessions failed; the one exception is a mode that a retry confirmed without a write after its own write had failed, until the next write. |
| `store_crash` | 2 checkpoints, 2 contents, 1 recovery id, 2 faults | Crashes anywhere, recovery included: the store implements `AtomicSession`, so a rollback lands wholly or not at all and nothing is saved or deleted while it is pending; the daemon serves again; the receipt decides over the old tree; after one fault head and workspace agree; no acknowledged checkpoint or pin leaves the index. |
| `store_failures` | 1 content, failing calls, advisory recoveries, 1 unlocked reader, 2 faults, of which an unlocked read takes both; symmetric | A workspace never vanishes, also when the undo of a failed swap fails; without a transaction no temporary tree exists; the write-back of a stale index keeps the lineage a forest, so ancestor lookup terminates. |
| `store_reader_race` | 1 reader, no crash; **violation** | The same write-back drops an acknowledged checkpoint or its pin from the index (`store.py` 725). |
| `turn` | 2 turn ids, 2 callers, 2 turns, 2 rollbacks | One checkpoint per turn; a rollback costs at most one checkpoint; a turn that ends after `rollback()` returned is not saved. |
| `exporter` | 4 events of 2 sizes, capacity 3, batch 2, 2 threads | Accounting, bounds in events and bytes, the refinement of `DurableStream` (no gap, the flush barrier, the drain of close), and that a thread at the barrier comes out. |
| `process_run` | 2 runs, failures of every step and save, 1 restart; symmetric | Live processes are leased by their own run; no kill under the launch lock hits another run; no mutation under a live process and no process under an open reset, but for the rollback of a reset that was completed too early; a receipt is true; a fence survives a restart unless the run was in order and only its last save failed. |
| `process_ends` | 2 runs, failures | Every started run ends. |
| `observer` | queues of 4 (v2) and 5 (v3), 2 faults | The host lock covers the run and is returned whatever the Observer does; nobody frees another's slot; a receipt and the deletion of the old tree need complete evidence; an early death is reported. |
| `monitor` | 2 successive runs, 2 spans, 2 requests in handlers, batches of 2 (1 for the orchestrator), 3 rows, 1 crash; symmetric | A Tracer that reports itself complete, and so may export a reference or make a checkpoint, has all its events in the store, with lost and late replies; a request that is in a handler when its run ends is refused and not stored under the next run; the accepted counter is the number of committed events. |
| `features` | 4 plugins (ABIs 1, 2, none, 2), 2 faults | Wherever callbacks raise, no handle of a finished run stays open and every plugin that was made is closed, once and last first; a run that reports success had all its handles finished and its plugins told. |

**Bounds.** Two checkpoints give a parent, a child, a removal of the inner one and an id that is a prefix
of another. Two contents tell a restored tree from the one it replaced. Two faults are what it takes to
crash a recovery; a third only repeats it. Two Sessions suffice for the registry because no method reads
two keys, and are a reader and its target for the share service; two handlers are an access and the
mutation that races it. Two namespaces are one that died and its successor at the same path. Two
successive runs, with two requests in handlers, are what it takes to store one run's span under the
other. Four plugins have one without a lifecycle between two of the same ABI. Two runs of a Session
are a run and its successor, which is what a late kill may hit. An event queue of three with batches of
two has a full batch, a rest and a refusal. The Observer's queue is 4 for v2, as in the code, and 5
for v3 instead of 8: the longest burst of a well-behaved Observer (three v3 answers) and the marks of two
closes just fit, so that two faults can fill it.
Two faults of the Observer let one be masked by another. `CHECK_DEADLOCK FALSE` stands where the system
may stop: a bounded number of runs, turns, events or faults is used up.

## 4. Fairness

* Store (`FairSpec`): whoever holds the Session lock takes its next step, and a booting daemon runs its
  recovery; both are one thread's straight-line code. Requests are never assumed to come.
* Exporter: the worker thread runs when a batch is due, and a notified thread wakes up. Nothing is
  assumed of the interval and the timeouts: `BarrierEnds` holds even if they never run out.
* Process tracking: starting threads, watchers and the timer run on (a timer always exists: the timeout
  is in (0, 86400] with a default of 300); a thread that waits for the launch lock gets it if it is free
  again and again (strong fairness of `Terminate`). A kill through `cgroup.kill` is assumed to succeed.
* Observer: the run's thread, the shutdown and the reader run on, because each of their waits has a
  deadline, which the model lets pass at any moment. Nothing is assumed of the Observer, the verifier or
  the tracked process, except that a killed child is gone within the 2 x 5 s of
  `_terminate_process_group`.

The share, network, monitor and feature runs are safety only: what they do ends with a request, a reply
or a timeout of a client, for which the code states no progress.

Crashes are crashes of the daemon process. What a rename or an atomic JSON write did is durable; power
loss below the file system is not modelled.

## 5. Proofs

The theorems hold for every value of the constants: any number of Sessions, runs, threads, plugins,
checkpoints and faults. In each `...Proofs` module one theorem states the inductive invariant; the
properties follow from it. The induction has a lemma per group of actions, in it a step per action and
under that a step per conjunct the action can disturb.

**Registry** (`RegistryInvariant`; from it `TypeCorrect`, `FenceOwnership`, `MutationExclusion`,
`ExecutionExclusion`). Exclusion is not inductive by itself. `mutation` exits by discarding the key
whoever owns it, so the invariant says who the owner is (`FenceHasOneOwner`); an acquired token must be
new to all tables (`TokensAreKnown`); and a mutation enters on a reader count of zero, so the count must
be the number of handlers inside a read (`ReadersAreCounted`), which needs the cardinality lemmas.

**Exporter** (`ExporterInvariant`; `AccountingHolds`, `StreamHasNoGap`, `BarrierIsDurable`). The
strengthening says which events are where: the batch and then the queue hold the accepted events after
the acknowledged ones, in order (`InOrder`); what the sink stored is a prefix whose end depends on where
the worker stands (`Stored`); and what each thread at the barrier waits for (`Barriers`). Without it "no
failures, so all before the target is stored" does not follow from the counters.

`QueueStaysBounded` is about bytes, and so about a sum over a sequence. `Bytes` is a recursive function
on `0..Len(events)`. That it exists, that it is determined by its equations and that it distributes over
concatenation (`TotalsExist`, `TotalsAreUnique`, `BytesOfParts`) is proved by induction in the form of a
least counterexample (`LeastElement`, from the well-foundedness of `<`). Then `pending_bytes` is the size of
what is queued and in flight after each step, and `submit` refuses what would pass `queue_bytes`.

`ExporterIsAStream` proves that the exporter implements `DurableStream`. Initial states map to initial
states; with the invariant in both states each step maps to a step of the stream or changes nothing it
sees (`StepMaps`). Two steps need the invariant: a commit of the sink extends the stored events to a longer
prefix because the batch is the next segment (`InOrder`), and a return of flush or close confirms only
stored events because without failures acknowledged means stored (`Stored`, `Barriers`; lemma
`BarrierMaps`).

**Turn lifecycle** (`TurnInvariant`; `TurnIsSavedOnce`, `RollbackSkipsOnce`, `RollbackIsHonoured`). A hook
decides under the lock and sends its request after it, so a turn that is decided but not yet saved must
be one nobody saved (`HooksRemember`), and a rollback that returned must have left its mark before any
hook could decide to save (`MarkIsKept`). Skips taken and the mark together never exceed the rollbacks that
succeeded. `RollbackIsHonoured` is an action property: no step that saves a turn end is taken while a
returned rollback is still owed its skip.

**Session share** (`ShareInvariant`; `AccessStaysGranted`, `AccessAvoidsSwaps`, `WritesStayClean`,
`ShareKeepsFences`). The invariant adds to the registry's who holds the share lock and the Session locks
at each point of `dispatch` and of the store's handlers (`JobsHoldLocks`), so that two renames cannot
surround an access, and which temporary file each write has (`FilesAreTracked`). `ShareUsesRegistry`
proves that the composition implements `ExecutionRegistry!Spec`: each of its steps is a step of the
registry or leaves the registry alone, so all the registry's theorems hold in it.

**Session network** (`NetInvariant`; `RunsKeepTheirNetwork`, `StraysAreLost`, `SocketsReachTheirBroker`,
`ConfirmedModesAreDurable`; `NetUsesRegistry` as above). The argument is that `prepare` runs under a
lease and `configure` under a mutation, which the registry never grants together (`JobsAreEntitled`,
`RunsAreLeased`); that a namespace under construction is known to its maker only (`JobsBuild`), and the
entries of the runtime table are different ones (`RuntimesDiffer`); and that table and file agree on
each mode that was confirmed, since each write is of the whole table (`ModesAgree`). A retry that is
confirmed from memory is a confirmation too: the theorem says the mode is in force, and on disk unless the
Session's own write failed and nothing was written since (`unsaved`).

**Process runs** (`RunInvariant`; `ProcessesAreLeased`, `MutationIsQuiet`, `ReceiptsAreTrue`,
`KillsAreDirected`, `FenceIsKept`). `RunIsCovered(r)` says for each position of a run's thread and watcher
which lease and rows it has and whether it can have processes; a live process has a row that fences the
Session after a restart. A mutation or a reset begins without a lease, a drained one ends before its launch
lock is free, and who is about to kill under the launch lock (`LocksAreOwned`) finds only processes of its
own run (`SessionIsGuarded`); `MutationIsQuiet` therefore covers all mutations but the rollback of a reset
that was completed under it, which section 6 shows to be real. `FenceIsKept` is about every way a save
can fail: a run that ended fenced has the lease or, after a restart, an open row (`FenceIsRecorded`), unless
it was in order up to the save of its last row. A failing save before the rename leaves the earlier row, which
is open for a run that is not in order; one after it leaves the fenced row. Section 6 has what the exception
means.

**Workspace store.** `StoreInvariant` (`IndexIInv`): the index in memory, on disk and in each reader is
sound: parents and children agree, and each nonempty set of entries has a member whose parent lies outside
it, which rules out cycles; `add`, `remove`, `move_head` and `reconcile` keep it so. From it
`LineageStaysAForest`, with any number of unlocked readers that write a stale index back. `TreeInvariant`
(`TreeIInv`): which of `current/`, `.restore-*` and `.discard-*` exist at each step of a rollback, its undo,
its deferred completion and the recovery from each phase; from it `NothingIsLeftOver`, `ReceiptsDecide` and,
as an action property, `WorkspaceIsNeverLost`, for all failures and crashes. `AckedStaysRecorded` assumes
`Readers = {}` and `~Recreate`: with a reader it is false (`store_reader_race`), and a repeated
`session.create` starts a new index. `StoreImplementsSession` proves the refinement of `AtomicSession`,
crashes in recovery included, under `~Failures`, `~Recreate` and `~Advisory`, the settings of `store_crash`;
section 6 names what each of the three lets happen otherwise. It needs to know that nobody else works on the
Session while a transaction is open (`RollbackIsFenced`).

`OneFaultIsHarmless` proves `OneFaultHead`: with at most one crash or killed helper the saved head is the
checkpoint the workspace is from. The invariant (`OneFaultIsRepaired`) says what is on disk in each phase,
so wherever the fault comes (`DiskIsRepairable`: before the swap the old tree and its head, after it the
checkpoint's tree); that recovery then either has the checkpoint's tree and will move the head to it, or
the old tree with the head it had (`RecoveryRepairs`), and meets nothing but committed deferred rollbacks
before the first fault; and what the index that a checkpoint's creation or deletion will save has as head
(`HeadWithoutRollback`, which rests on the lemmas on `HeadFits`). It assumes `~Failures` and
`~Advisory`, without which it is false, and `~Recreate` and `Readers = {}`, which keep a second writer of the index
out of the argument. A second fault is out of its reach for a reason: section 6, crash inside recovery.

**Feature manager** (`FeatureInvariant`; `NothingStaysOpen`, `SuccessStaysWhole`), for any sequence of
plugins and lifecycle ABIs. The list holds the plugins made so far, in order, and `close` has got through
its end, backwards (`ListIsInOrder`); a run begins when all plugins are there (`RunHasPlugins`); its
handles are those of the lifecycle plugins called so far (`HandlesAreEntered`); and how far the plugins
were told of its start and end follows from where it stands (`PluginsAreTold`).

**Observer run** (`ObserverInvariant`; `ObserverTypes`, `LockCoversEveryRun`, `EvidenceRestsOnProof`,
`OthersAreLeftAlone`), for both protocols, queues of any bound from 3 (v2) or 5 (v3) on, and any number of
faults. Slot and host lock belong to the handle from the constructor until it is retired, and before its
own thread is done only the daemon's shutdown retires it (`HandleHoldsItsLocks`); that thread retires it
when the children are gone (`ChildrenAreGone`). From these two the lock covers the run, and the second of
two closers finds slot and lock no longer its own: the action property. The receipt needs more: `got` and
`cmds` are at the same place of the dialogue wherever an answer is awaited (`DialogueInStep`), and each
step of the end of `finish` rests on the ones before it, with nothing a shutdown can take back
(`StepsOfFinish`). `ReaderNotifiesOnce` is what bounds the calls of `on_failure`.

**Agent monitor** (`MonitorInvariant`; `MonitorTypes`, `TelemetryIsAttributed`, `CommittedIsCounted`,
`CompleteTracersAreStored`, `TracesOnlyGrow`). The store comes first: `Apply` is a recursive function over the
events of a batch, and `ApplyStep` shows, by a least counterexample as for the exporter's bytes, that a batch
that is not refused has the effect of every one of its events and of no other, makes rows of the run it is
bound to, and only adds to the table (`Grows`).

* Attribution. A live run is active (`RunsStartEmpty`), so if exactly one run is active while the sender lives,
  it is the sender's. At `admit` the sender is seen alive a second time; from there on the bound run is its own
  (`RequestsAreBound`), and the spans of a request were created by its sender (`EventsAreOwned`).
* Completeness. Every event a Tracer was given is acknowledged, failed, pending or in the request it waits for
  (`EventsAreCounted`): equal counters and an empty buffer leave nothing in flight. A Tracer without failures has
  each event stored or in its hands (`NothingIsLost`), and lets go of one only when it is confirmed, which is
  after it was stored (`ConfirmedIsStored`). That a run's Tracer starts without spans (`RunsStartEmpty`) and spans
  without owner have no row (`SpansOfNobody`) covers the beginnings.
* The counter. A single event is counted in a critical section after its transaction; the handlers between the
  two are a finite set (`RequestsAssumption`), which grows and shrinks by one (the cardinality lemmas).

**Assumptions on constants.** Each is named, in the module that declares the constant, and evaluated by
the runs: `None` and `Live` are not among the names they are told from (`NoneAssumption`,
`NamesAssumption`, `NetNamesAssumption`, `LiveAssumption`, `MarkersAssumption`, `NothingAssumption`),
bounds are natural numbers, handlers and callers are finitely many, `Abi` is a sequence of 0, 1 and 2, an
id is a prefix of itself (`MatchesAssumption`), the exporter has room for one event (`LimitsAssumption`),
the Observer's queues hold 3 messages in v2 and 5 in v3 (`QueueHoldsABurst`; the code has 4 and 8), and a
Tracer's batch is of 1 to 64 events (`BatchAssumption`).

**Only model-checked.** Liveness (`BarrierEnds`, `BootsUp`, the ends of runs, the return of the host
lock), which needs fairness and `ENABLED`, out of the prover's reach: the instances of section 3 are what
is known of these. Every invariant and every action property that a passing run checks is also stated by a
theorem.

## 6. What the code does otherwise

The run `store_reader_race` ends in a violation, quoted in `PROJECT.json` with the text it contradicts.
Three more configurations are kept for the sequences they show. The other deviations show when a constant
or the checked property is changed as stated:

* **Crash inside recovery** (`MC_StoreRecoveryCrash.cfg`). Recovery in phase `prepared` renames the restored
  tree to `current/` and decides to commit in memory only (`store.py` 460); after a second crash the next
  recovery finds `current/` in phase `prepared`, decides to abort and deletes the discarded tree, the only
  copy of the old workspace (`AbortKeepsOldTree`). `docs/architecture/workspaces.md` 60 has recovery
  complete or abort the swap.
* **Late feature failure** (`MC_ProcessLateFailure.cfg`). The watcher computes `session_fenced` from its local
  results and overwrites the fence that `_feature_failed` set after finalisation (`service.py` 902;
  `FeatureFailureFences`). The docstring at 1020 and `docs/development/plugin-architecture.md` 47 have it
  fence the Session.
* **Reset without a fence of its own** (`MC_ProcessReset.cfg`). `reset_mutation` (`daemon.py` 114-120)
  holds nothing while it yields; `complete_runtime_reset` drops the fence under the handler, and a run acquires the
  lease and starts its process beside the rollback (`NoRollbackBesideARun`). The docstring at `daemon.py` 25 and
  `docs/development/process-tracking.md` 117-118 say otherwise. A rollback that drains the Session is safe, by
  its launch lock, and so is a shared access, by the Session lock. The same at the level of the registry is
  `NoCommandDuringMutation`; it takes two tokens, one for the reset and one for the lease, and so more than
  the instance of `share` has.

* **create_session in an interrupted rollback.** With `Recreate = TRUE` `ImplementsSession` fails:
  `store.py` 636 looks at `current/` only and makes an empty one between the two renames.
* **Undo, then crash.** With `Failures = TRUE` and two faults `CommitMeansInstalled` fails: the undo of a
  failed install puts the old tree back but the phase on disk stays `old_moved` (`store.py` 845-852), and
  recovery commits with the old tree.
* **A step that fails after the swap.** With `Failures = TRUE` and one fault `HeadMatchesWorkspace`
  fails: the Session is served on with the transaction open (`store.py` 873), and a later recovery moves
  the head off newer checkpoints; `docs/architecture/workspaces.md` 57-58.
* **Advisory recovery.** `store_crash` with `Advisory = TRUE`: `BootsUp` fails: the Session is released with its
  deferred rollback pending, a new checkpoint moves the head off the restored one, and the next boot raises
  (`store.py` 412-416, `recovery_runner.py` 939-949). `OneFaultHead` fails too: recovery moves the head to the
  restored checkpoint although the workspace was saved to a newer one.
* **Turn end between reply and mark.** `turn` with `RolledBackTurnIsNotSaved`: `rollback` sends its RPC
  outside the lock (`lifecycle.py` 236), a turn that ends before the mark is saved, and a later one is
  skipped; the docstring at `lifecycle.py` 224. A rollback while the lifecycle is disabled likewise
  leaves its mark for a later turn (187-207).
* **Kill by the failure callback.** `process_run` with `CallbackHitsOwnRun`: `_feature_failed` kills after
  it left the lock (`service.py` 1044-1051), possibly the next run of the Session.
* **Final save.** The last save of a run that was in order raises: the first said completed (`service.py` 909,
  932), or the run failed before its process was spawned, with or without a first row (492, 700). The Session
  is fenced in memory; the row on disk may be one that fences nothing, or none, and a restart lifts the fence.
  `process_run` with `FencePersists` for all runs, `unsaved` ones too, shows it. The removal of the cgroup
  may be among the steps that failed before that save; its processes are gone all the same.
* **Failed start.** A start that fails and cleans up leaves the Session unfenced (`service.py` 624, 680),
  where `docs/development/plugin-architecture.md` 47-48 has startup failures fence it.
* **Two Observers.** `observer` with `OneObserver`: while the daemon's shutdown waits for a terminating
  Observer, the run's own thread finds `_expected_shutdown` set and retires the handle at once
  (`runner.py` 1008, 1023); the host lock is free under a live Observer, and another daemon starts its
  own. `plugin.py` 139 says "overlapping global snapshots are forbidden". `finish` may also write its
  receipt after the lock is gone; for both reasons `LockCoversTheRun` exempts the shutdown.
* **A reader that cannot be started.** `Thread.start` stands after the Observer's `Popen` and outside the
  `try` blocks (`runner.py` 332-343, `recovery_runner.py` 322-333): if it raises, `plugin.py` 190-198 frees
  the host lock under a live Observer. `spawn_observer` and `spawn_fails` have no such outcome.
* **Late ends of stdout.** A v2 reader that sees the end after the phase moved on to `FINISHED` reports a
  failure that is none (`runner.py` 424). In v3 an unsolicited `FINISHED` sets `_terminal_seen`, and a later
  death is silent until `assert_healthy`; `DeathIsNoticed` excludes it.
* **Failure after the claim.** `finish` does not read `_failure_reason` again, so a failure published
  after the terminal message stops neither cleanup nor receipt.
* **Network: memory ahead of disk.** A write of `sessions.json` that fails leaves the new mode in memory
  (`networking.py` 216-223): `configure` raises, the daemon serves the new mode, a restart the old one, and a
  later `configure` of any Session writes it after all. A client that repeats the request is told that the
  mode is set, without a write (213-214), and a restart before the next write loses the mode it was
  confirmed.
* **Network: brokers and helpers without an owner** (`lost`). `Popen` stands outside the `try` block (304), so
  an `OSError` leaves the broker listening; so does a helper that SIGKILL does not end in time (327, 380);
  `close` stops at the first such entry (388); a crash of the daemon leaves the helper running. A
  namespace whose helper died is replaced and not kept, although live processes may still be in the old
  one.
* **Monitor.** Telemetry of a recovery run is refused: the endpoint takes `share_access`, which a
  recovery lease refuses. A failed start and a crash leave a process span running for ever.
* **Features after the wait.** A watcher that outlives the ten seconds of `close` (`service.py` 1210) finds the
  plugin list cleared, reports the end to nobody and still saves success; `SuccessIsWhole` exempts it.
* **Share: answers and effects.** If the last audit entry cannot be appended, a write that took effect is
  answered as failed and logged `denied_or_failed` (`sharing.py` 102-110). A crash leaves the temporary file in
  the target's workspace, and later checkpoints capture it (`stranded`). `enable` and `disable` hold the one
  share lock of the daemon, and an access holds it while it waits for a Session lock: a long checkpoint of
  one Session stops sharing in all.
* **Failed turns.** `README.md` 239-240 promises a checkpoint for every turn that ended successfully;
  the code makes one for failed turns too, with `success` recorded.

## 7. Not modelled, and why

* The orphan sweep of `_recover_session` (`store.py` 355-373): `NoLeftovers` shows it has nothing to find.
* The content of process traces, the queries and the report formats: no other state depends on them.
* Socket framing, authorisation and argument checks of the daemon.
* eBPF collector, sandbox argument vectors, network command lines: kernel interfaces.
* The proxy, the relay and the egress log of the session network, once a broker listens: byte streams
  between sockets that touch no state of the manager. `tool.py` of both plugins: command-line clients.
* Wrappers of `Span` in the SDK (call_tool, call_model, stream_model), clock, export, profile and resources:
  they emit the same events or only read the store. Two assumptions stand in their place: one thread per
  Tracer, and no reuse of a pid while a request of its process is pending.
* `config.py`, artifact schemas and `recover.py`'s command line of the system-effects plugin.

## 8. Plan

The order followed the damage a fault would do: registry, store, turn lifecycle, process runs, exporter,
Observer, then the plugins (share, network, monitor), the feature manager, the abstract
specifications of the exporter and the store, and the proofs of section 5. Next, in this order:

1. A composition of store and process run, with the launch fence and advisory recovery.
2. The egress tunnel: CONNECT, relay and close of a broker with connections open.
