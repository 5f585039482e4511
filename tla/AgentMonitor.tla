----------------------------- MODULE AgentMonitor -----------------------------
(***************************************************************************)
(* The agent-monitor plugin for one Session: the synchronous Tracer of the *)
(* SDK (sdk.py, transport.py), the Session's telemetry endpoint            *)
(* (endpoint.py), the hooks around a run (plugin.py) and the trace store   *)
(* (store.py).  Background delivery is BackgroundExporter.                 *)
(*                                                                         *)
(* Orchestrator is a trusted framework that reports through the RPC        *)
(* monitor.ingest; every run has a Tracer of its own inside the sandbox,   *)
(* which reports through the endpoint.  One endpoint serves all runs of    *)
(* the Session, one after the other, so a request may still be in a        *)
(* handler thread when its run is over and the next one is live.           *)
(*                                                                         *)
(* Assumed: a pid is not reused while a request of its old owner is        *)
(* pending; one thread per Tracer.  All spans belong to one trace.  The    *)
(* counters that only status() reports (rejected, transactions) are left   *)
(* out.                                                                    *)
(***************************************************************************)
EXTENDS Naturals, Sequences, FiniteSets

CONSTANTS
  Runs,          \* executions; a run also names its process span
  Spans,         \* SDK span ids (uuid4, never reused)
  Orchestrator,  \* the trusted framework's Tracer
  Requests,      \* handler threads
  None,
  BatchSize,     \* Tracer -> batch_size
  MaxSpans,      \* the store's limit for one trace
  MaxCrashes

Tracers == Runs \cup {Orchestrator}
Rows == Spans \cup Runs

\* A span's row in traces.sqlite3: who reported it, and for which run.
Sources == {"allox-executor", "framework-sdk", "session-sdk"}
Row == [status : {"running", "ended"}, source : Sources, run : Runs \cup {None}]

ASSUME NamesAssumption ==
  /\ Orchestrator \notin Runs /\ Runs \cap Spans = {}
  /\ None \notin Rows \cup {Orchestrator} \cup Requests \cup Row
ASSUME RequestsAssumption == IsFiniteSet(Requests)
ASSUME BatchAssumption == BatchSize \in [Tracers -> 1..64]
ASSUME LimitAssumption == MaxSpans \in Nat /\ MaxCrashes \in Nat

VARIABLES
  run,       \* run -> its position in the service, and what the plugin knows of it
  tracer,    \* Tracer -> pending events, the request it waits for, counters
  request,   \* handler thread -> its position and the request it serves
  row,       \* span -> its row in traces.sqlite3, or None
  accepted,  \* the store's counter of accepted events
  crashes,
  owner,     \* history: span -> the Tracer that created it, or None
  sent,      \* history: <<event, span>> handed to emit()
  committed  \* history: events committed since the daemon started

vars == <<run, tracer, request, row, accepted, crashes, owner, sent, committed>>
store == <<row, accepted, committed>>
history == <<owner, sent>>

Event == [event : {"start", "end"}, span : Rows, parent : Rows \cup {None}]
NewRun == [pc |-> "new", parent |-> None, recovery |-> FALSE, known |-> FALSE, running |-> FALSE]
NewTracer == [pending |-> <<>>, waits |-> None, attempted |-> 0, acknowledged |-> 0, failed |-> 0]
NoRequest == [pc |-> "free", from |-> None, events |-> <<>>, bound |-> None, ok |-> FALSE]

Run == [pc : {"new", "prepared", "started", "live", "empty", "over"}, parent : Rows \cup {None},
        recovery : BOOLEAN, known : BOOLEAN, running : BOOLEAN]
Tracer == [pending : Seq(Event), waits : Requests \cup {None}, attempted : Nat,
           acknowledged : Nat, failed : Nat]
Request == [pc : {"free", "accept", "bind", "admit", "compare", "ingest", "count", "reply"},
            from : Tracers \cup {None}, events : Seq(Event), bound : Runs \cup {None}, ok : BOOLEAN]

TypeOK ==
  /\ run \in [Runs -> Run]
  /\ tracer \in [Tracers -> Tracer]
  /\ request \in [Requests -> Request]
  /\ row \in [Rows -> Row \cup {None}]
  /\ accepted \in Nat /\ committed \in Nat /\ crashes \in 0..MaxCrashes
  /\ owner \in [Spans -> Tracers \cup {None}]
  /\ sent \subseteq {"start", "end"} \X Spans

Init ==
  /\ run = [r \in Runs |-> NewRun]
  /\ tracer = [t \in Tracers |-> NewTracer]
  /\ request = [q \in Requests |-> NoRequest]
  /\ row = [s \in Rows |-> None]
  /\ accepted = 0 /\ committed = 0
  /\ crashes = 0
  /\ owner = [s \in Spans |-> None]
  /\ sent = {}

-----------------------------------------------------------------------------
(* The trace store.  A transaction is one step: its lock is held throughout. *)

\* _validate_start: a parent is a span of the trace that is still running.
ValidStart(rows, e) ==
  e.parent # None => rows[e.parent] # None /\ rows[e.parent].status = "running"

\* _ingest: a start needs a new span below the limit, an end the running span
\* of the same source and, for the endpoint, of the same run.
Valid(rows, e, source, r) ==
  IF e.event = "start"
  THEN /\ rows[e.span] = None
       /\ Cardinality({s \in Rows : rows[s] # None}) < MaxSpans
       /\ ValidStart(rows, e)
  ELSE /\ rows[e.span] # None
       /\ rows[e.span].status = "running"
       /\ rows[e.span].source = source
       /\ source = "session-sdk" => rows[e.span].run = r

Write(rows, e, source, r) ==
  [rows EXCEPT ![e.span] =
     IF e.event = "start" THEN [status |-> "running", source |-> source, run |-> r]
                          ELSE [@ EXCEPT !.status = "ended"]]

\* One more event of a batch, unless one before it was refused.
ApplyOne(result, e, source, r) ==
  IF result.ok /\ Valid(result.rows, e, source, r)
  THEN [ok |-> TRUE, rows |-> Write(result.rows, e, source, r), n |-> result.n + 1]
  ELSE [result EXCEPT !.ok = FALSE]

\* The events of a batch, one after the other, until one is refused.
Apply(events, source, r) ==
  LET result[k \in 0..Len(events)] ==
        IF k = 0 THEN [ok |-> TRUE, rows |-> row, n |-> 0]
                 ELSE ApplyOne(result[k - 1], events[k], source, r)
  IN  result[Len(events)]

\* A refused event does not undo the ones before it.
Bug_KeepPartialBatch(events, source, r) ==
  LET result == Apply(events, source, r)
  IN  /\ row' = result.rows
      /\ committed' = committed + result.n
      /\ accepted' = IF result.ok THEN accepted + result.n ELSE accepted

\* ingest_batch: one transaction, rolled back with its counter.
ingest_batch(events, source, r) ==
  LET result == Apply(events, source, r)
  IN  IF result.ok
      THEN /\ row' = result.rows
           /\ accepted' = accepted + Len(events)
           /\ committed' = committed + Len(events)
      ELSE UNCHANGED store

\* ingest of a single event: `accepted` is counted in a later critical section.
ingest(e, source, r) ==
  IF Valid(row, e, source, r)
  THEN /\ row' = Write(row, e, source, r)
       /\ committed' = committed + 1
       /\ UNCHANGED accepted
  ELSE UNCHANGED store

-----------------------------------------------------------------------------
(* The Tracer: emit, flush, health, barrier *)

Alive(t) == t = Orchestrator \/ (t \in Runs /\ run[t].pc = "live")

\* health()['complete']
Bug_CompleteInFlight(t) ==
  /\ tracer[t].failed = 0
  /\ tracer[t].pending = <<>>

complete(t) ==
  /\ tracer[t].failed = 0
  /\ tracer[t].pending = <<>>
  /\ tracer[t].acknowledged = tracer[t].attempted

\* The span that emit_session, or the RPC, carries: it connects to a handler.
Send(t, q, events, counted) ==
  /\ request[q].pc = "free"
  /\ request' = [request EXCEPT ![q] =
       [NoRequest EXCEPT !.pc = IF t = Orchestrator THEN "ingest" ELSE "accept",
                         !.from = t, !.events = events]]
  /\ tracer' = [tracer EXCEPT ![t].pending = <<>>, ![t].waits = q, ![t].attempted = @ + counted]

\* An event is buffered, and the buffer sent when it is full; the thread then
\* waits inside emit().
emit(t, e) ==
  LET events == Append(tracer[t].pending, e)
  IN  /\ Alive(t) /\ tracer[t].waits = None
      /\ sent' = sent \cup {<<e.event, e.span>>}
      /\ IF Len(events) >= BatchSize[t]
         THEN \E q \in Requests : Send(t, q, events, 1)
         ELSE /\ tracer' = [tracer EXCEPT ![t].pending = events, ![t].attempted = @ + 1]
              /\ UNCHANGED request
      /\ UNCHANGED <<run, store, crashes>>

Open(t, s) ==
  /\ owner[s] = t
  /\ <<"end", s>> \notin sent

\* Span.__enter__: below an open span of this Tracer, below the parent of the
\* context it inherited (a run's process span), or below nothing.
enter_span(t, s, parent) ==
  /\ owner[s] = None
  /\ \/ parent = None
     \/ parent = t /\ t \in Runs
     \/ parent \in Spans /\ Open(t, parent)
  /\ owner' = [owner EXCEPT ![s] = t]
  /\ emit(t, [event |-> "start", span |-> s, parent |-> parent])

exit_span(t, s) ==
  /\ Open(t, s)
  /\ emit(t, [event |-> "end", span |-> s, parent |-> None])
  /\ UNCHANGED owner

\* An event that cannot be encoded, or is too large, is counted and dropped.
emit_unencodable(t, s) ==
  /\ Alive(t) /\ tracer[t].waits = None
  /\ owner[s] = None
  /\ owner' = [owner EXCEPT ![s] = t]
  /\ sent' = sent \cup {<<"start", s>>}
  /\ tracer' = [tracer EXCEPT ![t].attempted = @ + 1, ![t].failed = @ + 1]
  /\ UNCHANGED <<run, request, store, crashes>>

flush(t) ==
  /\ Alive(t) /\ tracer[t].waits = None
  /\ tracer[t].pending # <<>>
  /\ \E q \in Requests : Send(t, q, tracer[t].pending, 0)
  /\ UNCHANGED <<run, store, crashes, history>>

\* The five seconds of the socket pass; whatever the handler does later, the
\* events count as failed and are not sent again.
give_up(t) ==
  /\ tracer[t].waits # None
  /\ tracer' = [tracer EXCEPT ![t].waits = None,
                              ![t].failed = @ + Len(request[tracer[t].waits].events)]
  /\ UNCHANGED <<run, request, store, crashes, history>>

-----------------------------------------------------------------------------
(* Handler.handle and ingest_session *)

Goto(q, pc) == request' = [request EXCEPT ![q].pc = pc]
Refuse(q) == request' = [request EXCEPT ![q].pc = "reply", ![q].ok = FALSE]
unchangedByHandler == <<run, tracer, crashes, history>>

\* cgroups.owns for the peer: the sender's process is still in the Session.
Owns(q) == run[request[q].from].pc = "live"

check_peer(q) ==
  /\ request[q].pc = "accept"
  /\ IF Owns(q) THEN Goto(q, "bind") ELSE Refuse(q)
  /\ UNCHANGED <<unchangedByHandler, store>>

\* active_run_id: the one run that the hooks registered and whose row says
\* running.
Active == {r \in Runs : run[r].known /\ run[r].running}

bind_run(q) ==
  /\ request[q].pc = "bind"
  /\ \/ \E r \in Runs : /\ Active = {r}
                        /\ request' = [request EXCEPT ![q].pc = "admit", ![q].bound = r]
     \/ Cardinality(Active) # 1 /\ Refuse(q)
  /\ UNCHANGED <<unchangedByHandler, store>>

\* Trusts the first check of the peer.
Bug_AdmitUnchecked(q) ==
  /\ request[q].pc = "admit"
  /\ IF \E r \in Runs : run[r].recovery
     THEN Refuse(q)
     ELSE Goto(q, "compare")
  /\ UNCHANGED <<unchangedByHandler, store>>

\* share_access refuses during a recovery execution; then owns() once more.
admit(q) ==
  /\ request[q].pc = "admit"
  /\ IF Owns(q) /\ ~\E r \in Runs : run[r].recovery
     THEN Goto(q, "compare")
     ELSE Refuse(q)
  /\ UNCHANGED <<unchangedByHandler, store>>

compare_run(q) ==
  /\ request[q].pc = "compare"
  /\ IF Active = {request[q].bound} THEN Goto(q, "ingest") ELSE Refuse(q)
  /\ UNCHANGED <<unchangedByHandler, store>>

\* TraceStore.ingest: Orchestrator's events carry no run.
ingest_request(q) ==
  LET t == request[q].from
      events == request[q].events
      source == IF t = Orchestrator THEN "framework-sdk" ELSE "session-sdk"
      r == request[q].bound
  IN  /\ request[q].pc = "ingest"
      /\ IF BatchSize[t] = 1
         THEN /\ ingest(events[1], source, r)
              /\ IF Valid(row, events[1], source, r) THEN Goto(q, "count") ELSE Refuse(q)
         ELSE /\ ingest_batch(events, source, r)
              /\ request' = [request EXCEPT ![q].pc = "reply",
                                            ![q].ok = Apply(events, source, r).ok]
      /\ UNCHANGED unchangedByHandler

count_accepted(q) ==
  /\ request[q].pc = "count"
  /\ accepted' = accepted + 1
  /\ request' = [request EXCEPT ![q].pc = "reply", ![q].ok = TRUE]
  /\ UNCHANGED <<unchangedByHandler, row, committed>>

\* The answer reaches the Tracer only while it still waits for it.
reply(q) ==
  LET t == request[q].from
      n == Len(request[q].events)
  IN  /\ request[q].pc = "reply"
      /\ request' = [request EXCEPT ![q] = NoRequest]
      /\ IF tracer[t].waits # q THEN UNCHANGED tracer
         ELSE tracer' = [tracer EXCEPT ![t].waits = None,
                                       ![t].acknowledged = IF request[q].ok THEN @ + n ELSE @,
                                       ![t].failed = IF request[q].ok THEN @ ELSE @ + n]
      /\ UNCHANGED <<run, store, crashes, history>>

-----------------------------------------------------------------------------
(* The service's hooks around a run, one run at a time (see ProcessRun) *)

Idle == \A r \in Runs : run[r].pc \in {"new", "over"}

\* prepare_run_environment: a parent must be a running span of the Session,
\* whoever reported it.
prepare_run_environment(r, parent, recovery) ==
  /\ Idle /\ run[r].pc = "new"
  /\ parent # None => row[parent] # None /\ row[parent].status = "running"
  /\ run' = [run EXCEPT ![r].pc = "prepared", ![r].parent = parent, ![r].recovery = recovery]
  /\ UNCHANGED <<tracer, request, store, crashes, history>>

ProcessStart(r) == [event |-> "start", span |-> r, parent |-> run[r].parent]

\* The process span, then the entry in _runs, before the run's first
\* instruction; or the span is refused and the run fails.
execution_started(r) ==
  /\ run[r].pc = "prepared"
  /\ IF Valid(row, ProcessStart(r), "allox-executor", r)
     THEN /\ row' = Write(row, ProcessStart(r), "allox-executor", r)
          /\ accepted' = accepted + 1 /\ committed' = committed + 1
          /\ run' = [run EXCEPT ![r] =
               [@ EXCEPT !.pc = "started", !.parent = None, !.known = TRUE, !.running = TRUE]]
     ELSE /\ run' = [run EXCEPT ![r] = [NewRun EXCEPT !.pc = "over"]]
          /\ UNCHANGED store
  /\ UNCHANGED <<tracer, request, crashes, history>>

\* SIGCONT; or a later step of the start fails, and the entry in _runs and the
\* open process span are left behind.
continue_run(r) ==
  /\ run[r].pc = "started"
  /\ run' = [run EXCEPT ![r].pc = "live"]
  /\ UNCHANGED <<tracer, request, store, crashes, history>>

start_fails(r) ==
  /\ run[r].pc = "started"
  /\ run' = [run EXCEPT ![r] = [NewRun EXCEPT !.pc = "over", !.known = TRUE]]
  /\ UNCHANGED <<tracer, request, store, crashes, history>>

\* The last process is gone, with the Tracer inside it.
processes_exit(r) ==
  /\ run[r].pc = "live"
  /\ run' = [run EXCEPT ![r].pc = "empty"]
  /\ tracer' = [tracer EXCEPT ![r] = NewTracer]
  /\ UNCHANGED <<request, store, crashes, history>>

\* The end of the process span ...
execution_finished(r) ==
  /\ run[r].pc = "empty" /\ row[r].status = "running"
  /\ row' = [row EXCEPT ![r].status = "ended"]
  /\ accepted' = accepted + 1 /\ committed' = committed + 1
  /\ UNCHANGED <<run, tracer, request, crashes, history>>

\* ... then the entry in _runs is removed; the row of the service still says
\* running until its final save, and then the lease is released.
execution_forgotten(r) ==
  /\ run[r].pc = "empty" /\ row[r].status = "ended" /\ run[r].known
  /\ run' = [run EXCEPT ![r].known = FALSE]
  /\ UNCHANGED <<tracer, request, store, crashes, history>>

run_over(r) ==
  /\ run[r].pc = "empty" /\ ~run[r].known
  /\ run' = [run EXCEPT ![r] = [NewRun EXCEPT !.pc = "over"]]
  /\ UNCHANGED <<tracer, request, store, crashes, history>>

\* The daemon dies: handlers, counters and _runs go, the database stays.  The
\* runs it had are ended before the next daemon serves anything.
Crash ==
  /\ crashes < MaxCrashes
  /\ crashes' = crashes + 1
  /\ request' = [q \in Requests |-> NoRequest]
  /\ run' = [r \in Runs |-> IF run[r].pc = "new" THEN run[r] ELSE [NewRun EXCEPT !.pc = "over"]]
  /\ tracer' = [t \in Tracers |->
       IF t \in Runs THEN NewTracer
       ELSE IF tracer[t].waits = None THEN tracer[t]
       ELSE [tracer[t] EXCEPT !.waits = None,
                              !.failed = @ + Len(request[tracer[t].waits].events)]]
  /\ accepted' = 0 /\ committed' = 0
  /\ UNCHANGED <<row, history>>

Next ==
  \/ \E t \in Tracers, s \in Spans :
       \/ \E parent \in Rows \cup {None} : enter_span(t, s, parent)
       \/ exit_span(t, s)
       \/ emit_unencodable(t, s)
  \/ \E t \in Tracers : flush(t) \/ give_up(t)
  \/ \E q \in Requests :
       \/ check_peer(q) \/ bind_run(q) \/ admit(q) \/ compare_run(q)
       \/ ingest_request(q) \/ count_accepted(q) \/ reply(q)
  \/ \E r \in Runs :
       \/ \E parent \in Rows \cup {None}, recovery \in BOOLEAN :
            prepare_run_environment(r, parent, recovery)
       \/ execution_started(r) \/ continue_run(r) \/ start_fails(r) \/ processes_exit(r)
       \/ execution_finished(r) \/ execution_forgotten(r) \/ run_over(r)
  \/ Crash

Spec == Init /\ [][Next]_vars

-----------------------------------------------------------------------------
(* Properties *)

\* A Tracer that reports complete, and so passes barrier(), checkpoint() and
\* .context, has every event it was given in the store: none is pending, in
\* flight, refused, or lost with an answer that came too late or not at all.
CompleteMeansStored ==
  \A t \in Tracers : Alive(t) /\ complete(t) => \A s \in Spans : owner[s] = t =>
    /\ row[s] # None
    /\ <<"end", s>> \in sent => row[s].status = "ended"

\* Telemetry is attributed to the run whose process sent it, also when the
\* run ends and the next one starts while the request is in a handler.
StoredUnderOwnRun ==
  \A s \in Spans : row[s] # None /\ owner[s] \in Runs => row[s].run = owner[s]

\* "Count only events whose SQLite transaction committed": the store's counter
\* is the number of committed events, but for those about to be counted.
AcceptedIsCommitted ==
  accepted + Cardinality({q \in Requests : request[q].pc = "count"}) = committed

-----------------------------------------------------------------------------
(* What the properties above rest on.                                      *)

\* A started run is known to the plugin and running in the service, its process
\* span is stored before its first instruction, and before that its Tracer has
\* neither spans nor events.
RunsStartEmpty ==
  \A r \in Runs :
    /\ run[r].pc \in {"started", "live"} => run[r].known /\ run[r].running
    /\ run[r].pc \in {"started", "live", "empty"} => row[r] # None
    /\ run[r].pc \in {"new", "prepared", "started"} =>
         tracer[r] = NewTracer /\ \A s \in Spans : owner[s] # r

\* Events are of spans that their Tracer created.  A buffer is sent when it is
\* full, so the only events of a Tracer without batches travel one by one.
EventsOf(events, t) ==
  \A i \in 1..Len(events) : events[i].span \in Spans /\ owner[events[i].span] = t

EventsAreOwned ==
  /\ \A t \in Tracers : EventsOf(tracer[t].pending, t) /\ Len(tracer[t].pending) < BatchSize[t]
  /\ \A q \in Requests : request[q].pc # "free" =>
       /\ request[q].from \in Tracers
       /\ EventsOf(request[q].events, request[q].from)
       /\ Len(request[q].events) \in 1..BatchSize[request[q].from]

\* A request never comes from a run that is yet to start: its sender, if it is
\* still live, was live at every check.  So the run it is bound to is its own.
RequestsAreBound ==
  \A q \in Requests : request[q].pc # "free" /\ request[q].from \in Runs =>
    /\ run[request[q].from].pc \in {"live", "empty", "over"}
    /\ request[q].pc = "admit" /\ run[request[q].from].pc = "live" =>
         request[q].bound = request[q].from
    /\ request[q].pc \in {"compare", "ingest"} => request[q].bound = request[q].from

\* A Tracer waits for a request of its own, and every event it was given is
\* acknowledged, failed, pending or in the request it waits for.
InRequest(t) == IF tracer[t].waits = None THEN <<>> ELSE request[tracer[t].waits].events

EventsAreCounted ==
  \A t \in Tracers :
    /\ tracer[t].waits # None => /\ request[tracer[t].waits].pc # "free"
                                 /\ request[tracer[t].waits].from = t
    /\ tracer[t].attempted = tracer[t].acknowledged + tracer[t].failed
                             + Len(tracer[t].pending) + Len(InRequest(t))

\* The event has had its effect on the rows, for good.
Stored(rows, event, s) ==
  rows[s] # None /\ (event = "end" => rows[s].status = "ended")

\* What is about to be counted or confirmed is stored.
ConfirmedIsStored ==
  \A q \in Requests : request[q].pc = "count" \/ (request[q].pc = "reply" /\ request[q].ok) =>
    \A i \in 1..Len(request[q].events) :
      Stored(row, request[q].events[i].event, request[q].events[i].span)

\* A Tracer without failures has every event stored or still in its hands.
Holds(events, event, s) ==
  \E i \in 1..Len(events) : events[i].event = event /\ events[i].span = s
Kept(t, event, s) ==
  Stored(row, event, s) \/ Holds(tracer[t].pending, event, s) \/ Holds(InRequest(t), event, s)

NothingIsLost ==
  \A t \in Tracers : Alive(t) /\ tracer[t].failed = 0 => \A s \in Spans : owner[s] = t =>
    /\ Kept(t, "start", s)
    /\ <<"end", s>> \in sent => Kept(t, "end", s)

\* A span that nobody created is neither stored nor ended.
SpansOfNobody ==
  \A s \in Spans : owner[s] = None => row[s] = None /\ <<"end", s>> \notin sent

IInv == /\ TypeOK /\ RunsStartEmpty /\ EventsAreOwned /\ RequestsAreBound /\ EventsAreCounted
        /\ ConfirmedIsStored /\ NothingIsLost /\ SpansOfNobody
        /\ StoredUnderOwnRun /\ AcceptedIsCommitted
=============================================================================
