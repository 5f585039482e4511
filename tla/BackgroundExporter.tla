-------------------------- MODULE BackgroundExporter --------------------------
(***************************************************************************)
(* agent-monitor/background.py: the bounded queue between the threads that *)
(* record profiling events and the worker that sends them, in batches, to  *)
(* the durable collector.                                                  *)
(*                                                                         *)
(* Every `with self._condition` block is one action; a thread waiting on   *)
(* the condition is one whose guard does not hold.  The send happens       *)
(* outside the lock.  The collector stores a batch as a whole or refuses   *)
(* it, and its answer may be lost.  Events are numbered in the order in    *)
(* which they were accepted, for the specification only.                   *)
(***************************************************************************)
EXTENDS Naturals, Sequences, FiniteSets, SequencesExt

CONSTANTS
  Threads,     \* threads that call flush and close
  EventSizes,  \* encoded sizes of events
  Capacity, MaxBytes,      \* queue_capacity, queue_bytes
  BatchSize, BatchBytes,   \* batch_size, and the 64 KiB of one request
  MaxEvents    \* bound on attempted events

ASSUME LimitsAssumption ==
  /\ Capacity \in Nat \ {0} /\ BatchSize \in Nat \ {0} /\ MaxEvents \in Nat
  /\ MaxBytes \in Nat /\ BatchBytes \in Nat
  /\ EventSizes \subseteq 1..MaxBytes

VARIABLES
  queue, batch,   \* waiting events, and those in flight
  attempted, acknowledged, failed, pending_bytes,
  closing, error, force_target,
  worker,         \* "none", "idle", "sending", "answered" or "stopped"
  answer,         \* the outcome of the last send was a durable acknowledgement
  threads,        \* thread -> what it waits for
  accepted,       \* history: number of accepted events
  stored,         \* history: events in the collector
  confirmed,      \* history: events a successful flush confirmed
  drained         \* history: a close() returned normally

counts == <<attempted, acknowledged, failed>>
history == <<accepted, stored, confirmed, drained>>
vars == <<queue, batch, attempted, acknowledged, failed, pending_bytes, closing,
          error, force_target, worker, answer, threads, accepted, stored,
          confirmed, drained>>

Event == [n : 1..MaxEvents, size : EventSizes]

\* A thread in flush() or close(): the barrier it waits for, the number of
\* events accepted before the call, and whether it will join the worker.
Thread == [pc : {"out", "enter", "wait", "join"}, target : 0..MaxEvents,
           upto : 0..MaxEvents, close : BOOLEAN, ok : BOOLEAN]
Quiet == [pc |-> "out", target |-> 0, upto |-> 0, close |-> FALSE, ok |-> TRUE]

TypeOK ==
  /\ queue \in Seq(Event) /\ batch \in Seq(Event)
  /\ attempted \in 0..MaxEvents /\ acknowledged \in 0..MaxEvents /\ failed \in 0..MaxEvents
  /\ force_target \in 0..MaxEvents
  /\ accepted \in 0..MaxEvents /\ confirmed \in 0..MaxEvents
  /\ closing \in BOOLEAN /\ error \in BOOLEAN /\ answer \in BOOLEAN /\ drained \in BOOLEAN
  /\ worker \in {"none", "idle", "sending", "answered", "stopped"}
  /\ threads \in [Threads -> Thread]
  /\ stored \subseteq 1..MaxEvents

Init ==
  /\ queue = <<>> /\ batch = <<>>
  /\ attempted = 0 /\ acknowledged = 0 /\ failed = 0 /\ pending_bytes = 0
  /\ closing = FALSE /\ error = FALSE /\ force_target = 0
  /\ worker = "none" /\ answer = FALSE
  /\ threads = [t \in Threads |-> Quiet]
  /\ accepted = 0 /\ stored = {} /\ confirmed = 0 /\ drained = FALSE

\* The sum of the events' sizes.
Bytes(events) ==
  LET total[k \in 0..Len(events)] == IF k = 0 THEN 0 ELSE total[k - 1] + events[k].size
  IN  total[Len(events)]
Pending == attempted - (acknowledged + failed)
Full(size) == Pending >= Capacity \/ pending_bytes + size > MaxBytes

-----------------------------------------------------------------------------
(* submit *)

\* Faulty variant: the capacity is tested with the event not yet counted in.
Bug_SubmitOverCapacity(size) ==
  /\ attempted < MaxEvents
  /\ ~closing /\ ~error /\ Pending <= Capacity /\ pending_bytes + size <= MaxBytes
  /\ attempted' = attempted + 1
  /\ accepted' = accepted + 1
  /\ queue' = Append(queue, [n |-> accepted + 1, size |-> size])
  /\ pending_bytes' = pending_bytes + size
  /\ worker' = IF worker = "none" THEN "idle" ELSE worker
  /\ UNCHANGED <<batch, acknowledged, failed, closing, error, force_target, answer,
                 threads, stored, confirmed, drained>>

submit(size) ==
  /\ attempted < MaxEvents
  /\ ~closing /\ ~error /\ ~Full(size)
  /\ attempted' = attempted + 1
  /\ accepted' = accepted + 1
  /\ queue' = Append(queue, [n |-> accepted + 1, size |-> size])
  /\ pending_bytes' = pending_bytes + size
  /\ worker' = IF worker = "none" THEN "idle" ELSE worker
  /\ UNCHANGED <<batch, acknowledged, failed, closing, error, force_target, answer,
                 threads, stored, confirmed, drained>>

\* An event is refused: it cannot be encoded or is too large, the exporter
\* is closed or failed, or the queue stays full until the timeout.
submit_refused(size) ==
  /\ attempted < MaxEvents
  /\ \/ size \notin EventSizes
     \/ closing \/ error
     \/ Full(size)
  /\ attempted' = attempted + 1
  /\ failed' = failed + 1
  /\ UNCHANGED <<queue, batch, acknowledged, pending_bytes, closing, error,
                 force_target, worker, answer, threads, history>>

-----------------------------------------------------------------------------
(* _run *)

\* A batch is sent at once when it is full, the exporter closes or a flush
\* waits for it; else when its first event is older than flush_interval,
\* which may be at any time.
Due ==
  \/ closing \/ Len(queue) >= BatchSize
  \/ force_target > acknowledged + failed

\* The longest prefix within both limits, at least one event.
Fits(k) ==
  /\ k <= BatchSize
  /\ k > 1 => Bytes(SubSeq(queue, 1, k)) <= BatchBytes
  /\ k < Len(queue) /\ k < BatchSize => Bytes(SubSeq(queue, 1, k + 1)) > BatchBytes

take_batch ==
  /\ worker = "idle"
  /\ queue # <<>>
  /\ \E k \in 1..Len(queue) :
       /\ Fits(k)
       /\ batch' = SubSeq(queue, 1, k)
       /\ queue' = SubSeq(queue, k + 1, Len(queue))
  /\ worker' = "sending"
  /\ UNCHANGED <<counts, pending_bytes, closing, error, force_target, answer,
                 threads, history>>

\* The collector (external): the batch is stored or not; only a stored one
\* may be acknowledged.
emit ==
  /\ worker = "sending"
  /\ worker' = "answered"
  /\ \/ stored' = stored \cup {batch[i].n : i \in 1..Len(batch)} /\ answer' \in BOOLEAN
     \/ stored' = stored /\ answer' = FALSE
  /\ UNCHANGED <<queue, batch, counts, pending_bytes, closing, error, force_target,
                 threads, accepted, confirmed, drained>>

\* Faulty variant: events waiting behind a failed batch are kept for later.
Bug_FailureKeepsQueue ==
  /\ worker = "answered"
  /\ batch' = <<>>
  /\ pending_bytes' = pending_bytes - Bytes(batch)
  /\ worker' = "idle"
  /\ IF answer
     THEN acknowledged' = acknowledged + Len(batch) /\ UNCHANGED failed
     ELSE failed' = failed + Len(batch) /\ UNCHANGED acknowledged
  /\ UNCHANGED <<queue, attempted, closing, error, force_target, answer, threads, history>>

\* Faulty variant: the events dropped with a failed batch are not counted.
Bug_FailureCountsBatchOnly ==
  /\ worker = "answered"
  /\ batch' = <<>>
  /\ IF answer
     THEN /\ acknowledged' = acknowledged + Len(batch)
          /\ pending_bytes' = pending_bytes - Bytes(batch)
          /\ worker' = "idle"
          /\ UNCHANGED <<queue, failed, error>>
     ELSE /\ failed' = failed + Len(batch)
          /\ pending_bytes' = 0
          /\ queue' = <<>>
          /\ error' = TRUE
          /\ worker' = "stopped"
          /\ UNCHANGED acknowledged
  /\ UNCHANGED <<attempted, closing, force_target, answer, threads, history>>

\* An error ends the stream: what is queued fails with the batch.
settle ==
  /\ worker = "answered"
  /\ batch' = <<>>
  /\ IF answer
     THEN /\ acknowledged' = acknowledged + Len(batch)
          /\ pending_bytes' = pending_bytes - Bytes(batch)
          /\ worker' = "idle"
          /\ UNCHANGED <<queue, failed, error>>
     ELSE /\ failed' = failed + Len(batch) + Len(queue)
          /\ pending_bytes' = 0
          /\ queue' = <<>>
          /\ error' = TRUE
          /\ worker' = "stopped"
          /\ UNCHANGED acknowledged
  /\ UNCHANGED <<attempted, closing, force_target, answer, threads, history>>

stop ==
  /\ worker = "idle"
  /\ queue = <<>> /\ closing
  /\ worker' = "stopped"
  /\ UNCHANGED <<queue, batch, counts, pending_bytes, closing, error, force_target,
                 answer, threads, history>>

-----------------------------------------------------------------------------
(* flush and close *)

rest == <<queue, batch, counts, pending_bytes, error, worker, answer, accepted, stored>>

\* close() first fences the submitters, then flushes like flush().
close(t) ==
  /\ threads[t].pc = "out"
  /\ closing' = TRUE
  /\ threads' = [threads EXCEPT ![t] = [Quiet EXCEPT !.pc = "enter", !.close = TRUE]]
  /\ UNCHANGED <<rest, force_target, confirmed, drained>>

\* Faulty variant: the barrier does not hurry the worker.
Bug_FlushWithoutForce(t) ==
  /\ threads[t].pc \in {"out", "enter"}
  /\ threads' = [threads EXCEPT ![t] =
       [@ EXCEPT !.pc = "wait", !.target = attempted, !.upto = accepted]]
  /\ UNCHANGED <<rest, force_target, closing, confirmed, drained>>

flush(t) ==
  /\ threads[t].pc \in {"out", "enter"}
  /\ force_target' = IF attempted > force_target THEN attempted ELSE force_target
  /\ threads' = [threads EXCEPT ![t] =
       [@ EXCEPT !.pc = "wait", !.target = attempted, !.upto = accepted]]
  /\ UNCHANGED <<rest, closing, confirmed, drained>>

\* flush() is over, well or badly; a close() goes on to join the worker.
Leave(t, good) ==
  /\ threads' = [threads EXCEPT ![t] =
       IF @.close /\ worker # "none" THEN [@ EXCEPT !.pc = "join", !.ok = good] ELSE Quiet]
  /\ drained' = (drained \/ (good /\ threads[t].close /\ worker = "none"))
  /\ confirmed' = IF good /\ threads[t].upto > confirmed THEN threads[t].upto ELSE confirmed
  /\ UNCHANGED <<rest, closing, force_target>>

flush_return(t) ==
  /\ threads[t].pc = "wait"
  /\ acknowledged + failed >= threads[t].target
  /\ Leave(t, failed = 0)

flush_timeout(t) ==
  /\ threads[t].pc = "wait"
  /\ Leave(t, FALSE)

join(t) ==
  /\ threads[t].pc = "join"
  /\ \/ worker = "stopped" /\ drained' = (drained \/ threads[t].ok)
     \/ UNCHANGED drained
  /\ threads' = [threads EXCEPT ![t] = Quiet]
  /\ UNCHANGED <<rest, closing, force_target, confirmed>>

-----------------------------------------------------------------------------
Worker == take_batch \/ emit \/ settle \/ stop

Next ==
  \/ \E size \in EventSizes : submit(size)
  \/ \E size \in EventSizes \cup {MaxBytes + 1} : submit_refused(size)
  \/ Worker
  \/ \E t \in Threads :
       close(t) \/ flush(t) \/ flush_return(t) \/ flush_timeout(t) \/ join(t)

Spec == Init /\ [][Next]_vars

\* The worker thread runs, the collector's client gives an answer or an
\* error, and a notified thread wakes up.  Nothing is assumed of the timers:
\* the interval and the timeouts may run out at any time, or never.
FairSpec ==
  /\ Spec
  /\ WF_vars(Worker /\ (worker = "idle" /\ queue # <<>> => Due))
  /\ \A t \in Threads : /\ WF_vars(flush(t) /\ threads[t].pc = "enter")
                        /\ WF_vars(flush_return(t))
                        /\ WF_vars(join(t) /\ worker = "stopped")

-----------------------------------------------------------------------------
(* Properties *)

\* Every attempted event is acknowledged, failed, queued or in flight, and
\* counted once: what health() reports as pending is really still there.
Conservation == attempted = acknowledged + failed + Len(queue) + Len(batch)

\* The number of pending events is never above the capacity.
PendingIsBounded == Pending <= Capacity

\* pending_bytes is the size of what is queued and in flight, never above
\* the limit, and the number of pending events never above the capacity.
QueueIsBounded ==
  /\ PendingIsBounded
  /\ pending_bytes = Bytes(queue) + Bytes(batch) /\ pending_bytes <= MaxBytes

\* The collector holds a gapless prefix of the accepted events: no span end
\* is stored whose start is missing.
NoGapInStream == \A n \in stored : 1..n \subseteq stored

\* A flush that returns normally confirmed everything accepted before it,
\* also when other threads submit, fail or time out meanwhile.
FlushIsABarrier == 1..confirmed \subseteq stored

\* After a close that returned normally every event ever accepted is stored
\* and the worker has stopped.
CloseDrains ==
  drained => 1..accepted \subseteq stored /\ worker \in {"none", "stopped"}

\* The exporter is a DurableStream: queue, batches, lost answers, timers and
\* concurrent barriers never show in what is durable and what was confirmed.
Stream == INSTANCE DurableStream WITH durable <- stored, sealed <- closing, broken <- error

ImplementsStream == Stream!Spec

\* The rest of the inductive invariant.  What is queued or in flight are the
\* accepted events that follow the acknowledged ones, in order.
InOrder ==
  /\ \A i \in 1..Len(batch) : batch[i].n = acknowledged + i
  /\ \A i \in 1..Len(queue) : queue[i].n = acknowledged + Len(batch) + i
  /\ accepted <= attempted
  /\ IF error
     THEN failed > 0 /\ batch = <<>> /\ queue = <<>> /\ worker = "stopped"
     ELSE accepted = acknowledged + Len(batch) + Len(queue)

\* What the collector holds, as far as the worker has got.
Stored ==
  /\ worker \in {"sending", "answered"} <=> batch # <<>>
  /\ worker = "none" \/ (worker = "stopped" /\ ~error) => queue = <<>>
  /\ worker = "stopped" /\ ~error => closing
  /\ worker = "none" => accepted = 0
  /\ worker \in {"none", "idle", "sending"} \/ (worker = "stopped" /\ ~error) =>
       stored = 1..acknowledged
  /\ worker = "answered" /\ answer => stored = 1..(acknowledged + Len(batch))
  /\ \E m \in acknowledged..accepted : stored = 1..m

\* What the threads at the barrier, and those that passed it, know.
Barriers ==
  /\ confirmed <= acknowledged
  /\ \A t \in Threads :
       LET th == threads[t]
       IN  /\ th.upto <= th.target
           /\ th.pc = "out" => ~th.close
           /\ th.close => closing
           /\ th.close /\ th.pc \in {"wait", "join"} => th.upto = accepted
           /\ th.pc = "join" /\ th.ok => accepted <= confirmed
           /\ th.pc = "join" => th.close
  /\ drained => /\ closing /\ accepted <= confirmed
                /\ worker \in {"none", "stopped"}

IInv == TypeOK /\ Conservation /\ PendingIsBounded /\ InOrder /\ Stored /\ Barriers

\* A thread in flush() or close() comes out, also when neither the
\* interval nor a timeout ever runs out.
BarrierEnds == \A t \in Threads : threads[t].pc # "out" ~> threads[t].pc = "out"
=============================================================================
