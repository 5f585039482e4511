-------------------------- MODULE AgentMonitorProofs --------------------------
(***************************************************************************)
(* The theorems of the agent monitor (AgentMonitor).                       *)
(*                                                                         *)
(* The store comes first: what one event does to the rows, and then what a *)
(* whole batch does, event by event.  The rest shows that every step keeps *)
(* IInv: the Tracer's calls, the handler threads, the hooks around a run   *)
(* and the death of the daemon.                                            *)
(***************************************************************************)
EXTENDS AgentMonitor, FiniteSetTheorems, WellFoundedInduction, TLAPS

-----------------------------------------------------------------------------
(* The rows of the store *)

Table == [Rows -> Row \cup {None}]
Outcome == [ok : BOOLEAN, rows : Table, n : Nat]

\* Rows are never deleted, given to another run or opened again.
Grows(old, new) ==
  \A x \in Rows : old[x] # None =>
    new[x] # None /\ new[x].run = old[x].run /\ (old[x].status = "ended" => new[x].status = "ended")

\* The fields of the records; None is not a row.
LEMMA RowFields ==
  /\ \A w \in Row : w.status \in {"running", "ended"} /\ w.source \in Sources
                    /\ w.run \in Runs \cup {None} /\ w # None
  /\ \A e \in Event : e.event \in {"start", "end"} /\ e.span \in Rows /\ e.parent \in Rows \cup {None}
  BY NamesAssumption DEF Row, Event

\* A valid event is written to the row of its span: a start makes a row of the
\* run r, an end closes the row that is there.
LEMMA WriteStep ==
  ASSUME NEW rows \in Table, NEW e \in Event, NEW source \in Sources, NEW r \in Runs \cup {None},
         Valid(rows, e, source, r), NEW w, w = Write(rows, e, source, r)
  PROVE  /\ w \in Table
         /\ Stored(w, e.event, e.span)
         /\ \A x \in Rows : x # e.span => w[x] = rows[x]
         /\ rows[e.span] = None => w[e.span].run = r
         /\ Grows(rows, w)
  <1>1. e.event \in {"start", "end"} /\ e.span \in Rows
    BY RowFields
  <1>2. \A x \in Rows : x # e.span => w[x] = rows[x]
    BY DEF Write, Table
  <1>3. CASE e.event = "start"
    <2> DEFINE v == [status |-> "running", source |-> source, run |-> r]
    <2>1. w = [rows EXCEPT ![e.span] = v]
      BY <1>3 DEF Write
    <2>2. v \in Row /\ v.run = r
      BY DEF Row
    <2>3. rows[e.span] = None
      BY <1>3 DEF Valid
    <2> HIDE DEF v
    <2>4. w \in Table /\ w[e.span] = v
      BY <1>1, <2>1, <2>2 DEF Table
    <2>5. v # None
      BY <2>2, RowFields
    <2> QED
      BY <1>1, <1>2, <1>3, <2>2, <2>3, <2>4, <2>5 DEF Stored, Grows
  <1>4. CASE e.event = "end"
    <2> DEFINE old == rows[e.span]
               v == [old EXCEPT !.status = "ended"]
    <2>1. old # None /\ old \in Row
      BY <1>1, <1>4 DEF Valid, Table
    <2>2. w = [rows EXCEPT ![e.span] = v]
      BY <1>4 DEF Write
    <2>3. v \in Row /\ v.run = old.run /\ v.status = "ended"
      BY <2>1 DEF Row
    <2> HIDE DEF v
    <2>4. w \in Table /\ w[e.span] = v
      BY <1>1, <2>2, <2>3 DEF Table
    <2>5. v # None
      BY <2>3, RowFields
    <2> QED
      BY <1>1, <1>2, <1>4, <2>1, <2>3, <2>4, <2>5 DEF Stored, Grows
  <1> QED
    BY <1>1, <1>3, <1>4

LEMMA GrowsAgain ==
  ASSUME NEW a \in Table, NEW b \in Table, NEW c \in Table, Grows(a, b), Grows(b, c)
  PROVE  Grows(a, c)
  BY DEF Grows

\* What is stored stays stored.
LEMMA StoredStays ==
  ASSUME NEW a, NEW b, Grows(a, b), NEW s \in Rows, NEW event, Stored(a, event, s)
  PROVE  Stored(b, event, s)
  BY DEF Grows, Stored

\* One event more: the outcome stays an outcome, and it is good only if the
\* one before it was good and the event was valid.
LEMMA ApplyOneStep ==
  ASSUME NEW o \in Outcome, NEW e \in Event, NEW source \in Sources, NEW r \in Runs \cup {None},
         NEW p, p = ApplyOne(o, e, source, r)
  PROVE  /\ p \in Outcome
         /\ p.ok = TRUE => /\ o.ok = TRUE
                           /\ Valid(o.rows, e, source, r)
                           /\ p.rows = Write(o.rows, e, source, r)
  <1>1. o.ok \in BOOLEAN /\ o.rows \in Table /\ o.n \in Nat
    BY DEF Outcome
  <1>2. CASE o.ok = TRUE /\ Valid(o.rows, e, source, r)
    <2> DEFINE w == Write(o.rows, e, source, r)
    <2>1. p = [ok |-> TRUE, rows |-> w, n |-> o.n + 1]
      BY <1>2 DEF ApplyOne
    <2>2. w \in Table
      BY <1>1, <1>2, WriteStep
    <2> HIDE DEF w
    <2>3. p \in Outcome /\ p.rows = w
      BY <1>1, <2>1, <2>2 DEF Outcome
    <2> QED
      BY <1>2, <2>3 DEF w
  <1>3. CASE ~(o.ok /\ Valid(o.rows, e, source, r))
    <2>1. p = [o EXCEPT !.ok = FALSE]
      BY <1>3 DEF ApplyOne
    <2>2. p \in Outcome /\ p.ok = FALSE
      BY <2>1 DEF Outcome
    <2> QED
      BY <2>2
  <1> QED
    BY <1>1, <1>2, <1>3

\* Every set of natural numbers that has an element has a least one.
LEMMA LeastOne ==
  ASSUME NEW S \in SUBSET Nat, S # {}
  PROVE  \E n \in S : \A m \in S : ~(m < n)
  <1> DEFINE R == OpToRel(<, Nat)
  <1>1. \E n \in S : \A m \in S : <<m, n>> \notin R
    <2>1. IsWellFoundedOn(R, Nat)
      BY NatLessThanWellFounded
    <2> HIDE DEF R
    <2> QED
      BY <2>1, WFMin
  <1>2. \A m, n \in S : m < n => <<m, n>> \in R
    BY DEF OpToRel
  <1> QED
    BY <1>1, <1>2

\* The outcomes of the first n events of a batch, one after the other.
Outcomes(f, n, events, source, r) ==
  /\ f \in [0..n -> Outcome]
  /\ f[0] = [ok |-> TRUE, rows |-> row, n |-> 0]
  /\ \A k \in 1..n : f[k] = ApplyOne(f[k - 1], events[k], source, r)

\* Every batch has its outcomes: take the shortest prefix without, and add one
\* more event to the outcomes of the prefix before it.
LEMMA OutcomesExist ==
  ASSUME row \in Table, NEW events \in Seq(Event), NEW source \in Sources, NEW r \in Runs \cup {None}
  PROVE  \E f : Outcomes(f, Len(events), events, source, r)
  <1> DEFINE Fine(n) == \E f : Outcomes(f, n, events, source, r)
             S == {n \in 0..Len(events) : ~Fine(n)}
  <1>1. Len(events) \in Nat /\ \A k \in 1..Len(events) : events[k] \in Event
    OBVIOUS
  <1>2. ASSUME S # {} PROVE FALSE
    <2>1. PICK n \in S : \A m \in S : ~(m < n)
      <3>1. S \in SUBSET Nat
        BY <1>1
      <3> HIDE DEF S
      <3> QED
        BY <1>2, <3>1, LeastOne
    <2>2. n \in 0..Len(events) /\ n \in Nat /\ ~Fine(n)
      BY <1>1, <2>1
    <2>3. n # 0
      <3> DEFINE first == [ok |-> TRUE, rows |-> row, n |-> 0]
                 z == [k \in 0..0 |-> first]
      <3>1. first \in Outcome
        BY DEF Outcome
      <3>2. Outcomes(z, 0, events, source, r)
        <4>1. z \in [0..0 -> Outcome] /\ z[0] = first
          BY <3>1
        <4> HIDE DEF z
        <4> QED
          BY <4>1 DEF Outcomes
      <3> HIDE DEF z
      <3> QED
        BY <2>2, <3>2
    <2>4. n - 1 \in 0..Len(events) /\ n - 1 < n /\ n \in 1..Len(events)
      BY <1>1, <2>2, <2>3
    <2>5. Fine(n - 1)
      <3>1. n - 1 \notin S
        <4> HIDE DEF S
        <4> QED
          BY <2>1, <2>4
      <3> HIDE DEF Fine
      <3> QED
        BY <2>4, <3>1
    <2>6. PICK f : Outcomes(f, n - 1, events, source, r)
      BY <2>5
    <2>7. /\ f \in [0..(n - 1) -> Outcome]
          /\ f[0] = [ok |-> TRUE, rows |-> row, n |-> 0]
          /\ \A k \in 1..(n - 1) : f[k] = ApplyOne(f[k - 1], events[k], source, r)
      BY <2>6 DEF Outcomes
    <2> DEFINE last == ApplyOne(f[n - 1], events[n], source, r)
               g == [k \in 0..n |-> IF k = n THEN last ELSE f[k]]
    <2>8. last \in Outcome
      <3>1. f[n - 1] \in Outcome
        BY <2>2, <2>3, <2>7
      <3>2. events[n] \in Event
        BY <1>1, <2>4
      <3> QED
        BY <3>1, <3>2, ApplyOneStep
    <2> HIDE DEF last
    <2>9. g \in [0..n -> Outcome]
      BY <2>2, <2>3, <2>7, <2>8
    <2>10. g[0] = f[0] /\ g[n] = last /\ \A k \in 0..(n - 1) : g[k] = f[k]
      BY <2>2, <2>3
    <2> HIDE DEF g
    <2>11. ASSUME NEW k \in 1..n PROVE g[k] = ApplyOne(g[k - 1], events[k], source, r)
      <3>1. g[k - 1] = f[k - 1]
        BY <2>2, <2>10
      <3>2. CASE k = n
        BY <2>10, <3>1, <3>2 DEF last
      <3>3. CASE k # n
        <4>1. k \in 1..(n - 1) /\ k \in 0..(n - 1)
          BY <2>2, <3>3
        <4> QED
          BY <2>7, <2>10, <3>1, <4>1
      <3> QED
        BY <3>2, <3>3
    <2>12. Outcomes(g, n, events, source, r)
      BY <2>7, <2>9, <2>10, <2>11 DEF Outcomes
    <2> QED
      BY <2>2, <2>12
  <1>3. Len(events) \in 0..Len(events)
    BY <1>1
  <1> HIDE DEF Fine
  <1>4. Fine(Len(events))
    BY <1>2, <1>3
  <1> QED
    BY <1>4 DEF Fine

\* The outcome of a batch is the last of some such outcomes.
LEMMA ApplyIsTheLast ==
  ASSUME row \in Table, NEW events \in Seq(Event), NEW source \in Sources, NEW r \in Runs \cup {None}
  PROVE  \E f : /\ Outcomes(f, Len(events), events, source, r)
                /\ Apply(events, source, r) = f[Len(events)]
  <1> DEFINE n == Len(events)
             first == [ok |-> TRUE, rows |-> row, n |-> 0]
             Rec(h) == h = [k \in 0..n |-> IF k = 0 THEN first
                                           ELSE ApplyOne(h[k - 1], events[k], source, r)]
             result == CHOOSE h : Rec(h)
  <1>1. n \in Nat /\ \A k \in 1..n : events[k] \in Event
    OBVIOUS
  <1>2. PICK f : Outcomes(f, n, events, source, r)
    BY OutcomesExist
  <1>3. f \in [0..n -> Outcome] /\ f[0] = first
        /\ \A k \in 1..n : f[k] = ApplyOne(f[k - 1], events[k], source, r)
    BY <1>2 DEF Outcomes
  <1>4. Rec(f)
    <2> HIDE DEF first
    <2> QED
      BY <1>1, <1>3
  <1>5. Rec(result)
    BY <1>4
  <1>6. Apply(events, source, r) = result[n]
    BY DEF Apply
  <1> HIDE DEF result, first
  <1>7. result[0] = first /\ DOMAIN result = 0..n
        /\ \A k \in 1..n : result[k] = ApplyOne(result[k - 1], events[k], source, r)
    BY <1>1, <1>5
  <1> DEFINE S == {k \in 0..n : result[k] # f[k]}
  <1>8. ASSUME S # {} PROVE FALSE
    <2>1. PICK k \in S : \A m \in S : ~(m < k)
      <3>1. S \in SUBSET Nat
        BY <1>1
      <3> HIDE DEF S
      <3> QED
        BY <1>8, <3>1, LeastOne
    <2>2. k \in 0..n /\ k \in Nat /\ result[k] # f[k] /\ k # 0
      BY <1>1, <1>3, <1>7, <2>1
    <2>3. k - 1 \in 0..n /\ k - 1 < k /\ k \in 1..n
      BY <1>1, <2>2
    <2>4. result[k - 1] = f[k - 1]
      BY <2>1, <2>3
    <2> QED
      BY <1>3, <1>7, <2>2, <2>3, <2>4
  <1>9. n \in 0..n
    BY <1>1
  <1>10. result[n] = f[n]
    BY <1>8, <1>9
  <1> QED
    BY <1>2, <1>6, <1>10

\* A batch that is not refused has the effect of all its events, and of no
\* other: its rows grow, and the new ones are of the run r.
Effect(rows, events, r) ==
  /\ Grows(row, rows)
  /\ \A i \in 1..Len(events) : Stored(rows, events[i].event, events[i].span)
  /\ \A x \in Rows : rows[x] = row[x] \/ \E i \in 1..Len(events) : events[i].span = x
  /\ \A x \in Rows : row[x] = None /\ rows[x] # None => rows[x].run = r

LEMMA ApplyStep ==
  ASSUME row \in Table, NEW events \in Seq(Event), NEW source \in Sources, NEW r \in Runs \cup {None},
         NEW o, o = Apply(events, source, r)
  PROVE  /\ o \in Outcome
         /\ o.ok = TRUE => Effect(o.rows, events, r)
  <1> DEFINE n == Len(events)
             Good(p, k) ==
               /\ Grows(row, p.rows)
               /\ \A i \in 1..k : Stored(p.rows, events[i].event, events[i].span)
               /\ \A x \in Rows : p.rows[x] = row[x] \/ \E i \in 1..k : events[i].span = x
               /\ \A x \in Rows : row[x] = None /\ p.rows[x] # None => p.rows[x].run = r
  <1>1. n \in Nat /\ \A k \in 1..n : events[k] \in Event
    OBVIOUS
  <1>2. PICK f : Outcomes(f, n, events, source, r) /\ o = f[n]
    BY ApplyIsTheLast
  <1>3. f \in [0..n -> Outcome] /\ f[0] = [ok |-> TRUE, rows |-> row, n |-> 0]
        /\ \A k \in 1..n : f[k] = ApplyOne(f[k - 1], events[k], source, r)
    BY <1>2 DEF Outcomes
  <1> DEFINE S == {k \in 0..n : f[k].ok = TRUE /\ ~Good(f[k], k)}
  <1>4. ASSUME S # {} PROVE FALSE
    <2>1. PICK k \in S : \A m \in S : ~(m < k)
      <3>1. S \in SUBSET Nat
        BY <1>1
      <3> HIDE DEF S
      <3> QED
        BY <1>4, <3>1, LeastOne
    <2>2. k \in 0..n /\ k \in Nat /\ f[k].ok = TRUE /\ ~Good(f[k], k)
      BY <1>1, <2>1
    <2>3. k # 0
      <3>1. f[0].rows = row
        BY <1>3
      <3>2. Good(f[0], 0)
        BY <3>1 DEF Grows
      <3> HIDE DEF Good
      <3> QED
        BY <2>2, <3>2
    <2>4. k - 1 \in 0..n /\ k - 1 < k /\ k \in 1..n
      BY <1>1, <2>2, <2>3
    <2> DEFINE a == f[k - 1]
               b == f[k]
               e == events[k]
    <2>5. a \in Outcome /\ b \in Outcome /\ e \in Event /\ b = ApplyOne(a, e, source, r)
      BY <1>1, <1>3, <2>2, <2>4
    <2>6. a.ok = TRUE /\ Valid(a.rows, e, source, r) /\ b.rows = Write(a.rows, e, source, r)
      <3> HIDE DEF a, b, e
      <3>1. b.ok = TRUE
        BY <2>2 DEF b
      <3> QED
        BY <2>5, <3>1, ApplyOneStep
    <2>7. Good(a, k - 1)
      <3>1. k - 1 \notin S
        <4> HIDE DEF S
        <4> QED
          BY <2>1, <2>4
      <3> HIDE DEF Good
      <3> QED
        BY <2>4, <2>6, <3>1
    <2>8. a.rows \in Table /\ b.rows \in Table /\ e.span \in Rows
      BY <2>5, RowFields DEF Outcome
    <2> HIDE DEF a, b, e
    <2>9. /\ Stored(b.rows, e.event, e.span)
          /\ \A x \in Rows : x # e.span => b.rows[x] = a.rows[x]
          /\ a.rows[e.span] = None => b.rows[e.span].run = r
          /\ Grows(a.rows, b.rows)
      BY <2>5, <2>6, <2>8, WriteStep
    <2>10. Grows(row, b.rows)
      BY <2>7, <2>8, <2>9, GrowsAgain
    <2>11. ASSUME NEW i \in 1..k PROVE Stored(b.rows, events[i].event, events[i].span)
      <3>1. CASE i = k
        BY <2>9, <3>1 DEF e
      <3>2. CASE i # k
        <4>1. i \in 1..(k - 1) /\ i \in 1..n
          BY <1>1, <2>4, <3>2
        <4>2. Stored(a.rows, events[i].event, events[i].span) /\ events[i].span \in Rows
          BY <1>1, <2>7, <4>1, RowFields
        <4> QED
          BY <2>8, <2>9, <4>2, StoredStays
      <3> QED
        BY <3>1, <3>2
    <2>12. ASSUME NEW x \in Rows
           PROVE  b.rows[x] = row[x] \/ \E i \in 1..k : events[i].span = x
      <3>1. CASE x = e.span
        <4>1. k \in 1..k
          BY <2>4
        <4> QED
          BY <3>1, <4>1 DEF e
      <3>2. CASE x # e.span
        <4>1. b.rows[x] = a.rows[x]
          BY <2>9, <3>2
        <4>2. \A i \in 1..(k - 1) : i \in 1..k
          BY <2>4
        <4> QED
          BY <2>7, <4>1, <4>2
      <3> QED
        BY <3>1, <3>2
    <2>13. ASSUME NEW x \in Rows, row[x] = None, b.rows[x] # None
           PROVE  b.rows[x].run = r
      <3>1. CASE a.rows[x] = None
        BY <2>9, <2>13, <3>1
      <3>2. CASE a.rows[x] # None
        BY <2>7, <2>9, <2>13, <3>2 DEF Grows
      <3> QED
        BY <3>1, <3>2
    <2>14. Good(b, k)
      BY <2>10, <2>11, <2>12, <2>13
    <2> HIDE DEF Good
    <2> QED
      BY <2>2, <2>14 DEF b
  <1>5. n \in 0..n /\ o \in Outcome
    BY <1>1, <1>2, <1>3
  <1>6. o.ok = TRUE => Good(o, n)
    <2> HIDE DEF Good
    <2> QED
      BY <1>2, <1>4, <1>5
  <1> QED
    BY <1>5, <1>6 DEF Effect

-----------------------------------------------------------------------------
(* What the parts of IInv need *)

LEMMA NamesAreApart ==
  /\ Runs \subseteq Tracers /\ Orchestrator \in Tracers /\ None \notin Tracers
  /\ Orchestrator \notin Runs /\ Spans \subseteq Rows /\ Runs \subseteq Rows
  /\ None \notin Requests /\ None \notin Spans /\ \A s \in Spans : s \notin Runs
  /\ \A t \in Tracers : BatchSize[t] \in Nat /\ 1 <= BatchSize[t]
  <1>1. \A t \in Tracers : BatchSize[t] \in 1..64
    BY BatchAssumption
  <1> QED
    BY <1>1, NamesAssumption DEF Tracers, Rows

LEMMA Fields ==
  ASSUME TypeOK
  PROVE  /\ \A t \in Tracers :
              /\ tracer[t] \in Tracer
              /\ tracer[t].pending \in Seq(Event) /\ tracer[t].waits \in Requests \cup {None}
              /\ tracer[t].attempted \in Nat /\ tracer[t].acknowledged \in Nat
              /\ tracer[t].failed \in Nat
         /\ \A q \in Requests :
              /\ request[q] \in Request
              /\ request[q].from \in Tracers \cup {None} /\ request[q].events \in Seq(Event)
              /\ request[q].bound \in Runs \cup {None} /\ request[q].ok \in BOOLEAN
         /\ \A r \in Runs : run[r] \in Run
         /\ row \in Table
  BY DEF TypeOK, Tracer, Request, Table

LEMMA NewRecords ==
  /\ NewTracer \in Tracer /\ NoRequest \in Request /\ NewRun \in Run
  /\ NewTracer.pending = <<>> /\ NewTracer.waits = None /\ NewTracer.attempted = 0
  /\ NewTracer.acknowledged = 0 /\ NewTracer.failed = 0
  /\ NoRequest.pc = "free" /\ NewRun.pc = "new"
  BY DEF NewTracer, NoRequest, NewRun, Tracer, Request, Run

LEMMA InitHolds == Init => IInv
  <1> SUFFICES ASSUME Init PROVE IInv
    OBVIOUS
  <1>1. /\ \A t \in Tracers : tracer[t] = NewTracer
        /\ \A q \in Requests : request[q] = NoRequest
        /\ \A r \in Runs : run[r] = NewRun
        /\ \A s \in Rows : row[s] = None
        /\ \A s \in Spans : owner[s] = None /\ <<"end", s>> \notin sent
    BY DEF Init
  <1>2. TypeOK
    <2>1. /\ run \in [Runs -> Run] /\ tracer \in [Tracers -> Tracer]
          /\ request \in [Requests -> Request]
      BY NewRecords DEF Init
    <2>2. row \in [Rows -> Row \cup {None}] /\ owner \in [Spans -> Tracers \cup {None}]
      BY DEF Init
    <2>3. /\ accepted \in Nat /\ committed \in Nat /\ crashes \in 0..MaxCrashes
          /\ sent \subseteq {"start", "end"} \X Spans
      BY LimitAssumption DEF Init
    <2> QED
      BY <2>1, <2>2, <2>3 DEF TypeOK
  <1>3. /\ \A t \in Tracers : /\ tracer[t].pending = <<>> /\ tracer[t].waits = None
                              /\ tracer[t].attempted = 0 /\ tracer[t].acknowledged = 0
                              /\ tracer[t].failed = 0
        /\ \A q \in Requests : request[q].pc = "free"
        /\ \A r \in Runs : run[r].pc = "new"
    BY <1>1, NewRecords
  <1>4. RunsStartEmpty
    <2> SUFFICES ASSUME NEW r \in Runs
                 PROVE  /\ run[r].pc \in {"started", "live"} => run[r].known /\ run[r].running
                        /\ run[r].pc \in {"started", "live", "empty"} => row[r] # None
                        /\ tracer[r] = NewTracer /\ \A s \in Spans : owner[s] # r
      BY DEF RunsStartEmpty
    <2>1. tracer[r] = NewTracer /\ run[r].pc = "new"
      BY <1>1, <1>3, NamesAreApart
    <2>2. \A s \in Spans : owner[s] # r
      BY <1>1, NamesAreApart
    <2> QED
      BY <2>1, <2>2
  <1>5. EventsAreOwned
    BY <1>3, NamesAreApart DEF EventsAreOwned, EventsOf
  <1>6. RequestsAreBound /\ ConfirmedIsStored
    BY <1>3 DEF RequestsAreBound, ConfirmedIsStored
  <1>7. EventsAreCounted
    BY <1>3 DEF EventsAreCounted, InRequest
  <1>8. NothingIsLost
    BY <1>1, NamesAreApart DEF NothingIsLost
  <1>9. SpansOfNobody /\ StoredUnderOwnRun
    BY <1>1, NamesAreApart DEF SpansOfNobody, StoredUnderOwnRun
  <1>10. AcceptedIsCommitted
    <2>1. {q \in Requests : request[q].pc = "count"} = {}
      BY <1>3
    <2>2. Cardinality({q \in Requests : request[q].pc = "count"}) = 0
      BY <2>1, FS_EmptySet
    <2>3. accepted = 0 /\ committed = 0
      BY DEF Init
    <2> QED
      BY <2>2, <2>3 DEF AcceptedIsCommitted
  <1> QED
    BY <1>2, <1>4, <1>5, <1>6, <1>7, <1>8, <1>9, <1>10 DEF IInv

\* While the rows grow and a Tracer's hands stay as they are, it keeps what it
\* had.
LEMMA KeptStays ==
  ASSUME TypeOK, Grows(row, row'), NEW t \in Tracers, NEW s \in Spans, NEW event,
         tracer'[t].pending = tracer[t].pending, tracer'[t].waits = tracer[t].waits,
         tracer[t].waits # None =>
           request'[tracer[t].waits].events = request[tracer[t].waits].events,
         Kept(t, event, s)
  PROVE  Kept(t, event, s)'
  <1>1. InRequest(t)' = InRequest(t)
    BY DEF InRequest
  <1>2. CASE Stored(row, event, s)
    <2>1. Stored(row', event, s)
      BY <1>2, NamesAreApart, StoredStays
    <2> QED
      BY <2>1 DEF Kept
  <1>3. CASE Holds(tracer[t].pending, event, s)
    <2>1. Holds(tracer'[t].pending, event, s)
      BY <1>3
    <2> QED
      BY <2>1 DEF Kept
  <1>4. CASE Holds(InRequest(t), event, s)
    <2>1. Holds(InRequest(t)', event, s)
      BY <1>1, <1>4
    <2> QED
      BY <2>1 DEF Kept
  <1> QED
    BY <1>2, <1>3, <1>4 DEF Kept

\* Rows that grow keep the parts that only say that something is stored.
LEMMA StoreGrows ==
  ASSUME IInv, row' \in Table, Grows(row, row'),
         UNCHANGED <<tracer, request, owner, sent>>,
         \A t \in Tracers : Alive(t)' => Alive(t) \/ \A s \in Spans : owner[s] # t
  PROVE  NothingIsLost' /\ ConfirmedIsStored' /\ EventsAreOwned' /\ EventsAreCounted'
  <1>1. TypeOK /\ NothingIsLost /\ ConfirmedIsStored /\ EventsAreOwned /\ EventsAreCounted
    BY DEF IInv
  <1>2. EventsAreOwned'
    BY <1>1 DEF EventsAreOwned, EventsOf
  <1>3. EventsAreCounted'
    BY <1>1 DEF EventsAreCounted, InRequest
  <1>4. ConfirmedIsStored'
    <2> SUFFICES ASSUME NEW q \in Requests,
                        request[q].pc = "count" \/ (request[q].pc = "reply" /\ request[q].ok),
                        NEW i \in 1..Len(request[q].events)
                 PROVE  Stored(row', request[q].events[i].event, request[q].events[i].span)
      BY DEF ConfirmedIsStored
    <2>1. Stored(row, request[q].events[i].event, request[q].events[i].span)
      BY <1>1 DEF ConfirmedIsStored
    <2>2. request[q].events[i].span \in Rows
      <3>1. request[q].events[i] \in Event
        BY <1>1, Fields
      <3> QED
        BY <3>1, RowFields
    <2> QED
      BY <2>1, <2>2, StoredStays
  <1>5. NothingIsLost'
    <2> SUFFICES ASSUME NEW t \in Tracers, Alive(t)', tracer[t].failed = 0, NEW s \in Spans, owner[s] = t
                 PROVE  /\ Kept(t, "start", s)'
                        /\ <<"end", s>> \in sent => Kept(t, "end", s)'
      BY DEF NothingIsLost
    <2>1. Alive(t)
      OBVIOUS
    <2>2. Kept(t, "start", s) /\ (<<"end", s>> \in sent => Kept(t, "end", s))
      BY <1>1, <2>1 DEF NothingIsLost
    <2> QED
      BY <1>1, <2>2, KeptStays
  <1> QED
    BY <1>2, <1>3, <1>4, <1>5

-----------------------------------------------------------------------------
(* The handler threads *)

\* A handler that moves on with the same request, while the rows grow, leaves
\* the Tracers, the runs and their accounts as they are.
LEMMA HandlerStep ==
  ASSUME IInv, NEW q \in Requests, NEW new \in Request,
         request[q].pc # "free", new.pc # "free",
         new.from = request[q].from, new.events = request[q].events,
         request' = [request EXCEPT ![q] = new], UNCHANGED unchangedByHandler,
         row' \in Table, Grows(row, row'), accepted' \in Nat, committed' \in Nat
  PROVE  TypeOK' /\ RunsStartEmpty' /\ EventsAreOwned' /\ EventsAreCounted' /\ NothingIsLost'
  <1>1. TypeOK /\ RunsStartEmpty /\ EventsAreOwned /\ EventsAreCounted /\ NothingIsLost
    BY DEF IInv
  <1>2. run' = run /\ tracer' = tracer /\ crashes' = crashes /\ owner' = owner /\ sent' = sent
    BY DEF unchangedByHandler, history
  <1>3. /\ request' \in [Requests -> Request] /\ request'[q] = new
        /\ \A p \in Requests : p # q => request'[p] = request[p]
    BY <1>1 DEF TypeOK
  <1>4. \A p \in Requests : /\ request'[p].from = request[p].from
                            /\ request'[p].events = request[p].events
                            /\ request'[p].pc = "free" <=> request[p].pc = "free"
    BY <1>3
  <1>5. TypeOK'
    BY <1>1, <1>2, <1>3 DEF TypeOK, Table
  <1>6. RunsStartEmpty'
    <2>1. \A r \in Runs : row[r] # None => row'[r] # None
      BY NamesAreApart DEF Grows
    <2> QED
      BY <1>1, <1>2, <2>1 DEF RunsStartEmpty
  <1>7. EventsAreOwned'
    BY <1>1, <1>2, <1>4 DEF EventsAreOwned, EventsOf
  <1>8. EventsAreCounted'
    <2>1. ASSUME NEW t \in Tracers PROVE InRequest(t)' = InRequest(t)
      BY <1>1, <1>2, <1>4, Fields DEF InRequest
    <2>2. \A t \in Tracers : tracer[t].waits # None =>
            request'[tracer[t].waits].pc # "free" /\ request'[tracer[t].waits].from = t
      BY <1>1, <1>4, Fields DEF EventsAreCounted
    <2> QED
      BY <1>1, <1>2, <2>1, <2>2 DEF EventsAreCounted
  <1>9. NothingIsLost'
    <2> SUFFICES ASSUME NEW t \in Tracers, Alive(t)', tracer'[t].failed = 0,
                        NEW s \in Spans, owner'[s] = t
                 PROVE  /\ Kept(t, "start", s)'
                        /\ <<"end", s>> \in sent' => Kept(t, "end", s)'
      BY DEF NothingIsLost
    <2>1. Alive(t)
      BY <1>2 DEF Alive
    <2>2. Kept(t, "start", s) /\ (<<"end", s>> \in sent => Kept(t, "end", s))
      BY <1>1, <1>2, <2>1 DEF NothingIsLost
    <2>3. tracer[t].waits # None =>
            request'[tracer[t].waits].events = request[tracer[t].waits].events
      BY <1>1, <1>4, Fields
    <2> QED
      BY <1>1, <1>2, <2>2, <2>3, KeptStays
  <1> QED
    BY <1>5, <1>6, <1>7, <1>8, <1>9

\* The run that a handler finds is the sender's own: the condition under which
\* its request moves on.
BoundTo(new) ==
  new.from \in Runs =>
    /\ run[new.from].pc \in {"live", "empty", "over"}
    /\ new.pc = "admit" /\ run[new.from].pc = "live" => new.bound = new.from
    /\ new.pc \in {"compare", "ingest"} => new.bound = new.from

LEMMA HandlerBinds ==
  ASSUME IInv, NEW q \in Requests, NEW new \in Request, BoundTo(new),
         request' = [request EXCEPT ![q] = new], UNCHANGED unchangedByHandler
  PROVE  RequestsAreBound'
  <1>1. TypeOK /\ RequestsAreBound
    BY DEF IInv
  <1>2. run' = run
    BY DEF unchangedByHandler
  <1>3. \A p \in Requests : request'[p] = request[p] \/ request'[p] = new
    BY <1>1 DEF TypeOK
  <1> QED
    BY <1>1, <1>2, <1>3 DEF RequestsAreBound, BoundTo

\* A handler that does not come near the store.
LEMMA HandlerMoves ==
  ASSUME IInv, NEW q \in Requests, NEW new \in Request, BoundTo(new),
         request[q].pc \notin {"free", "count"}, new.pc \notin {"free", "count"},
         ~(new.pc = "reply" /\ new.ok),
         new.from = request[q].from, new.events = request[q].events,
         request' = [request EXCEPT ![q] = new], UNCHANGED <<unchangedByHandler, store>>
  PROVE  IInv'
  <1>1. TypeOK /\ ConfirmedIsStored /\ SpansOfNobody /\ StoredUnderOwnRun /\ AcceptedIsCommitted
    BY DEF IInv
  <1>2. row' = row /\ accepted' = accepted /\ committed' = committed /\ owner' = owner /\ sent' = sent
    BY DEF unchangedByHandler, store, history
  <1>3. /\ request'[q] = new
        /\ \A p \in Requests : p # q => request'[p] = request[p]
    BY <1>1 DEF TypeOK
  <1>4. TypeOK' /\ RunsStartEmpty' /\ EventsAreOwned' /\ EventsAreCounted' /\ NothingIsLost'
    <2>1. row' \in Table /\ Grows(row, row') /\ accepted' \in Nat /\ committed' \in Nat
      BY <1>1, <1>2 DEF TypeOK, Table, Grows
    <2>2. UNCHANGED unchangedByHandler
      OBVIOUS
    <2> QED
      BY <2>1, <2>2, HandlerStep
  <1>5. RequestsAreBound'
    BY HandlerBinds
  <1>6. ConfirmedIsStored'
    BY <1>1, <1>2, <1>3 DEF ConfirmedIsStored
  <1>7. SpansOfNobody' /\ StoredUnderOwnRun'
    BY <1>1, <1>2 DEF SpansOfNobody, StoredUnderOwnRun
  <1>8. AcceptedIsCommitted'
    <2>1. \A p \in Requests : request'[p].pc = "count" <=> request[p].pc = "count"
      BY <1>3
    <2>2. {p \in Requests : request'[p].pc = "count"} = {p \in Requests : request[p].pc = "count"}
      BY <2>1
    <2> QED
      BY <1>1, <1>2, <2>2 DEF AcceptedIsCommitted
  <1> QED
    BY <1>4, <1>5, <1>6, <1>7, <1>8 DEF IInv

LEMMA HandlerRefuses ==
  ASSUME IInv, NEW q \in Requests, request[q].pc \notin {"free", "count"}, Refuse(q),
         UNCHANGED <<unchangedByHandler, store>>
  PROVE  IInv'
  <1> DEFINE new == [request[q] EXCEPT !.pc = "reply", !.ok = FALSE]
  <1>1. TypeOK /\ RequestsAreBound
    BY DEF IInv
  <1>2. request[q] \in Request
    BY <1>1, Fields
  <1>3. /\ new \in Request /\ new.pc = "reply" /\ new.ok = FALSE
        /\ new.from = request[q].from /\ new.events = request[q].events
    BY <1>2 DEF Request
  <1>4. request' = [request EXCEPT ![q] = new]
    BY <1>1 DEF Refuse, TypeOK
  <1> HIDE DEF new
  <1>5. BoundTo(new)
    BY <1>1, <1>3 DEF BoundTo, RequestsAreBound
  <1> QED
    BY <1>3, <1>4, <1>5, HandlerMoves

LEMMA HandlerProceeds ==
  ASSUME IInv, NEW q \in Requests, request[q].pc \notin {"free", "count"},
         NEW pc \in {"bind", "compare", "ingest"}, Goto(q, pc),
         request[q].from \in Runs /\ pc # "bind" => request[q].bound = request[q].from,
         UNCHANGED <<unchangedByHandler, store>>
  PROVE  IInv'
  <1> DEFINE new == [request[q] EXCEPT !.pc = pc]
  <1>1. TypeOK /\ RequestsAreBound
    BY DEF IInv
  <1>2. request[q] \in Request
    BY <1>1, Fields
  <1>3. /\ new \in Request /\ new.pc = pc /\ new.bound = request[q].bound
        /\ new.from = request[q].from /\ new.events = request[q].events
    BY <1>2 DEF Request
  <1>4. request' = [request EXCEPT ![q] = new]
    BY <1>1 DEF Goto, TypeOK
  <1> HIDE DEF new
  <1>5. BoundTo(new)
    BY <1>1, <1>3 DEF BoundTo, RequestsAreBound
  <1> QED
    BY <1>3, <1>4, <1>5, HandlerMoves

LEMMA CheckPeerStep ==
  ASSUME IInv, NEW q \in Requests, check_peer(q)
  PROVE  IInv'
  <1>1. request[q].pc = "accept" /\ UNCHANGED <<unchangedByHandler, store>>
    BY DEF check_peer
  <1>2. CASE Owns(q)
    <2>1. Goto(q, "bind")
      BY <1>2 DEF check_peer
    <2> QED
      BY <1>1, <2>1, HandlerProceeds
  <1>3. CASE ~Owns(q)
    <2>1. Refuse(q)
      BY <1>3 DEF check_peer
    <2> QED
      BY <1>1, <2>1, HandlerRefuses
  <1> QED
    BY <1>2, <1>3

\* If the sender is still live it is active, so the one active run is its own.
LEMMA BindRunStep ==
  ASSUME IInv, NEW q \in Requests, bind_run(q)
  PROVE  IInv'
  <1>1. request[q].pc = "bind" /\ UNCHANGED <<unchangedByHandler, store>>
    BY DEF bind_run
  <1>2. TypeOK /\ RequestsAreBound /\ RunsStartEmpty
    BY DEF IInv
  <1>3. ASSUME NEW r \in Runs, Active = {r},
               request' = [request EXCEPT ![q].pc = "admit", ![q].bound = r]
        PROVE  IInv'
    <2> DEFINE new == [request[q] EXCEPT !.pc = "admit", !.bound = r]
    <2>1. request[q] \in Request
      BY <1>2, Fields
    <2>2. /\ new \in Request /\ new.pc = "admit" /\ new.bound = r
          /\ new.from = request[q].from /\ new.events = request[q].events
      BY <2>1 DEF Request
    <2>3. request' = [request EXCEPT ![q] = new]
      BY <1>2, <1>3 DEF TypeOK
    <2> HIDE DEF new
    <2>4. ASSUME NEW f \in Runs, run[f].pc = "live" PROVE f = r
      <3>1. f \in Active
        BY <1>2, <2>4 DEF Active, RunsStartEmpty
      <3> QED
        BY <1>3, <3>1
    <2>5. BoundTo(new)
      BY <1>1, <1>2, <2>2, <2>4 DEF BoundTo, RequestsAreBound
    <2> QED
      BY <1>1, <2>2, <2>3, <2>5, HandlerMoves
  <1>4. ASSUME Refuse(q) PROVE IInv'
    BY <1>1, <1>4, HandlerRefuses
  <1> QED
    BY <1>3, <1>4 DEF bind_run

LEMMA AdmitStep ==
  ASSUME IInv, NEW q \in Requests, admit(q)
  PROVE  IInv'
  <1>1. request[q].pc = "admit" /\ UNCHANGED <<unchangedByHandler, store>>
    BY DEF admit
  <1>2. CASE Owns(q) /\ ~\E r \in Runs : run[r].recovery
    <2>1. Goto(q, "compare")
      BY <1>2 DEF admit
    <2>2. request[q].from \in Runs => request[q].bound = request[q].from
      BY <1>1, <1>2 DEF IInv, RequestsAreBound, Owns
    <2> QED
      BY <1>1, <2>1, <2>2, HandlerProceeds
  <1>3. CASE ~(Owns(q) /\ ~\E r \in Runs : run[r].recovery)
    <2>1. Refuse(q)
      BY <1>3 DEF admit
    <2> QED
      BY <1>1, <2>1, HandlerRefuses
  <1> QED
    BY <1>2, <1>3

LEMMA CompareRunStep ==
  ASSUME IInv, NEW q \in Requests, compare_run(q)
  PROVE  IInv'
  <1>1. request[q].pc = "compare" /\ UNCHANGED <<unchangedByHandler, store>>
    BY DEF compare_run
  <1>2. CASE Active = {request[q].bound}
    <2>1. Goto(q, "ingest")
      BY <1>2 DEF compare_run
    <2>2. request[q].from \in Runs => request[q].bound = request[q].from
      BY <1>1 DEF IInv, RequestsAreBound
    <2> QED
      BY <1>1, <2>1, <2>2, HandlerProceeds
  <1>3. CASE Active # {request[q].bound}
    <2>1. Refuse(q)
      BY <1>3 DEF compare_run
    <2> QED
      BY <1>1, <2>1, HandlerRefuses
  <1> QED
    BY <1>2, <1>3

\* The requests whose events are committed and not yet counted.
Uncounted == {q \in Requests : request[q].pc = "count"}

LEMMA UncountedIsFinite == IsFiniteSet(Uncounted) /\ Cardinality(Uncounted) \in Nat
  <1>1. IsFiniteSet(Uncounted)
    BY RequestsAssumption, FS_Subset DEF Uncounted
  <1> QED
    BY <1>1, FS_CardinalityType

LEMMA CountAcceptedStep ==
  ASSUME IInv, NEW q \in Requests, count_accepted(q)
  PROVE  IInv'
  <1> DEFINE new == [request[q] EXCEPT !.pc = "reply", !.ok = TRUE]
  <1>1. /\ request[q].pc = "count" /\ row' = row /\ committed' = committed
        /\ accepted' = accepted + 1 /\ UNCHANGED unchangedByHandler
    BY DEF count_accepted
  <1>2. /\ TypeOK /\ RequestsAreBound /\ ConfirmedIsStored /\ SpansOfNobody /\ StoredUnderOwnRun
        /\ AcceptedIsCommitted
    BY DEF IInv
  <1>3. request[q] \in Request
    BY <1>2, Fields
  <1>4. /\ new \in Request /\ new.pc = "reply" /\ new.ok = TRUE
        /\ new.from = request[q].from /\ new.events = request[q].events
    BY <1>3 DEF Request
  <1>5. request' = [request EXCEPT ![q] = new]
    BY <1>2 DEF count_accepted, TypeOK
  <1> HIDE DEF new
  <1>6. BoundTo(new)
    BY <1>1, <1>2, <1>4 DEF BoundTo, RequestsAreBound
  <1>7. TypeOK' /\ RunsStartEmpty' /\ EventsAreOwned' /\ EventsAreCounted' /\ NothingIsLost'
    <2>1. row' \in Table /\ Grows(row, row') /\ accepted' \in Nat /\ committed' \in Nat
      BY <1>1, <1>2 DEF TypeOK, Table, Grows
    <2> QED
      BY <1>1, <1>4, <1>5, <2>1, HandlerStep
  <1>8. RequestsAreBound'
    BY <1>1, <1>4, <1>5, <1>6, HandlerBinds
  <1>9. request'[q] = new /\ \A p \in Requests : p # q => request'[p] = request[p]
    BY <1>2, <1>5 DEF TypeOK
  <1>10. ConfirmedIsStored'
    BY <1>1, <1>2, <1>4, <1>9 DEF ConfirmedIsStored
  <1>11. SpansOfNobody' /\ StoredUnderOwnRun'
    BY <1>1, <1>2 DEF SpansOfNobody, StoredUnderOwnRun, unchangedByHandler, history
  <1>12. AcceptedIsCommitted'
    <2>1. Uncounted' = Uncounted \ {q} /\ q \in Uncounted
      BY <1>1, <1>4, <1>9 DEF Uncounted
    <2>2. Cardinality(Uncounted') = Cardinality(Uncounted) - 1
      BY <2>1, UncountedIsFinite, FS_RemoveElement
    <2>3. accepted + Cardinality(Uncounted) = committed
      BY <1>2 DEF AcceptedIsCommitted, Uncounted
    <2>4. accepted \in Nat /\ Cardinality(Uncounted) \in Nat
      BY <1>2, UncountedIsFinite DEF TypeOK
    <2>5. accepted' + Cardinality(Uncounted') = committed'
      BY <1>1, <2>2, <2>3, <2>4
    <2> QED
      BY <2>5 DEF AcceptedIsCommitted, Uncounted
  <1> QED
    BY <1>7, <1>8, <1>10, <1>11, <1>12 DEF IInv

\* The transaction of a request that the store does not refuse.  Its new rows
\* are of spans that its sender created, and of the run it is bound to.
LEMMA IngestStep ==
  ASSUME IInv, NEW q \in Requests, NEW new \in Request,
         request[q].pc = "ingest", new.pc \in {"count", "reply"},
         new.from = request[q].from, new.events = request[q].events,
         request' = [request EXCEPT ![q] = new], UNCHANGED unchangedByHandler,
         row' \in Table, Grows(row, row'), accepted' \in Nat, committed' \in Nat,
         \A x \in Rows : row'[x] = row[x] \/ \E i \in 1..Len(new.events) : new.events[i].span = x,
         \A x \in Rows : row[x] = None /\ row'[x] # None => row'[x].run = request[q].bound,
         \A i \in 1..Len(new.events) : Stored(row', new.events[i].event, new.events[i].span),
         AcceptedIsCommitted'
  PROVE  IInv'
  <1>1. /\ TypeOK /\ RequestsAreBound /\ ConfirmedIsStored /\ SpansOfNobody /\ StoredUnderOwnRun
        /\ EventsAreOwned
    BY DEF IInv
  <1>2. owner' = owner /\ sent' = sent
    BY DEF unchangedByHandler, history
  <1>3. request'[q] = new /\ \A p \in Requests : p # q => request'[p] = request[p]
    BY <1>1 DEF TypeOK
  <1>4. TypeOK' /\ RunsStartEmpty' /\ EventsAreOwned' /\ EventsAreCounted' /\ NothingIsLost'
    BY HandlerStep
  <1>5. RequestsAreBound'
    <2>1. BoundTo(new)
      BY <1>1 DEF BoundTo, RequestsAreBound
    <2> QED
      BY <2>1, HandlerBinds
  <1>6. ConfirmedIsStored'
    <2> SUFFICES ASSUME NEW p \in Requests,
                        request'[p].pc = "count" \/ (request'[p].pc = "reply" /\ request'[p].ok),
                        NEW i \in 1..Len(request'[p].events)
                 PROVE  Stored(row', request'[p].events[i].event, request'[p].events[i].span)
      BY DEF ConfirmedIsStored
    <2>1. CASE p = q
      BY <1>3, <2>1
    <2>2. CASE p # q
      <3>1. Stored(row, request[p].events[i].event, request[p].events[i].span)
        BY <1>1, <1>3, <2>2 DEF ConfirmedIsStored
      <3>2. request[p].events[i] \in Event
        BY <1>1, <1>3, <2>2, Fields
      <3>3. request[p].events[i].span \in Rows
        BY <3>2, RowFields
      <3> QED
        BY <1>3, <2>2, <3>1, <3>3, StoredStays
    <2> QED
      BY <2>1, <2>2
  <1>7. ASSUME NEW s \in Spans, row'[s] # row[s]
        PROVE  owner[s] = request[q].from /\ request[q].from \in Tracers
    <2>1. PICK i \in 1..Len(new.events) : new.events[i].span = s
      BY <1>7, NamesAreApart
    <2>2. EventsOf(request[q].events, request[q].from) /\ request[q].from \in Tracers
      BY <1>1 DEF EventsAreOwned
    <2> QED
      BY <2>1, <2>2 DEF EventsOf
  <1>8. SpansOfNobody'
    <2> SUFFICES ASSUME NEW s \in Spans, owner[s] = None
                 PROVE  row'[s] = None /\ <<"end", s>> \notin sent
      BY <1>2 DEF SpansOfNobody
    <2>1. row[s] = None /\ <<"end", s>> \notin sent
      BY <1>1 DEF SpansOfNobody
    <2>2. row'[s] = row[s]
      BY <1>7, NamesAreApart
    <2> QED
      BY <2>1, <2>2
  <1>9. StoredUnderOwnRun'
    <2> SUFFICES ASSUME NEW s \in Spans, row'[s] # None, owner[s] \in Runs
                 PROVE  row'[s].run = owner[s]
      BY <1>2 DEF StoredUnderOwnRun
    <2>1. s \in Rows
      BY NamesAreApart
    <2>2. CASE row[s] # None
      BY <1>1, <2>1, <2>2 DEF StoredUnderOwnRun, Grows
    <2>3. CASE row[s] = None
      <3>1. row'[s].run = request[q].bound
        BY <2>1, <2>3
      <3>2. owner[s] = request[q].from
        BY <1>7, <2>3
      <3>3. request[q].bound = request[q].from
        BY <1>1, <3>2 DEF RequestsAreBound
      <3> QED
        BY <3>1, <3>2, <3>3
    <2> QED
      BY <2>2, <2>3
  <1> QED
    BY <1>4, <1>5, <1>6, <1>8, <1>9 DEF IInv

\* TraceStore.ingest with its three outcomes: one event that is committed and
\* counted later, a batch that is committed and counted, or a refusal.
LEMMA IngestRequestStep ==
  ASSUME IInv, NEW q \in Requests, ingest_request(q)
  PROVE  IInv'
  <1> DEFINE t == request[q].from
             events == request[q].events
             source == IF t = Orchestrator THEN "framework-sdk" ELSE "session-sdk"
             r == request[q].bound
  <1>1. TypeOK /\ EventsAreOwned /\ AcceptedIsCommitted
    BY DEF IInv
  <1>2. request[q].pc = "ingest" /\ UNCHANGED unchangedByHandler
    BY DEF ingest_request
  <1>3. /\ request[q] \in Request /\ events \in Seq(Event) /\ r \in Runs \cup {None}
        /\ source \in Sources /\ row \in Table /\ accepted \in Nat /\ committed \in Nat
    BY <1>1, Fields DEF Sources, TypeOK
  <1>4. /\ t \in Tracers /\ Len(events) \in 1..BatchSize[t] /\ Len(events) \in Nat
        /\ 1 <= Len(events) /\ BatchSize[t] \in Nat
    BY <1>1, <1>2, <1>3, NamesAreApart DEF EventsAreOwned
  <1>5. \A i \in 1..Len(events) : events[i] \in Event
    BY <1>3
  <1>6. CASE BatchSize[t] = 1
    <2> DEFINE e == events[1]
    <2>1. Len(events) = 1 /\ e \in Event
      BY <1>4, <1>5, <1>6
    <2>2. CASE Valid(row, e, source, r)
      <3> DEFINE new == [request[q] EXCEPT !.pc = "count"]
                 w == Write(row, e, source, r)
      <3>1. /\ row' = w /\ committed' = committed + 1 /\ accepted' = accepted
            /\ Goto(q, "count")
        BY <1>6, <2>2 DEF ingest_request, ingest
      <3>2. /\ new \in Request /\ new.pc = "count" /\ new.from = t /\ new.events = events
        BY <1>3 DEF Request
      <3>3. request' = [request EXCEPT ![q] = new]
        BY <1>1, <3>1 DEF Goto, TypeOK
      <3> HIDE DEF source
      <3>4. /\ w \in Table /\ Stored(w, e.event, e.span) /\ Grows(row, w)
            /\ \A x \in Rows : x # e.span => w[x] = row[x]
            /\ row[e.span] = None => w[e.span].run = r
        BY <1>3, <2>1, <2>2, WriteStep
      <3> HIDE DEF new, w, e, events, r, t
      <3>5. /\ \A i \in 1..Len(events) : i = 1
            /\ 1 \in 1..Len(events)
        BY <2>1
      <3>6. /\ \A i \in 1..Len(events) : Stored(row', events[i].event, events[i].span)
            /\ \A x \in Rows : row'[x] = row[x] \/ \E i \in 1..Len(events) : events[i].span = x
        BY <3>1, <3>4, <3>5 DEF e
      <3>7. \A x \in Rows : row[x] = None /\ row'[x] # None => row'[x].run = request[q].bound
        BY <3>1, <3>4 DEF r
      <3>8. AcceptedIsCommitted'
        <4>1. request'[q] = new /\ \A p \in Requests : p # q => request'[p] = request[p]
          BY <1>1, <3>3 DEF TypeOK
        <4>2. Uncounted' = Uncounted \cup {q} /\ q \notin Uncounted
          BY <1>2, <3>2, <4>1 DEF Uncounted
        <4>3. Cardinality(Uncounted') = Cardinality(Uncounted) + 1
          BY <4>2, UncountedIsFinite, FS_AddElement
        <4>4. accepted + Cardinality(Uncounted) = committed
          BY <1>1 DEF AcceptedIsCommitted, Uncounted
        <4>5. accepted' + Cardinality(Uncounted') = committed'
          BY <1>3, <3>1, <4>3, <4>4, UncountedIsFinite
        <4> QED
          BY <4>5 DEF AcceptedIsCommitted, Uncounted
      <3>9. row' \in Table /\ Grows(row, row') /\ accepted' \in Nat /\ committed' \in Nat
        BY <1>3, <3>1, <3>4
      <3>10. new.from = request[q].from /\ new.events = request[q].events
        BY <3>2 DEF t, events
      <3> QED
        BY <1>2, <3>2, <3>3, <3>6, <3>7, <3>8, <3>9, <3>10, IngestStep
    <2>3. CASE ~Valid(row, e, source, r)
      <3>1. UNCHANGED store /\ Refuse(q)
        BY <1>6, <2>3 DEF ingest_request, ingest
      <3> QED
        BY <1>2, <3>1, HandlerRefuses
    <2> QED
      BY <2>2, <2>3
  <1>7. CASE BatchSize[t] # 1
    <2> DEFINE o == Apply(events, source, r)
               new == [request[q] EXCEPT !.pc = "reply", !.ok = o.ok]
    <2>1. /\ ingest_batch(events, source, r)
          /\ request' = [request EXCEPT ![q].pc = "reply", ![q].ok = o.ok]
      BY <1>7 DEF ingest_request
    <2>2. o \in Outcome /\ (o.ok = TRUE => Effect(o.rows, events, r))
      <3> HIDE DEF source, events, r
      <3> QED
        BY <1>3, ApplyStep
    <2>3. ingest_batch(events, source, r) =>
            IF o.ok THEN row' = o.rows /\ accepted' = accepted + Len(events)
                         /\ committed' = committed + Len(events)
            ELSE UNCHANGED store
      BY DEF ingest_batch
    <2> HIDE DEF o
    <2>4. o.ok \in BOOLEAN /\ o.rows \in Table
      BY <2>2 DEF Outcome
    <2>5. /\ new \in Request /\ new.pc = "reply" /\ new.ok = o.ok
          /\ new.from = request[q].from /\ new.events = request[q].events
      BY <1>3, <2>4 DEF Request
    <2>6. request' = [request EXCEPT ![q] = new]
      BY <1>1, <2>1 DEF TypeOK
    <2>7. CASE o.ok = TRUE
      <3>1. /\ row' = o.rows /\ accepted' = accepted + Len(events)
            /\ committed' = committed + Len(events)
        BY <2>1, <2>3, <2>7
      <3> HIDE DEF new
      <3>2. AcceptedIsCommitted'
        <4>1. request'[q] = new /\ \A p \in Requests : p # q => request'[p] = request[p]
          BY <1>1, <2>6 DEF TypeOK
        <4>2. Uncounted' = Uncounted
          BY <1>2, <2>5, <4>1 DEF Uncounted
        <4>3. accepted + Cardinality(Uncounted) = committed
          BY <1>1 DEF AcceptedIsCommitted, Uncounted
        <4>4. Cardinality(Uncounted') = Cardinality(Uncounted)
          BY <4>2
        <4> HIDE DEF events
        <4>5. accepted' + Cardinality(Uncounted') = committed'
          BY <1>3, <1>4, <3>1, <4>3, <4>4, UncountedIsFinite
        <4> QED
          BY <4>5 DEF AcceptedIsCommitted, Uncounted
      <3>3. row' \in Table /\ Grows(row, row') /\ accepted' \in Nat /\ committed' \in Nat
        BY <1>3, <1>4, <2>2, <2>4, <2>7, <3>1 DEF Effect
      <3>4. /\ \A i \in 1..Len(new.events) : Stored(row', new.events[i].event, new.events[i].span)
            /\ \A x \in Rows : row'[x] = row[x] \/ \E i \in 1..Len(new.events) : new.events[i].span = x
            /\ \A x \in Rows : row[x] = None /\ row'[x] # None => row'[x].run = request[q].bound
        BY <2>2, <2>5, <2>7, <3>1 DEF Effect
      <3> QED
        BY <1>2, <2>5, <2>6, <3>2, <3>3, <3>4, IngestStep
    <2>8. CASE o.ok = FALSE
      <3>1. UNCHANGED store
        BY <2>1, <2>3, <2>8
      <3>2. Refuse(q)
        BY <2>1, <2>8 DEF Refuse
      <3> QED
        BY <1>2, <3>1, <3>2, HandlerRefuses
    <2> QED
      BY <2>4, <2>7, <2>8
  <1> QED
    BY <1>6, <1>7

\* The answer ends the wait of the Tracer that sent the request, if it still
\* waits, and only a confirmed event stops being in flight without a failure.
LEMMA ReplyStep ==
  ASSUME IInv, NEW q \in Requests, reply(q)
  PROVE  IInv'
  <1> DEFINE t == request[q].from
             n == Len(request[q].events)
             ok == request[q].ok
  <1>1. /\ TypeOK /\ RunsStartEmpty /\ EventsAreOwned /\ RequestsAreBound /\ EventsAreCounted
        /\ ConfirmedIsStored /\ NothingIsLost /\ SpansOfNobody /\ StoredUnderOwnRun
        /\ AcceptedIsCommitted
    BY DEF IInv
  <1>2. /\ request[q].pc = "reply" /\ request' = [request EXCEPT ![q] = NoRequest]
        /\ run' = run /\ row' = row /\ accepted' = accepted /\ committed' = committed
        /\ crashes' = crashes /\ owner' = owner /\ sent' = sent
    BY DEF reply, store, history
  <1>3. /\ t \in Tracers /\ n \in Nat /\ 1 <= n /\ ok \in BOOLEAN
    <2>1. t \in Tracers /\ n \in 1..BatchSize[t] /\ ok \in BOOLEAN
      BY <1>1, <1>2, Fields DEF EventsAreOwned
    <2>2. BatchSize[t] \in Nat
      BY <2>1, NamesAreApart
    <2> HIDE DEF t, n
    <2> QED
      BY <2>1, <2>2
  <1>4. /\ request' \in [Requests -> Request] /\ request'[q] = NoRequest
        /\ request'[q].pc = "free"
        /\ \A p \in Requests : p # q => request'[p] = request[p]
    BY <1>1, <1>2, NewRecords DEF TypeOK
  <1>5. ASSUME NEW u \in Tracers, tracer[u].waits = q PROVE u = t
    BY <1>1, <1>5, NamesAreApart DEF EventsAreCounted
  <1> DEFINE after == [tracer[t] EXCEPT !.waits = None,
                          !.acknowledged = IF ok THEN @ + n ELSE @,
                          !.failed = IF ok THEN @ ELSE @ + n]
  <1>6. \/ tracer[t].waits # q /\ tracer' = tracer
        \/ tracer[t].waits = q /\ tracer' = [tracer EXCEPT ![t] = after]
    <2>1. CASE tracer[t].waits # q
      BY <2>1 DEF reply
    <2>2. CASE tracer[t].waits = q
      BY <1>1, <1>3, <2>2 DEF reply, TypeOK
    <2> QED
      BY <2>1, <2>2
  <1>7. /\ after \in Tracer /\ after.pending = tracer[t].pending /\ after.waits = None
        /\ after.attempted = tracer[t].attempted
        /\ after.acknowledged = (IF ok THEN tracer[t].acknowledged + n ELSE tracer[t].acknowledged)
        /\ after.failed = (IF ok THEN tracer[t].failed ELSE tracer[t].failed + n)
    <2>1. tracer[t] \in Tracer
      BY <1>1, <1>3, Fields
    <2> HIDE DEF t, n, ok
    <2> QED
      <3>1. /\ tracer[t].pending \in Seq(Event) /\ tracer[t].attempted \in Nat
            /\ tracer[t].acknowledged \in Nat /\ tracer[t].failed \in Nat
        BY <2>1 DEF Tracer
      <3> DEFINE a == IF ok THEN tracer[t].acknowledged + n ELSE tracer[t].acknowledged
                 f == IF ok THEN tracer[t].failed ELSE tracer[t].failed + n
                 w == tracer[t]
      <3>2. a \in Nat /\ f \in Nat
        BY <1>3, <3>1
      <3>3. after = [w EXCEPT !.waits = None, !.acknowledged = a, !.failed = f]
        OBVIOUS
      <3> HIDE DEF a, f, after, w
      <3>4. w \in Tracer
        BY <2>1 DEF w
      <3>5. /\ after.pending = w.pending /\ after.waits = None
            /\ after.attempted = w.attempted /\ after.acknowledged = a /\ after.failed = f
        BY <3>3, <3>4 DEF Tracer
      <3>6. after \in Tracer
        BY <3>2, <3>3, <3>4 DEF Tracer
      <3> QED
        BY <3>6, <3>5 DEF a, f, w
  <1> HIDE DEF after, t, n, ok
  <1>8. /\ tracer' \in [Tracers -> Tracer]
        /\ \A u \in Tracers : u # t => tracer'[u] = tracer[u]
        /\ \A u \in Tracers : tracer[u].waits # q => tracer'[u] = tracer[u]
        /\ tracer[t].waits = q => tracer'[t] = after
        /\ \A u \in Tracers : tracer'[u].pending = tracer[u].pending
        /\ \A u \in Tracers : tracer'[u].waits # q
    <2>1. tracer \in [Tracers -> Tracer]
      BY <1>1 DEF TypeOK
    <2>2. None # q
      BY NamesAreApart
    <2>3. CASE tracer[t].waits # q /\ tracer' = tracer
      BY <1>5, <2>1, <2>3
    <2>4. CASE tracer[t].waits = q /\ tracer' = [tracer EXCEPT ![t] = after]
      <3>1. tracer' \in [Tracers -> Tracer] /\ tracer'[t] = after
            /\ \A u \in Tracers : u # t => tracer'[u] = tracer[u]
        BY <1>3, <1>7, <2>1, <2>4
      <3> QED
        BY <1>5, <1>7, <2>2, <2>4, <3>1
    <2> QED
      BY <1>6, <2>3, <2>4
  <1>9. TypeOK'
    BY <1>1, <1>2, <1>4, <1>8 DEF TypeOK
  <1>10. RunsStartEmpty'
    <2>1. \A r \in Runs : tracer[r] = NewTracer => tracer'[r] = tracer[r]
      BY <1>8, NewRecords, NamesAreApart
    <2> QED
      BY <1>1, <1>2, <2>1 DEF RunsStartEmpty
  <1>11. EventsAreOwned'
    BY <1>1, <1>2, <1>4, <1>8 DEF EventsAreOwned, EventsOf
  <1>12. RequestsAreBound' /\ ConfirmedIsStored'
    <2>1. RequestsAreBound'
      BY <1>1, <1>2, <1>4 DEF RequestsAreBound
    <2>2. ConfirmedIsStored'
      BY <1>1, <1>2, <1>4 DEF ConfirmedIsStored
    <2> QED
      BY <2>1, <2>2
  <1>13. EventsAreCounted'
    <2> SUFFICES ASSUME NEW u \in Tracers
                 PROVE  /\ tracer'[u].waits # None => /\ request'[tracer'[u].waits].pc # "free"
                                                      /\ request'[tracer'[u].waits].from = u
                        /\ tracer'[u].attempted = tracer'[u].acknowledged + tracer'[u].failed
                             + Len(tracer'[u].pending) + Len(InRequest(u)')
      BY DEF EventsAreCounted
    <2>1. tracer[u].attempted = tracer[u].acknowledged + tracer[u].failed
                                + Len(tracer[u].pending) + Len(InRequest(u))
      BY <1>1 DEF EventsAreCounted
    <2>2. CASE tracer[u].waits # q
      <3>1. tracer'[u] = tracer[u]
        BY <1>8, <2>2
      <3>2. tracer[u].waits # None => request'[tracer[u].waits] = request[tracer[u].waits]
        BY <1>1, <1>4, <2>2, Fields
      <3>3. InRequest(u)' = InRequest(u)
        BY <3>1, <3>2 DEF InRequest
      <3>4. tracer[u].waits # None => /\ request[tracer[u].waits].pc # "free"
                                      /\ request[tracer[u].waits].from = u
        BY <1>1 DEF EventsAreCounted
      <3> QED
        BY <2>1, <3>1, <3>2, <3>3, <3>4
    <2>3. CASE tracer[u].waits = q
      <3>1. u = t /\ tracer'[t] = after
        BY <1>5, <1>8, <2>3
      <3>2. Len(InRequest(u)) = n
        BY <2>3, NamesAreApart DEF InRequest, n
      <3>3. InRequest(u)' = <<>>
        BY <1>7, <3>1 DEF InRequest
      <3>4. Len(InRequest(u)') = 0
        BY <3>3
      <3>5. /\ tracer[t].attempted \in Nat /\ tracer[t].acknowledged \in Nat
            /\ tracer[t].failed \in Nat /\ Len(tracer[t].pending) \in Nat
        BY <1>1, <1>3, Fields
      <3>6. /\ tracer'[t].attempted = tracer[t].attempted
            /\ Len(tracer'[t].pending) = Len(tracer[t].pending)
            /\ tracer'[t].waits = None
            /\ tracer'[t].acknowledged + tracer'[t].failed
                 = tracer[t].acknowledged + tracer[t].failed + n
        BY <1>3, <1>7, <3>1, <3>5
      <3>7. tracer'[t].acknowledged \in Nat /\ tracer'[t].failed \in Nat
        BY <1>3, <1>7, <3>1, <3>5
      <3>8. tracer[t].attempted = tracer[t].acknowledged + tracer[t].failed
                                  + Len(tracer[t].pending) + n
        BY <2>1, <3>1, <3>2
      <3>9. tracer'[t].attempted = tracer'[t].acknowledged + tracer'[t].failed
                                   + Len(tracer'[t].pending) + 0
        BY <1>3, <3>5, <3>6, <3>7, <3>8
      <3> QED
        BY <3>1, <3>4, <3>6, <3>9
    <2> QED
      BY <2>2, <2>3
  <1>14. NothingIsLost'
    <2> SUFFICES ASSUME NEW u \in Tracers, Alive(u)', tracer'[u].failed = 0,
                        NEW s \in Spans, owner'[s] = u
                 PROVE  /\ Kept(u, "start", s)'
                        /\ <<"end", s>> \in sent' => Kept(u, "end", s)'
      BY DEF NothingIsLost
    <2>1. Alive(u)
      BY <1>2 DEF Alive
    <2>2. CASE tracer[u].waits # q
      <3>1. tracer'[u] = tracer[u]
        BY <1>8, <2>2
      <3>2. tracer[u].waits # None => request'[tracer[u].waits] = request[tracer[u].waits]
        BY <1>1, <1>4, <2>2, Fields
      <3>3. Kept(u, "start", s) /\ (<<"end", s>> \in sent => Kept(u, "end", s))
        BY <1>1, <1>2, <2>1, <3>1 DEF NothingIsLost
      <3>4. Grows(row, row')
        BY <1>2 DEF Grows
      <3> QED
        BY <1>1, <1>2, <3>1, <3>2, <3>3, <3>4, KeptStays
    <2>3. CASE tracer[u].waits = q
      <3>1. u = t /\ tracer'[t] = after
        BY <1>5, <1>8, <2>3
      <3>2. tracer[t].failed \in Nat
        BY <1>1, <1>3, Fields
      <3>3. ok = TRUE /\ tracer[t].failed = 0
        BY <1>3, <1>7, <3>1, <3>2
      <3>4. Kept(u, "start", s) /\ (<<"end", s>> \in sent => Kept(u, "end", s))
        BY <1>1, <1>2, <2>1, <3>1, <3>3 DEF NothingIsLost
      <3>5. \A i \in 1..Len(request[q].events) :
              Stored(row, request[q].events[i].event, request[q].events[i].span)
        BY <1>1, <1>2, <3>3 DEF ConfirmedIsStored, ok
      <3>6. InRequest(u) = request[q].events
        BY <2>3, NamesAreApart DEF InRequest
      <3>7. ASSUME NEW event, Kept(u, event, s) PROVE Kept(u, event, s)'
        <4>1. CASE Holds(InRequest(u), event, s)
          <5>1. Stored(row, event, s)
            BY <3>5, <3>6, <4>1 DEF Holds
          <5> QED
            BY <1>2, <5>1 DEF Kept
        <4>2. CASE Stored(row, event, s)
          BY <1>2, <4>2 DEF Kept
        <4>3. CASE Holds(tracer[u].pending, event, s)
          <5>1. Holds(tracer'[u].pending, event, s)
            BY <1>8, <4>3
          <5> QED
            BY <5>1 DEF Kept
        <4> QED
          BY <3>7, <4>1, <4>2, <4>3 DEF Kept
      <3> QED
        BY <1>2, <3>4, <3>7
    <2> QED
      BY <2>2, <2>3
  <1>15. SpansOfNobody' /\ StoredUnderOwnRun'
    BY <1>1, <1>2 DEF SpansOfNobody, StoredUnderOwnRun
  <1>16. AcceptedIsCommitted'
    <2>1. Uncounted' = Uncounted
      BY <1>2, <1>4 DEF Uncounted
    <2> QED
      BY <1>1, <1>2, <2>1 DEF AcceptedIsCommitted, Uncounted
  <1> QED
    BY <1>9, <1>10, <1>11, <1>12, <1>13, <1>14, <1>15, <1>16 DEF IInv

-----------------------------------------------------------------------------
(* The Tracers *)

\* A Tracer takes only spans that nobody has, and ends only its own.
OwnerStep(t) ==
  /\ owner' \in [Spans -> Tracers \cup {None}]
  /\ sent' \subseteq {"start", "end"} \X Spans
  /\ \A s \in Spans : owner'[s] = owner[s] \/ (owner[s] = None /\ owner'[s] = t)
  /\ \A s \in Spans : owner'[s] # t /\ <<"end", s>> \in sent' => <<"end", s>> \in sent

EventsNowOf(events, t) ==
  \A i \in 1..Len(events) : events[i].span \in Spans /\ owner'[events[i].span] = t

\* What a Tracer's step does to the requests: nothing, or a free handler takes
\* the request rq.
Outgoing(t, new, rq) ==
  \/ new.waits = None /\ request' = request
  \/ /\ new.waits \in Requests /\ request[new.waits].pc = "free"
     /\ request' = [request EXCEPT ![new.waits] = rq]
     /\ rq \in Request /\ rq.from = t
     /\ rq.pc = IF t = Orchestrator THEN "ingest" ELSE "accept"
     /\ EventsNowOf(rq.events, t) /\ Len(rq.events) \in 1..BatchSize[t]

\* A step of the Tracer t, which becomes new, needs a look at t only.
LEMMA TracerStep ==
  ASSUME IInv, NEW t \in Tracers, NEW new \in Tracer, NEW rq,
         t \in Runs => run[t].pc \notin {"new", "prepared", "started"},
         tracer' = [tracer EXCEPT ![t] = new],
         UNCHANGED <<run, row, accepted, committed, crashes>>,
         OwnerStep(t), Outgoing(t, new, rq),
         EventsNowOf(new.pending, t), Len(new.pending) < BatchSize[t],
         new.attempted = new.acknowledged + new.failed + Len(new.pending) + Len(InRequest(t)'),
         new.failed = 0 /\ Alive(t) => \A s \in Spans : owner'[s] = t =>
           Kept(t, "start", s)' /\ (<<"end", s>> \in sent' => Kept(t, "end", s)')
  PROVE  IInv'
  <1>1. /\ TypeOK /\ RunsStartEmpty /\ EventsAreOwned /\ RequestsAreBound /\ EventsAreCounted
        /\ ConfirmedIsStored /\ NothingIsLost /\ SpansOfNobody /\ StoredUnderOwnRun
        /\ AcceptedIsCommitted
    BY DEF IInv
  <1>2. /\ tracer' \in [Tracers -> Tracer] /\ tracer'[t] = new
        /\ \A u \in Tracers : u # t => tracer'[u] = tracer[u]
    BY <1>1 DEF TypeOK
  <1>3. /\ request' \in [Requests -> Request]
        /\ \A p \in Requests : request[p].pc # "free" => request'[p] = request[p]
        /\ \A p \in Requests : request'[p] = request[p] \/ (request'[p] = rq /\ request' # request)
    BY <1>1 DEF TypeOK, Outgoing
  <1>4. \A s \in Spans : owner[s] # None => owner'[s] = owner[s]
    BY DEF OwnerStep
  <1>5. request' # request =>
          /\ rq.from = t /\ EventsNowOf(rq.events, t) /\ Len(rq.events) \in 1..BatchSize[t]
          /\ rq.pc = IF t = Orchestrator THEN "ingest" ELSE "accept"
    BY DEF Outgoing
  <1>6. TypeOK'
    BY <1>1, <1>2, <1>3 DEF TypeOK, OwnerStep
  <1>7. RunsStartEmpty'
    <2>1. ASSUME NEW r \in Runs, run[r].pc \in {"new", "prepared", "started"}
          PROVE  tracer'[r] = NewTracer /\ \A s \in Spans : owner'[s] # r
      <3>1. r # t /\ r \in Tracers /\ r # None
        BY <2>1, NamesAreApart
      <3>2. tracer[r] = NewTracer /\ \A s \in Spans : owner[s] # r
        BY <1>1, <2>1 DEF RunsStartEmpty
      <3> QED
        BY <1>2, <3>1, <3>2 DEF OwnerStep
    <2> QED
      BY <1>1, <2>1 DEF RunsStartEmpty
  <1>9. EventsAreOwned'
    <2>1. ASSUME NEW u \in Tracers
          PROVE  EventsNowOf(tracer'[u].pending, u) /\ Len(tracer'[u].pending) < BatchSize[u]
      <3>1. CASE u = t
        BY <1>2, <3>1
      <3>2. CASE u # t
        <4>1. tracer'[u] = tracer[u] /\ tracer[u].pending \in Seq(Event)
          BY <1>1, <1>2, <3>2, Fields
        <4>2. EventsOf(tracer[u].pending, u) /\ Len(tracer[u].pending) < BatchSize[u]
          BY <1>1 DEF EventsAreOwned
        <4>3. EventsNowOf(tracer[u].pending, u)
          BY <1>4, <4>1, <4>2, NamesAreApart DEF EventsOf, EventsNowOf
        <4> QED
          BY <4>1, <4>2, <4>3
      <3> QED
        BY <3>1, <3>2
    <2>2. ASSUME NEW p \in Requests, request'[p].pc # "free"
          PROVE  /\ request'[p].from \in Tracers
                 /\ EventsNowOf(request'[p].events, request'[p].from)
                 /\ Len(request'[p].events) \in 1..BatchSize[request'[p].from]
      <3>1. CASE request'[p] = request[p]
        <4>1. /\ request[p].from \in Tracers
              /\ EventsOf(request[p].events, request[p].from)
              /\ Len(request[p].events) \in 1..BatchSize[request[p].from]
          BY <1>1, <2>2, <3>1 DEF EventsAreOwned
        <4>2. EventsNowOf(request'[p].events, request'[p].from)
          BY <1>4, <3>1, <4>1, NamesAreApart DEF EventsOf, EventsNowOf
        <4> QED
          BY <3>1, <4>1, <4>2
      <3>2. CASE request'[p] = rq /\ request' # request
        <4>1. request'[p].from = t /\ EventsNowOf(rq.events, t) /\ Len(rq.events) \in 1..BatchSize[t]
          BY <1>5, <3>2
        <4> QED
          BY <3>2, <4>1 DEF EventsOf, EventsNowOf
      <3> QED
        BY <1>3, <3>1, <3>2
    <2> QED
      BY <2>1, <2>2 DEF EventsAreOwned, EventsOf, EventsNowOf
  <1>10. RequestsAreBound'
    <2> SUFFICES ASSUME NEW p \in Requests, request'[p].pc # "free", request'[p].from \in Runs
                 PROVE  /\ run[request'[p].from].pc \in {"live", "empty", "over"}
                        /\ request'[p].pc = "admit" /\ run[request'[p].from].pc = "live" =>
                             request'[p].bound = request'[p].from
                        /\ request'[p].pc \in {"compare", "ingest"} =>
                             request'[p].bound = request'[p].from
      BY DEF RequestsAreBound
    <2>1. CASE request'[p] = request[p]
      BY <1>1, <2>1 DEF RequestsAreBound
    <2>2. CASE request'[p] = rq /\ request' # request
      <3>1. request'[p].from = t /\ t \in Runs
        BY <1>5, <2>2
      <3>2. request'[p].pc = "accept"
        BY <1>5, <2>2, <3>1, NamesAreApart
      <3>3. run[t].pc \in {"new", "prepared", "started", "live", "empty", "over"}
        BY <1>1, <3>1 DEF TypeOK, Run
      <3> QED
        BY <3>1, <3>2, <3>3
    <2> QED
      BY <1>3, <2>1, <2>2
  <1>11. ASSUME NEW u \in Tracers, u # t
         PROVE  /\ tracer'[u] = tracer[u]
                /\ tracer[u].waits # None => request'[tracer[u].waits] = request[tracer[u].waits]
                /\ InRequest(u)' = InRequest(u)
    <2>1. tracer'[u] = tracer[u] /\ tracer[u].waits \in Requests \cup {None}
      BY <1>1, <1>2, <1>11, Fields
    <2>2. tracer[u].waits # None => request'[tracer[u].waits] = request[tracer[u].waits]
      BY <1>1, <1>3, <2>1 DEF EventsAreCounted
    <2> QED
      BY <2>1, <2>2 DEF InRequest
  <1>12. EventsAreCounted'
    <2> SUFFICES ASSUME NEW u \in Tracers
                 PROVE  /\ tracer'[u].waits # None => /\ request'[tracer'[u].waits].pc # "free"
                                                      /\ request'[tracer'[u].waits].from = u
                        /\ tracer'[u].attempted = tracer'[u].acknowledged + tracer'[u].failed
                             + Len(tracer'[u].pending) + Len(InRequest(u)')
      BY DEF EventsAreCounted
    <2>1. CASE u = t
      <3>1. tracer'[u] = new
        BY <1>2, <2>1
      <3>2. new.waits # None => request'[new.waits].pc # "free" /\ request'[new.waits].from = t
        <4>1. ASSUME new.waits # None PROVE request'[new.waits] = rq /\ request' # request
          <5>1. /\ new.waits \in Requests /\ request[new.waits].pc = "free"
                /\ request' = [request EXCEPT ![new.waits] = rq]
                /\ rq.pc = IF t = Orchestrator THEN "ingest" ELSE "accept"
            BY <4>1 DEF Outgoing
          <5>2. request'[new.waits] = rq /\ rq.pc # "free"
            BY <1>1, <5>1 DEF TypeOK
          <5> QED
            BY <5>1, <5>2
        <4> QED
          BY <1>5, <4>1
      <3> QED
        BY <2>1, <3>1, <3>2
    <2>2. CASE u # t
      <3>1. tracer'[u] = tracer[u] /\ InRequest(u)' = InRequest(u)
        BY <1>11, <2>2
      <3>2. tracer[u].waits # None => request'[tracer[u].waits] = request[tracer[u].waits]
        BY <1>11, <2>2
      <3>3. /\ tracer[u].waits # None => /\ request[tracer[u].waits].pc # "free"
                                         /\ request[tracer[u].waits].from = u
            /\ tracer[u].attempted = tracer[u].acknowledged + tracer[u].failed
                                     + Len(tracer[u].pending) + Len(InRequest(u))
        BY <1>1 DEF EventsAreCounted
      <3> QED
        BY <3>1, <3>2, <3>3
    <2> QED
      BY <2>1, <2>2
  <1>13. ConfirmedIsStored'
    <2>1. \A p \in Requests : \/ request'[p] = request[p]
                              \/ request'[p].pc \in {"ingest", "accept"}
      BY <1>3, <1>5
    <2> QED
      BY <1>1, <2>1 DEF ConfirmedIsStored
  <1>14. NothingIsLost'
    <2> SUFFICES ASSUME NEW u \in Tracers, Alive(u)', tracer'[u].failed = 0,
                        NEW s \in Spans, owner'[s] = u
                 PROVE  /\ Kept(u, "start", s)'
                        /\ <<"end", s>> \in sent' => Kept(u, "end", s)'
      BY DEF NothingIsLost
    <2>1. Alive(u)
      BY DEF Alive
    <2>2. CASE u = t
      BY <1>2, <2>1, <2>2
    <2>3. CASE u # t
      <3>1. tracer'[u] = tracer[u] /\ owner[s] = u
        BY <1>11, <2>3 DEF OwnerStep
      <3>2. tracer[u].waits # None => request'[tracer[u].waits] = request[tracer[u].waits]
        BY <1>11, <2>3
      <3>3. <<"end", s>> \in sent' => <<"end", s>> \in sent
        BY <2>3 DEF OwnerStep
      <3>4. Kept(u, "start", s) /\ (<<"end", s>> \in sent => Kept(u, "end", s))
        BY <1>1, <2>1, <3>1 DEF NothingIsLost
      <3>5. Grows(row, row')
        BY DEF Grows
      <3> QED
        BY <1>1, <3>1, <3>2, <3>3, <3>4, <3>5, KeptStays
    <2> QED
      BY <2>2, <2>3
  <1>15. SpansOfNobody'
    <2>1. ASSUME NEW s \in Spans, owner'[s] = None PROVE owner[s] = None /\ <<"end", s>> \notin sent'
      <3>1. owner[s] = None /\ owner'[s] # t
        BY <2>1, NamesAreApart DEF OwnerStep
      <3> QED
        BY <1>1, <3>1 DEF SpansOfNobody, OwnerStep
    <2> QED
      BY <1>1, <2>1 DEF SpansOfNobody
  <1>16. StoredUnderOwnRun'
    <2>1. \A s \in Spans : row[s] # None => owner'[s] = owner[s]
      BY <1>1, <1>4 DEF SpansOfNobody
    <2> QED
      BY <1>1, <2>1 DEF StoredUnderOwnRun
  <1>17. AcceptedIsCommitted'
    <2>1. \A p \in Requests : request'[p].pc = "count" <=> request[p].pc = "count"
      BY <1>3, <1>5
    <2>2. Uncounted' = Uncounted
      BY <2>1 DEF Uncounted
    <2> QED
      BY <1>1, <2>2 DEF AcceptedIsCommitted, Uncounted
  <1> QED
    BY <1>6, <1>7, <1>9, <1>10, <1>12, <1>13, <1>14, <1>15, <1>16, <1>17 DEF IInv

\* Everything that t was given, with this step, is stored or among the events.
AllIn(events, t) ==
  \A s \in Spans : owner'[s] = t =>
    /\ Stored(row, "start", s) \/ Holds(events, "start", s)
    /\ <<"end", s>> \in sent' => Stored(row, "end", s) \/ Holds(events, "end", s)

\* A Tracer that waits for nothing has all its events pending.
LEMMA PendingIsAll ==
  ASSUME IInv, NEW t \in Tracers, tracer[t].waits = None
  PROVE  /\ tracer[t].attempted = tracer[t].acknowledged + tracer[t].failed + Len(tracer[t].pending)
         /\ Alive(t) /\ tracer[t].failed = 0 => \A s \in Spans : owner[s] = t =>
              /\ Stored(row, "start", s) \/ Holds(tracer[t].pending, "start", s)
              /\ <<"end", s>> \in sent =>
                   Stored(row, "end", s) \/ Holds(tracer[t].pending, "end", s)
  <1>1. TypeOK /\ EventsAreCounted /\ NothingIsLost
    BY DEF IInv
  <1>2. InRequest(t) = <<>>
    BY DEF InRequest
  <1>3. Len(InRequest(t)) = 0 /\ \A event, s : ~Holds(InRequest(t), event, s)
    BY <1>2 DEF Holds
  <1>4. /\ tracer[t].attempted \in Nat /\ tracer[t].acknowledged \in Nat
        /\ tracer[t].failed \in Nat /\ Len(tracer[t].pending) \in Nat
    BY <1>1, Fields
  <1>5. tracer[t].attempted = tracer[t].acknowledged + tracer[t].failed
                              + Len(tracer[t].pending) + Len(InRequest(t))
    BY <1>1 DEF EventsAreCounted
  <1>6. tracer[t].attempted = tracer[t].acknowledged + tracer[t].failed + Len(tracer[t].pending)
    BY <1>3, <1>4, <1>5
  <1> QED
    BY <1>1, <1>3, <1>6 DEF NothingIsLost, Kept

LEMMA SendStep ==
  ASSUME IInv, NEW t \in Tracers, NEW q \in Requests, NEW events \in Seq(Event),
         NEW counted \in {0, 1}, Send(t, q, events, counted), Alive(t), tracer[t].waits = None,
         UNCHANGED <<run, row, accepted, committed, crashes>>, OwnerStep(t),
         EventsNowOf(events, t), Len(events) \in 1..BatchSize[t],
         Len(events) = Len(tracer[t].pending) + counted,
         tracer[t].failed = 0 => AllIn(events, t)
  PROVE  IInv'
  <1> DEFINE w == tracer[t]
             new == [w EXCEPT !.pending = <<>>, !.waits = q, !.attempted = w.attempted + counted]
             rq == [NoRequest EXCEPT !.pc = IF t = Orchestrator THEN "ingest" ELSE "accept",
                                     !.from = t, !.events = events]
  <1>1. TypeOK
    BY DEF IInv
  <1>2. /\ w \in Tracer /\ w.attempted \in Nat /\ w.acknowledged \in Nat /\ w.failed \in Nat
        /\ Len(w.pending) \in Nat
    BY <1>1, Fields
  <1>3. /\ request[q].pc = "free" /\ request' = [request EXCEPT ![q] = rq]
        /\ tracer' = [tracer EXCEPT ![t] = new]
    BY <1>1 DEF Send, TypeOK
  <1>4. /\ rq \in Request /\ rq.from = t /\ rq.events = events
        /\ rq.pc = IF t = Orchestrator THEN "ingest" ELSE "accept"
    BY DEF NoRequest, Request
  <1>5. /\ new.pending = <<>> /\ new.waits = q /\ new.attempted = w.attempted + counted
        /\ new.acknowledged = w.acknowledged /\ new.failed = w.failed
    <2> HIDE DEF w
    <2> QED
      BY <1>2 DEF Tracer
  <1>6. new \in Tracer
    <2> HIDE DEF w
    <2>1. <<>> \in Seq(Event) /\ w.attempted + counted \in Nat
      BY <1>2
    <2> QED
      BY <1>2, <2>1 DEF Tracer
  <1> HIDE DEF w, new, rq
  <1>7. Outgoing(t, new, rq)
    BY <1>3, <1>4, <1>5 DEF Outgoing
  <1>8. Len(new.pending) = 0 /\ EventsNowOf(new.pending, t) /\ Len(new.pending) < BatchSize[t]
    <2>1. Len(new.pending) = 0
      BY <1>5
    <2> QED
      BY <2>1, NamesAreApart DEF EventsNowOf
  <1>9. tracer'[t] = new /\ request'[q] = rq
    BY <1>1, <1>3 DEF TypeOK
  <1>10. InRequest(t)' = events
    BY <1>4, <1>5, <1>9, NamesAreApart DEF InRequest
  <1>11. new.attempted = new.acknowledged + new.failed + Len(new.pending) + Len(InRequest(t)')
    <2>1. w.attempted = w.acknowledged + w.failed + Len(w.pending)
      BY PendingIsAll DEF w
    <2>2. Len(events) = Len(w.pending) + counted
      BY DEF w
    <2>3. Len(InRequest(t)') = Len(w.pending) + counted
      BY <1>10, <2>2
    <2>4. counted \in Nat
      OBVIOUS
    <2> QED
      BY <1>2, <1>5, <1>8, <2>1, <2>3, <2>4
  <1>12. new.failed = 0 => \A s \in Spans : owner'[s] = t =>
           Kept(t, "start", s)' /\ (<<"end", s>> \in sent' => Kept(t, "end", s)')
    <2>1. \A event, s : Stored(row, event, s) \/ Holds(events, event, s) => Kept(t, event, s)'
      BY <1>10 DEF Kept
    <2>2. new.failed = 0 => AllIn(events, t)
      BY <1>5 DEF w
    <2> QED
      BY <2>1, <2>2 DEF AllIn
  <1>13. t \in Runs => run[t].pc \notin {"new", "prepared", "started"}
    BY NamesAreApart DEF Alive
  <1> QED
    BY <1>3, <1>6, <1>7, <1>8, <1>11, <1>12, <1>13, TracerStep

LEMMA FlushStep ==
  ASSUME IInv, NEW t \in Tracers, flush(t)
  PROVE  IInv'
  <1> DEFINE events == tracer[t].pending
  <1>1. TypeOK /\ EventsAreOwned /\ SpansOfNobody
    BY DEF IInv
  <1>2. /\ Alive(t) /\ tracer[t].waits = None /\ events # <<>>
        /\ UNCHANGED <<run, row, accepted, committed, crashes>> /\ owner' = owner /\ sent' = sent
    BY DEF flush, store, history
  <1>3. PICK q \in Requests : Send(t, q, events, 0)
    BY DEF flush
  <1>4. events \in Seq(Event) /\ Len(events) \in Nat /\ BatchSize[t] \in Nat
    BY <1>1, Fields, NamesAreApart
  <1>5. EventsOf(events, t) /\ Len(events) < BatchSize[t]
    BY <1>1 DEF EventsAreOwned
  <1>6. EventsNowOf(events, t)
    BY <1>2, <1>5 DEF EventsOf, EventsNowOf
  <1>7. OwnerStep(t)
    BY <1>1, <1>2 DEF OwnerStep, TypeOK
  <1>8. tracer[t].failed = 0 => AllIn(events, t)
    BY <1>2, PendingIsAll DEF AllIn
  <1>9. Len(events) \in 1..BatchSize[t] /\ Len(events) = Len(tracer[t].pending) + 0
    BY <1>2, <1>4, <1>5
  <1> HIDE DEF events
  <1> QED
    BY <1>2, <1>3, <1>4, <1>6, <1>7, <1>8, <1>9, SendStep

\* An event of a span that t created, now or earlier, is buffered or sent.
LEMMA EmitStep ==
  ASSUME IInv, NEW t \in Tracers, NEW e \in Event, e.span \in Spans, emit(t, e),
         owner' \in [Spans -> Tracers \cup {None}], owner'[e.span] = t,
         \A s \in Spans : \/ owner'[s] = owner[s]
                          \/ owner[s] = None /\ s = e.span /\ e.event = "start"
  PROVE  IInv'
  <1> DEFINE w == tracer[t]
             events == Append(w.pending, e)
             n == Len(w.pending)
  <1>1. TypeOK /\ EventsAreOwned /\ SpansOfNobody
    BY DEF IInv
  <1>2. /\ Alive(t) /\ w.waits = None /\ sent' = sent \cup {<<e.event, e.span>>}
        /\ UNCHANGED <<run, row, accepted, committed, crashes>>
    BY DEF emit, store
  <1>3. /\ w \in Tracer /\ w.pending \in Seq(Event) /\ w.attempted \in Nat
        /\ w.acknowledged \in Nat /\ w.failed \in Nat /\ BatchSize[t] \in Nat
    BY <1>1, Fields, NamesAreApart
  <1>4. /\ events \in Seq(Event) /\ Len(events) = n + 1 /\ n \in Nat
        /\ events[n + 1] = e /\ \A i \in 1..n : events[i] = w.pending[i]
    BY <1>3
  <1>5. e.event \in {"start", "end"}
    BY RowFields
  <1>6. OwnerStep(t)
    <2>1. sent' \subseteq {"start", "end"} \X Spans
      BY <1>1, <1>2, <1>5 DEF TypeOK
    <2>2. \A s \in Spans : owner'[s] # t /\ <<"end", s>> \in sent' => <<"end", s>> \in sent
      BY <1>2
    <2> QED
      BY <2>1, <2>2 DEF OwnerStep
  <1>7. EventsOf(w.pending, t) /\ n < BatchSize[t]
    BY <1>1 DEF EventsAreOwned
  <1>8. \A i \in 1..(n + 1) : i \in 1..n \/ i = n + 1
    BY <1>4
  <1>9. EventsNowOf(events, t)
    <2>1. \A s \in Spans : owner[s] = t => owner'[s] = t
      BY NamesAreApart
    <2> HIDE DEF w, events, n
    <2>2. \A i \in 1..n : w.pending[i].span \in Spans /\ owner[w.pending[i].span] = t
      BY <1>7 DEF EventsOf, n
    <2> QED
      BY <1>4, <1>8, <2>1, <2>2 DEF EventsNowOf
  <1>10. w.failed = 0 => AllIn(events, t)
    <2>1. \A event, s : Holds(w.pending, event, s) => Holds(events, event, s)
      <3>1. \A i \in 1..n : i \in 1..(n + 1)
        BY <1>4
      <3> HIDE DEF w, events
      <3> QED
        BY <1>4, <3>1 DEF Holds, n
    <2>2. Holds(events, e.event, e.span)
      <3>1. n + 1 \in 1..(n + 1)
        BY <1>4
      <3> HIDE DEF w, events, n
      <3> QED
        BY <1>4, <3>1 DEF Holds
    <2>3. w.failed = 0 => \A s \in Spans : owner[s] = t =>
            /\ Stored(row, "start", s) \/ Holds(w.pending, "start", s)
            /\ <<"end", s>> \in sent => Stored(row, "end", s) \/ Holds(w.pending, "end", s)
      BY <1>2, PendingIsAll
    <2> HIDE DEF w, events, n
    <2> SUFFICES ASSUME w.failed = 0, NEW s \in Spans, owner'[s] = t
                 PROVE  /\ Stored(row, "start", s) \/ Holds(events, "start", s)
                        /\ <<"end", s>> \in sent' => Stored(row, "end", s) \/ Holds(events, "end", s)
      BY DEF AllIn
    <2>4. <<"end", s>> \in sent' => <<"end", s>> \in sent \/ (e.event = "end" /\ e.span = s)
      BY <1>2
    <2>5. CASE owner[s] = t
      BY <2>1, <2>2, <2>3, <2>4, <2>5
    <2>6. CASE owner[s] # t
      <3>1. owner[s] = None /\ s = e.span /\ e.event = "start"
        BY <2>6
      <3>2. <<"end", s>> \notin sent
        BY <1>1, <3>1 DEF SpansOfNobody
      <3> QED
        BY <2>2, <2>4, <3>1, <3>2
    <2> QED
      BY <2>5, <2>6
  <1>11. CASE n + 1 >= BatchSize[t]
    <2>1. PICK q \in Requests : Send(t, q, events, 1)
      BY <1>4, <1>11 DEF emit
    <2>2. Len(events) \in 1..BatchSize[t] /\ Len(events) = Len(tracer[t].pending) + 1
      BY <1>3, <1>4, <1>7, <1>11
    <2>3. tracer[t].waits = None /\ (tracer[t].failed = 0 => AllIn(events, t))
      BY <1>2, <1>10
    <2>4. events \in Seq(Event)
      BY <1>4
    <2> HIDE DEF events, n, w
    <2> QED
      BY <1>2, <1>6, <1>9, <2>1, <2>2, <2>3, <2>4, SendStep
  <1>12. CASE ~(n + 1 >= BatchSize[t])
    <2> DEFINE new == [w EXCEPT !.pending = events, !.attempted = w.attempted + 1]
    <2>1. tracer' = [tracer EXCEPT ![t] = new] /\ request' = request
      BY <1>1, <1>4, <1>12 DEF emit, TypeOK
    <2>2. PICK rq : rq = NoRequest
      OBVIOUS
    <2>3. w.attempted = w.acknowledged + w.failed + n
      BY <1>2, PendingIsAll
    <2>4. Len(events) < BatchSize[t]
      BY <1>3, <1>4, <1>12
    <2> HIDE DEF w, events
    <2>5. /\ new.pending = events /\ new.waits = None /\ new.attempted = w.attempted + 1
          /\ new.acknowledged = w.acknowledged /\ new.failed = w.failed
      BY <1>2, <1>3 DEF Tracer
    <2>6. new \in Tracer
      <3>1. w.attempted + 1 \in Nat
        BY <1>3
      <3> QED
        BY <1>3, <1>4, <3>1 DEF Tracer
    <2> HIDE DEF new, n
    <2>7. Outgoing(t, new, rq)
      BY <2>1, <2>5 DEF Outgoing
    <2>8. tracer'[t] = new
      BY <1>1, <2>1 DEF TypeOK
    <2>9. Len(InRequest(t)') = 0
      <3>1. InRequest(t)' = <<>>
        BY <2>5, <2>8 DEF InRequest
      <3> QED
        BY <3>1
    <2>10. new.attempted = new.acknowledged + new.failed + Len(new.pending) + Len(InRequest(t)')
      <3>1. Len(new.pending) = n + 1
        BY <1>4, <2>5
      <3> QED
        BY <1>3, <1>4, <2>3, <2>5, <2>9, <3>1
    <2>11. new.failed = 0 => \A s \in Spans : owner'[s] = t =>
             Kept(t, "start", s)' /\ (<<"end", s>> \in sent' => Kept(t, "end", s)')
      <3>1. \A event, s : Stored(row, event, s) \/ Holds(events, event, s) => Kept(t, event, s)'
        BY <1>2, <2>5, <2>8 DEF Kept
      <3> QED
        BY <1>10, <2>5, <3>1 DEF AllIn
    <2>12. t \in Runs => run[t].pc \notin {"new", "prepared", "started"}
      BY <1>2, NamesAreApart DEF Alive
    <2>13. EventsNowOf(new.pending, t) /\ Len(new.pending) < BatchSize[t]
      BY <1>9, <2>4, <2>5
    <2> QED
      BY <1>2, <1>6, <2>1, <2>6, <2>7, <2>10, <2>11, <2>12, <2>13, TracerStep
  <1> QED
    BY <1>11, <1>12

LEMMA EnterSpanStep ==
  ASSUME IInv, NEW t \in Tracers, NEW s \in Spans, NEW parent \in Rows \cup {None},
         enter_span(t, s, parent)
  PROVE  IInv'
  <1> DEFINE e == [event |-> "start", span |-> s, parent |-> parent]
  <1>1. e \in Event /\ e.span = s /\ e.event = "start"
    BY NamesAreApart DEF Event
  <1>2. emit(t, e) /\ owner[s] = None /\ owner' = [owner EXCEPT ![s] = t]
    BY DEF enter_span
  <1>3. owner \in [Spans -> Tracers \cup {None}]
    BY DEF IInv, TypeOK
  <1> HIDE DEF e
  <1>4. /\ owner' \in [Spans -> Tracers \cup {None}] /\ owner'[s] = t
        /\ \A x \in Spans : x # s => owner'[x] = owner[x]
    BY <1>2, <1>3
  <1> QED
    BY <1>1, <1>2, <1>4, EmitStep

LEMMA ExitSpanStep ==
  ASSUME IInv, NEW t \in Tracers, NEW s \in Spans, exit_span(t, s)
  PROVE  IInv'
  <1> DEFINE e == [event |-> "end", span |-> s, parent |-> None]
  <1>1. e \in Event /\ e.span = s /\ e.event = "end"
    BY NamesAreApart DEF Event
  <1>2. emit(t, e) /\ owner[s] = t /\ owner' = owner
    BY DEF exit_span, Open
  <1>3. owner \in [Spans -> Tracers \cup {None}]
    BY DEF IInv, TypeOK
  <1> HIDE DEF e
  <1> QED
    BY <1>1, <1>2, <1>3, EmitStep

\* A failure that is counted: the Tracer no longer reports complete.
LEMMA EmitUnencodableStep ==
  ASSUME IInv, NEW t \in Tracers, NEW s \in Spans, emit_unencodable(t, s)
  PROVE  IInv'
  <1> DEFINE w == tracer[t]
             new == [w EXCEPT !.attempted = w.attempted + 1, !.failed = w.failed + 1]
  <1>1. TypeOK /\ EventsAreOwned /\ SpansOfNobody
    BY DEF IInv
  <1>2. /\ Alive(t) /\ w.waits = None /\ owner[s] = None /\ owner' = [owner EXCEPT ![s] = t]
        /\ sent' = sent \cup {<<"start", s>>} /\ request' = request
        /\ UNCHANGED <<run, row, accepted, committed, crashes>>
    BY DEF emit_unencodable, store
  <1>3. tracer' = [tracer EXCEPT ![t] = new]
    BY <1>1 DEF emit_unencodable, TypeOK
  <1>4. /\ w \in Tracer /\ w.pending \in Seq(Event) /\ w.attempted \in Nat
        /\ w.acknowledged \in Nat /\ w.failed \in Nat
    BY <1>1, Fields
  <1>5. w.attempted = w.acknowledged + w.failed + Len(w.pending)
    BY <1>2, PendingIsAll
  <1>6. EventsOf(w.pending, t) /\ Len(w.pending) < BatchSize[t]
    BY <1>1 DEF EventsAreOwned
  <1> HIDE DEF w
  <1>7. /\ new.pending = w.pending /\ new.waits = None /\ new.attempted = w.attempted + 1
        /\ new.acknowledged = w.acknowledged /\ new.failed = w.failed + 1
    BY <1>2, <1>4 DEF Tracer
  <1>8. new \in Tracer
    <2>1. w.attempted + 1 \in Nat /\ w.failed + 1 \in Nat
      BY <1>4
    <2> QED
      BY <1>4, <2>1 DEF Tracer
  <1> HIDE DEF new
  <1>9. OwnerStep(t)
    <2>1. owner' \in [Spans -> Tracers \cup {None}] /\ owner'[s] = t
          /\ \A x \in Spans : x # s => owner'[x] = owner[x]
      BY <1>1, <1>2 DEF TypeOK
    <2>2. sent' \subseteq {"start", "end"} \X Spans
      BY <1>1, <1>2 DEF TypeOK
    <2> QED
      BY <1>2, <2>1, <2>2 DEF OwnerStep
  <1>10. EventsNowOf(new.pending, t) /\ Len(new.pending) < BatchSize[t]
    BY <1>6, <1>7, <1>9, NamesAreApart DEF EventsOf, EventsNowOf, OwnerStep
  <1>11. Len(InRequest(t)') = 0
    <2>1. tracer'[t] = new
      BY <1>1, <1>3 DEF TypeOK
    <2>2. InRequest(t)' = <<>>
      BY <1>7, <2>1 DEF InRequest
    <2> QED
      BY <2>2
  <1>12. new.attempted = new.acknowledged + new.failed + Len(new.pending) + Len(InRequest(t)')
    <2>1. Len(w.pending) \in Nat
      BY <1>4
    <2> QED
      BY <1>4, <1>5, <1>7, <1>11, <2>1
  <1>13. new.failed # 0
    BY <1>4, <1>7
  <1>14. t \in Runs => run[t].pc \notin {"new", "prepared", "started"}
    BY <1>2, NamesAreApart DEF Alive
  <1>15. PICK rq : rq = NoRequest
    OBVIOUS
  <1>16. Outgoing(t, new, rq)
    BY <1>2, <1>7 DEF Outgoing
  <1> QED
    BY <1>2, <1>3, <1>8, <1>9, <1>10, <1>12, <1>13, <1>14, <1>16, TracerStep

LEMMA GiveUpStep ==
  ASSUME IInv, NEW t \in Tracers, give_up(t)
  PROVE  IInv'
  <1> DEFINE w == tracer[t]
             n == Len(request[w.waits].events)
             new == [w EXCEPT !.waits = None, !.failed = w.failed + n]
  <1>1. TypeOK /\ EventsAreOwned /\ EventsAreCounted /\ RunsStartEmpty
    BY DEF IInv
  <1>2. /\ w.waits # None /\ request' = request
        /\ UNCHANGED <<run, row, accepted, committed, crashes>> /\ owner' = owner /\ sent' = sent
    BY DEF give_up, store, history
  <1>3. tracer' = [tracer EXCEPT ![t] = new]
    BY <1>1 DEF give_up, TypeOK
  <1>4. /\ w \in Tracer /\ w.pending \in Seq(Event) /\ w.attempted \in Nat
        /\ w.acknowledged \in Nat /\ w.failed \in Nat /\ w.waits \in Requests
    BY <1>1, <1>2, Fields
  <1>5. /\ n \in Nat /\ 1 <= n
        /\ w.attempted = w.acknowledged + w.failed + Len(w.pending) + n
    <2>1. request[w.waits].pc # "free" /\ request[w.waits].from = t
      BY <1>1, <1>2 DEF EventsAreCounted
    <2>2. n \in 1..BatchSize[t] /\ BatchSize[t] \in Nat
      BY <1>1, <1>4, <2>1, NamesAreApart DEF EventsAreOwned
    <2>3. InRequest(t) = request[w.waits].events
      BY <1>2 DEF InRequest
    <2>4. w.attempted = w.acknowledged + w.failed + Len(w.pending) + Len(InRequest(t))
      BY <1>1 DEF EventsAreCounted
    <2>5. Len(InRequest(t)) = n
      BY <2>3
    <2> HIDE DEF n, w
    <2> QED
      BY <2>2, <2>4, <2>5
  <1>6. EventsOf(w.pending, t) /\ Len(w.pending) < BatchSize[t]
    BY <1>1 DEF EventsAreOwned
  <1>7. t \in Runs => run[t].pc \notin {"new", "prepared", "started"}
    BY <1>1, <1>2, NewRecords DEF RunsStartEmpty
  <1> HIDE DEF w, n
  <1>8. /\ new.pending = w.pending /\ new.waits = None /\ new.attempted = w.attempted
        /\ new.acknowledged = w.acknowledged /\ new.failed = w.failed + n
    BY <1>4 DEF Tracer
  <1>9. new \in Tracer
    <2>1. w.failed + n \in Nat
      BY <1>4, <1>5
    <2> QED
      BY <1>4, <2>1 DEF Tracer
  <1> HIDE DEF new
  <1>10. OwnerStep(t)
    BY <1>1, <1>2 DEF OwnerStep, TypeOK
  <1>11. EventsNowOf(new.pending, t) /\ Len(new.pending) < BatchSize[t]
    BY <1>2, <1>6, <1>8 DEF EventsOf, EventsNowOf
  <1>12. Len(InRequest(t)') = 0
    <2>1. tracer'[t] = new
      BY <1>1, <1>3 DEF TypeOK
    <2>2. InRequest(t)' = <<>>
      BY <1>8, <2>1 DEF InRequest
    <2> QED
      BY <2>2
  <1>13. new.attempted = new.acknowledged + new.failed + Len(new.pending) + Len(InRequest(t)')
    <2>1. Len(w.pending) \in Nat
      BY <1>4
    <2> QED
      BY <1>4, <1>5, <1>8, <1>12, <2>1
  <1>14. new.failed # 0
    BY <1>4, <1>5, <1>8
  <1>15. PICK rq : rq = NoRequest
    OBVIOUS
  <1>16. Outgoing(t, new, rq)
    BY <1>2, <1>8 DEF Outgoing
  <1> QED
    BY <1>2, <1>3, <1>7, <1>9, <1>10, <1>11, <1>13, <1>14, <1>16, TracerStep

-----------------------------------------------------------------------------
(* The hooks around a run *)

\* Before the first instruction of a run, and from then on.
Early == {"new", "prepared", "started"}
Late == {"live", "empty", "over"}

\* A hook moves the run r forward, and may write the row of its process span.
LEMMA HookStep ==
  ASSUME IInv, NEW r \in Runs, NEW new \in Run, run' = [run EXCEPT ![r] = new],
         UNCHANGED <<tracer, request, crashes, owner, sent>>,
         run[r].pc \in Late => new.pc \in Late,
         new.pc = "live" => run[r].pc \in {"started", "live"},
         new.pc \in {"started", "live"} => new.known /\ new.running,
         new.pc \in {"started", "live", "empty"} => row'[r] # None,
         row' \in Table, Grows(row, row'), \A s \in Spans : row'[s] = row[s],
         accepted' \in Nat, committed' \in Nat, AcceptedIsCommitted'
  PROVE  IInv'
  <1>1. /\ TypeOK /\ RunsStartEmpty /\ RequestsAreBound /\ SpansOfNobody /\ StoredUnderOwnRun
    BY DEF IInv
  <1>2. run' \in [Runs -> Run] /\ run'[r] = new /\ \A x \in Runs : x # r => run'[x] = run[x]
    BY <1>1 DEF TypeOK
  <1>3. \A x \in Runs : run[x].pc \in Early \cup Late
    BY <1>1 DEF TypeOK, Run, Early, Late
  <1>4. TypeOK'
    BY <1>1, <1>2 DEF TypeOK, Table
  <1>5. RunsStartEmpty'
    <2> SUFFICES ASSUME NEW x \in Runs
                 PROVE  /\ run'[x].pc \in {"started", "live"} => run'[x].known /\ run'[x].running
                        /\ run'[x].pc \in {"started", "live", "empty"} => row'[x] # None
                        /\ run'[x].pc \in {"new", "prepared", "started"} =>
                             tracer[x] = NewTracer /\ \A s \in Spans : owner[s] # x
      BY DEF RunsStartEmpty
    <2>1. CASE x = r
      <3>1. new.pc \in Early => run[r].pc \in Early
        BY <1>3 DEF Early, Late
      <3>2. run[r].pc \in Early => tracer[r] = NewTracer /\ \A s \in Spans : owner[s] # r
        BY <1>1 DEF RunsStartEmpty, Early
      <3> QED
        BY <1>2, <2>1, <3>1, <3>2 DEF Early
    <2>2. CASE x # r
      <3>1. row[x] # None => row'[x] # None
        BY NamesAreApart DEF Grows
      <3>2. run'[x] = run[x]
        BY <1>2, <2>2
      <3>3. /\ run[x].pc \in {"started", "live"} => run[x].known /\ run[x].running
            /\ run[x].pc \in {"started", "live", "empty"} => row[x] # None
            /\ run[x].pc \in {"new", "prepared", "started"} =>
                 tracer[x] = NewTracer /\ \A s \in Spans : owner[s] # x
        BY <1>1 DEF RunsStartEmpty
      <3> QED
        BY <3>1, <3>2, <3>3
    <2> QED
      BY <2>1, <2>2
  <1>6. NothingIsLost' /\ ConfirmedIsStored' /\ EventsAreOwned' /\ EventsAreCounted'
    <2>1. ASSUME NEW t \in Tracers, Alive(t)' PROVE Alive(t) \/ \A s \in Spans : owner[s] # t
      <3>1. CASE t = Orchestrator
        BY <3>1 DEF Alive
      <3>2. CASE t \in Runs /\ run'[t].pc = "live"
        <4>1. run[t].pc \in {"started", "live"}
          BY <1>2, <3>2
        <4> QED
          BY <1>1, <3>2, <4>1 DEF Alive, RunsStartEmpty
      <3> QED
        BY <2>1, <3>1, <3>2 DEF Alive
    <2> QED
      BY <2>1, StoreGrows
  <1>7. RequestsAreBound'
    <2> SUFFICES ASSUME NEW q \in Requests, request[q].pc # "free", request[q].from \in Runs
                 PROVE  /\ run'[request[q].from].pc \in Late
                        /\ request[q].pc = "admit" /\ run'[request[q].from].pc = "live" =>
                             request[q].bound = request[q].from
                        /\ request[q].pc \in {"compare", "ingest"} =>
                             request[q].bound = request[q].from
      BY DEF RequestsAreBound, Late
    <2> DEFINE f == request[q].from
    <2>1. /\ run[f].pc \in Late
          /\ request[q].pc = "admit" /\ run[f].pc = "live" => request[q].bound = f
          /\ request[q].pc \in {"compare", "ingest"} => request[q].bound = f
      BY <1>1 DEF RequestsAreBound, Late
    <2>2. run'[f].pc \in Late /\ (run'[f].pc = "live" => run[f].pc = "live")
      <3>1. CASE f = r
        BY <1>2, <2>1, <3>1 DEF Late
      <3>2. CASE f # r
        BY <1>2, <2>1, <3>2
      <3> QED
        BY <3>1, <3>2
    <2> QED
      BY <2>1, <2>2
  <1>8. SpansOfNobody' /\ StoredUnderOwnRun'
    BY <1>1 DEF SpansOfNobody, StoredUnderOwnRun
  <1> QED
    BY <1>4, <1>5, <1>6, <1>7, <1>8 DEF IInv

\* The hooks that leave the store alone.
LEMMA QuietHookStep ==
  ASSUME IInv, NEW r \in Runs, NEW new \in Run, run' = [run EXCEPT ![r] = new],
         UNCHANGED <<tracer, request, store, crashes, history>>,
         run[r].pc \in Late => new.pc \in Late,
         new.pc = "live" => run[r].pc \in {"started", "live"},
         new.pc \in {"started", "live"} => new.known /\ new.running,
         new.pc \in {"started", "live", "empty"} => run[r].pc \in {"started", "live", "empty"}
  PROVE  IInv'
  <1>1. TypeOK /\ RunsStartEmpty /\ AcceptedIsCommitted
    BY DEF IInv
  <1>2. /\ row' = row /\ accepted' = accepted /\ committed' = committed
        /\ UNCHANGED <<tracer, request, crashes, owner, sent>>
    BY DEF store, history
  <1>3. row' \in Table /\ Grows(row, row') /\ accepted' \in Nat /\ committed' \in Nat
    BY <1>1, <1>2 DEF TypeOK, Table, Grows
  <1>4. new.pc \in {"started", "live", "empty"} => row'[r] # None
    BY <1>1, <1>2 DEF RunsStartEmpty
  <1>5. AcceptedIsCommitted'
    BY <1>1, <1>2 DEF AcceptedIsCommitted
  <1>6. \A s \in Spans : row'[s] = row[s]
    BY <1>2
  <1> QED
    BY <1>2, <1>3, <1>4, <1>5, <1>6, HookStep

\* The hooks that write the row of the process span count what they commit.
LEMMA WritingHookStep ==
  ASSUME IInv, NEW r \in Runs, NEW new \in Run, run' = [run EXCEPT ![r] = new],
         UNCHANGED <<tracer, request, crashes, history>>,
         run[r].pc \in Late => new.pc \in Late, new.pc # "live",
         new.pc = "started" => new.known /\ new.running,
         row' \in Table, Grows(row, row'), row'[r] # None,
         \A x \in Rows : x # r => row'[x] = row[x],
         accepted' = accepted + 1, committed' = committed + 1
  PROVE  IInv'
  <1>1. TypeOK /\ AcceptedIsCommitted
    BY DEF IInv
  <1>2. UNCHANGED <<tracer, request, crashes, owner, sent>>
    BY DEF history
  <1>3. accepted \in Nat /\ committed \in Nat
    BY <1>1 DEF TypeOK
  <1>4. accepted' \in Nat /\ committed' \in Nat
    BY <1>3
  <1>5. AcceptedIsCommitted'
    <2>1. Uncounted' = Uncounted
      BY <1>2 DEF Uncounted
    <2>2. accepted + Cardinality(Uncounted) = committed
      BY <1>1 DEF AcceptedIsCommitted, Uncounted
    <2>3. Cardinality(Uncounted') = Cardinality(Uncounted)
      BY <2>1
    <2>4. accepted' + Cardinality(Uncounted') = committed'
      BY <1>3, <2>2, <2>3, UncountedIsFinite
    <2> QED
      BY <2>4 DEF AcceptedIsCommitted, Uncounted
  <1>6. \A s \in Spans : row'[s] = row[s]
    BY NamesAreApart
  <1> QED
    BY <1>2, <1>4, <1>5, <1>6, HookStep

LEMMA PrepareRunEnvironmentStep ==
  ASSUME IInv, NEW r \in Runs, NEW parent \in Rows \cup {None}, NEW recovery \in BOOLEAN,
         prepare_run_environment(r, parent, recovery)
  PROVE  IInv'
  <1> DEFINE new == [run[r] EXCEPT !.pc = "prepared", !.parent = parent, !.recovery = recovery]
  <1>1. run \in [Runs -> Run] /\ run[r] \in Run
    BY DEF IInv, TypeOK
  <1>2. /\ run[r].pc = "new" /\ run' = [run EXCEPT ![r] = new]
        /\ UNCHANGED <<tracer, request, store, crashes, history>>
    BY <1>1 DEF prepare_run_environment
  <1>3. new \in Run /\ new.pc = "prepared"
    BY <1>1 DEF Run
  <1> HIDE DEF new
  <1> QED
    BY <1>2, <1>3, QuietHookStep DEF Late

LEMMA ExecutionStartedStep ==
  ASSUME IInv, NEW r \in Runs, execution_started(r)
  PROVE  IInv'
  <1> DEFINE e == ProcessStart(r)
  <1>1. run \in [Runs -> Run] /\ run[r] \in Run /\ row \in Table
    BY DEF IInv, TypeOK, Table
  <1>2. run[r].pc = "prepared" /\ UNCHANGED <<tracer, request, crashes, history>>
    BY DEF execution_started
  <1>3. CASE Valid(row, e, "allox-executor", r)
    <2> DEFINE new == [run[r] EXCEPT !.pc = "started", !.parent = None, !.known = TRUE,
                                     !.running = TRUE]
               w == Write(row, e, "allox-executor", r)
    <2>1. /\ row' = w /\ accepted' = accepted + 1 /\ committed' = committed + 1
          /\ run' = [run EXCEPT ![r] = new]
      BY <1>1, <1>3 DEF execution_started
    <2>2. new \in Run /\ new.pc = "started" /\ new.known = TRUE /\ new.running = TRUE
      BY <1>1 DEF Run
    <2>3. e \in Event /\ e.span = r /\ e.event = "start"
      <3>1. run[r].parent \in Rows \cup {None} /\ r \in Rows
        BY <1>1, NamesAreApart DEF Run
      <3> QED
        BY <3>1 DEF ProcessStart, Event
    <2>4. "allox-executor" \in Sources /\ r \in Runs \cup {None}
      BY DEF Sources
    <2> HIDE DEF new, e
    <2>5. /\ w \in Table /\ Stored(w, e.event, e.span) /\ Grows(row, w)
          /\ \A x \in Rows : x # e.span => w[x] = row[x]
      BY <1>1, <1>3, <2>3, <2>4, WriteStep
    <2> HIDE DEF w
    <2>6. w[r] # None
      BY <2>3, <2>5 DEF Stored
    <2>7. /\ row' \in Table /\ Grows(row, row') /\ row'[r] # None
          /\ \A x \in Rows : x # r => row'[x] = row[x]
      BY <2>1, <2>3, <2>5, <2>6
    <2> QED
      BY <1>2, <2>1, <2>2, <2>7, WritingHookStep DEF Late
  <1>4. CASE ~Valid(row, e, "allox-executor", r)
    <2> DEFINE new == [NewRun EXCEPT !.pc = "over"]
    <2>1. run' = [run EXCEPT ![r] = new] /\ UNCHANGED store
      BY <1>4 DEF execution_started
    <2>2. new \in Run /\ new.pc = "over"
      BY DEF NewRun, Run
    <2>3. UNCHANGED <<tracer, request, store, crashes, history>>
      BY <1>2, <2>1
    <2> HIDE DEF new
    <2> QED
      BY <2>1, <2>2, <2>3, QuietHookStep DEF Late
  <1> QED
    BY <1>3, <1>4

\* The run is known and running since execution_started, and has no spans yet.
LEMMA ContinueRunStep ==
  ASSUME IInv, NEW r \in Runs, continue_run(r)
  PROVE  IInv'
  <1> DEFINE new == [run[r] EXCEPT !.pc = "live"]
  <1>1. run \in [Runs -> Run] /\ run[r] \in Run
    BY DEF IInv, TypeOK
  <1>2. /\ run[r].pc = "started" /\ run' = [run EXCEPT ![r] = new]
        /\ UNCHANGED <<tracer, request, store, crashes, history>>
    BY <1>1 DEF continue_run
  <1>3. new \in Run /\ new.pc = "live" /\ new.known = run[r].known /\ new.running = run[r].running
    BY <1>1 DEF Run
  <1>4. run[r].known /\ run[r].running
    BY <1>2 DEF IInv, RunsStartEmpty
  <1> HIDE DEF new
  <1> QED
    BY <1>2, <1>3, <1>4, QuietHookStep DEF Late

LEMMA StartFailsStep ==
  ASSUME IInv, NEW r \in Runs, start_fails(r)
  PROVE  IInv'
  <1> DEFINE new == [NewRun EXCEPT !.pc = "over", !.known = TRUE]
  <1>1. /\ run' = [run EXCEPT ![r] = new]
        /\ UNCHANGED <<tracer, request, store, crashes, history>>
    BY DEF start_fails
  <1>2. new \in Run /\ new.pc = "over"
    BY DEF NewRun, Run
  <1> HIDE DEF new
  <1> QED
    BY <1>1, <1>2, QuietHookStep DEF Late

LEMMA ExecutionFinishedStep ==
  ASSUME IInv, NEW r \in Runs, execution_finished(r)
  PROVE  IInv'
  <1> DEFINE old == row[r]
             v == [old EXCEPT !.status = "ended"]
             new == run[r]
  <1>1. run \in [Runs -> Run] /\ new \in Run /\ row \in Table /\ RunsStartEmpty
    BY DEF IInv, TypeOK, Table
  <1>2. /\ run[r].pc = "empty" /\ accepted' = accepted + 1 /\ committed' = committed + 1
        /\ run' = run /\ UNCHANGED <<tracer, request, crashes, history>>
    BY DEF execution_finished
  <1>3. r \in Rows
    BY NamesAreApart
  <1>4. row' = [row EXCEPT ![r] = v]
    BY <1>1, <1>3 DEF execution_finished, Table
  <1>5. old # None /\ old \in Row
    BY <1>1, <1>2, <1>3 DEF RunsStartEmpty, Table
  <1>6. v \in Row /\ v.run = old.run /\ v.status = "ended"
    BY <1>5 DEF Row
  <1>7. v # None
    BY <1>6, RowFields
  <1>8. run' = [run EXCEPT ![r] = new]
    BY <1>1, <1>2
  <1> HIDE DEF v
  <1>9. row' \in Table /\ row'[r] = v /\ \A x \in Rows : x # r => row'[x] = row[x]
    BY <1>1, <1>3, <1>4, <1>6 DEF Table
  <1>10. Grows(row, row') /\ row'[r] # None
    BY <1>6, <1>7, <1>9 DEF Grows
  <1>11. run[r].pc \in Late => new.pc \in Late
    OBVIOUS
  <1>12. new.pc = "empty"
    BY <1>2
  <1> HIDE DEF new
  <1> QED
    BY <1>1, <1>2, <1>8, <1>9, <1>10, <1>11, <1>12, WritingHookStep

LEMMA ExecutionForgottenStep ==
  ASSUME IInv, NEW r \in Runs, execution_forgotten(r)
  PROVE  IInv'
  <1> DEFINE new == [run[r] EXCEPT !.known = FALSE]
  <1>1. run \in [Runs -> Run] /\ run[r] \in Run
    BY DEF IInv, TypeOK
  <1>2. /\ run[r].pc = "empty" /\ run' = [run EXCEPT ![r] = new]
        /\ UNCHANGED <<tracer, request, store, crashes, history>>
    BY <1>1 DEF execution_forgotten
  <1>3. new \in Run /\ new.pc = "empty"
    BY <1>1, <1>2 DEF Run
  <1> HIDE DEF new
  <1> QED
    BY <1>2, <1>3, QuietHookStep DEF Late

LEMMA RunOverStep ==
  ASSUME IInv, NEW r \in Runs, run_over(r)
  PROVE  IInv'
  <1> DEFINE new == [NewRun EXCEPT !.pc = "over"]
  <1>1. /\ run' = [run EXCEPT ![r] = new]
        /\ UNCHANGED <<tracer, request, store, crashes, history>>
    BY DEF run_over
  <1>2. new \in Run /\ new.pc = "over"
    BY DEF NewRun, Run
  <1> HIDE DEF new
  <1> QED
    BY <1>1, <1>2, QuietHookStep DEF Late

\* The Tracer of the run goes with its processes; its requests may stay in the
\* handlers.
LEMMA ProcessesExitStep ==
  ASSUME IInv, NEW r \in Runs, processes_exit(r)
  PROVE  IInv'
  <1> DEFINE new == [run[r] EXCEPT !.pc = "empty"]
  <1>1. /\ TypeOK /\ RunsStartEmpty /\ EventsAreOwned /\ RequestsAreBound /\ EventsAreCounted
        /\ ConfirmedIsStored /\ NothingIsLost /\ SpansOfNobody /\ StoredUnderOwnRun
        /\ AcceptedIsCommitted
    BY DEF IInv
  <1>2. /\ run[r].pc = "live" /\ tracer' = [tracer EXCEPT ![r] = NewTracer]
        /\ request' = request /\ row' = row /\ accepted' = accepted /\ committed' = committed
        /\ crashes' = crashes /\ owner' = owner /\ sent' = sent
    BY DEF processes_exit, store, history
  <1>3. run' = [run EXCEPT ![r] = new]
    BY <1>1 DEF processes_exit, TypeOK
  <1>4. new \in Run /\ new.pc = "empty"
    <2>1. run[r] \in Run
      BY <1>1, Fields
    <2> QED
      BY <2>1 DEF Run
  <1> HIDE DEF new
  <1>5. run' \in [Runs -> Run] /\ run'[r] = new /\ \A x \in Runs : x # r => run'[x] = run[x]
    BY <1>1, <1>3, <1>4 DEF TypeOK
  <1>6. /\ tracer' \in [Tracers -> Tracer] /\ tracer'[r] = NewTracer
        /\ \A u \in Tracers : u # r => tracer'[u] = tracer[u]
    BY <1>1, <1>2, NewRecords, NamesAreApart DEF TypeOK
  <1>7. /\ r \in Tracers /\ r # Orchestrator
    BY NamesAreApart
  <1>8. /\ Len(tracer'[r].pending) = 0 /\ tracer'[r].waits = None /\ Len(InRequest(r)') = 0
        /\ tracer'[r].attempted = 0 /\ tracer'[r].acknowledged = 0 /\ tracer'[r].failed = 0
    <2>1. tracer'[r].pending = <<>> /\ tracer'[r].waits = None
      BY <1>6, NewRecords
    <2>2. InRequest(r)' = <<>>
      BY <2>1 DEF InRequest
    <2> QED
      BY <1>6, <2>1, <2>2, NewRecords
  <1>9. TypeOK'
    BY <1>1, <1>2, <1>5, <1>6 DEF TypeOK
  <1>10. RunsStartEmpty'
    <2>1. row[r] # None
      BY <1>1, <1>2 DEF RunsStartEmpty
    <2>2. \A x \in Runs : x # r => tracer'[x] = tracer[x]
      BY <1>6, NamesAreApart
    <2> QED
      BY <1>1, <1>2, <1>4, <1>5, <2>1, <2>2 DEF RunsStartEmpty
  <1>11. EventsAreOwned'
    <2>1. ASSUME NEW u \in Tracers
          PROVE  EventsNowOf(tracer'[u].pending, u) /\ Len(tracer'[u].pending) < BatchSize[u]
      <3>1. CASE u = r
        BY <1>8, <3>1, NamesAreApart DEF EventsNowOf
      <3>2. CASE u # r
        BY <1>1, <1>2, <1>6, <3>2 DEF EventsAreOwned, EventsOf, EventsNowOf
      <3> QED
        BY <3>1, <3>2
    <2> QED
      BY <1>1, <1>2, <2>1 DEF EventsAreOwned, EventsOf, EventsNowOf
  <1>12. RequestsAreBound'
    BY <1>1, <1>2, <1>4, <1>5 DEF RequestsAreBound
  <1>13. EventsAreCounted'
    <2> SUFFICES ASSUME NEW u \in Tracers
                 PROVE  /\ tracer'[u].waits # None => /\ request[tracer'[u].waits].pc # "free"
                                                      /\ request[tracer'[u].waits].from = u
                        /\ tracer'[u].attempted = tracer'[u].acknowledged + tracer'[u].failed
                             + Len(tracer'[u].pending) + Len(InRequest(u)')
      BY <1>2 DEF EventsAreCounted
    <2>1. CASE u = r
      BY <1>8, <2>1
    <2>2. CASE u # r
      <3>1. tracer'[u] = tracer[u]
        BY <1>6, <2>2
      <3>2. InRequest(u)' = InRequest(u)
        BY <1>2, <3>1 DEF InRequest
      <3>3. /\ tracer[u].waits # None => /\ request[tracer[u].waits].pc # "free"
                                         /\ request[tracer[u].waits].from = u
            /\ tracer[u].attempted = tracer[u].acknowledged + tracer[u].failed
                                     + Len(tracer[u].pending) + Len(InRequest(u))
        BY <1>1 DEF EventsAreCounted
      <3> QED
        BY <3>1, <3>2, <3>3
    <2> QED
      BY <2>1, <2>2
  <1>14. NothingIsLost'
    <2> SUFFICES ASSUME NEW u \in Tracers, Alive(u)', tracer'[u].failed = 0,
                        NEW s \in Spans, owner'[s] = u
                 PROVE  /\ Kept(u, "start", s)'
                        /\ <<"end", s>> \in sent' => Kept(u, "end", s)'
      BY DEF NothingIsLost
    <2>1. u # r
      BY <1>4, <1>5, <1>7 DEF Alive
    <2>2. Alive(u) /\ tracer'[u] = tracer[u]
      BY <1>5, <1>6, <2>1 DEF Alive
    <2>3. Kept(u, "start", s) /\ (<<"end", s>> \in sent => Kept(u, "end", s))
      BY <1>1, <1>2, <2>2 DEF NothingIsLost
    <2>4. Grows(row, row')
      BY <1>2 DEF Grows
    <2> QED
      BY <1>1, <1>2, <2>2, <2>3, <2>4, KeptStays
  <1>15. ConfirmedIsStored' /\ SpansOfNobody' /\ StoredUnderOwnRun' /\ AcceptedIsCommitted'
    BY <1>1, <1>2
    DEF ConfirmedIsStored, SpansOfNobody, StoredUnderOwnRun, AcceptedIsCommitted
  <1> QED
    BY <1>9, <1>10, <1>11, <1>12, <1>13, <1>14, <1>15 DEF IInv

\* The daemon dies.  An orchestrator that waited counts its events as failed;
\* the runs and their Tracers are gone.
LEMMA CrashStep ==
  ASSUME IInv, Crash
  PROVE  IInv'
  <1> DEFINE over == [NewRun EXCEPT !.pc = "over"]
             O == Orchestrator
             w == tracer[O]
             n == Len(request[w.waits].events)
             failed == [w EXCEPT !.waits = None, !.failed = w.failed + n]
  <1>1. /\ TypeOK /\ RunsStartEmpty /\ EventsAreOwned /\ EventsAreCounted /\ NothingIsLost
        /\ SpansOfNobody /\ StoredUnderOwnRun
    BY DEF IInv
  <1>2. /\ crashes < MaxCrashes /\ crashes' = crashes + 1 /\ accepted' = 0 /\ committed' = 0
        /\ row' = row /\ owner' = owner /\ sent' = sent
        /\ request' = [q \in Requests |-> NoRequest]
    BY DEF Crash, history
  <1>3. over \in Run /\ over.pc = "over"
    BY DEF NewRun, Run
  <1>4. /\ run' \in [Runs -> Run]
        /\ \A r \in Runs : run'[r].pc = "over" \/ (run'[r] = run[r] /\ run[r].pc = "new")
    <2>1. run' = [r \in Runs |-> IF run[r].pc = "new" THEN run[r] ELSE over]
      BY DEF Crash
    <2> HIDE DEF over
    <2> QED
      BY <1>1, <1>3, <2>1 DEF TypeOK
  <1>5. /\ w \in Tracer /\ w.pending \in Seq(Event) /\ w.attempted \in Nat
        /\ w.acknowledged \in Nat /\ w.failed \in Nat /\ w.waits \in Requests \cup {None}
        /\ O \in Tracers /\ O \notin Runs
    BY <1>1, Fields, NamesAreApart
  <1>6. w.waits # None =>
          /\ n \in Nat /\ 1 <= n
          /\ w.attempted = w.acknowledged + w.failed + Len(w.pending) + n
    <2> SUFFICES ASSUME w.waits # None
                 PROVE  /\ n \in Nat /\ 1 <= n
                        /\ w.attempted = w.acknowledged + w.failed + Len(w.pending) + n
      OBVIOUS
    <2>1. request[w.waits].pc # "free" /\ request[w.waits].from = O
      BY <1>1, <1>5 DEF EventsAreCounted
    <2>2. n \in 1..BatchSize[O] /\ BatchSize[O] \in Nat
      BY <1>1, <1>5, <2>1, NamesAreApart DEF EventsAreOwned
    <2>3. InRequest(O) = request[w.waits].events
      BY DEF InRequest
    <2>4. w.attempted = w.acknowledged + w.failed + Len(w.pending) + Len(InRequest(O))
      BY <1>1, <1>5 DEF EventsAreCounted
    <2>5. Len(InRequest(O)) = n
      BY <2>3
    <2> HIDE DEF n, w, O
    <2> QED
      BY <2>2, <2>4, <2>5
  <1>7. tracer' = [t \in Tracers |-> IF t \in Runs THEN NewTracer
                                     ELSE IF tracer[t].waits = None THEN tracer[t]
                                     ELSE [tracer[t] EXCEPT !.waits = None,
                                             !.failed = @ + Len(request[tracer[t].waits].events)]]
    BY DEF Crash
  <1>8. /\ \A r \in Runs : tracer'[r] = NewTracer
        /\ w.waits = None => tracer'[O] = w
        /\ w.waits # None => tracer'[O] = failed
        /\ DOMAIN tracer' = Tracers /\ tracer' = [t \in Tracers |-> tracer'[t]]
    BY <1>5, <1>7, NamesAreApart
  <1>9. w.waits # None =>
          /\ failed \in Tracer /\ failed.pending = w.pending /\ failed.waits = None
          /\ failed.attempted = w.attempted /\ failed.acknowledged = w.acknowledged
          /\ failed.failed = w.failed + n
    <2> HIDE DEF w, n, O
    <2> SUFFICES ASSUME w.waits # None
                 PROVE  /\ failed \in Tracer /\ failed.pending = w.pending /\ failed.waits = None
                        /\ failed.attempted = w.attempted
                        /\ failed.acknowledged = w.acknowledged /\ failed.failed = w.failed + n
      OBVIOUS
    <2>1. w.failed + n \in Nat
      BY <1>5, <1>6
    <2>2. failed \in Tracer
      BY <1>5, <2>1 DEF Tracer
    <2>3. /\ failed.pending = w.pending /\ failed.waits = None
          /\ failed.attempted = w.attempted /\ failed.acknowledged = w.acknowledged
          /\ failed.failed = w.failed + n
      BY <1>5 DEF Tracer
    <2> QED
      BY <2>2, <2>3
  <1>10. \A t \in Tracers : t = O \/ t \in Runs
    BY DEF Tracers
  <1> HIDE DEF failed, w, n, O
  <1>11. /\ tracer'[O] \in Tracer /\ tracer'[O].pending = w.pending /\ tracer'[O].waits = None
         /\ tracer'[O].attempted = w.attempted /\ tracer'[O].acknowledged = w.acknowledged
         /\ tracer'[O].failed = 0 => w.waits = None /\ tracer'[O] = w
    <2>1. CASE w.waits = None
      BY <1>5, <1>8, <2>1
    <2>2. CASE w.waits # None
      <3>1. failed.failed # 0
        BY <1>5, <1>6, <1>9, <2>2
      <3> QED
        BY <1>8, <1>9, <2>2, <3>1
    <2> QED
      BY <2>1, <2>2
  <1>12. tracer' \in [Tracers -> Tracer]
    <2>1. \A t \in Tracers : tracer'[t] \in Tracer
      BY <1>8, <1>10, <1>11, NewRecords
    <2> QED
      BY <1>8, <2>1
  <1>13. request' \in [Requests -> Request] /\ \A q \in Requests : request'[q].pc = "free"
    BY <1>2, NewRecords
  <1>14. TypeOK'
    <2>1. crashes' \in 0..MaxCrashes
      BY <1>1, <1>2, LimitAssumption DEF TypeOK
    <2> QED
      BY <1>1, <1>2, <1>4, <1>12, <1>13, <2>1 DEF TypeOK
  <1>15. RunsStartEmpty'
    BY <1>1, <1>2, <1>4, <1>8 DEF RunsStartEmpty
  <1>16. ASSUME NEW t \in Tracers
         PROVE  /\ EventsNowOf(tracer'[t].pending, t) /\ Len(tracer'[t].pending) < BatchSize[t]
                /\ tracer'[t].waits = None
                /\ tracer'[t].attempted = tracer'[t].acknowledged + tracer'[t].failed
                                          + Len(tracer'[t].pending) + Len(InRequest(t)')
    <2>1. tracer'[t].waits = None
      BY <1>8, <1>10, <1>11, NewRecords
    <2>2. InRequest(t)' = <<>>
      BY <2>1 DEF InRequest
    <2>3. Len(InRequest(t)') = 0
      BY <2>2
    <2>4. CASE t \in Runs
      <3>1. /\ Len(tracer'[t].pending) = 0 /\ tracer'[t].attempted = 0
            /\ tracer'[t].acknowledged = 0 /\ tracer'[t].failed = 0
        <4>1. tracer'[t] = NewTracer /\ Len(<<>>) = 0
          BY <1>8, <2>4
        <4> QED
          BY <4>1, NewRecords
      <3> QED
        BY <2>1, <2>3, <3>1, NamesAreApart DEF EventsNowOf
    <2>5. CASE t = O
      <3>1. EventsOf(w.pending, O) /\ Len(w.pending) < BatchSize[O]
        BY <1>1, <1>5 DEF EventsAreOwned, w
      <3>2. EventsNowOf(w.pending, O)
        BY <1>2, <3>1 DEF EventsOf, EventsNowOf
      <3>3. Len(w.pending) \in Nat
        BY <1>5
      <3>4. tracer'[O].attempted = tracer'[O].acknowledged + tracer'[O].failed + Len(w.pending)
        <4>1. CASE w.waits # None
          BY <1>5, <1>6, <1>8, <1>9, <3>3, <4>1
        <4>2. CASE w.waits = None
          BY <1>5, <1>8, <4>2, PendingIsAll DEF w
        <4> QED
          BY <4>1, <4>2
      <3>5. tracer'[O].acknowledged \in Nat /\ tracer'[O].failed \in Nat
        BY <1>11 DEF Tracer
      <3>6. tracer'[O].attempted = tracer'[O].acknowledged + tracer'[O].failed + Len(w.pending) + 0
        BY <3>3, <3>4, <3>5
      <3> QED
        BY <1>11, <2>1, <2>3, <2>5, <3>1, <3>2, <3>6
    <2> QED
      BY <1>10, <2>4, <2>5
  <1>17. EventsAreOwned'
    BY <1>13, <1>16 DEF EventsAreOwned, EventsOf, EventsNowOf
  <1>18. RequestsAreBound' /\ ConfirmedIsStored'
    BY <1>13 DEF RequestsAreBound, ConfirmedIsStored
  <1>19. EventsAreCounted'
    BY <1>16 DEF EventsAreCounted
  <1>20. NothingIsLost'
    <2> SUFFICES ASSUME NEW u \in Tracers, Alive(u)', tracer'[u].failed = 0,
                        NEW s \in Spans, owner'[s] = u
                 PROVE  /\ Kept(u, "start", s)'
                        /\ <<"end", s>> \in sent' => Kept(u, "end", s)'
      BY DEF NothingIsLost
    <2>1. u = O /\ u = Orchestrator
      BY <1>4, <1>10 DEF Alive, O
    <2>2. w.waits = None /\ tracer'[u] = tracer[u] /\ tracer[u].waits = None /\ Alive(u)
      BY <1>11, <2>1 DEF w, Alive
    <2>3. Kept(u, "start", s) /\ (<<"end", s>> \in sent => Kept(u, "end", s))
      BY <1>1, <1>2, <2>2 DEF NothingIsLost
    <2>4. Grows(row, row')
      BY <1>2 DEF Grows
    <2> QED
      BY <1>1, <1>2, <2>2, <2>3, <2>4, KeptStays
  <1>21. SpansOfNobody' /\ StoredUnderOwnRun'
    BY <1>1, <1>2 DEF SpansOfNobody, StoredUnderOwnRun
  <1>22. AcceptedIsCommitted'
    <2>1. Uncounted' = {}
      BY <1>13 DEF Uncounted
    <2>2. Cardinality(Uncounted') = 0
      BY <2>1, FS_EmptySet
    <2>3. accepted' + Cardinality(Uncounted') = committed'
      BY <1>2, <2>2
    <2> QED
      BY <2>3 DEF AcceptedIsCommitted, Uncounted
  <1> QED
    BY <1>14, <1>15, <1>17, <1>18, <1>19, <1>20, <1>21, <1>22 DEF IInv

-----------------------------------------------------------------------------
(* The theorems *)

\* Every step of the specification keeps IInv, and so does none.
LEMMA StepHolds == IInv /\ [Next]_vars => IInv'
  <1> SUFFICES ASSUME IInv, [Next]_vars PROVE IInv'
    OBVIOUS
  <1>1. CASE UNCHANGED vars
    <2>1. /\ run' = run /\ tracer' = tracer /\ request' = request /\ row' = row
          /\ accepted' = accepted /\ crashes' = crashes /\ owner' = owner /\ sent' = sent
          /\ committed' = committed
      BY <1>1 DEF vars
    <2> QED
      BY <2>1
      DEF IInv, TypeOK, RunsStartEmpty, EventsAreOwned, EventsOf, RequestsAreBound,
          EventsAreCounted, InRequest, ConfirmedIsStored, NothingIsLost, Alive, Kept,
          SpansOfNobody, StoredUnderOwnRun, AcceptedIsCommitted
  <1>2. ASSUME NEW t \in Tracers, NEW s \in Spans,
               \/ \E parent \in Rows \cup {None} : enter_span(t, s, parent)
               \/ exit_span(t, s)
               \/ emit_unencodable(t, s)
        PROVE  IInv'
    BY <1>2, EnterSpanStep, ExitSpanStep, EmitUnencodableStep
  <1>3. ASSUME NEW t \in Tracers, flush(t) \/ give_up(t) PROVE IInv'
    BY <1>3, FlushStep, GiveUpStep
  <1>4. ASSUME NEW q \in Requests,
               \/ check_peer(q) \/ bind_run(q) \/ admit(q) \/ compare_run(q)
               \/ ingest_request(q) \/ count_accepted(q) \/ reply(q)
        PROVE  IInv'
    BY <1>4, CheckPeerStep, BindRunStep, AdmitStep, CompareRunStep, IngestRequestStep,
       CountAcceptedStep, ReplyStep
  <1>5. ASSUME NEW r \in Runs,
               \/ \E parent \in Rows \cup {None}, recovery \in BOOLEAN :
                    prepare_run_environment(r, parent, recovery)
               \/ execution_started(r) \/ continue_run(r) \/ start_fails(r) \/ processes_exit(r)
               \/ execution_finished(r) \/ execution_forgotten(r) \/ run_over(r)
        PROVE  IInv'
    BY <1>5, PrepareRunEnvironmentStep, ExecutionStartedStep, ContinueRunStep, StartFailsStep,
       ProcessesExitStep, ExecutionFinishedStep, ExecutionForgottenStep, RunOverStep
  <1>6. CASE Crash
    BY <1>6, CrashStep
  <1> QED
    BY <1>1, <1>2, <1>3, <1>4, <1>5, <1>6 DEF Next

\* IInv, the conjunction of everything the properties rest on, is an invariant
\* of the Tracers, the handlers, the hooks and the store together.
THEOREM MonitorInvariant == Spec => []IInv
  <1> QED
    BY InitHolds, StepHolds, PTL DEF Spec

\* The variables keep their types.
THEOREM MonitorTypes == Spec => []TypeOK
  <1>1. IInv => TypeOK
    BY DEF IInv
  <1> QED
    BY <1>1, MonitorInvariant, PTL

\* Telemetry is attributed to the run whose process sent it, whatever runs end
\* and start while its request is in a handler thread.
THEOREM TelemetryIsAttributed == Spec => []StoredUnderOwnRun
  <1>1. IInv => StoredUnderOwnRun
    BY DEF IInv
  <1> QED
    BY <1>1, MonitorInvariant, PTL

\* The store's counter is the number of committed events, but for those that a
\* handler has committed and is about to count.
THEOREM CommittedIsCounted == Spec => []AcceptedIsCommitted
  <1>1. IInv => AcceptedIsCommitted
    BY DEF IInv
  <1> QED
    BY <1>1, MonitorInvariant, PTL

\* A Tracer that acknowledges as many events as it was given has none failed,
\* pending or in flight, so the store has them all.
LEMMA CompleteIsStored == IInv => CompleteMeansStored
  <1> SUFFICES ASSUME IInv, NEW t \in Tracers, Alive(t), complete(t), NEW s \in Spans, owner[s] = t
               PROVE  /\ row[s] # None
                      /\ <<"end", s>> \in sent => row[s].status = "ended"
    BY DEF CompleteMeansStored
  <1>1. TypeOK /\ EventsAreOwned /\ EventsAreCounted /\ NothingIsLost
    BY DEF IInv
  <1>2. /\ tracer[t].failed = 0 /\ tracer[t].pending = <<>>
        /\ tracer[t].acknowledged = tracer[t].attempted
    BY DEF complete
  <1>3. tracer[t].waits = None
    <2> SUFFICES ASSUME tracer[t].waits # None PROVE FALSE
      OBVIOUS
    <2> DEFINE q == tracer[t].waits
               n == Len(request[q].events)
    <2>1. q \in Requests /\ request[q].pc # "free" /\ request[q].from = t
      BY <1>1, Fields DEF EventsAreCounted
    <2>2. n \in 1..BatchSize[t] /\ BatchSize[t] \in Nat
      BY <1>1, <2>1, NamesAreApart DEF EventsAreOwned
    <2>3. InRequest(t) = request[q].events
      BY DEF InRequest
    <2>4. Len(InRequest(t)) = n /\ Len(tracer[t].pending) = 0
      BY <1>2, <2>3
    <2>5. tracer[t].attempted = tracer[t].acknowledged + tracer[t].failed
                                + Len(tracer[t].pending) + Len(InRequest(t))
      BY <1>1 DEF EventsAreCounted
    <2>6. tracer[t].acknowledged \in Nat
      BY <1>1, Fields
    <2> HIDE DEF n, q
    <2> QED
      BY <1>2, <2>2, <2>4, <2>5, <2>6
  <1>4. \A event : ~Holds(tracer[t].pending, event, s)
    BY <1>2 DEF Holds
  <1>5. /\ Stored(row, "start", s) \/ Holds(tracer[t].pending, "start", s)
        /\ <<"end", s>> \in sent => Stored(row, "end", s) \/ Holds(tracer[t].pending, "end", s)
    BY <1>2, <1>3, PendingIsAll
  <1> QED
    BY <1>4, <1>5 DEF Stored

\* A live Tracer that reports complete, and so passes barrier(), checkpoint()
\* and .context, has every event it was given in the store.
THEOREM CompleteTracersAreStored == Spec => []CompleteMeansStored
  <1> QED
    BY CompleteIsStored, MonitorInvariant, PTL

\* A request that the store takes adds to the rows; a refused batch leaves no
\* trace of its first events.
LEMMA IngestGrows ==
  ASSUME IInv, NEW q \in Requests, ingest_request(q)
  PROVE  Grows(row, row')
  <1> DEFINE t == request[q].from
             events == request[q].events
             source == IF t = Orchestrator THEN "framework-sdk" ELSE "session-sdk"
             r == request[q].bound
  <1>1. TypeOK /\ EventsAreOwned /\ request[q].pc = "ingest"
    BY DEF IInv, ingest_request
  <1>2. events \in Seq(Event) /\ r \in Runs \cup {None} /\ source \in Sources /\ row \in Table
    BY <1>1, Fields DEF Sources
  <1>3. CASE row' = row
    BY <1>3 DEF Grows
  <1>4. CASE BatchSize[t] = 1
    <2> DEFINE e == events[1]
    <2>1. e \in Event
      <3>1. Len(events) \in Nat /\ Len(events) \in 1..BatchSize[t]
        BY <1>1, <1>2 DEF EventsAreOwned
      <3> HIDE DEF t
      <3> QED
        BY <1>2, <1>4, <3>1
    <2>2. row' = row \/ (Valid(row, e, source, r) /\ row' = Write(row, e, source, r))
      BY <1>4 DEF ingest_request, ingest, store
    <2> HIDE DEF e, source, r
    <2>3. Valid(row, e, source, r) /\ row' = Write(row, e, source, r) => Grows(row, row')
      BY <1>2, <2>1, WriteStep
    <2> QED
      BY <1>3, <2>2, <2>3
  <1>5. CASE BatchSize[t] # 1
    <2> DEFINE o == Apply(events, source, r)
    <2>1. row' = row \/ (o.ok /\ row' = o.rows)
      BY <1>5 DEF ingest_request, ingest_batch, store
    <2>2. o \in Outcome /\ (o.ok = TRUE => Effect(o.rows, events, r))
      <3> HIDE DEF source, events, r
      <3> QED
        BY <1>2, ApplyStep
    <2> HIDE DEF o
    <2>3. o.ok \in BOOLEAN
      BY <2>2 DEF Outcome
    <2> QED
      BY <1>3, <2>1, <2>2, <2>3 DEF Effect
  <1> QED
    BY <1>4, <1>5

LEMMA HooksGrow ==
  ASSUME IInv, NEW r \in Runs, execution_started(r) \/ execution_finished(r)
  PROVE  Grows(row, row')
  <1>1. run[r] \in Run /\ row \in Table /\ r \in Rows
    BY NamesAreApart DEF IInv, TypeOK, Table
  <1>2. CASE execution_started(r)
    <2> DEFINE e == ProcessStart(r)
    <2>1. e \in Event
      <3>1. run[r].parent \in Rows \cup {None}
        BY <1>1, NamesAreApart DEF Run
      <3> QED
        BY <1>1, <3>1 DEF ProcessStart, Event
    <2>2. \/ row' = row
          \/ Valid(row, e, "allox-executor", r) /\ row' = Write(row, e, "allox-executor", r)
      BY <1>2 DEF execution_started, store
    <2>3. "allox-executor" \in Sources
      BY DEF Sources
    <2> HIDE DEF e
    <2>4. CASE row' = row
      BY <2>4 DEF Grows
    <2>5. CASE Valid(row, e, "allox-executor", r) /\ row' = Write(row, e, "allox-executor", r)
      BY <1>1, <2>1, <2>3, <2>5, WriteStep
    <2> QED
      BY <2>2, <2>4, <2>5
  <1>3. CASE execution_finished(r)
    <2> DEFINE old == row[r]
               v == [old EXCEPT !.status = "ended"]
    <2>1. old \in Row
      BY <1>1, <1>3 DEF execution_finished, IInv, RunsStartEmpty, Table
    <2>2. v \in Row /\ v.run = old.run /\ v.status = "ended"
      BY <2>1 DEF Row
    <2>3. row' = [row EXCEPT ![r] = v]
      BY <1>1, <1>3 DEF execution_finished, Table
    <2> HIDE DEF v
    <2>4. row'[r] = v /\ v # None /\ \A x \in Rows : x # r => row'[x] = row[x]
      BY <1>1, <2>2, <2>3, RowFields DEF Table
    <2> QED
      BY <2>2, <2>4 DEF Grows
  <1> QED
    BY <1>2, <1>3

\* The trace store is append-only: over every step, a crash of the daemon and a
\* rolled-back batch included, no row is deleted, given to another run, or
\* running again after its end.
THEOREM TracesOnlyGrow == Spec => [][Grows(row, row')]_vars
  <1>1. ASSUME IInv, [Next]_vars PROVE Grows(row, row')
    <2>1. CASE row' = row
      BY <2>1 DEF Grows
    <2>2. ASSUME NEW q \in Requests, ingest_request(q) PROVE Grows(row, row')
      BY <1>1, <2>2, IngestGrows
    <2>3. ASSUME NEW r \in Runs, execution_started(r) \/ execution_finished(r)
          PROVE  Grows(row, row')
      BY <1>1, <2>3, HooksGrow
    <2>4. \/ row' = row \/ \E q \in Requests : ingest_request(q)
          \/ \E r \in Runs : execution_started(r) \/ execution_finished(r)
      <3>1. CASE UNCHANGED vars
        BY <3>1 DEF vars
      <3>2. CASE Crash
        BY <3>2 DEF Crash
      <3>3. ASSUME NEW t \in Tracers, NEW s \in Spans,
                   \/ \E parent \in Rows \cup {None} : enter_span(t, s, parent)
                   \/ exit_span(t, s)
                   \/ emit_unencodable(t, s)
            PROVE  row' = row
        BY <3>3 DEF enter_span, exit_span, emit, emit_unencodable, store
      <3>4. ASSUME NEW t \in Tracers, flush(t) \/ give_up(t) PROVE row' = row
        BY <3>4 DEF flush, give_up, store
      <3>5. ASSUME NEW q \in Requests,
                   \/ check_peer(q) \/ bind_run(q) \/ admit(q) \/ compare_run(q)
                   \/ count_accepted(q) \/ reply(q)
            PROVE  row' = row
        BY <3>5 DEF check_peer, bind_run, admit, compare_run, count_accepted, reply, store
      <3>6. ASSUME NEW r \in Runs,
                   \/ \E parent \in Rows \cup {None}, recovery \in BOOLEAN :
                        prepare_run_environment(r, parent, recovery)
                   \/ continue_run(r) \/ start_fails(r) \/ processes_exit(r)
                   \/ execution_forgotten(r) \/ run_over(r)
            PROVE  row' = row
        BY <3>6 DEF prepare_run_environment, continue_run, start_fails, processes_exit,
                    execution_forgotten, run_over, store
      <3> QED
        BY <1>1, <3>1, <3>2, <3>3, <3>4, <3>5, <3>6 DEF Next
    <2> QED
      BY <2>1, <2>2, <2>3, <2>4
  <1> QED
    BY <1>1, MonitorInvariant, PTL DEF Spec

=============================================================================
