----------------------- MODULE BackgroundExporterProofs -----------------------
(***************************************************************************)
(* The exporter's accounting, its durability barrier and its drain, for    *)
(* any number of threads and events and any limits.                        *)
(***************************************************************************)
EXTENDS BackgroundExporter, SequenceTheorems, WellFoundedInduction, TLAPS

\* A thread that waits for nothing.
LEMMA QuietIsAThread == Quiet \in Thread
  BY LimitsAssumption DEF Quiet, Thread

\* A fresh exporter satisfies the inductive invariant.
LEMMA InitIInv == Init => IInv
  <1> SUFFICES ASSUME Init PROVE IInv
    OBVIOUS
  <1> USE LimitsAssumption DEF Init, Quiet
  <1>1. TypeOK
    <2>1. /\ queue \in Seq(Event) /\ batch \in Seq(Event)
          /\ attempted \in 0..MaxEvents /\ acknowledged \in 0..MaxEvents
          /\ failed \in 0..MaxEvents /\ force_target \in 0..MaxEvents
          /\ accepted \in 0..MaxEvents /\ confirmed \in 0..MaxEvents
      OBVIOUS
    <2>2. threads \in [Threads -> Thread]
      BY QuietIsAThread
    <2> QED
      BY <2>1, <2>2 DEF TypeOK
  <1>2. Conservation /\ PendingIsBounded
    BY DEF Conservation, PendingIsBounded, Pending
  <1>3. InOrder
    BY DEF InOrder
  <1>4. Stored
    <2>1. stored = 1..0 /\ 0 \in acknowledged..accepted
      OBVIOUS
    <2> QED
      BY <2>1 DEF Stored
  <1>5. Barriers
    BY DEF Barriers
  <1> QED
    BY <1>1, <1>2, <1>3, <1>4, <1>5 DEF IInv

\* The numbers the arithmetic of the proofs is about.
Numbers ==
  /\ attempted \in Nat /\ acknowledged \in Nat /\ failed \in Nat
  /\ accepted \in Nat /\ confirmed \in Nat /\ force_target \in Nat
  /\ Len(queue) \in Nat /\ Len(batch) \in Nat
  /\ Capacity \in Nat /\ MaxEvents \in Nat

\* The type invariant makes them natural numbers.
LEMMA TypesAreNumbers == TypeOK => Numbers
  BY LimitsAssumption, LenProperties DEF TypeOK, Numbers

\* An accepted event goes to the end of the queue with the next number.
LEMMA SubmitStep ==
  ASSUME IInv, NEW size \in EventSizes, submit(size)
  PROVE  IInv'
  <1>i. TypeOK /\ Conservation /\ PendingIsBounded /\ InOrder /\ Stored /\ Barriers
    BY DEF IInv
  <1>n. Numbers
    BY <1>i, TypesAreNumbers
  <1> DEFINE e == [n |-> accepted + 1, size |-> size]
  <1>0. Pending < Capacity
    <2>1. ~(Pending >= Capacity)
      BY DEF submit, Full
    <2> QED
      BY <2>1, <1>n DEF Pending, Numbers
  <1>1. /\ ~closing /\ ~error /\ attempted < MaxEvents
        /\ attempted' = attempted + 1 /\ accepted' = accepted + 1
        /\ queue' = Append(queue, e)
        /\ worker' = IF worker = "none" THEN "idle" ELSE worker
        /\ UNCHANGED <<batch, acknowledged, failed, closing, error, force_target, answer,
                       threads, stored, confirmed, drained>>
    BY DEF submit
  <1>2. e \in Event
    <2>1. accepted <= attempted /\ accepted' = accepted + 1 /\ attempted < MaxEvents
      BY <1>i, <1>1 DEF InOrder
    <2>2. accepted + 1 \in 1..MaxEvents
      BY <1>i, <2>1, <1>n DEF TypeOK, Numbers
    <2> QED
      BY <2>2 DEF Event
  <1>3. /\ queue' \in Seq(Event) /\ Len(queue') = Len(queue) + 1
        /\ \A i \in 1..Len(queue) : queue'[i] = queue[i]
        /\ queue'[Len(queue) + 1] = e
    BY <1>i, <1>1, <1>2, AppendProperties DEF TypeOK
  <1> HIDE DEF e
  <1>4. TypeOK'
    BY <1>i, <1>1, <1>3, <1>n DEF TypeOK, InOrder, Numbers
  <1>5. Conservation' /\ PendingIsBounded'
    <2>1. /\ attempted' = attempted + 1 /\ acknowledged' = acknowledged
          /\ failed' = failed /\ Len(batch') = Len(batch) /\ Len(queue') = Len(queue) + 1
      BY <1>1, <1>3
    <2>2. attempted = acknowledged + failed + Len(queue) + Len(batch)
      BY <1>i DEF Conservation
    <2>3. Conservation'
      BY <1>i, <2>1, <2>2, <1>n DEF Conservation, Numbers
    <2>4. attempted' - (acknowledged' + failed') <= Capacity
      BY <1>0, <2>1, <1>n DEF Pending, Numbers
    <2> QED
      BY <1>i, <2>3, <2>4 DEF PendingIsBounded, Pending
  <1>6. InOrder'
    <2>1. \A i \in 1..Len(queue') : queue'[i].n = acknowledged' + Len(batch') + i
      <3>1. e.n = acknowledged + Len(batch) + Len(queue) + 1
        BY <1>i, <1>1, <1>n DEF e, InOrder, Numbers
      <3>2. acknowledged' = acknowledged /\ batch' = batch
        BY <1>1
      <3>3. \A i \in 1..Len(queue) : queue[i].n = acknowledged + Len(batch) + i
        BY <1>i DEF InOrder
      <3> TAKE i \in 1..Len(queue')
      <3>4. i \in 1..Len(queue) \/ i = Len(queue) + 1
        BY <1>3, <1>n DEF Numbers
      <3>5. CASE i \in 1..Len(queue)
        BY <1>3, <3>2, <3>3, <3>5
      <3>6. CASE i = Len(queue) + 1
        <4>1. queue'[i].n = acknowledged + Len(batch) + Len(queue) + 1
          BY <1>3, <3>1, <3>6
        <4> QED
          BY <3>2, <3>6, <4>1, <1>n DEF Numbers
      <3> QED
        BY <3>4, <3>5, <3>6
    <2>2. accepted' <= attempted'
      <3>1. accepted <= attempted /\ accepted' = accepted + 1 /\ attempted' = attempted + 1
        BY <1>i, <1>1 DEF InOrder
      <3> QED
        BY <3>1, <1>n DEF Numbers
    <2>3. accepted' = acknowledged' + Len(batch') + Len(queue')
      <3>1. /\ accepted = acknowledged + Len(batch) + Len(queue)
            /\ accepted' = accepted + 1 /\ acknowledged' = acknowledged /\ batch' = batch
        BY <1>i, <1>1 DEF InOrder
      <3> QED
        BY <1>3, <3>1, <1>n DEF Numbers
    <2>4. ~error' /\ \A i \in 1..Len(batch') : batch'[i].n = acknowledged' + i
      BY <1>i, <1>1 DEF InOrder
    <2> QED
      BY <1>i, <2>1, <2>2, <2>3, <2>4 DEF InOrder
  <1>7. Stored'
    <2>1. worker # "stopped"
      BY <1>i, <1>1 DEF Stored
    <2>2. PICK m \in acknowledged..accepted : stored = 1..m
      BY <1>i DEF Stored
    <2>3. m \in acknowledged'..accepted' /\ stored' = 1..m
      BY <1>1, <2>2, <1>n DEF Numbers
    <2>4. (worker' \in {"none", "idle", "sending"} => stored' = 1..acknowledged')
          /\ (worker' = "answered" /\ answer' => stored' = 1..(acknowledged' + Len(batch')))
      BY <1>i, <1>1 DEF Stored
    <2>5. worker' \in {"sending", "answered"} <=> batch' # <<>>
      BY <1>i, <1>1 DEF Stored
    <2>6. worker' # "none" /\ worker' # "stopped"
      BY <1>1, <2>1
    <2> QED
      BY <1>i, <2>3, <2>4, <2>5, <2>6 DEF Stored
  <1>8. Barriers'
    BY <1>i, <1>1, <1>n DEF Barriers, Numbers
  <1> QED
    BY <1>4, <1>5, <1>6, <1>7, <1>8 DEF IInv

\* A refused event is attempted and failed at once.
LEMMA RefuseStep ==
  ASSUME IInv, NEW size, submit_refused(size)
  PROVE  IInv'
  <1>i. TypeOK /\ Conservation /\ PendingIsBounded /\ InOrder /\ Stored /\ Barriers
    BY DEF IInv
  <1>n. Numbers
    BY <1>i, TypesAreNumbers
  <1>1. /\ attempted < MaxEvents
        /\ attempted' = attempted + 1 /\ failed' = failed + 1
        /\ UNCHANGED <<queue, batch, acknowledged, closing, error, force_target, worker,
                       answer, threads, accepted, stored, confirmed, drained>>
    BY DEF submit_refused, history
  <1>2. TypeOK'
    <2>1. failed' \in 0..MaxEvents
      BY <1>i, <1>1, <1>n DEF Conservation, Numbers
    <2> QED
      BY <1>i, <1>1, <2>1, <1>n DEF TypeOK, Numbers
  <1>3. Conservation' /\ PendingIsBounded'
    <2>1. /\ attempted' = attempted + 1 /\ acknowledged' = acknowledged
          /\ failed' = failed + 1 /\ Len(batch') = Len(batch) /\ Len(queue') = Len(queue)
      BY <1>1
    <2>2. attempted = acknowledged + failed + Len(queue) + Len(batch)
      BY <1>i DEF Conservation
    <2>3. Conservation'
      BY <1>i, <2>1, <2>2, <1>n DEF Conservation, Numbers
    <2>4. attempted - (acknowledged + failed) <= Capacity
      BY <1>i DEF PendingIsBounded, Pending
    <2>5. attempted' - (acknowledged' + failed') <= Capacity
      BY <2>1, <2>4, <1>n DEF Numbers
    <2> QED
      BY <1>i, <2>3, <2>5 DEF PendingIsBounded, Pending
  <1>4. InOrder'
    BY <1>i, <1>1, <1>n DEF InOrder, Numbers
  <1>5. Stored'
    BY <1>i, <1>1 DEF Stored
  <1>6. Barriers'
    BY <1>i, <1>1 DEF Barriers
  <1> QED
    BY <1>2, <1>3, <1>4, <1>5, <1>6 DEF IInv

\* The batch is the head of the queue: nothing is lost or reordered.
LEMMA TakeStep ==
  ASSUME IInv, take_batch
  PROVE  IInv'
  <1>i. TypeOK /\ Conservation /\ PendingIsBounded /\ InOrder /\ Stored /\ Barriers
    BY DEF IInv
  <1>n. Numbers
    BY <1>i, TypesAreNumbers
  <1>1. PICK k \in 1..Len(queue) : /\ batch' = SubSeq(queue, 1, k)
                                  /\ queue' = SubSeq(queue, k + 1, Len(queue))
    BY DEF take_batch
  <1>2. /\ worker = "idle" /\ worker' = "sending"
        /\ UNCHANGED <<attempted, acknowledged, failed, closing, error, force_target,
                       answer, threads, accepted, stored, confirmed, drained>>
    BY DEF take_batch, counts, history
  <1>3. ~error /\ batch = <<>> /\ Len(batch) = 0
    BY <1>i, <1>2 DEF InOrder, Stored
  <1>4. k \in Nat /\ 1 <= k /\ k <= Len(queue)
    BY <1>n DEF Numbers
  <1>5. /\ batch' \in Seq(Event) /\ Len(batch') = k
        /\ \A i \in 1..k : batch'[i] = queue[i]
    BY <1>i, <1>1, <1>4, SubSeqProperties DEF TypeOK
  <1>6. /\ queue' \in Seq(Event) /\ Len(queue') = Len(queue) - k
        /\ \A i \in 1..(Len(queue) - k) : queue'[i] = queue[k + i]
    <2>1. queue \in Seq(Event) /\ k + 1 \in 1..(Len(queue) + 1) /\ Len(queue) \in Nat
      BY <1>i, <1>n, <1>4 DEF TypeOK, Numbers
    <2> QED
      BY <1>1, <1>4, <2>1
  <1>7. TypeOK'
    BY <1>i, <1>2, <1>5, <1>6 DEF TypeOK
  <1>8. Conservation' /\ PendingIsBounded'
    <2>1. attempted = acknowledged + failed + Len(queue) + Len(batch)
      BY <1>i DEF Conservation
    <2>2. Conservation'
      BY <1>n, <1>2, <1>3, <1>4, <1>5, <1>6, <2>1 DEF Conservation, Numbers
    <2> QED
      BY <1>i, <1>2, <2>2 DEF PendingIsBounded, Pending
  <1>9. InOrder'
    <2>0. \A i \in 1..Len(queue) : queue[i].n = acknowledged + i
      BY <1>i, <1>n, <1>3 DEF InOrder, Numbers
    <2>1. \A i \in 1..Len(batch') : batch'[i].n = acknowledged' + i
      BY <1>n, <1>2, <1>4, <1>5, <2>0 DEF Numbers
    <2>2. \A i \in 1..Len(queue') : queue'[i].n = acknowledged' + Len(batch') + i
      <3> TAKE i \in 1..Len(queue')
      <3>1. i \in 1..(Len(queue) - k) /\ k + i \in 1..Len(queue)
        BY <1>n, <1>4, <1>6 DEF Numbers
      <3>2. queue'[i].n = acknowledged + (k + i)
        BY <1>6, <2>0, <3>1
      <3> QED
        BY <1>n, <1>2, <1>4, <1>5, <3>1, <3>2 DEF Numbers
    <2>3. accepted' = acknowledged' + Len(batch') + Len(queue')
      <3>1. accepted = acknowledged + Len(batch) + Len(queue)
        BY <1>i, <1>3 DEF InOrder
      <3> QED
        BY <1>n, <1>2, <1>3, <1>4, <1>5, <1>6, <3>1 DEF Numbers
    <2>4. ~error' /\ accepted' <= attempted'
      BY <1>i, <1>2, <1>3 DEF InOrder
    <2> QED
      BY <2>1, <2>2, <2>3, <2>4 DEF InOrder
  <1>10. Stored'
    <2>1. batch' # <<>>
      BY <1>4, <1>5
    <2>2. stored' = 1..acknowledged' /\ \E m \in acknowledged'..accepted' : stored' = 1..m
      BY <1>i, <1>2 DEF Stored
    <2> QED
      BY <1>2, <2>1, <2>2 DEF Stored
  <1>11. Barriers'
    BY <1>i, <1>2 DEF Barriers
  <1> QED
    BY <1>7, <1>8, <1>9, <1>10, <1>11 DEF IInv

\* What a stored batch adds continues what the collector already holds.
LEMMA EmitStep ==
  ASSUME IInv, emit
  PROVE  IInv'
  <1>i. TypeOK /\ Conservation /\ PendingIsBounded /\ InOrder /\ Stored /\ Barriers
    BY DEF IInv
  <1>n. Numbers
    BY <1>i, TypesAreNumbers
  <1>1. /\ worker = "sending" /\ worker' = "answered" /\ answer' \in BOOLEAN
        /\ UNCHANGED <<queue, batch, attempted, acknowledged, failed, closing, error,
                       force_target, threads, accepted, confirmed, drained>>
    BY DEF emit, counts
  <1>2. ~error /\ stored = 1..acknowledged /\ batch # <<>>
    BY <1>i, <1>1 DEF InOrder, Stored
  <1>3. \/ stored' = stored \cup {batch[i].n : i \in 1..Len(batch)}
        \/ stored' = stored /\ answer' = FALSE
    BY DEF emit
  <1>4. /\ accepted = acknowledged + Len(batch) + Len(queue)
        /\ \A i \in 1..Len(batch) : batch[i].n = acknowledged + i
    BY <1>i, <1>2 DEF InOrder
  <1>5. {batch[i].n : i \in 1..Len(batch)} = (acknowledged + 1)..(acknowledged + Len(batch))
    <2>1. ASSUME NEW x \in (acknowledged + 1)..(acknowledged + Len(batch))
          PROVE  \E i \in 1..Len(batch) : x = batch[i].n
      <3>1. x - acknowledged \in 1..Len(batch) /\ acknowledged + (x - acknowledged) = x
        BY <1>n DEF Numbers
      <3> QED
        BY <1>4, <3>1
    <2>2. ASSUME NEW i \in 1..Len(batch)
          PROVE  batch[i].n \in (acknowledged + 1)..(acknowledged + Len(batch))
      <3>1. acknowledged + i \in (acknowledged + 1)..(acknowledged + Len(batch))
        BY <1>n DEF Numbers
      <3> QED
        BY <1>4, <3>1
    <2> QED
      BY <2>1, <2>2
  <1>6. \/ stored' = 1..(acknowledged + Len(batch))
        \/ stored' = 1..acknowledged /\ answer' = FALSE
    <2>1. (1..acknowledged) \cup ((acknowledged + 1)..(acknowledged + Len(batch)))
            = 1..(acknowledged + Len(batch))
      BY <1>n DEF Numbers
    <2> QED
      BY <1>2, <1>3, <1>5, <2>1
  <1>7. /\ acknowledged + Len(batch) \in acknowledged..accepted
        /\ acknowledged \in acknowledged..accepted
        /\ accepted <= MaxEvents
    BY <1>i, <1>n, <1>4 DEF TypeOK, Numbers
  <1>8. TypeOK'
    <2>1. stored' \subseteq 1..MaxEvents
      BY <1>n, <1>6, <1>7 DEF Numbers
    <2> QED
      BY <1>i, <1>1, <2>1 DEF TypeOK
  <1>9. Conservation' /\ PendingIsBounded' /\ InOrder'
    BY <1>i, <1>1, <1>2 DEF Conservation, PendingIsBounded, Pending, InOrder
  <1>10. Stored'
    <2>1. \E m \in acknowledged'..accepted' : stored' = 1..m
      BY <1>1, <1>6, <1>7
    <2>2. answer' => stored' = 1..(acknowledged' + Len(batch'))
      BY <1>1, <1>6
    <2> QED
      BY <1>1, <1>2, <2>1, <2>2 DEF Stored
  <1>11. Barriers'
    BY <1>i, <1>1 DEF Barriers
  <1> QED
    BY <1>8, <1>9, <1>10, <1>11 DEF IInv

\* An acknowledged batch moves the acknowledged prefix on; a failed one takes
\* the whole queue with it and ends the stream.
LEMMA SettleStep ==
  ASSUME IInv, settle
  PROVE  IInv'
  <1>i. TypeOK /\ Conservation /\ PendingIsBounded /\ InOrder /\ Stored /\ Barriers
    BY DEF IInv
  <1>n. Numbers
    BY <1>i, TypesAreNumbers
  <1>0. /\ worker = "answered" /\ batch' = <<>>
        /\ UNCHANGED <<attempted, closing, force_target, answer, threads, accepted,
                       stored, confirmed, drained>>
    BY DEF settle, history
  <1>1. ~error /\ batch # <<>> /\ ~drained
    BY <1>i, <1>0 DEF InOrder, Stored, Barriers
  <1>2. attempted = acknowledged + failed + Len(queue) + Len(batch)
    BY <1>i DEF Conservation
  <1>3. /\ accepted = acknowledged + Len(batch) + Len(queue) /\ accepted <= attempted
        /\ \A i \in 1..Len(queue) : queue[i].n = acknowledged + Len(batch) + i
    BY <1>i, <1>1 DEF InOrder
  <1>4. Len(<<>>) = 0 /\ <<>> \in Seq(Event) /\ Len(batch) > 0
    BY <1>i, <1>1, EmptySeq DEF TypeOK
  <1>5. attempted \in 0..MaxEvents
    BY <1>i DEF TypeOK
  <1>6. CASE answer
    <2>1. acknowledged' = acknowledged + Len(batch) /\ worker' = "idle"
          /\ UNCHANGED <<queue, failed, error>>
      BY <1>6 DEF settle
    <2>2. TypeOK'
      <3>1. acknowledged' \in 0..MaxEvents
        BY <1>n, <1>2, <1>5, <2>1 DEF Numbers
      <3> QED
        BY <1>i, <1>0, <1>4, <2>1, <3>1 DEF TypeOK
    <2>3. Conservation' /\ PendingIsBounded'
      <3>1. Conservation'
        BY <1>n, <1>0, <1>2, <1>4, <2>1 DEF Conservation, Numbers
      <3>2. attempted - (acknowledged + failed) <= Capacity
        BY <1>i DEF PendingIsBounded, Pending
      <3>3. attempted' - (acknowledged' + failed') <= Capacity
        BY <1>n, <1>0, <2>1, <3>2 DEF Numbers
      <3> QED
        BY <3>1, <3>3 DEF PendingIsBounded, Pending
    <2>4. InOrder'
      <3>1. \A i \in 1..Len(batch') : batch'[i].n = acknowledged' + i
        BY <1>0, <1>4
      <3>2. \A i \in 1..Len(queue') : queue'[i].n = acknowledged' + Len(batch') + i
        <4> TAKE i \in 1..Len(queue')
        <4>1. queue'[i].n = acknowledged + Len(batch) + i
          BY <1>3, <2>1
        <4> QED
          BY <1>n, <1>0, <1>4, <2>1, <4>1 DEF Numbers
      <3>3. accepted' = acknowledged' + Len(batch') + Len(queue') /\ accepted' <= attempted'
        BY <1>n, <1>0, <1>3, <1>4, <2>1 DEF Numbers
      <3> QED
        BY <1>1, <2>1, <3>1, <3>2, <3>3 DEF InOrder
    <2>5. Stored'
      <3>1. stored' = 1..acknowledged'
        BY <1>i, <1>0, <1>6, <2>1 DEF Stored
      <3>2. acknowledged' \in acknowledged'..accepted'
        BY <1>n, <1>0, <1>3, <2>1 DEF Numbers
      <3> QED
        BY <1>0, <2>1, <3>1, <3>2 DEF Stored
    <2>6. Barriers'
      <3>1. confirmed' <= acknowledged'
        <4>1. confirmed <= acknowledged
          BY <1>i DEF Barriers
        <4> QED
          BY <1>n, <1>0, <2>1, <4>1 DEF Numbers
      <3> QED
        BY <1>i, <1>0, <1>1, <3>1 DEF Barriers
    <2> QED
      BY <2>2, <2>3, <2>4, <2>5, <2>6 DEF IInv
  <1>7. CASE ~answer
    <2>1. /\ failed' = failed + Len(batch) + Len(queue) /\ queue' = <<>> /\ error' = TRUE
          /\ worker' = "stopped" /\ acknowledged' = acknowledged
      BY <1>7 DEF settle
    <2>2. TypeOK'
      <3>1. failed' \in 0..MaxEvents
        BY <1>n, <1>2, <1>5, <2>1 DEF Numbers
      <3> QED
        BY <1>i, <1>0, <1>4, <2>1, <3>1 DEF TypeOK
    <2>3. Conservation' /\ PendingIsBounded'
      <3>1. Conservation'
        BY <1>n, <1>0, <1>2, <1>4, <2>1 DEF Conservation, Numbers
      <3>2. attempted' - (acknowledged' + failed') <= Capacity
        BY <1>n, <1>0, <1>2, <2>1 DEF Numbers
      <3> QED
        BY <3>1, <3>2 DEF PendingIsBounded, Pending
    <2>4. InOrder'
      <3>1. failed' > 0 /\ accepted' <= attempted'
        BY <1>n, <1>0, <1>3, <1>4, <2>1 DEF Numbers
      <3>2. /\ \A i \in 1..Len(batch') : batch'[i].n = acknowledged' + i
            /\ \A i \in 1..Len(queue') : queue'[i].n = acknowledged' + Len(batch') + i
        BY <1>0, <1>4, <2>1
      <3> QED
        BY <1>0, <2>1, <3>1, <3>2 DEF InOrder
    <2>5. Stored'
      BY <1>i, <1>0, <2>1 DEF Stored
    <2>6. Barriers'
      BY <1>i, <1>0, <1>1, <2>1 DEF Barriers
    <2> QED
      BY <2>2, <2>3, <2>4, <2>5, <2>6 DEF IInv
  <1> QED
    BY <1>6, <1>7

\* The worker stops only when it is told to and has nothing left to send.
LEMMA StopStep ==
  ASSUME IInv, stop
  PROVE  IInv'
  <1>i. TypeOK /\ Conservation /\ PendingIsBounded /\ InOrder /\ Stored /\ Barriers
    BY DEF IInv
  <1>1. /\ worker = "idle" /\ queue = <<>> /\ closing /\ worker' = "stopped"
        /\ UNCHANGED <<queue, batch, attempted, acknowledged, failed, closing, error,
                       force_target, answer, threads, accepted, stored, confirmed, drained>>
    BY DEF stop, counts, history
  <1>2. TypeOK' /\ Conservation' /\ PendingIsBounded'
    BY <1>i, <1>1 DEF TypeOK, Conservation, PendingIsBounded, Pending
  <1>3. InOrder' /\ Stored'
    BY <1>i, <1>1 DEF InOrder, Stored
  <1>4. Barriers'
    BY <1>i, <1>1 DEF Barriers
  <1> QED
    BY <1>2, <1>3, <1>4 DEF IInv

\* The threads at the barrier leave the worker's state alone.
LEMMA RestStep ==
  ASSUME IInv, UNCHANGED rest, closing' \in BOOLEAN, closing => closing',
         force_target' \in 0..MaxEvents, confirmed' \in 0..MaxEvents, drained' \in BOOLEAN,
         threads' \in [Threads -> Thread],
         Barriers'
  PROVE  IInv'
  <1>i. TypeOK /\ Conservation /\ PendingIsBounded /\ InOrder /\ Stored
    BY DEF IInv
  <1>1. UNCHANGED <<queue, batch, attempted, acknowledged, failed, error, worker, answer,
                    accepted, stored>>
    BY DEF rest, counts
  <1>2. TypeOK'
    BY <1>i, <1>1 DEF TypeOK
  <1>3. Conservation' /\ PendingIsBounded' /\ InOrder'
    BY <1>i, <1>1 DEF Conservation, PendingIsBounded, Pending, InOrder
  <1>4. Stored'
    BY <1>i, <1>1 DEF Stored
  <1> QED
    BY <1>2, <1>3, <1>4 DEF IInv

\* close() fences the submitters, and flush() notes where the stream stands.
LEMMA EnterStep ==
  ASSUME IInv, NEW t \in Threads, close(t) \/ flush(t)
  PROVE  IInv'
  <1>i. TypeOK /\ InOrder /\ Barriers
    BY DEF IInv
  <1>1. CASE close(t)
    <2>1. /\ UNCHANGED rest /\ closing' = TRUE
          /\ UNCHANGED <<force_target, confirmed, drained>>
          /\ threads' = [threads EXCEPT ![t] = [Quiet EXCEPT !.pc = "enter", !.close = TRUE]]
      BY <1>1 DEF close
    <2>2. accepted' = accepted /\ acknowledged' = acknowledged /\ worker' = worker
      BY <2>1 DEF rest, counts
    <2>3. threads' \in [Threads -> Thread]
      <3>1. [Quiet EXCEPT !.pc = "enter", !.close = TRUE] \in Thread
        BY QuietIsAThread DEF Thread
      <3> QED
        BY <1>i, <2>1, <3>1 DEF TypeOK
    <2>4. Barriers'
      <3>1. \A u \in Threads \ {t} : threads'[u] = threads[u]
        BY <1>i, <2>1 DEF TypeOK
      <3>2. threads'[t] = [Quiet EXCEPT !.pc = "enter", !.close = TRUE]
        BY <1>i, <2>1 DEF TypeOK
      <3>3. /\ threads'[t].pc = "enter" /\ threads'[t].close /\ threads'[t].upto = 0
            /\ threads'[t].target = 0
        BY <3>2 DEF Quiet
      <3> QED
        BY <1>i, <2>1, <2>2, <3>1, <3>3 DEF Barriers
    <2> QED
      BY <1>i, <2>1, <2>3, <2>4, RestStep DEF TypeOK
  <1>2. CASE flush(t)
    <2>1. /\ UNCHANGED rest /\ UNCHANGED <<closing, confirmed, drained>>
          /\ threads[t].pc \in {"out", "enter"}
          /\ force_target' = IF attempted > force_target THEN attempted ELSE force_target
          /\ threads' = [threads EXCEPT ![t] = [threads[t] EXCEPT !.pc = "wait",
                                       !.target = attempted, !.upto = accepted]]
      BY <1>2 DEF flush
    <2>2. accepted' = accepted /\ acknowledged' = acknowledged /\ worker' = worker
      BY <2>1 DEF rest, counts
    <2>3. threads' \in [Threads -> Thread]
      <3>1. [threads[t] EXCEPT !.pc = "wait", !.target = attempted, !.upto = accepted] \in Thread
        BY <1>i DEF TypeOK, Thread
      <3> QED
        BY <1>i, <2>1, <3>1 DEF TypeOK
    <2>4. Barriers'
      <3>1. \A u \in Threads \ {t} : threads'[u] = threads[u]
        BY <1>i, <2>1 DEF TypeOK
      <3>2. /\ threads'[t].pc = "wait" /\ threads'[t].target = attempted
            /\ threads'[t].upto = accepted /\ threads'[t].close = threads[t].close
        BY <1>i, <2>1 DEF TypeOK, Thread
      <3>3. accepted <= attempted
        BY <1>i DEF InOrder
      <3> QED
        BY <1>i, <2>1, <2>2, <3>1, <3>2, <3>3 DEF Barriers
    <2>5. force_target' \in 0..MaxEvents
      BY <1>i, <2>1 DEF TypeOK
    <2> QED
      BY <1>i, <2>1, <2>3, <2>4, <2>5, RestStep DEF TypeOK
  <1> QED
    BY <1>1, <1>2

\* A flush that succeeds saw no failure, so what it waited for is acknowledged.
LEMMA LeaveStep ==
  ASSUME IInv, NEW t \in Threads, NEW good \in BOOLEAN, threads[t].pc = "wait",
         good => threads[t].target <= acknowledged,
         Leave(t, good)
  PROVE  IInv'
  <1>i. TypeOK /\ InOrder /\ Stored /\ Barriers
    BY DEF IInv
  <1>n. Numbers
    BY <1>i, TypesAreNumbers
  <1>1. /\ UNCHANGED rest /\ UNCHANGED <<closing, force_target>>
        /\ drained' = (drained \/ (good /\ threads[t].close /\ worker = "none"))
        /\ confirmed' = IF good /\ threads[t].upto > confirmed THEN threads[t].upto ELSE confirmed
        /\ threads' = [threads EXCEPT ![t] =
             IF threads[t].close /\ worker # "none"
             THEN [threads[t] EXCEPT !.pc = "join", !.ok = good] ELSE Quiet]
    BY DEF Leave
  <1>2. accepted' = accepted /\ acknowledged' = acknowledged /\ worker' = worker
    BY <1>1 DEF rest, counts
  <1>3. threads' \in [Threads -> Thread]
    <2>1. [threads[t] EXCEPT !.pc = "join", !.ok = good] \in Thread
      BY <1>i DEF TypeOK, Thread
    <2> QED
      BY <1>i, <1>1, <2>1, QuietIsAThread DEF TypeOK
  <1>4. threads[t].upto \in 0..MaxEvents /\ threads[t].target \in 0..MaxEvents
    BY <1>i DEF TypeOK, Thread
  <1>5. threads[t].upto <= threads[t].target /\ confirmed <= acknowledged
    BY <1>i DEF Barriers
  <1>6. /\ confirmed' \in 0..MaxEvents /\ confirmed <= confirmed'
        /\ confirmed' <= acknowledged /\ (good => threads[t].upto <= confirmed')
    <2>1. CASE good /\ threads[t].upto > confirmed
      <3>1. threads[t].target <= acknowledged /\ confirmed' = threads[t].upto
        BY <1>1, <2>1
      <3> QED
        BY <1>n, <1>4, <1>5, <2>1, <3>1 DEF Numbers
    <2>2. CASE ~(good /\ threads[t].upto > confirmed)
      <3>1. confirmed' = confirmed /\ (good => ~(threads[t].upto > confirmed))
        BY <1>1, <2>2
      <3>2. good => threads[t].upto <= confirmed
        BY <1>n, <1>4, <3>1 DEF Numbers
      <3>3. confirmed \in 0..MaxEvents
        BY <1>i DEF TypeOK
      <3> QED
        BY <1>n, <1>5, <3>1, <3>2, <3>3 DEF Numbers
    <2> QED
      BY <2>1, <2>2
  <1>7. Barriers'
    <2>1. \A u \in Threads \ {t} : threads'[u] = threads[u]
      BY <1>i, <1>1 DEF TypeOK
    <2>2. threads[t].close => closing /\ threads[t].upto = accepted
      BY <1>i DEF Barriers
    <2>3. accepted <= confirmed => accepted <= confirmed'
      BY <1>n, <1>6 DEF Numbers
    <2>4. \/ threads'[t] = Quiet
          \/ /\ threads'[t].pc = "join" /\ threads'[t].ok = good /\ threads[t].close
             /\ threads'[t].close = threads[t].close /\ threads'[t].upto = threads[t].upto
             /\ threads'[t].target = threads[t].target
      BY <1>i, <1>1 DEF TypeOK, Thread
    <2>5. ASSUME NEW u \in Threads
          PROVE  LET th == threads'[u]
                 IN  /\ th.upto <= th.target
                     /\ th.pc = "out" => ~th.close
                     /\ th.close => closing'
                     /\ th.close /\ th.pc \in {"wait", "join"} => th.upto = accepted'
                     /\ th.pc = "join" /\ th.ok => accepted' <= confirmed'
                     /\ th.pc = "join" => th.close
      <3>1. CASE u # t
        BY <1>i, <1>1, <1>2, <2>1, <2>3, <3>1 DEF Barriers
      <3>2. CASE u = t
        BY <1>1, <1>2, <1>5, <1>6, <2>2, <2>4, <3>2 DEF Quiet
      <3> QED
        BY <3>1, <3>2
    <2>6. drained' => closing' /\ accepted' <= confirmed' /\ worker' \in {"none", "stopped"}
      <3>1. CASE drained
        BY <1>i, <1>1, <1>2, <2>3, <3>1 DEF Barriers
      <3>2. CASE good /\ threads[t].close /\ worker = "none"
        BY <1>1, <1>2, <1>6, <2>2, <3>2
      <3> QED
        BY <1>1, <3>1, <3>2
    <2> QED
      BY <1>2, <1>6, <2>5, <2>6 DEF Barriers
  <1> QED
    BY <1>i, <1>1, <1>3, <1>6, <1>7, RestStep DEF TypeOK

\* A close that joined the stopped worker after a good flush is drained.
LEMMA JoinStep ==
  ASSUME IInv, NEW t \in Threads, join(t)
  PROVE  IInv'
  <1>i. TypeOK /\ Barriers
    BY DEF IInv
  <1>1. /\ UNCHANGED rest /\ UNCHANGED <<closing, force_target, confirmed>>
        /\ threads[t].pc = "join" /\ threads' = [threads EXCEPT ![t] = Quiet]
        /\ drained' = drained \/ (worker = "stopped" /\ drained' = (drained \/ threads[t].ok))
    BY DEF join
  <1>2. accepted' = accepted /\ acknowledged' = acknowledged /\ worker' = worker
    BY <1>1 DEF rest, counts
  <1>3. threads' \in [Threads -> Thread]
    BY <1>i, <1>1, QuietIsAThread DEF TypeOK
  <1>4. drained' \in BOOLEAN
    BY <1>i, <1>1 DEF TypeOK
  <1>5. Barriers'
    <2>1. \A u \in Threads \ {t} : threads'[u] = threads[u]
      BY <1>i, <1>1 DEF TypeOK
    <2>2. threads'[t] = Quiet
      BY <1>i, <1>1 DEF TypeOK
    <2>3. threads[t].ok => closing /\ accepted <= confirmed
      BY <1>i, <1>1 DEF Barriers
    <2>4. drained' => closing' /\ accepted' <= confirmed' /\ worker' \in {"none", "stopped"}
      BY <1>i, <1>1, <1>2, <2>3 DEF Barriers
    <2> QED
      BY <1>i, <1>1, <1>2, <2>1, <2>2, <2>4 DEF Barriers, Quiet
  <1> QED
    BY <1>i, <1>1, <1>3, <1>4, <1>5, RestStep DEF TypeOK

\* The inductive invariant holds in every behaviour.
THEOREM ExporterInvariant == Spec => []IInv
  <1>1. Init => IInv
    BY InitIInv
  <1>2. IInv /\ [Next]_vars => IInv'
    <2> SUFFICES ASSUME IInv, [Next]_vars PROVE IInv'
      OBVIOUS
    <2>1. CASE \E size \in EventSizes : submit(size)
      BY <2>1, SubmitStep
    <2>2. CASE \E size \in EventSizes \cup {MaxBytes + 1} : submit_refused(size)
      BY <2>2, RefuseStep
    <2>3. CASE Worker
      BY <2>3, TakeStep, EmitStep, SettleStep, StopStep DEF Worker
    <2>4. ASSUME NEW t \in Threads, close(t) \/ flush(t) PROVE IInv'
      BY <2>4, EnterStep
    <2>5. ASSUME NEW t \in Threads, flush_return(t) PROVE IInv'
      <3>1. TypeOK
        BY DEF IInv
      <3>2. Numbers /\ threads[t].target \in 0..MaxEvents
        BY <3>1, TypesAreNumbers DEF TypeOK, Thread
      <3>3. acknowledged + failed >= threads[t].target
        BY <2>5 DEF flush_return
      <3>4. failed = 0 => threads[t].target <= acknowledged
        BY <3>2, <3>3 DEF Numbers
      <3> QED
        BY <2>5, <3>4, LeaveStep DEF flush_return
    <2>6. ASSUME NEW t \in Threads, flush_timeout(t) PROVE IInv'
      BY <2>6, LeaveStep DEF flush_timeout
    <2>7. ASSUME NEW t \in Threads, join(t) PROVE IInv'
      BY <2>7, JoinStep
    <2>8. CASE UNCHANGED vars
      <3>1. UNCHANGED rest /\ UNCHANGED <<closing, force_target, confirmed, drained, threads>>
        BY <2>8 DEF vars, rest, counts
      <3>2. accepted' = accepted /\ acknowledged' = acknowledged /\ worker' = worker
        BY <3>1 DEF rest, counts
      <3>3. TypeOK /\ Barriers
        BY DEF IInv
      <3>4. Barriers'
        BY <3>1, <3>2, <3>3 DEF Barriers
      <3> QED
        BY <3>1, <3>3, <3>4, RestStep DEF TypeOK
    <2> QED
      BY <2>1, <2>2, <2>3, <2>4, <2>5, <2>6, <2>7, <2>8 DEF Next
  <1> QED
    BY <1>1, <1>2, PTL DEF Spec

\* Every event is accounted for exactly once, and the queue keeps its limit.
THEOREM AccountingHolds == Spec => [](Conservation /\ PendingIsBounded)
  <1>1. IInv => Conservation /\ PendingIsBounded
    BY DEF IInv
  <1> QED
    BY <1>1, ExporterInvariant, PTL

\* Every set of natural numbers that is not empty has a least element.
LEMMA LeastElement ==
  ASSUME NEW T \in SUBSET Nat, T # {}
  PROVE  \E x \in T : \A y \in T : ~(y < x)
  <1> DEFINE R == OpToRel(<, Nat)
  <1>1. IsWellFoundedOn(R, Nat)
    BY NatLessThanWellFounded
  <1>2. \E x \in T : \A y \in T : ~(<<y, x>> \in R)
    <2> HIDE DEF R
    <2> QED
      BY <1>1, WFMin
  <1>3. \A x, y \in T : y < x => <<y, x>> \in R
    BY DEF OpToRel
  <1> QED
    BY <1>2, <1>3

\* The running totals of the sizes of a sequence of events.
Totals(f, q) ==
  /\ f \in [0..Len(q) -> Nat]
  /\ f[0] = 0
  /\ \A k \in 1..Len(q) : f[k] = f[k - 1] + q[k].size

LEMMA EventSizesAreNumbers ==
  ASSUME NEW q \in Seq(Event)
  PROVE  /\ Len(q) \in Nat
         /\ \A k \in 1..Len(q) : q[k].size \in Nat
  <1>1. \A e \in Event : e.size \in Nat
    <2>1. \A e \in Event : e.size \in EventSizes
      BY DEF Event
    <2>2. \A x \in EventSizes : x \in Nat
      BY LimitsAssumption
    <2> QED
      BY <2>1, <2>2
  <1>2. Len(q) \in Nat /\ \A k \in 1..Len(q) : q[k] \in Event
    OBVIOUS
  <1> QED
    BY <1>1, <1>2

\* They exist: a shortest prefix without them would follow one that has them.
LEMMA TotalsExist ==
  ASSUME NEW q \in Seq(Event)
  PROVE  \E f : Totals(f, q)
  <1> DEFINE Prefix(f, n) == /\ f \in [0..n -> Nat] /\ f[0] = 0
                             /\ \A k \in 1..n : f[k] = f[k - 1] + q[k].size
             T == {n \in 0..Len(q) : ~\E f : Prefix(f, n)}
  <1>1. Len(q) \in Nat /\ \A k \in 1..Len(q) : q[k].size \in Nat
    BY EventSizesAreNumbers
  <1>2. ASSUME T # {} PROVE FALSE
    <2>1. PICK n \in T : \A m \in T : ~(m < n)
      <3>1. T \in SUBSET Nat
        BY <1>1
      <3> HIDE DEF T
      <3> QED
        BY <1>2, <3>1, LeastElement
    <2>2. n \in 0..Len(q) /\ n \in Nat
      BY <1>1, <2>1
    <2>3. n # 0
      <3> DEFINE z == [k \in 0..0 |-> 0]
      <3>1. Prefix(z, 0)
        OBVIOUS
      <3>2. ~\E f : Prefix(f, n)
        BY <2>1
      <3> HIDE DEF Prefix, z
      <3> QED
        BY <3>1, <3>2
    <2>4. n - 1 \in 0..Len(q) /\ n - 1 \notin T
      <3>1. n - 1 \in 0..Len(q) /\ n - 1 < n
        BY <1>1, <2>2, <2>3
      <3> HIDE DEF T
      <3> QED
        BY <2>1, <3>1
    <2>5. PICK f : Prefix(f, n - 1)
      BY <2>4
    <2> DEFINE g == [k \in 0..n |-> IF k = n THEN f[n - 1] + q[n].size ELSE f[k]]
    <2>6. g \in [0..n -> Nat]
      BY <1>1, <2>2, <2>3, <2>5
    <2>7. g[0] = 0
      BY <2>2, <2>3, <2>5
    <2>8. ASSUME NEW k \in 1..n PROVE g[k] = g[k - 1] + q[k].size
      <3>1. CASE k = n
        BY <2>2, <2>3, <3>1
      <3>2. CASE k # n
        BY <2>2, <2>3, <2>5, <3>2
      <3> QED
        BY <3>1, <3>2
    <2>9. Prefix(g, n)
      BY <2>6, <2>7, <2>8
    <2> QED
      BY <2>1, <2>9
  <1>3. Len(q) \in 0..Len(q)
    BY <1>1
  <1>4. \E f : Prefix(f, Len(q))
    BY <1>2, <1>3
  <1> QED
    BY <1>4 DEF Totals

\* A function that satisfies the recursion agrees with the totals.
LEMMA TotalsAreUnique ==
  ASSUME NEW q \in Seq(Event), NEW f, Totals(f, q), NEW g,
         g[0] = 0, \A k \in 1..Len(q) : g[k] = g[k - 1] + q[k].size
  PROVE  \A k \in 0..Len(q) : g[k] = f[k]
  <1> DEFINE T == {k \in 0..Len(q) : g[k] # f[k]}
  <1>1. Len(q) \in Nat
    BY EventSizesAreNumbers
  <1>2. ASSUME T # {} PROVE FALSE
    <2>1. PICK n \in T : \A m \in T : ~(m < n)
      <3>1. T \in SUBSET Nat
        BY <1>1
      <3> HIDE DEF T
      <3> QED
        BY <1>2, <3>1, LeastElement
    <2>2. n # 0 /\ n \in 1..Len(q)
      BY <1>1, <2>1 DEF Totals
    <2>3. n - 1 \in 0..Len(q) /\ n - 1 < n
      BY <1>1, <2>2
    <2>4. g[n - 1] = f[n - 1]
      BY <2>1, <2>3
    <2> QED
      BY <2>1, <2>2, <2>4 DEF Totals
  <1> QED
    BY <1>2

\* Bytes is the last of the totals.
LEMMA BytesIsTheTotal ==
  ASSUME NEW q \in Seq(Event), NEW f, Totals(f, q)
  PROVE  Bytes(q) = f[Len(q)] /\ Bytes(q) \in Nat
  <1> DEFINE Rec(h) == h = [k \in 0..Len(q) |-> IF k = 0 THEN 0 ELSE h[k - 1] + q[k].size]
             total == CHOOSE h : Rec(h)
  <1>1. Len(q) \in Nat
    BY EventSizesAreNumbers
  <1>2. Rec(f)
    BY <1>1 DEF Totals
  <1>3. Rec(total)
    BY <1>2
  <1>4. Bytes(q) = total[Len(q)]
    BY DEF Bytes
  <1> HIDE DEF total
  <1>5. total[0] = 0 /\ \A k \in 1..Len(q) : total[k] = total[k - 1] + q[k].size
    BY <1>1, <1>3
  <1>6. total[Len(q)] = f[Len(q)]
    BY <1>1, <1>5, TotalsAreUnique
  <1> QED
    BY <1>1, <1>4, <1>6 DEF Totals

LEMMA BytesOfNone == Bytes(<<>>) = 0
  <1> DEFINE z == [k \in 0..0 |-> 0]
             q == <<>>
  <1>1. q \in Seq(Event) /\ Len(q) = 0
    OBVIOUS
  <1>2. Totals(z, q)
    BY <1>1 DEF Totals
  <1>3. z[0] = 0
    OBVIOUS
  <1> HIDE DEF z, q
  <1>4. Bytes(q) = 0
    BY <1>1, <1>2, <1>3, BytesIsTheTotal
  <1> QED
    BY <1>4 DEF q

LEMMA BytesOfAppend ==
  ASSUME NEW q \in Seq(Event), NEW e \in Event
  PROVE  /\ Bytes(q) \in Nat /\ e.size \in Nat
         /\ Bytes(Append(q, e)) = Bytes(q) + e.size
  <1> DEFINE n == Len(q)
             r == Append(q, e)
  <1>1. /\ n \in Nat /\ r \in Seq(Event) /\ Len(r) = n + 1 /\ r[n + 1] = e
        /\ \A k \in 1..n : r[k] = q[k]
    OBVIOUS
  <1>2. \A k \in 1..(n + 1) : r[k].size \in Nat
    BY <1>1, EventSizesAreNumbers
  <1>3. PICK f : Totals(f, q)
    BY TotalsExist
  <1>4. f \in [0..n -> Nat] /\ f[0] = 0 /\ \A k \in 1..n : f[k] = f[k - 1] + q[k].size
    BY <1>3 DEF Totals
  <1> HIDE DEF n, r
  <1>5. n + 1 \in 1..(n + 1) /\ e.size \in Nat
    <2>1. n + 1 \in 1..(n + 1)
      BY <1>1
    <2> QED
      BY <1>1, <1>2, <2>1
  <1> DEFINE g == [k \in 0..(n + 1) |-> IF k = n + 1 THEN f[n] + e.size ELSE f[k]]
  <1>6. g \in [0..(n + 1) -> Nat] /\ g[0] = 0 /\ g[n + 1] = f[n] + e.size
    BY <1>1, <1>4, <1>5
  <1>7. ASSUME NEW k \in 1..(n + 1) PROVE g[k] = g[k - 1] + r[k].size
    <2>1. CASE k = n + 1
      <3>1. g[k - 1] = f[n]
        BY <1>1, <2>1
      <3> QED
        BY <1>1, <1>6, <2>1, <3>1
    <2>2. CASE k # n + 1
      <3>1. k \in 1..n
        BY <1>1, <2>2
      <3>2. g[k] = f[k] /\ g[k - 1] = f[k - 1]
        BY <1>1, <3>1
      <3> QED
        BY <1>1, <1>4, <3>1, <3>2
    <2> QED
      BY <2>1, <2>2
  <1> HIDE DEF g
  <1>8. Totals(g, r)
    BY <1>1, <1>6, <1>7 DEF Totals
  <1>9. Bytes(r) = f[n] + e.size
    BY <1>1, <1>6, <1>8, BytesIsTheTotal
  <1>10. Bytes(q) = f[n] /\ Bytes(q) \in Nat
    BY <1>3, BytesIsTheTotal DEF n
  <1> QED
    BY <1>5, <1>9, <1>10 DEF r

\* A batch and what stays in the queue weigh what the queue weighed.
LEMMA BytesOfParts ==
  ASSUME NEW q \in Seq(Event), NEW k \in 1..Len(q)
  PROVE  /\ Bytes(q) \in Nat
         /\ Bytes(q) = Bytes(SubSeq(q, k + 1, Len(q))) + Bytes(SubSeq(q, 1, k))
  <1> DEFINE n == Len(q)
             a == SubSeq(q, 1, k)
             b == SubSeq(q, k + 1, n)
  <1>1. n \in Nat /\ k \in Nat /\ 1 <= k /\ k <= n /\ n - k \in Nat
    OBVIOUS
  <1>2. a \in Seq(Event) /\ Len(a) = k /\ \A i \in 1..k : a[i] = q[i]
    BY <1>1
  <1>3. b \in Seq(Event) /\ Len(b) = n - k /\ \A i \in 1..(n - k) : b[i] = q[k + i]
    <2>1. CASE k = n
      BY <1>1, <2>1
    <2>2. CASE k < n
      BY <1>1, <2>2
    <2> QED
      BY <1>1, <2>1, <2>2
  <1>4. PICK f : Totals(f, a)
    BY <1>2, TotalsExist
  <1>5. PICK g : Totals(g, b)
    BY <1>3, TotalsExist
  <1>6. f \in [0..k -> Nat] /\ f[0] = 0 /\ \A i \in 1..k : f[i] = f[i - 1] + q[i].size
    BY <1>2, <1>4 DEF Totals
  <1>7. g \in [0..(n - k) -> Nat] /\ g[0] = 0
        /\ \A i \in 1..(n - k) : g[i] = g[i - 1] + q[k + i].size
    BY <1>3, <1>5 DEF Totals
  <1>8. \A i \in 1..n : q[i].size \in Nat
    BY EventSizesAreNumbers
  <1>9. Bytes(a) = f[k] /\ Bytes(b) = g[n - k]
    BY <1>2, <1>3, <1>4, <1>5, BytesIsTheTotal
  <1> HIDE DEF n, a, b
  <1> DEFINE h == [i \in 0..n |-> IF i <= k THEN f[i] ELSE f[k] + g[i - k]]
  <1>10. h \in [0..n -> Nat] /\ h[0] = 0
    <2>1. ASSUME NEW i \in 0..n PROVE h[i] \in Nat
      <3>1. CASE i <= k
        <4>1. i \in 0..k /\ h[i] = f[i]
          BY <1>1, <3>1
        <4> QED
          BY <1>6, <4>1
      <3>2. CASE ~(i <= k)
        <4>1. i - k \in 0..(n - k) /\ k \in 0..k
          BY <1>1, <3>2
        <4> QED
          BY <1>6, <1>7, <3>2, <4>1
      <3> QED
        BY <3>1, <3>2
    <2>2. h[0] = f[0]
      BY <1>1
    <2>3. h = [i \in 0..n |-> h[i]]
      OBVIOUS
    <2> HIDE DEF h
    <2>4. h \in [0..n -> Nat]
      BY <2>1, <2>3
    <2> QED
      BY <1>6, <2>2, <2>4
  <1>11. h[n] = f[k] + g[n - k]
    <2>1. CASE n = k
      BY <1>1, <1>6, <1>7, <2>1
    <2>2. CASE n # k
      BY <1>1, <2>2
    <2> QED
      BY <2>1, <2>2
  <1>12. ASSUME NEW i \in 1..n PROVE h[i] = h[i - 1] + q[i].size
    <2>1. CASE i <= k
      <3>1. h[i] = f[i] /\ h[i - 1] = f[i - 1] /\ i \in 1..k
        BY <1>1, <2>1
      <3> QED
        BY <1>6, <3>1
    <2>2. CASE ~(i <= k)
      <3>1. i - k \in 1..(n - k) /\ k + (i - k) = i /\ i - 1 - k = (i - k) - 1
        BY <1>1, <2>2
      <3>2. h[i] = f[k] + g[i - k]
        BY <1>1, <2>2
      <3>3. h[i - 1] = f[k] + g[(i - k) - 1]
        <4>1. CASE i = k + 1
          BY <1>1, <1>6, <1>7, <4>1
        <4>2. CASE i # k + 1
          BY <1>1, <2>2, <3>1, <4>2
        <4> QED
          BY <4>1, <4>2
      <3>4. g[i - k] = g[(i - k) - 1] + q[i].size
        BY <1>7, <3>1
      <3>5. f[k] \in Nat /\ g[(i - k) - 1] \in Nat /\ q[i].size \in Nat
        <4>1. (i - k) - 1 \in 0..(n - k) /\ k \in 0..k
          BY <1>1, <3>1
        <4> QED
          BY <1>6, <1>7, <1>8, <4>1
      <3> QED
        BY <3>2, <3>3, <3>4, <3>5
    <2> QED
      BY <2>1, <2>2
  <1> HIDE DEF h
  <1>13. Totals(h, q)
    BY <1>10, <1>12 DEF Totals, n
  <1>14. Bytes(q) = h[n] /\ Bytes(q) \in Nat
    BY <1>13, BytesIsTheTotal DEF n
  <1>15. f[k] \in Nat /\ g[n - k] \in Nat
    <2>1. k \in 0..k /\ n - k \in 0..(n - k)
      BY <1>1
    <2> QED
      BY <1>6, <1>7, <2>1
  <1> QED
    BY <1>9, <1>11, <1>14, <1>15 DEF n, a, b

\* Every step keeps the count of bytes true and within its limit.
LEMMA BytesStep ==
  ASSUME IInv, QueueIsBounded, PendingIsBounded', [Next]_vars
  PROVE  QueueIsBounded'
  <1>0. /\ queue \in Seq(Event) /\ batch \in Seq(Event) /\ MaxBytes \in Nat
        /\ accepted \in 0..MaxEvents /\ attempted \in 0..MaxEvents
        /\ MaxEvents \in Nat
    BY LimitsAssumption DEF IInv, TypeOK
  <1>1. pending_bytes = Bytes(queue) + Bytes(batch) /\ pending_bytes <= MaxBytes
    BY DEF QueueIsBounded
  <1>2. Bytes(queue) \in Nat /\ Bytes(batch) \in Nat
    BY <1>0, TotalsExist, BytesIsTheTotal
  <1>3. CASE UNCHANGED <<queue, batch, pending_bytes>>
    BY <1>1, <1>3 DEF QueueIsBounded
  <1>4. ASSUME NEW size \in EventSizes, submit(size) PROVE QueueIsBounded'
    <2> DEFINE e == [n |-> accepted + 1, size |-> size]
    <2>1. /\ queue' = Append(queue, e) /\ batch' = batch /\ attempted < MaxEvents
          /\ pending_bytes' = pending_bytes + size /\ ~(pending_bytes + size > MaxBytes)
      BY <1>4 DEF submit, Full
    <2>2. accepted <= attempted
      BY DEF IInv, InOrder
    <2>3. accepted + 1 \in 1..MaxEvents
      BY <1>0, <2>1, <2>2
    <2>4. e \in Event /\ e.size = size
      BY <2>3 DEF Event
    <2> HIDE DEF e
    <2>5. size \in Nat /\ Bytes(queue') = Bytes(queue) + size
      BY <1>0, <2>1, <2>4, BytesOfAppend
    <2> QED
      BY <1>0, <1>1, <1>2, <2>1, <2>5 DEF QueueIsBounded
  <1>5. CASE take_batch
    <2>1. PICK k \in 1..Len(queue) : /\ batch' = SubSeq(queue, 1, k)
                                    /\ queue' = SubSeq(queue, k + 1, Len(queue))
      BY <1>5 DEF take_batch
    <2>2. pending_bytes' = pending_bytes /\ worker = "idle"
      BY <1>5 DEF take_batch
    <2>3. batch = <<>>
      BY <2>2 DEF IInv, Stored
    <2>4. Bytes(batch) = 0
      BY <2>3, BytesOfNone
    <2>5. Bytes(queue) = Bytes(queue') + Bytes(batch')
      BY <1>0, <2>1, BytesOfParts
    <2> QED
      BY <1>1, <1>2, <2>2, <2>4, <2>5 DEF QueueIsBounded
  <1>6. CASE settle
    <2>1. CASE answer
      <3>1. batch' = <<>> /\ queue' = queue /\ pending_bytes' = pending_bytes - Bytes(batch)
        BY <1>6, <2>1 DEF settle
      <3>2. Bytes(batch') = 0
        BY <3>1, BytesOfNone
      <3> QED
        BY <1>0, <1>1, <1>2, <3>1, <3>2 DEF QueueIsBounded
    <2>2. CASE ~answer
      <3>1. batch' = <<>> /\ queue' = <<>> /\ pending_bytes' = 0
        BY <1>6, <2>2 DEF settle
      <3>2. Bytes(batch') = 0 /\ Bytes(queue') = 0
        BY <3>1, BytesOfNone
      <3> QED
        BY <1>0, <3>1, <3>2 DEF QueueIsBounded
    <2> QED
      BY <2>1, <2>2
  <1>7. CASE \/ \E size \in EventSizes \cup {MaxBytes + 1} : submit_refused(size)
             \/ emit \/ stop
             \/ \E t \in Threads :
                  close(t) \/ flush(t) \/ flush_return(t) \/ flush_timeout(t) \/ join(t)
             \/ UNCHANGED vars
    <2>1. UNCHANGED <<queue, batch, pending_bytes>>
      BY <1>7 DEF submit_refused, emit, stop, close, flush, flush_return, flush_timeout, join,
                  Leave, rest, vars
    <2> QED
      BY <1>3, <2>1
  <1> QED
    BY <1>4, <1>5, <1>6, <1>7 DEF Next, Worker

\* submit() and _run(): pending_bytes is at all times the size of what is
\* queued and in flight, within queue_bytes, and the number of pending
\* events within queue_capacity.
THEOREM QueueStaysBounded == Spec => []QueueIsBounded
  <1>1. Init => QueueIsBounded
    <2> SUFFICES ASSUME Init PROVE QueueIsBounded
      OBVIOUS
    <2>1. PendingIsBounded
      BY InitIInv DEF IInv
    <2>2. pending_bytes = 0 /\ Bytes(queue) = 0 /\ Bytes(batch) = 0
      BY BytesOfNone DEF Init
    <2> QED
      BY <2>1, <2>2, LimitsAssumption DEF QueueIsBounded
  <1>2. IInv' => PendingIsBounded'
    BY DEF IInv
  <1>3. IInv /\ PendingIsBounded' /\ QueueIsBounded /\ [Next]_vars => QueueIsBounded'
    BY BytesStep
  <1> QED
    BY <1>1, <1>2, <1>3, ExporterInvariant, PTL DEF Spec

\* The collector's copy has no gap, whatever fails and whenever.
THEOREM StreamHasNoGap == Spec => []NoGapInStream
  <1>1. IInv => NoGapInStream
    <2> SUFFICES ASSUME IInv PROVE NoGapInStream
      OBVIOUS
    <2>1. TypeOK /\ Stored
      BY DEF IInv
    <2>2. Numbers
      BY <2>1, TypesAreNumbers
    <2>3. PICK m \in acknowledged..accepted : stored = 1..m
      BY <2>1 DEF Stored
    <2>4. m \in Nat
      BY <2>2 DEF Numbers
    <2> QED
      BY <2>3, <2>4 DEF NoGapInStream
  <1> QED
    BY <1>1, ExporterInvariant, PTL

\* A normal return of flush() or close() is a durable confirmation.
THEOREM BarrierIsDurable == Spec => [](FlushIsABarrier /\ CloseDrains)
  <1>1. IInv => FlushIsABarrier /\ CloseDrains
    <2> SUFFICES ASSUME IInv PROVE FlushIsABarrier /\ CloseDrains
      OBVIOUS
    <2>1. TypeOK /\ Stored /\ Barriers
      BY DEF IInv
    <2>2. Numbers
      BY <2>1, TypesAreNumbers
    <2>3. PICK m \in acknowledged..accepted : stored = 1..m
      BY <2>1 DEF Stored
    <2>4. confirmed <= acknowledged
      BY <2>1 DEF Barriers
    <2>5. FlushIsABarrier
      BY <2>2, <2>3, <2>4 DEF FlushIsABarrier, Numbers
    <2>6. ASSUME drained PROVE 1..accepted \subseteq stored /\ worker \in {"none", "stopped"}
      <3>1. accepted <= confirmed /\ worker \in {"none", "stopped"}
        BY <2>1, <2>6 DEF Barriers
      <3>2. 1..accepted \subseteq 1..m
        BY <2>2, <2>3, <2>4, <3>1 DEF Numbers
      <3> QED
        BY <2>3, <3>1, <3>2
    <2> QED
      BY <2>5, <2>6 DEF CloseDrains
  <1> QED
    BY <1>1, ExporterInvariant, PTL

\* The collector's copy and the confirmed prefix, as the abstract stream
\* speaks of them.
LEMMA StreamFacts ==
  ASSUME IInv
  PROVE  /\ Numbers /\ confirmed <= acknowledged
         /\ \E m \in acknowledged..accepted : stored = 1..m
         /\ drained => closing /\ accepted <= confirmed
         /\ drained \in BOOLEAN /\ closing \in BOOLEAN
  BY TypesAreNumbers DEF IInv, TypeOK, Stored, Barriers

\* A thread that leaves the barrier, or has joined the worker, takes a
\* Barrier step or none.
LEMMA BarrierMaps ==
  ASSUME IInv, IInv', UNCHANGED <<accepted, stored, closing, error>>,
         confirmed' = confirmed \/ confirmed' > confirmed,
         drained' = drained \/ drained'
  PROVE  Stream!Barrier
  <1>1. Numbers /\ drained \in BOOLEAN
    BY StreamFacts
  <1>2. TypeOK'
    BY DEF IInv
  <1>3. /\ acknowledged' \in Nat /\ confirmed' \in Nat /\ accepted' \in Nat
        /\ drained' \in BOOLEAN
    BY <1>2, LimitsAssumption DEF TypeOK
  <1>4. PICK k \in acknowledged'..accepted' : stored' = 1..k
    BY DEF IInv, Stored
  <1>5. confirmed' <= acknowledged' /\ (drained' => closing' /\ accepted' <= confirmed')
    BY DEF IInv, Barriers
  <1>6. confirmed' \in confirmed..accepted /\ 1..confirmed' \subseteq stored
    BY <1>1, <1>3, <1>4, <1>5 DEF Numbers
  <1>7. drained' => closing /\ 1..accepted \subseteq stored
    BY <1>1, <1>3, <1>5, <1>6 DEF Numbers
  <1>8. drained' = drained \/ (drained' = TRUE /\ closing /\ 1..accepted \subseteq stored)
    BY <1>1, <1>3, <1>7
  <1> QED
    BY <1>6, <1>8 DEF Stream!Barrier

\* Every step of the exporter is a step of the abstract stream or none.
LEMMA StepMaps ==
  ASSUME IInv, IInv', [Next]_vars
  PROVE  [Stream!Next]_(Stream!vars)
  <1> USE DEF Stream!vars
  <1>n. Numbers
    BY StreamFacts
  <1>1. ASSUME NEW size \in EventSizes, submit(size) PROVE Stream!Accept
    BY <1>1 DEF submit, Stream!Accept
  <1>2. ASSUME NEW size, submit_refused(size) PROVE UNCHANGED Stream!vars
    BY <1>2 DEF submit_refused, history
  <1>3. ASSUME take_batch \/ stop PROVE UNCHANGED Stream!vars
    BY <1>3 DEF take_batch, stop, history
  <1>4. ASSUME emit PROVE Stream!Persist \/ UNCHANGED Stream!vars
    <2>1. /\ worker = "sending" /\ acknowledged' = acknowledged
          /\ UNCHANGED <<accepted, confirmed, closing, error, drained>>
      BY <1>4 DEF emit, counts
    <2>2. ~error /\ stored = 1..acknowledged
      BY <2>1 DEF IInv, InOrder, Stored
    <2>3. PICK m \in acknowledged..accepted : stored' = 1..m
      BY <2>1 DEF IInv, Stored
    <2>4. CASE m = 0
      BY <1>n, <2>1, <2>2, <2>3, <2>4 DEF Numbers
    <2>5. CASE m # 0
      <3>1. m \in 1..accepted /\ stored \subseteq 1..m
        BY <1>n, <2>2, <2>3, <2>5 DEF Numbers
      <3> QED
        BY <2>1, <2>2, <2>3, <3>1 DEF Stream!Persist
    <2> QED
      BY <2>4, <2>5
  <1>5. ASSUME settle PROVE Stream!Break \/ UNCHANGED Stream!vars
    BY <1>5 DEF settle, history, Stream!Break
  <1>6. ASSUME NEW t \in Threads, close(t) PROVE Stream!Seal
    BY <1>6 DEF close, rest, Stream!Seal
  <1>7. ASSUME NEW t \in Threads, flush(t) PROVE UNCHANGED Stream!vars
    BY <1>7 DEF flush, rest
  <1>8. ASSUME NEW t \in Threads, NEW good \in BOOLEAN, Leave(t, good) PROVE Stream!Barrier
    <2>1. /\ UNCHANGED <<accepted, stored, closing, error>>
          /\ confirmed' = confirmed \/ confirmed' > confirmed
      BY <1>8 DEF Leave, rest
    <2>2. drained' = drained \/ drained'
      BY <1>8, Zenon DEF Leave, IInv, TypeOK
    <2> QED
      BY <2>1, <2>2, BarrierMaps
  <1>9. ASSUME NEW t \in Threads, join(t) PROVE Stream!Barrier
    <2>1. UNCHANGED <<accepted, stored, closing, error, confirmed>>
      BY <1>9 DEF join, rest
    <2>2. drained' = drained \/ drained'
      BY <1>9 DEF join, IInv, TypeOK
    <2> QED
      BY <2>1, <2>2, BarrierMaps
  <1>10. CASE UNCHANGED vars
    BY <1>10 DEF vars
  <1>11. CASE \E t \in Threads : flush_return(t) \/ flush_timeout(t)
    BY <1>8, <1>11 DEF flush_return, flush_timeout, Stream!Next
  <1> QED
    BY <1>1, <1>2, <1>3, <1>4, <1>5, <1>6, <1>7, <1>9, <1>10, <1>11
       DEF Next, Worker, Stream!Next

\* The exporter implements the abstract stream, for any number of threads and
\* events and any limits.
THEOREM ExporterIsAStream == Spec => ImplementsStream
  <1>1. Init => Stream!Init
    BY DEF Init, Stream!Init
  <1>2. IInv /\ IInv' /\ [Next]_vars => [Stream!Next]_(Stream!vars)
    BY StepMaps
  <1> QED
    BY <1>1, <1>2, ExporterInvariant, PTL DEF Spec, ImplementsStream, Stream!Spec

=============================================================================
