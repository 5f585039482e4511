-------------------------- MODULE ObserverRunProofs --------------------------
(***************************************************************************)
(* One Observer handle beside the shutdown of the daemon and the other     *)
(* executions of the host, for either protocol, any bound of the queues    *)
(* and any number of faults.                                               *)
(***************************************************************************)
EXTENDS ObserverRun, TLAPS

\* The dialogue of either protocol, answer by answer.
LEMMA ScriptOfKind ==
  ASSUME kind \in {"v2", "v3"}
  PROVE  /\ Len(Script) = IF kind = "v2" THEN 2 ELSE 6
         /\ \A i \in 1..Len(Script) : Script[i] \in Items
         /\ kind = "v2" => Awaits[1] = 0 /\ Awaits[2] = 1
         /\ kind = "v3" => /\ Awaits[1] = 0 /\ Awaits[2] = 1 /\ Awaits[3] = 2
                           /\ Awaits[4] = 2 /\ Awaits[5] = 2 /\ Awaits[6] = 3
  BY DEF Script, Awaits, Items

\* The protocol of a handle never changes, and so its script.
LEMMA SameKind ==
  ASSUME kind' = kind
  PROVE  Script' = Script /\ Awaits' = Awaits /\ QueueMax' = QueueMax
  BY DEF Script, Awaits, QueueMax

LEMMA QueueBound ==
  ASSUME kind \in {"v2", "v3"}
  PROVE  QueueMax \in Nat /\ QueueMax >= 3
  BY QueueHoldsABurst DEF QueueMax

\* A thread moves and the other one stays.
LEMMA ThreadMoves ==
  ASSUME pc \in [Threads -> PCs], NEW t \in Threads, NEW l \in PCs, Goto(t, l)
  PROVE  /\ pc' \in [Threads -> PCs] /\ pc'[t] = l
         /\ \A u \in Threads \ {t} : pc'[u] = pc[u]
  BY DEF Goto

LEMMA RunMoves ==
  ASSUME pc \in [Threads -> PCs], NEW from, NEW to \in PCs, Run(from, to)
  PROVE  /\ pc["run"] = from /\ pc'["run"] = to /\ pc'["shutdown"] = pc["shutdown"]
         /\ pc' \in [Threads -> PCs]
  BY ThreadMoves DEF Run, At, Threads

\* What is put into the queue keeps its type and its bound.
LEMMA PutKeeps ==
  ASSUME TypeOK, NEW x \in Items, Put(x)
  PROVE  queue' \in Seq(Items) /\ Len(queue') <= QueueMax
  <1>1. QueueMax \in Nat /\ queue \in Seq(Items) /\ Len(queue) <= QueueMax
    BY QueueBound DEF TypeOK
  <1>2. CASE Len(queue) < QueueMax
    BY <1>1, <1>2 DEF Put
  <1>3. CASE ~(Len(queue) < QueueMax)
    BY <1>1, <1>3 DEF Put
  <1> QED
    BY <1>2, <1>3

\* Nothing is held, sent or proven before the execution starts.
LEMMA InitIInv == Init => IInv
  <1> SUFFICES ASSUME Init PROVE IInv
    OBVIOUS
  <1>1. pc["run"] = "idle" /\ pc["shutdown"] = "idle" /\ pc \in [Threads -> PCs]
    BY DEF Init, Threads, PCs
  <1>2. Len(Script) = IF kind = "v2" THEN 2 ELSE 6
    BY ScriptOfKind DEF Init
  <1>3. TypeOK
    <2>1. queue \in Seq(Items) /\ Len(queue) <= QueueMax
      BY QueueBound DEF Init
    <2>2. /\ got \in 0..Len(Script) /\ pos \in 0..Len(Script) /\ cmds \in 0..3
          /\ notified \in 0..1 /\ faults \in 0..MaxFaults
      BY <1>2, FaultsAssumption DEF Init
    <2> QED
      BY <1>1, <2>1, <2>2 DEF Init, TypeOK, Phases
  <1> QED
    BY <1>1, <1>3 DEF Init, IInv, HandleHoldsItsLocks, ChildrenAreGone, DialogueInStep, At,
        ReaderNotifiesOnce, StepsOfFinish, EvidenceIsComplete, Before, Ending, Proved

\* The numbers of the dialogue that a step needs.
LEMMA ScriptNumbers ==
  ASSUME TypeOK
  PROVE  /\ Len(Script) = IF kind = "v2" THEN 2 ELSE 6
         /\ 0 < Len(Script) /\ 1 < Len(Script) /\ (kind = "v3" => 2 < Len(Script))
         /\ got \in Nat /\ cmds \in Nat /\ pos \in Nat
         /\ Awaits[1] = 0 /\ Awaits[2] = 1
         /\ kind = "v3" => Awaits[3] = 2 /\ Awaits[4] = 2 /\ Awaits[5] = 2 /\ Awaits[6] = 3
  <1>1. kind \in {"v2", "v3"} /\ got \in 0..Len(Script) /\ pos \in 0..Len(Script) /\ cmds \in 0..3
    BY DEF TypeOK
  <1>2. Len(Script) = IF kind = "v2" THEN 2 ELSE 6
    BY <1>1, ScriptOfKind
  <1>3. 0 < Len(Script) /\ 1 < Len(Script) /\ (kind = "v3" => 2 < Len(Script))
    BY <1>2
  <1> QED
    BY <1>1, <1>2, <1>3, ScriptOfKind

\* The constructor has its Observer.
LEMMA SpawnStep == ASSUME IInv, spawn_observer PROVE IInv'
  <1>1. /\ pc["run"] = "ctor" /\ pc'["run"] = "await"
        /\ pc'["shutdown"] = pc["shutdown"] /\ pc' \in [Threads -> PCs]
    BY RunMoves DEF IInv, TypeOK, spawn_observer, PCs
  <1>2. Script' = Script /\ Awaits' = Awaits /\ QueueMax' = QueueMax
    BY SameKind DEF spawn_observer, plugin
  <1>3. got' = 0 /\ cmds' = 0 /\ 0 < Len(Script) /\ Awaits[1] = 0
    BY <1>1, ScriptNumbers DEF spawn_observer, dialogue, IInv, DialogueInStep, Before
  <1>4. got' < Len(Script') /\ cmds' = Awaits'[got' + 1]
    BY <1>2, <1>3
  <1>5. DialogueInStep'
    BY <1>1, <1>4 DEF DialogueInStep, At, Before
  <1> USE DEF spawn_observer, state, dialogue, reading, evidence, plugin, observer, IInv
  <1>6. TypeOK'
    BY <1>1, <1>2 DEF TypeOK
  <1>7. HandleHoldsItsLocks' /\ ChildrenAreGone' /\ ReaderNotifiesOnce'
    BY <1>1 DEF TypeOK, HandleHoldsItsLocks, ChildrenAreGone, ReaderNotifiesOnce, Before
  <1>8. StepsOfFinish' /\ EvidenceIsComplete'
    BY <1>1, <1>2 DEF StepsOfFinish, EvidenceIsComplete, Ending, Proved
  <1> QED
    BY <1>5, <1>6, <1>7, <1>8

\* start_execution: slot, host lock and constructor.
LEMMA StartSteps == ASSUME IInv, Start PROVE IInv'
  <1> USE FaultsAssumption DEF IInv, TypeOK, HandleHoldsItsLocks, ChildrenAreGone,
          DialogueInStep, ReaderNotifiesOnce, StepsOfFinish, EvidenceIsComplete, At, Before,
          Ending, Proved, state, dialogue, reading, evidence, plugin, observer
  <1>1. ASSUME take_slot PROVE IInv'
    <2>1. Script' = Script /\ Awaits' = Awaits /\ QueueMax' = QueueMax
      BY <1>1, SameKind DEF take_slot
    <2>2. /\ pc["run"] = "idle" /\ pc'["run"] = "slot"
          /\ pc'["shutdown"] = pc["shutdown"] /\ pc' \in [Threads -> PCs]
      BY <1>1, RunMoves DEF take_slot, PCs
    <2> QED
      BY <1>1, <2>1, <2>2 DEF take_slot
  <1>2. ASSUME refuse_slot PROVE IInv'
    <2>1. Script' = Script /\ Awaits' = Awaits /\ QueueMax' = QueueMax
      BY <1>2, SameKind DEF refuse_slot
    <2>2. /\ pc["run"] = "idle" /\ pc'["run"] = "done"
          /\ pc'["shutdown"] = pc["shutdown"] /\ pc' \in [Threads -> PCs]
      BY <1>2, RunMoves DEF refuse_slot, PCs
    <2> QED
      BY <1>2, <2>1, <2>2 DEF refuse_slot
  <1>3. ASSUME take_host_lock PROVE IInv'
    <2>1. Script' = Script /\ Awaits' = Awaits /\ QueueMax' = QueueMax
      BY <1>3, SameKind DEF take_host_lock
    <2>2. /\ pc["run"] = "slot" /\ pc'["run"] = "ctor"
          /\ pc'["shutdown"] = pc["shutdown"] /\ pc' \in [Threads -> PCs]
      BY <1>3, RunMoves DEF take_host_lock, PCs
    <2> QED
      BY <1>3, <2>1, <2>2 DEF take_host_lock
  <1>4. ASSUME host_lock_times_out PROVE IInv'
    <2>1. Script' = Script /\ Awaits' = Awaits /\ QueueMax' = QueueMax
      BY <1>4, SameKind DEF host_lock_times_out
    <2>2. /\ pc["run"] = "slot" /\ pc'["run"] = "done"
          /\ pc'["shutdown"] = pc["shutdown"] /\ pc' \in [Threads -> PCs]
      BY <1>4, RunMoves DEF host_lock_times_out, PCs
    <2> QED
      BY <1>4, <2>1, <2>2 DEF host_lock_times_out
  <1>5. ASSUME spawn_observer PROVE IInv'
    BY <1>5, SpawnStep
  <1>6. ASSUME spawn_fails PROVE IInv'
    <2>1. Script' = Script /\ Awaits' = Awaits /\ QueueMax' = QueueMax
      BY <1>6, SameKind DEF spawn_fails, Retire
    <2>2. /\ pc["run"] = "ctor" /\ pc'["run"] = "done"
          /\ pc'["shutdown"] = pc["shutdown"] /\ pc' \in [Threads -> PCs]
      BY <1>6, RunMoves DEF spawn_fails, PCs
    <2>3. /\ retired' = TRUE /\ active' = FALSE /\ slot' = "free" /\ flock' = "free"
          /\ kind' = kind /\ closed' = closed
      BY <1>6, <2>2 DEF spawn_fails, Retire
    <2>4. faults' \in 0..MaxFaults /\ phase' \in Phases
      BY <1>6 DEF spawn_fails, Fault, Phases
    <2>5. TypeOK'
      BY <1>6, <2>1, <2>2, <2>3, <2>4 DEF spawn_fails
    <2>6. HandleHoldsItsLocks' /\ ChildrenAreGone' /\ DialogueInStep'
      BY <1>6, <2>1, <2>2, <2>3 DEF spawn_fails
    <2>7. ReaderNotifiesOnce' /\ StepsOfFinish' /\ EvidenceIsComplete'
      BY <1>6, <2>1, <2>2, <2>3 DEF spawn_fails
    <2> QED
      BY <2>5, <2>6, <2>7
  <1> QED
    BY <1>1, <1>2, <1>3, <1>4, <1>5, <1>6 DEF Start

\* A step of the dialogue disturbs only the dialogue: the locks, the children
\* and the evidence are as before.
LEMMA TalkingStep ==
  ASSUME IInv,
         UNCHANGED <<kind, shut, reading, evidence, retired, closed, slot, flock, observer>>,
         pc'["shutdown"] = pc["shutdown"],
         pc["run"] \in {"await", "accept", "started", "running", "send"},
         \/ pc'["run"] \in {"await", "accept", "started", "running", "send", "close", "fail"}
         \/ pc'["run"] = "exit" /\ got' = Len(Script),
         active' = active \/ ~closed
  PROVE  /\ HandleHoldsItsLocks' /\ ChildrenAreGone' /\ ReaderNotifiesOnce'
         /\ StepsOfFinish' /\ EvidenceIsComplete'
  <1>1. Script' = Script
    BY SameKind
  <1>2. HandleHoldsItsLocks' /\ ChildrenAreGone' /\ ReaderNotifiesOnce'
    BY DEF IInv, HandleHoldsItsLocks, ChildrenAreGone, ReaderNotifiesOnce, Before, reading, evidence,
           observer
  <1>3. ~proven /\ ~receipt /\ ~deleted
    BY DEF IInv, StepsOfFinish, EvidenceIsComplete, Proved
  <1>4. StepsOfFinish' /\ EvidenceIsComplete'
    BY <1>1, <1>3 DEF StepsOfFinish, EvidenceIsComplete, Proved, Ending, evidence
  <1> QED
    BY <1>2, <1>4

\* The dialogue on the side of the run's thread.
LEMMA DialogueSteps == ASSUME IInv, Dialogue \/ finish \/ abandon PROVE IInv'
  <1>0. /\ TypeOK /\ pc \in [Threads -> PCs] /\ kind \in {"v2", "v3"}
        /\ Len(Script) = IF kind = "v2" THEN 2 ELSE 6
        /\ 1 < Len(Script) /\ (kind = "v3" => 2 < Len(Script))
        /\ Awaits[1] = 0 /\ Awaits[2] = 1
        /\ kind = "v3" => Awaits[3] = 2 /\ Awaits[4] = 2 /\ Awaits[5] = 2 /\ Awaits[6] = 3
    BY ScriptNumbers DEF IInv, TypeOK
  <1> USE DEF state, dialogue, reading, evidence, plugin, observer
  <1>1. ASSUME agent_started PROVE IInv'
    <2>1. Script' = Script /\ Awaits' = Awaits /\ QueueMax' = QueueMax
      BY <1>1, SameKind DEF agent_started
    <2>2. /\ pc["run"] = "started" /\ pc'["run"] = (IF kind = "v2" THEN "running" ELSE "send")
          /\ pc'["shutdown"] = pc["shutdown"] /\ pc' \in [Threads -> PCs]
      BY <1>0, <1>1, RunMoves DEF agent_started, PCs
    <2>3. got' = 1 /\ cmds' = 0 /\ kind' = kind
      BY <1>0, <1>1, <2>2 DEF agent_started, IInv, TypeOK, DialogueInStep, At
    <2>4. TypeOK'
      BY <1>1, <2>1, <2>2 DEF agent_started, IInv, TypeOK, Phases
    <2>5. DialogueInStep'
      <3>1. pc'["run"] = "send" => got' < Len(Script) /\ cmds' + 1 = Awaits[got' + 1]
        BY <1>0, <2>2, <2>3
      <3>2. cmds' = Awaits'[got']
        BY <1>0, <2>1, <2>3
      <3> QED
        BY <2>1, <2>2, <2>3, <3>1, <3>2 DEF DialogueInStep, At, Before
    <2> QED
      BY <1>1, <2>2, <2>4, <2>5, TalkingStep DEF agent_started, IInv
  <1>2. ASSUME finish PROVE IInv'
    <2>1. Script' = Script /\ Awaits' = Awaits /\ QueueMax' = QueueMax
      BY <1>2, SameKind DEF finish
    <2>2. /\ pc["run"] = "running" /\ pc'["run"] = "send"
          /\ pc'["shutdown"] = pc["shutdown"] /\ pc' \in [Threads -> PCs]
      BY <1>0, <1>2, RunMoves DEF finish, PCs
    <2>3. /\ kind = "v2" => got' = 1 /\ cmds' = 0
          /\ kind = "v3" => got' = 2 /\ cmds' = 1
      BY <1>0, <1>2, <2>2 DEF finish, IInv, DialogueInStep, At
    <2>4. TypeOK'
      BY <1>2, <2>1, <2>2 DEF finish, IInv, TypeOK, Phases
    <2>5. DialogueInStep'
      <3>1. got' \in {1, 2} /\ got' < Len(Script')
        <4>1. CASE kind = "v2"
          BY <1>0, <2>1, <2>3, <4>1
        <4>2. CASE kind = "v3"
          BY <1>0, <2>1, <2>3, <4>2
        <4> QED
          BY <1>0, <4>1, <4>2
      <3>2. CASE kind = "v2"
        BY <1>0, <2>1, <2>2, <2>3, <3>1, <3>2 DEF DialogueInStep, At, Before
      <3>3. CASE kind = "v3"
        <4>1. Awaits'[got' + 1] = 2
          BY <1>0, <2>1, <2>3, <3>3
        <4> QED
          BY <2>2, <2>3, <3>1, <3>3, <4>1 DEF DialogueInStep, At, Before
      <3> QED
        BY <1>0, <3>2, <3>3
    <2> QED
      BY <1>2, <2>2, <2>4, <2>5, TalkingStep DEF finish, IInv
  <1>3. ASSUME send PROVE IInv'
    <2> USE <1>3 DEF send
    <2>1. Script' = Script /\ Awaits' = Awaits /\ QueueMax' = QueueMax
      BY SameKind
    <2>2. /\ pc["run"] = "send" /\ pc'["run"] = "await"
          /\ pc'["shutdown"] = pc["shutdown"] /\ pc' \in [Threads -> PCs]
      BY <1>0, RunMoves DEF PCs
    <2>3. got < Len(Script) /\ cmds + 1 = Awaits[got + 1] /\ cmds + 1 \in 0..3
      BY <1>0, <2>2 DEF IInv, TypeOK, DialogueInStep, At
    <2>4. TypeOK'
      BY <2>1, <2>2, <2>3 DEF IInv, TypeOK, Phases
    <2>5. DialogueInStep'
      BY <1>0, <2>1, <2>2, <2>3 DEF IInv, TypeOK, DialogueInStep, At, Before
    <2> QED
      BY <2>2, <2>4, <2>5, TalkingStep DEF IInv
  <1>4. ASSUME send_fails PROVE IInv'
    <2> USE <1>4 DEF send_fails
    <2>1. Script' = Script /\ Awaits' = Awaits /\ QueueMax' = QueueMax
      BY SameKind
    <2>2. /\ pc["run"] = "send" /\ pc'["run"] = "fail"
          /\ pc'["shutdown"] = pc["shutdown"] /\ pc' \in [Threads -> PCs]
      BY <1>0, RunMoves DEF PCs
    <2>4. TypeOK'
      BY <2>1, <2>2 DEF IInv, TypeOK, Phases
    <2>5. DialogueInStep'
      BY <1>0, <2>1, <2>2 DEF IInv, TypeOK, DialogueInStep, At, Before
    <2> QED
      BY <2>2, <2>4, <2>5, TalkingStep DEF IInv
  <1>5. ASSUME accept_agent_started PROVE IInv'
    <2> USE <1>5 DEF accept_agent_started
    <2>1. Script' = Script /\ Awaits' = Awaits /\ QueueMax' = QueueMax
      BY SameKind
    <2>2. /\ pc["run"] = "accept" /\ pc'["run"] \in {"fail", "running"}
          /\ pc'["shutdown"] = pc["shutdown"] /\ pc' \in [Threads -> PCs]
      BY <1>0, RunMoves DEF PCs
    <2>4. TypeOK'
      BY <2>1, <2>2 DEF IInv, TypeOK, Phases
    <2>5. DialogueInStep'
      BY <1>0, <2>1, <2>2 DEF IInv, TypeOK, DialogueInStep, At, Before
    <2> QED
      BY <2>2, <2>4, <2>5, TalkingStep DEF IInv
  <1>6. ASSUME accept_snapshot PROVE IInv'
    <2>1. Script' = Script /\ Awaits' = Awaits /\ QueueMax' = QueueMax
      BY <1>6, SameKind DEF accept_snapshot
    <2>2. /\ pc["run"] = "accept" /\ pc'["run"] = (IF got = 5 THEN "send" ELSE "await")
          /\ pc'["shutdown"] = pc["shutdown"] /\ pc' \in [Threads -> PCs]
      BY <1>0, <1>6, RunMoves DEF accept_snapshot, PCs
    <2>3. got' = got /\ got \in 3..5 /\ cmds' = 2 /\ kind = "v3"
      BY <1>0, <1>6, <2>2 DEF accept_snapshot, IInv, TypeOK, DialogueInStep, At
    <2>4. TypeOK'
      BY <1>6, <2>1, <2>2 DEF accept_snapshot, IInv, TypeOK, Phases
    <2>5. DialogueInStep'
      <3>1. Len(Script') = 6 /\ got' \in {3, 4, 5}
        BY <1>0, <2>1, <2>3
      <3>2. got' = 5 => cmds' + 1 = Awaits'[got' + 1]
        BY <1>0, <2>1, <2>3
      <3>3. got' \in {3, 4} => cmds' = Awaits'[got' + 1]
        BY <1>0, <2>1, <2>3
      <3> QED
        BY <2>2, <2>3, <3>1, <3>2, <3>3 DEF DialogueInStep, At, Before
    <2> QED
      BY <1>6, <2>2, <2>4, <2>5, TalkingStep DEF accept_snapshot, IInv
  <1>7. ASSUME accept_finished PROVE IInv'
    <2> USE <1>7 DEF accept_finished
    <2>1. Script' = Script /\ Awaits' = Awaits /\ QueueMax' = QueueMax
      BY SameKind
    <2>2. /\ pc["run"] = "accept" /\ pc'["run"] = "exit"
          /\ pc'["shutdown"] = pc["shutdown"] /\ pc' \in [Threads -> PCs]
      BY <1>0, RunMoves DEF PCs
    <2>4. TypeOK'
      BY <2>1, <2>2 DEF IInv, TypeOK, Phases
    <2>5. DialogueInStep'
      BY <1>0, <2>1, <2>2 DEF IInv, TypeOK, DialogueInStep, At, Before
    <2> QED
      BY <2>2, <2>4, <2>5, TalkingStep DEF IInv
  <1>8. ASSUME accept_ready PROVE IInv'
    <2> USE <1>8 DEF accept_ready
    <2>1. Script' = Script /\ Awaits' = Awaits /\ QueueMax' = QueueMax
      BY SameKind
    <2>2. /\ pc["run"] = "accept" /\ pc'["run"] \in {"close", "started"}
          /\ pc'["shutdown"] = pc["shutdown"] /\ pc' \in [Threads -> PCs]
      BY <1>0, RunMoves DEF PCs
    <2>3. active' \in BOOLEAN /\ phase' \in Phases /\ (active' = active \/ ~closed)
      BY DEF IInv, TypeOK, Phases
    <2>4. TypeOK'
      BY <2>1, <2>2, <2>3 DEF IInv, TypeOK, Phases
    <2>5. DialogueInStep'
      BY <1>0, <2>1, <2>2, <2>3 DEF IInv, TypeOK, DialogueInStep, At, Before
    <2> QED
      BY <2>2, <2>4, <2>5, TalkingStep DEF IInv
  <1>9. ASSUME abandon /\ Run("started", "close") PROVE IInv'
    <2> USE <1>9 DEF abandon
    <2>1. Script' = Script /\ Awaits' = Awaits /\ QueueMax' = QueueMax
      BY SameKind
    <2>2. /\ pc["run"] = "started" /\ pc'["run"] = "close"
          /\ pc'["shutdown"] = pc["shutdown"] /\ pc' \in [Threads -> PCs]
      BY <1>0, RunMoves DEF PCs
    <2>3. faults' \in 0..MaxFaults
      BY FaultsAssumption DEF IInv, TypeOK, Fault
    <2>4. TypeOK'
      BY <2>1, <2>2, <2>3 DEF IInv, TypeOK, Phases
    <2>5. DialogueInStep'
      BY <1>0, <2>1, <2>2 DEF IInv, TypeOK, DialogueInStep, At, Before
    <2> QED
      BY <2>2, <2>4, <2>5, TalkingStep DEF IInv
  <1>10. ASSUME abandon /\ Run("running", "close") PROVE IInv'
    <2> USE <1>10 DEF abandon
    <2>1. Script' = Script /\ Awaits' = Awaits /\ QueueMax' = QueueMax
      BY SameKind
    <2>2. /\ pc["run"] = "running" /\ pc'["run"] = "close"
          /\ pc'["shutdown"] = pc["shutdown"] /\ pc' \in [Threads -> PCs]
      BY <1>0, RunMoves DEF PCs
    <2>3. faults' \in 0..MaxFaults
      BY FaultsAssumption DEF IInv, TypeOK, Fault
    <2>4. TypeOK'
      BY <2>1, <2>2, <2>3 DEF IInv, TypeOK, Phases
    <2>5. DialogueInStep'
      BY <1>0, <2>1, <2>2 DEF IInv, TypeOK, DialogueInStep, At, Before
    <2> QED
      BY <2>2, <2>4, <2>5, TalkingStep DEF IInv
  <1>11. ASSUME receive_times_out PROVE IInv'
    <2> USE <1>11 DEF receive_times_out, Raise
    <2>1. Script' = Script /\ Awaits' = Awaits /\ QueueMax' = QueueMax
      BY SameKind
    <2>2. /\ pc["run"] = "await" /\ pc'["run"] \in {"close", "fail"}
          /\ pc'["shutdown"] = pc["shutdown"] /\ pc' \in [Threads -> PCs]
      BY <1>0, RunMoves DEF PCs
    <2>4. TypeOK'
      BY <2>1, <2>2 DEF IInv, TypeOK, Phases
    <2>5. DialogueInStep'
      BY <1>0, <2>1, <2>2 DEF IInv, TypeOK, DialogueInStep, At, Before
    <2> QED
      BY <2>2, <2>4, <2>5, TalkingStep DEF IInv
  <1>12. ASSUME refuse PROVE IInv'
    <2> USE <1>12 DEF refuse, Raise
    <2>1. Script' = Script /\ Awaits' = Awaits /\ QueueMax' = QueueMax
      BY SameKind
    <2>2. /\ pc["run"] = "accept" /\ pc'["run"] \in {"close", "fail"}
          /\ pc'["shutdown"] = pc["shutdown"] /\ pc' \in [Threads -> PCs]
      BY <1>0, RunMoves DEF PCs
    <2>3. faults' \in 0..MaxFaults
      BY FaultsAssumption DEF IInv, TypeOK, Fault
    <2>4. TypeOK'
      BY <2>1, <2>2, <2>3 DEF IInv, TypeOK, Phases
    <2>5. DialogueInStep'
      BY <1>0, <2>1, <2>2, <2>3 DEF IInv, TypeOK, DialogueInStep, At, Before
    <2> QED
      BY <2>2, <2>4, <2>5, TalkingStep DEF IInv
  <1>13. ASSUME receive PROVE IInv'
    <2> USE <1>13 DEF receive
    <2>1. Script' = Script /\ Awaits' = Awaits /\ QueueMax' = QueueMax
      BY SameKind
    <2>2. /\ got \in Nat /\ got < Len(Script) /\ cmds = Awaits[got + 1] /\ pc["run"] = "await"
          /\ pc'["shutdown"] = pc["shutdown"] /\ pc' \in [Threads -> PCs]
          /\ \/ got' = got /\ pc'["run"] \in {"close", "fail"}
             \/ got' = got + 1 /\ pc'["run"] = "accept"
      <3>1. got \in Nat /\ got < Len(Script) /\ cmds = Awaits[got + 1] /\ pc["run"] = "await"
        BY <1>0 DEF IInv, TypeOK, DialogueInStep, At
      <3>2. CASE Head(queue) = Script[got + 1]
        BY <1>0, <3>1, <3>2, RunMoves DEF PCs
      <3>3. CASE Head(queue) # Script[got + 1]
        BY <1>0, <3>1, <3>3, RunMoves DEF PCs, Raise
      <3> QED
        BY <3>2, <3>3
    <2>3. queue' \in Seq(Items) /\ Len(queue') <= QueueMax
      BY <1>0, QueueBound DEF TypeOK
    <2>4. got' \in 0..Len(Script)
      BY <1>0, <2>2
    <2>5. TypeOK'
      BY <2>1, <2>2, <2>3, <2>4 DEF IInv, TypeOK
    <2>6. DialogueInStep'
      BY <2>1, <2>2 DEF DialogueInStep, At, Before
    <2> QED
      BY <2>2, <2>5, <2>6, TalkingStep DEF IInv
  <1> QED
    BY <1>1, <1>2, <1>3, <1>4, <1>5, <1>6, <1>7, <1>8, <1>9, <1>10, <1>11, <1>12, <1>13
       DEF Dialogue, abandon

\* The end of finish: exit status, artifacts, verifier, cleanup, receipt.
LEMMA ConcludeSteps == ASSUME IInv, Conclude PROVE IInv'
  <1> USE FaultsAssumption DEF IInv, TypeOK, HandleHoldsItsLocks, ChildrenAreGone,
          DialogueInStep, ReaderNotifiesOnce, StepsOfFinish, EvidenceIsComplete, At, Before,
          Ending, Proved, state, dialogue, reading, evidence, plugin, observer, finishing
  <1>1. ASSUME require_observer_exit PROVE IInv'
    <2>1. Script' = Script /\ Awaits' = Awaits /\ QueueMax' = QueueMax
      BY <1>1, SameKind DEF require_observer_exit
    <2>2. /\ pc["run"] = "exit" /\ pc'["run"] = "artifacts"
          /\ pc'["shutdown"] = pc["shutdown"] /\ pc' \in [Threads -> PCs]
      BY <1>1, RunMoves DEF require_observer_exit, PCs
    <2> QED
      BY <1>1, <2>1, <2>2 DEF require_observer_exit
  <1>2. ASSUME observer_exit_fails PROVE IInv'
    <2>1. Script' = Script /\ Awaits' = Awaits /\ QueueMax' = QueueMax
      BY <1>2, SameKind DEF observer_exit_fails
    <2>2. /\ pc["run"] = "exit" /\ pc'["run"] = "fail"
          /\ pc'["shutdown"] = pc["shutdown"] /\ pc' \in [Threads -> PCs]
      BY <1>2, RunMoves DEF observer_exit_fails, PCs
    <2> QED
      BY <1>2, <2>1, <2>2 DEF observer_exit_fails
  <1>3. ASSUME validate_terminal_artifacts PROVE IInv'
    <2>1. Script' = Script /\ Awaits' = Awaits /\ QueueMax' = QueueMax
      BY <1>3, SameKind DEF validate_terminal_artifacts
    <2>2. /\ pc["run"] = "artifacts" /\ pc'["run"] = "verify"
          /\ pc'["shutdown"] = pc["shutdown"] /\ pc' \in [Threads -> PCs]
      BY <1>3, RunMoves DEF validate_terminal_artifacts, PCs
    <2> QED
      BY <1>3, <2>1, <2>2 DEF validate_terminal_artifacts
  <1>4. ASSUME run_verifier PROVE IInv'
    <2>1. Script' = Script /\ Awaits' = Awaits /\ QueueMax' = QueueMax
      BY <1>4, SameKind DEF run_verifier
    <2>2. /\ pc["run"] = "verify" /\ pc'["run"] = "cleanup"
          /\ pc'["shutdown"] = pc["shutdown"] /\ pc' \in [Threads -> PCs]
      BY <1>4, RunMoves DEF run_verifier, PCs
    <2> QED
      BY <1>4, <2>1, <2>2 DEF run_verifier
  <1>5. ASSUME verifier_fails PROVE IInv'
    <2>1. Script' = Script /\ Awaits' = Awaits /\ QueueMax' = QueueMax
      BY <1>5, SameKind DEF verifier_fails
    <2>2. /\ pc["run"] = "verify" /\ pc'["run"] = "fail"
          /\ pc'["shutdown"] = pc["shutdown"] /\ pc' \in [Threads -> PCs]
      BY <1>5, RunMoves DEF verifier_fails, PCs
    <2> QED
      BY <1>5, <2>1, <2>2 DEF verifier_fails
  <1>6. ASSUME cleanup PROVE IInv'
    <2>1. Script' = Script /\ Awaits' = Awaits /\ QueueMax' = QueueMax
      BY <1>6, SameKind DEF cleanup
    <2>2. /\ pc["run"] = "cleanup" /\ pc'["run"] = "receipt"
          /\ pc'["shutdown"] = pc["shutdown"] /\ pc' \in [Threads -> PCs]
      BY <1>6, RunMoves DEF cleanup, PCs
    <2> QED
      BY <1>6, <2>1, <2>2 DEF cleanup, MayDelete
  <1>7. ASSUME cleanup_fails PROVE IInv'
    <2>1. Script' = Script /\ Awaits' = Awaits /\ QueueMax' = QueueMax
      BY <1>7, SameKind DEF cleanup_fails
    <2>2. /\ pc["run"] = "cleanup" /\ pc'["run"] = "fail"
          /\ pc'["shutdown"] = pc["shutdown"] /\ pc' \in [Threads -> PCs]
      BY <1>7, RunMoves DEF cleanup_fails, PCs
    <2> QED
      BY <1>7, <2>1, <2>2 DEF cleanup_fails, MayDelete, Fault
  <1>8. ASSUME write_receipt PROVE IInv'
    <2>1. Script' = Script /\ Awaits' = Awaits /\ QueueMax' = QueueMax
      BY <1>8, SameKind DEF write_receipt
    <2>2. /\ pc["run"] = "receipt" /\ pc'["run"] = "final"
          /\ pc'["shutdown"] = pc["shutdown"] /\ pc' \in [Threads -> PCs]
      BY <1>8, RunMoves DEF write_receipt, PCs
    <2> QED
      BY <1>8, <2>1, <2>2 DEF write_receipt
  <1>9. ASSUME finished PROVE IInv'
    <2>1. Script' = Script /\ Awaits' = Awaits /\ QueueMax' = QueueMax
      BY <1>9, SameKind DEF finished
    <2>2. /\ pc["run"] = "final" /\ pc'["run"] = "sd"
          /\ pc'["shutdown"] = pc["shutdown"] /\ pc' \in [Threads -> PCs]
      BY <1>9, RunMoves DEF finished, PCs
    <2> QED
      BY <1>9, <2>1, <2>2 DEF finished, Phases
  <1>10. ASSUME set_failed PROVE IInv'
    <2>1. Script' = Script /\ Awaits' = Awaits /\ QueueMax' = QueueMax
      BY <1>10, SameKind DEF set_failed
    <2>2. /\ pc["run"] = "fail" /\ pc'["run"] = "sd"
          /\ pc'["shutdown"] = pc["shutdown"] /\ pc' \in [Threads -> PCs]
      BY <1>10, RunMoves DEF set_failed, PCs
    <2> QED
      BY <1>10, <2>1, <2>2 DEF set_failed, Phases
  <1>11. ASSUME finish_step_fails /\ Run("artifacts", "fail") PROVE IInv'
    <2>1. Script' = Script /\ Awaits' = Awaits /\ QueueMax' = QueueMax
      BY <1>11, SameKind DEF finish_step_fails
    <2>2. /\ pc["run"] = "artifacts" /\ pc'["run"] = "fail"
          /\ pc'["shutdown"] = pc["shutdown"] /\ pc' \in [Threads -> PCs]
      BY <1>11, RunMoves DEF finish_step_fails, PCs
    <2> QED
      BY <1>11, <2>1, <2>2 DEF finish_step_fails, Fault
  <1>12. ASSUME finish_step_fails /\ Run("receipt", "fail") PROVE IInv'
    <2>1. Script' = Script /\ Awaits' = Awaits /\ QueueMax' = QueueMax
      BY <1>12, SameKind DEF finish_step_fails
    <2>2. /\ pc["run"] = "receipt" /\ pc'["run"] = "fail"
          /\ pc'["shutdown"] = pc["shutdown"] /\ pc' \in [Threads -> PCs]
      BY <1>12, RunMoves DEF finish_step_fails, PCs
    <2> QED
      BY <1>12, <2>1, <2>2 DEF finish_step_fails, Fault
  <1> QED
    BY <1>1, <1>2, <1>3, <1>4, <1>5, <1>6, <1>7, <1>8, <1>9, <1>10, <1>11, <1>12
       DEF Conclude, finish_step_fails

\* A step that moves no thread: what the invariants say of the locks, the
\* dialogue and the end of finish does not change with queue, phase and reader.
LEMMA EnvironmentSteps == ASSUME IInv, other_starts \/ other_ends \/ observer_exits PROVE IInv'
  <1> USE DEF IInv, TypeOK, HandleHoldsItsLocks, ChildrenAreGone,
          DialogueInStep, ReaderNotifiesOnce, StepsOfFinish, EvidenceIsComplete, At, Before,
          Ending, Proved, state, dialogue, reading, evidence, plugin, observer
  <1>1. Script' = Script /\ Awaits' = Awaits /\ QueueMax' = QueueMax
    BY SameKind DEF other_starts, other_ends, observer_exits
  <1>2. CASE other_starts
    BY <1>1, <1>2 DEF other_starts
  <1>3. CASE other_ends
    BY <1>1, <1>3 DEF other_ends
  <1>4. CASE observer_exits
    BY <1>1, <1>4 DEF observer_exits
  <1> QED
    BY <1>2, <1>3, <1>4

\* A line is read, or not: the queue keeps its items and its bound, and the
\* reader that reports a failure stops reading.
LEMMA LineIsRead ==
  ASSUME TypeOK, NEW m \in Items, read_line(m)
  PROVE  /\ phase' \in Phases /\ failed' \in BOOLEAN /\ seen' \in BOOLEAN
         /\ queue' \in Seq(Items) /\ Len(queue') <= QueueMax
         /\ reader' \in {"off", "reading", "notify"}
         /\ reader # "reading" => reader' = reader
  <1>1. CASE reader # "reading"
    BY <1>1 DEF read_line, TypeOK
  <1>2. CASE reader = "reading" /\ InOrder(m) /\ Len(queue) < QueueMax
    <2>1. QueueMax \in Nat /\ queue \in Seq(Items) /\ queue' = Append(queue, m)
      BY <1>2, QueueBound DEF read_line, TypeOK
    <2>2. queue' \in Seq(Items) /\ Len(queue') <= QueueMax
      BY <1>2, <2>1
    <2> QED
      BY <1>2, <2>2 DEF read_line, TypeOK, Phases
  <1>3. CASE reader = "reading" /\ ~(InOrder(m) /\ Len(queue) < QueueMax)
    <2>1. publish_failure /\ seen' \in BOOLEAN
      BY <1>3 DEF read_line, TypeOK
    <2>2. queue' \in Seq(Items) /\ Len(queue') <= QueueMax
      BY <2>1, PutKeeps DEF publish_failure, Items
    <2> QED
      BY <2>1, <2>2, <1>3 DEF publish_failure, TypeOK, Phases
  <1> QED
    BY <1>1, <1>2, <1>3

\* A step of the reader or of the Observer: no thread moves, and of what the
\* invariants speak of only the reader, the Observer's end and the helper's
\* result may change, the last two only while the Observer is alive.
LEMMA ReadingStep ==
  ASSUME IInv, UNCHANGED <<pc, shut, dialogue, evidence, plugin>>, TypeOK',
         obs' = obs \/ (obs = "alive" /\ obs' # "none"),
         helper' = helper \/ obs = "alive",
         \/ reader' = reader /\ notified' = notified
         \/ reader = "reading" /\ notified' = notified
         \/ reader = "notify" /\ reader' = "off"
  PROVE  IInv'
  <1> USE DEF IInv, dialogue, evidence, plugin
  <1>1. Script' = Script /\ Awaits' = Awaits
    BY SameKind
  <1>2. HandleHoldsItsLocks' /\ DialogueInStep'
    BY <1>1 DEF HandleHoldsItsLocks, DialogueInStep, At
  <1>3. ChildrenAreGone' /\ ReaderNotifiesOnce'
    BY DEF ChildrenAreGone, ReaderNotifiesOnce, Before
  <1>4. StepsOfFinish' /\ EvidenceIsComplete'
    BY <1>1 DEF StepsOfFinish, EvidenceIsComplete, Ending
  <1> QED
    BY <1>2, <1>3, <1>4

\* The Observer's lines, its death, the end of its output, and on_failure.
LEMMA ObserverSteps ==
  ASSUME IInv, observer_answers \/ observer_misbehaves \/ Reader
  PROVE  IInv'
  <1>0. TypeOK
    BY DEF IInv
  <1> USE DEF state, dialogue, reading, evidence, plugin, observer
  <1>1. ASSUME observer_answers PROVE IInv'
    <2>1. pos \in Nat /\ pos + 1 \in 1..Len(Script) /\ Script[pos + 1] \in Items
      BY <1>0, <1>1, ScriptOfKind, ScriptNumbers DEF observer_answers, TypeOK
    <2>2. read_line(Script[pos + 1]) /\ Script' = Script /\ QueueMax' = QueueMax
      BY <1>1, SameKind DEF observer_answers
    <2>3. /\ phase' \in Phases /\ failed' \in BOOLEAN /\ seen' \in BOOLEAN
          /\ queue' \in Seq(Items) /\ Len(queue') <= QueueMax
          /\ reader' \in {"off", "reading", "notify"}
          /\ reader # "reading" => reader' = reader
      BY <1>0, <2>1, <2>2, LineIsRead
    <2>4. helper' \in BOOLEAN /\ pos' \in 0..Len(Script)
      BY <1>0, <1>1, <2>1 DEF observer_answers, TypeOK
    <2>5. TypeOK'
      BY <1>0, <1>1, <2>2, <2>3, <2>4 DEF observer_answers, TypeOK
    <2> QED
      BY <1>1, <2>3, <2>5, ReadingStep DEF observer_answers
  <1>2. ASSUME observer_misbehaves PROVE IInv'
    <2>1. /\ phase' \in Phases /\ failed' \in BOOLEAN /\ seen' \in BOOLEAN
          /\ queue' \in Seq(Items) /\ Len(queue') <= QueueMax
          /\ reader' \in {"off", "reading", "notify"}
          /\ reader # "reading" => reader' = reader
          /\ obs' \in {"alive", "dead"}
      <3>1. CASE obs' = "dead" /\ UNCHANGED <<phase, failed, seen, queue, reader>>
        BY <1>0, <3>1 DEF TypeOK
      <3>2. ASSUME NEW m \in {"garbage", "EXTRA", "FINISHED"}, read_line(m), UNCHANGED obs
            PROVE  <2>1!:
        BY <1>0, <1>2, <3>2, LineIsRead DEF Items, observer_misbehaves
      <3> QED
        BY <1>2, <3>1, <3>2 DEF observer_misbehaves
    <2>2. faults' \in 0..MaxFaults /\ Script' = Script /\ QueueMax' = QueueMax
      BY <1>0, <1>2, FaultsAssumption, SameKind DEF observer_misbehaves, Fault, TypeOK
    <2>3. TypeOK'
      BY <1>0, <1>2, <2>1, <2>2 DEF observer_misbehaves, TypeOK
    <2> QED
      BY <1>2, <2>1, <2>3, ReadingStep DEF observer_misbehaves
  <1>3. ASSUME read_eof PROVE IInv'
    <2>1. /\ phase' \in Phases /\ failed' \in BOOLEAN /\ reader' \in {"off", "notify"}
          /\ queue' \in Seq(Items) /\ Len(queue') <= QueueMax
      <3>1. CASE EofExpected
        BY <1>0, <1>3, <3>1 DEF read_eof, TypeOK
      <3>2. CASE ~EofExpected
        <4>1. publish_failure
          BY <1>3, <3>2 DEF read_eof
        <4>2. queue' \in Seq(Items) /\ Len(queue') <= QueueMax
          BY <1>0, <4>1, PutKeeps DEF publish_failure, Items
        <4> QED
          BY <1>0, <4>1, <4>2 DEF publish_failure, TypeOK, Phases
      <3> QED
        BY <3>1, <3>2
    <2>2. Script' = Script /\ QueueMax' = QueueMax
      BY <1>3, SameKind DEF read_eof
    <2>3. TypeOK'
      BY <1>0, <1>3, <2>1, <2>2 DEF read_eof, TypeOK
    <2> QED
      BY <1>3, <2>3, ReadingStep DEF read_eof
  <1>4. ASSUME on_failure PROVE IInv'
    <2>1. notified' \in 0..1
      BY <1>0, <1>4 DEF on_failure, IInv, TypeOK, ReaderNotifiesOnce
    <2>2. Script' = Script /\ QueueMax' = QueueMax
      BY <1>4, SameKind DEF on_failure
    <2>3. TypeOK'
      BY <1>0, <1>4, <2>1, <2>2 DEF on_failure, TypeOK
    <2> QED
      BY <1>4, <2>3, ReadingStep DEF on_failure
  <1> QED
    BY <1>1, <1>2, <1>3, <1>4 DEF Reader

\* plugin.close asks a handle it knows to close.
LEMMA PluginCloseStep == ASSUME IInv, plugin_close PROVE IInv'
  <1> USE DEF IInv, plugin_close, state, dialogue, reading, evidence, observer
  <1>1. Script' = Script /\ Awaits' = Awaits /\ QueueMax' = QueueMax
    BY SameKind
  <1>2. /\ pc' \in [Threads -> PCs] /\ pc'["run"] = pc["run"]
        /\ pc'["shutdown"] = IF active THEN "close" ELSE pc["shutdown"]
    <2>1. pc \in [Threads -> PCs] /\ "shutdown" \in Threads /\ "run" \in Threads \ {"shutdown"}
      BY DEF TypeOK, Threads
    <2>2. "close" \in PCs
      BY DEF PCs
    <2> QED
      BY <2>1, <2>2, ThreadMoves
  <1>3. TypeOK'
    BY <1>1, <1>2 DEF TypeOK
  <1>4. HandleHoldsItsLocks' /\ ChildrenAreGone' /\ ReaderNotifiesOnce'
    BY <1>2 DEF TypeOK, HandleHoldsItsLocks, ChildrenAreGone, ReaderNotifiesOnce, Before
  <1>5. DialogueInStep' /\ StepsOfFinish' /\ EvidenceIsComplete'
    BY <1>1, <1>2 DEF DialogueInStep, At, StepsOfFinish, EvidenceIsComplete
  <1> QED
    BY <1>3, <1>4, <1>5

\* What a step of close_unverified, _shutdown and _retire may do to the rest of
\* the state, whichever thread takes it.
LEMMA ClosingKeeps ==
  ASSUME IInv, NEW t \in Threads, Closing(t)
  PROVE  /\ UNCHANGED <<kind, failed, seen, dialogue, reading, proven, deleted, receipt, closed, pos,
                        helper, faults>>
         /\ obs' = obs \/ (obs = "alive" /\ obs' = "dead")
         /\ ver' = ver \/ (ver = "running" /\ ver' = "killed")
         /\ phase' \in Phases /\ shut' \in BOOLEAN
         /\ queue' \in Seq(Items) /\ Len(queue') <= QueueMax
  <1>0. TypeOK
    BY DEF IInv
  <1> USE DEF state, dialogue, reading, evidence, plugin, observer, Retire
  <1>1. CASE close_unverified(t)
    <2>1. queue' \in Seq(Items) /\ Len(queue') <= QueueMax
      <3>1. CASE shut
        BY <1>0, <1>1, <3>1 DEF close_unverified, TypeOK
      <3>2. CASE ~shut
        BY <1>0, <1>1, <3>2, PutKeeps DEF close_unverified, Items
      <3> QED
        BY <3>1, <3>2
    <2> QED
      BY <1>0, <1>1, <2>1 DEF close_unverified, TypeOK, Phases
  <1>2. CASE shutdown(t)
    BY <1>0, <1>2 DEF shutdown, TypeOK
  <1>3. CASE terminate_process_group(t)
    BY <1>0, <1>3 DEF terminate_process_group, TypeOK
  <1>4. CASE retire(t)
    BY <1>0, <1>4 DEF retire, TypeOK
  <1> QED
    BY <1>1, <1>2, <1>3, <1>4 DEF Closing

\* A handle that is being closed has slot and lock or is retired: Retire frees
\* what is the handle's own, or nothing.
LEMMA RetireFreesItsOwn ==
  ASSUME IInv, NEW t \in Threads, Closing(t)
  PROVE  ~retired => slot = "self" /\ flock = "self"
  <1>1. pc[t] \in {"close", "sd", "kill", "retire"}
    BY DEF Closing, close_unverified, shutdown, terminate_process_group, retire
  <1>2. CASE t = "run"
    BY <1>1, <1>2 DEF IInv, HandleHoldsItsLocks
  <1>3. CASE t = "shutdown"
    BY <1>1, <1>3 DEF IInv, HandleHoldsItsLocks, Before
  <1> QED
    BY <1>2, <1>3 DEF Threads

\* Where a closing thread goes, and when it retires the handle.
LEMMA ClosingMoves ==
  ASSUME IInv, NEW t \in Threads, Closing(t)
  PROVE  /\ pc' \in [Threads -> PCs] /\ \A u \in Threads \ {t} : pc'[u] = pc[u]
         /\ \/ pc[t] = "close" /\ pc'[t] = "sd" /\ UNCHANGED <<plugin, shut, obs, ver>>
            \/ pc[t] \in {"close", "sd"} /\ shut /\ pc'[t] = "done" /\ Retire /\ UNCHANGED <<shut, obs, ver>>
            \/ pc[t] = "sd" /\ pc'[t] = "kill" /\ shut' /\ ver' # "running" /\ UNCHANGED <<plugin, obs>>
            \/ pc[t] = "kill" /\ pc'[t] = "retire" /\ obs' # "alive" /\ UNCHANGED <<plugin, shut, ver>>
            \/ pc[t] = "retire" /\ pc'[t] = "done" /\ Retire /\ UNCHANGED <<shut, obs, ver>>
  <1>1. pc \in [Threads -> PCs] /\ {"sd", "kill", "retire", "done"} \subseteq PCs
    BY DEF IInv, TypeOK, PCs
  <1> USE DEF state, evidence, observer
  <1>2. CASE close_unverified(t)
    BY <1>1, <1>2, ThreadMoves DEF close_unverified
  <1>3. CASE shutdown(t)
    BY <1>1, <1>3, ThreadMoves DEF shutdown
  <1>4. CASE terminate_process_group(t)
    BY <1>1, <1>4, ThreadMoves DEF terminate_process_group
  <1>5. CASE retire(t)
    BY <1>1, <1>5, ThreadMoves DEF retire
  <1> QED
    BY <1>2, <1>3, <1>4, <1>5 DEF Closing

\* The handle is retired once, by whoever comes last or second.
LEMMA ClosingSteps ==
  ASSUME IInv, NEW t \in Threads, Closing(t)
  PROVE  IInv'
  <1> DEFINE other == IF t = "run" THEN "shutdown" ELSE "run"
  <1>1. /\ pc' \in [Threads -> PCs] /\ pc'[other] = pc[other]
        /\ t = "run" \/ t = "shutdown"
    BY ClosingMoves DEF Threads
  <1>2. Script' = Script /\ Awaits' = Awaits /\ QueueMax' = QueueMax
    BY ClosingKeeps, SameKind
  <1>3. /\ pc[t] \in {"close", "sd", "kill", "retire"}
        /\ pc'[t] \in {"sd", "kill", "retire", "done"}
    BY ClosingMoves
  <1>4. \/ UNCHANGED plugin /\ pc'[t] # "done"
        \/ pc'[t] = "done" /\ retired' = TRUE /\ active' = FALSE /\ UNCHANGED <<kind, closed>>
           /\ IF retired THEN UNCHANGED <<slot, flock>> ELSE slot' = "free" /\ flock' = "free"
    BY ClosingMoves DEF Retire, plugin, IInv, TypeOK, HandleHoldsItsLocks
  <1>5. TypeOK'
    <2>1. /\ retired' \in BOOLEAN /\ active' \in BOOLEAN
          /\ slot' \in {"free", "self", "other"} /\ flock' \in {"free", "self", "other"}
      BY <1>4 DEF IInv, TypeOK, plugin
    <2> QED
      BY <1>1, <1>2, <2>1, ClosingKeeps DEF IInv, TypeOK, dialogue, reading
  <1>6. HandleHoldsItsLocks'
    <2>1. CASE t = "run"
      BY <1>1, <1>3, <1>4, <2>1 DEF IInv, TypeOK, HandleHoldsItsLocks, plugin, Before
    <2>2. CASE t = "shutdown"
      BY <1>1, <1>3, <1>4, <2>2 DEF IInv, TypeOK, HandleHoldsItsLocks, plugin, Before
    <2> QED
      BY <1>1, <2>1, <2>2
  <1>7. ChildrenAreGone'
    <2>1. CASE t = "run"
      BY <1>1, <1>3, <2>1, ClosingKeeps, ClosingMoves DEF IInv, ChildrenAreGone, plugin, Before, reading
    <2>2. CASE t = "shutdown"
      BY <1>1, <1>3, <2>2, ClosingKeeps DEF IInv, HandleHoldsItsLocks, ChildrenAreGone, plugin, Before, reading
    <2> QED
      BY <1>1, <2>1, <2>2
  <1>8. DialogueInStep' /\ ReaderNotifiesOnce'
    <2>1. CASE t = "run"
      BY <1>1, <1>2, <1>3, <2>1, ClosingKeeps DEF IInv, DialogueInStep, ReaderNotifiesOnce, At, Before,
                                                  dialogue, reading
    <2>2. CASE t = "shutdown"
      BY <1>1, <1>2, <1>3, <2>2, ClosingKeeps DEF IInv, DialogueInStep, ReaderNotifiesOnce, At, Before,
                                                  dialogue, reading
    <2> QED
      BY <1>1, <2>1, <2>2
  <1>9. StepsOfFinish' /\ EvidenceIsComplete'
    <2>1. CASE t = "run"
      BY <1>1, <1>2, <1>3, <2>1, ClosingKeeps DEF IInv, StepsOfFinish, EvidenceIsComplete, Ending, Proved,
                                                  dialogue
    <2>2. CASE t = "shutdown"
      BY <1>1, <1>2, <1>3, <2>2, ClosingKeeps DEF IInv, StepsOfFinish, EvidenceIsComplete, Ending, Proved,
                                                  dialogue
    <2> QED
      BY <1>1, <2>1, <2>2
  <1> QED
    BY <1>5, <1>6, <1>7, <1>8, <1>9 DEF IInv

\* Every step of the handle's threads, of the Observer and of the other
\* executions keeps the inductive invariant.
THEOREM ObserverInvariant == Spec => []IInv
  <1>1. IInv /\ [Next]_vars => IInv'
    <2> SUFFICES ASSUME IInv, [Next]_vars PROVE IInv'
      OBVIOUS
    <2>1. CASE UNCHANGED vars
      <3>1. Script' = Script /\ Awaits' = Awaits /\ QueueMax' = QueueMax
        BY <2>1, SameKind DEF vars, plugin
      <3> QED
        BY <2>1, <3>1 DEF vars, state, dialogue, reading, evidence, plugin, observer, IInv, TypeOK,
            HandleHoldsItsLocks, ChildrenAreGone, DialogueInStep, ReaderNotifiesOnce, StepsOfFinish,
            EvidenceIsComplete, At
    <2>2. CASE Next
      BY <2>2, StartSteps, DialogueSteps, ConcludeSteps, PluginCloseStep, ClosingSteps, ObserverSteps,
         EnvironmentSteps DEF Next, Environment
    <2> QED
      BY <2>1, <2>2
  <1> QED
    BY InitIInv, <1>1, PTL DEF Spec

\* The variables of a handle keep their types: the message queue stays within
\* its bound, the dialogue within its script, and on_failure is called at most once.
THEOREM ObserverTypes == Spec => []TypeOK
  <1>1. IInv => TypeOK
    BY DEF IInv
  <1> QED
    BY ObserverInvariant, <1>1, PTL

\* While the daemon is not shutting down, a live Observer, a running verifier
\* and the end of finish are covered by the host lock, on every error path.
THEOREM LockCoversEveryRun == Spec => []LockCoversTheRun
  <1>1. IInv => LockCoversTheRun
    <2> SUFFICES ASSUME IInv, Working, ~closed PROVE flock = "self"
      BY DEF LockCoversTheRun
    <2>1. pc["run"] \notin {"idle", "slot", "done"}
      BY DEF Working, IInv, ChildrenAreGone, Before
    <2> QED
      BY <2>1 DEF IInv, HandleHoldsItsLocks
  <1> QED
    BY ObserverInvariant, <1>1, PTL

\* A receipt and a deletion rest on the whole dialogue, the Observer's own exit
\* and the verified transcript, whatever failures and shutdowns came between.
THEOREM EvidenceRestsOnProof == Spec => []EvidenceIsComplete
  <1>1. IInv => EvidenceIsComplete
    BY DEF IInv
  <1> QED
    BY ObserverInvariant, <1>1, PTL

\* The end of a handle leaves the slot and the host lock of others alone: both
\* closers call _retire, and only the first finds them its own.
THEOREM OthersAreLeftAlone == Spec => OthersKeepTheirLocks
  <1> DEFINE Kept == /\ flock = "other" /\ flock' # "other" => pc' = pc
                     /\ slot = "other" /\ slot' # "other" => pc' = pc
  <1>1. IInv /\ [Next]_vars => [Kept]_vars
    <2> SUFFICES ASSUME IInv, Next PROVE Kept
      OBVIOUS
    <2> USE DEF plugin
    <2>1. CASE Start
      <3>1. ASSUME spawn_fails PROVE slot = "self" /\ flock = "self"
        BY <3>1 DEF spawn_fails, Run, At, IInv, HandleHoldsItsLocks, Before
      <3>2. ASSUME host_lock_times_out PROVE slot = "self" /\ flock' = flock
        BY <3>2 DEF host_lock_times_out, Run, At, IInv, HandleHoldsItsLocks
      <3> QED
        BY <2>1, <3>1, <3>2 DEF Start, take_slot, refuse_slot, take_host_lock, spawn_observer
    <2>2. CASE Dialogue \/ finish \/ abandon \/ Conclude
      BY <2>2 DEF Dialogue, finish, abandon, Conclude, receive, receive_times_out, refuse, accept_ready,
          agent_started, accept_agent_started, send, send_fails, accept_snapshot, accept_finished,
          require_observer_exit, observer_exit_fails, validate_terminal_artifacts, finish_step_fails,
          run_verifier, verifier_fails, cleanup, cleanup_fails, write_receipt, finished, set_failed,
          finishing
    <2>3. ASSUME NEW t \in Threads, Closing(t) PROVE Kept
      <3>1. UNCHANGED plugin \/ Retire
        BY <2>3, ClosingMoves
      <3>2. retired => UNCHANGED <<slot, flock>>
        BY <3>1 DEF Retire
      <3> QED
        BY <2>3, <3>2, RetireFreesItsOwn
    <2>4. CASE plugin_close \/ Reader \/ Environment
      BY <2>4 DEF plugin_close, Reader, read_eof, on_failure, Environment, observer_answers,
          observer_exits, observer_misbehaves, other_starts, other_ends
    <2> QED
      BY <2>1, <2>2, <2>3, <2>4 DEF Next
  <1> QED
    BY ObserverInvariant, <1>1, PTL DEF Spec, OthersKeepTheirLocks
=============================================================================
