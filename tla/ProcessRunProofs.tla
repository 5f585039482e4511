--------------------------- MODULE ProcessRunProofs ---------------------------
(***************************************************************************)
(* The safety of process runs, for any number of runs and crashes, with or *)
(* without lifecycle features and failures.                                *)
(***************************************************************************)
EXTENDS ProcessRun, TLAPS

LEMMA InitIInv == Init => IInv
  <1> SUFFICES ASSUME Init PROVE IInv
    OBVIOUS
  <1> USE MarkersAssumption DEF Init
  <1>1. TypeOK
    <2>1. New \in RunState
      BY DEF New, NewRow, Row, RunState
    <2>2. {backend_error, closed, reset} \subseteq BOOLEAN
      OBVIOUS
    <2> QED
      BY <2>1, <2>2, CrashesAssumption DEF TypeOK
  <1>2. \A r \in Runs : run[r].pc = "new" /\ ~run[r].ok /\ run[r].row.state = "starting"
    BY DEF New, NewRow
  <1>3. LocksAreOwned
    BY <1>2 DEF LocksAreOwned, Starting, Failing, Drained
  <1>4. \A r \in Runs : RunIsCovered(r)
    BY <1>2 DEF RunIsCovered, Active, At, Registered, Starting, Failing, Watching
  <1>5. LiveMeansLeased /\ SessionIsGuarded /\ FenceIsRecorded /\ KillHitsOwnRun
    BY DEF LiveMeansLeased, SessionIsGuarded, FenceIsRecorded, KillHitsOwnRun, Fenced
  <1> QED
    BY <1>1, <1>3, <1>4, <1>5 DEF IInv

\* An active run has the Session to itself: nobody else is active, the
\* processes are its own, only a rollback of a completed reset can be under
\* way, and no fence of an earlier run is in force.
LEMMA ActiveIsAlone ==
  ASSUME IInv, NEW r \in Runs, Active(r)
  PROVE  /\ lease = r
         /\ \A g \in Runs : Active(g) => g = r
         /\ procs \subseteq {r}
         /\ ~Fenced /\ mutating \cap Drained = {}
         /\ \A g \in fenced : g # r /\ At(g, "gone") /\ g \in unsaved
  <1> USE MarkersAssumption
  <1>1. lease = r
    BY DEF IInv, RunIsCovered
  <1>2. \A g \in Runs : Active(g) => g = r
    BY <1>1 DEF IInv, RunIsCovered
  <1>3. procs \subseteq {r}
    BY <1>1 DEF IInv, LiveMeansLeased
  <1>4. ~Fenced /\ mutating \cap Drained = {}
    BY <1>1 DEF IInv, SessionIsGuarded
  <1>5. ASSUME NEW g \in fenced PROVE g # r /\ At(g, "gone") /\ g \in unsaved
    <2>1. g \in Runs /\ run[g].pc \in Ended
      BY DEF IInv, TypeOK, FenceIsRecorded
    <2>2. ~Active(g)
      BY <2>1 DEF Active, Ended, Starting, Watching, Failing
    <2>3. At(g, "done") => lease = g
      BY DEF IInv, FenceIsRecorded
    <2>4. g \notin unsaved => (At(g, "gone") => lease = Recovered)
      BY DEF IInv, FenceIsRecorded
    <2> QED
      BY <1>1, <2>1, <2>2, <2>3, <2>4 DEF At, Ended
  <1> QED
    BY <1>1, <1>2, <1>3, <1>4, <1>5

\* A step of an active run leaves the fences of the runs before it behind.
LEMMA FencesStay ==
  ASSUME IInv, NEW r \in Runs, Active(r),
         fenced' \subseteq fenced \cup {r}, unsaved \subseteq unsaved',
         \A g \in Runs \ {r} : run'[g] = run[g],
         r \in fenced' => /\ run'[r].pc = "done" /\ lease' = r
                          /\ r \notin unsaved' => OpenRow(disk'[r])
  PROVE  FenceIsRecorded'
  <1>1. ASSUME NEW g \in fenced', g # r
        PROVE  run'[g].pc = "gone" /\ g \in unsaved'
    <2>1. g \in fenced /\ At(g, "gone") /\ g \in unsaved
      BY <1>1, ActiveIsAlone
    <2>2. g \in Runs
      BY <2>1 DEF IInv, TypeOK
    <2> QED
      BY <1>1, <2>1, <2>2 DEF At
  <1> QED
    BY <1>1 DEF FenceIsRecorded, At, Ended, OpenRow

\* One run moves, alone in the Session.
LEMMA OneRun ==
  ASSUME IInv, NEW r \in Runs, NEW q \in RunState, NEW d \in Row \cup {None},
         run' = [run EXCEPT ![r] = q], disk' = [disk EXCEPT ![r] = d],
         procs' \subseteq procs \cup {r},
         lease \in {r, None},
         RunIsCovered(r)'
  PROVE  /\ run' \in [Runs -> RunState] /\ disk' \in [Runs -> Row \cup {None}]
         /\ run'[r] = q /\ disk'[r] = d
         /\ \A g \in Runs \ {r} : run'[g] = run[g] /\ disk'[g] = disk[g] /\ ~Active(g)
         /\ \A g \in Runs : RunIsCovered(g)'
  <1>1. /\ run' \in [Runs -> RunState] /\ disk' \in [Runs -> Row \cup {None}]
        /\ run'[r] = q /\ disk'[r] = d
    BY DEF IInv, TypeOK
  <1>2. \A g \in Runs \ {r} : run'[g] = run[g] /\ disk'[g] = disk[g] /\ ~Active(g)
    BY MarkersAssumption DEF IInv, TypeOK, RunIsCovered
  <1>3. ASSUME NEW g \in Runs \ {r} PROVE RunIsCovered(g)'
    <2>1. RunIsCovered(g) /\ ~Active(g) /\ run'[g] = run[g] /\ disk'[g] = disk[g]
          /\ (g \in procs' => g \in procs)
      BY <1>2 DEF IInv
    <2>2. run[g].pc # "w_release"
      BY <2>1 DEF Active, Watching
    <2> QED
      BY <2>1, <2>2 DEF RunIsCovered, Active, At, OpenRow
  <1> QED
    BY <1>1, <1>2, <1>3

\* A run moves on and keeps its locks.
LEMMA Advance ==
  ASSUME IInv, NEW r \in Runs, NEW q \in RunState, NEW d \in Row \cup {None},
         run' = [run EXCEPT ![r] = q], disk' = [disk EXCEPT ![r] = d],
         Active(r),
         run[r].pc \in Starting \cup Failing <=> q.pc \in Starting \cup Failing,
         run[r].pc \in {"w_remove", "w_release"} <=> q.pc \in {"w_remove", "w_release"},
         procs' \subseteq procs \/ (procs' = {r} /\ run[r].pc \in Starting),
         UNCHANGED <<lease, threads, service, noted, fenced, misdirected>>,
         unsaved \subseteq unsaved' /\ unsaved' \subseteq Runs,
         RunIsCovered(r)'
  PROVE  IInv'
  <1>1. lease = r /\ procs \subseteq {r}
    BY ActiveIsAlone
  <1>2. /\ run' \in [Runs -> RunState] /\ disk' \in [Runs -> Row \cup {None}]
        /\ run'[r] = q
        /\ \A g \in Runs \ {r} : run'[g] = run[g]
        /\ \A g \in Runs : RunIsCovered(g)'
    BY <1>1, OneRun
  <1>3. TypeOK'
    BY <1>1, <1>2 DEF IInv, TypeOK, threads, service
  <1>4. LocksAreOwned'
    BY <1>2 DEF IInv, LocksAreOwned, threads, service
  <1>5. LiveMeansLeased' /\ KillHitsOwnRun'
    BY <1>1 DEF IInv, LiveMeansLeased, KillHitsOwnRun
  <1>6. SessionIsGuarded'
    <2>1. run[r].pc \in Starting => killer = None
      BY MarkersAssumption DEF IInv, LocksAreOwned
    <2> QED
      BY <1>1, <2>1 DEF IInv, SessionIsGuarded, Fenced, threads, service
  <1>7. FenceIsRecorded'
    <2>1. r \notin fenced
      BY ActiveIsAlone
    <2> QED
      BY <1>2, <2>1, FencesStay
  <1> QED
    BY <1>2, <1>3, <1>4, <1>5, <1>6, <1>7 DEF IInv

\* start() up to the resumption, and its failure path up to the last save.
LEMMA StartSteps ==
  ASSUME IInv, NEW r \in Runs,
         \/ register(r) \/ spawn(r) \/ attach(r) \/ seed(r) \/ start_execution(r)
         \/ commit_running(r) \/ start_raises(r) \/ fail_kill(r) \/ fail_finish(r)
  PROVE  IInv'
  <1>0. /\ run \in [Runs -> RunState] /\ disk \in [Runs -> Row \cup {None}]
        /\ run[r] \in RunState /\ disk[r] \in Row \cup {None} /\ RunIsCovered(r)
    BY DEF IInv, TypeOK
  <1>1. /\ run[r].pc \in Starting \cup Failing /\ run[r].pc # "f_save"
        /\ Active(r)
        /\ UNCHANGED <<lease, threads, service, notes>>
    BY DEF register, spawn, attach, seed, start_execution, commit_running, start_raises,
           fail_kill, fail_finish, At, Starting, Failing, notes, Active
  <1>2. /\ procs' \subseteq procs \/ (procs' = {r} /\ run[r].pc \in Starting)
        /\ run[r].pc # "spawned" => procs' \subseteq procs
    <2>1. CASE attach(r)
      BY <2>1 DEF attach, At, Starting
    <2>2. CASE fail_kill(r)
      BY <2>2 DEF fail_kill
    <2> QED
      BY <2>1, <2>2 DEF register, spawn, seed, start_execution, commit_running, start_raises,
                        fail_finish
  <1> DEFINE Moved(q, d) ==
        /\ run' = [run EXCEPT ![r] = q] /\ disk' = [disk EXCEPT ![r] = d]
        /\ q.pc \in (Starting \ {"acquired"}) \cup Failing
        /\ q.row.state \in {"starting", "running"}
        /\ q.pc \in Starting => run[r].pc \in Starting /\ ~q.ok
        /\ q.pc = "registered" => run[r].pc = "acquired"
        /\ q.pc = "spawned" => run[r].pc = "registered"
        /\ q.pc \in {"f_finish", "f_save"} /\ q.ok => r \notin procs'
        /\ ~(q.pc = "f_save" /\ q.ok) => OpenRow(d)
  <1>3. PICK q \in RunState, d \in Row \cup {None} : Moved(q, d)
    <2>1. run[r].pc # "acquired" => OpenRow(disk[r])
      BY <1>0, <1>1 DEF RunIsCovered, Registered, At
    <2>2. /\ run[r].pc \in Starting => ~run[r].ok
          /\ run[r].pc \in {"acquired", "registered"} => r \notin procs
          /\ run[r].row.state \in {"starting", "running"}
      BY <1>0, <1>1 DEF RunIsCovered, Registered, Starting, Failing
    <2>0. ASSUME Unspawned(r), disk' = disk, procs' = procs,
                 run[r].pc \in {"acquired", "registered"}
          PROVE  \E q \in RunState, d \in Row \cup {None} : Moved(q, d)
      <3> DEFINE q == [run[r] EXCEPT !.pc = "f_save", !.ok = TRUE]
      <3>1. q \in RunState
        BY <1>0 DEF RunState, Failing
      <3>2. q.pc = "f_save" /\ q.row = run[r].row /\ q.ok = TRUE
        BY <1>0 DEF RunState
      <3>3. run' = [run EXCEPT ![r] = q] /\ disk' = [disk EXCEPT ![r] = disk[r]]
        BY <1>0, <2>0 DEF Unspawned
      <3>4. Moved(q, disk[r])
        BY <2>0, <2>2, <3>2, <3>3 DEF Starting, Failing
      <3> QED
        BY <1>0, <3>1, <3>4
    <2>3. CASE register(r)
      <3> DEFINE q == [run[r] EXCEPT !.pc = "registered"]
      <3>1. q \in RunState /\ NewRow \in Row /\ OpenRow(NewRow)
        <4>1. q \in RunState
          BY <1>0 DEF RunState, Starting
        <4>2. NewRow \in Row /\ NewRow.state = "starting"
          BY DEF NewRow, Row
        <4> QED
          BY <4>1, <4>2, NoneAssumption DEF OpenRow
      <3>2. run[r].pc = "acquired" /\ run[r].row.state \in {"starting", "running"} /\ procs' = procs
        BY <2>2, <2>3 DEF register, At
      <3>3. CASE save_durable(r, NewRow) /\ Goto(r, "registered")
        <4>1. run' = [run EXCEPT ![r] = q] /\ disk' = [disk EXCEPT ![r] = NewRow]
          BY <1>0, <3>3 DEF Goto, save_durable
        <4>2. q.pc = "registered" /\ q.row = run[r].row /\ q.ok = run[r].ok
          BY <1>0 DEF RunState
        <4>3. Moved(q, NewRow)
          BY <2>2, <3>1, <3>2, <4>1, <4>2 DEF Starting
        <4> QED
          BY <3>1, <4>3
      <3>4. CASE UNCHANGED disk /\ Unspawned(r)
        BY <2>0, <3>2, <3>4
      <3> QED
        BY <2>3, <3>3, <3>4 DEF register
    <2>4. CASE spawn(r)
      <3> DEFINE q == [run[r] EXCEPT !.pc = "spawned"]
      <3>1. q \in RunState
        BY <1>0 DEF RunState, Starting
      <3>2. Moved(q, disk[r])
        BY <1>0, <2>1, <2>2, <2>4 DEF spawn, Goto, RunState, At, Starting
      <3> QED
        BY <1>0, <3>1, <3>2
    <2>5. CASE attach(r)
      <3> DEFINE q == [run[r] EXCEPT !.pc = "attached"]
      <3>1. q \in RunState
        BY <1>0 DEF RunState, Starting
      <3>2. Moved(q, disk[r])
        BY <1>0, <2>1, <2>2, <2>5 DEF attach, Goto, RunState, At, Starting
      <3> QED
        BY <1>0, <3>1, <3>2
    <2>6. CASE seed(r)
      <3> DEFINE q == [run[r] EXCEPT !.pc = "seeded", !.seeded = TRUE]
      <3>1. q \in RunState
        BY <1>0 DEF RunState, Starting
      <3>2. Moved(q, disk[r])
        BY <1>0, <2>1, <2>2, <2>6 DEF seed, RunState, At, Starting
      <3> QED
        BY <1>0, <3>1, <3>2
    <2>7. CASE start_execution(r)
      <3> DEFINE q == [run[r] EXCEPT !.pc = "observed",
                                     !.feature = IF Lifecycle THEN "active" ELSE "none"]
      <3>1. q \in RunState
        BY <1>0 DEF RunState, Starting
      <3>2. Moved(q, disk[r])
        BY <1>0, <2>1, <2>2, <2>7 DEF start_execution, RunState, At, Starting
      <3> QED
        BY <1>0, <3>1, <3>2
    <2>8. CASE commit_running(r)
      <3> DEFINE row == [run[r].row EXCEPT !.state = "running"]
      <3>1. /\ row \in Row /\ row.state = "running" /\ OpenRow(row)
        BY <1>0, NoneAssumption DEF RunState, Row, OpenRow
      <3>2. /\ run[r].pc = "observed"
            /\ \/ /\ run' = [run EXCEPT ![r].pc = "committed", ![r].row = row]
                  /\ disk' = [disk EXCEPT ![r] = row]
               \/ /\ run' = [run EXCEPT ![r].pc = "f_kill", ![r].row = row]
                  /\ disk' \in {disk, [disk EXCEPT ![r] = row]}
        BY <2>8 DEF commit_running, save_durable, save_raises, At
      <3> HIDE DEF row
      <3>3. PICK pc \in {"committed", "f_kill"} : run' = [run EXCEPT ![r].pc = pc, ![r].row = row]
        BY <3>2
      <3>4. PICK d \in {disk[r], row} : disk' = [disk EXCEPT ![r] = d]
        BY <1>0, <3>2
      <3>5. d \in Row \cup {None} /\ OpenRow(d)
        BY <1>0, <2>1, <3>1, <3>2
      <3> DEFINE q == [run[r] EXCEPT !.pc = pc, !.row = row]
      <3>6. q \in RunState /\ q.pc = pc /\ q.row = row /\ q.ok = run[r].ok
        BY <1>0, <3>1 DEF RunState, Starting, Failing
      <3>7. run' = [run EXCEPT ![r] = q]
        BY <1>0, <3>3
      <3>8. Moved(q, d)
        BY <2>2, <3>1, <3>2, <3>4, <3>5, <3>6, <3>7 DEF Starting, Failing
      <3> QED
        BY <3>5, <3>6, <3>8
    <2>9. CASE start_raises(r)
      <3>1. run[r].pc \in Starting \ {"acquired"} /\ disk' = disk /\ procs' = procs
        BY <2>9 DEF start_raises
      <3>2. CASE At(r, "registered")
        BY <2>0, <2>9, <3>1, <3>2 DEF start_raises, At
      <3>3. CASE ~At(r, "registered")
        <4> DEFINE q == [run[r] EXCEPT !.pc = "f_kill"]
        <4>1. q \in RunState
          BY <1>0 DEF RunState, Failing
        <4>2. run' = [run EXCEPT ![r] = q] /\ disk' = [disk EXCEPT ![r] = disk[r]]
          BY <1>0, <2>9, <3>1, <3>3 DEF start_raises, Goto
        <4>3. q.pc = "f_kill" /\ q.row = run[r].row
          BY <1>0 DEF RunState
        <4>4. Moved(q, disk[r])
          BY <2>1, <2>2, <3>1, <4>2, <4>3 DEF Starting, Failing
        <4> QED
          BY <1>0, <4>1, <4>4
      <3> QED
        BY <3>2, <3>3
    <2>10. CASE fail_kill(r)
      <3> DEFINE q == [run[r] EXCEPT !.pc = "f_finish", !.exited = TRUE, !.ok = r \notin procs']
      <3>1. q \in RunState
        BY <1>0 DEF RunState, Failing
      <3>2. Moved(q, disk[r])
        BY <1>0, <2>1, <2>2, <2>10 DEF fail_kill, RunState, At, Starting, Failing
      <3> QED
        BY <1>0, <3>1, <3>2
    <2>11. CASE fail_finish(r)
      <3>1. PICK safe \in BOOLEAN :
              /\ safe => run[r].ok
              /\ run' = [run EXCEPT ![r].pc = "f_save", ![r].ok = safe,
                                    ![r].feature = IF @ = "none" THEN @ ELSE "closed"]
        BY <2>11 DEF fail_finish
      <3> DEFINE q == [run[r] EXCEPT !.pc = "f_save", !.ok = safe,
                                     !.feature = IF @ = "none" THEN @ ELSE "closed"]
      <3>2. q \in RunState
        BY <1>0 DEF RunState, Failing
      <3>3. Moved(q, disk[r])
        BY <1>0, <2>1, <2>2, <2>11, <3>1 DEF fail_finish, RunState, RunIsCovered, At, Starting, Failing
      <3> QED
        BY <1>0, <3>2, <3>3
    <2> QED
      BY <2>3, <2>4, <2>5, <2>6, <2>7, <2>8, <2>9, <2>10, <2>11
  <1>4. run'[r] = q /\ disk'[r] = d
    BY <1>0, <1>3
  <1>5. RunIsCovered(r)'
    <2>1. lease' = r
      BY <1>1, ActiveIsAlone
    <2>2. run[r].pc \in {"acquired", "registered"} => r \notin procs'
      BY <1>0, <1>2 DEF RunIsCovered
    <2>3. r \in procs' => OpenRow(d)
      BY <1>3
    <2> QED
      BY <1>3, <1>4, <2>1, <2>2, <2>3
      DEF RunIsCovered, Active, At, Starting, Failing, Registered, OpenRow
  <1>6. /\ run[r].pc \in Starting \cup Failing <=> q.pc \in Starting \cup Failing
        /\ run[r].pc \in {"w_remove", "w_release"} <=> q.pc \in {"w_remove", "w_release"}
    BY <1>1, <1>3 DEF Starting, Failing
  <1>7. /\ UNCHANGED <<noted, fenced, misdirected>>
        /\ unsaved \subseteq unsaved' /\ unsaved' \subseteq Runs
    BY <1>1 DEF IInv, TypeOK, notes
  <1> QED
    BY <1>1, <1>2, <1>3, <1>5, <1>6, <1>7, Advance

\* The root process and the watcher, which keeps no lock before its last part.
LEMMA WatchSteps ==
  ASSUME IInv, NEW r \in Runs,
         \/ root_exit(r) \/ watch_exit(r) \/ watch_empty(r) \/ watch_finish(r)
         \/ watch_features(r) \/ watch_remove(r)
  PROVE  IInv'
  <1>0. /\ run \in [Runs -> RunState] /\ disk \in [Runs -> Row \cup {None}]
        /\ run[r] \in RunState /\ disk[r] \in Row \cup {None} /\ RunIsCovered(r)
    BY DEF IInv, TypeOK
  <1>1. /\ run[r].pc \in {"watch", "w_exited", "w_empty", "w_finish", "w_remove"}
        /\ procs' \subseteq procs
        /\ UNCHANGED <<lease, threads, service, noted, fenced, misdirected>>
    BY DEF notes, root_exit, watch_exit, watch_empty, watch_finish, watch_features, watch_remove, At
  <1>2. Active(r)
    BY <1>1 DEF Active, Watching
  <1>7. unsaved \subseteq unsaved' /\ unsaved' \subseteq Runs
    <2>1. unsaved \subseteq Runs
      BY DEF IInv, TypeOK
    <2>2. CASE watch_remove(r)
      BY <2>1, <2>2 DEF watch_remove, Unsaved
    <2> QED
      BY <2>1, <2>2 DEF root_exit, watch_exit, watch_empty, watch_finish, watch_features, notes
  <1> DEFINE Moved(q, d) ==
        /\ run' = [run EXCEPT ![r] = q] /\ disk' = [disk EXCEPT ![r] = d]
        /\ q.pc \in {"watch", "w_exited", "w_empty", "w_finish", "w_save", "w_release"}
        /\ q.pc # "w_release" =>
             run[r].pc # "w_remove" /\ d = disk[r] /\ q.row = run[r].row
        /\ q.pc \in {"watch", "w_exited", "w_empty", "w_finish"} => ~q.ok
        /\ q.pc \in {"w_empty", "w_finish"} => r \notin procs
        /\ q.ok => r \notin procs
        /\ q.pc = "w_release" =>
             /\ r \notin procs /\ run[r].pc = "w_remove"
             /\ q.row.fenced <=> ~q.ok
             /\ ~q.ok /\ r \notin unsaved' => OpenRow(d)
  <1>3. PICK q \in RunState, d \in Row \cup {None} : Moved(q, d)
    <2>1. /\ run[r].pc \in {"watch", "w_exited", "w_empty", "w_finish"} => ~run[r].ok
          /\ run[r].pc \in {"w_empty", "w_finish", "w_remove"} => r \notin procs
      BY <1>0 DEF RunIsCovered
    <2>2. ASSUME root_exit(r) \/ watch_exit(r) PROVE \E q \in RunState, d \in Row \cup {None} : Moved(q, d)
      <3>1. PICK pc \in {"watch", "w_exited"} :
              run' = [run EXCEPT ![r].pc = pc, ![r].exited = TRUE]
        <4>1. run[r].pc = "watch" => run[r] = [run[r] EXCEPT !.pc = "watch"]
          BY <1>0 DEF RunState
        <4>2. CASE root_exit(r)
          BY <1>0, <4>1, <4>2 DEF root_exit
        <4>3. CASE watch_exit(r)
          BY <4>3 DEF watch_exit
        <4> QED
          BY <2>2, <4>2, <4>3
      <3> DEFINE q == [run[r] EXCEPT !.pc = pc, !.exited = TRUE]
      <3>2. q \in RunState
        BY <1>0 DEF RunState, Watching
      <3>3. run[r].pc = "watch" /\ disk' = disk
        BY <2>2 DEF root_exit, watch_exit, At
      <3>4. Moved(q, disk[r])
        BY <1>0, <2>1, <3>1, <3>3 DEF RunState
      <3> QED
        BY <1>0, <3>2, <3>4
    <2>3. CASE watch_empty(r)
      <3>1. PICK pc \in {"w_empty", "w_save"} :
              /\ run' = [run EXCEPT ![r].pc = pc] /\ run[r].pc = "w_exited" /\ disk' = disk
              /\ pc = "w_empty" => r \notin procs
        BY <2>3 DEF watch_empty, wait_empty, Goto, At
      <3> DEFINE q == [run[r] EXCEPT !.pc = pc]
      <3>2. q \in RunState
        BY <1>0 DEF RunState, Watching
      <3>3. Moved(q, disk[r])
        BY <1>0, <2>1, <3>1 DEF RunState
      <3> QED
        BY <1>0, <3>2, <3>3
    <2>4. CASE watch_finish(r)
      <3>1. PICK pc \in {"w_finish", "w_save"}, f \in {"none", "active", "failed", "finishing", "closed"} :
              run' = [run EXCEPT ![r].pc = pc, ![r].feature = f]
        BY <1>0, <2>4 DEF watch_finish, RunState
      <3>2. run[r].pc = "w_empty" /\ disk' = disk
        BY <2>4 DEF watch_finish, At
      <3> DEFINE q == [run[r] EXCEPT !.pc = pc, !.feature = f]
      <3>3. q \in RunState
        BY <1>0 DEF RunState, Watching
      <3>4. Moved(q, disk[r])
        BY <1>0, <2>1, <3>1, <3>2 DEF RunState
      <3> QED
        BY <1>0, <3>3, <3>4
    <2>5. CASE watch_features(r)
      <3>1. PICK good \in BOOLEAN, f \in {"none", "active", "failed", "finishing", "closed"} :
              run' = [run EXCEPT ![r].pc = "w_save", ![r].ok = good, ![r].feature = f]
        BY <1>0, <2>5 DEF watch_features, RunState
      <3>2. run[r].pc = "w_finish" /\ disk' = disk
        BY <2>5 DEF watch_features, At
      <3> DEFINE q == [run[r] EXCEPT !.pc = "w_save", !.ok = good, !.feature = f]
      <3>3. q \in RunState
        BY <1>0 DEF RunState, Watching
      <3>4. Moved(q, disk[r])
        BY <1>0, <2>1, <3>1, <3>2 DEF RunState
      <3> QED
        BY <1>0, <3>3, <3>4
    <2>6. CASE watch_remove(r)
      <3>1. PICK good \in BOOLEAN, removed \in BOOLEAN :
              /\ run' = [run EXCEPT ![r].pc = "w_release", ![r].ok = good,
                                    ![r].row = FinalRow(r, good)]
              /\ \/ disk' = [disk EXCEPT ![r] = FinalRow(r, removed)] /\ good = removed
                 \/ r \in unsaved' /\ disk' \in {disk, [disk EXCEPT ![r] = FinalRow(r, removed)]}
        <4>1. PICK removed \in BOOLEAN :
                \/ /\ run' = [run EXCEPT ![r].pc = "w_release", ![r].ok = removed,
                                         ![r].row = FinalRow(r, removed)]
                   /\ disk' = [disk EXCEPT ![r] = FinalRow(r, removed)]
                \/ /\ run' = [run EXCEPT ![r].pc = "w_release", ![r].ok = FALSE,
                                         ![r].row = FinalRow(r, FALSE)]
                   /\ r \in unsaved'
                   /\ disk' \in {disk, [disk EXCEPT ![r] = FinalRow(r, removed)]}
          BY <2>6 DEF watch_remove, save_durable, save_raises, Unsaved, remove_cgroup
        <4> QED
          BY <4>1
      <3> DEFINE q == [run[r] EXCEPT !.pc = "w_release", !.ok = good, !.row = FinalRow(r, good)]
      <3>2. \A b \in BOOLEAN : FinalRow(r, b) \in Row /\ (FinalRow(r, b).fenced <=> ~b)
        BY DEF FinalRow, Row
      <3>3. q \in RunState
        BY <1>0, <3>2 DEF RunState, Watching
      <3>4. run' = [run EXCEPT ![r] = q] /\ run'[r] = q
        BY <1>0, <3>1 DEF RunState
      <3>5. PICK d \in Row \cup {None} :
              disk' = [disk EXCEPT ![r] = d] /\ (d = FinalRow(r, good) \/ r \in unsaved')
        BY <1>0, <3>1, <3>2
      <3>6. q.pc = "w_release" /\ q.row = FinalRow(r, good) /\ q.ok = good
        BY <1>0 DEF RunState
      <3>7. ~q.ok /\ r \notin unsaved' => OpenRow(d)
        BY <3>2, <3>5, <3>6, NoneAssumption DEF OpenRow
      <3>8. Moved(q, d)
        BY <2>1, <2>6, <3>2, <3>4, <3>5, <3>6, <3>7 DEF watch_remove, At
      <3> QED
        BY <3>3, <3>5, <3>8
    <2> QED
      BY <2>2, <2>3, <2>4, <2>5, <2>6
  <1>4. run'[r] = q /\ disk'[r] = d
    BY <1>0, <1>3
  <1>5. RunIsCovered(r)'
    <2>1. lease' = r
      BY <1>1, <1>2, ActiveIsAlone
    <2>2. run[r].pc # "w_remove" =>
            run[r].row.state \in {"starting", "running"} /\ OpenRow(disk[r])
      BY <1>0, <1>1 DEF RunIsCovered, Registered, At
    <2>3. r \in procs => OpenRow(d)
      BY <1>0, <1>3 DEF RunIsCovered
    <2> QED
      BY <1>1, <1>3, <1>4, <2>1, <2>2, <2>3
      DEF RunIsCovered, Active, At, Starting, Failing, Registered, OpenRow
  <1>6. /\ run[r].pc \in Starting \cup Failing <=> q.pc \in Starting \cup Failing
        /\ run[r].pc \in {"w_remove", "w_release"} <=> q.pc \in {"w_remove", "w_release"}
    BY <1>1, <1>3 DEF Starting, Failing
  <1> QED
    BY <1>1, <1>2, <1>3, <1>5, <1>6, <1>7, Advance

\* A run that takes or drops a lock, or gives its lease back: the parts of
\* the invariant beyond the run itself.
LEMMA AcquireStep ==
  ASSUME IInv, NEW r \in Runs, acquire_lease(r)
  PROVE  IInv'
  <1> USE MarkersAssumption
  <1>0. /\ run \in [Runs -> RunState] /\ disk \in [Runs -> Row \cup {None}]
        /\ run[r] \in RunState /\ disk[r] \in Row \cup {None} /\ RunIsCovered(r)
    BY DEF IInv, TypeOK
  <1>1. /\ run[r].pc = "new" /\ lease = None /\ ~Fenced /\ launch = None
        /\ lease' = r /\ launch' = r /\ run' = [run EXCEPT ![r].pc = "acquired"]
        /\ UNCHANGED <<disk, procs, lock, killer, terminations, callbacks, killing, service, notes>>
    BY DEF acquire_lease, At, Goto
  <1> DEFINE q == [run[r] EXCEPT !.pc = "acquired"]
  <1>2. /\ q \in RunState /\ q.pc = "acquired" /\ q.row = run[r].row /\ q.ok = run[r].ok
        /\ run' = [run EXCEPT ![r] = q] /\ disk' = [disk EXCEPT ![r] = disk[r]]
        /\ run'[r] = q
    BY <1>0, <1>1 DEF RunState, Starting
  <1> HIDE DEF q
  <1>3. procs = {}
    BY <1>1 DEF IInv, LiveMeansLeased, TypeOK
  <1>4. RunIsCovered(r)'
    BY <1>0, <1>1, <1>2, <1>3 DEF RunIsCovered, Active, At, Registered, Starting, Failing
  <1>5. /\ run' \in [Runs -> RunState]
        /\ \A g \in Runs \ {r} : run'[g] = run[g] /\ ~Active(g)
        /\ \A g \in Runs : RunIsCovered(g)'
    BY <1>0, <1>1, <1>2, <1>4, OneRun
  <1>6. TypeOK'
    BY <1>1, <1>5 DEF IInv, TypeOK, service, notes
  <1>7. LocksAreOwned'
    BY <1>1, <1>2, <1>5 DEF IInv, LocksAreOwned, service, Starting, Failing
  <1>8. LiveMeansLeased' /\ KillHitsOwnRun'
    BY <1>1, <1>3 DEF IInv, LiveMeansLeased, KillHitsOwnRun, notes
  <1>10. SessionIsGuarded'
    <2>1. mutating \cap Drained = {}
      BY <1>1 DEF IInv, LocksAreOwned
    <2> QED
      BY <1>1, <1>3, <2>1 DEF IInv, SessionIsGuarded, Fenced, service
  <1>9. FenceIsRecorded'
    <2>1. ASSUME NEW g \in fenced PROVE g \in Runs \ {r} /\ At(g, "gone") /\ g \in unsaved
      <3>1. g \in Runs /\ run[g].pc \in Ended
        BY DEF IInv, TypeOK, FenceIsRecorded
      <3>2. At(g, "done") => lease = g
        BY DEF IInv, FenceIsRecorded
      <3>3. g \notin unsaved => (At(g, "gone") => lease = Recovered)
        BY DEF IInv, FenceIsRecorded
      <3> QED
        BY <1>1, <3>1, <3>2, <3>3 DEF At, Ended
    <2> QED
      BY <1>1, <1>5, <2>1 DEF FenceIsRecorded, At, Ended, OpenRow, notes
  <1> QED
    BY <1>5, <1>6, <1>7, <1>8, <1>9, <1>10 DEF IInv

\* start() ends: refused, failed, or the run is handed to its watcher.
LEMMA LaunchEnds ==
  ASSUME IInv, NEW r \in Runs, start_refused(r) \/ resume(r) \/ fail_save(r)
  PROVE  IInv'
  <1> USE MarkersAssumption
  <1>0. /\ run \in [Runs -> RunState] /\ disk \in [Runs -> Row \cup {None}]
        /\ run[r] \in RunState /\ disk[r] \in Row \cup {None} /\ RunIsCovered(r)
    BY DEF IInv, TypeOK
  <1>1. /\ run[r].pc \in {"acquired", "committed", "f_save"} /\ Active(r)
        /\ launch' = None
        /\ UNCHANGED <<procs, lock, killer, terminations, callbacks, killing, service,
                       noted, misdirected>>
    BY DEF start_refused, resume, fail_save, At, Active, Starting, Failing, notes
  <1>2. /\ lease = r /\ procs \subseteq {r} /\ ~Fenced /\ mutating \cap Drained = {}
        /\ r \notin fenced
        /\ unsaved \subseteq Runs /\ fenced \subseteq Runs
    BY <1>1, ActiveIsAlone DEF IInv, TypeOK
  <1> DEFINE Moved(q, d) ==
        /\ run' = [run EXCEPT ![r] = q] /\ disk' = [disk EXCEPT ![r] = d]
        /\ \/ /\ q.pc = "watch" /\ q.row = run[r].row /\ ~q.ok /\ d = disk[r]
              /\ run[r].pc = "committed" /\ lease' = lease /\ fenced' = fenced
           \/ /\ q.pc = "done" /\ lease' \in {lease, None}
              /\ lease' = None => r \notin procs
              /\ r \in fenced' => lease' = r /\ (r \notin unsaved' => OpenRow(d))
              /\ r \in procs => OpenRow(d)
        /\ fenced' \subseteq fenced \cup {r}
        /\ unsaved \subseteq unsaved' /\ unsaved' \subseteq unsaved \cup {r}
  <1>3. PICK q \in RunState, d \in Row \cup {None} : Moved(q, d)
    <2>2. CASE start_refused(r)
      <3> DEFINE q == [run[r] EXCEPT !.pc = "done"]
      <3>1. q \in RunState /\ q.pc = "done"
        BY <1>0 DEF RunState, Ended
      <3>2. /\ run' = [run EXCEPT ![r] = q] /\ disk' = [disk EXCEPT ![r] = disk[r]]
            /\ lease' = None /\ fenced' = fenced /\ unsaved' = unsaved /\ r \notin procs
        BY <1>0, <2>2 DEF start_refused, Goto, At, notes, RunIsCovered
      <3>3. Moved(q, disk[r])
        BY <1>2, <3>1, <3>2
      <3> QED
        BY <1>0, <3>1, <3>3
    <2>3. CASE resume(r)
      <3> DEFINE q == [run[r] EXCEPT !.pc = "watch"]
      <3>1. q \in RunState /\ q.pc = "watch" /\ q.row = run[r].row /\ q.ok = run[r].ok
        BY <1>0 DEF RunState, Watching
      <3>2. /\ run' = [run EXCEPT ![r] = q] /\ disk' = [disk EXCEPT ![r] = disk[r]]
            /\ lease' = lease /\ fenced' = fenced /\ unsaved' = unsaved
            /\ run[r].pc = "committed" /\ ~run[r].ok
        BY <1>0, <2>3 DEF resume, Goto, At, notes, RunIsCovered, Starting
      <3>3. Moved(q, disk[r])
        BY <3>1, <3>2
      <3> QED
        BY <1>0, <3>1, <3>3
    <2>4. CASE fail_save(r)
      <3> DEFINE row == [state |-> "failed", fenced |-> ~run[r].ok]
                 fencedRow == [row EXCEPT !.fenced = TRUE]
      <3>1. /\ run[r].ok \in BOOLEAN /\ run[r].pc = "f_save"
            /\ run[r].ok => r \notin procs
            /\ ~run[r].ok => OpenRow(disk[r])
        BY <1>0, <2>4 DEF RunState, fail_save, At, RunIsCovered, Registered, Failing
      <3>2. /\ row \in Row /\ fencedRow \in Row /\ fencedRow.fenced
            /\ row.fenced <=> ~run[r].ok
        BY <3>1 DEF Row
      <3>3. /\ \/ /\ run' = [run EXCEPT ![r].pc = "done", ![r].row = row]
                  /\ disk' = [disk EXCEPT ![r] = row]
                  /\ lease' = IF run[r].ok THEN None ELSE lease
                  /\ unsaved' = unsaved
               \/ /\ run' = [run EXCEPT ![r].pc = "done", ![r].row = fencedRow]
                  /\ disk' \in {disk, [disk EXCEPT ![r] = row]}
                  /\ unsaved' = IF run[r].ok THEN unsaved \cup {r} ELSE unsaved
                  /\ lease' = lease
            /\ fenced' = IF run'[r].row.fenced THEN fenced \cup {r} ELSE fenced
        BY <2>4 DEF fail_save, save_durable, save_raises, Unsaved, EndedFenced
      <3> HIDE DEF row, fencedRow
      <3>4. ~run[r].ok => OpenRow(row)
        BY <3>2, NoneAssumption DEF OpenRow
      <3>5. ASSUME NEW w \in Row, run' = [run EXCEPT ![r].pc = "done", ![r].row = w]
            PROVE  \E q \in RunState : /\ run' = [run EXCEPT ![r] = q] /\ q.pc = "done"
                                       /\ run'[r].row = w
        <4> DEFINE q == [run[r] EXCEPT !.pc = "done", !.row = w]
        <4>1. q \in RunState /\ q.pc = "done" /\ q.row = w
          BY <1>0, <3>5 DEF RunState, Ended
        <4>2. run' = [run EXCEPT ![r] = q]
          BY <1>0, <3>5
        <4>3. run'[r] = q
          BY <1>0, <4>2
        <4> HIDE DEF q
        <4> QED
          BY <4>1, <4>2, <4>3
      <3>6. CASE /\ run' = [run EXCEPT ![r].pc = "done", ![r].row = row]
                 /\ disk' = [disk EXCEPT ![r] = row]
                 /\ lease' = IF run[r].ok THEN None ELSE lease
                 /\ unsaved' = unsaved
        <4>1. PICK q \in RunState :
                run' = [run EXCEPT ![r] = q] /\ q.pc = "done" /\ run'[r].row = row
          BY <3>2, <3>5, <3>6
        <4>2. fenced' \subseteq fenced \cup {r} /\ (r \in fenced' => ~run[r].ok)
          BY <1>2, <3>2, <3>3, <4>1
        <4>3. Moved(q, row)
          BY <1>2, <3>1, <3>4, <3>6, <4>1, <4>2
        <4> QED
          BY <3>2, <4>3
      <3>7. CASE /\ run' = [run EXCEPT ![r].pc = "done", ![r].row = fencedRow]
                 /\ disk' \in {disk, [disk EXCEPT ![r] = row]}
                 /\ unsaved' = IF run[r].ok THEN unsaved \cup {r} ELSE unsaved
                 /\ lease' = lease
        <4>1. PICK q \in RunState :
                run' = [run EXCEPT ![r] = q] /\ q.pc = "done" /\ run'[r].row = fencedRow
          BY <3>2, <3>5, <3>7
        <4>2. fenced' \subseteq fenced \cup {r}
          BY <3>3
        <4>3. PICK d \in {disk[r], row} : disk' = [disk EXCEPT ![r] = d]
          BY <1>0, <3>7
        <4>4. d \in Row \cup {None} /\ (~run[r].ok => OpenRow(d))
          BY <1>0, <3>1, <3>2, <3>4
        <4>5. Moved(q, d)
          BY <1>2, <3>1, <3>7, <4>1, <4>2, <4>3, <4>4
        <4> QED
          BY <4>4, <4>5
      <3> QED
        BY <3>3, <3>6, <3>7
    <2> QED
      BY <2>2, <2>3, <2>4
  <1>4. run'[r] = q /\ disk'[r] = d
    BY <1>0, <1>3
  <1>5. RunIsCovered(r)'
    <2>1. CASE q.pc = "watch"
      BY <1>0, <1>1, <1>2, <1>3, <1>4, <2>1
      DEF RunIsCovered, Active, At, OpenRow, Registered, Starting, Failing, Watching
    <2>2. CASE q.pc = "done"
      BY <1>1, <1>3, <1>4, <2>2
      DEF RunIsCovered, Active, At, OpenRow, Registered, Starting, Failing, Watching
    <2> QED
      BY <1>3, <2>1, <2>2
  <1>6. /\ run' \in [Runs -> RunState] /\ disk' \in [Runs -> Row \cup {None}]
        /\ \A g \in Runs \ {r} : run'[g] = run[g] /\ ~Active(g)
        /\ \A g \in Runs : RunIsCovered(g)'
    BY <1>1, <1>2, <1>3, <1>5, OneRun
  <1>7. launch = r /\ killer = None
    BY <1>1 DEF IInv, LocksAreOwned, Starting, Failing
  <1>8. TypeOK'
    <2>1. {backend_error', closed', reset'} \subseteq BOOLEAN
      BY <1>1 DEF IInv, TypeOK, service
    <2>2. fenced' \subseteq Runs /\ unsaved' \subseteq Runs
      BY <1>2, <1>3
    <2> QED
      BY <1>1, <1>2, <1>3, <1>6, <2>1, <2>2 DEF IInv, TypeOK, service
  <1>9. LocksAreOwned'
    BY <1>1, <1>2, <1>3, <1>4, <1>6, <1>7 DEF IInv, LocksAreOwned, service, Starting, Failing
  <1>10. LiveMeansLeased' /\ KillHitsOwnRun'
    BY <1>1, <1>2, <1>3 DEF IInv, LiveMeansLeased, KillHitsOwnRun
  <1>11. SessionIsGuarded'
    BY <1>1, <1>2, <1>7 DEF SessionIsGuarded, Fenced, service
  <1>12. FenceIsRecorded'
    <2>1. r \in fenced' => /\ run'[r].pc = "done" /\ lease' = r
                           /\ r \notin unsaved' => OpenRow(disk'[r])
      BY <1>2, <1>3, <1>4
    <2> QED
      BY <1>1, <1>3, <1>6, <2>1, FencesStay
  <1> QED
    BY <1>6, <1>8, <1>9, <1>10, <1>11, <1>12 DEF IInv

\* The watcher saves the final row, and keeps _lock.
LEMMA WatchSaveStep ==
  ASSUME IInv, NEW r \in Runs, watch_save(r)
  PROVE  IInv'
  <1> USE MarkersAssumption
  <1>0. /\ run \in [Runs -> RunState] /\ disk \in [Runs -> Row \cup {None}]
        /\ run[r] \in RunState /\ disk[r] \in Row \cup {None} /\ RunIsCovered(r)
    BY DEF IInv, TypeOK
  <1>1. /\ run[r].pc = "w_save" /\ Active(r) /\ lock = None /\ lock' = r
        /\ UNCHANGED <<procs, lease, launch, killer, terminations, callbacks, killing,
                       service, noted, fenced, misdirected>>
    BY DEF watch_save, At, Active, Watching
  <1>2. /\ lease = r /\ procs \subseteq {r} /\ ~Fenced /\ mutating \cap Drained = {}
        /\ r \notin fenced
    BY <1>1, ActiveIsAlone
  <1>3. PICK was \in BOOLEAN, good \in BOOLEAN, pc \in {"w_remove", "w_release"} :
          /\ run' = [run EXCEPT ![r].pc = pc, ![r].ok = good, ![r].row = FinalRow(r, good)]
          /\ disk' \in {disk, [disk EXCEPT ![r] = FinalRow(r, was)]}
          /\ unsaved' \in {unsaved, unsaved \cup {r}}
          /\ was => run[r].ok
          /\ good => was
          /\ ~good /\ r \notin unsaved' => ~was
          /\ good <=> pc = "w_remove"
    <2> DEFINE was == run[r].ok /\ ~backend_error
    <2>1. \/ /\ run' = [run EXCEPT ![r].pc = IF was THEN "w_remove" ELSE "w_release",
                                   ![r].ok = was, ![r].row = FinalRow(r, was)]
             /\ disk' = [disk EXCEPT ![r] = FinalRow(r, was)]
             /\ unsaved' = unsaved
          \/ /\ run' = [run EXCEPT ![r].pc = "w_release", ![r].ok = FALSE,
                                   ![r].row = FinalRow(r, FALSE)]
             /\ disk' \in {disk, [disk EXCEPT ![r] = FinalRow(r, was)]}
             /\ unsaved' = IF was THEN unsaved \cup {r} ELSE unsaved
      BY DEF watch_save, save_durable, save_raises, Unsaved
    <2>2. was \in BOOLEAN /\ (was => run[r].ok)
      OBVIOUS
    <2> HIDE DEF was
    <2> QED
      BY <2>1, <2>2
  <1> DEFINE q == [run[r] EXCEPT !.pc = pc, !.ok = good, !.row = FinalRow(r, good)]
  <1>4. \A b \in BOOLEAN : FinalRow(r, b) \in Row /\ (FinalRow(r, b).fenced <=> ~b)
    BY DEF FinalRow, Row
  <1>5. /\ q \in RunState /\ q.pc = pc /\ q.ok = good /\ q.row = FinalRow(r, good)
        /\ run' = [run EXCEPT ![r] = q] /\ run'[r] = q
    BY <1>0, <1>3, <1>4 DEF RunState, Watching
  <1> HIDE DEF q
  <1>6. PICK d \in {disk[r], FinalRow(r, was)} : disk' = [disk EXCEPT ![r] = d]
    BY <1>0, <1>3
  <1>7. disk'[r] = d /\ d \in Row \cup {None}
    BY <1>0, <1>4, <1>6
  <1>8. /\ was => r \notin procs
        /\ r \in procs => OpenRow(disk[r])
        /\ OpenRow(disk[r])
    BY <1>0, <1>1, <1>3 DEF RunIsCovered, Registered, At
  <1>9. ~was => OpenRow(d)
    BY <1>4, <1>6, <1>8, NoneAssumption DEF OpenRow
  <1>11. RunIsCovered(r)'
    <2>1. /\ ~good /\ r \notin unsaved' => OpenRow(d)
          /\ r \in procs' => OpenRow(d)
          /\ good => r \notin procs'
      BY <1>1, <1>3, <1>8, <1>9
    <2>2. lease' = r /\ (q.row.fenced <=> ~good)
      BY <1>1, <1>2, <1>4, <1>5
    <2> QED
      BY <1>3, <1>5, <1>7, <2>1, <2>2
      DEF RunIsCovered, Active, At, Registered, Starting, Failing, OpenRow
  <1>12. /\ run' \in [Runs -> RunState] /\ disk' \in [Runs -> Row \cup {None}]
         /\ \A g \in Runs \ {r} : run'[g] = run[g]
         /\ \A g \in Runs : RunIsCovered(g)'
    BY <1>1, <1>2, <1>5, <1>6, <1>7, <1>11, OneRun
  <1>13. TypeOK'
    <2>1. {backend_error', closed', reset'} \subseteq BOOLEAN
      BY <1>1 DEF IInv, TypeOK, service
    <2>2. unsaved' \subseteq Runs
      BY <1>3 DEF IInv, TypeOK
    <2> QED
      BY <1>1, <1>12, <2>1, <2>2 DEF IInv, TypeOK, service
  <1>14. LocksAreOwned'
    BY <1>1, <1>3, <1>5, <1>12 DEF IInv, LocksAreOwned, service, Starting, Failing
  <1>15. LiveMeansLeased' /\ KillHitsOwnRun'
    BY <1>1, <1>2 DEF IInv, LiveMeansLeased, KillHitsOwnRun
  <1>16. SessionIsGuarded'
    BY <1>1 DEF IInv, SessionIsGuarded, Fenced, service
  <1>17. FenceIsRecorded'
    BY <1>1, <1>2, <1>3, <1>12, FencesStay
  <1> QED
    BY <1>12, <1>13, <1>14, <1>15, <1>16, <1>17 DEF IInv

\* The run is over: the lease is given back, or the Session stays fenced.
LEMMA WatchReleaseStep ==
  ASSUME IInv, NEW r \in Runs, watch_release(r)
  PROVE  IInv'
  <1> USE MarkersAssumption
  <1>0. /\ run \in [Runs -> RunState] /\ disk \in [Runs -> Row \cup {None}]
        /\ run[r] \in RunState /\ disk[r] \in Row \cup {None} /\ RunIsCovered(r)
    BY DEF IInv, TypeOK
  <1>1. /\ run[r].pc = "w_release" /\ Active(r) /\ lock' = None
        /\ lease' = IF run[r].ok THEN None ELSE lease
        /\ run' = [run EXCEPT ![r].pc = "done"]
        /\ UNCHANGED <<disk, procs, launch, killer, terminations, callbacks, killing,
                       service, noted, unsaved, misdirected>>
    BY DEF watch_release, Goto, At, Active, Watching
  <1>2. /\ lease = r /\ procs \subseteq {r} /\ ~Fenced /\ mutating \cap Drained = {}
        /\ r \notin fenced
    BY <1>1, ActiveIsAlone
  <1> DEFINE q == [run[r] EXCEPT !.pc = "done"]
  <1>3. /\ q \in RunState /\ q.pc = "done" /\ q.row = run[r].row
        /\ run' = [run EXCEPT ![r] = q] /\ run'[r] = q /\ disk' = [disk EXCEPT ![r] = disk[r]]
        /\ run[r].ok \in BOOLEAN /\ run[r].row.fenced \in BOOLEAN
    BY <1>0, <1>1 DEF RunState, Ended, Row
  <1> HIDE DEF q
  <1>4. fenced' = IF run[r].row.fenced THEN fenced \cup {r} ELSE fenced
    BY <1>3 DEF watch_release, EndedFenced
  <1>5. /\ run[r].ok => r \notin procs
        /\ run[r].row.fenced <=> ~run[r].ok
        /\ ~run[r].ok /\ r \notin unsaved => OpenRow(disk[r])
    BY <1>0, <1>1 DEF RunIsCovered, At
  <1>6. RunIsCovered(r)'
    BY <1>0, <1>1, <1>3 DEF RunIsCovered, Active, At, Registered, Starting, Failing, Watching, OpenRow
  <1>7. /\ run' \in [Runs -> RunState]
        /\ \A g \in Runs \ {r} : run'[g] = run[g] /\ ~Active(g)
        /\ \A g \in Runs : RunIsCovered(g)'
    BY <1>0, <1>1, <1>2, <1>3, <1>6, OneRun
  <1>8. TypeOK'
    <2>1. {backend_error', closed', reset'} \subseteq BOOLEAN
      BY <1>1 DEF IInv, TypeOK, service
    <2>2. fenced' \subseteq Runs
      BY <1>4 DEF IInv, TypeOK
    <2> QED
      BY <1>1, <1>2, <1>7, <2>1, <2>2 DEF IInv, TypeOK, service
  <1>9. LocksAreOwned'
    BY <1>1, <1>3, <1>7 DEF IInv, LocksAreOwned, service, Starting, Failing
  <1>10. LiveMeansLeased' /\ KillHitsOwnRun'
    BY <1>1, <1>2, <1>5 DEF IInv, LiveMeansLeased, KillHitsOwnRun
  <1>12. SessionIsGuarded'
    BY <1>1, <1>2 DEF IInv, SessionIsGuarded, Fenced, service
  <1>11. FenceIsRecorded'
    <2>1. r \in fenced' => /\ run'[r].pc = "done" /\ lease' = r
                           /\ r \notin unsaved' => OpenRow(disk'[r])
      BY <1>1, <1>2, <1>3, <1>4, <1>5
    <2> QED
      BY <1>1, <1>4, <1>7, <2>1, FencesStay
  <1> QED
    BY <1>7, <1>8, <1>9, <1>10, <1>11, <1>12 DEF IInv

\* Marks on rows, saved or not, move no run: the rows of active runs stay
\* open, and nobody touches the row of an ended one.
LEMMA RowsKept ==
  ASSUME IInv, UNCHANGED <<lease, fenced, unsaved>>, procs' \subseteq procs,
         run' \in [Runs -> RunState], disk' \in [Runs -> Row \cup {None}],
         \A g \in Runs :
           /\ run'[g].pc = run[g].pc /\ run'[g].ok = run[g].ok
           /\ run'[g].row.state = run[g].row.state
           /\ \/ run'[g].row = run[g].row /\ disk'[g] = disk[g]
              \/ lock = None /\ Active(g) /\ disk'[g] \in {disk[g], run'[g].row}
  PROVE  (\A g \in Runs : RunIsCovered(g)') /\ FenceIsRecorded' /\ LiveMeansLeased'
  <1>1. ASSUME NEW g \in Runs PROVE RunIsCovered(g)'
    <2>1. RunIsCovered(g) /\ run'[g] \in RunState
      BY DEF IInv
    <2>2. CASE run'[g].row = run[g].row /\ disk'[g] = disk[g]
      BY <2>1, <2>2 DEF RunIsCovered, Active, At, OpenRow
    <2>3. CASE lock = None /\ Active(g) /\ disk'[g] \in {disk[g], run'[g].row}
      <3>1. run[g].pc \notin {"w_remove", "w_release"}
        BY <2>3, MarkersAssumption DEF IInv, LocksAreOwned
      <3>2. run[g].pc \in {"acquired"} \cup Registered
        BY <2>3, <3>1 DEF Active, Registered, Starting, Watching, Failing
      <3>3. run'[g].row.state \in {"starting", "running"} /\ run'[g].row \in Row
        BY <2>1, <3>2 DEF RunIsCovered, RunState
      <3>4. /\ OpenRow(run'[g].row) /\ run'[g].row # None
            /\ OpenRow(disk[g]) => OpenRow(disk'[g])
        BY <2>3, <3>3, NoneAssumption DEF OpenRow
      <3>5. run[g].pc \in Registered /\ ~(At(g, "f_save") /\ run[g].ok) => OpenRow(disk'[g])
        BY <2>1, <3>4 DEF RunIsCovered
      <3> QED
        BY <2>1, <3>1, <3>3, <3>4, <3>5 DEF RunIsCovered, Active, At
    <2> QED
      BY <2>2, <2>3
  <1>2. FenceIsRecorded'
    <2>1. ASSUME NEW g \in fenced
          PROVE  g \in Runs /\ run[g].pc \in Ended /\ disk'[g] = disk[g] /\ run'[g].pc = run[g].pc
      <3>1. g \in Runs /\ run[g].pc \in Ended
        BY DEF IInv, TypeOK, FenceIsRecorded
      <3>2. ~Active(g)
        BY <3>1 DEF Active, Ended, Starting, Watching, Failing
      <3> QED
        BY <3>1, <3>2
    <2> QED
      BY <2>1 DEF IInv, FenceIsRecorded, At, OpenRow
  <1>3. LiveMeansLeased'
    BY DEF IInv, LiveMeansLeased
  <1> QED
    BY <1>1, <1>2, <1>3
\* The condition on rows that RowsKept asks for.
RowsStay ==
  /\ run' \in [Runs -> RunState] /\ disk' \in [Runs -> Row \cup {None}]
  /\ \A g \in Runs :
       /\ run'[g].pc = run[g].pc /\ run'[g].ok = run[g].ok
       /\ run'[g].row.state = run[g].row.state
       /\ \/ run'[g].row = run[g].row /\ disk'[g] = disk[g]
          \/ lock = None /\ Active(g) /\ disk'[g] \in {disk[g], run'[g].row}

LEMMA NoRowChanges == ASSUME IInv, UNCHANGED <<run, disk>> PROVE RowsStay
  BY DEF IInv, TypeOK, RowsStay

LEMMA StoppedRowsStay ==
  ASSUME IInv, lock = None, NEW R \in SUBSET Runs, \A r \in R : Active(r), StopRows(R)
  PROVE  RowsStay
  <1>1. run \in [Runs -> RunState] /\ disk \in [Runs -> Row \cup {None}]
    BY DEF IInv, TypeOK
  <1>2. ASSUME NEW g \in Runs
        PROVE  /\ run'[g] \in RunState /\ run'[g].row = run[g].row
               /\ run'[g].pc = run[g].pc /\ run'[g].ok = run[g].ok
    BY <1>1 DEF StopRows, RunState
  <1>3. PICK saved \in SUBSET {r \in R : ~run[r].stop} :
          disk' = [r \in Runs |-> IF r \in saved THEN run'[r].row ELSE disk[r]]
    BY DEF StopRows, TrySave
  <1>4. run' \in [Runs -> RunState]
    BY <1>2 DEF StopRows
  <1>5. \A g \in Runs : run'[g].row \in Row
    BY <1>2 DEF RunState
  <1> QED
    BY <1>1, <1>2, <1>3, <1>4, <1>5 DEF RowsStay

\* How the launch lock, its kill and a mutation of the workspace may change
\* in a step of no run.
Sessionwide ==
  \/ UNCHANGED <<launch, killer, mutating, reset>>
  \/ /\ launch = None /\ launch' = "term" /\ killer' \in Runs /\ procs' \subseteq {killer'}
     /\ UNCHANGED <<mutating, reset>>
  \/ /\ launch = "term" /\ launch' = None /\ killer' = None
     /\ UNCHANGED <<mutating, reset>>
  \/ /\ launch = None /\ launch' = "drain"
     /\ UNCHANGED <<killer, mutating, reset>>
  \/ /\ launch = "drain" /\ launch' = None
     /\ mutating' \subseteq mutating /\ mutating' \cap Drained = {}
     /\ UNCHANGED <<killer, reset>>
  \/ /\ mutating' \subseteq Kinds /\ ~(Drained \subseteq mutating')
     /\ mutating' \subseteq mutating \/ lease = None
     /\ mutating' \cap Drained # {} => launch = "drain"
     /\ UNCHANGED <<launch, killer, reset>>
  \/ /\ reset' \in BOOLEAN /\ (reset' => lease = None)
     /\ UNCHANGED <<launch, killer, mutating>>

\* Steps that mark rows, kill processes or only wait, and end no run.
LEMMA SideStep ==
  ASSUME IInv, RowsStay, Sessionwide, procs' \subseteq procs,
         UNCHANGED <<lease, lock, crashes, fenced, unsaved>>,
         terminations' \subseteq Runs \X {"timeout", "requested"},
         callbacks' \cup killing' \cup noted' \subseteq Runs,
         {backend_error', closed'} \subseteq BOOLEAN,
         misdirected' \subseteq Origins, "terminate" \notin misdirected'
  PROVE  IInv'
  <1> USE MarkersAssumption
  <1>1. (\A g \in Runs : RunIsCovered(g)') /\ FenceIsRecorded' /\ LiveMeansLeased'
    BY RowsKept DEF RowsStay
  <1>0. mutating \subseteq Kinds /\ reset \in BOOLEAN
    BY DEF IInv, TypeOK
  <1>2. TypeOK'
    <2>1. reset' \in BOOLEAN
      BY <1>0 DEF Sessionwide
    <2>2. /\ launch' \in Runs \cup {"term", "drain", None}
          /\ {lock', killer'} \subseteq Runs \cup {None}
      BY DEF IInv, TypeOK, Sessionwide
    <2>3. mutating' \subseteq Kinds
      BY <1>0 DEF Sessionwide
    <2> QED
      BY <2>1, <2>2, <2>3 DEF IInv, TypeOK, RowsStay
  <1>3. LocksAreOwned'
    <2>1. \A r \in Runs : launch' = r <=> launch = r
      BY DEF Sessionwide
    <2>2. \A r \in Runs : run'[r].pc = run[r].pc
      BY DEF RowsStay
    <2>3. launch' = "term" <=> killer' # None
      BY DEF Sessionwide, IInv, LocksAreOwned
    <2>4. mutating' \cap Drained # {} => launch' = "drain"
      <3>1. (mutating \cap Drained # {} => launch = "drain")
        BY DEF IInv, LocksAreOwned
      <3> QED
        BY <3>1 DEF Sessionwide
    <2>5. ~(Drained \subseteq mutating')
      <3>1. ~(Drained \subseteq mutating)
        BY DEF IInv, LocksAreOwned
      <3> QED
        BY <3>1 DEF Sessionwide
    <2> QED
      BY <2>1, <2>2, <2>3, <2>4, <2>5 DEF IInv, LocksAreOwned
  <1>4. SessionIsGuarded' /\ KillHitsOwnRun'
    <2>1. Fenced' \/ mutating' \cap Drained # {} => lease = None
      <3>1. Fenced \/ mutating \cap Drained # {} => lease = None
        BY DEF IInv, SessionIsGuarded
      <3> QED
        BY <3>1 DEF Sessionwide, Fenced
    <2>2. killer' # None => procs' \subseteq {killer'}
      BY DEF IInv, SessionIsGuarded, Sessionwide
    <2> QED
      BY <2>1, <2>2 DEF SessionIsGuarded, KillHitsOwnRun
  <1> QED
    BY <1>1, <1>2, <1>3, <1>4 DEF IInv

\* Timers, requests, drains and mutations wait or pass on; a kill under the
\* launch lock finds its own run.
LEMMA RequestSteps ==
  ASSUME IInv,
         \/ \E r \in Runs : \/ descendants_exit(r) \/ timer_fires(r) \/ stop_requested(r)
                            \/ feature_kill(r)
         \/ terminate_kill \/ drain_end \/ mutation_enter \/ mutation_exit
         \/ begin_reset \/ complete_reset
  PROVE  IInv'
  <1> USE MarkersAssumption
  <1>0. /\ terminations \subseteq Runs \X {"timeout", "requested"}
        /\ callbacks \cup killing \cup noted \subseteq Runs
        /\ misdirected \subseteq Origins /\ "terminate" \notin misdirected
        /\ killer \in Runs \cup {None}
    BY DEF IInv, TypeOK, KillHitsOwnRun
  <1>1. {backend_error, closed} \subseteq BOOLEAN
    BY DEF IInv, TypeOK
  <1>2. ASSUME NEW r \in Runs, descendants_exit(r) PROVE IInv'
    <2>1. procs' \subseteq procs /\ UNCHANGED <<run, disk, lease, threads, service, notes>>
      BY <1>2 DEF descendants_exit
    <2>2. RowsStay
      BY <2>1, NoRowChanges
    <2> QED
      BY <1>0, <1>1, <2>1, <2>2, SideStep DEF threads, service, notes, Sessionwide
  <1>3. ASSUME NEW r \in Runs, timer_fires(r) \/ stop_requested(r) PROVE IInv'
    <2>1. /\ terminations' \subseteq Runs \X {"timeout", "requested"}
          /\ UNCHANGED <<run, disk, procs, lease, launch, lock, killer, callbacks, killing,
                         service, notes>>
      BY <1>0, <1>3 DEF timer_fires, stop_requested
    <2>2. RowsStay
      BY <2>1, NoRowChanges
    <2> QED
      BY <1>0, <1>1, <2>1, <2>2, SideStep DEF service, notes, Sessionwide
  <1>4. ASSUME NEW r \in Runs, feature_kill(r) PROVE IInv'
    <2>1. /\ killing' \subseteq Runs /\ procs' \subseteq procs
          /\ misdirected' \subseteq Origins /\ "terminate" \notin misdirected'
          /\ UNCHANGED <<run, disk, lease, launch, lock, killer, terminations, callbacks,
                         service, noted, fenced, unsaved>>
      BY <1>0, <1>4 DEF feature_kill, Kill, Origins
    <2>2. RowsStay
      BY <2>1, NoRowChanges
    <2> QED
      BY <1>0, <1>1, <2>1, <2>2, SideStep DEF service, Sessionwide
  <1>5. CASE terminate_kill
    <2>1. killer \in Runs /\ procs \subseteq {killer} /\ launch = "term"
      BY <1>0, <1>5 DEF terminate_kill, IInv, SessionIsGuarded, LocksAreOwned
    <2>2. /\ procs' \subseteq procs /\ misdirected' = misdirected
          /\ launch' = None /\ killer' = None
          /\ UNCHANGED <<run, disk, lease, lock, terminations, callbacks, killing, service,
                         noted, fenced, unsaved>>
      BY <1>5, <2>1 DEF terminate_kill, Kill
    <2>3. RowsStay
      BY <2>2, NoRowChanges
    <2> QED
      BY <1>0, <1>1, <2>1, <2>2, <2>3, SideStep DEF service, Sessionwide
  <1>6. CASE drain_end \/ mutation_enter \/ mutation_exit \/ begin_reset \/ complete_reset
    <2>1. UNCHANGED <<run, disk, procs, lease, lock, killer, terminations, callbacks, killing,
                      backend_error, closed, crashes, notes>>
      BY <1>6 DEF drain_end, mutation_enter, mutation_exit, begin_reset, complete_reset, Mutate,
                  threads, service
    <2>2. Sessionwide
      <3>0. /\ mutating \subseteq Kinds /\ ~(Drained \subseteq mutating)
            /\ mutating \cap Drained # {} => launch = "drain"
            /\ Fenced => lease = None
        BY DEF IInv, TypeOK, LocksAreOwned, SessionIsGuarded
      <3>1. CASE drain_end
        BY <3>1 DEF drain_end, Sessionwide, service
      <3>2. CASE mutation_enter
        <4>1. PICK kind \in Kinds : /\ mutating' = mutating \cup {kind} /\ lease = None
                                    /\ UNCHANGED <<launch, killer, reset>>
                                    /\ kind \in Drained => /\ launch = "drain"
                                                           /\ mutating \cap Drained = {}
          BY <3>0, <3>2 DEF mutation_enter, Mutate, DrainedNow, Kinds, Drained, Fenced, threads
        <4> QED
          BY <3>0, <4>1 DEF Sessionwide, Drained
      <3>3. CASE mutation_exit
        <4>1. PICK kind \in mutating : /\ mutating' = mutating \ {kind}
                                       /\ launch' = IF kind \in Drained THEN None ELSE launch
                                       /\ UNCHANGED <<killer, reset>>
          BY <3>3 DEF mutation_exit
        <4>2. CASE kind \in Drained
          BY <3>0, <4>1, <4>2 DEF Sessionwide, Drained
        <4>3. CASE kind \notin Drained
          BY <3>0, <4>1, <4>3 DEF Sessionwide
        <4> QED
          BY <4>2, <4>3
      <3>4. CASE begin_reset \/ complete_reset
        BY <3>4 DEF begin_reset, complete_reset, threads, Sessionwide
      <3> QED
        BY <1>6, <3>1, <3>2, <3>3, <3>4
    <2>3. RowsStay
      BY <2>1, NoRowChanges
    <2> QED
      BY <1>0, <1>1, <2>1, <2>2, <2>3, SideStep DEF notes
  <1> QED
    BY <1>2, <1>3, <1>4, <1>5, <1>6

\* A termination and a drain stop the active run, if there is one: whatever
\* is in the cgroup is its own.
LEMMA TerminationSteps ==
  ASSUME IInv,
         \/ \E r \in Runs, reason \in {"timeout", "requested"} : terminate(r, reason)
         \/ \E shutdown \in BOOLEAN : drain(shutdown)
  PROVE  IInv'
  <1> USE MarkersAssumption
  <1>0. /\ terminations \subseteq Runs \X {"timeout", "requested"}
        /\ callbacks \cup killing \cup noted \subseteq Runs
        /\ misdirected \subseteq Origins /\ "terminate" \notin misdirected
    BY DEF IInv, TypeOK, KillHitsOwnRun
  <1>1. {backend_error, closed} \subseteq BOOLEAN
    BY DEF IInv, TypeOK
  <1>2. ASSUME NEW r \in Runs, NEW reason \in {"timeout", "requested"}, terminate(r, reason)
        PROVE  IInv'
    <2>1. /\ launch = None /\ lock = None
          /\ terminations' \subseteq Runs \X {"timeout", "requested"}
          /\ UNCHANGED <<procs, lease, lock, callbacks, killing, service, notes>>
      BY <1>0, <1>2 DEF terminate
    <2>2. RowsStay /\ Sessionwide
      <3>1. CASE Terminates(r, reason)
        <4>1. Active(r) /\ procs \subseteq {r}
          BY <3>1, ActiveIsAlone DEF Terminates
        <4>2. StopRows({r}) /\ launch' = "term" /\ killer' = r
          BY <1>2, <3>1 DEF terminate
        <4>3. RowsStay
          BY <2>1, <4>1, <4>2, StoppedRowsStay
        <4> QED
          BY <2>1, <4>1, <4>2, <4>3 DEF Sessionwide, service
      <3>2. CASE ~Terminates(r, reason)
        <4>1. UNCHANGED <<run, disk, launch, killer>>
          BY <1>2, <3>2 DEF terminate
        <4> QED
          BY <2>1, <4>1, NoRowChanges DEF Sessionwide, service
      <3> QED
        BY <3>1, <3>2
    <2> QED
      BY <1>0, <1>1, <2>1, <2>2, SideStep DEF service, notes
  <1>3. ASSUME NEW shutdown \in BOOLEAN, drain(shutdown) PROVE IInv'
    <2> DEFINE open == {r \in Runs : Active(r)}
    <2>1. /\ launch = None /\ lock = None /\ launch' = "drain"
          /\ closed' = (closed \/ shutdown)
          /\ StopRows(open)
          /\ procs' = (IF open = {} THEN procs ELSE {})
          /\ misdirected' = misdirected \cup
               {o \in {"terminate"} : open # {} /\ ~(procs \subseteq open)}
          /\ UNCHANGED <<lease, lock, killer, terminations, callbacks, killing,
                         backend_error, mutating, reset, crashes, noted, fenced, unsaved>>
      BY <1>3 DEF drain
    <2>2. open # {} => procs \subseteq open
      BY ActiveIsAlone
    <2>3. RowsStay
      BY <2>1, StoppedRowsStay
    <2> HIDE DEF open
    <2>4. procs' \subseteq procs /\ misdirected' = misdirected
      BY <2>1, <2>2
    <2>5. {backend_error', closed'} \subseteq BOOLEAN
      BY <1>1, <2>1
    <2> QED
      BY <1>0, <2>1, <2>3, <2>4, <2>5, SideStep DEF Sessionwide
  <1> QED
    BY <1>2, <1>3

\* A fenced row is the same row otherwise.
LEMMA FencedRow ==
  ASSUME NEW q \in RunState, NEW f, f = [q EXCEPT !.row.fenced = TRUE]
  PROVE  /\ f \in RunState /\ [f EXCEPT !.stop = TRUE] \in RunState
         /\ f.pc = q.pc /\ f.ok = q.ok /\ f.row.state = q.row.state
         /\ [f EXCEPT !.stop = TRUE].pc = q.pc /\ [f EXCEPT !.stop = TRUE].ok = q.ok
         /\ [f EXCEPT !.stop = TRUE].row.state = q.row.state
  <1> DEFINE row == [q.row EXCEPT !.fenced = TRUE]
  <1>1. row \in Row /\ row.state = q.row.state
    BY DEF RunState, Row
  <1>2. f = [q EXCEPT !.row = row]
    BY DEF RunState
  <1> HIDE DEF row
  <1>3. f \in RunState /\ f.pc = q.pc /\ f.ok = q.ok /\ f.row = row
    BY <1>1, <1>2 DEF RunState
  <1> QED
    BY <1>1, <1>3 DEF RunState

\* Failures of the provider and of features fence the rows of open runs.
LEMMA FailureSteps ==
  ASSUME IInv,
         \/ backend_failed
         \/ \E r \in Runs : feature_fails(r) \/ feature_failed(r)
  PROVE  IInv'
  <1> USE MarkersAssumption
  <1>0. /\ terminations \subseteq Runs \X {"timeout", "requested"}
        /\ callbacks \cup killing \cup noted \subseteq Runs
        /\ misdirected \subseteq Origins /\ "terminate" \notin misdirected
        /\ run \in [Runs -> RunState] /\ disk \in [Runs -> Row \cup {None}]
    BY DEF IInv, TypeOK, KillHitsOwnRun
  <1>1. {backend_error, closed} \subseteq BOOLEAN
    BY DEF IInv, TypeOK
  <1>2. ASSUME NEW R \in SUBSET Runs, lock = None, \A r \in R : Active(r),
               \A g \in Runs : /\ run'[g] \in RunState
                               /\ run'[g].pc = run[g].pc /\ run'[g].ok = run[g].ok
                               /\ run'[g].row.state = run[g].row.state
                               /\ g \notin R => run'[g].row = run[g].row,
               run' \in [Runs -> RunState], TrySave(R)
        PROVE  RowsStay
    <2>1. PICK saved \in SUBSET R :
            disk' = [r \in Runs |-> IF r \in saved THEN run'[r].row ELSE disk[r]]
      BY <1>2 DEF TrySave
    <2>2. \A g \in Runs : run'[g].row \in Row
      BY <1>2 DEF RunState
    <2>3. disk' \in [Runs -> Row \cup {None}]
      BY <1>0, <2>1, <2>2
    <2>4. \A g \in Runs : \/ run'[g].row = run[g].row /\ disk'[g] = disk[g]
                          \/ lock = None /\ Active(g) /\ disk'[g] \in {disk[g], run'[g].row}
      BY <1>2, <2>1
    <2> QED
      BY <1>2, <2>3, <2>4 DEF RowsStay
  <1>3. CASE backend_failed
    <2> DEFINE open == {r \in Runs : InRuns(r)}
    <2>1. /\ lock = None /\ backend_error' = TRUE
          /\ run' = [r \in Runs |-> IF r \in open THEN [run[r] EXCEPT !.row.fenced = TRUE]
                                    ELSE run[r]]
          /\ TrySave(open)
          /\ terminations' = terminations \cup (open \X {"requested"})
          /\ UNCHANGED <<procs, lease, launch, lock, killer, callbacks, killing, closed,
                         mutating, reset, crashes, notes>>
      BY <1>3 DEF backend_failed
    <2>2. open \in SUBSET Runs /\ \A r \in open : Active(r)
      BY DEF InRuns
    <2> HIDE DEF open
    <2>3. ASSUME NEW g \in Runs
          PROVE  /\ run'[g] \in RunState
                 /\ run'[g].pc = run[g].pc /\ run'[g].ok = run[g].ok
                 /\ run'[g].row.state = run[g].row.state
                 /\ g \notin open => run'[g].row = run[g].row
      <3>1. CASE g \in open
        BY <1>0, <2>1, <3>1, FencedRow
      <3>2. CASE g \notin open
        BY <1>0, <2>1, <3>2
      <3> QED
        BY <3>1, <3>2
    <2>4. run' \in [Runs -> RunState]
      BY <2>1, <2>3
    <2>5. RowsStay
      BY <1>2, <2>1, <2>2, <2>3, <2>4
    <2>6. {backend_error', closed'} \subseteq BOOLEAN
      BY <1>1, <2>1
    <2>7. terminations' \subseteq Runs \X {"timeout", "requested"}
      BY <1>0, <2>1, <2>2
    <2> QED
      BY <1>0, <2>1, <2>5, <2>6, <2>7, SideStep DEF Sessionwide, notes
  <1>4. ASSUME NEW r \in Runs, feature_fails(r) PROVE IInv'
    <2>1. /\ run' = [run EXCEPT ![r].feature = IF @ = "active" THEN "failed" ELSE @]
          /\ callbacks' \subseteq Runs
          /\ UNCHANGED <<disk, procs, lease, launch, lock, killer, terminations, killing,
                         service, notes>>
      BY <1>0, <1>4 DEF feature_fails
    <2>2. ASSUME NEW g \in Runs
          PROVE  /\ run'[g] \in RunState /\ run'[g].row = run[g].row
                 /\ run'[g].pc = run[g].pc /\ run'[g].ok = run[g].ok
      BY <1>0, <2>1 DEF RunState
    <2>3. run' \in [Runs -> RunState]
      BY <1>0, <2>1, <2>2
    <2>4. RowsStay
      BY <1>0, <2>1, <2>2, <2>3 DEF RowsStay
    <2> QED
      BY <1>0, <1>1, <2>1, <2>4, SideStep DEF Sessionwide, service, notes
  <1>5. ASSUME NEW r \in Runs, feature_failed(r) PROVE IInv'
    <2>1. /\ lock = None /\ callbacks' \subseteq Runs
          /\ UNCHANGED <<procs, lease, launch, lock, killer, terminations, service, fenced,
                         unsaved, misdirected>>
      BY <1>0, <1>5 DEF feature_failed
    <2>2. RowsStay /\ killing' \cup noted' \subseteq Runs
      <3>1. CASE InRuns(r)
        <4>1. /\ run' = [run EXCEPT ![r].row.fenced = TRUE, ![r].stop = TRUE]
              /\ TrySave({r})
              /\ killing' = killing \cup {r} /\ noted' = noted \cup {r}
          BY <1>5, <3>1 DEF feature_failed
        <4>2. ASSUME NEW g \in Runs
              PROVE  /\ run'[g] \in RunState
                     /\ run'[g].pc = run[g].pc /\ run'[g].ok = run[g].ok
                     /\ run'[g].row.state = run[g].row.state
                     /\ g \notin {r} => run'[g].row = run[g].row
          <5> DEFINE f == [run[r] EXCEPT !.row.fenced = TRUE]
          <5>1. run' = [run EXCEPT ![r] = [f EXCEPT !.stop = TRUE]]
            BY <1>0, <4>1
          <5>2. CASE g = r
            BY <1>0, <5>1, <5>2, FencedRow
          <5>3. CASE g # r
            BY <1>0, <5>1, <5>3
          <5> QED
            BY <5>2, <5>3
        <4>3. run' \in [Runs -> RunState]
          BY <1>0, <4>1, <4>2
        <4>4. RowsStay
          BY <1>2, <2>1, <3>1, <4>1, <4>2, <4>3 DEF InRuns
        <4> QED
          BY <1>0, <4>1, <4>4
      <3>2. CASE ~InRuns(r)
        BY <1>0, <1>5, <3>2, NoRowChanges DEF feature_failed
      <3> QED
        BY <3>1, <3>2
    <2> QED
      BY <1>0, <1>1, <2>1, <2>2, SideStep DEF Sessionwide, service
  <1> QED
    BY <1>3, <1>4, <1>5

\* After a crash the rows left open fence the Session, in whatever step it
\* happened.
LEMMA RestartStep ==
  ASSUME IInv, restart
  PROVE  IInv'
  <1> USE MarkersAssumption
  <1>0. /\ run \in [Runs -> RunState] /\ disk \in [Runs -> Row \cup {None}]
        /\ \A r \in Runs : RunIsCovered(r)
    BY DEF IInv, TypeOK
  <1> DEFINE gone == [New EXCEPT !.pc = "gone"]
             interrupted == [state |-> "interrupted", fenced |-> TRUE]
  <1>1. /\ gone \in RunState /\ gone.pc = "gone"
        /\ interrupted \in Row /\ interrupted # None /\ interrupted.fenced
    <2>1. interrupted \in Row /\ interrupted.fenced /\ NewRow \in Row
      BY DEF Row, NewRow
    <2>2. gone \in RunState /\ gone.pc = "gone"
      BY <2>1 DEF New, RunState, Ended
    <2> QED
      BY <2>1, <2>2, NoneAssumption
  <1>2. /\ procs' \in {procs, {}}
        /\ run' = [r \in Runs |-> IF At(r, "new") THEN run[r] ELSE gone]
        /\ disk' = [r \in Runs |-> IF OpenRow(disk[r]) THEN interrupted ELSE disk[r]]
        /\ lease' = IF \E r \in Runs : OpenRow(disk[r]) THEN Recovered ELSE None
        /\ launch' = None /\ lock' = None /\ killer' = None
        /\ terminations' = {} /\ callbacks' = {} /\ killing' = {}
        /\ backend_error' = FALSE /\ closed' = FALSE /\ mutating' = {} /\ reset' = FALSE
        /\ crashes < MaxCrashes /\ crashes' = crashes + 1
        /\ UNCHANGED notes
    BY DEF restart
  <1> HIDE DEF gone, interrupted
  <1>3. \A r \in Runs : /\ run'[r] \in RunState /\ disk'[r] \in Row \cup {None}
                        /\ run'[r].pc \in {"new", "gone"}
                        /\ run'[r].pc = "new" => run'[r] = run[r] /\ run[r].pc = "new"
                        /\ OpenRow(disk[r]) => OpenRow(disk'[r])
    BY <1>0, <1>1, <1>2 DEF At, OpenRow
  <1>4. TypeOK'
    <2>1. {backend_error', closed', reset'} \subseteq BOOLEAN
      BY <1>2
    <2>2. crashes' \in 0..MaxCrashes
      BY <1>2, CrashesAssumption DEF IInv, TypeOK
    <2>3. run' \in [Runs -> RunState] /\ disk' \in [Runs -> Row \cup {None}]
      BY <1>2, <1>3
    <2> QED
      BY <1>2, <2>1, <2>2, <2>3 DEF IInv, TypeOK, notes
  <1>5. \A r \in Runs : RunIsCovered(r)'
    BY <1>0, <1>2, <1>3
    DEF RunIsCovered, Active, At, Registered, Starting, Watching, Failing, OpenRow
  <1>6. LocksAreOwned' /\ SessionIsGuarded' /\ KillHitsOwnRun'
    BY <1>2, <1>3
    DEF IInv, LocksAreOwned, SessionIsGuarded, KillHitsOwnRun, Fenced, Drained, notes, Starting,
        Failing
  <1>7. LiveMeansLeased'
    BY <1>0, <1>2 DEF IInv, TypeOK, LiveMeansLeased, RunIsCovered
  <1>8. FenceIsRecorded'
    <2>1. ASSUME NEW r \in fenced
          PROVE  /\ r \in Runs /\ run'[r].pc = "gone"
                 /\ r \notin unsaved => OpenRow(disk'[r]) /\ lease' = Recovered
      <3>1. /\ r \in Runs /\ run[r].pc \in Ended
            /\ r \notin unsaved => OpenRow(disk[r])
        BY DEF IInv, TypeOK, FenceIsRecorded
      <3>2. run'[r].pc = "gone"
        BY <1>3, <3>1 DEF Ended
      <3> QED
        BY <1>2, <1>3, <3>1, <3>2
    <2> QED
      BY <1>2, <2>1 DEF FenceIsRecorded, At, Ended, OpenRow, notes
  <1> QED
    BY <1>4, <1>5, <1>6, <1>7, <1>8 DEF IInv

LEMMA RunStep == IInv /\ [Next]_vars => IInv'
  <1> SUFFICES ASSUME IInv, [Next]_vars PROVE IInv'
    OBVIOUS
  <1>1. CASE UNCHANGED vars
    <2>1. RowsStay
      BY <1>1, NoRowChanges DEF vars
    <2>2. {backend_error', closed'} \subseteq BOOLEAN
      BY <1>1 DEF vars, IInv, TypeOK
    <2> QED
      BY <1>1, <2>1, <2>2, SideStep DEF vars, Sessionwide, IInv, TypeOK, KillHitsOwnRun
  <1> QED
    BY <1>1, AcquireStep, StartSteps, LaunchEnds, WatchSteps, WatchSaveStep, WatchReleaseStep,
       RequestSteps, TerminationSteps, FailureSteps, RestartStep
    DEF Next, Start, Watch, Terminate

-----------------------------------------------------------------------------
(* Theorems *)

\* The inductive invariant: an active run holds the lease, the launch lock
\* keeps kills and launches apart, and a row on disk covers every process.
THEOREM RunInvariant == Spec => []IInv
  BY InitIInv, RunStep, PTL DEF Spec

\* Every live process is covered by a lease, also after the daemon was lost
\* with processes running and when saves, kills or providers fail.
THEOREM ProcessesAreLeased == Spec => []LiveMeansLeased
  <1>1. IInv => LiveMeansLeased
    BY DEF IInv
  <1> QED
    BY <1>1, RunInvariant, PTL

\* No workspace is checkpointed or rolled back under a live process, but by
\* the rollback of a reset that its client completed too early.
THEOREM MutationIsQuiet == Spec => []MutationMeansQuiet
  <1>1. IInv => MutationMeansQuiet
    <2> SUFFICES ASSUME IInv, procs # {} PROVE ~reset /\ mutating \subseteq {"reset"}
      BY DEF MutationMeansQuiet
    <2>1. lease # None
      BY MarkersAssumption DEF IInv, TypeOK, LiveMeansLeased
    <2>2. ~Fenced /\ mutating \cap Drained = {} /\ mutating \subseteq Kinds
      BY <2>1 DEF IInv, TypeOK, SessionIsGuarded
    <2> QED
      BY <2>2 DEF Fenced, Drained, Kinds
  <1> QED
    BY <1>1, RunInvariant, PTL

\* A row that says completed or stopped, unfenced, has no process left.
THEOREM ReceiptsAreTrue == Spec => []ReceiptIsTrue
  <1>1. IInv => ReceiptIsTrue
    BY DEF IInv, RunIsCovered, OpenRow, ReceiptIsTrue
  <1> QED
    BY <1>1, RunInvariant, PTL

\* A timeout, a stop request, a provider failure or a drain kills the
\* processes of its own run only, however late it gets the launch lock.
THEOREM KillsAreDirected == Spec => []KillHitsOwnRun
  <1>1. IInv => KillHitsOwnRun
    BY DEF IInv
  <1> QED
    BY <1>1, RunInvariant, PTL

\* A run that ends fenced leaves the Session fenced across any number of
\* restarts and failing saves; only one that was in order, and is fenced
\* because its own last save raised, can lose its fence to a restart.
THEOREM FenceIsKept == Spec => []FencePersists
  <1>1. IInv => FencePersists
    <2> SUFFICES ASSUME IInv, lease = None, NEW r \in fenced PROVE r \in unsaved /\ At(r, "gone")
      BY DEF FencePersists
    <2>1. r \in Runs /\ run[r].pc \in Ended
      BY DEF IInv, TypeOK, FenceIsRecorded
    <2>2. At(r, "done") => lease = r
      BY DEF IInv, FenceIsRecorded
    <2>3. r \notin unsaved => (At(r, "gone") => lease = Recovered)
      BY DEF IInv, FenceIsRecorded
    <2> QED
      BY <2>1, <2>2, <2>3, MarkersAssumption DEF At, Ended
  <1> QED
    BY <1>1, RunInvariant, PTL
=============================================================================
