------------------------- MODULE TurnLifecycleProofs -------------------------
(***************************************************************************)
(* The turn checkpoint lifecycle for any number of turns, turn ids,        *)
(* rollbacks and calling threads.                                          *)
(***************************************************************************)
EXTENDS TurnLifecycle, FiniteSetTheorems, TLAPS

\* Nothing is saved, marked or owed when the object is made.
LEMMA InitIInv == Init => IInv
  <1> SUFFICES ASSUME Init PROVE IInv
    OBVIOUS
  <1> USE NoneAssumption, BoundsAssumption DEF Init
  <1>1. TypeOK
    <2>1. {enabled, session_started, skip_next, undone, owed} \subseteq BOOLEAN
      BY Zenon
    <2> QED
      BY <2>1 DEF TypeOK
  <1>2. HooksRemember /\ OneCheckpointPerTurn /\ MarkIsKept
    BY DEF HooksRemember, OneCheckpointPerTurn, MarkIsKept
  <1>3. OneSkipPerRollback
    BY FS_EmptySet DEF OneSkipPerRollback
  <1> QED
    BY <1>1, <1>2, <1>3 DEF IInv

\* The threads inside rollback() can be counted.
LEMMA RollbacksCount ==
  ASSUME TypeOK
  PROVE  IsFiniteSet(rollbacks) /\ Cardinality(rollbacks) \in Nat
  BY CallersAssumption, FS_Subset, FS_CardinalityType DEF TypeOK

\* Steps that leave the hooks' memory, the mark and the counters alone.
LEMMA SettingsSteps ==
  ASSUME IInv,
         \/ \E on \in BOOLEAN : set_enabled(on)
         \/ \E m \in Messages : on_user_message(m)
         \/ \E t \in TurnIds \cup {None} : on_turn_end_ignored(t)
         \/ UNCHANGED vars
  PROVE  IInv'
  <1>1. TypeOK'
    BY DEF IInv, TypeOK, set_enabled, on_user_message, on_turn_end_ignored, settings, history, vars
  <1>2. UNCHANGED <<session_started, turn_count, skip_next, seen, hook, rollbacks, made,
                    undoCount, owed, skips>>
    BY DEF set_enabled, on_user_message, on_turn_end_ignored, settings, history, vars
  <1>3. HooksRemember' /\ OneCheckpointPerTurn'
    BY <1>2 DEF IInv, HooksRemember, OneCheckpointPerTurn, Recorded, SameTurn, Repeatable
  <1>4. MarkIsKept' /\ OneSkipPerRollback'
    BY <1>2 DEF IInv, MarkIsKept, OneSkipPerRollback
  <1> QED
    BY <1>1, <1>3, <1>4 DEF IInv

\* A hook takes a checkpoint in hand: its turn, or the session's start, is
\* recorded before the request is sent.
LEMMA HookSteps ==
  ASSUME IInv,
         \/ on_session_start
         \/ \E t \in TurnIds \cup {None}, completed \in BOOLEAN : on_turn_end(t, completed)
  PROVE  IInv'
  <1> USE DEF IInv
  <1>1. ASSUME on_session_start
        PROVE  IInv'
    <2> USE <1>1 DEF on_session_start, LockFree, settings, history
    <2>1. TypeOK'
      BY BoundsAssumption DEF TypeOK, Checkpoint
    <2>2. HooksRemember' /\ OneCheckpointPerTurn'
      BY DEF TypeOK, HooksRemember, OneCheckpointPerTurn, Recorded, SameTurn, Repeatable
    <2>3. MarkIsKept' /\ OneSkipPerRollback'
      BY DEF MarkIsKept, OneSkipPerRollback
    <2> QED
      BY <2>1, <2>2, <2>3
  <1>2. ASSUME NEW t \in TurnIds \cup {None}, NEW completed \in BOOLEAN, on_turn_end(t, completed)
        PROVE  IInv'
    <2> USE <1>2 DEF on_turn_end, Accepted, LockFree, settings, history
    <2>1. TypeOK'
      BY BoundsAssumption DEF TypeOK, Checkpoint
    <2>2. HooksRemember' /\ OneCheckpointPerTurn'
      BY NoneAssumption DEF TypeOK, HooksRemember, OneCheckpointPerTurn, Recorded, SameTurn, Repeatable
    <2>3. MarkIsKept' /\ OneSkipPerRollback'
      BY DEF MarkIsKept, OneSkipPerRollback
    <2> QED
      BY <2>1, <2>2, <2>3
  <1> QED
    BY <1>1, <1>2

\* A suppressed turn end uses up the mark.
LEMMA SuppressStep ==
  ASSUME IInv, NEW t \in TurnIds \cup {None}, on_turn_end_suppressed(t)
  PROVE  IInv'
  <1> USE DEF IInv, on_turn_end_suppressed, Accepted, LockFree, settings
  <1>1. OneSkipPerRollback'
    BY RollbacksCount DEF TypeOK, OneSkipPerRollback
  <1>2. skips + 1 <= undoCount
    BY RollbacksCount DEF TypeOK, OneSkipPerRollback
  <1>3. TypeOK'
    <2>1. {enabled, session_started, skip_next, undone, owed}' \subseteq BOOLEAN
      BY Zenon DEF TypeOK
    <2> QED
      BY <1>2, <2>1, BoundsAssumption DEF TypeOK
  <1>4. HooksRemember' /\ OneCheckpointPerTurn'
    BY DEF TypeOK, HooksRemember, OneCheckpointPerTurn, Recorded, SameTurn, Repeatable
  <1>5. MarkIsKept'
    BY DEF MarkIsKept
  <1> QED
    BY <1>1, <1>3, <1>4, <1>5

\* The request is answered: made' is made with or without the hook's
\* checkpoint, which is of no turn that made already holds.
LEMMA CreateStep ==
  ASSUME IInv, create_checkpoint
  PROVE  IInv'
  <1> USE DEF IInv, create_checkpoint, settings
  <1>1. hook \in Checkpoint /\ made \in Seq(Checkpoint) /\ Len(made) \in Nat
    BY DEF TypeOK
  <1>2. Len(made) + 1 <= MaxTurns + 1
    BY BoundsAssumption DEF TypeOK, HooksRemember
  <1>3. CASE made' = made
    <2>1. TypeOK'
      BY <1>3 DEF TypeOK
    <2>2. HooksRemember' /\ OneCheckpointPerTurn'
      BY <1>3, <1>1 DEF TypeOK, HooksRemember, OneCheckpointPerTurn, Recorded, SameTurn, Repeatable
    <2>3. MarkIsKept' /\ OneSkipPerRollback'
      BY DEF MarkIsKept, OneSkipPerRollback, TypeOK
    <2> QED
      BY <2>1, <2>2, <2>3
  <1>4. CASE made' = Append(made, hook)
    <2>1. /\ made' \in Seq(Checkpoint) /\ Len(made') = Len(made) + 1
          /\ made'[Len(made) + 1] = hook
          /\ \A i \in 1..Len(made) : made'[i] = made[i]
      BY <1>1, <1>4
    <2>2. \A i \in 1..Len(made') : i \in 1..Len(made) \/ i = Len(made) + 1
      BY <1>1, <2>1
    <2>3. TypeOK'
      BY <1>2, <2>1 DEF TypeOK
    <2>4. HooksRemember'
      BY <1>1, <2>1, <2>2 DEF TypeOK, HooksRemember, Recorded
    <2>5. OneCheckpointPerTurn'
      <3> SUFFICES ASSUME NEW i \in 1..Len(made'), NEW j \in 1..Len(made'), i # j,
                          SameTurn(made'[i], made'[j])
                   PROVE  Repeatable(made'[i])
        BY DEF OneCheckpointPerTurn, SameTurn, Repeatable
      <3>1. CASE i \in 1..Len(made) /\ j \in 1..Len(made)
        BY <3>1, <2>1 DEF OneCheckpointPerTurn, SameTurn, Repeatable
      <3>2. CASE i = Len(made) + 1 /\ j \in 1..Len(made)
        BY <3>2, <2>1 DEF HooksRemember, SameTurn, Repeatable
      <3>3. CASE j = Len(made) + 1 /\ i \in 1..Len(made)
        BY <3>3, <2>1 DEF HooksRemember, SameTurn, Repeatable
      <3> QED
        BY <3>1, <3>2, <3>3, <2>2
    <2>6. MarkIsKept' /\ OneSkipPerRollback'
      BY DEF MarkIsKept, OneSkipPerRollback, TypeOK
    <2> QED
      BY <2>3, <2>4, <2>5, <2>6
  <1> QED
    BY <1>3, <1>4

\* A rollback is accepted, and later one caller less has its mark to leave.
LEMMA RollbackSteps ==
  ASSUME IInv, NEW t \in Callers, rollback(t) \/ mark_rollback(t)
  PROVE  IInv'
  <1> USE DEF IInv, rollback, mark_rollback, LockFree, settings
  <1>1. TypeOK'
    <2>1. {enabled, session_started, skip_next, undone, owed}' \subseteq BOOLEAN
      BY Zenon DEF TypeOK
    <2> QED
      BY <2>1, BoundsAssumption DEF TypeOK
  <1>2. HooksRemember' /\ OneCheckpointPerTurn'
    BY DEF HooksRemember, OneCheckpointPerTurn, Recorded, SameTurn, Repeatable
  <1>3. MarkIsKept'
    BY DEF MarkIsKept
  <1>4. OneSkipPerRollback'
    <2>1. rollback(t) => Cardinality(rollbacks') = Cardinality(rollbacks) + 1
      BY RollbacksCount, FS_AddElement
    <2>2. mark_rollback(t) => Cardinality(rollbacks') = Cardinality(rollbacks) - 1
      BY RollbacksCount, FS_RemoveElement
    <2>3. CASE rollback(t)
      BY <2>1, <2>3, RollbacksCount DEF TypeOK, OneSkipPerRollback
    <2>4. CASE mark_rollback(t)
      BY <2>2, <2>4, RollbacksCount DEF TypeOK, OneSkipPerRollback
    <2> QED
      BY <2>3, <2>4
  <1> QED
    BY <1>1, <1>2, <1>3, <1>4

\* Every step of the hooks and of rollback() keeps the inductive invariant.
THEOREM TurnInvariant == Spec => []IInv
  <1>1. IInv /\ [Next]_vars => IInv'
    <2> SUFFICES ASSUME IInv, [Next]_vars PROVE IInv'
      OBVIOUS
    <2> QED
      BY SettingsSteps, HookSteps, SuppressStep, CreateStep, RollbackSteps DEF Next
  <1> QED
    BY InitIInv, <1>1, PTL DEF Spec

\* A turn, or the session's start, has at most one automatic checkpoint:
\* on_turn_end records the id before it sends the request and never resends.
THEOREM TurnIsSavedOnce == Spec => []OneCheckpointPerTurn
  <1>1. IInv => OneCheckpointPerTurn
    BY DEF IInv
  <1> QED
    BY TurnInvariant, <1>1, PTL

\* An accepted rollback suppresses at most one turn end, however many callers
\* roll back at once.
THEOREM RollbackSkipsOnce == Spec => []OneSkipPerRollback
  <1>1. IInv => OneSkipPerRollback
    BY DEF IInv
  <1> QED
    BY TurnInvariant, <1>1, PTL

\* A turn that ends after rollback() returned is not saved: the mark is set
\* under the lock that the hooks hold from their test to their request.
THEOREM RollbackIsHonoured == Spec => ReturnedRollbackIsHonoured
  <1> DEFINE Saves == Len(made') > Len(made) /\ made'[Len(made')].event = "turn_end"
  <1>1. IInv /\ [Next]_vars => [Saves => ~owed]_vars
    <2> SUFFICES ASSUME IInv, Next, Saves PROVE ~owed
      OBVIOUS
    <2>1. made' # made
      BY DEF IInv, TypeOK
    <2>2. create_checkpoint
      BY <2>1 DEF Next, set_enabled, on_user_message, on_session_start, on_turn_end_ignored,
                  on_turn_end_suppressed, on_turn_end, rollback, mark_rollback
    <2>3. made' = Append(made, hook) /\ hook \in Checkpoint /\ made \in Seq(Checkpoint)
      BY <2>1, <2>2 DEF create_checkpoint, IInv, TypeOK
    <2>4. made'[Len(made')] = hook
      BY <2>3
    <2> QED
      BY <2>2, <2>4 DEF create_checkpoint, IInv, MarkIsKept
  <1> QED
    BY TurnInvariant, <1>1, PTL DEF Spec, ReturnedRollbackIsHonoured
=============================================================================
