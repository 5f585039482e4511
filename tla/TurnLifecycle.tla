---------------------------- MODULE TurnLifecycle ----------------------------
(***************************************************************************)
(* workspace/lifecycle.py: the hooks an Agent runtime calls to checkpoint  *)
(* its Session at the start and after every turn.                          *)
(*                                                                         *)
(* The hooks hold `_lock` from their first test to the reply of their      *)
(* checkpoint.create request: `hook`.  rollback() sends its request        *)
(* without the lock and takes it afterwards, to leave the mark that        *)
(* suppresses the next automatic checkpoint: `rollbacks`.  The daemon may  *)
(* refuse a request, and the reply of an executed one may be lost.         *)
(***************************************************************************)
EXTENDS Naturals, Sequences, FiniteSets

CONSTANTS
  TurnIds,     \* turn ids of the runtime
  None,        \* no turn id, no message
  Messages,
  Callers,     \* threads that call rollback
  MaxTurns,    \* bound on checkpointed turns
  MaxRollbacks \* bound on accepted rollbacks

ASSUME NoneAssumption == None \notin TurnIds \cup Messages
ASSUME BoundsAssumption == MaxTurns \in Nat /\ MaxRollbacks \in Nat
ASSUME CallersAssumption == IsFiniteSet(Callers)

VARIABLES
  enabled, session_started, turn_count, last_user_message,
  skip_next,     \* _skip_next_auto_checkpoint
  seen,          \* _seen_turn_ids
  hook,          \* the hook holding _lock and its pending checkpoint, or None
  rollbacks,     \* callers whose rollback succeeded and is not marked yet
  made,          \* automatic checkpoints at the daemon, in order
  undone,        \* history: a rollback succeeded since the last turn end
  undoCount,     \* history: accepted rollbacks
  owed,          \* history: a rollback() returned since the last accepted turn end
  skips          \* history: suppressed turn ends

settings == <<enabled, last_user_message>>
history == <<undone, undoCount, owed, skips>>
vars == <<enabled, session_started, turn_count, last_user_message, skip_next,
          seen, hook, rollbacks, made, undone, undoCount, owed,
          skips>>

Checkpoint == [event : {"session_start", "turn_end"}, turn : 0..MaxTurns,
               id : TurnIds \cup {None}, message : Messages \cup {None},
               success : BOOLEAN]

TypeOK ==
  /\ {enabled, session_started, skip_next, undone, owed} \subseteq BOOLEAN
  /\ turn_count \in 0..MaxTurns
  /\ last_user_message \in Messages \cup {None}
  /\ seen \subseteq TurnIds
  /\ hook \in Checkpoint \cup {None}
  /\ rollbacks \subseteq Callers
  /\ made \in Seq(Checkpoint) /\ Len(made) <= MaxTurns + 1
  /\ undoCount \in 0..MaxRollbacks /\ skips \in 0..MaxRollbacks

Init ==
  /\ enabled \in BOOLEAN
  /\ session_started = FALSE
  /\ turn_count = 0
  /\ last_user_message = None
  /\ skip_next = FALSE
  /\ seen = {}
  /\ hook = None
  /\ rollbacks = {}
  /\ made = <<>>
  /\ undone = FALSE
  /\ undoCount = 0
  /\ owed = FALSE
  /\ skips = 0

LockFree == hook = None

-----------------------------------------------------------------------------
set_enabled(on) ==
  /\ LockFree
  /\ enabled' = on
  /\ UNCHANGED <<session_started, turn_count, last_user_message, skip_next, seen,
                 hook, rollbacks, made, history>>

on_user_message(m) ==
  /\ LockFree
  /\ last_user_message' = m
  /\ UNCHANGED <<enabled, session_started, turn_count, skip_next, seen, hook,
                 rollbacks, made, history>>

\* Faulty variant: starting the session resets the suppression.
Bug_StartClearsMark ==
  /\ LockFree
  /\ enabled /\ ~session_started
  /\ session_started' = TRUE
  /\ skip_next' = FALSE
  /\ hook' = [event |-> "session_start", turn |-> 0, id |-> None,
              message |-> None, success |-> TRUE]
  /\ UNCHANGED <<settings, turn_count, seen, rollbacks, made, history>>

\* The baseline, once per object even if its request fails.
on_session_start ==
  /\ LockFree
  /\ enabled /\ ~session_started
  /\ session_started' = TRUE
  /\ hook' = [event |-> "session_start", turn |-> 0, id |-> None,
              message |-> None, success |-> TRUE]
  /\ UNCHANGED <<settings, turn_count, skip_next, seen, rollbacks, made, history>>

\* A turn end that is ignored: the feature is off, or the id was seen.  With
\* the feature off nothing is recorded, a waiting suppression included.
on_turn_end_ignored(t) ==
  /\ LockFree
  /\ ~enabled \/ t \in seen
  /\ undone' = (undone /\ enabled)
  /\ UNCHANGED <<settings, session_started, turn_count, skip_next, seen, hook,
                 rollbacks, made, undoCount, owed, skips>>

Accepted(t) ==
  /\ LockFree
  /\ enabled /\ t \notin seen
  /\ seen' = seen \cup ({t} \ {None})

\* Faulty variant: the suppression is not used up.
Bug_SuppressionStays(t) ==
  /\ Accepted(t)
  /\ skip_next
  /\ undone' = FALSE /\ owed' = FALSE /\ skips' = skips + 1
  /\ UNCHANGED <<settings, session_started, turn_count, skip_next, hook, rollbacks, made, undoCount>>

on_turn_end_suppressed(t) ==
  /\ Accepted(t)
  /\ skip_next
  /\ skip_next' = FALSE
  /\ undone' = FALSE /\ owed' = FALSE /\ skips' = skips + 1
  /\ UNCHANGED <<settings, session_started, turn_count, hook, rollbacks, made, undoCount>>

on_turn_end(t, completed) ==
  /\ Accepted(t)
  /\ ~skip_next
  /\ turn_count < MaxTurns
  /\ turn_count' = turn_count + 1
  /\ hook' = [event |-> "turn_end", turn |-> turn_count', id |-> t,
              message |-> last_user_message, success |-> completed]
  /\ UNCHANGED <<settings, session_started, skip_next, rollbacks, made, history>>

\* Faulty variant: a request whose reply does not come is sent again.
Bug_CreateRetries ==
  /\ hook # None
  /\ \/ made' = Append(made, hook) /\ UNCHANGED hook
     \/ hook' = None /\ UNCHANGED made
  /\ undone' = (undone /\ hook.event # "turn_end")
  /\ owed' = (owed /\ hook.event # "turn_end")
  /\ UNCHANGED <<settings, session_started, turn_count, skip_next, seen, rollbacks, undoCount, skips>>

\* checkpoint.create: done, or refused; an error, also that of a lost reply,
\* is reported and not retried.
create_checkpoint ==
  /\ hook # None
  /\ hook' = None
  /\ made' \in {made, Append(made, hook)}
  /\ undone' = (undone /\ hook.event # "turn_end")
  /\ owed' = (owed /\ hook.event # "turn_end")
  /\ UNCHANGED <<settings, session_started, turn_count, skip_next, seen, rollbacks, undoCount, skips>>

\* session.rollback succeeds.  A refused one, and one whose reply is lost,
\* raises out of rollback() and leaves no mark.
rollback(t) ==
  /\ t \notin rollbacks
  /\ undoCount < MaxRollbacks /\ undoCount' = undoCount + 1
  /\ rollbacks' = rollbacks \cup {t}
  /\ undone' = TRUE
  /\ UNCHANGED <<settings, session_started, turn_count, skip_next, seen, hook, made, owed, skips>>

mark_rollback(t) ==
  /\ LockFree
  /\ t \in rollbacks
  /\ rollbacks' = rollbacks \ {t}
  /\ skip_next' = TRUE
  /\ owed' = TRUE
  /\ UNCHANGED <<settings, session_started, turn_count, seen, hook, made,
                 undone, undoCount, skips>>

-----------------------------------------------------------------------------
Next ==
  \/ \E on \in BOOLEAN : set_enabled(on)
  \/ \E m \in Messages : on_user_message(m)
  \/ on_session_start
  \/ \E t \in TurnIds \cup {None} :
       \/ on_turn_end_ignored(t)
       \/ on_turn_end_suppressed(t)
       \/ \E completed \in BOOLEAN : on_turn_end(t, completed)
  \/ create_checkpoint
  \/ \E t \in Callers : rollback(t) \/ mark_rollback(t)

Spec == Init /\ [][Next]_vars

-----------------------------------------------------------------------------
(* Properties *)

\* A turn has at most one automatic checkpoint, however often its end is
\* reported, whatever request failed and wherever a rollback came between.
OneCheckpointPerTurn ==
  \A i, j \in 1..Len(made) :
    i # j /\ made[i].event = made[j].event /\ made[i].id = made[j].id =>
      made[i].event = "turn_end" /\ made[i].id = None

\* A turn that ends after rollback() has returned is not saved, whatever
\* hooks, toggles and other rollbacks came between.
ReturnedRollbackIsHonoured ==
  [][Len(made') > Len(made) /\ made'[Len(made')].event = "turn_end" => ~owed]_vars

\* A successful rollback suppresses at most one turn end: the others are
\* saved as usual.
OneSkipPerRollback ==
  skips + (IF skip_next THEN 1 ELSE 0) <= undoCount - Cardinality(rollbacks)

\* What the hooks remember of the checkpoints: the one being made and those
\* that were made are of a session that was started or of turns that were
\* seen, and the one being made is of none of theirs.
Recorded(c) ==
  IF c.event = "session_start" THEN session_started ELSE c.id \in seen \cup {None}
SameTurn(c, d) == c.event = d.event /\ c.id = d.id
Repeatable(c) == c.event = "turn_end" /\ c.id = None

HooksRemember ==
  /\ \A i \in 1..Len(made) : Recorded(made[i])
  /\ hook # None => /\ Recorded(hook)
                    /\ \A i \in 1..Len(made) : SameTurn(made[i], hook) => Repeatable(hook)
  /\ Len(made) + (IF hook = None THEN 0 ELSE 1)
       <= turn_count + (IF session_started THEN 1 ELSE 0)

\* A rollback() that has returned left its mark, and no hook is on the way to
\* save a turn that the mark should have suppressed.
MarkIsKept ==
  /\ owed => skip_next
  /\ hook # None /\ hook.event = "turn_end" => ~owed

\* The inductive invariant behind the properties above.
IInv == TypeOK /\ HooksRemember /\ OneCheckpointPerTurn /\ MarkIsKept /\ OneSkipPerRollback

\* The turn-end checkpoint that immediately follows a successful rollback is
\* never taken.
RolledBackTurnIsNotSaved ==
  [][Len(made') > Len(made) /\ made'[Len(made')].event = "turn_end" => ~undone]_vars
=============================================================================
