------------------------ MODULE SessionServicesProofs ------------------------
(***************************************************************************)
(* The execution registry and the two services that are built on it, the   *)
(* share service beside rollbacks, resets, executions and crashes, and the *)
(* network manager beside runs, configure requests, exiting helpers,       *)
(* shutdown and crashes: for any number of Sessions, handlers, tokens,     *)
(* writes, rollbacks, attempts, faults and crashes.                        *)
(***************************************************************************)
EXTENDS SessionShare, SessionNetwork, FiniteSetTheorems, TLAPS

-----------------------------------------------------------------------------
(* The execution registry *)

\* The empty tables of a fresh daemon satisfy the inductive invariant.
LEMMA InitIInv == Init => IInv
  <1> SUFFICES ASSUME Init PROVE IInv
    OBVIOUS
  <1> USE NoneAssumption DEF Init, Empty, Idle
  <1>1. TypeOK
    BY DEF TypeOK, Kinds
  <1>2. TokensAreKnown /\ OneLeasePerSession
    BY DEF TokensAreKnown, OneLeasePerSession
  <1>3. FenceHasOneOwner
    BY DEF FenceHasOneOwner, Inside
  <1>4. MutationIsExclusive /\ RecoveryIsAlone
    BY DEF MutationIsExclusive, RecoveryIsAlone, RecoveryLeased
  <1>5. ReadersAreCounted
    <2>1. \A s \in Sessions : {h \in Handlers : Inside(h, "share_read", s)} = {}
      BY DEF Inside
    <2> QED
      BY <2>1, FS_EmptySet DEF ReadersAreCounted
  <1> QED
    BY <1>1, <1>2, <1>3, <1>4, <1>5 DEF IInv

\* What is inside a share read of s, for counting.
Readers(s) == {h \in Handlers : Inside(h, "share_read", s)}

\* Handlers are finitely many, so the readers of a Session can be counted.
LEMMA ReadersFinite == \A s : IsFiniteSet(Readers(s))
  BY HandlersAssumption, FS_Subset DEF Readers

\* A set loses one element.
LEMMA OneLess ==
  ASSUME NEW S, IsFiniteSet(S), NEW x \in S
  PROVE  Cardinality(S \ {x}) = Cardinality(S) - 1 /\ Cardinality(S \ {x}) \in Nat
  BY FS_RemoveElement, FS_CardinalityType

\* acquire and release touch only leases: the fence is unaffected, and a
\* fresh token holds nothing.
LEMMA LeaseSteps ==
  ASSUME IInv,
         \/ \E s \in Sessions, t \in Tokens, recovery \in BOOLEAN : acquire(s, recovery, t)
         \/ \E t \in Tokens : release(t)
  PROVE  IInv'
  <1> USE NoneAssumption DEF IInv
  <1>1. ASSUME NEW s \in Sessions, NEW t \in Tokens, NEW recovery \in BOOLEAN,
               acquire(s, recovery, t)
        PROVE  IInv'
    <2> USE <1>1 DEF acquire, Fresh, TypeOK, TokensAreKnown
    <2>1. TypeOK' /\ TokensAreKnown'
      OBVIOUS
    <2>2. FenceHasOneOwner'
      BY DEF FenceHasOneOwner, Inside
    <2>3. MutationIsExclusive'
      BY DEF MutationIsExclusive, Leased
    <2>4. OneLeasePerSession'
      BY DEF OneLeasePerSession, Leased
    <2>5. RecoveryIsAlone'
      BY DEF RecoveryIsAlone, RecoveryLeased
    <2>6. ReadersAreCounted'
      BY DEF ReadersAreCounted, Inside
    <2> QED
      BY <2>1, <2>2, <2>3, <2>4, <2>5, <2>6
  <1>2. ASSUME NEW t \in Tokens, release(t)
        PROVE  IInv'
    <2> USE <1>2 DEF release, TypeOK, TokensAreKnown
    <2>1. TypeOK' /\ TokensAreKnown'
      OBVIOUS
    <2>2. FenceHasOneOwner'
      BY DEF FenceHasOneOwner, Inside
    <2>3. MutationIsExclusive' /\ OneLeasePerSession'
      BY DEF MutationIsExclusive, OneLeasePerSession, Leased
    <2>4. RecoveryIsAlone'
      BY DEF RecoveryIsAlone, RecoveryLeased
    <2>5. ReadersAreCounted'
      BY DEF ReadersAreCounted, Inside
    <2> QED
      BY <2>1, <2>2, <2>3, <2>4, <2>5
  <1> QED
    BY <1>1, <1>2

\* A background execution is registered only on an unfenced Session without a
\* recovery lease; a reset fences an idle Session and lifts only its own fence.
LEMMA RuntimeSteps ==
  ASSUME IInv,
         \/ \E s \in Sessions, x \in Executions : register_background(s, x)
         \/ \E s \in Sessions, t \in Tokens : begin_runtime_reset(s, t)
         \/ \E t \in Tokens, success \in BOOLEAN : complete_runtime_reset(t, success)
  PROVE  IInv'
  <1> USE NoneAssumption DEF IInv, TypeOK, TokensAreKnown
  <1>1. ASSUME NEW s \in Sessions, NEW x \in Executions, register_background(s, x)
        PROVE  IInv'
    <2> USE <1>1 DEF register_background
    <2>1. TypeOK' /\ TokensAreKnown'
      OBVIOUS
    <2>2. FenceHasOneOwner'
      BY DEF FenceHasOneOwner, Inside
    <2>3. MutationIsExclusive'
      <3>1. ASSUME NEW h \in Handlers, op[h].kind = "mutation"
            PROVE  op[h].key # s
        <4>1. Inside(h, "mutation", op[h].key)
          BY <3>1 DEF Inside
        <4>2. op[h].key \in mutating
          BY <3>1, <4>1 DEF FenceHasOneOwner
        <4> QED
          BY <4>2
      <3> QED
        BY <3>1 DEF MutationIsExclusive, Leased
    <2>4. OneLeasePerSession' /\ RecoveryIsAlone'
      BY DEF OneLeasePerSession, RecoveryIsAlone, RecoveryLeased
    <2>5. ReadersAreCounted'
      BY DEF ReadersAreCounted, Inside
    <2> QED
      BY <2>1, <2>2, <2>3, <2>4, <2>5
  <1>2. ASSUME NEW s \in Sessions, NEW t \in Tokens, begin_runtime_reset(s, t)
        PROVE  IInv'
    <2> USE <1>2 DEF begin_runtime_reset, Fresh
    <2>1. TypeOK' /\ TokensAreKnown'
      OBVIOUS
    <2>2. FenceHasOneOwner'
      BY DEF FenceHasOneOwner, Inside
    <2>3. MutationIsExclusive' /\ OneLeasePerSession'
      BY DEF MutationIsExclusive, OneLeasePerSession, Leased
    <2>4. RecoveryIsAlone'
      BY DEF RecoveryIsAlone, RecoveryLeased, Leased
    <2>5. ReadersAreCounted'
      BY DEF ReadersAreCounted, Inside
    <2> QED
      BY <2>1, <2>2, <2>3, <2>4, <2>5
  <1>3. ASSUME NEW t \in Tokens, NEW success \in BOOLEAN,
               complete_runtime_reset(t, success)
        PROVE  IInv'
    <2> USE <1>3 DEF complete_runtime_reset
    <2>1. TypeOK' /\ TokensAreKnown'
      OBVIOUS
    <2>2. FenceHasOneOwner'
      BY DEF FenceHasOneOwner, Inside
    <2>3. MutationIsExclusive' /\ OneLeasePerSession'
      BY DEF MutationIsExclusive, OneLeasePerSession, Leased
    <2>4. RecoveryIsAlone'
      BY DEF RecoveryIsAlone, RecoveryLeased
    <2>5. ReadersAreCounted'
      BY DEF ReadersAreCounted, Inside
    <2> QED
      BY <2>1, <2>2, <2>3, <2>4, <2>5
  <1> QED
    BY <1>1, <1>2, <1>3

\* A handler enters mutation() on an idle, unfenced Session and is then its
\* only owner; leaving discards exactly the fence it owned.
LEMMA MutationSteps ==
  ASSUME IInv,
         \/ \E h \in Handlers, s \in Sessions : mutation_enter(h, s)
         \/ \E h \in Handlers : mutation_exit(h)
  PROVE  IInv'
  <1> USE NoneAssumption DEF IInv, TypeOK, TokensAreKnown, Kinds, Idle
  <1>1. ASSUME NEW h \in Handlers, NEW s \in Sessions, mutation_enter(h, s)
        PROVE  IInv'
    <2> USE <1>1 DEF mutation_enter, Enter
    <2>1. TypeOK' /\ TokensAreKnown'
      OBVIOUS
    <2>2. FenceHasOneOwner'
      <3>1. \A g \in Handlers, z \in Sessions :
              Inside(g, "mutation", z)' <=> Inside(g, "mutation", z) \/ (g = h /\ z = s)
        BY DEF Inside
      <3>2. \A g \in Handlers : ~Inside(g, "mutation", s)
        BY DEF FenceHasOneOwner
      <3>3. \A t \in Tokens : resets[t] # s
        BY DEF FenceHasOneOwner
      <3> QED
        BY <3>1, <3>2, <3>3 DEF FenceHasOneOwner
    <2>3. MutationIsExclusive' /\ OneLeasePerSession'
      BY DEF MutationIsExclusive, OneLeasePerSession, Leased
    <2>4. RecoveryIsAlone'
      BY DEF RecoveryIsAlone, RecoveryLeased, Leased
    <2>5. ReadersAreCounted'
      <3>1. \A z \in Sessions : Readers(z)' = Readers(z)
        BY DEF Readers, Inside
      <3> QED
        BY <3>1 DEF ReadersAreCounted, Readers
    <2> QED
      BY <2>1, <2>2, <2>3, <2>4, <2>5
  <1>2. ASSUME NEW h \in Handlers, mutation_exit(h)
        PROVE  IInv'
    <2> USE <1>2 DEF mutation_exit, Leave
    <2>1. TypeOK' /\ TokensAreKnown'
      OBVIOUS
    <2>2. FenceHasOneOwner'
      <3>1. Inside(h, "mutation", op[h].key)
        BY DEF Inside
      <3> QED
        BY <3>1 DEF FenceHasOneOwner, Inside
    <2>3. MutationIsExclusive' /\ OneLeasePerSession'
      BY DEF MutationIsExclusive, OneLeasePerSession, Leased
    <2>4. RecoveryIsAlone'
      BY DEF RecoveryIsAlone, RecoveryLeased
    <2>5. ReadersAreCounted'
      <3>1. \A z \in Sessions : Readers(z)' = Readers(z)
        BY DEF Readers, Inside
      <3> QED
        BY <3>1 DEF ReadersAreCounted, Readers
    <2> QED
      BY <2>1, <2>2, <2>3, <2>4, <2>5
  <1> QED
    BY <1>1, <1>2

\* reset_mutation changes no table; it only moves the handler.
LEMMA ResetMutationSteps ==
  ASSUME IInv,
         \/ \E h \in Handlers, t \in Tokens : reset_mutation_enter(h, t)
         \/ \E h \in Handlers : reset_mutation_exit(h)
  PROVE  IInv'
  <1> USE NoneAssumption DEF IInv, TypeOK, TokensAreKnown, Kinds, Idle
  <1>1. PICK h \in Handlers, k \in {"idle", "reset_mutation"}, z \in Sessions \cup {None} :
             /\ op[h].kind \in {"idle", "reset_mutation"}
             /\ k # "idle" => z \in Sessions
             /\ op' = [op EXCEPT ![h] = [kind |-> k, key |-> z]]
    BY DEF reset_mutation_enter, reset_mutation_exit, Enter, Leave
  <1>2. UNCHANGED <<leases, recoveryLeases, mutating, background, resets, shareReaders, issued>>
    BY DEF reset_mutation_enter, reset_mutation_exit, tables
  <1>3. \A s : \A g \in Handlers : /\ Inside(g, "mutation", s)' <=> Inside(g, "mutation", s)
                                   /\ Inside(g, "share_read", s)' <=> Inside(g, "share_read", s)
    BY <1>1 DEF Inside
  <1>4. TypeOK' /\ TokensAreKnown'
    BY <1>1, <1>2
  <1>5. FenceHasOneOwner'
    BY <1>2, <1>3 DEF FenceHasOneOwner
  <1>6. MutationIsExclusive'
    BY <1>1, <1>2 DEF MutationIsExclusive, Leased
  <1>7. OneLeasePerSession' /\ RecoveryIsAlone'
    BY <1>2 DEF OneLeasePerSession, RecoveryIsAlone, RecoveryLeased
  <1>8. ReadersAreCounted'
    <2>1. \A s \in Sessions : {g \in Handlers : Inside(g, "share_read", s)}'
                            = {g \in Handlers : Inside(g, "share_read", s)}
      BY <1>3
    <2> QED
      BY <1>2, <2>1 DEF ReadersAreCounted
  <1> QED
    BY <1>4, <1>5, <1>6, <1>7, <1>8

\* A share read adds its handler to the readers of one Session, or removes
\* it, and the counter follows.
LEMMA ShareSteps ==
  ASSUME IInv,
         \/ \E h \in Handlers, s \in Sessions : share_access_enter(h, s)
         \/ \E h \in Handlers : share_access_exit(h)
  PROVE  IInv'
  <1> USE NoneAssumption DEF IInv, TypeOK, TokensAreKnown, Kinds, Idle
  <1>1. ASSUME NEW h \in Handlers, NEW s \in Sessions, share_access_enter(h, s)
        PROVE  IInv'
    <2> USE <1>1 DEF share_access_enter, Enter
    <2>1. TypeOK' /\ TokensAreKnown'
      OBVIOUS
    <2>2. FenceHasOneOwner'
      BY DEF FenceHasOneOwner, Inside
    <2>3. MutationIsExclusive' /\ OneLeasePerSession'
      BY DEF MutationIsExclusive, OneLeasePerSession, Leased
    <2>4. RecoveryIsAlone'
      BY DEF RecoveryIsAlone, RecoveryLeased
    <2>5. ReadersAreCounted'
      <3>1. Readers(s)' = Readers(s) \cup {h} /\ h \notin Readers(s)
        BY DEF Readers, Inside
      <3>2. \A z \in Sessions \ {s} : Readers(z)' = Readers(z)
        BY DEF Readers, Inside
      <3>3. Cardinality(Readers(s)') = Cardinality(Readers(s)) + 1
        BY <3>1, ReadersFinite, FS_AddElement
      <3>4. ASSUME NEW z \in Sessions
            PROVE  shareReaders'[z] = Cardinality(Readers(z)')
        <4>1. shareReaders[z] = Cardinality(Readers(z))
          BY DEF ReadersAreCounted, Readers
        <4>2. CASE z = s
          BY <3>3, <4>1, <4>2
        <4>3. CASE z # s
          BY <3>2, <4>1, <4>3
        <4> QED
          BY <4>2, <4>3
      <3> QED
        BY <3>4 DEF ReadersAreCounted, Readers
    <2> QED
      BY <2>1, <2>2, <2>3, <2>4, <2>5
  <1>2. ASSUME NEW h \in Handlers, share_access_exit(h)
        PROVE  IInv'
    <2> USE <1>2 DEF share_access_exit, Leave
    <2>1. PICK s \in Sessions : s = op[h].key
      OBVIOUS
    <2>2. Readers(s)' = Readers(s) \ {h} /\ h \in Readers(s)
      BY <2>1 DEF Readers, Inside
    <2>3. Cardinality(Readers(s)') = Cardinality(Readers(s)) - 1
      <3>1. IsFiniteSet(Readers(s))
        BY ReadersFinite
      <3>2. Cardinality(Readers(s) \ {h}) = Cardinality(Readers(s)) - 1
        BY <2>2, <3>1, OneLess
      <3> QED
        BY <2>2, <3>2
    <2>4. Cardinality(Readers(s)') \in Nat
      BY <2>2, ReadersFinite, FS_Subset, FS_CardinalityType
    <2>5. shareReaders[s] = Cardinality(Readers(s))
      BY <2>1 DEF ReadersAreCounted, Readers
    <2>6. shareReaders[s] - 1 \in Nat
      BY <2>3, <2>4, <2>5
    <2>7. TypeOK' /\ TokensAreKnown'
      BY <2>1, <2>6
    <2>8. FenceHasOneOwner'
      BY DEF FenceHasOneOwner, Inside
    <2>9. MutationIsExclusive'
      <3>1. s \notin mutating
        BY <2>1, <2>6 DEF MutationIsExclusive
      <3> QED
        BY <2>1, <3>1 DEF MutationIsExclusive, Leased
    <2>10. OneLeasePerSession'
      BY DEF OneLeasePerSession
    <2>11. RecoveryIsAlone'
      <3>1. ~RecoveryLeased(s)
        BY <2>1, <2>6 DEF RecoveryIsAlone
      <3> QED
        BY <2>1, <3>1 DEF RecoveryIsAlone, RecoveryLeased
    <2>12. ReadersAreCounted'
      <3>1. \A z \in Sessions \ {s} : Readers(z)' = Readers(z)
        BY <2>1 DEF Readers, Inside
      <3>2. ASSUME NEW z \in Sessions
            PROVE  shareReaders'[z] = Cardinality(Readers(z)')
        <4>1. shareReaders[z] = Cardinality(Readers(z))
          BY DEF ReadersAreCounted, Readers
        <4>2. CASE z = s
          BY <2>1, <2>3, <2>5, <4>2
        <4>3. CASE z # s
          BY <2>1, <3>1, <4>1, <4>3
        <4> QED
          BY <4>2, <4>3
      <3> QED
        BY <3>2 DEF ReadersAreCounted, Readers
    <2> QED
      BY <2>7, <2>8, <2>9, <2>10, <2>11, <2>12
  <1> QED
    BY <1>1, <1>2

\* A restarted daemon starts from empty tables; tokens stay issued.
LEMMA RestartStep == IInv /\ Restart => IInv'
  <1> SUFFICES ASSUME IInv, Restart PROVE IInv'
    OBVIOUS
  <1> USE NoneAssumption DEF IInv, TypeOK, Restart, Idle, Kinds
  <1>1. TypeOK' /\ TokensAreKnown' /\ OneLeasePerSession'
    BY DEF TokensAreKnown, OneLeasePerSession
  <1>2. FenceHasOneOwner'
    BY DEF FenceHasOneOwner, Inside
  <1>3. MutationIsExclusive' /\ RecoveryIsAlone'
    BY DEF MutationIsExclusive, RecoveryIsAlone, RecoveryLeased, Leased
  <1>4. ReadersAreCounted'
    <2>1. \A s \in Sessions : Readers(s)' = {}
      BY DEF Readers, Inside
    <2> QED
      BY <2>1, FS_EmptySet DEF ReadersAreCounted, Readers
  <1> QED
    BY <1>1, <1>2, <1>3, <1>4

\* Each request handler preserves the inductive invariant, and so does a
\* step of the system that leaves the registry alone.
LEMMA RegistryStep == IInv /\ [Next]_vars => IInv'
  <1> SUFFICES ASSUME IInv, [Next]_vars PROVE IInv'
    OBVIOUS
  <1>1. CASE UNCHANGED vars
    <2> USE <1>1 DEF vars, IInv
    <2>1. TypeOK' /\ TokensAreKnown' /\ OneLeasePerSession'
      BY DEF TypeOK, TokensAreKnown, OneLeasePerSession
    <2>2. FenceHasOneOwner' /\ ReadersAreCounted'
      BY DEF FenceHasOneOwner, ReadersAreCounted, Inside
    <2>3. MutationIsExclusive' /\ RecoveryIsAlone'
      BY DEF MutationIsExclusive, RecoveryIsAlone, RecoveryLeased, Leased
    <2> QED
      BY <2>1, <2>2, <2>3
  <1>2. CASE Next
    BY <1>2, LeaseSteps, RuntimeSteps, MutationSteps, ResetMutationSteps,
       ShareSteps, RestartStep DEF Next
  <1> QED
    BY <1>1, <1>2

\* IInv is an invariant of every behaviour of the registry.
THEOREM RegistryInvariant == Spec => []IInv
  BY InitIInv, RegistryStep, PTL DEF Spec

\* The registry's tables keep their types: in particular the share-reader
\* count never goes below zero, however handlers enter and leave.
THEOREM TypeCorrect == Spec => []TypeOK
  <1>1. IInv => TypeOK
    BY DEF IInv
  <1> QED
    BY <1>1, RegistryInvariant, PTL

\* Whatever the interleaving of requests, a mutation fence has one owner: the
\* first to leave never opens it under another.
THEOREM FenceOwnership == Spec => []FenceHasOneOwner
  <1>1. IInv => FenceHasOneOwner
    BY DEF IInv
  <1> QED
    BY <1>1, RegistryInvariant, PTL

\* A fenced Session has no leased execution, share reader or (inside
\* mutation()) background execution beside it.
THEOREM MutationExclusion == Spec => []MutationIsExclusive
  <1>1. IInv => MutationIsExclusive
    BY DEF IInv
  <1> QED
    BY <1>1, RegistryInvariant, PTL

\* Executions exclude each other, and a recovery execution also excludes
\* share readers and background executions until it is released.
THEOREM ExecutionExclusion == Spec => [](OneLeasePerSession /\ RecoveryIsAlone)
  <1>1. IInv => OneLeasePerSession /\ RecoveryIsAlone
    BY DEF IInv
  <1> QED
    BY <1>1, RegistryInvariant, PTL

-----------------------------------------------------------------------------
(* The share service *)

\* Every step of the share service and of the store's handlers is a call of
\* the registry or leaves it alone.
LEMMA StepUsesRegistry ==
  ASSUME IInv, JobsAreTyped, [ShareNext]_allvars
  PROVE  [Next]_vars
  <1>1. CASE UNCHANGED allvars
    BY <1>1 DEF allvars, vars
  <1>2. ASSUME NEW h \in Handlers, share_access(h) PROVE [Next]_vars
    BY <1>2 DEF share_access, JobsAreTyped, At, Next
  <1>3. ASSUME NEW h \in Handlers, share_leave(h) PROVE [Next]_vars
    BY <1>3 DEF share_leave, Next
  <1>4. ASSUME NEW h \in Handlers, end_mutation(h) PROVE [Next]_vars
    BY <1>4 DEF end_mutation, Next
  <1>5. ASSUME NEW h \in Handlers, NEW s \in Sessions, NEW action, begin_mutation(h, s, action)
        PROVE  [Next]_vars
    BY <1>5 DEF begin_mutation, Next
  <1>6. ASSUME NEW h \in Handlers, NEW t \in Tokens, begin_reset_rollback(h, t)
        PROVE  [Next]_vars
    BY <1>6 DEF begin_reset_rollback, Next
  <1>7. CASE Crash
    BY <1>7 DEF Crash, Next
  <1>8. ASSUME NEW h \in Handlers,
               \/ \E caller, target \in Sessions, action \in Accesses :
                    dispatch(h, caller, target, action)
               \/ lock_target(h) \/ open_path(h) \/ read(h) \/ write_prepared(h) \/ replace(h)
               \/ \E w \in Writes : write_temporary(h, w)
               \/ unlink(h) \/ store_lock(h) \/ create_checkpoint(h) \/ swap_out(h) \/ swap_in(h)
        PROVE  UNCHANGED vars
    BY <1>8 DEF dispatch, lock_target, open_path, read, write_temporary, write_prepared, replace,
                unlink, store_lock, create_checkpoint, swap_out, swap_in
  <1>9. CASE \/ \E caller \in Sessions, permission \in Permissions : enable(caller, permission)
             \/ \E caller \in Sessions : disable(caller)
    BY <1>9 DEF enable, disable
  <1>10. CASE \/ \E s \in Sessions, t \in Tokens, recovery \in BOOLEAN : acquire(s, recovery, t)
              \/ \E t \in Tokens : release(t)
              \/ \E s \in Sessions, x \in Executions : register_background(s, x)
              \/ \E s \in Sessions, t \in Tokens : begin_runtime_reset(s, t)
              \/ \E t \in Tokens, success \in BOOLEAN : complete_runtime_reset(t, success)
    BY <1>10 DEF Next
  <1> QED
    BY <1>1, <1>2, <1>3, <1>4, <1>5, <1>6, <1>7, <1>8, <1>9, <1>10 DEF ShareNext

\* The part of the invariant that is about the share service and the files.
ShareInv ==
  /\ ShareTypeOK
  /\ JobsAreTyped
  /\ JobsHoldLocks
  /\ AccessSeesOneTree
  /\ FilesAreTracked
  /\ WritesLeaveNoStray

LEMMA InitShareInv == ShareInit => ShareIInv
  <1> SUFFICES ASSUME ShareInit PROVE ShareIInv
    OBVIOUS
  <1> USE NamesAssumption, NoneAssumption, SwapsAssumption, CrashesAssumption
      DEF ShareInit, NoJob
  <1>1. IInv
    BY InitIInv
  <1>2. ShareTypeOK
    BY DEF ShareTypeOK
  <1>3. JobsAreTyped
    BY DEF JobsAreTyped, Job, At, Writing
  <1>4. JobsHoldLocks
    BY DEF JobsHoldLocks, Accessing, Locked, Storing
  <1>5. AccessSeesOneTree /\ FilesAreTracked /\ WritesLeaveNoStray
    BY DEF AccessSeesOneTree, FilesAreTracked, WritesLeaveNoStray, Open, At
  <1> QED
    BY <1>1, <1>2, <1>3, <1>4, <1>5 DEF ShareIInv

\* Policies change only while nobody accesses anything.
LEMMA PolicySteps ==
  ASSUME ShareInv,
         \/ \E caller \in Sessions, permission \in Permissions : enable(caller, permission)
         \/ \E caller \in Sessions : disable(caller)
  PROVE  ShareInv'
  <1> USE DEF ShareInv, enable, disable, files
  <1>1. ShareTypeOK'
    BY DEF ShareTypeOK, Permissions
  <1>2. JobsAreTyped'
    BY DEF JobsAreTyped, At
  <1>3. JobsHoldLocks'
    BY NamesAssumption DEF JobsHoldLocks, Accessing
  <1>4. AccessSeesOneTree' /\ WritesLeaveNoStray'
    BY DEF AccessSeesOneTree, Open, InCurrent, WritesLeaveNoStray
  <1>5. FilesAreTracked'
    BY DEF FilesAreTracked, At
  <1> QED
    BY <1>1, <1>2, <1>3, <1>4, <1>5

\* A handler starts: an access takes the share lock with both policies read,
\* a checkpoint or a rollback takes nothing yet.
LEMMA BeginSteps ==
  ASSUME IInv, ShareInv, NEW h \in Handlers,
         \/ \E caller, target \in Sessions, action \in Accesses :
              dispatch(h, caller, target, action)
         \/ \E s \in Sessions, action \in {"checkpoint", "rollback"} : begin_mutation(h, s, action)
         \/ \E t \in Tokens : begin_reset_rollback(h, t)
  PROVE  ShareInv'
  <1> USE NamesAssumption DEF ShareInv, files
  <1>1. ASSUME NEW caller \in Sessions, NEW target \in Sessions, NEW action \in Accesses,
               dispatch(h, caller, target, action)
        PROVE  ShareInv'
    <2>1. /\ job[h].pc = "idle" /\ lock = None /\ Allows(caller, target, action)
          /\ lock' = h
          /\ UNCHANGED <<policy, sessionLock, files, crashes, stranded>>
          /\ job' = [job EXCEPT ![h] = [NoJob EXCEPT !.pc = "enter", !.action = action,
                                                    !.caller = caller, !.key = target]]
      BY <1>1 DEF dispatch, At
    <2>2. /\ job'[h].pc = "enter" /\ job'[h].action = action
          /\ job'[h].caller = caller /\ job'[h].key = target
          /\ \A g \in Handlers \ {h} : job'[g] = job[g]
      BY <2>1 DEF JobsAreTyped, NoJob
    <2>3. ShareTypeOK'
      BY <2>1 DEF ShareTypeOK
    <2>4. JobsAreTyped'
      BY <2>1 DEF JobsAreTyped, Job, At, Accessing, NoJob, Writing
    <2>5. JobsHoldLocks'
      BY <2>1, <2>2 DEF JobsHoldLocks, Accessing, Locked, Storing, Allows
    <2>6. AccessSeesOneTree' /\ WritesLeaveNoStray'
      BY <2>1, <2>2 DEF AccessSeesOneTree, Open, InCurrent, WritesLeaveNoStray
    <2>7. FilesAreTracked'
      BY <2>1, <2>2 DEF FilesAreTracked, At, Writing
    <2> QED
      BY <2>3, <2>4, <2>5, <2>6, <2>7
  <1>2. ASSUME NEW s \in Sessions, NEW action \in {"checkpoint", "rollback"},
               At(h, "idle"),
               job' = [job EXCEPT ![h] = [NoJob EXCEPT !.pc = "store", !.action = action, !.key = s]],
               UNCHANGED <<policy, lock, sessionLock, files, crashes, stranded>>
        PROVE  ShareInv'
    <2> USE <1>2 DEF NoJob
    <2>1. ShareTypeOK'
      BY DEF ShareTypeOK
    <2>2. JobsAreTyped'
      BY DEF JobsAreTyped, Job, At, Storing, Writing
    <2>3. JobsHoldLocks'
      BY DEF JobsAreTyped, Job, JobsHoldLocks, Accessing, Locked, Storing, Allows, At
    <2>4. AccessSeesOneTree' /\ WritesLeaveNoStray'
      BY DEF JobsAreTyped, Job, AccessSeesOneTree, Open, InCurrent, WritesLeaveNoStray, At
    <2>5. FilesAreTracked'
      BY DEF JobsAreTyped, Job, FilesAreTracked, At, Writing
    <2> QED
      BY <2>1, <2>2, <2>3, <2>4, <2>5
  <1>3. ASSUME NEW t \in Tokens, begin_reset_rollback(h, t) PROVE ShareInv'
    <2>1. resets[t] \in Sessions
      BY <1>3 DEF begin_reset_rollback, reset_mutation_enter, IInv, TypeOK
    <2> QED
      BY <1>2, <1>3, <2>1 DEF begin_reset_rollback
  <1>4. ASSUME NEW s \in Sessions, NEW action \in {"checkpoint", "rollback"},
               begin_mutation(h, s, action)
        PROVE  ShareInv'
    BY <1>2, <1>4 DEF begin_mutation
  <1> QED
    BY <1>1, <1>3, <1>4

\* What a step that moves one handler owes: the new position has its types,
\* and the locks are held as it says.
LEMMA Moves ==
  ASSUME JobsAreTyped, JobsHoldLocks, NEW h \in Handlers, NEW j \in Job,
         job' = [job EXCEPT ![h] = j], UNCHANGED policy,
         j.pc # "idle" => j.key \in Sessions,
         j.pc = "store" => j.action \in {"checkpoint", "rollback"},
         j.pc \in Writing => j.file \in Writes,
         j.pc \in Accessing \ {"leave"} => Allows(j.caller, j.key, j.action),
         lock' = h <=> j.pc \in Accessing,
         \A g \in Handlers \ {h} : lock' = g <=> lock = g,
         \A s \in Sessions : sessionLock'[s] = h <=> j.pc \in Locked /\ j.key = s,
         \A s \in Sessions, g \in Handlers \ {h} : sessionLock'[s] = g <=> sessionLock[s] = g
  PROVE  /\ JobsAreTyped' /\ JobsHoldLocks'
         /\ job'[h] = j /\ \A g \in Handlers \ {h} : job'[g] = job[g]
  <1>1. job'[h] = j /\ \A g \in Handlers \ {h} : job'[g] = job[g]
    BY DEF JobsAreTyped
  <1>2. JobsAreTyped'
    BY <1>1 DEF JobsAreTyped, At
  <1>3. JobsHoldLocks'
    BY <1>1 DEF JobsHoldLocks, Allows
  <1> QED
    BY <1>1, <1>2, <1>3

\* The registry admits the access, or refuses it and dispatch() returns.
LEMMA AccessStep ==
  ASSUME ShareInv, NEW h \in Handlers, share_access(h)
  PROVE  ShareInv'
  <1> USE NamesAssumption DEF ShareInv
  <1>1. /\ job[h].pc = "enter" /\ lock = h
        /\ UNCHANGED <<policy, sessionLock, files, crashes, stranded>>
    BY DEF share_access, At, JobsHoldLocks, Accessing
  <1>2. PICK j \in Job :
          /\ job' = [job EXCEPT ![h] = j]
          /\ \/ j = [job[h] EXCEPT !.pc = "lock"] /\ lock' = lock
             \/ j = NoJob /\ lock' = None
    <2>1. [job[h] EXCEPT !.pc = "lock"] \in Job /\ NoJob \in Job
      BY DEF JobsAreTyped, Job, NoJob, Accessing
    <2> QED
      BY <2>1 DEF share_access, Goto, Return
  <1>3. j.pc \in {"lock", "idle"} /\ (j.pc = "lock" => j = [job[h] EXCEPT !.pc = "lock"])
    BY <1>2 DEF NoJob, JobsAreTyped, Job
  <1>4. /\ JobsAreTyped' /\ JobsHoldLocks'
        /\ job'[h] = j /\ \A g \in Handlers \ {h} : job'[g] = job[g]
    <2>1. \A s \in Sessions : sessionLock[s] # h
      BY <1>1 DEF JobsHoldLocks, Locked, Accessing, Storing
    <2>2. /\ j.pc # "idle" => j.key \in Sessions
          /\ j.pc \in Accessing \ {"leave"} => Allows(j.caller, j.key, j.action)
      BY <1>1, <1>2, <1>3 DEF JobsAreTyped, Job, JobsHoldLocks, Accessing, At
    <2>3. lock' = h <=> j.pc \in Accessing
      BY <1>1, <1>2 DEF NoJob, Accessing, JobsAreTyped, Job
    <2>4. j.pc \notin Locked /\ j.pc # "store" /\ j.pc \notin Writing
      BY <1>3 DEF Locked, Accessing, Storing, Writing
    <2> HIDE DEF ShareInv
    <2>5. \A g \in Handlers \ {h} : lock' = g <=> lock = g
      BY <1>1, <1>2
    <2> QED
      BY <1>1, <1>2, <2>1, <2>2, <2>3, <2>4, <2>5, <1>3, Moves DEF ShareInv
  <1>5. ShareTypeOK'
    BY <1>1, <1>2 DEF ShareTypeOK, files
  <1>6. AccessSeesOneTree' /\ WritesLeaveNoStray'
    BY <1>1, <1>3, <1>4 DEF AccessSeesOneTree, Open, InCurrent, WritesLeaveNoStray, files
  <1>7. FilesAreTracked'
    BY <1>1, <1>3, <1>4 DEF FilesAreTracked, At, Writing, files
  <1> QED
    BY <1>4, <1>5, <1>6, <1>7

\* A step inside the Session lock that takes and drops no lock.
LEMMA StaysInside ==
  ASSUME JobsAreTyped, JobsHoldLocks, NEW h \in Handlers, NEW j \in Job,
         job' = [job EXCEPT ![h] = j], UNCHANGED <<policy, lock, sessionLock>>,
         job[h].pc \in Locked, j.pc \in Locked, j.key = job[h].key,
         job[h].pc \in Accessing <=> j.pc \in Accessing,
         j.pc \in Accessing \ {"leave"} =>
           job[h].pc # "leave" /\ j.caller = job[h].caller /\ j.action = job[h].action,
         j.pc \in Writing => j.file \in Writes
  PROVE  /\ JobsAreTyped' /\ JobsHoldLocks'
         /\ job'[h] = j /\ \A g \in Handlers \ {h} : job'[g] = job[g]
         /\ j.key \in Sessions
         /\ \A g \in Handlers \ {h} : job[g].pc \in Locked => job[g].key # j.key
  <1>1. j.pc # "idle" /\ j.pc # "store" /\ job[h].pc # "idle"
    BY DEF Locked, Accessing, Storing
  <1>2. j.key \in Sessions
    BY <1>1 DEF JobsAreTyped, At
  <1>3. j.pc \in Accessing \ {"leave"} => Allows(j.caller, j.key, j.action)
    BY DEF JobsHoldLocks
  <1>4. sessionLock[j.key] = h
    BY <1>2 DEF JobsHoldLocks
  <1>5. \A s \in Sessions : sessionLock[s] = h <=> j.key = s
    BY DEF JobsHoldLocks
  <1>6. lock = h <=> j.pc \in Accessing
    BY DEF JobsHoldLocks
  <1>7. /\ JobsAreTyped' /\ JobsHoldLocks'
        /\ job'[h] = j /\ \A g \in Handlers \ {h} : job'[g] = job[g]
    BY <1>1, <1>2, <1>3, <1>5, <1>6, Moves
  <1>8. \A g \in Handlers \ {h} : job[g].pc \in Locked => job[g].key # j.key
    BY <1>2, <1>4 DEF JobsHoldLocks
  <1> QED
    BY <1>2, <1>7, <1>8

\* Steps of an access that change no file under current/.
LEMMA ReadSteps ==
  ASSUME ShareInv, NEW h \in Handlers, open_path(h) \/ read(h) \/ write_prepared(h)
  PROVE  ShareInv'
  <1> USE NamesAssumption DEF ShareInv
  <1>1. /\ job[h].pc \in {"open", "read", "prepare"}
        /\ UNCHANGED <<policy, lock, sessionLock, present, tree, temps, saved, replaced,
                       crashes, stranded>>
        /\ prepared' \in {prepared, prepared \cup {job[h].file}}
    BY DEF open_path, read, write_prepared, At, files
  <1>2. PICK j \in Job :
          /\ job' = [job EXCEPT ![h] = j]
          /\ j.key = job[h].key /\ j.action = job[h].action
          /\ j.pc \in {"temporary", "read", "replace", "unlink", "leave"}
          /\ j.pc # "leave" => j.caller = job[h].caller
          /\ j.pc \in {"temporary", "read"} => j.tree = tree[j.key] /\ present[j.key]
          /\ j.pc \in Writing => /\ job[h].pc \in Writing
                                 /\ j.tree = job[h].tree /\ j.file = job[h].file
          /\ j.pc = "replace" => j.file \in prepared'
          /\ job[h].pc \in Writing => j.pc \in Writing
    <2> DEFINE close == [NoJob EXCEPT !.pc = "leave", !.action = job[h].action, !.key = job[h].key]
    <2>1. close \in Job /\ close.pc = "leave" /\ close.key = job[h].key
          /\ close.action = job[h].action
      BY DEF JobsAreTyped, Job, NoJob, Accessing
    <2>2. CASE job' = [job EXCEPT ![h] = close] /\ job[h].pc \in {"open", "read"}
      BY <2>1, <2>2 DEF Writing
    <2>3. ASSUME open_path(h), present[job[h].key], NEW pc \in {"temporary", "read"},
                 job' = [job EXCEPT ![h].pc = pc, ![h].tree = tree[job[h].key]]
          PROVE  \E j \in Job :
                   /\ job' = [job EXCEPT ![h] = j]
                   /\ j.key = job[h].key /\ j.action = job[h].action
                   /\ j.pc = pc /\ j.caller = job[h].caller
                   /\ j.tree = tree[j.key] /\ present[j.key]
      <3>1. job[h].key \in Sessions /\ tree[job[h].key] \in 0..MaxSwaps
        BY <1>1, <2>3 DEF open_path, JobsAreTyped, At, ShareTypeOK
      <3> DEFINE j == [job[h] EXCEPT !.pc = pc, !.tree = tree[job[h].key]]
      <3>2. j \in Job
        <4>1. job[h] \in Job /\ pc \in Accessing
          BY <2>3 DEF JobsAreTyped, Accessing
        <4> HIDE DEF ShareInv
        <4> QED
          BY <3>1, <4>1 DEF Job
      <3>3. /\ job' = [job EXCEPT ![h] = j]
            /\ j.key = job[h].key /\ j.action = job[h].action
            /\ j.pc = pc /\ j.caller = job[h].caller /\ j.tree = tree[j.key]
        BY <2>3 DEF JobsAreTyped, Job
      <3> QED
        BY <2>3, <3>2, <3>3
    <2>4. ASSUME write_prepared(h), NEW pc \in {"replace", "unlink"}, job' = [job EXCEPT ![h].pc = pc],
                 pc = "replace" => job[h].file \in prepared'
          PROVE  \E j \in Job :
                   /\ job' = [job EXCEPT ![h] = j]
                   /\ j.key = job[h].key /\ j.action = job[h].action /\ j.caller = job[h].caller
                   /\ j.pc = pc /\ j.tree = job[h].tree /\ j.file = job[h].file
      <3> DEFINE j == [job[h] EXCEPT !.pc = pc]
      <3>1. j \in Job
        BY DEF JobsAreTyped, Job, Accessing
      <3>2. /\ job' = [job EXCEPT ![h] = j]
            /\ j.key = job[h].key /\ j.action = job[h].action /\ j.caller = job[h].caller
            /\ j.pc = pc /\ j.tree = job[h].tree /\ j.file = job[h].file
        BY <2>4 DEF JobsAreTyped, Job
      <3> QED
        BY <3>1, <3>2
    <2>5. CASE open_path(h)
      <3>1. CASE present[job[h].key] /\ job' = [job EXCEPT
                   ![h].pc = IF job[h].action = "write" THEN "temporary" ELSE "read",
                   ![h].tree = tree[job[h].key]]
        BY <1>1, <2>3, <2>5, <3>1 DEF open_path, At, Writing
      <3> QED
        BY <1>1, <2>2, <2>5, <3>1 DEF open_path, Close, At
    <2>6. CASE read(h)
      BY <2>2, <2>6 DEF read, Close, At
    <2>7. CASE write_prepared(h)
      BY <2>4, <2>7 DEF write_prepared, Goto, At, Writing
    <2> QED
      BY <2>5, <2>6, <2>7
  <1>3. /\ JobsAreTyped' /\ JobsHoldLocks'
        /\ job'[h] = j /\ \A g \in Handlers \ {h} : job'[g] = job[g]
    <2>1. /\ job[h].pc \in Locked /\ j.pc \in Locked
          /\ job[h].pc \in Accessing /\ j.pc \in Accessing
          /\ job[h].pc # "leave" /\ (j.pc \in Writing => j.file \in Writes)
      BY <1>1, <1>2 DEF Locked, Accessing, Storing, JobsAreTyped
    <2> QED
      BY <1>1, <1>2, <2>1, StaysInside
  <1>4. ShareTypeOK'
    <2>1. prepared' \in {prepared, prepared \cup {job[h].file}} /\ prepared' # prepared
            => job[h].file \in Writes
      BY DEF open_path, read, write_prepared, files, JobsAreTyped, Writing, At
    <2> QED
      BY <1>1, <2>1 DEF ShareTypeOK
  <1>5. AccessSeesOneTree'
    BY <1>1, <1>2, <1>3 DEF AccessSeesOneTree, Open, InCurrent, Writing
  <1>6. FilesAreTracked' /\ WritesLeaveNoStray'
    BY <1>1, <1>2, <1>3 DEF FilesAreTracked, At, Writing, WritesLeaveNoStray
  <1> QED
    BY <1>3, <1>4, <1>5, <1>6
\* The Session lock is taken: nobody else is under it.
LEMMA LockSteps ==
  ASSUME ShareInv, NEW h \in Handlers, lock_target(h) \/ store_lock(h)
  PROVE  ShareInv'
  <1> USE NamesAssumption DEF ShareInv
  <1>1. /\ job[h].pc \in {"lock", "store"} /\ job[h].key \in Sessions
        /\ sessionLock[job[h].key] = None
        /\ sessionLock' = [sessionLock EXCEPT ![job[h].key] = h]
        /\ UNCHANGED <<policy, lock, present, tree, temps, saved, prepared, replaced,
                       crashes, stranded>>
    BY DEF lock_target, store_lock, TakeSessionLock, At, files, JobsAreTyped
  <1>2. PICK j \in Job :
          /\ job' = [job EXCEPT ![h] = j]
          /\ j.key = job[h].key
          /\ j.pc \in {"open", "checkpoint", "rollback"}
          /\ j.pc = "open" <=> job[h].pc = "lock"
          /\ j.pc = "open" => j.caller = job[h].caller /\ j.action = job[h].action
    <2>1. CASE lock_target(h)
      <3> DEFINE j == [job[h] EXCEPT !.pc = "open"]
      <3>1. j \in Job
        BY DEF JobsAreTyped, Job, Accessing
      <3>2. /\ job' = [job EXCEPT ![h] = j] /\ j.pc = "open" /\ job[h].pc = "lock"
            /\ j.key = job[h].key /\ j.caller = job[h].caller /\ j.action = job[h].action
        BY <2>1 DEF lock_target, Goto, At, JobsAreTyped, Job
      <3> QED
        BY <3>1, <3>2
    <2>2. CASE store_lock(h)
      <3> DEFINE j == [job[h] EXCEPT !.pc = job[h].action, !.action = None]
      <3>1. job[h].pc = "store" /\ job[h].action \in {"checkpoint", "rollback"} /\ job[h] \in Job
        BY <2>2 DEF store_lock, At, JobsAreTyped
      <3>2. job' = [job EXCEPT ![h] = j]
        BY <2>2 DEF store_lock, JobsAreTyped, Job
      <3> HIDE DEF ShareInv
      <3>3. j \in Job
        BY <3>1 DEF Job, Storing
      <3>4. j.pc \in {"checkpoint", "rollback"} /\ j.key = job[h].key
        BY <3>1 DEF Job
      <3> QED
        BY <3>1, <3>2, <3>3, <3>4
    <2> QED
      BY <2>1, <2>2
  <1>3. /\ JobsAreTyped' /\ JobsHoldLocks'
        /\ job'[h] = j /\ \A g \in Handlers \ {h} : job'[g] = job[g]
    <2>1. /\ j.pc # "idle" => j.key \in Sessions
          /\ j.pc = "store" => j.action \in {"checkpoint", "rollback"}
          /\ j.pc \in Writing => j.file \in Writes
      BY <1>1, <1>2 DEF Writing
    <2>2. j.pc \in Accessing \ {"leave"} => Allows(j.caller, j.key, j.action)
      BY <1>1, <1>2 DEF JobsHoldLocks, Accessing
    <2>3. /\ lock' = h <=> j.pc \in Accessing
          /\ \A g \in Handlers \ {h} : lock' = g <=> lock = g
      BY <1>1, <1>2 DEF JobsHoldLocks, Accessing
    <2>4. \A s \in Sessions : sessionLock[s] # h
      BY <1>1 DEF JobsHoldLocks, Locked, Accessing, Storing
    <2>5. \A s \in Sessions : sessionLock'[s] = h <=> j.pc \in Locked /\ j.key = s
      BY <1>1, <1>2, <2>4 DEF ShareTypeOK, Locked, Accessing, Storing
    <2>6. \A s \in Sessions, g \in Handlers \ {h} : sessionLock'[s] = g <=> sessionLock[s] = g
      BY <1>1 DEF ShareTypeOK
    <2>7. JobsAreTyped /\ JobsHoldLocks /\ UNCHANGED policy
      BY <1>1
    <2>8. job' = [job EXCEPT ![h] = j]
      BY <1>2
    <2> HIDE DEF ShareInv
    <2> QED
      BY <2>1, <2>2, <2>3, <2>5, <2>6, <2>7, <2>8, Moves
  <1>4. ShareTypeOK'
    BY <1>1 DEF ShareTypeOK
  <1>5. AccessSeesOneTree' /\ WritesLeaveNoStray'
    BY <1>1, <1>2, <1>3 DEF AccessSeesOneTree, Open, InCurrent, WritesLeaveNoStray
  <1>6. FilesAreTracked'
    BY <1>1, <1>2, <1>3 DEF FilesAreTracked, At, Writing
  <1> QED
    BY <1>3, <1>4, <1>5, <1>6

\* A write makes its temporary file in the tree that is current/, renames it
\* over the target or not, and removes the name whatever happened.
LEMMA WriteSteps ==
  ASSUME ShareInv, NEW h \in Handlers,
         (\E w \in Writes : write_temporary(h, w)) \/ replace(h) \/ unlink(h)
  PROVE  ShareInv'
  <1> USE NamesAssumption DEF ShareInv
  <1> DEFINE s == job[h].key
  <1>1. /\ job[h].pc \in {"temporary", "replace", "unlink"} /\ s \in Sessions
        /\ InCurrent(h)
        /\ UNCHANGED <<policy, lock, sessionLock, present, tree, saved, prepared,
                       crashes, stranded>>
    BY DEF write_temporary, replace, unlink, At, JobsAreTyped, AccessSeesOneTree, Open
  <1> DEFINE Wrote(j) ==
      /\ job' = [job EXCEPT ![h] = j] /\ j.key = s
      /\ \/ /\ j.pc = "prepare" /\ j.file \in Writes /\ job[h].pc = "temporary"
            /\ temps' = [temps EXCEPT ![s] = @ \cup {j.file}] /\ replaced' = replaced
         \/ /\ j.pc = "unlink" /\ j.file = job[h].file /\ job[h].pc = "replace"
            /\ temps' \in {temps, [temps EXCEPT ![s] = @ \ {job[h].file}]}
            /\ replaced' \in {replaced, replaced \cup {job[h].file}}
         \/ /\ j.pc = "leave" /\ job[h].pc = "unlink"
            /\ temps' = [temps EXCEPT ![s] = @ \ {job[h].file}] /\ replaced' = replaced
      /\ j.pc # "leave" => /\ j.caller = job[h].caller /\ j.action = job[h].action
                           /\ j.tree = job[h].tree
  <1>2. PICK j \in Job : Wrote(j)
    <2>0. job[h] \in Job
      BY DEF JobsAreTyped
    <2>1. ASSUME NEW w \in Writes, write_temporary(h, w)
          PROVE  LET j == [job[h] EXCEPT !.pc = "prepare", !.file = w]
                 IN  /\ j \in Job /\ job' = [job EXCEPT ![h] = j] /\ j.key = s
                     /\ j.pc = "prepare" /\ j.file = w /\ job[h].pc = "temporary"
                     /\ temps' = [temps EXCEPT ![s] = @ \cup {w}] /\ replaced' = replaced
                     /\ j.caller = job[h].caller /\ j.action = job[h].action
                     /\ j.tree = job[h].tree
      <3> DEFINE j == [job[h] EXCEPT !.pc = "prepare", !.file = w]
      <3>1. j \in Job /\ j.key = s /\ j.pc = "prepare" /\ j.file = w
            /\ j.caller = job[h].caller /\ j.action = job[h].action /\ j.tree = job[h].tree
        BY <2>0 DEF Job, Accessing
      <3>2. job' = [job EXCEPT ![h] = j]
        BY <2>0, <2>1 DEF write_temporary, JobsAreTyped, Job
      <3> QED
        BY <1>1, <2>1, <3>1, <3>2 DEF write_temporary, At
    <2>2. ASSUME replace(h)
          PROVE  LET j == [job[h] EXCEPT !.pc = "unlink"]
                 IN  /\ j \in Job /\ job' = [job EXCEPT ![h] = j] /\ j.key = s
                     /\ j.pc = "unlink" /\ j.file = job[h].file /\ job[h].pc = "replace"
                     /\ temps' \in {temps, [temps EXCEPT ![s] = @ \ {job[h].file}]}
                     /\ replaced' \in {replaced, replaced \cup {job[h].file}}
                     /\ j.caller = job[h].caller /\ j.action = job[h].action
                     /\ j.tree = job[h].tree
      <3> DEFINE j == [job[h] EXCEPT !.pc = "unlink"]
      <3>1. j \in Job /\ j.key = s /\ j.pc = "unlink" /\ j.file = job[h].file
            /\ j.caller = job[h].caller /\ j.action = job[h].action /\ j.tree = job[h].tree
        BY <2>0 DEF Job, Accessing
      <3>2. job' = [job EXCEPT ![h] = j]
        BY <2>0, <2>2 DEF replace, Goto, JobsAreTyped, Job
      <3> QED
        BY <1>1, <2>2, <3>1, <3>2 DEF replace, At
    <2>3. ASSUME unlink(h)
          PROVE  LET j == [NoJob EXCEPT !.pc = "leave", !.action = job[h].action, !.key = s]
                 IN  /\ j \in Job /\ job' = [job EXCEPT ![h] = j] /\ j.key = s
                     /\ j.pc = "leave" /\ job[h].pc = "unlink"
                     /\ temps' = [temps EXCEPT ![s] = @ \ {job[h].file}]
                     /\ replaced' = replaced
      <3> DEFINE j == [NoJob EXCEPT !.pc = "leave", !.action = job[h].action, !.key = s]
      <3>1. j \in Job /\ j.key = s /\ j.pc = "leave"
        BY <2>0 DEF Job, NoJob, Accessing
      <3> QED
        BY <1>1, <2>3, <3>1 DEF unlink, Close, At
    <2> HIDE DEF ShareInv
    <2>4. ASSUME NEW w \in Writes, write_temporary(h, w) PROVE \E j \in Job : Wrote(j)
      <3> DEFINE j == [job[h] EXCEPT !.pc = "prepare", !.file = w]
      <3>1. /\ j \in Job /\ job' = [job EXCEPT ![h] = j] /\ j.key = s
            /\ j.pc = "prepare" /\ j.file = w /\ job[h].pc = "temporary"
            /\ temps' = [temps EXCEPT ![s] = @ \cup {w}] /\ replaced' = replaced
            /\ j.caller = job[h].caller /\ j.action = job[h].action
            /\ j.tree = job[h].tree
        BY <2>1, <2>4
      <3> HIDE DEF j
      <3> QED
        BY <3>1
    <2>5. CASE replace(h)
      BY <2>2, <2>5
    <2>6. CASE unlink(h)
      BY <2>3, <2>6
    <2> QED
      BY <2>4, <2>5, <2>6
  <1>3. /\ JobsAreTyped' /\ JobsHoldLocks'
        /\ job'[h] = j /\ \A g \in Handlers \ {h} : job'[g] = job[g]
        /\ \A g \in Handlers \ {h} : job[g].pc \in Locked => job[g].key # s
    <2>1. /\ job[h].pc \in Locked /\ j.pc \in Locked
          /\ job[h].pc \in Accessing /\ j.pc \in Accessing /\ job[h].pc # "leave"
          /\ j.pc \in Writing => j.file \in Writes
      BY <1>1, <1>2 DEF Locked, Accessing, Storing, JobsAreTyped, Writing
    <2>2. /\ job' = [job EXCEPT ![h] = j] /\ j.key = job[h].key
          /\ j.pc \in Accessing \ {"leave"} =>
               job[h].pc # "leave" /\ j.caller = job[h].caller /\ j.action = job[h].action
          /\ UNCHANGED <<policy, lock, sessionLock>> /\ JobsAreTyped /\ JobsHoldLocks
      BY <1>1, <1>2, <2>1
    <2> HIDE DEF ShareInv
    <2>3. job[h].pc \in Accessing <=> j.pc \in Accessing
      BY <2>1
    <2>4. /\ JobsAreTyped' /\ JobsHoldLocks'
          /\ job'[h] = j /\ \A g \in Handlers \ {h} : job'[g] = job[g]
          /\ \A g \in Handlers \ {h} : job[g].pc \in Locked => job[g].key # j.key
      BY <2>1, <2>2, <2>3, StaysInside
    <2> QED
      BY <2>2, <2>4
  <1>4. job[h].pc \in Writing => job[h].file \in Writes
    BY DEF JobsAreTyped
  <1>5. ShareTypeOK'
    BY <1>1, <1>2, <1>4 DEF ShareTypeOK, Writing
  <1>6. AccessSeesOneTree'
    BY <1>1, <1>2, <1>3 DEF AccessSeesOneTree, Open, InCurrent
  <1>7. WritesLeaveNoStray'
    BY <1>1, <1>2 DEF WritesLeaveNoStray, FilesAreTracked, At
  <1>8. FilesAreTracked'
    <2>1. \A g \in Handlers : job'[g].pc = "replace" => job'[g].file \in prepared'
      BY <1>1, <1>2, <1>3 DEF FilesAreTracked, At
    <2>2. ASSUME NEW z \in Sessions, NEW w \in temps'[z], w \notin stranded
          PROVE  \E g \in Handlers : job'[g].pc \in Writing /\ job'[g].key = z /\ job'[g].file = w
      <3>1. CASE w \notin temps[z]
        BY <1>1, <1>2, <1>3, <2>2, <3>1 DEF Writing, ShareTypeOK
      <3>2. CASE w \in temps[z]
        <4>1. PICK g \in Handlers : job[g].pc \in Writing /\ job[g].key = z /\ job[g].file = w
          BY <2>2, <3>2 DEF FilesAreTracked
        <4>2. CASE g = h
          BY <1>1, <1>2, <1>3, <2>2, <4>1, <4>2 DEF Writing, ShareTypeOK
        <4> QED
          BY <1>3, <4>1, <4>2
      <3> QED
        BY <3>1, <3>2
    <2> QED
      BY <1>1, <2>1, <2>2 DEF FilesAreTracked, At
  <1> QED
    BY <1>3, <1>5, <1>6, <1>7, <1>8
\* A checkpoint and the two halves of a swap: the handler under the Session
\* lock is the only one with a file of that workspace.
LEMMA StoreSteps ==
  ASSUME ShareInv, NEW h \in Handlers, create_checkpoint(h) \/ swap_out(h) \/ swap_in(h)
  PROVE  ShareInv'
  <1> USE DEF ShareInv
  <1> DEFINE s == job[h].key
  <1>1. /\ job[h].pc \in {"checkpoint", "rollback", "swap_in"} /\ s \in Sessions
        /\ UNCHANGED <<policy, lock, sessionLock, prepared, replaced, crashes, stranded>>
        /\ \/ /\ saved' = [saved EXCEPT ![s] = temps[s]]
              /\ UNCHANGED <<present, tree, temps>>
           \/ /\ present' = [present EXCEPT ![s] = FALSE]
              /\ UNCHANGED <<tree, temps, saved>>
           \/ /\ present' = [present EXCEPT ![s] = TRUE]
              /\ tree[s] < MaxSwaps
              /\ tree' = [tree EXCEPT ![s] = @ + 1]
              /\ temps' = [temps EXCEPT ![s] = saved[s]]
              /\ UNCHANGED saved
           \/ /\ present' = [present EXCEPT ![s] = TRUE]
              /\ UNCHANGED <<tree, temps, saved>>
    BY DEF create_checkpoint, swap_out, swap_in, At, JobsAreTyped
  <1>2. PICK pc \in {"stored", "swap_in"} : job' = [job EXCEPT ![h].pc = pc]
    BY DEF create_checkpoint, swap_out, swap_in, Goto
  <1> DEFINE j == [job[h] EXCEPT !.pc = pc]
  <1>3. /\ j \in Job /\ job' = [job EXCEPT ![h] = j]
        /\ j.pc = pc /\ j.key = s
    BY <1>2 DEF JobsAreTyped, Job, Storing
  <1> HIDE DEF j
  <1>4. /\ JobsAreTyped' /\ JobsHoldLocks'
        /\ job'[h] = j /\ \A g \in Handlers \ {h} : job'[g] = job[g]
        /\ \A g \in Handlers \ {h} : job[g].pc \in Locked => job[g].key # s
    <2>1. /\ job[h].pc \in Locked /\ j.pc \in Locked
          /\ job[h].pc \notin Accessing /\ j.pc \notin Accessing /\ j.pc \notin Writing
      BY <1>1, <1>3 DEF Locked, Accessing, Storing, Writing
    <2>2. JobsAreTyped /\ JobsHoldLocks /\ UNCHANGED <<policy, lock, sessionLock>>
      BY <1>1
    <2> HIDE DEF ShareInv
    <2>3. /\ JobsAreTyped' /\ JobsHoldLocks'
          /\ job'[h] = j /\ \A g \in Handlers \ {h} : job'[g] = job[g]
          /\ \A g \in Handlers \ {h} : job[g].pc \in Locked => job[g].key # j.key
      BY <1>3, <2>1, <2>2, StaysInside
    <2> QED
      BY <1>3, <2>3
  <1>5. \A g \in Handlers : Open(g) => g # h /\ job[g].key # s
    BY <1>1, <1>4 DEF Open, Locked, Accessing, Storing
  <1>6. temps[s] \subseteq stranded
    <2>1. \A g \in Handlers : job[g].pc \in Writing => job[g].key # s
      BY <1>5 DEF Writing, Open
    <2>2. s \in Sessions /\ FilesAreTracked
      BY <1>1
    <2> HIDE DEF ShareInv, s
    <2> QED
      BY <2>1, <2>2 DEF FilesAreTracked
  <1>7. ShareTypeOK'
    <2>1. present' \in [Sessions -> BOOLEAN]
      BY <1>1 DEF ShareTypeOK
    <2>2. tree' \in [Sessions -> 0..MaxSwaps]
      <3>1. CASE tree' = tree
        BY <3>1 DEF ShareTypeOK
      <3>2. CASE tree[s] < MaxSwaps /\ tree' = [tree EXCEPT ![s] = @ + 1]
        <4>1. tree \in [Sessions -> 0..MaxSwaps] /\ s \in Sessions
          BY <1>1 DEF ShareTypeOK
        <4> HIDE DEF ShareInv, s
        <4> QED
          BY <3>2, <4>1, SwapsAssumption
      <3> QED
        BY <1>1, <3>1, <3>2
    <2>3. {temps', saved'} \subseteq [Sessions -> SUBSET Writes]
      BY <1>1 DEF ShareTypeOK
    <2> QED
      BY <1>1, <2>1, <2>2, <2>3 DEF ShareTypeOK
  <1>8. AccessSeesOneTree'
    <2>1. ASSUME NEW g \in Handlers, Open(g)' PROVE InCurrent(g)'
      <3>1. g # h
        BY <1>3, <1>4, <2>1 DEF Open
      <3>2. job'[g] = job[g] /\ Open(g)
        BY <1>4, <2>1, <3>1 DEF Open
      <3>3. job[g].key # s /\ job[g].key \in Sessions /\ InCurrent(g)
        BY <1>5, <3>2 DEF AccessSeesOneTree, JobsAreTyped, Open, At
      <3>4. present'[job[g].key] = present[job[g].key] /\ tree'[job[g].key] = tree[job[g].key]
        BY <1>1, <3>3 DEF ShareTypeOK
      <3> QED
        BY <3>2, <3>3, <3>4 DEF InCurrent
    <2> QED
      BY <2>1 DEF AccessSeesOneTree
  <1>9. WritesLeaveNoStray'
    BY <1>1, <1>6 DEF WritesLeaveNoStray, ShareTypeOK
  <1>10. FilesAreTracked'
    <2>1. \A g \in Handlers : job'[g].pc = "replace" => job'[g].file \in prepared'
      BY <1>1, <1>3, <1>4 DEF FilesAreTracked, At
    <2>2. ASSUME NEW z \in Sessions, NEW w \in temps'[z], w \notin stranded
          PROVE  \E g \in Handlers : job'[g].pc \in Writing /\ job'[g].key = z /\ job'[g].file = w
      <3>1. z # s /\ w \in temps[z]
        BY <1>1, <1>6, <2>2 DEF WritesLeaveNoStray, ShareTypeOK
      <3>2. PICK g \in Handlers : job[g].pc \in Writing /\ job[g].key = z /\ job[g].file = w
        BY <2>2, <3>1 DEF FilesAreTracked
      <3> QED
        BY <1>4, <3>1, <3>2
    <2> QED
      BY <1>1, <2>1, <2>2 DEF FilesAreTracked, At
  <1> QED
    BY <1>4, <1>7, <1>8, <1>9, <1>10

\* The access or the mutation is over, and both locks are dropped.
LEMMA LeaveSteps ==
  ASSUME ShareInv, NEW h \in Handlers, share_leave(h) \/ end_mutation(h)
  PROVE  ShareInv'
  <1> USE NamesAssumption DEF ShareInv
  <1> DEFINE s == job[h].key
  <1>1. /\ job[h].pc \in {"leave", "stored"} /\ s \in Sessions
        /\ sessionLock' = [sessionLock EXCEPT ![s] = None]
        /\ lock' = IF job[h].pc = "leave" THEN None ELSE lock
        /\ job' = [job EXCEPT ![h] = NoJob]
        /\ UNCHANGED <<policy, present, tree, temps, saved, prepared, replaced,
                       crashes, stranded>>
    BY DEF share_leave, end_mutation, DropSessionLock, Return, At, files, JobsAreTyped
  <1>2. NoJob \in Job /\ NoJob.pc = "idle"
    BY DEF NoJob, Job
  <1>3. /\ JobsAreTyped' /\ JobsHoldLocks'
        /\ job'[h] = NoJob /\ \A g \in Handlers \ {h} : job'[g] = job[g]
    <2>1. /\ NoJob.pc \notin Writing /\ NoJob.pc \notin Accessing /\ NoJob.pc \notin Locked
          /\ NoJob.pc # "store"
      BY <1>2 DEF Writing, Accessing, Locked, Storing
    <2>2. lock' # h /\ \A g \in Handlers \ {h} : lock' = g <=> lock = g
      BY <1>1 DEF JobsHoldLocks, Accessing
    <2>3. sessionLock[s] = h /\ \A z \in Sessions : sessionLock[z] = h => z = s
      BY <1>1 DEF JobsHoldLocks, Locked, Accessing, Storing
    <2>4. \A z \in Sessions : /\ sessionLock'[z] # h
                              /\ \A g \in Handlers \ {h} : sessionLock'[z] = g <=> sessionLock[z] = g
      BY <1>1, <2>3 DEF ShareTypeOK
    <2>5. JobsAreTyped /\ JobsHoldLocks /\ UNCHANGED policy
      BY <1>1
    <2> HIDE DEF ShareInv
    <2> QED
      BY <1>1, <1>2, <2>1, <2>2, <2>4, <2>5, Moves
  <1>4. ShareTypeOK'
    BY <1>1 DEF ShareTypeOK
  <1>5. AccessSeesOneTree' /\ WritesLeaveNoStray'
    BY <1>1, <1>2, <1>3 DEF AccessSeesOneTree, Open, InCurrent, WritesLeaveNoStray
  <1>6. FilesAreTracked'
    BY <1>1, <1>2, <1>3 DEF FilesAreTracked, At, Writing
  <1> QED
    BY <1>3, <1>4, <1>5, <1>6

\* A crash ends every handler; what it leaves in a workspace is stranded.
LEMMA CrashStep ==
  ASSUME ShareInv, Crash
  PROVE  ShareInv'
  <1> USE NamesAssumption, SwapsAssumption, CrashesAssumption DEF ShareInv, Crash, NoJob
  <1>1. ShareTypeOK'
    BY DEF ShareTypeOK
  <1>2. JobsAreTyped' /\ JobsHoldLocks'
    BY DEF JobsAreTyped, Job, At, JobsHoldLocks, Accessing, Locked, Storing, Writing
  <1>3. AccessSeesOneTree' /\ WritesLeaveNoStray'
    BY DEF AccessSeesOneTree, Open, WritesLeaveNoStray
  <1>4. FilesAreTracked'
    BY DEF FilesAreTracked, At, WritesLeaveNoStray
  <1> QED
    BY <1>1, <1>2, <1>3, <1>4

LEMMA ShareStep == ShareIInv /\ [ShareNext]_allvars => ShareIInv'
  <1> SUFFICES ASSUME ShareIInv, [ShareNext]_allvars PROVE ShareIInv'
    OBVIOUS
  <1>1. IInv /\ ShareInv
    BY DEF ShareIInv, ShareInv
  <1>2. IInv'
    BY <1>1, StepUsesRegistry, RegistryStep DEF ShareInv
  <1>3. ASSUME UNCHANGED sharevars PROVE ShareInv'
    <2> USE <1>1, <1>3 DEF sharevars, ShareInv
    <2>1. ShareTypeOK'
      BY DEF ShareTypeOK
    <2>2. JobsAreTyped'
      BY DEF JobsAreTyped, At
    <2>3. JobsHoldLocks'
      BY DEF JobsHoldLocks, Allows
    <2>4. AccessSeesOneTree' /\ FilesAreTracked' /\ WritesLeaveNoStray'
      BY DEF AccessSeesOneTree, Open, InCurrent, FilesAreTracked, At, WritesLeaveNoStray
    <2> QED
      BY <2>1, <2>2, <2>3, <2>4
  <1>4. ShareInv'
    BY <1>1, <1>3, PolicySteps, BeginSteps, AccessStep, ReadSteps, LockSteps, WriteSteps,
       StoreSteps, LeaveSteps, CrashStep DEF ShareNext, allvars
  <1> QED
    BY <1>2, <1>4 DEF ShareIInv, ShareInv

-----------------------------------------------------------------------------
(* Theorems *)

\* The inductive invariant of the composition of the share service, the
\* registry and the store's swaps: who holds which lock, which files of a
\* workspace belong to whom.
THEOREM ShareInvariant == ShareSpec => []ShareIInv
  BY InitShareInv, ShareStep, PTL DEF ShareSpec

\* The composition refines the registry: share accesses, checkpoints and
\* rollbacks use it only through its methods, so that whatever is proved of
\* the registry holds in the daemon with the share service.
THEOREM ShareUsesRegistry == ShareSpec => Spec
  <1>1. ShareInit => Init
    BY DEF ShareInit
  <1>2. ShareIInv /\ [ShareNext]_allvars => [Next]_vars
    BY StepUsesRegistry DEF ShareIInv
  <1> QED
    BY <1>1, <1>2, ShareInvariant, PTL DEF ShareSpec, Spec

\* Also beside the share service's handlers, crashes included, a fence has
\* one owner and a fenced Session nobody else in it.
THEOREM ShareKeepsFences == ShareSpec => [](FenceHasOneOwner /\ MutationIsExclusive)
  BY ShareUsesRegistry, FenceOwnership, MutationExclusion, PTL

\* Nobody reads or writes a file of a Session that has stopped sharing: the
\* one lock of dispatch() orders disable() after every access under way.
THEOREM AccessStaysGranted == ShareSpec => []AccessIsGranted
  <1>1. ShareIInv => AccessIsGranted
    BY DEF ShareIInv, JobsHoldLocks, AccessIsGranted, Open, Accessing
  <1> QED
    BY <1>1, ShareInvariant, PTL

\* No swap of a workspace happens under an open share access, although the
\* registry admits a reset's rollback beside it: the Session lock keeps them
\* apart.
THEOREM AccessAvoidsSwaps == ShareSpec => []AccessSeesOneTree
  <1>1. ShareIInv => AccessSeesOneTree
    BY DEF ShareIInv
  <1> QED
    BY <1>1, ShareInvariant, PTL

\* A replaced file was announced in the target's log, and a checkpoint holds
\* no temporary file other than one stranded by a crash.
THEOREM WritesStayClean == ShareSpec => []WritesLeaveNoStray
  <1>1. ShareIInv => WritesLeaveNoStray
    BY DEF ShareIInv
  <1> QED
    BY <1>1, ShareInvariant, PTL

-----------------------------------------------------------------------------
(* The network manager *)

\* The position of every job has its types, field by field.
LEMMA JobFields ==
  ASSUME NetTypeOK, NEW h \in Handlers
  PROVE  /\ netjob[h] \in NetJob
         /\ netjob[h].pc \in {"idle", "prepare", "broker", "popen", "ready", "stop", "save"}
         /\ netjob[h].key \in Sessions \cup {None}
         /\ netjob[h].token \in Tokens \cup {None}
         /\ netjob[h].mode \in Modes \cup {None}
         /\ netjob[h].attempt \in Attempts \cup {None}
  <1>1. netjob[h] \in NetJob
    BY DEF NetTypeOK
  <1> QED
    BY <1>1 DEF NetJob

\* Every step of the network manager is a call of the registry or leaves it
\* alone.
LEMMA NetStepUsesRegistry ==
  ASSUME NetTypeOK, JobsAreEntitled, [NetNext]_netallvars
  PROVE  [Next]_vars
  <1>1. CASE UNCHANGED netallvars
    BY <1>1 DEF netallvars, vars
  <1>2. ASSUME NEW h \in Handlers, NEW s \in Sessions, NEW t \in Tokens, process_start(h, s, t)
        PROVE  [Next]_vars
    BY <1>2 DEF process_start, Next
  <1>3. ASSUME NEW h \in Handlers, NEW s \in Sessions, NEW mode, configure_begin(h, s, mode)
        PROVE  [Next]_vars
    BY <1>3 DEF configure_begin, Next
  <1>4. ASSUME NEW h \in Handlers,
               prepare_refused(h) \/ popen_fails(h) \/ helper_not_ready(h)
        PROVE  [Next]_vars
    <2>1. netjob[h].token \in Tokens
      BY <1>4 DEF prepare_refused, popen_fails, helper_not_ready, NetAt, JobsAreEntitled, Starting
    <2>2. release(netjob[h].token)
      BY <1>4 DEF prepare_refused, popen_fails, helper_not_ready, StartFails
    <2> QED
      BY <2>1, <2>2 DEF Next
  <1>5. ASSUME NEW h \in Handlers, configure_stop(h) \/ configure_save(h)
        PROVE  [Next]_vars
    BY <1>5 DEF configure_stop, configure_save, ConfigureEnds, Next
  <1>6. ASSUME NEW h \in Handlers,
               \/ prepare(h) \/ popen(h) \/ helper_ready(h)
               \/ \E a \in Attempts : start_broker(h, a)
        PROVE  UNCHANGED vars
    BY <1>6 DEF prepare, popen, helper_ready, start_broker, Launch
  <1>7. ASSUME NEW t \in Tokens, run_ends(t) PROVE [Next]_vars
    BY <1>7 DEF run_ends, Next
  <1>8. CASE \/ \E a \in Attempts : helper_exits(a)
             \/ service_close
             \/ \E s \in Sessions : close_step(s)
             \/ close_done
    BY <1>8 DEF helper_exits, service_close, close_step, close_done
  <1>9. CASE Reboot
    BY <1>9 DEF Reboot, Next
  <1> QED
    BY <1>1, <1>2, <1>3, <1>4, <1>5, <1>6, <1>7, <1>8, <1>9 DEF NetNext

LEMMA InitNetInv == NetInit => NetIInv
  <1> SUFFICES ASSUME NetInit PROVE NetIInv
    OBVIOUS
  <1> USE NetNamesAssumption, NoneAssumption, FaultsAssumption, DefaultModeAssumption
      DEF NetInit, NoNetJob
  <1>1. IInv
    BY InitIInv
  <1>2. NetTypeOK
    <2>1. NoNetJob \in NetJob
      BY DEF NetJob
    <2> QED
      BY <2>1 DEF NetTypeOK
  <1>3. JobsAreEntitled /\ JobsBuild /\ TokensDiffer
    BY DEF JobsAreEntitled, JobsBuild, TokensDiffer, Starting, Locking
  <1>4. RunsAreLeased /\ RuntimesDiffer /\ ModesAgree
    BY DEF RunsAreLeased, RuntimesDiffer, ModesAgree
  <1>5. RunKeepsItsNetwork /\ NothingStray /\ SocketReachesItsBroker
    BY DEF RunKeepsItsNetwork, NothingStray, SocketReachesItsBroker
  <1> QED
    BY <1>1, <1>2, <1>3, <1>4, <1>5 DEF NetIInv, NetInv

\* A Session that a handler configures is leased to no run.
LEMMA ConfiguredIsUnleased ==
  ASSUME IInv, NEW h \in Handlers, NEW s \in Sessions, Inside(h, "mutation", s)
  PROVE  \A t \in Tokens : leases[t] # s
  <1>1. s \in mutating
    BY DEF IInv, FenceHasOneOwner
  <1> QED
    BY <1>1 DEF IInv, MutationIsExclusive, Leased

\* What a step that moves one handler owes: the new position has what it
\* needs, and nobody else's lease, fence or lock is touched.
LEMMA NetMoves ==
  ASSUME NetTypeOK, JobsAreEntitled, TokensDiffer, NEW h \in Handlers, NEW j \in NetJob,
         netjob' = [netjob EXCEPT ![h] = j],
         netlock' = h <=> j.pc \in Locking,
         \A g \in Handlers \ {h} : netlock' = g <=> netlock = g,
         \A g \in Handlers \ {h} : op'[g] = op[g],
         \A g \in Handlers \ {h} : netjob[g].pc \in Starting =>
           /\ leases'[netjob[g].token] = leases[netjob[g].token]
           /\ runs'[netjob[g].token] = runs[netjob[g].token],
         j.pc # "idle" => j.key \in Sessions,
         j.pc \in Starting =>
           /\ j.token \in Tokens /\ leases'[j.token] = j.key /\ runs'[j.token] = None
           /\ \A g \in Handlers \ {h} : netjob[g].pc \in Starting => netjob[g].token # j.token,
         j.pc \in {"stop", "save"} =>
           op'[h] = [kind |-> "mutation", key |-> j.key] /\ j.mode \in Modes
  PROVE  /\ JobsAreEntitled' /\ TokensDiffer' /\ netjob' \in [Handlers -> NetJob]
         /\ netjob'[h] = j /\ \A g \in Handlers \ {h} : netjob'[g] = netjob[g]
  <1>1. netjob'[h] = j /\ \A g \in Handlers \ {h} : netjob'[g] = netjob[g]
    BY DEF NetTypeOK
  <1>2. netjob' \in [Handlers -> NetJob]
    BY DEF NetTypeOK
  <1>3. TokensDiffer'
    BY <1>1 DEF TokensDiffer
  <1>4. JobsAreEntitled'
    <2> SUFFICES ASSUME NEW g \in Handlers
                 PROVE  /\ netjob'[g].pc \in Locking <=> netlock' = g
                        /\ netjob'[g].pc # "idle" => netjob'[g].key \in Sessions
                        /\ netjob'[g].pc \in Starting =>
                             /\ netjob'[g].token \in Tokens
                             /\ leases'[netjob'[g].token] = netjob'[g].key
                             /\ runs'[netjob'[g].token] = None
                        /\ netjob'[g].pc \in {"stop", "save"} =>
                             op'[g] = [kind |-> "mutation", key |-> netjob'[g].key] /\ netjob'[g].mode \in Modes
      BY DEF JobsAreEntitled, Inside
    <2>1. CASE g = h
      BY <1>1, <2>1
    <2>2. CASE g # h
      BY <1>1, <2>2 DEF JobsAreEntitled, Inside
    <2> QED
      BY <2>1, <2>2
  <1> QED
    BY <1>1, <1>2, <1>3, <1>4

\* process.start takes a token that no run and no other request uses.
LEMMA ProcessStart ==
  ASSUME IInv, NetInv, NEW h \in Handlers, NEW s \in Sessions, NEW t \in Tokens,
         process_start(h, s, t)
  PROVE  NetInv'
  <1> USE NetNamesAssumption, NoneAssumption DEF NetInv
  <1>1. /\ netjob[h].pc = "idle" /\ leases[t] = None
        /\ leases' = [leases EXCEPT ![t] = s] /\ op' = op
        /\ UNCHANGED <<configuration, disk, runtime, helper, broker, path, netlock, runs, service,
                       faults, lost, acked, unsaved>>
    BY DEF process_start, NetAt, acquire, Fresh, IInv, TokensAreKnown, TypeOK, world
  <1>2. leases'[t] = s /\ \A u \in Tokens \ {t} : leases'[u] = leases[u]
    BY <1>1 DEF IInv, TypeOK
  <1> DEFINE j == [NoNetJob EXCEPT !.pc = "prepare", !.key = s, !.token = t]
  <1>3. /\ j \in NetJob /\ netjob' = [netjob EXCEPT ![h] = j]
        /\ j.pc = "prepare" /\ j.key = s /\ j.token = t /\ j.attempt = None
    <2>1. j \in NetJob
      BY DEF NoNetJob, NetJob
    <2>2. j.pc = "prepare" /\ j.key = s /\ j.token = t /\ j.attempt = None
      BY DEF NoNetJob
    <2>3. netjob' = [netjob EXCEPT ![h] = j]
      BY DEF process_start
    <2> QED
      BY <2>1, <2>2, <2>3
  <1> HIDE DEF j
  <1>4. /\ runs[t] = None
        /\ \A g \in Handlers : netjob[g].pc \in Starting => netjob[g].token # t
    BY <1>1 DEF RunsAreLeased, JobsAreEntitled, Starting
  <1>5. netlock # h
    BY <1>1 DEF JobsAreEntitled, Locking
  <1>6. /\ JobsAreEntitled' /\ TokensDiffer' /\ netjob' \in [Handlers -> NetJob]
        /\ netjob'[h] = j /\ \A g \in Handlers \ {h} : netjob'[g] = netjob[g]
    <2>1. \A g \in Handlers : netjob[g].pc \in Starting => netjob[g].token \in Tokens
      BY DEF JobsAreEntitled
    <2> QED
      BY <1>1, <1>2, <1>3, <1>4, <1>5, <2>1, NetMoves DEF Locking
  <1>7. NetTypeOK'
    BY <1>1, <1>6 DEF NetTypeOK
  <1>8. JobsBuild'
    BY <1>1, <1>3, <1>6 DEF JobsBuild
  <1>9. RunsAreLeased' /\ RunKeepsItsNetwork'
    BY <1>1, <1>2, <1>4 DEF RunsAreLeased, RunKeepsItsNetwork
  <1>10. RuntimesDiffer' /\ SocketReachesItsBroker' /\ ModesAgree'
    BY <1>1 DEF RuntimesDiffer, SocketReachesItsBroker, ModesAgree
  <1>11. NothingStray'
    BY <1>1, <1>3, <1>6 DEF NothingStray, JobsBuild
  <1> QED
    BY <1>6, <1>7, <1>8, <1>9, <1>10, <1>11

\* The entry that _stop_locked was given is ended, and only it.
LEMMA Stopping ==
  ASSUME NetTypeOK, NEW a \in Attempts, NEW s \in Sessions, StopAttempt(a, s)
  PROVE  /\ helper' \in [Attempts -> {"none", "up", "dead"}]
         /\ broker' \in [Attempts -> {"none", "open", "closed"}]
         /\ path' \in [Sessions -> Attempts \cup {None}]
         /\ helper'[a] = "dead" /\ broker'[a] # "open"
         /\ \A b \in Attempts \ {a} : helper'[b] = helper[b] /\ broker'[b] = broker[b]
         /\ \A u \in Sessions \ {s} : path'[u] = path[u]
  <1>1. CASE broker[a] = "open"
    BY <1>1 DEF StopAttempt, CloseBroker, NetTypeOK
  <1>2. CASE broker[a] # "open"
    BY <1>2 DEF StopAttempt, CloseBroker, NetTypeOK
  <1> QED
    BY <1>1, <1>2

\* A job that ends holds nothing.
LEMMA Ending ==
  ASSUME NetTypeOK, JobsAreEntitled, TokensDiffer, NEW h \in Handlers,
         netjob' = [netjob EXCEPT ![h] = NoNetJob],
         netlock' = None, netlock = None \/ netlock = h,
         \A g \in Handlers \ {h} : op'[g] = op[g],
         \A g \in Handlers \ {h} : netjob[g].pc \in Starting =>
           /\ leases'[netjob[g].token] = leases[netjob[g].token]
           /\ runs'[netjob[g].token] = runs[netjob[g].token]
  PROVE  /\ JobsAreEntitled' /\ TokensDiffer' /\ netjob' \in [Handlers -> NetJob]
         /\ netjob'[h].pc = "idle" /\ netjob'[h].attempt = None
         /\ \A g \in Handlers \ {h} : netjob'[g] = netjob[g]
  <1> USE NetNamesAssumption
  <1> DEFINE j == NoNetJob
  <1>1. j \in NetJob /\ j.pc = "idle" /\ j.attempt = None
    BY DEF NoNetJob, NetJob
  <1>2. netjob' = [netjob EXCEPT ![h] = j]
    OBVIOUS
  <1> HIDE DEF j
  <1>3. ~(netlock' = h) /\ j.pc \notin Locking /\ j.pc \notin Starting
    BY <1>1 DEF Locking, Starting
  <1>4. \A g \in Handlers \ {h} : netlock' = g <=> netlock = g
    OBVIOUS
  <1> QED
    BY <1>1, <1>2, <1>3, <1>4, NetMoves

\* process.start gives its lease back: no run and no other request had it.
LEMMA StartFailing ==
  ASSUME IInv, NetInv, NEW h \in Handlers, netjob[h].pc \in Starting, netlock = None \/ netlock = h,
         StartFails(h), UNCHANGED runs
  PROVE  /\ JobsAreEntitled' /\ TokensDiffer' /\ netjob' \in [Handlers -> NetJob] /\ netlock' = None
         /\ netjob'[h].pc = "idle" /\ netjob'[h].attempt = None
         /\ \A g \in Handlers \ {h} : netjob'[g] = netjob[g]
         /\ \A t \in Tokens : runs[t] # None => leases'[t] = leases[t]
         /\ RunsAreLeased'
  <1> USE DEF NetInv
  <1>1. /\ netjob[h].token \in Tokens /\ runs[netjob[h].token] = None
        /\ \A g \in Handlers : netjob[g].pc \in Starting => netjob[g].token \in Tokens
    BY DEF JobsAreEntitled
  <1>2. /\ \A t \in Tokens \ {netjob[h].token} : leases'[t] = leases[t]
        /\ op' = op /\ netlock' = None /\ netjob' = [netjob EXCEPT ![h] = NoNetJob]
    BY <1>1 DEF StartFails, release, IInv, TypeOK
  <1>3. \A g \in Handlers \ {h} : netjob[g].pc \in Starting =>
          /\ leases'[netjob[g].token] = leases[netjob[g].token]
          /\ runs'[netjob[g].token] = runs[netjob[g].token]
    BY <1>1, <1>2 DEF TokensDiffer
  <1>4. /\ JobsAreEntitled' /\ TokensDiffer' /\ netjob' \in [Handlers -> NetJob]
        /\ netjob'[h].pc = "idle" /\ netjob'[h].attempt = None
        /\ \A g \in Handlers \ {h} : netjob'[g] = netjob[g]
    BY <1>2, <1>3, Ending
  <1>5. \A t \in Tokens : runs[t] # None => leases'[t] = leases[t]
    BY <1>1, <1>2
  <1>6. RunsAreLeased'
    BY <1>5 DEF RunsAreLeased
  <1> QED
    BY <1>2, <1>4, <1>5, <1>6

LEMMA PrepareRefused ==
  ASSUME IInv, NetInv, NEW h \in Handlers, prepare_refused(h)
  PROVE  NetInv'
  <1> USE NetNamesAssumption, NoneAssumption DEF NetInv
  <1>1. /\ netjob[h].pc = "prepare" /\ netlock = None /\ StartFails(h)
        /\ UNCHANGED <<configuration, disk, runtime, helper, broker, path, runs, service,
                       faults, lost, acked, unsaved>>
    BY DEF prepare_refused, NetAt, world
  <1>2. /\ JobsAreEntitled' /\ TokensDiffer' /\ netjob' \in [Handlers -> NetJob] /\ netlock' = None
        /\ netjob'[h].pc = "idle" /\ netjob'[h].attempt = None
        /\ \A g \in Handlers \ {h} : netjob'[g] = netjob[g]
        /\ \A t \in Tokens : runs[t] # None => leases'[t] = leases[t]
        /\ RunsAreLeased'
    BY <1>1, StartFailing DEF Starting
  <1>3. NetTypeOK'
    BY <1>1, <1>2 DEF NetTypeOK
  <1>4. JobsBuild'
    BY <1>1, <1>2 DEF JobsBuild
  <1>5. RunKeepsItsNetwork'
    BY <1>1, <1>2 DEF RunKeepsItsNetwork
  <1>6. RuntimesDiffer' /\ SocketReachesItsBroker' /\ ModesAgree'
    BY <1>1 DEF RuntimesDiffer, SocketReachesItsBroker, ModesAgree
  <1>7. NothingStray'
    BY <1>1, <1>2 DEF NothingStray, JobsBuild
  <1> QED
    BY <1>2, <1>3, <1>4, <1>5, <1>6, <1>7

\* The broker of an attempt whose helper could not be started is lost.
LEMMA PopenFails ==
  ASSUME IInv, NetInv, NEW h \in Handlers, popen_fails(h)
  PROVE  NetInv'
  <1> USE NetNamesAssumption, NoneAssumption, FaultsAssumption DEF NetInv
  <1>1. /\ netjob[h].pc = "popen" /\ StartFails(h)
        /\ faults < MaxFaults /\ faults' = faults + 1
        /\ lost' = lost \cup {netjob[h].attempt}
        /\ UNCHANGED <<configuration, disk, runtime, helper, broker, path, runs, service, acked, unsaved>>
    BY DEF popen_fails, NetAt, world, Fault
  <1>2. netlock = h
    BY <1>1 DEF JobsAreEntitled, Locking
  <1>3. /\ JobsAreEntitled' /\ TokensDiffer' /\ netjob' \in [Handlers -> NetJob] /\ netlock' = None
        /\ netjob'[h].pc = "idle" /\ netjob'[h].attempt = None
        /\ \A g \in Handlers \ {h} : netjob'[g] = netjob[g]
        /\ \A t \in Tokens : runs[t] # None => leases'[t] = leases[t]
        /\ RunsAreLeased'
    BY <1>1, <1>2, StartFailing DEF Starting
  <1>4. netjob[h].attempt \in Attempts
    BY <1>1 DEF JobsBuild
  <1>5. NetTypeOK'
    BY <1>1, <1>3, <1>4 DEF NetTypeOK
  <1>6. JobsBuild'
    BY <1>1, <1>3 DEF JobsBuild
  <1>7. RunKeepsItsNetwork'
    BY <1>1, <1>3 DEF RunKeepsItsNetwork
  <1>8. RuntimesDiffer' /\ SocketReachesItsBroker' /\ ModesAgree'
    BY <1>1 DEF RuntimesDiffer, SocketReachesItsBroker, ModesAgree
  <1>9. NothingStray'
    BY <1>1, <1>3 DEF NothingStray
  <1> QED
    BY <1>3, <1>5, <1>6, <1>7, <1>8, <1>9

\* The error path of _start_locked: helper and broker are ended, or lost.
LEMMA HelperNotReady ==
  ASSUME IInv, NetInv, NEW h \in Handlers, helper_not_ready(h)
  PROVE  NetInv'
  <1> USE NetNamesAssumption, NoneAssumption, FaultsAssumption DEF NetInv
  <1> DEFINE a == netjob[h].attempt
             s == netjob[h].key
  <1>1. /\ netjob[h].pc = "ready" /\ StartFails(h)
        /\ \/ /\ StopAttempt(a, s)
              /\ UNCHANGED lost
              /\ IF helper[a] = "dead" THEN UNCHANGED faults ELSE Fault
           \/ CannotStop(a)
        /\ UNCHANGED <<configuration, disk, runtime, runs, service, acked, unsaved>>
    BY DEF helper_not_ready, NetAt
  <1>2. /\ netlock = h /\ s \in Sessions /\ a \in Attempts
        /\ runtime[s] = None /\ helper[a] # "none"
        /\ \A u \in Sessions : runtime[u] # a
        /\ \A g \in Handlers \ {h} : netjob[g].pc \notin Locking
    BY <1>1 DEF JobsAreEntitled, JobsBuild, Locking
  <1> HIDE DEF a, s
  <1>3. /\ JobsAreEntitled' /\ TokensDiffer' /\ netjob' \in [Handlers -> NetJob] /\ netlock' = None
        /\ netjob'[h].pc = "idle" /\ netjob'[h].attempt = None
        /\ \A g \in Handlers \ {h} : netjob'[g] = netjob[g]
        /\ \A t \in Tokens : runs[t] # None => leases'[t] = leases[t]
        /\ RunsAreLeased'
    BY <1>1, <1>2, StartFailing DEF Starting
  <1>4. /\ helper' \in [Attempts -> {"none", "up", "dead"}]
        /\ broker' \in [Attempts -> {"none", "open", "closed"}]
        /\ path' \in [Sessions -> Attempts \cup {None}]
        /\ faults' \in 0..MaxFaults /\ lost' \subseteq Attempts /\ lost \subseteq lost'
        /\ a \in lost' \/ (helper'[a] # "up" /\ broker'[a] # "open")
        /\ \A b \in Attempts \ {a} : helper'[b] = helper[b] /\ broker'[b] = broker[b]
        /\ \A u \in Sessions \ {s} : path'[u] = path[u]
    <2>1. CASE StopAttempt(a, s) /\ UNCHANGED lost
               /\ IF helper[a] = "dead" THEN UNCHANGED faults ELSE Fault
      <3>1. /\ helper' \in [Attempts -> {"none", "up", "dead"}]
            /\ broker' \in [Attempts -> {"none", "open", "closed"}]
            /\ path' \in [Sessions -> Attempts \cup {None}]
            /\ helper'[a] = "dead" /\ broker'[a] # "open"
            /\ \A b \in Attempts \ {a} : helper'[b] = helper[b] /\ broker'[b] = broker[b]
            /\ \A u \in Sessions \ {s} : path'[u] = path[u]
        BY <1>2, <2>1, Stopping
      <3>2. faults' \in 0..MaxFaults /\ lost' \subseteq Attempts
        BY <2>1 DEF NetTypeOK, Fault
      <3> QED
        BY <2>1, <3>1, <3>2
    <2>2. CASE CannotStop(a)
      BY <1>2, <2>2 DEF CannotStop, Fault, world, NetTypeOK
    <2> QED
      BY <1>1, <2>1, <2>2
  <1>5. NetTypeOK'
    BY <1>1, <1>3, <1>4 DEF NetTypeOK
  <1>6. JobsBuild'
    <2>1. \A g \in Handlers : netjob'[g].pc \notin {"broker", "popen", "ready"} /\ netjob'[g].attempt = None
      BY <1>2, <1>3 DEF JobsBuild, Locking
    <2> QED
      BY <2>1 DEF JobsBuild
  <1>7. RunKeepsItsNetwork'
    BY <1>1, <1>3 DEF RunKeepsItsNetwork
  <1>8. \A u \in Sessions : runtime[u] # None => runtime[u] \in Attempts \ {a} /\ u # s
    BY <1>2 DEF NetTypeOK
  <1>9. RuntimesDiffer' /\ SocketReachesItsBroker'
    BY <1>1, <1>4, <1>8 DEF RuntimesDiffer, SocketReachesItsBroker
  <1>10. ModesAgree'
    BY <1>1 DEF ModesAgree
  <1>11. NothingStray'
    <2> SUFFICES ASSUME NEW b \in Attempts
                 PROVE  \/ helper'[b] # "up" /\ broker'[b] # "open"
                        \/ b \in lost'
                        \/ \E u \in Sessions : runtime'[u] = b
                        \/ \E g \in Handlers : netjob'[g].attempt = b
      BY DEF NothingStray
    <2>1. CASE b = a
      BY <1>4, <2>1
    <2>2. CASE b # a
      <3>1. netjob[h].attempt # b
        BY <2>2 DEF a
      <3> QED
        BY <1>1, <1>3, <1>4, <2>2, <3>1 DEF NothingStray
    <2> QED
      BY <2>1, <2>2
  <1> QED
    BY <1>3, <1>5, <1>6, <1>7, <1>9, <1>10, <1>11

\* The manager is entered, and the run gets the namespace that serves its
\* Session or a new one is begun; a dead one is ended first.
LEMMA Prepare ==
  ASSUME IInv, NetInv, NEW h \in Handlers, prepare(h)
  PROVE  NetInv'
  <1> USE NetNamesAssumption, NoneAssumption DEF NetInv
  <1> DEFINE s == netjob[h].key
             t == netjob[h].token
             mode == configuration[s]
  <1>1. /\ netjob[h].pc = "prepare" /\ netlock = None /\ service = "open" /\ netjob[h].attempt = None
        /\ s \in Sessions /\ t \in Tokens /\ leases[t] = s /\ runs[t] = None
        /\ mode \in Modes
        /\ UNCHANGED <<configuration, disk, service, faults, lost, acked, unsaved>>
        /\ leases' = leases /\ op' = op
    BY DEF prepare, NetAt, JobsAreEntitled, JobsBuild, Starting, NetTypeOK, Launch, vars
  <1>2. \A u \in Tokens : runs[u] # None => leases[u] # s
    BY <1>1 DEF IInv, OneLeasePerSession
  <1>3. \A g \in Handlers : netjob[g].pc \in Starting => netjob[g].token \in Tokens
    BY DEF JobsAreEntitled
  <1>4. \A g \in Handlers : netjob[g].pc \notin Locking
    BY <1>1 DEF JobsAreEntitled
  <1>5. ASSUME NEW b \in Attempts \cup {None}, Launch(h, mode, b), mode = "inherit" \/ b = runtime[s],
               UNCHANGED <<runtime, helper, broker, path, netlock>>
        PROVE  NetInv'
    <2>1. /\ netjob' = [netjob EXCEPT ![h] = NoNetJob]
          /\ runs' = [runs EXCEPT ![t] = [mode |-> mode, attempt |-> b]]
      BY <1>5 DEF Launch
    <2>2. /\ \A u \in Tokens \ {t} : runs'[u] = runs[u]
          /\ runs'[t] = [mode |-> mode, attempt |-> b]
          /\ runs' \in [Tokens -> [mode : Modes, attempt : Attempts \cup {None}] \cup {None}]
      BY <1>1, <1>5, <2>1 DEF NetTypeOK
    <2> HIDE DEF t, s, mode
    <2>3. \A g \in Handlers \ {h} : netjob[g].pc \in Starting =>
            /\ leases'[netjob[g].token] = leases[netjob[g].token]
            /\ runs'[netjob[g].token] = runs[netjob[g].token]
      <3>1. \A g \in Handlers \ {h} : netjob[g].pc \in Starting => netjob[g].token # t
        BY <1>1 DEF TokensDiffer, Starting, t
      <3> QED
        BY <1>1, <1>3, <2>2, <3>1
    <2>4. /\ JobsAreEntitled' /\ TokensDiffer' /\ netjob' \in [Handlers -> NetJob]
          /\ netjob'[h].pc = "idle" /\ netjob'[h].attempt = None
          /\ \A g \in Handlers \ {h} : netjob'[g] = netjob[g]
      BY <1>1, <1>5, <2>1, <2>3, Ending
    <2>5. NetTypeOK'
      BY <1>1, <1>5, <2>2, <2>4 DEF NetTypeOK
    <2>6. JobsBuild'
      BY <1>1, <1>5, <2>4 DEF JobsBuild
    <2>7. RunsAreLeased'
      BY <1>1, <2>2 DEF RunsAreLeased
    <2>8. RunKeepsItsNetwork'
      <3>1. runs'[t].mode = configuration[s] /\ (runs'[t].attempt = runtime[s] \/ runs'[t].mode = "inherit")
        BY <1>5, <2>2 DEF mode
      <3> QED
        BY <1>1, <1>5, <2>2, <3>1 DEF RunKeepsItsNetwork
    <2>9. RuntimesDiffer' /\ SocketReachesItsBroker' /\ ModesAgree'
      BY <1>1, <1>5 DEF RuntimesDiffer, SocketReachesItsBroker, ModesAgree
    <2>10. NothingStray'
      BY <1>1, <1>5, <2>4 DEF NothingStray
    <2> QED
      BY <2>4, <2>5, <2>6, <2>7, <2>8, <2>9, <2>10
  <1>6. ASSUME netlock' = h, UNCHANGED runs,
               netjob' = [netjob EXCEPT ![h].pc = "broker", ![h].mode = mode],
               runtime' = [runtime EXCEPT ![s] = None],
               IF runtime[s] = None THEN UNCHANGED world ELSE StopAttempt(runtime[s], s)
        PROVE  NetInv'
    <2> DEFINE j == [netjob[h] EXCEPT !.pc = "broker", !.mode = mode]
               a == runtime[s]
    <2>1. /\ j \in NetJob /\ j.pc = "broker" /\ j.key = s /\ j.token = t /\ j.attempt = None
          /\ j.mode = mode
      <3>1. netjob[h] \in NetJob
        BY JobFields
      <3> QED
        BY <1>1, <3>1 DEF NetJob
    <2>2. netjob' = [netjob EXCEPT ![h] = j]
      BY <1>6
    <2>3. /\ helper' \in [Attempts -> {"none", "up", "dead"}]
          /\ broker' \in [Attempts -> {"none", "open", "closed"}]
          /\ path' \in [Sessions -> Attempts \cup {None}]
          /\ \A b \in Attempts \ {a} : helper'[b] = helper[b] /\ broker'[b] = broker[b]
          /\ a \in Attempts => helper'[a] # "up" /\ broker'[a] # "open"
          /\ \A u \in Sessions \ {s} : path'[u] = path[u]
      <3>1. CASE a = None
        BY <1>6, <3>1 DEF world, NetTypeOK
      <3>2. CASE a # None
        <4>1. a \in Attempts
          BY <1>1, <3>2 DEF NetTypeOK
        <4>2. StopAttempt(a, s)
          BY <1>6, <3>2
        <4> QED
          BY <1>1, <4>1, <4>2, Stopping
      <3> QED
        BY <3>1, <3>2
    <2>4. /\ runtime' \in [Sessions -> Attempts \cup {None}] /\ runtime'[s] = None
          /\ \A u \in Sessions \ {s} : runtime'[u] = runtime[u]
      BY <1>1, <1>6 DEF NetTypeOK
    <2>5. \A u \in Sessions : runtime'[u] # None =>
            u # s /\ runtime[u] \in Attempts \ {a} /\ runtime'[u] = runtime[u]
      BY <1>1, <2>4 DEF NetTypeOK, RuntimesDiffer
    <2>6. \A g \in Handlers \ {h} : netjob[g].pc \in Starting => netjob[g].token # t
      BY <1>1 DEF TokensDiffer, Starting
    <2> HIDE DEF t, s, mode, j, a
    <2>7. /\ JobsAreEntitled' /\ TokensDiffer' /\ netjob' \in [Handlers -> NetJob]
          /\ netjob'[h] = j /\ \A g \in Handlers \ {h} : netjob'[g] = netjob[g]
      BY <1>1, <1>6, <2>1, <2>2, <2>6, NetMoves DEF Locking
    <2>8. NetTypeOK'
      BY <1>1, <1>6, <2>3, <2>4, <2>7 DEF NetTypeOK
    <2>9. JobsBuild'
      <3>1. \A g \in Handlers \ {h} :
              netjob'[g].pc \notin {"broker", "popen", "ready"} /\ netjob'[g].attempt = None
        BY <1>4, <2>7 DEF JobsBuild, Locking
      <3>2. mode = configuration'[s]
        BY <1>1 DEF mode
      <3> QED
        BY <2>1, <2>4, <2>7, <3>1, <3>2 DEF JobsBuild
    <2>10. RunsAreLeased'
      BY <1>1, <1>6 DEF RunsAreLeased
    <2>11. RunKeepsItsNetwork'
      BY <1>1, <1>2, <1>6, <2>4 DEF RunKeepsItsNetwork, RunsAreLeased
    <2>12. RuntimesDiffer' /\ SocketReachesItsBroker'
      BY <2>3, <2>4, <2>5 DEF RuntimesDiffer, SocketReachesItsBroker
    <2>13. ModesAgree'
      BY <1>1 DEF ModesAgree
    <2>14. NothingStray'
      <3> SUFFICES ASSUME NEW b \in Attempts
                   PROVE  \/ helper'[b] # "up" /\ broker'[b] # "open"
                          \/ b \in lost'
                          \/ \E u \in Sessions : runtime'[u] = b
                          \/ \E g \in Handlers : netjob'[g].attempt = b
        BY DEF NothingStray
      <3>1. CASE b = a
        BY <2>3, <3>1
      <3>2. CASE b # a
        <4>1. runtime[s] # b
          BY <3>2 DEF a
        <4> QED
          BY <1>1, <2>3, <2>4, <2>7, <3>2, <4>1 DEF NothingStray
      <3> QED
        BY <3>1, <3>2
    <2> QED
      BY <2>7, <2>8, <2>9, <2>10, <2>11, <2>12, <2>13, <2>14
  <1>7. CASE mode = "inherit" /\ Launch(h, mode, None) /\ UNCHANGED <<runtime, world, netlock>>
    BY <1>5, <1>7 DEF world
  <1>8. CASE Launch(h, mode, runtime[s]) /\ UNCHANGED <<runtime, world, netlock>>
    <2>1. runtime[s] \in Attempts \cup {None}
      BY <1>1 DEF NetTypeOK
    <2> QED
      BY <1>5, <1>8, <2>1 DEF world
  <1>9. CASE /\ netlock' = h /\ UNCHANGED runs
             /\ netjob' = [netjob EXCEPT ![h].pc = "broker", ![h].mode = mode]
             /\ IF runtime[s] = None
                THEN UNCHANGED <<runtime, world>>
                ELSE runtime' = [runtime EXCEPT ![s] = None] /\ StopAttempt(runtime[s], s)
    <2>1. runtime' = [runtime EXCEPT ![s] = None]
      BY <1>1, <1>9 DEF NetTypeOK
    <2> QED
      BY <1>6, <1>9, <2>1
  <1> QED
    BY <1>7, <1>8, <1>9 DEF prepare

\* The new attempt was used by nobody, and in proxy mode its socket replaces
\* whatever was at the path.
LEMMA StartBroker ==
  ASSUME IInv, NetInv, NEW h \in Handlers, NEW a \in Attempts, start_broker(h, a)
  PROVE  NetInv'
  <1> USE NetNamesAssumption, NoneAssumption DEF NetInv
  <1> DEFINE s == netjob[h].key
             t == netjob[h].token
             j == [netjob[h] EXCEPT !.pc = "popen", !.attempt = a]
  <1>1. /\ netjob[h].pc = "broker" /\ helper[a] = "none" /\ broker[a] = "none"
        /\ netjob[h].attempt = None /\ runtime[s] = None /\ netjob[h].mode = configuration[s]
        /\ s \in Sessions /\ t \in Tokens /\ leases[t] = s /\ runs[t] = None
        /\ UNCHANGED <<configuration, disk, runtime, helper, netlock, runs, service, faults, lost,
                       acked, unsaved>>
        /\ leases' = leases /\ op' = op
    BY DEF start_broker, NetAt, JobsAreEntitled, JobsBuild, Starting, vars
  <1>2. netlock = h /\ \A g \in Handlers \ {h} : netjob[g].pc \notin Locking
    BY <1>1 DEF JobsAreEntitled, Locking
  <1>3. /\ j \in NetJob /\ j.pc = "popen" /\ j.key = s /\ j.token = t /\ j.attempt = a
        /\ j.mode = netjob[h].mode
    <2>1. netjob[h] \in NetJob
      BY JobFields
    <2> QED
      BY <1>1, <2>1 DEF NetJob
  <1>4. netjob' = [netjob EXCEPT ![h] = j]
    BY DEF start_broker
  <1>5. /\ broker' \in [Attempts -> {"none", "open", "closed"}]
        /\ path' \in [Sessions -> Attempts \cup {None}]
        /\ \A b \in Attempts \ {a} : broker'[b] = broker[b]
        /\ broker'[a] # "none" => broker'[a] = "open" /\ path'[s] = a
        /\ \A u \in Sessions \ {s} : path'[u] = path[u]
    <2>1. CASE netjob[h].mode = "proxy"
      BY <1>1, <2>1 DEF start_broker, NetTypeOK
    <2>2. CASE netjob[h].mode # "proxy"
      BY <1>1, <2>2 DEF start_broker, NetTypeOK
    <2> QED
      BY <2>1, <2>2
  <1>6. \A u \in Sessions : runtime[u] # None => runtime[u] \in Attempts \ {a} /\ u # s
    BY <1>1 DEF RuntimesDiffer, NetTypeOK
  <1>7. \A g \in Handlers \ {h} : netjob[g].pc \in Starting => netjob[g].token # t
    BY <1>1 DEF TokensDiffer, Starting
  <1> HIDE DEF s, t, j
  <1>8. /\ JobsAreEntitled' /\ TokensDiffer' /\ netjob' \in [Handlers -> NetJob]
        /\ netjob'[h] = j /\ \A g \in Handlers \ {h} : netjob'[g] = netjob[g]
    BY <1>1, <1>2, <1>3, <1>4, <1>7, NetMoves DEF Locking
  <1>9. NetTypeOK'
    BY <1>1, <1>5, <1>8 DEF NetTypeOK
  <1>10. JobsBuild'
    <2>1. \A g \in Handlers \ {h} :
            netjob'[g].pc \notin {"broker", "popen", "ready"} /\ netjob'[g].attempt = None
      BY <1>2, <1>8 DEF JobsBuild, Locking
    <2>2. \A u \in Sessions : runtime'[u] # a
      BY <1>1, <1>6
    <2> QED
      BY <1>1, <1>3, <1>5, <1>8, <2>1, <2>2 DEF JobsBuild
  <1>11. RunsAreLeased' /\ RunKeepsItsNetwork'
    BY <1>1 DEF RunsAreLeased, RunKeepsItsNetwork
  <1>12. RuntimesDiffer' /\ SocketReachesItsBroker'
    BY <1>1, <1>5, <1>6 DEF RuntimesDiffer, SocketReachesItsBroker
  <1>13. ModesAgree'
    BY <1>1 DEF ModesAgree
  <1>14. NothingStray'
    BY <1>1, <1>3, <1>5, <1>8 DEF NothingStray
  <1> QED
    BY <1>8, <1>9, <1>10, <1>11, <1>12, <1>13, <1>14

LEMMA Popen ==
  ASSUME IInv, NetInv, NEW h \in Handlers, popen(h)
  PROVE  NetInv'
  <1> USE NetNamesAssumption, NoneAssumption DEF NetInv
  <1> DEFINE s == netjob[h].key
             t == netjob[h].token
             a == netjob[h].attempt
             j == [netjob[h] EXCEPT !.pc = "ready"]
  <1>1. /\ netjob[h].pc = "popen" /\ a \in Attempts
        /\ runtime[s] = None /\ netjob[h].mode = configuration[s]
        /\ broker[a] # "none" => broker[a] = "open" /\ path[s] = a
        /\ \A u \in Sessions : runtime[u] # a
        /\ s \in Sessions /\ t \in Tokens /\ leases[t] = s /\ runs[t] = None
        /\ helper' = [helper EXCEPT ![a] = "up"]
        /\ UNCHANGED <<configuration, disk, runtime, broker, path, netlock, runs, service, faults,
                       lost, acked, unsaved>>
        /\ leases' = leases /\ op' = op
    BY DEF popen, NetAt, JobsAreEntitled, JobsBuild, Starting, vars
  <1>2. netlock = h /\ \A g \in Handlers \ {h} : netjob[g].pc \notin Locking
    BY <1>1 DEF JobsAreEntitled, Locking
  <1>3. /\ j \in NetJob /\ j.pc = "ready" /\ j.key = s /\ j.token = t /\ j.attempt = a
        /\ j.mode = netjob[h].mode
    <2>1. netjob[h] \in NetJob
      BY JobFields
    <2> QED
      BY <1>1, <2>1 DEF NetJob
  <1>4. netjob' = [netjob EXCEPT ![h] = j]
    BY DEF popen, NetGoto
  <1>5. \A g \in Handlers \ {h} : netjob[g].pc \in Starting => netjob[g].token # t
    BY <1>1 DEF TokensDiffer, Starting
  <1> HIDE DEF s, t, a, j
  <1>6. /\ helper' \in [Attempts -> {"none", "up", "dead"}] /\ helper'[a] = "up"
        /\ \A b \in Attempts \ {a} : helper'[b] = helper[b]
    BY <1>1 DEF NetTypeOK
  <1>7. /\ JobsAreEntitled' /\ TokensDiffer' /\ netjob' \in [Handlers -> NetJob]
        /\ netjob'[h] = j /\ \A g \in Handlers \ {h} : netjob'[g] = netjob[g]
    BY <1>1, <1>2, <1>3, <1>4, <1>5, NetMoves DEF Locking
  <1>8. NetTypeOK'
    BY <1>1, <1>6, <1>7 DEF NetTypeOK
  <1>9. JobsBuild'
    <2>1. \A g \in Handlers \ {h} :
            netjob'[g].pc \notin {"broker", "popen", "ready"} /\ netjob'[g].attempt = None
      BY <1>2, <1>7 DEF JobsBuild, Locking
    <2> QED
      BY <1>1, <1>3, <1>6, <1>7, <2>1 DEF JobsBuild
  <1>10. RunsAreLeased' /\ RunKeepsItsNetwork' /\ SocketReachesItsBroker' /\ ModesAgree'
    BY <1>1 DEF RunsAreLeased, RunKeepsItsNetwork, SocketReachesItsBroker, ModesAgree
  <1>11. RuntimesDiffer'
    BY <1>1, <1>6 DEF RuntimesDiffer, NetTypeOK
  <1>12. NothingStray'
    <2>1. \A g \in Handlers : netjob'[g].attempt = netjob[g].attempt
      BY <1>3, <1>7 DEF a
    <2>2. netjob'[h].attempt = a
      BY <1>3, <1>7
    <2> QED
      BY <1>1, <1>6, <2>1, <2>2 DEF NothingStray
  <1> QED
    BY <1>7, <1>8, <1>9, <1>10, <1>11, <1>12

\* The Session is served by the attempt, and its run is started in it.
LEMMA HelperReady ==
  ASSUME IInv, NetInv, NEW h \in Handlers, helper_ready(h)
  PROVE  NetInv'
  <1> USE NetNamesAssumption, NoneAssumption DEF NetInv
  <1> DEFINE s == netjob[h].key
             t == netjob[h].token
             a == netjob[h].attempt
             mode == netjob[h].mode
  <1>1. /\ netjob[h].pc = "ready" /\ a \in Attempts
        /\ runtime[s] = None /\ mode = configuration[s] /\ helper[a] # "none"
        /\ broker[a] # "none" => broker[a] = "open" /\ path[s] = a
        /\ \A u \in Sessions : runtime[u] # a
        /\ s \in Sessions /\ t \in Tokens /\ leases[t] = s /\ runs[t] = None
        /\ runtime' = [runtime EXCEPT ![s] = a]
        /\ runs' = [runs EXCEPT ![t] = [mode |-> mode, attempt |-> a]]
        /\ netjob' = [netjob EXCEPT ![h] = NoNetJob] /\ netlock' = None
        /\ UNCHANGED <<configuration, disk, helper, broker, path, service, faults, lost, acked, unsaved>>
        /\ leases' = leases /\ op' = op
    BY DEF helper_ready, Launch, NetAt, JobsAreEntitled, JobsBuild, Starting, vars, world
  <1>2. netlock = h /\ \A g \in Handlers \ {h} : netjob[g].pc \notin Locking
    BY <1>1 DEF JobsAreEntitled, Locking
  <1>3. \A g \in Handlers \ {h} : netjob[g].pc \in Starting => netjob[g].token # t /\ netjob[g].token \in Tokens
    BY <1>1 DEF TokensDiffer, Starting, JobsAreEntitled
  <1>4. mode \in Modes
    BY <1>1 DEF NetTypeOK
  <1>5. \A u \in Tokens : runs[u] # None => leases[u] # s
    BY <1>1 DEF IInv, OneLeasePerSession
  <1> HIDE DEF s, t, a, mode
  <1>6. /\ runtime' \in [Sessions -> Attempts \cup {None}] /\ runtime'[s] = a
        /\ \A u \in Sessions \ {s} : runtime'[u] = runtime[u]
        /\ runs' \in [Tokens -> [mode : Modes, attempt : Attempts \cup {None}] \cup {None}]
        /\ runs'[t] = [mode |-> mode, attempt |-> a]
        /\ \A u \in Tokens \ {t} : runs'[u] = runs[u]
    BY <1>1, <1>4 DEF NetTypeOK
  <1>7. /\ JobsAreEntitled' /\ TokensDiffer' /\ netjob' \in [Handlers -> NetJob]
        /\ netjob'[h].pc = "idle" /\ netjob'[h].attempt = None
        /\ \A g \in Handlers \ {h} : netjob'[g] = netjob[g]
    <2>1. \A g \in Handlers \ {h} : netjob[g].pc \in Starting =>
            /\ leases'[netjob[g].token] = leases[netjob[g].token]
            /\ runs'[netjob[g].token] = runs[netjob[g].token]
      BY <1>1, <1>3, <1>6
    <2> QED
      BY <1>1, <1>2, <2>1, Ending
  <1>8. NetTypeOK'
    BY <1>1, <1>6, <1>7 DEF NetTypeOK
  <1>9. JobsBuild'
    <2>1. \A g \in Handlers :
            netjob'[g].pc \notin {"broker", "popen", "ready"} /\ netjob'[g].attempt = None
      BY <1>2, <1>7 DEF JobsBuild, Locking
    <2> QED
      BY <2>1 DEF JobsBuild
  <1>10. RunsAreLeased'
    BY <1>1, <1>6 DEF RunsAreLeased
  <1>11. RunKeepsItsNetwork'
    <2>1. runs'[t].mode = mode /\ runs'[t].attempt = a
      BY <1>6
    <2> QED
      BY <1>1, <1>5, <1>6, <2>1 DEF RunKeepsItsNetwork, RunsAreLeased
  <1>12. RuntimesDiffer' /\ SocketReachesItsBroker'
    BY <1>1, <1>6 DEF RuntimesDiffer, SocketReachesItsBroker
  <1>13. ModesAgree'
    BY <1>1 DEF ModesAgree
  <1>14. NothingStray'
    <2> SUFFICES ASSUME NEW b \in Attempts
                 PROVE  \/ helper'[b] # "up" /\ broker'[b] # "open"
                        \/ b \in lost'
                        \/ \E u \in Sessions : runtime'[u] = b
                        \/ \E g \in Handlers : netjob'[g].attempt = b
      BY DEF NothingStray
    <2>1. CASE b = a
      BY <1>1, <1>6, <2>1
    <2>2. CASE b # a
      <3>1. netjob[h].attempt # b
        BY <2>2 DEF a
      <3> QED
        BY <1>1, <1>6, <1>7, <3>1 DEF NothingStray
    <2> QED
      BY <2>1, <2>2
  <1> QED
    BY <1>7, <1>8, <1>9, <1>10, <1>11, <1>12, <1>13, <1>14

\* A run ends and gives its lease back.
LEMMA RunEnds ==
  ASSUME IInv, NetInv, NEW t \in Tokens, run_ends(t)
  PROVE  NetInv'
  <1> USE NetNamesAssumption, NoneAssumption DEF NetInv
  <1>1. /\ runs[t] # None
        /\ leases' = [leases EXCEPT ![t] = None] /\ op' = op
        /\ runs' = [runs EXCEPT ![t] = None]
        /\ UNCHANGED <<configuration, disk, runtime, helper, broker, path, netjob, netlock, service,
                       faults, lost, acked, unsaved>>
    BY DEF run_ends, release, world
  <1>2. /\ runs'[t] = None /\ runs' \in [Tokens -> [mode : Modes, attempt : Attempts \cup {None}] \cup {None}]
        /\ \A u \in Tokens \ {t} : runs'[u] = runs[u] /\ leases'[u] = leases[u]
    BY <1>1 DEF NetTypeOK, IInv, TypeOK
  <1>3. NetTypeOK'
    BY <1>1, <1>2 DEF NetTypeOK
  <1>4. JobsAreEntitled'
    <2>1. \A h \in Handlers : netjob[h].pc \in Starting => netjob[h].token \in Tokens \ {t}
      BY <1>1 DEF JobsAreEntitled
    <2> QED
      BY <1>1, <1>2, <2>1 DEF JobsAreEntitled, Inside
  <1>5. JobsBuild' /\ TokensDiffer'
    BY <1>1 DEF JobsBuild, TokensDiffer
  <1>6. RunsAreLeased' /\ RunKeepsItsNetwork'
    BY <1>1, <1>2 DEF RunsAreLeased, RunKeepsItsNetwork
  <1>7. RuntimesDiffer' /\ SocketReachesItsBroker' /\ ModesAgree' /\ NothingStray'
    BY <1>1 DEF RuntimesDiffer, SocketReachesItsBroker, ModesAgree, NothingStray
  <1> QED
    BY <1>3, <1>4, <1>5, <1>6, <1>7

\* configure enters mutation() with nothing done yet.
LEMMA ConfigureBegin ==
  ASSUME IInv, NetInv, NEW h \in Handlers, NEW s \in Sessions, NEW mode \in Modes,
         configure_begin(h, s, mode)
  PROVE  NetInv'
  <1> USE NetNamesAssumption, NoneAssumption DEF NetInv
  <1>1. /\ netjob[h].pc = "idle" /\ leases' = leases
        /\ op' = [op EXCEPT ![h] = [kind |-> "mutation", key |-> s]]
        /\ UNCHANGED <<configuration, disk, runtime, helper, broker, path, netlock, runs, service,
                       faults, lost, acked, unsaved>>
    BY DEF configure_begin, NetAt, mutation_enter, Enter, world
  <1>2. op'[h] = [kind |-> "mutation", key |-> s] /\ \A g \in Handlers \ {h} : op'[g] = op[g]
    BY <1>1 DEF IInv, TypeOK
  <1> DEFINE j == [NoNetJob EXCEPT !.pc = "stop", !.key = s, !.mode = mode]
  <1>3. /\ j \in NetJob /\ netjob' = [netjob EXCEPT ![h] = j]
        /\ j.pc = "stop" /\ j.key = s /\ j.mode = mode /\ j.attempt = None
    <2>1. j \in NetJob
      BY DEF NoNetJob, NetJob
    <2>2. j.pc = "stop" /\ j.key = s /\ j.mode = mode /\ j.attempt = None
      BY DEF NoNetJob
    <2>3. netjob' = [netjob EXCEPT ![h] = j]
      BY DEF configure_begin
    <2> QED
      BY <2>1, <2>2, <2>3
  <1> HIDE DEF j
  <1>4. netlock # h
    BY <1>1 DEF JobsAreEntitled, Locking
  <1>5. /\ JobsAreEntitled' /\ TokensDiffer' /\ netjob' \in [Handlers -> NetJob]
        /\ netjob'[h] = j /\ \A g \in Handlers \ {h} : netjob'[g] = netjob[g]
    BY <1>1, <1>2, <1>3, <1>4, NetMoves DEF Locking, Starting
  <1>6. NetTypeOK'
    BY <1>1, <1>5 DEF NetTypeOK
  <1>7. JobsBuild'
    BY <1>1, <1>3, <1>5 DEF JobsBuild
  <1>8. RunsAreLeased' /\ RunKeepsItsNetwork'
    BY <1>1 DEF RunsAreLeased, RunKeepsItsNetwork
  <1>9. RuntimesDiffer' /\ SocketReachesItsBroker' /\ ModesAgree'
    BY <1>1 DEF RuntimesDiffer, SocketReachesItsBroker, ModesAgree
  <1>10. NothingStray'
    BY <1>1, <1>3, <1>5 DEF NothingStray, JobsBuild
  <1> QED
    BY <1>5, <1>6, <1>7, <1>8, <1>9, <1>10

\* A configure request leaves mutation().
LEMMA ConfigureEnding ==
  ASSUME IInv, NetTypeOK, JobsAreEntitled, TokensDiffer, NEW h \in Handlers, ConfigureEnds(h),
         netlock' = None, netlock = None \/ netlock = h, UNCHANGED runs
  PROVE  /\ JobsAreEntitled' /\ TokensDiffer' /\ netjob' \in [Handlers -> NetJob]
         /\ netjob'[h].pc = "idle" /\ netjob'[h].attempt = None
         /\ \A g \in Handlers \ {h} : netjob'[g] = netjob[g]
         /\ leases' = leases
  <1>1. /\ leases' = leases /\ netjob' = [netjob EXCEPT ![h] = NoNetJob]
        /\ \A g \in Handlers \ {h} : op'[g] = op[g]
    BY DEF ConfigureEnds, mutation_exit, Leave, IInv, TypeOK
  <1> QED
    BY <1>1, Ending

\* The runtime of the Session is given up before its mode is changed: no run
\* uses it, because the fence of the request excludes a lease.
LEMMA ConfigureStop ==
  ASSUME IInv, NetInv, NEW h \in Handlers, configure_stop(h)
  PROVE  NetInv'
  <1> USE NetNamesAssumption, NoneAssumption, FaultsAssumption DEF NetInv
  <1> DEFINE s == netjob[h].key
             a == runtime[s]
  <1>1. /\ netjob[h].pc = "stop" /\ netlock = None /\ netjob[h].attempt = None
        /\ s \in Sessions /\ Inside(h, "mutation", s) /\ netjob[h].mode \in Modes
        /\ a \in Attempts \cup {None}
        /\ UNCHANGED <<configuration, disk, runs, service, unsaved>>
    BY DEF configure_stop, NetAt, JobsAreEntitled, JobsBuild, NetTypeOK
  <1>0. acked' \in [Sessions -> Modes \cup {None}] /\ ModesAgree'
    <2>1. \/ acked' = acked
          \/ acked' = [acked EXCEPT ![s] = netjob[h].mode] /\ configuration[s] = netjob[h].mode
      BY DEF configure_stop
    <2> HIDE DEF s, a
    <2> QED
      BY <1>1, <2>1 DEF ModesAgree, NetTypeOK
  <1>2. \A t \in Tokens : leases[t] # s
    BY <1>1, ConfiguredIsUnleased
  <1>3. \A g \in Handlers : netjob[g].pc \notin Locking
    BY <1>1 DEF JobsAreEntitled
  <1>4. CASE ConfigureEnds(h) /\ UNCHANGED <<runtime, world, netlock, faults, lost>>
    <2>1. UNCHANGED <<runtime, helper, broker, path, netlock, faults, lost>>
      BY <1>4 DEF world
    <2>2. /\ JobsAreEntitled' /\ TokensDiffer' /\ netjob' \in [Handlers -> NetJob]
          /\ netjob'[h].pc = "idle" /\ netjob'[h].attempt = None
          /\ \A g \in Handlers \ {h} : netjob'[g] = netjob[g]
          /\ leases' = leases
      BY <1>1, <1>4, <2>1, ConfigureEnding
    <2>3. NetTypeOK'
      BY <1>0, <1>1, <2>1, <2>2 DEF NetTypeOK
    <2>4. JobsBuild'
      BY <1>1, <2>1, <2>2 DEF JobsBuild
    <2>5. RunsAreLeased' /\ RunKeepsItsNetwork'
      BY <1>1, <2>1, <2>2 DEF RunsAreLeased, RunKeepsItsNetwork
    <2>6. RuntimesDiffer' /\ SocketReachesItsBroker'
      BY <1>1, <2>1 DEF RuntimesDiffer, SocketReachesItsBroker
    <2>7. NothingStray'
      BY <1>1, <2>1, <2>2 DEF NothingStray
    <2> QED
      BY <1>0, <2>2, <2>3, <2>4, <2>5, <2>6, <2>7
  <1>5. ASSUME runtime' = [runtime EXCEPT ![s] = None],
               JobsAreEntitled', TokensDiffer', netjob' \in [Handlers -> NetJob], leases' = leases,
               netlock' \in Handlers \cup {None},
               netjob'[h].pc \in {"idle", "save"}, netjob'[h].attempt = None,
               \A g \in Handlers \ {h} : netjob'[g] = netjob[g],
               helper' \in [Attempts -> {"none", "up", "dead"}],
               broker' \in [Attempts -> {"none", "open", "closed"}],
               path' \in [Sessions -> Attempts \cup {None}],
               faults' \in 0..MaxFaults, lost' \subseteq Attempts, lost \subseteq lost',
               a \in Attempts => a \in lost' \/ (helper'[a] # "up" /\ broker'[a] # "open"),
               \A b \in Attempts \ {a} : helper'[b] = helper[b] /\ broker'[b] = broker[b],
               \A u \in Sessions \ {s} : path'[u] = path[u]
        PROVE  NetInv'
    <2>1. /\ runtime' \in [Sessions -> Attempts \cup {None}] /\ runtime'[s] = None
          /\ \A u \in Sessions \ {s} : runtime'[u] = runtime[u]
      BY <1>1, <1>5 DEF NetTypeOK
    <2>2. \A u \in Sessions : runtime'[u] # None =>
            u # s /\ runtime[u] \in Attempts \ {a} /\ runtime'[u] = runtime[u]
      BY <1>1, <2>1 DEF NetTypeOK, RuntimesDiffer
    <2> HIDE DEF s, a
    <2>3. NetTypeOK'
      BY <1>0, <1>1, <1>5, <2>1 DEF NetTypeOK
    <2>4. JobsBuild'
      <3>1. \A g \in Handlers :
              netjob'[g].pc \notin {"broker", "popen", "ready"} /\ netjob'[g].attempt = None
        BY <1>3, <1>5 DEF JobsBuild, Locking
      <3> QED
        BY <3>1 DEF JobsBuild
    <2>5. RunsAreLeased'
      BY <1>1, <1>5 DEF RunsAreLeased
    <2>6. RunKeepsItsNetwork'
      BY <1>1, <1>2, <1>5, <2>1 DEF RunKeepsItsNetwork, RunsAreLeased
    <2>7. RuntimesDiffer' /\ SocketReachesItsBroker'
      BY <1>5, <2>1, <2>2 DEF RuntimesDiffer, SocketReachesItsBroker
    <2>9. NothingStray'
      <3> SUFFICES ASSUME NEW b \in Attempts
                   PROVE  \/ helper'[b] # "up" /\ broker'[b] # "open"
                          \/ b \in lost'
                          \/ \E u \in Sessions : runtime'[u] = b
                          \/ \E g \in Handlers : netjob'[g].attempt = b
        BY DEF NothingStray
      <3>1. CASE b = a
        BY <1>5, <3>1
      <3>2. CASE b # a
        <4>1. runtime[s] # b
          BY <3>2 DEF a
        <4> QED
          BY <1>1, <1>5, <2>1, <3>2, <4>1 DEF NothingStray
      <3> QED
        BY <3>1, <3>2
    <2> QED
      BY <1>0, <1>5, <2>3, <2>4, <2>5, <2>6, <2>7, <2>9
  <1>6. CASE /\ runtime' = [runtime EXCEPT ![s] = None]
             /\ IF a = None THEN UNCHANGED world ELSE StopAttempt(a, s)
             /\ NetGoto(h, "save") /\ netlock' = h /\ UNCHANGED <<vars, faults, lost>>
    <2> DEFINE j == [netjob[h] EXCEPT !.pc = "save"]
    <2>1. /\ j \in NetJob /\ j.pc = "save" /\ j.key = s /\ j.mode = netjob[h].mode /\ j.attempt = None
      <3>1. netjob[h] \in NetJob
        BY JobFields
      <3> QED
        BY <1>1, <3>1 DEF NetJob
    <2>2. netjob' = [netjob EXCEPT ![h] = j] /\ leases' = leases /\ op' = op
      BY <1>6 DEF NetGoto, vars
    <2>3. /\ helper' \in [Attempts -> {"none", "up", "dead"}]
          /\ broker' \in [Attempts -> {"none", "open", "closed"}]
          /\ path' \in [Sessions -> Attempts \cup {None}]
          /\ \A b \in Attempts \ {a} : helper'[b] = helper[b] /\ broker'[b] = broker[b]
          /\ a \in Attempts => helper'[a] # "up" /\ broker'[a] # "open"
          /\ \A u \in Sessions \ {s} : path'[u] = path[u]
      <3>1. CASE a = None
        BY <1>6, <3>1 DEF world, NetTypeOK
      <3>2. CASE a # None
        <4>1. a \in Attempts
          BY <1>1, <3>2
        <4>2. StopAttempt(a, s)
          BY <1>6, <3>2
        <4> QED
          BY <1>1, <4>1, <4>2, Stopping
      <3> QED
        BY <3>1, <3>2
    <2>4. op'[h] = [kind |-> "mutation", key |-> s]
      BY <1>1, <2>2 DEF Inside
    <2> HIDE DEF s, a, j
    <2>5. /\ JobsAreEntitled' /\ TokensDiffer' /\ netjob' \in [Handlers -> NetJob]
          /\ netjob'[h] = j /\ \A g \in Handlers \ {h} : netjob'[g] = netjob[g]
      BY <1>1, <1>6, <2>1, <2>2, <2>4, NetMoves DEF Locking, Starting
    <2>6. faults' \in 0..MaxFaults /\ lost' \subseteq Attempts /\ lost \subseteq lost'
      BY <1>6 DEF NetTypeOK
    <2> QED
      BY <1>5, <1>6, <2>1, <2>2, <2>3, <2>5, <2>6
  <1>7. CASE /\ runtime' = [runtime EXCEPT ![s] = None]
             /\ a # None /\ CannotStop(a) /\ ConfigureEnds(h) /\ UNCHANGED netlock
    <2>1. a \in Attempts
      BY <1>1, <1>7
    <2>2. /\ JobsAreEntitled' /\ TokensDiffer' /\ netjob' \in [Handlers -> NetJob]
          /\ netjob'[h].pc = "idle" /\ netjob'[h].attempt = None
          /\ \A g \in Handlers \ {h} : netjob'[g] = netjob[g]
          /\ leases' = leases
      BY <1>1, <1>7, ConfigureEnding
    <2> HIDE DEF s, a
    <2>3. /\ helper' \in [Attempts -> {"none", "up", "dead"}]
          /\ broker' \in [Attempts -> {"none", "open", "closed"}]
          /\ path' \in [Sessions -> Attempts \cup {None}]
          /\ faults' \in 0..MaxFaults /\ lost' \subseteq Attempts /\ lost \subseteq lost'
          /\ a \in lost' /\ helper' = helper /\ broker' = broker /\ path' = path
      BY <1>7, <2>1 DEF CannotStop, Fault, world, NetTypeOK
    <2> QED
      BY <1>1, <1>5, <1>7, <2>2, <2>3
  <1> QED
    BY <1>4, <1>6, <1>7 DEF configure_stop

\* The mode changes while no run of the Session exists and nobody builds.
LEMMA ConfigureSave ==
  ASSUME IInv, NetInv, NEW h \in Handlers, configure_save(h)
  PROVE  NetInv'
  <1> USE NetNamesAssumption, NoneAssumption, FaultsAssumption DEF NetInv
  <1> DEFINE s == netjob[h].key
             mode == netjob[h].mode
  <1>1. /\ netjob[h].pc = "save" /\ netjob[h].attempt = None
        /\ s \in Sessions /\ Inside(h, "mutation", s) /\ mode \in Modes
        /\ configuration' = [configuration EXCEPT ![s] = mode]
        /\ ConfigureEnds(h) /\ netlock' = None
        /\ UNCHANGED <<runtime, helper, broker, path, runs, service, lost>>
    BY DEF configure_save, NetAt, JobsAreEntitled, JobsBuild, world
  <1>2. \A t \in Tokens : leases[t] # s
    BY <1>1, ConfiguredIsUnleased
  <1>3. netlock = h /\ \A g \in Handlers \ {h} : netjob[g].pc \notin Locking
    BY <1>1 DEF JobsAreEntitled, Locking
  <1>4. /\ JobsAreEntitled' /\ TokensDiffer' /\ netjob' \in [Handlers -> NetJob]
        /\ netjob'[h].pc = "idle" /\ netjob'[h].attempt = None
        /\ \A g \in Handlers \ {h} : netjob'[g] = netjob[g]
        /\ leases' = leases
    BY <1>1, <1>3, ConfigureEnding
  <1>5. \/ /\ disk' = configuration' /\ acked' = [acked EXCEPT ![s] = mode]
           /\ unsaved' = {} /\ UNCHANGED faults
        \/ /\ Fault /\ acked' = [acked EXCEPT ![s] = None]
           /\ unsaved' = unsaved \cup {s} /\ UNCHANGED disk
    BY DEF configure_save
  <1> HIDE DEF s, mode
  <1>6. /\ configuration' \in [Sessions -> Modes] /\ configuration'[s] = mode
        /\ \A u \in Sessions \ {s} : configuration'[u] = configuration[u]
    BY <1>1 DEF NetTypeOK
  <1>7. /\ disk' \in [Sessions -> Modes] /\ acked' \in [Sessions -> Modes \cup {None}]
        /\ faults' \in 0..MaxFaults /\ unsaved' \subseteq Sessions
    BY <1>1, <1>5, <1>6 DEF NetTypeOK, Fault
  <1>8. NetTypeOK'
    BY <1>1, <1>4, <1>6, <1>7 DEF NetTypeOK
  <1>9. JobsBuild'
    <2>1. \A g \in Handlers :
            netjob'[g].pc \notin {"broker", "popen", "ready"} /\ netjob'[g].attempt = None
      BY <1>3, <1>4 DEF JobsBuild, Locking
    <2> QED
      BY <2>1 DEF JobsBuild
  <1>10. RunsAreLeased'
    BY <1>1, <1>4 DEF RunsAreLeased
  <1>11. RunKeepsItsNetwork'
    BY <1>1, <1>2, <1>4, <1>6 DEF RunKeepsItsNetwork, RunsAreLeased
  <1>12. RuntimesDiffer' /\ SocketReachesItsBroker'
    BY <1>1 DEF RuntimesDiffer, SocketReachesItsBroker
  <1>13. ModesAgree'
    <2>1. CASE disk' = configuration' /\ acked' = [acked EXCEPT ![s] = mode]
      BY <1>1, <1>6, <2>1 DEF ModesAgree, NetTypeOK
    <2>2. CASE acked' = [acked EXCEPT ![s] = None] /\ disk' = disk /\ unsaved' = unsaved \cup {s}
      BY <1>1, <1>6, <2>2 DEF ModesAgree, NetTypeOK
    <2> QED
      BY <1>5, <2>1, <2>2
  <1>14. NothingStray'
    BY <1>1, <1>4 DEF NothingStray
  <1> QED
    BY <1>4, <1>8, <1>9, <1>10, <1>11, <1>12, <1>13, <1>14

LEMMA HelperExits ==
  ASSUME NetInv, NEW a \in Attempts, helper_exits(a)
  PROVE  NetInv'
  <1> USE NetNamesAssumption, NoneAssumption, FaultsAssumption DEF NetInv
  <1>1. /\ helper[a] = "up" /\ helper' = [helper EXCEPT ![a] = "dead"]
        /\ faults' \in 0..MaxFaults /\ leases' = leases /\ op' = op
        /\ UNCHANGED <<configuration, disk, runtime, broker, path, netjob, netlock, runs, service,
                       lost, acked, unsaved>>
    BY DEF helper_exits, Fault, vars, NetTypeOK
  <1>2. /\ helper' \in [Attempts -> {"none", "up", "dead"}] /\ helper'[a] = "dead"
        /\ \A b \in Attempts \ {a} : helper'[b] = helper[b]
    BY <1>1 DEF NetTypeOK
  <1>3. NetTypeOK'
    BY <1>1, <1>2 DEF NetTypeOK
  <1>4. JobsAreEntitled' /\ TokensDiffer'
    BY <1>1 DEF JobsAreEntitled, Inside, TokensDiffer
  <1>5. JobsBuild'
    BY <1>1, <1>2 DEF JobsBuild
  <1>6. RunsAreLeased' /\ RunKeepsItsNetwork' /\ SocketReachesItsBroker' /\ ModesAgree'
    BY <1>1 DEF RunsAreLeased, RunKeepsItsNetwork, SocketReachesItsBroker, ModesAgree
  <1>7. RuntimesDiffer'
    BY <1>1, <1>2 DEF RuntimesDiffer, NetTypeOK
  <1>8. NothingStray'
    BY <1>1, <1>2 DEF NothingStray
  <1> QED
    BY <1>3, <1>4, <1>5, <1>6, <1>7, <1>8

\* Shutdown: close() refuses new runs, and then the entries are ended.
LEMMA CloseSteps ==
  ASSUME NetInv, service_close \/ close_done \/ \E s \in Sessions : close_step(s)
  PROVE  NetInv'
  <1> USE NetNamesAssumption, NoneAssumption, FaultsAssumption DEF NetInv
  <1>1. CASE service_close \/ close_done
    <2>1. /\ service' \in {"closed", "down"} /\ leases' = leases /\ op' = op
          /\ service' = "closed" => service \in {"open", "closed"}
          /\ UNCHANGED <<configuration, disk, runtime, helper, broker, path, netjob, netlock, runs,
                         faults, lost, acked, unsaved>>
      BY <1>1 DEF service_close, close_done, vars, world
    <2>2. NetTypeOK' /\ JobsAreEntitled' /\ JobsBuild' /\ TokensDiffer'
      BY <2>1 DEF NetTypeOK, JobsAreEntitled, Inside, JobsBuild, TokensDiffer
    <2>3. RunsAreLeased' /\ RuntimesDiffer' /\ RunKeepsItsNetwork'
      BY <2>1 DEF RunsAreLeased, RuntimesDiffer, RunKeepsItsNetwork
    <2>4. NothingStray' /\ SocketReachesItsBroker' /\ ModesAgree'
      BY <2>1 DEF NothingStray, SocketReachesItsBroker, ModesAgree
    <2> QED
      BY <2>2, <2>3, <2>4
  <1>2. ASSUME NEW s \in Sessions, close_step(s) PROVE NetInv'
    <2> DEFINE a == runtime[s]
    <2>1. /\ netlock = None /\ a \in Attempts /\ leases' = leases /\ op' = op
          /\ runtime' = [runtime EXCEPT ![s] = None]
          /\ service' \in {"closing", "down"}
          /\ UNCHANGED <<configuration, disk, netjob, netlock, runs, acked, unsaved>>
      BY <1>2 DEF close_step, vars, NetTypeOK
    <2>2. \/ StopAttempt(a, s) /\ UNCHANGED <<faults, lost>>
          \/ /\ Fault /\ UNCHANGED world
             /\ lost' = lost \cup {runtime[u] : u \in {u \in Sessions : runtime[u] # None}}
      BY <1>2 DEF close_step
    <2>3. \A g \in Handlers : netjob[g].pc \notin Locking
      BY <2>1 DEF JobsAreEntitled
    <2>4. /\ helper' \in [Attempts -> {"none", "up", "dead"}]
          /\ broker' \in [Attempts -> {"none", "open", "closed"}]
          /\ path' \in [Sessions -> Attempts \cup {None}]
          /\ faults' \in 0..MaxFaults /\ lost' \subseteq Attempts /\ lost \subseteq lost'
          /\ a \in lost' \/ (helper'[a] # "up" /\ broker'[a] # "open")
          /\ \A b \in Attempts \ {a} : helper'[b] = helper[b] /\ broker'[b] = broker[b]
          /\ \A u \in Sessions \ {s} : path'[u] = path[u]
      <3>1. CASE StopAttempt(a, s) /\ UNCHANGED <<faults, lost>>
        <4>1. faults' \in 0..MaxFaults /\ lost' \subseteq Attempts /\ lost \subseteq lost'
          BY <3>1 DEF NetTypeOK
        <4> QED
          BY <2>1, <3>1, <4>1, Stopping
      <3>2. CASE /\ Fault /\ UNCHANGED world
                 /\ lost' = lost \cup {runtime[u] : u \in {u \in Sessions : runtime[u] # None}}
        <4>1. a \in lost' /\ lost \subseteq lost' /\ lost' \subseteq Attempts
          BY <2>1, <3>2 DEF NetTypeOK
        <4> QED
          BY <3>2, <4>1 DEF Fault, world, NetTypeOK
      <3> QED
        BY <2>2, <3>1, <3>2
    <2>5. /\ runtime' \in [Sessions -> Attempts \cup {None}] /\ runtime'[s] = None
          /\ \A u \in Sessions \ {s} : runtime'[u] = runtime[u]
      BY <2>1 DEF NetTypeOK
    <2>6. \A u \in Sessions : runtime'[u] # None =>
            u # s /\ runtime[u] \in Attempts \ {a} /\ runtime'[u] = runtime[u]
      BY <2>5 DEF NetTypeOK, RuntimesDiffer
    <2> HIDE DEF a
    <2>7. NetTypeOK'
      BY <2>1, <2>4, <2>5 DEF NetTypeOK
    <2>8. JobsAreEntitled' /\ TokensDiffer' /\ RunsAreLeased' /\ ModesAgree'
      BY <2>1 DEF JobsAreEntitled, Inside, TokensDiffer, RunsAreLeased, ModesAgree
    <2>9. JobsBuild'
      BY <2>1, <2>3 DEF JobsBuild, Locking
    <2>10. RunKeepsItsNetwork'
      BY <2>1 DEF RunKeepsItsNetwork
    <2>11. RuntimesDiffer' /\ SocketReachesItsBroker'
      BY <2>4, <2>5, <2>6 DEF RuntimesDiffer, SocketReachesItsBroker
    <2>12. NothingStray'
      <3> SUFFICES ASSUME NEW b \in Attempts
                   PROVE  \/ helper'[b] # "up" /\ broker'[b] # "open"
                          \/ b \in lost'
                          \/ \E u \in Sessions : runtime'[u] = b
                          \/ \E g \in Handlers : netjob'[g].attempt = b
        BY DEF NothingStray
      <3>1. CASE b = a
        BY <2>4, <3>1
      <3>2. CASE b # a
        <4>1. runtime[s] # b
          BY <3>2 DEF a
        <4> QED
          BY <2>1, <2>4, <2>5, <3>2, <4>1 DEF NothingStray
      <3> QED
        BY <3>1, <3>2
    <2> QED
      BY <2>7, <2>8, <2>9, <2>10, <2>11, <2>12
  <1> QED
    BY <1>1, <1>2

\* A new daemon knows no namespace: the helpers it finds up are lost.
LEMMA Reboots ==
  ASSUME NetInv, Reboot
  PROVE  NetInv'
  <1> USE NetNamesAssumption, NoneAssumption, FaultsAssumption DEF NetInv
  <1>1. /\ configuration' = disk /\ disk' = disk
        /\ runtime' = [s \in Sessions |-> None]
        /\ netjob' = [h \in Handlers |-> NoNetJob] /\ netlock' = None
        /\ runs' = [t \in Tokens |-> None] /\ service' = "open"
        /\ lost' = lost \cup {a \in Attempts : helper[a] = "up"}
        /\ acked' = [s \in Sessions |-> IF s \in unsaved THEN None ELSE acked[s]]
        /\ unsaved' = {}
        /\ UNCHANGED <<helper, path>>
    BY DEF Reboot
  <1>2. faults' \in 0..MaxFaults
    BY DEF Reboot, Fault, NetTypeOK
  <1>3. /\ broker' \in [Attempts -> {"none", "open", "closed"}]
        /\ \A a \in Attempts : broker'[a] # "open"
    BY DEF Reboot, NetTypeOK
  <1>4. NoNetJob \in NetJob /\ NoNetJob.pc = "idle" /\ NoNetJob.attempt = None
    BY DEF NoNetJob, NetJob
  <1>5. \A h \in Handlers : netjob'[h].pc = "idle" /\ netjob'[h].attempt = None
    BY <1>1, <1>4
  <1>6. NetTypeOK'
    BY <1>1, <1>2, <1>3, <1>4 DEF NetTypeOK
  <1>7. JobsAreEntitled' /\ JobsBuild' /\ TokensDiffer'
    BY <1>1, <1>5 DEF JobsAreEntitled, JobsBuild, TokensDiffer, Starting, Locking
  <1>8. RunsAreLeased' /\ RunKeepsItsNetwork' /\ RuntimesDiffer' /\ SocketReachesItsBroker'
    BY <1>1 DEF RunsAreLeased, RunKeepsItsNetwork, RuntimesDiffer, SocketReachesItsBroker
  <1>9. ModesAgree'
    BY <1>1 DEF ModesAgree
  <1>10. NothingStray'
    BY <1>1, <1>3 DEF NothingStray
  <1> QED
    BY <1>6, <1>7, <1>8, <1>9, <1>10

\* Every step keeps the invariant of the registry and of the network.
LEMMA NetStep == NetIInv /\ [NetNext]_netallvars => NetIInv'
  <1> SUFFICES ASSUME NetIInv, [NetNext]_netallvars PROVE NetIInv'
    OBVIOUS
  <1>1. IInv /\ NetInv /\ NetTypeOK /\ JobsAreEntitled
    BY DEF NetIInv, NetInv
  <1>2. IInv'
    <2>1. [Next]_vars
      BY <1>1, NetStepUsesRegistry
    <2> QED
      BY <1>1, <2>1, RegistryStep
  <1>3. NetInv'
    <2>1. CASE UNCHANGED netallvars
      <3>1. UNCHANGED <<configuration, disk, runtime, helper, broker, path, netjob, netlock, runs,
                        service, faults, lost, acked, unsaved>> /\ leases' = leases /\ op' = op
        BY <2>1 DEF netallvars, netvars, vars
      <3>2. NetTypeOK' /\ JobsAreEntitled' /\ JobsBuild' /\ TokensDiffer'
        BY <1>1, <3>1 DEF NetInv, NetTypeOK, JobsAreEntitled, Inside, JobsBuild, TokensDiffer
      <3>3. RunsAreLeased' /\ RuntimesDiffer' /\ RunKeepsItsNetwork'
        BY <1>1, <3>1 DEF NetInv, RunsAreLeased, RuntimesDiffer, RunKeepsItsNetwork
      <3>4. NothingStray' /\ SocketReachesItsBroker' /\ ModesAgree'
        BY <1>1, <3>1 DEF NetInv, NothingStray, SocketReachesItsBroker, ModesAgree
      <3> QED
        BY <3>2, <3>3, <3>4 DEF NetInv
    <2>2. CASE NetNext
      BY <1>1, <2>2, ProcessStart, Prepare, PrepareRefused, StartBroker, Popen, PopenFails,
         HelperReady, HelperNotReady, ConfigureBegin, ConfigureStop, ConfigureSave, RunEnds,
         HelperExits, CloseSteps, Reboots
         DEF NetNext
    <2> QED
      BY <2>1, <2>2
  <1> QED
    BY <1>2, <1>3 DEF NetIInv

\* Type correctness of the composed state, and everything the properties
\* below rest on.
THEOREM NetInvariant == NetSpec => []NetIInv
  <1> QED
    BY InitNetInv, NetStep, PTL DEF NetSpec

\* The network plugin uses the registry by its operations only, so that all
\* that is proved of the registry holds beside it: the composed specification
\* implements ExecutionRegistry's.
THEOREM NetUsesRegistry == NetSpec => Spec
  <1>1. NetInit => Init
    BY DEF NetInit
  <1>2. NetIInv /\ [NetNext]_netallvars => [Next]_vars
    BY NetStepUsesRegistry DEF NetIInv, NetInv
  <1> QED
    BY <1>1, <1>2, NetInvariant, PTL DEF NetSpec, Spec

\* prepare() and configure(): from its preparation to its end a run keeps the
\* mode and the namespace it was started with, until the manager is closed.
THEOREM RunsKeepTheirNetwork == NetSpec => []RunKeepsItsNetwork
  <1>1. NetIInv => RunKeepsItsNetwork
    BY DEF NetIInv, NetInv
  <1> QED
    BY <1>1, NetInvariant, PTL

\* _start_locked and _stop_locked: a helper that runs or a broker that
\* listens belongs to a Session or to the attempt in progress, unless a
\* failure took it from the manager.
THEOREM StraysAreLost == NetSpec => []NothingStray
  <1>1. NetIInv => NothingStray
    BY DEF NetIInv, NetInv
  <1> QED
    BY <1>1, NetInvariant, PTL

\* SessionNetworkBroker: however many brokers came and went at a Session's
\* socket path, the one that serves the Session listens there.
THEOREM SocketsReachTheirBroker == NetSpec => []SocketReachesItsBroker
  <1>1. NetIInv => SocketReachesItsBroker
    BY DEF NetIInv, NetInv
  <1> QED
    BY <1>1, NetInvariant, PTL

\* configure(): a confirmed mode is the one in force, and the one that
\* sessions.json gives to the next daemon, whatever other Sessions' requests
\* wrote or failed to; unless the write of the Session's own mode failed and
\* the daemon has written nothing since.
THEOREM ConfirmedModesAreDurable == NetSpec => []ConfirmedModeIsDurable
  <1>1. NetIInv => ConfirmedModeIsDurable
    BY DEF NetIInv, NetInv, ModesAgree, ConfirmedModeIsDurable
  <1> QED
    BY <1>1, NetInvariant, PTL
=============================================================================
