-------------------------- MODULE ExecutionRegistry --------------------------
(***************************************************************************)
(* The workspace daemon's ExecutionRegistry (workspace/daemon.py): the     *)
(* in-memory table that keeps Session mutations (checkpoint, rollback,     *)
(* runtime reset, share writes) apart from executions (leases), persistent *)
(* background executions and share readers.                                *)
(*                                                                         *)
(* Every method body runs under one threading.Lock, so a method is one     *)
(* atomic action.  The three context managers (mutation, reset_mutation,   *)
(* share_access) are entered and left in two separate critical sections by *)
(* an HTTP handler thread; `op` records what each handler is inside.       *)
(*                                                                         *)
(* Operators named Bug_... are faulty variants of the action that follows  *)
(* them; they are no part of Next and show that a property can fail.       *)
(***************************************************************************)
EXTENDS Naturals, FiniteSets

CONSTANTS
  Sessions,     \* (agent_id, session_id) keys
  Handlers,     \* threads of the ThreadingHTTPServer
  Tokens,       \* uuid4 lease and reset tokens; bounds how many are ever issued
  Executions,   \* ids of persistent background executions
  None

ASSUME HandlersAssumption == IsFiniteSet(Handlers)
ASSUME NoneAssumption == None \notin Sessions

VARIABLES
  leases,           \* token -> leased Session, or None
  recoveryLeases,   \* the lease tokens taken with recovery=True
  mutating,         \* fenced Sessions
  background,       \* Session -> registered background execution ids
  resets,           \* token -> Session whose reset is in progress, or None
  shareReaders,     \* Session -> number of share reads in progress
  issued,           \* tokens already drawn: uuid4 never repeats one
  op                \* handler -> the context manager it is inside

tables == <<leases, recoveryLeases, mutating, background, resets, shareReaders>>
vars == <<leases, recoveryLeases, mutating, background, resets, shareReaders,
          issued, op>>

Kinds == {"idle", "mutation", "reset_mutation", "share_read"}
Idle == [kind |-> "idle", key |-> None]

TypeOK ==
  /\ leases \in [Tokens -> Sessions \cup {None}]
  /\ recoveryLeases \in SUBSET Tokens
  /\ mutating \in SUBSET Sessions
  /\ background \in [Sessions -> SUBSET Executions]
  /\ resets \in [Tokens -> Sessions \cup {None}]
  /\ shareReaders \in [Sessions -> Nat]
  /\ issued \in SUBSET Tokens
  /\ op \in [Handlers -> [kind : Kinds, key : Sessions \cup {None}]]

Empty ==
  /\ leases = [t \in Tokens |-> None]
  /\ recoveryLeases = {}
  /\ mutating = {}
  /\ background = [s \in Sessions |-> {}]
  /\ resets = [t \in Tokens |-> None]
  /\ shareReaders = [s \in Sessions |-> 0]

Init ==
  /\ Empty
  /\ issued = {}
  /\ op = [h \in Handlers |-> Idle]

-----------------------------------------------------------------------------
(* Helpers *)

Leased(s) == \E t \in Tokens : leases[t] = s
RecoveryLeased(s) == \E t \in recoveryLeases : leases[t] = s
Inside(h, kind, s) == op[h] = [kind |-> kind, key |-> s]

Fresh(t) == t \notin issued /\ issued' = issued \cup {t}
Enter(h, kind, s) ==
  /\ op[h] = Idle
  /\ op' = [op EXCEPT ![h] = [kind |-> kind, key |-> s]]
Leave(h, kind) ==
  /\ op[h].kind = kind
  /\ op' = [op EXCEPT ![h] = Idle]

-----------------------------------------------------------------------------
(* Executions *)

Bug_AcquireWhileMutating(s, recovery, t) ==
  /\ ~Leased(s)
  /\ recovery => shareReaders[s] = 0 /\ background[s] = {}
  /\ Fresh(t)
  /\ leases' = [leases EXCEPT ![t] = s]
  /\ recoveryLeases' = IF recovery THEN recoveryLeases \cup {t} ELSE recoveryLeases
  /\ UNCHANGED <<mutating, background, resets, shareReaders, op>>

acquire(s, recovery, t) ==
  /\ s \notin mutating
  /\ ~Leased(s)
  /\ recovery => shareReaders[s] = 0 /\ background[s] = {}
  /\ Fresh(t)
  /\ leases' = [leases EXCEPT ![t] = s]
  /\ recoveryLeases' = IF recovery THEN recoveryLeases \cup {t} ELSE recoveryLeases
  /\ UNCHANGED <<mutating, background, resets, shareReaders, op>>

\* An unknown or already released token is answered, and changes nothing.
release(t) ==
  /\ recoveryLeases' = recoveryLeases \ {t}
  /\ leases' = [leases EXCEPT ![t] = None]
  /\ UNCHANGED <<mutating, background, resets, shareReaders, issued, op>>

register_background(s, x) ==
  /\ s \notin mutating
  /\ ~RecoveryLeased(s)
  /\ background' = [background EXCEPT ![s] = @ \cup {x}]
  /\ UNCHANGED <<leases, recoveryLeases, mutating, resets, shareReaders, issued, op>>

-----------------------------------------------------------------------------
(* Runtime reset: fenced by one request, lifted by a later one.  The       *)
(* registered background executions are handed to the caller to terminate. *)

Bug_ResetWhileMutating(s, t) ==
  /\ shareReaders[s] = 0
  /\ ~Leased(s)
  /\ Fresh(t)
  /\ mutating' = mutating \cup {s}
  /\ resets' = [resets EXCEPT ![t] = s]
  /\ UNCHANGED <<leases, recoveryLeases, background, shareReaders, op>>

begin_runtime_reset(s, t) ==
  /\ shareReaders[s] = 0
  /\ s \notin mutating
  /\ ~Leased(s)
  /\ Fresh(t)
  /\ mutating' = mutating \cup {s}
  /\ resets' = [resets EXCEPT ![t] = s]
  /\ UNCHANGED <<leases, recoveryLeases, background, shareReaders, op>>

complete_runtime_reset(t, success) ==
  /\ resets[t] # None
  /\ resets' = [resets EXCEPT ![t] = None]
  /\ background' = IF success THEN [background EXCEPT ![resets[t]] = {}] ELSE background
  /\ mutating' = mutating \ {resets[t]}
  /\ UNCHANGED <<leases, recoveryLeases, shareReaders, issued, op>>

-----------------------------------------------------------------------------
(* Context managers held by a handler thread across the store call *)

\* Only the entry is checked: the body runs without holding anything.
reset_mutation_enter(h, t) ==
  /\ resets[t] # None
  /\ resets[t] \in mutating
  /\ Enter(h, "reset_mutation", resets[t])
  /\ UNCHANGED <<tables, issued>>

reset_mutation_exit(h) ==
  /\ Leave(h, "reset_mutation")
  /\ UNCHANGED <<tables, issued>>

mutation_enter(h, s) ==
  /\ shareReaders[s] = 0
  /\ s \notin mutating
  /\ ~Leased(s)
  /\ background[s] = {}
  /\ Enter(h, "mutation", s)
  /\ mutating' = mutating \cup {s}
  /\ UNCHANGED <<leases, recoveryLeases, background, resets, shareReaders, issued>>

mutation_exit(h) ==
  /\ Leave(h, "mutation")
  /\ mutating' = mutating \ {op[h].key}
  /\ UNCHANGED <<leases, recoveryLeases, background, resets, shareReaders, issued>>

\* share_access(write=True) is mutation_enter / mutation_exit.
share_access_enter(h, s) ==
  /\ s \notin mutating
  /\ ~RecoveryLeased(s)
  /\ Enter(h, "share_read", s)
  /\ shareReaders' = [shareReaders EXCEPT ![s] = @ + 1]
  /\ UNCHANGED <<leases, recoveryLeases, mutating, background, resets, issued>>

share_access_exit(h) ==
  /\ Leave(h, "share_read")
  /\ shareReaders' = [shareReaders EXCEPT ![op[h].key] = @ - 1]
  /\ UNCHANGED <<leases, recoveryLeases, mutating, background, resets, issued>>

\* The daemon dies and a new one starts with empty tables; tokens that
\* clients still hold become unknown.
Restart ==
  /\ leases' = [t \in Tokens |-> None]
  /\ recoveryLeases' = {}
  /\ mutating' = {}
  /\ background' = [s \in Sessions |-> {}]
  /\ resets' = [t \in Tokens |-> None]
  /\ shareReaders' = [s \in Sessions |-> 0]
  /\ op' = [h \in Handlers |-> Idle]
  /\ UNCHANGED issued

Next ==
  \/ \E s \in Sessions, t \in Tokens, recovery \in BOOLEAN : acquire(s, recovery, t)
  \/ \E t \in Tokens : release(t)
  \/ \E s \in Sessions, x \in Executions : register_background(s, x)
  \/ \E s \in Sessions, t \in Tokens : begin_runtime_reset(s, t)
  \/ \E t \in Tokens, success \in BOOLEAN : complete_runtime_reset(t, success)
  \/ \E h \in Handlers, t \in Tokens : reset_mutation_enter(h, t)
  \/ \E h \in Handlers : reset_mutation_exit(h)
  \/ \E h \in Handlers, s \in Sessions : mutation_enter(h, s)
  \/ \E h \in Handlers : mutation_exit(h)
  \/ \E h \in Handlers, s \in Sessions : share_access_enter(h, s)
  \/ \E h \in Handlers : share_access_exit(h)
  \/ Restart

Spec == Init /\ [][Next]_vars

-----------------------------------------------------------------------------
(* Properties *)

\* A Session is in _mutating exactly while one party owns the fence: one
\* handler inside mutation() or one unfinished reset token, never two of
\* them.  Hence the unconditional `_mutating.discard(key)` of either exit
\* path never lifts somebody else's fence.
FenceHasOneOwner ==
  \A s \in Sessions :
    LET Mutators == {h \in Handlers : Inside(h, "mutation", s)}
        Resetters == {t \in Tokens : resets[t] = s}
    IN  /\ s \in mutating <=> Mutators # {} \/ Resetters # {}
        /\ Mutators = {} \/ Resetters = {}
        /\ \A h, g \in Mutators : h = g
        /\ \A t, u \in Resetters : t = u

\* While a Session is fenced nothing else uses it: no execution lease and no
\* share reader; a handler inside mutation() also sees no registered
\* background execution.
MutationIsExclusive ==
  /\ \A s \in mutating : ~Leased(s) /\ shareReaders[s] = 0
  /\ \A h \in Handlers : op[h].kind = "mutation" => background[op[h].key] = {}

\* At most one execution holds a lease on a Session.
OneLeasePerSession ==
  \A t, u \in Tokens : leases[t] # None /\ leases[t] = leases[u] => t = u

\* A recovery execution has the Session to itself from its reservation to
\* its release: no share reader and no background execution joins later.
RecoveryIsAlone ==
  \A s \in Sessions : RecoveryLeased(s) =>
    shareReaders[s] = 0 /\ background[s] = {} /\ s \notin mutating

\* The reader count is the number of handlers inside a share read, so that
\* the last one out reopens the Session for mutations, and not earlier.
ReadersAreCounted ==
  \A s \in Sessions :
    shareReaders[s] = Cardinality({h \in Handlers : Inside(h, "share_read", s)})

\* The tables refer only to tokens that were issued, a recovery mark only to
\* a token that still holds a lease, and a handler inside a context manager
\* to a Session.
TokensAreKnown ==
  /\ \A t \in Tokens : leases[t] # None \/ resets[t] # None => t \in issued
  /\ \A t \in recoveryLeases : leases[t] # None
  /\ \A h \in Handlers : op[h].kind # "idle" => op[h].key \in Sessions

\* The inductive invariant behind the properties above.
IInv ==
  /\ TypeOK
  /\ TokensAreKnown
  /\ FenceHasOneOwner
  /\ MutationIsExclusive
  /\ OneLeasePerSession
  /\ RecoveryIsAlone
  /\ ReadersAreCounted

\* "Prevent checkpoint/rollback while a Session command is active": no
\* handler that is rolling back or checkpointing a Session, also through
\* reset_mutation, shares it with a leased execution.
NoCommandDuringMutation ==
  \A h \in Handlers :
    op[h].kind \in {"mutation", "reset_mutation"} => ~Leased(op[h].key)
=============================================================================
