---------------------------- MODULE DurableStream ----------------------------
(***************************************************************************)
(* What background.py promises its callers, without queue, batches, worker *)
(* or timers: accepted events become durable in order and without a gap, a *)
(* barrier confirms only durable ones, an error ends the stream, and the   *)
(* last barrier of a closed stream leaves nothing behind.                  *)
(***************************************************************************)
EXTENDS Naturals

VARIABLES
  accepted,    \* number of accepted events; they are numbered from 1
  durable,     \* the events the collector holds
  confirmed,   \* events up to this one were confirmed by a barrier
  sealed,      \* no event is accepted any more
  broken,      \* an error ended the stream
  drained      \* the stream was closed with everything durable

vars == <<accepted, durable, confirmed, sealed, broken, drained>>

Init ==
  /\ accepted = 0 /\ durable = {} /\ confirmed = 0
  /\ sealed = FALSE /\ broken = FALSE /\ drained = FALSE

Accept ==
  /\ ~sealed /\ ~broken
  /\ accepted' = accepted + 1
  /\ UNCHANGED <<durable, confirmed, sealed, broken, drained>>

Persist ==
  /\ ~broken
  /\ \E n \in 1..accepted : durable \subseteq 1..n /\ durable' = 1..n
  /\ UNCHANGED <<accepted, confirmed, sealed, broken, drained>>

\* flush() returns normally, perhaps as the end of a close().
Barrier ==
  /\ \E n \in confirmed..accepted : 1..n \subseteq durable /\ confirmed' = n
  /\ \/ UNCHANGED drained
     \/ drained' = TRUE /\ sealed /\ 1..accepted \subseteq durable
  /\ UNCHANGED <<accepted, durable, sealed, broken>>

Seal == sealed' = TRUE /\ UNCHANGED <<accepted, durable, confirmed, broken, drained>>

Break == broken' = TRUE /\ UNCHANGED <<accepted, durable, confirmed, sealed, drained>>

Next == Accept \/ Persist \/ Barrier \/ Seal \/ Break

Spec == Init /\ [][Next]_vars
=============================================================================
