--------------------------- MODULE GenerationLease ---------------------------
(***************************************************************************)
(* What the runner promises the events it admits to the shared Wasm        *)
(* instance: an event takes, once, a lease on one generation, and that     *)
(* generation is replaced only when nobody holds a lease (retirement) or   *)
(* by ending every lease in the same step (abandonment).                   *)
(***************************************************************************)
EXTENDS Naturals

CONSTANT Events

VARIABLES
  generation,   \* the generation leases are taken on
  lease,        \* the generation each event's lease is for, 0 before it has one
  holders       \* the events whose lease has not ended

vars == <<generation, lease, holders>>

Init ==
  /\ generation = 1
  /\ lease = [e \in Events |-> 0]
  /\ holders = {}

Acquire(e) ==
  /\ lease[e] = 0
  /\ lease' = [lease EXCEPT ![e] = generation]
  /\ holders' = holders \cup {e}
  /\ UNCHANGED generation

\* The last holder to leave may retire the generation.
Release(e) ==
  /\ e \in holders
  /\ holders' = holders \ {e}
  /\ \/ generation' = generation
     \/ holders' = {} /\ generation' = generation + 1
  /\ UNCHANGED lease

\* Every lease ends at once.
Abandon ==
  /\ generation' = generation + 1
  /\ holders' = {}
  /\ UNCHANGED lease

\* The event that traps as it enters takes the generation with it.
AcquireAndAbandon(e) ==
  /\ lease[e] = 0
  /\ lease' = [lease EXCEPT ![e] = generation]
  /\ generation' = generation + 1
  /\ holders' = {}

Next ==
  \/ \E e \in Events : Acquire(e) \/ Release(e) \/ AcquireAndAbandon(e)
  \/ Abandon

Spec == Init /\ [][Next]_vars
=============================================================================
