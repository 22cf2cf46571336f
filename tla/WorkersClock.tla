---------------------------- MODULE WorkersClock ----------------------------
(***************************************************************************)
(* The timer domain of one generated Wasm module (clock.mjs).  Wasm knows  *)
(* a timer by a positive 31-bit id; the id wraps and skips those in use.   *)
(* The native timers behind the map are modelled apart from it, since      *)
(* clearTimers() must reach all of them before the module is reset.        *)
(***************************************************************************)
EXTENDS Integers, FiniteSets

CONSTANTS Timers, \* native timers that may be armed, by identity
          MaxId   \* 0x7fffffff

ASSUME ClockAssumption ==
  MaxId \in Nat /\ IsFiniteSet(Timers) /\ Cardinality(Timers) <= MaxId

VARIABLES timers, \* the map: id -> native timer, a partial function
          native, \* native timer -> the id its callback closed over, 0 if none
          nextId

clockVars == <<timers, native, nextId>>

Ids == 1..MaxId
Without(f, id) == [i \in DOMAIN f \ {id} |-> f[i]]

ClockInit ==
  /\ timers = [i \in {} |-> 0] /\ native = [t \in Timers |-> 0]
  /\ nextId = 0

\* A mistake: the id is taken without looking whether it is in use.
NextId == (nextId % MaxId) + 1
\* The first id after the last one that is not in use.
FreshId ==
  LET skipped == {n \in 1..MaxId : \A k \in 1..n : ((nextId + k - 1) % MaxId) + 1 \in DOMAIN timers}
  IN  ((nextId + Cardinality(skipped)) % MaxId) + 1

SetTimer(t) ==
  /\ native[t] = 0
  /\ nextId' = FreshId
  /\ timers' = [i \in DOMAIN timers \cup {FreshId} |-> IF i = FreshId THEN t ELSE timers[i]]
  /\ native' = [native EXCEPT ![t] = FreshId]

\* The callback deletes the id it closed over, then enters Wasm.
Fire(t) ==
  /\ native[t] # 0
  /\ timers' = Without(timers, native[t])
  /\ native' = [native EXCEPT ![t] = 0]
  /\ UNCHANGED nextId

\* Wasm clears any id it ever had, also one that fired or was given out again.
ClearTimer(id) ==
  /\ timers' = Without(timers, id)
  /\ native' = IF id \in DOMAIN timers THEN [native EXCEPT ![timers[id]] = 0] ELSE native
  /\ UNCHANGED nextId

clearTimers ==
  /\ timers' = [i \in {} |-> 0]
  /\ native' = [t \in Timers |-> IF \E i \in DOMAIN timers : timers[i] = t THEN 0 ELSE native[t]]
  /\ UNCHANGED nextId

ClockNext ==
  \/ \E t \in Timers : SetTimer(t) \/ Fire(t)
  \/ \E id \in Ids : ClearTimer(id)
  \/ clearTimers

ClockSpec == ClockInit /\ [][ClockNext]_clockVars

----------------------------------------------------------------------------
ClockTypeOK ==
  /\ DOMAIN timers \subseteq Ids /\ \A i \in DOMAIN timers : timers[i] \in Timers
  /\ native \in [Timers -> 0..MaxId] /\ nextId \in 0..MaxId

\* However often the id wrapped, the map and the armed native timers are the
\* same set: no timer loses its place to a younger one, so clearing by id
\* stops the right timer and clearTimers() leaves none that could fire into
\* a module that was reset.
TimersReachable ==
  /\ \A t \in Timers : native[t] # 0 => native[t] \in DOMAIN timers /\ timers[native[t]] = t
  /\ \A i \in DOMAIN timers : native[timers[i]] = i
=============================================================================
