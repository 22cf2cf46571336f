-------------------------- MODULE EventRunnerProofs --------------------------
(***************************************************************************)
(* Proofs about EventRunner, for any number of events and any limits.      *)
(***************************************************************************)
EXTENDS EventRunner, FiniteSetTheorems, TLAPS

InFlight == {"operating", "open"}

\* A pending event was admitted by the current generation, its promise has not
\* been finalised, and its Wasm work is in flight only while the promise is open.
MembersCurrent ==
  \A e \in pending :
    /\ gen[e] = generation
    /\ phase[e] \in {"admitted", "settled", "finalizing"}
    /\ phase[e] # "admitted" => work[e] \notin InFlight

\* Generations are never ahead of the current one, and work of the current one
\* belongs to a pending event.
WorkOwned ==
  \A e \in Events :
    /\ gen[e] <= generation
    /\ work[e] \in InFlight /\ gen[e] = generation => e \in pending

\* Whoever was admitted and is not pending any more is fenced.
LeaversFenced == \A e \in Events : gen[e] # 0 /\ e \notin pending
                                     => life[e] = "fenced"

\* How far the promise is agrees with the rest of the event's state.
PhasesAgree ==
  \A e \in Events :
    /\ phase[e] \in {"new", "waiting"} =>
         gen[e] = 0 /\ work[e] = "none" /\ timer[e] = "none"
    /\ phase[e] = "admitted" => e \in pending
    /\ outcome[e] = "none" <=> phase[e] \in {"new", "waiting", "admitted"}

\* The inductive invariant.
IInv ==
  /\ TypeOK
  /\ MembersCurrent
  /\ WorkOwned
  /\ LeaversFenced
  /\ PhasesAgree
  /\ EveryEventHasDeadline
  /\ UnavailableIsEmpty
  /\ IdleIsRetired
USE EventsAssumption, LimitAssumption, ResetAssumption
USE DEF InFlight, Phases, Works, Timers, Outcomes

LEMMA InitIInv == Init => IInv
<1> SUFFICES ASSUME Init PROVE IInv
  OBVIOUS
<1>1. TypeOK
  <2>1. generation \in Nat \ {0} /\ admittedCount \in 0..HardLimit /\ gen \in [Events -> Nat]
    BY DEF Init
  <2>2. unavailable \in BOOLEAN
    BY Zenon DEF Init
  <2> QED
    BY <2>1, <2>2 DEF Init, TypeOK
<1>2. MembersCurrent /\ WorkOwned /\ LeaversFenced
  BY DEF Init, MembersCurrent, WorkOwned, LeaversFenced
<1>3. PhasesAgree /\ EveryEventHasDeadline
  BY DEF Init, PhasesAgree, EveryEventHasDeadline
<1>4. UnavailableIsEmpty /\ IdleIsRetired
  BY DEF Init, UnavailableIsEmpty, IdleIsRetired
<1> QED
  BY <1>1, <1>2, <1>3, <1>4 DEF IInv

\* Abandonment, whoever causes it and whatever becomes of that event's own work:
\* everybody pending is settled and fenced, and the generation number moves past
\* all of them.
LEMMA AbandonPreserves ==
  ASSUME IInv, NEW e \in Events, NEW count \in 0..HardLimit,
         Abandon(pending \cup {e}, count),
         work' \in [Events -> Works], gen' \in [Events -> Nat],
         \A x \in Events \ {e} : work'[x] = work[x] /\ gen'[x] = gen[x],
         gen'[e] <= generation,
         UNCHANGED <<queue, cancelling, signalled, receipt>>
  PROVE  IInv'
<1> USE DEF IInv, Abandon, Rotate, Fence
<1>1. TypeOK'
  <2>1. generation' \in Nat \ {0} /\ admittedCount' \in 0..HardLimit
    BY DEF TypeOK
  <2>3. unavailable' \in BOOLEAN
    BY Zenon DEF TypeOK
  <2>2. /\ phase' \in [Events -> Phases]
        /\ timer' \in [Events -> Timers]
        /\ life' \in [Events -> {"open", "closed", "fenced"}]
        /\ outcome' \in [Events -> Outcomes]
    BY DEF TypeOK
  <2> QED
    BY <2>1, <2>2, <2>3 DEF TypeOK
<1>2. MembersCurrent'
  BY DEF MembersCurrent
<1>3. WorkOwned'
  <2>1. \A x \in Events : gen'[x] < generation'
    BY DEF WorkOwned, TypeOK
  <2> QED
    BY <2>1 DEF WorkOwned, TypeOK
<1>4. LeaversFenced'
  BY DEF LeaversFenced, TypeOK
<1>5. PhasesAgree'
  BY DEF PhasesAgree, TypeOK
<1>6. EveryEventHasDeadline'
  <2>1. \A x \in Events : phase'[x] # "admitted"
    BY DEF PhasesAgree, TypeOK
  <2> QED
    BY <2>1 DEF EveryEventHasDeadline
<1>7. UnavailableIsEmpty'
  BY DEF UnavailableIsEmpty
<1>8. IdleIsRetired'
  BY DEF IdleIsRetired, TypeOK
<1> QED
  BY <1>1, <1>2, <1>3, <1>4, <1>5, <1>6, <1>7, <1>8

\* The part of execute() that does not wait.
LEMMA EnterPreserves ==
  ASSUME IInv, NEW e \in Events, phase[e] \in {"new", "waiting"}, Enter(e)
  PROVE  IInv'
<1> USE DEF IInv, Enter
<1>1. CASE Refuse(e)
  BY <1>1 DEF Refuse, TypeOK, MembersCurrent, WorkOwned, LeaversFenced,
     PhasesAgree, EveryEventHasDeadline, UnavailableIsEmpty, IdleIsRetired
<1>2. CASE Admit(e)
  <2> USE <1>2 DEF Admit, Admissible, RefusedAtOnce, Exhausted
  <2>1. TypeOK'
    BY DEF TypeOK
  <2>2. MembersCurrent' /\ WorkOwned' /\ LeaversFenced'
    BY DEF TypeOK, MembersCurrent, WorkOwned, LeaversFenced
  <2>3. PhasesAgree' /\ EveryEventHasDeadline'
    BY DEF TypeOK, PhasesAgree, EveryEventHasDeadline
  <2>4. UnavailableIsEmpty' /\ IdleIsRetired'
    BY DEF UnavailableIsEmpty, IdleIsRetired
  <2> QED
    BY <2>1, <2>2, <2>3, <2>4
<1>3. CASE AdmitAndTrap(e)
  <2> USE <1>3 DEF AdmitAndTrap, Admissible, Exhausted
  <2>1. /\ admittedCount + 1 \in 0..HardLimit
        /\ work' \in [Events -> Works]
        /\ gen' \in [Events -> Nat]
        /\ \A x \in Events \ {e} : work'[x] = work[x] /\ gen'[x] = gen[x]
        /\ gen'[e] <= generation
    BY DEF TypeOK
  <2> QED
    BY <2>1, AbandonPreserves
<1> QED
  BY <1>1, <1>2, <1>3

\* The last steps of an event: its scope has answered, it leaves the generation
\* and may retire it.
LEMMA EndFinalizerPreserves ==
  ASSUME IInv, NEW e \in Events, EndFinalizer(e)
  PROVE  IInv'
<1> USE DEF IInv, EndFinalizer, Fence, Retires, Reported
<1>1. /\ pending' = pending \ {e}
      /\ \/ UNCHANGED <<generation, unavailable, admittedCount>>
            /\ (~unavailable => pending' # {} \/ admittedCount < RetirementLimit)
         \/ /\ ~unavailable /\ pending' = {} /\ generation' = generation + 1
            /\ \/ unavailable' = FALSE /\ admittedCount' = 0
               \/ unavailable' = TRUE /\ admittedCount' = admittedCount
  BY DEF Rotate, TypeOK
<1>2. outcome[e] \in Outcomes \ {"none"}
  BY DEF TypeOK, PhasesAgree
<1>3. \E result \in Outcomes \ {"none"} :
        outcome' = [outcome EXCEPT ![e] = result]
  BY <1>2 DEF Rotate
<1>4. TypeOK'
  <2>1. /\ generation' \in Nat \ {0}
        /\ admittedCount' \in 0..HardLimit
        /\ pending' \subseteq Events
    BY <1>1 DEF TypeOK
  <2>3. unavailable' \in BOOLEAN
    BY <1>1, Zenon DEF TypeOK
  <2>2. outcome' \in [Events -> Outcomes]
    BY <1>3 DEF TypeOK
  <2> QED
    BY <2>1, <2>2, <2>3 DEF TypeOK
<1>5. MembersCurrent'
  BY <1>1 DEF TypeOK, MembersCurrent
<1>6. WorkOwned'
  <2>1. work[e] \in InFlight => gen[e] # generation
    BY DEF MembersCurrent, WorkOwned
  <2>2. \A x \in Events : gen[x] <= generation
    BY DEF WorkOwned
  <2>3. CASE generation' = generation
    BY <2>1, <2>2, <2>3 DEF WorkOwned, TypeOK
  <2>4. CASE generation' = generation + 1
    <3>1. \A x \in Events : gen'[x] < generation'
      BY <2>2, <2>4 DEF TypeOK
    <3>2. generation' \in Nat /\ gen' \in [Events -> Nat]
      BY <1>4 DEF TypeOK
    <3> QED
      BY <3>1, <3>2 DEF WorkOwned
  <2> QED
    BY <1>1, <2>3, <2>4
<1>7. LeaversFenced'
  BY <1>1 DEF TypeOK, LeaversFenced
<1>8. PhasesAgree'
  BY <1>3 DEF TypeOK, PhasesAgree
<1>9. EveryEventHasDeadline'
  BY DEF TypeOK, EveryEventHasDeadline
<1>10. UnavailableIsEmpty' /\ IdleIsRetired'
  BY <1>1 DEF UnavailableIsEmpty, IdleIsRetired, TypeOK
<1> QED
  BY <1>4, <1>5, <1>6, <1>7, <1>8, <1>9, <1>10

LEMMA StepPreserves == IInv /\ [Next]_vars => IInv'
<1> SUFFICES ASSUME IInv, [Next]_vars PROVE IInv'
  OBVIOUS
<1>1. CASE UNCHANGED vars
  BY <1>1 DEF vars, IInv, TypeOK, MembersCurrent, WorkOwned, LeaversFenced,
     PhasesAgree, EveryEventHasDeadline, UnavailableIsEmpty, IdleIsRetired
<1>2. ASSUME NEW e \in Events, Arrive(e) PROVE IInv'
  BY <1>2, EnterPreserves DEF Arrive
<1>3. ASSUME NEW e \in Events, WaiterEnters(e) PROVE IInv'
  BY <1>3, EnterPreserves DEF WaiterEnters
<1>4. ASSUME NEW e \in Events, Trap(e) PROVE IInv'
  <2>1. e \in pending
    BY <1>4 DEF Trap, IInv, WorkOwned
  <2>2. Abandon(pending \cup {e}, admittedCount)
    BY <1>4, <2>1 DEF Trap, Abandon
  <2>3. /\ admittedCount \in 0..HardLimit
        /\ work' \in [Events -> Works]
        /\ gen' \in [Events -> Nat]
        /\ \A x \in Events \ {e} : work'[x] = work[x] /\ gen'[x] = gen[x]
        /\ gen'[e] <= generation
        /\ UNCHANGED <<queue, cancelling, signalled, receipt>>
    BY <1>4 DEF Trap, WorkOver, IInv, TypeOK, WorkOwned
  <2> QED
    BY <2>2, <2>3, AbandonPreserves
<1>5. ASSUME NEW e \in Events, TimerFires(e) PROVE IInv'
  <2>1. /\ admittedCount \in 0..HardLimit
        /\ work' \in [Events -> Works]
        /\ gen' \in [Events -> Nat]
        /\ \A x \in Events \ {e} : work'[x] = work[x] /\ gen'[x] = gen[x]
        /\ gen'[e] <= generation
        /\ UNCHANGED <<queue, cancelling, signalled, receipt>>
    BY <1>5 DEF TimerFires, IInv, TypeOK, WorkOwned
  <2> QED
    BY <1>5, <2>1, AbandonPreserves DEF TimerFires
<1>6. ASSUME NEW e \in Events, EndFinalizer(e) PROVE IInv'
  BY <1>6, EndFinalizerPreserves
<1> USE DEF IInv, TypeOK, MembersCurrent, WorkOwned, LeaversFenced,
        PhasesAgree, EveryEventHasDeadline, UnavailableIsEmpty, IdleIsRetired
<1>7. ASSUME NEW e \in Events, ArriveToWait(e) \/ WaiterGivesUp(e) PROVE IInv'
  BY <1>7 DEF ArriveToWait, WaiterGivesUp, Refuse
<1>8. ASSUME NEW e \in Events, LeaveQueue(e) PROVE IInv'
  BY <1>8 DEF LeaveQueue
<1>9. ASSUME NEW e \in Events, RequestResolves(e) PROVE IInv'
  BY <1>9 DEF RequestResolves, Current, Settle
<1>10. ASSUME NEW e \in Events, SessionOpens(e) PROVE IInv'
  BY <1>10 DEF SessionOpens, SessionDeadline, Current
<1>11. ASSUME NEW e \in Events, SessionMalformed(e) PROVE IInv'
  BY <1>11 DEF SessionMalformed, Current, Settle
<1>12. ASSUME NEW e \in Events, SessionCloses(e) PROVE IInv'
  BY <1>12 DEF SessionCloses, Current, Settle
<1>13. ASSUME NEW e \in Events, LateResult(e) PROVE IInv'
  BY <1>13 DEF LateResult, Current, WorkOver
<1>14. ASSUME NEW e \in Events, Signal(e) PROVE IInv'
  BY <1>14 DEF Signal, Listening, OnAbort, Close
<1>15. ASSUME NEW e \in Events, SessionCancel(e) PROVE IInv'
  BY <1>15 DEF SessionCancel, Current, OnAbort, Close
<1>16. ASSUME NEW e \in Events, BeginFinalizer(e) PROVE IInv'
  BY <1>16 DEF BeginFinalizer, Close
<1>17. ASSUME NEW e \in Events, ScopeSettles(e) PROVE IInv'
  BY <1>17 DEF ScopeSettles
<1> HIDE DEF IInv
<1> QED
  BY <1>1, <1>2, <1>3, <1>4, <1>5, <1>6, <1>7, <1>8, <1>9, <1>10, <1>11, <1>12,
     <1>13, <1>14, <1>15, <1>16, <1>17 DEF Next

\* The inductive invariant holds in every state of every isolate.
THEOREM Invariance == Spec => []IInv
  BY InitIInv, StepPreserves, PTL DEF Spec

\* Type correctness of the runner.
THEOREM TypeCorrect == Spec => []TypeOK
  BY Invariance, PTL DEF IInv

\* No continuation of a replaced generation, or of an event that has left, can
\* run: its scope is fenced.
THEOREM Fencing == Spec => []StaleScopesFenced
<1>1. IInv => StaleScopesFenced
  BY DEF IInv, LeaversFenced, MembersCurrent, StaleScopesFenced
<1> QED
  BY <1>1, Invariance, PTL

\* The unguarded error paths abandon a generation only for one of its members.
THEOREM TrapOwnership == Spec => []TrapsComeFromMembers
<1>1. IInv => TrapsComeFromMembers
  BY DEF IInv, WorkOwned, TrapsComeFromMembers
<1> QED
  BY <1>1, Invariance, PTL

\* Every admitted event has a deadline, a failed reset strands nobody, and the
\* rotation that execute() makes on admission is never reached.
THEOREM Bounded ==
  Spec => [](EveryEventHasDeadline /\ UnavailableIsEmpty /\ IdleIsRetired)
  BY Invariance, PTL DEF IInv

\* A step that changes the generation rejects everyone whose promise is open.
LEMMA ChangeRejects ==
  IInv /\ [Next]_vars =>
    (generation' # generation =>
       \A e \in Events : phase[e] = "admitted" =>
         phase'[e] = "settled" /\ outcome'[e] = "abandoned")
<1> SUFFICES ASSUME IInv, [Next]_vars, generation' # generation,
                    NEW x \in Events, phase[x] = "admitted"
             PROVE  phase'[x] = "settled" /\ outcome'[x] = "abandoned"
  OBVIOUS
<1>1. x \in pending /\ outcome[x] = "none"
  BY DEF IInv, PhasesAgree
<1>2. PICK e \in Events : \/ \E c : Abandon(pending, c)
                          \/ \E c : Abandon(pending \cup {e}, c)
                          \/ EndFinalizer(e) /\ pending' = {}
  BY DEF Next, vars, Arrive, ArriveToWait, WaiterEnters, WaiterGivesUp, Enter,
     Refuse, Admit, AdmitAndTrap, LeaveQueue, RequestResolves, SessionOpens,
     SessionMalformed, SessionCloses, Trap, LateResult, Signal, SessionCancel,
     TimerFires, BeginFinalizer, ScopeSettles, EndFinalizer, Retires
<1>3. ~(EndFinalizer(e) /\ pending' = {})
  BY <1>1 DEF EndFinalizer
<1> QED
  BY <1>1, <1>2, <1>3 DEF Abandon

\* The generation is replaced only when no event's promise is open, or by
\* rejecting each of them in the same step.
THEOREM GenerationChange == Spec => GenerationWaitsOrRejects
  BY Invariance, ChangeRejects, PTL DEF Spec, GenerationWaitsOrRejects

\* The capacity bound needs only that the pending events are a finite set.
LEMMA CapacityStep ==
  IInv /\ WithinCapacity /\ [Next]_vars => WithinCapacity'
<1> SUFFICES ASSUME IInv, WithinCapacity, [Next]_vars PROVE WithinCapacity'
  OBVIOUS
<1>1. IsFiniteSet(pending)
  BY FS_Subset DEF IInv, TypeOK
<1>2. CASE pending' \subseteq pending
  <2>1. Cardinality(pending') <= Cardinality(pending)
    BY <1>1, <1>2, FS_Subset
  <2>2. Cardinality(pending') \in Nat /\ Cardinality(pending) \in Nat
    BY <1>1, <1>2, FS_Subset, FS_CardinalityType
  <2> QED
    BY <2>1, <2>2, MaxConcurrentAssumption DEF WithinCapacity
<1>3. ASSUME NEW e \in Events, Admit(e) PROVE WithinCapacity'
  <2>1. Cardinality(pending) < MaxConcurrent
    BY <1>3 DEF Admit, Admissible
  <2>2. Cardinality(pending) \in Nat
    BY <1>1, FS_CardinalityType
  <2>3. Cardinality(pending') \in {Cardinality(pending), Cardinality(pending) + 1}
    BY <1>1, <1>3, <2>2, FS_AddElement DEF Admit
  <2> QED
    BY <2>1, <2>2, <2>3, MaxConcurrentAssumption DEF WithinCapacity
<1>4. pending' \subseteq pending \/ \E e \in Events : Admit(e)
  BY DEF Next, vars, Arrive, ArriveToWait, WaiterEnters, WaiterGivesUp, Enter,
     Refuse, AdmitAndTrap, LeaveQueue, RequestResolves, SessionOpens,
     SessionMalformed, SessionCloses, Trap, LateResult, Signal, SessionCancel,
     TimerFires, BeginFinalizer, ScopeSettles, EndFinalizer, Abandon
<1> QED
  BY <1>2, <1>3, <1>4

\* At most maxConcurrent events are admitted to the instance at any time.
THEOREM Capacity == Spec => []WithinCapacity
<1>1. Init => WithinCapacity
  BY FS_EmptySet, MaxConcurrentAssumption DEF Init, WithinCapacity
<1> QED
  BY <1>1, CapacityStep, Invariance, PTL DEF Spec

\* Each step of the runner is a step of the lease or leaves it alone.
LEMMA LeaseStep == IInv /\ [Next]_vars => [Leases!Next]_(Leases!vars)
<1> SUFFICES ASSUME IInv, [Next]_vars,
                    ~UNCHANGED <<generation, gen, pending>>
             PROVE  Leases!Next
  BY DEF Leases!vars
<1> USE DEF Leases!Next
<1>1. ASSUME NEW e \in Events, Enter(e), phase[e] \in {"new", "waiting"}
      PROVE  Leases!Next
  <2>1. gen[e] = 0
    BY <1>1 DEF IInv, PhasesAgree
  <2>2. CASE Admit(e)
    BY <2>1, <2>2 DEF Admit, Leases!Acquire
  <2>3. CASE AdmitAndTrap(e)
    BY <2>1, <2>3 DEF AdmitAndTrap, Abandon, Rotate, Leases!AcquireAndAbandon
  <2> QED
    BY <1>1, <2>2, <2>3 DEF Enter, Refuse
<1>2. ASSUME NEW e \in Events, Trap(e) \/ TimerFires(e) PROVE Leases!Next
  BY <1>2 DEF Trap, TimerFires, Abandon, Rotate, Leases!Abandon
<1>3. ASSUME NEW e \in Events, EndFinalizer(e) PROVE Leases!Next
  <2>1. CASE e \in pending
    BY <1>3, <2>1 DEF EndFinalizer, Retires, Rotate, Leases!Release
  <2>2. CASE e \notin pending
    BY <1>3, <2>2 DEF EndFinalizer, Retires, Rotate, Leases!Abandon
  <2> QED
    BY <2>1, <2>2
<1> QED
  BY <1>1, <1>2, <1>3 DEF Next, vars, Arrive, ArriveToWait, WaiterEnters,
     WaiterGivesUp, Refuse, LeaveQueue, RequestResolves, SessionOpens,
     SessionMalformed, SessionCloses, LateResult, Signal, SessionCancel,
     BeginFinalizer, ScopeSettles

\* The runner implements GenerationLease.
THEOREM Refinement == Spec => ImplementsLease
<1>1. Init => Leases!Init
  BY DEF Init, Leases!Init
<1> QED
  BY <1>1, LeaseStep, Invariance, PTL DEF Spec, ImplementsLease, Leases!Spec

(***************************************************************************)
(* The count, the queue, the deadlines and the results.                    *)
(***************************************************************************)

\* How an event that is over got there: its deadline was cleared when its
\* finalizer began, and a success was recorded when its work ended in time.
EndsAgree ==
  \A e \in Events :
    /\ e \notin Sessions /\ phase[e] \in {"finalizing", "done"} => timer[e] = "none"
    /\ outcome[e] = "ok" => work[e] \in {"ended", "closed"}
    /\ outcome[e] = "ok" /\ phase[e] = "done" => receipt[e] = "clean"

\* A step that abandons leaves the count, the deadlines and the results right.
LEMMA AbandonEnds ==
  ASSUME IInv, EndsAgree, NEW members, NEW count, Abandon(members, count),
         receipt' = receipt,
         \A x \in Events : outcome[x] = "ok" => work'[x] = work[x]
  PROVE  EndsAgree'
<1> USE DEF IInv, TypeOK, EndsAgree, Abandon
<1>1. ASSUME NEW x \in Events
      PROVE  /\ timer'[x] \in {"none", timer[x]}
             /\ phase'[x] \in {"settled", phase[x]}
             /\ outcome'[x] = "ok" => outcome[x] = "ok" /\ work'[x] = work[x]
  OBVIOUS
<1> QED
  BY <1>1

LEMMA EndsStep == IInv /\ EndsAgree /\ [Next]_vars => EndsAgree'
<1> SUFFICES ASSUME IInv, EndsAgree, [Next]_vars PROVE EndsAgree'
  OBVIOUS
<1> USE DEF IInv, TypeOK, EndsAgree
<1>1. CASE UNCHANGED vars
  BY <1>1 DEF vars
<1>2. ASSUME NEW e \in Events, Enter(e), phase[e] \in {"new", "waiting"} PROVE EndsAgree'
  <2>1. CASE Refuse(e)
    BY <1>2, <2>1 DEF Refuse, PhasesAgree
  <2>2. CASE Admit(e)
    BY <1>2, <2>2 DEF Admit, PhasesAgree
  <2>3. CASE AdmitAndTrap(e)
    <3>1. outcome[e] = "none"
      BY <1>2 DEF PhasesAgree
    <3> QED
      BY <2>3, <3>1, AbandonEnds DEF AdmitAndTrap
  <2> QED
    BY <1>2, <2>1, <2>2, <2>3 DEF Enter
<1>3. ASSUME NEW e \in Events, Trap(e) \/ TimerFires(e) PROVE EndsAgree'
  <2>1. \A x \in Events : outcome[x] = "ok" => work'[x] = work[x]
    BY <1>3 DEF Trap, TimerFires, WorkOver
  <2> QED
    BY <1>3, <2>1, AbandonEnds DEF Trap, TimerFires
<1>4. ASSUME NEW e \in Events, EndFinalizer(e) PROVE EndsAgree'
  <2>1. outcome'[e] = "ok" => outcome[e] = "ok" /\ receipt[e] = "clean"
    BY <1>4 DEF EndFinalizer, Reported
  <2>2. \A x \in Events \ {e} : outcome'[x] = outcome[x]
    BY <1>4 DEF EndFinalizer
  <2> QED
    BY <1>4, <2>1, <2>2 DEF EndFinalizer
<1>5. ASSUME NEW e \in Events, ArriveToWait(e) \/ WaiterGivesUp(e) PROVE EndsAgree'
  BY <1>5 DEF ArriveToWait, WaiterGivesUp, Refuse, PhasesAgree
<1>6. ASSUME NEW e \in Events, LeaveQueue(e) PROVE EndsAgree'
  BY <1>6 DEF LeaveQueue
<1>7. ASSUME NEW e \in Events, RequestResolves(e) PROVE EndsAgree'
  BY <1>7 DEF RequestResolves, Settle
<1>8. ASSUME NEW e \in Events, SessionOpens(e) PROVE EndsAgree'
  BY <1>8 DEF SessionOpens
<1>9. ASSUME NEW e \in Events, SessionMalformed(e) PROVE EndsAgree'
  BY <1>9 DEF SessionMalformed, Settle
<1>10. ASSUME NEW e \in Events, SessionCloses(e) PROVE EndsAgree'
  BY <1>10 DEF SessionCloses, Settle
<1>11. ASSUME NEW e \in Events, LateResult(e) PROVE EndsAgree'
  BY <1>11 DEF LateResult, WorkOver
<1>12. ASSUME NEW e \in Events, Signal(e) PROVE EndsAgree'
  BY <1>12 DEF Signal, Listening, OnAbort
<1>13. ASSUME NEW e \in Events, SessionCancel(e) PROVE EndsAgree'
  BY <1>13 DEF SessionCancel, OnAbort
<1>14. ASSUME NEW e \in Events, BeginFinalizer(e) PROVE EndsAgree'
  BY <1>14 DEF BeginFinalizer
<1>15. ASSUME NEW e \in Events, ScopeSettles(e) PROVE EndsAgree'
  BY <1>15 DEF ScopeSettles
<1> QED
  BY <1>1, <1>2, <1>3, <1>4, <1>5, <1>6, <1>7, <1>8, <1>9, <1>10, <1>11, <1>12,
     <1>13, <1>14, <1>15 DEF Next, Arrive, WaiterEnters

\* The places of the queue are counted before one is taken.
LEMMA QueueStep == IInv /\ QueueBounded /\ [Next]_vars => QueueBounded'
<1> SUFFICES ASSUME IInv, QueueBounded, [Next]_vars PROVE QueueBounded'
  OBVIOUS
<1>1. IsFiniteSet(queue) /\ Cardinality(queue) \in Nat
  BY FS_Subset, FS_CardinalityType DEF IInv, TypeOK
<1>2. CASE queue' \subseteq queue
  <2>1. Cardinality(queue') <= Cardinality(queue) /\ Cardinality(queue') \in Nat
    BY <1>1, <1>2, FS_Subset, FS_CardinalityType
  <2>2. Cardinality(queue') <= QueueCapacity
    BY <1>1, <2>1 DEF QueueBounded
  <2>3. ASSUME NEW e \in Events, phase'[e] = "waiting" PROVE e \in queue'
    <3>1. phase[e] = "waiting" => e \in queue
      BY DEF QueueBounded
    <3> QED
      BY <1>2, <2>3, <3>1 DEF IInv, TypeOK, Next, vars, Arrive, ArriveToWait, WaiterEnters,
         WaiterGivesUp, Enter, Refuse, Admit, AdmitAndTrap, LeaveQueue,
         RequestResolves, SessionOpens, SessionMalformed, SessionCloses, Settle,
         Trap, LateResult, Signal, SessionCancel, TimerFires, BeginFinalizer,
         ScopeSettles, EndFinalizer, Abandon
  <2> QED
    BY <2>2, <2>3 DEF QueueBounded
<1>3. ASSUME NEW e \in Events, ArriveToWait(e), ~ (queue' \subseteq queue)
      PROVE  QueueBounded'
  <2>1. queue' = queue \cup {e} /\ phase' = [phase EXCEPT ![e] = "waiting"]
        /\ Cardinality(queue) < QueueCapacity
    BY <1>1, <1>3 DEF ArriveToWait, Refuse, QueueFull
  <2>2. Cardinality(queue') \in {Cardinality(queue), Cardinality(queue) + 1}
    BY <1>1, <2>1, FS_AddElement
  <2> QED
    BY <1>1, <2>1, <2>2 DEF QueueBounded, IInv, TypeOK
<1>4. queue' \subseteq queue \/ \E e \in Events : ArriveToWait(e)
  BY DEF Next, vars, Arrive, WaiterEnters, WaiterGivesUp, Enter, Refuse, Admit,
     AdmitAndTrap, LeaveQueue, RequestResolves, SessionOpens, SessionMalformed,
     SessionCloses, Trap, LateResult, Signal, SessionCancel, TimerFires,
     BeginFinalizer, ScopeSettles, EndFinalizer
<1> QED
  BY <1>2, <1>3, <1>4

\* The events the current generation admitted, which admittedCount counts.
Admitted == {e \in Events : gen[e] = generation}

\* A generation that was just replaced has admitted nobody.
LEMMA RotationCounts ==
  ASSUME IInv, NEW count, Rotate(count),
         \A x \in Events : gen'[x] <= generation, gen' \in [Events -> Nat]
  PROVE  AdmissionsCounted'
<1>1. Admitted' = {}
  BY DEF Rotate, IInv, TypeOK, Admitted
<1> QED
  BY <1>1, FS_EmptySet DEF Rotate, AdmissionsCounted, Admitted

LEMMA CountStep == IInv /\ AdmissionsCounted /\ [Next]_vars => AdmissionsCounted'
<1> SUFFICES ASSUME IInv, AdmissionsCounted, [Next]_vars PROVE AdmissionsCounted'
  OBVIOUS
<1>1. \A x \in Events : gen[x] <= generation /\ gen[x] \in Nat
  BY DEF IInv, TypeOK, WorkOwned
<1>2. CASE UNCHANGED <<generation, unavailable, admittedCount, gen>>
  BY <1>2 DEF AdmissionsCounted
<1>3. ASSUME NEW e \in Events, Admit(e), phase[e] \in {"new", "waiting"}
      PROVE  AdmissionsCounted'
  <2>1. ~unavailable /\ generation' = generation /\ admittedCount' = admittedCount + 1
    BY <1>3 DEF Admit, Admissible, RefusedAtOnce
  <2>2. e \notin Admitted
    BY <1>3 DEF IInv, TypeOK, PhasesAgree, Admitted
  <2>3. Admitted' = Admitted \cup {e}
    BY <1>3, <2>1 DEF IInv, TypeOK, Admit, Admitted
  <2>4. IsFiniteSet(Admitted)
    BY FS_Subset DEF Admitted
  <2>5. Cardinality(Admitted') = Cardinality(Admitted) + 1
    BY <2>2, <2>3, <2>4, FS_AddElement
  <2> QED
    BY <2>1, <2>5 DEF AdmissionsCounted, Admitted
<1>4. ASSUME NEW e \in Events, AdmitAndTrap(e) PROVE AdmissionsCounted'
  <2>1. gen' \in [Events -> Nat] /\ \A x \in Events : gen'[x] <= generation
    BY <1>1, <1>4 DEF AdmitAndTrap, IInv, TypeOK
  <2>2. Rotate(admittedCount + 1)
    BY <1>4 DEF AdmitAndTrap, Abandon
  <2> QED
    BY <2>1, <2>2, RotationCounts
<1>5. ASSUME NEW count, Rotate(count), gen' = gen PROVE AdmissionsCounted'
  BY <1>1, <1>5, RotationCounts DEF IInv, TypeOK
<1>6. \/ UNCHANGED <<generation, unavailable, admittedCount, gen>>
      \/ \E e \in Events : Admit(e) /\ phase[e] \in {"new", "waiting"}
      \/ \E e \in Events : AdmitAndTrap(e)
      \/ (\E count : Rotate(count)) /\ gen' = gen
  BY DEF Next, vars, Arrive, ArriveToWait, WaiterEnters, WaiterGivesUp, Enter,
     Refuse, LeaveQueue, RequestResolves, SessionOpens, SessionMalformed,
     SessionCloses, Trap, LateResult, Signal, SessionCancel, TimerFires,
     BeginFinalizer, ScopeSettles, EndFinalizer, Abandon
<1> QED
  BY <1>2, <1>3, <1>4, <1>5, <1>6

LEMMA InitEnds == Init => EndsAgree /\ QueueBounded /\ AdmissionsCounted
<1> SUFFICES ASSUME Init PROVE EndsAgree /\ QueueBounded /\ AdmissionsCounted
  OBVIOUS
<1>1. EndsAgree
  BY DEF Init, EndsAgree
<1>2. QueueBounded
  BY FS_EmptySet DEF Init, QueueBounded
<1>3. Admitted = {}
  BY DEF Init, Admitted
<1>4. AdmissionsCounted
  BY <1>3, FS_EmptySet DEF Init, AdmissionsCounted, Admitted
<1> QED
  BY <1>1, <1>2, <1>4

\* With the bookkeeping of the count, the queue and the ends, the invariant has
\* everything the runs check of an isolate.
THEOREM SafetyHolds == Spec => []Safety
<1>1. Spec => [](EndsAgree /\ QueueBounded /\ AdmissionsCounted)
  BY InitEnds, EndsStep, QueueStep, CountStep, Invariance, PTL DEF Spec
<1>2. IInv /\ EndsAgree /\ QueueBounded /\ AdmissionsCounted => Safety
  BY DEF IInv, EndsAgree, Safety, LeaversFenced, MembersCurrent, WorkOwned,
     StaleScopesFenced, TrapsComeFromMembers, NoDeadlineLeftBehind
<1> QED
  BY <1>1, <1>2, Invariance, PTL

\* An owner is told of success only after its work ended in time and its scope
\* drained cleanly, whatever happened to the generation meanwhile.
THEOREM SuccessHolds == Spec => []SuccessIsComplete
<1>1. Spec => []EndsAgree
  BY InitEnds, EndsStep, Invariance, PTL DEF Spec
<1>2. EndsAgree => SuccessIsComplete
  BY DEF EndsAgree, SuccessIsComplete
<1> QED
  BY <1>1, <1>2, PTL
=============================================================================
