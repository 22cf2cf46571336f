----------------------------- MODULE EventRunner -----------------------------
(***************************************************************************)
(* createEventRunner of lenso-workers-runtime: the generation boundary     *)
(* between the events of an isolate and the one Wasm instance they share.  *)
(*                                                                         *)
(* An event is one call of run() or, for the members of Sessions, of       *)
(* open().  Its scope is known by what ScopeLease says of it.  The code's  *)
(* counter `queued` is the number of events in `queue`.                    *)
(***************************************************************************)
EXTENDS Naturals, FiniteSets

CONSTANTS
  Events,           \* the events of the isolate's life
  Sessions,         \* those that open a session
  MaxConcurrent,    \* the option maxConcurrent, 32 by default
  RetirementLimit,  \* the option retirementAdmissionLimit, 64 by default
  HardLimit,        \* the ceiling of admissions to a generation: 96
  QueueCapacity,    \* the events that may wait for a rotation: 32
  ResetMayFail      \* whether resetState or instantiate may throw

ASSUME EventsAssumption == IsFiniteSet(Events) /\ Sessions \subseteq Events
ASSUME MaxConcurrentAssumption == MaxConcurrent \in Nat \ {0}
ASSUME LimitAssumption ==
  /\ HardLimit \in Nat
  /\ RetirementLimit \in 1..HardLimit
  /\ QueueCapacity \in Nat
ASSUME ResetAssumption == ResetMayFail \in BOOLEAN

VARIABLES
  generation,     \* the current generation
  unavailable,    \* a reset is running or failed
  admittedCount,  \* admissions to the current generation
  pending,        \* the events the generation has admitted
  queue,          \* the events that hold a place in the rotation queue
  phase,          \* how far each event's promise is
  work,           \* the Wasm side of each event
  gen,            \* the generation that admitted each event, 0 before
  timer,          \* the deadline armed for each event
  cancelling,     \* events whose cancellation deadline was started
  signalled,      \* events whose request was aborted
  life,           \* the scope of each event ...
  receipt,        \* ... and its cleanup receipt
  outcome         \* what the event's owner is told

vars == <<generation, unavailable, admittedCount, pending, queue, phase, work,
          gen, timer, cancelling, signalled, life, receipt, outcome>>

Phases == {"new", "waiting", "admitted", "settled", "finalizing", "done"}
Works == {"none", "operating", "open", "closed", "ended"}
Timers == {"none", "event", "session", "cancel"}
Outcomes == {"none", "ok", "failed", "abandoned", "refused", "uncertain"}

\* The guard `pending.has(event) && admitted === generation`.
Current(e) == e \in pending /\ gen[e] = generation

\* The signal listener is attached from admission to dispose().
Listening(e) == phase[e] \in {"admitted", "settled"}

\* Timers are macrotasks: no promise reaction is queued when one fires.
MicrotasksDrained ==
  \A e \in Events : /\ phase[e] # "settled"
                    /\ phase[e] = "finalizing" => receipt[e] = "none"

\* What abort() and invalidate() of a scope do to its life.
Close(lf) == IF lf = "open" THEN "closed" ELSE lf

FenceOpenOnly(lf) == IF lf = "open" THEN "fenced" ELSE lf
Fence(lf) == "fenced"

Init ==
  /\ generation = 1
  /\ unavailable = FALSE
  /\ admittedCount = 0
  /\ pending = {}
  /\ queue = {}
  /\ phase = [e \in Events |-> "new"]
  /\ work = [e \in Events |-> "none"]
  /\ gen = [e \in Events |-> 0]
  /\ timer = [e \in Events |-> "none"]
  /\ cancelling = {}
  /\ signalled = {}
  /\ life = [e \in Events |-> "open"]
  /\ receipt = [e \in Events |-> "none"]
  /\ outcome = [e \in Events |-> "none"]
-----------------------------------------------------------------------------
(***************************************************************************)
(* Generations                                                             *)
(***************************************************************************)

\* rotate(), after `count` admissions: the generation moves on even when the
\* reset fails, which leaves admission closed.
RotateInPlace(count) ==
  /\ UNCHANGED generation
  /\ \/ unavailable' = FALSE /\ admittedCount' = 0
     \/ ResetMayFail /\ unavailable' = TRUE /\ admittedCount' = count

Rotate(count) ==
  /\ generation' = generation + 1
  /\ \/ unavailable' = FALSE /\ admittedCount' = 0
     \/ ResetMayFail /\ unavailable' = TRUE /\ admittedCount' = count

\* abandon(): every event of `members` loses its deadline, is fenced and has its
\* promise rejected if it was not settled yet; the generation is replaced.
Abandon(members, count) ==
  /\ pending' = {}
  /\ timer' = [e \in Events |-> IF e \in members THEN "none" ELSE timer[e]]
  /\ life' = [e \in Events |-> IF e \in members THEN Fence(life[e])
                ELSE life[e]]
  /\ phase' = [e \in Events |->
                 IF e \in members /\ outcome[e] = "none" THEN "settled"
                 ELSE phase[e]]
  /\ outcome' = [e \in Events |->
                   IF e \in members /\ outcome[e] = "none" THEN "abandoned"
                   ELSE outcome[e]]
  /\ Rotate(count)
-----------------------------------------------------------------------------
(***************************************************************************)
(* Admission                                                               *)
(***************************************************************************)

\* The generation has reached the ceiling.  The rotation execute() makes when it
\* finds such a generation idle is no action of this module: IdleIsRetired shows
\* that its condition never arises.
Exhausted == admittedCount >= HardLimit
MustWait == Exhausted /\ pending # {}

\* execute() refuses: the promise is rejected with nothing admitted.
Refuse(e) ==
  /\ phase' = [phase EXCEPT ![e] = "done"]
  /\ outcome' = [outcome EXCEPT ![e] = "refused"]
  /\ queue' = queue \ {e}
  /\ UNCHANGED <<generation, unavailable, admittedCount, pending, work, gen,
                 timer, cancelling, signalled, life, receipt>>

\* An aborted request and a runner whose reset failed are refused first.
RefusedAtOnce(e) == e \in signalled \/ unavailable

\* The conditions under which execute() goes on to admit.
Admissible(e) ==
  /\ ~RefusedAtOnce(e)
  /\ ~Exhausted
  /\ Cardinality(pending) < MaxConcurrent

\* Admission: the event deadline is armed and the operation starts.
Admit(e) ==
  /\ Admissible(e)
  /\ admittedCount' = admittedCount + 1
  /\ pending' = pending \cup {e}
  /\ phase' = [phase EXCEPT ![e] = "admitted"]
  /\ work' = [work EXCEPT ![e] = "operating"]
  /\ gen' = [gen EXCEPT ![e] = generation]
  /\ timer' = [timer EXCEPT ![e] = "event"]
  /\ UNCHANGED <<generation, unavailable, queue, cancelling, signalled, life,
                 receipt, outcome>>

\* The operation throws while it is being started.
AdmitAndTrap(e) ==
  /\ Admissible(e)
  /\ work' = [work EXCEPT ![e] = "ended"]
  /\ gen' = [gen EXCEPT ![e] = generation]
  /\ Abandon(pending \cup {e}, admittedCount + 1)
  /\ UNCHANGED <<queue, cancelling, signalled, receipt>>

\* execute() once it does not have to wait for a rotation.
Enter(e) ==
  \/ /\ RefusedAtOnce(e) \/ Cardinality(pending) >= MaxConcurrent
     /\ Refuse(e)
  \/ Admit(e)
  \/ AdmitAndTrap(e)

Arrive(e) == phase[e] = "new" /\ ~MustWait /\ Enter(e)

QueueFull == Cardinality(queue) >= QueueCapacity

\* run() or open() finds the generation exhausted and still in use.
ArriveToWait(e) ==
  /\ phase[e] = "new"
  /\ MustWait
  /\ IF RefusedAtOnce(e) \/ QueueFull
     THEN Refuse(e)
     ELSE /\ queue' = queue \cup {e}
          /\ phase' = [phase EXCEPT ![e] = "waiting"]
          /\ UNCHANGED <<generation, unavailable, admittedCount, pending, work,
                         gen, timer, cancelling, signalled, life, receipt,
                         outcome>>

\* A turn of the polling loop: it ends when the rotation is over, ...
WaiterEnters(e) == phase[e] = "waiting" /\ ~MustWait /\ Enter(e)

\* ... or in an error: aborted, unavailable or past its deadline.
WaiterGivesUp(e) == phase[e] = "waiting" /\ MustWait /\ Refuse(e)

\* The place in the queue is kept until the event's own promise has settled.
LeaveQueue(e) ==
  /\ e \in queue
  /\ phase[e] = "done"
  /\ queue' = queue \ {e}
  /\ UNCHANGED <<generation, unavailable, admittedCount, pending, phase, work,
                 gen, timer, cancelling, signalled, life, receipt, outcome>>
-----------------------------------------------------------------------------
(***************************************************************************)
(* The operation and the session                                           *)
(***************************************************************************)

\* The promise of an admitted event settles by itself.
Settle(e, result) ==
  /\ phase' = [phase EXCEPT ![e] = "settled"]
  /\ outcome' = [outcome EXCEPT ![e] = result]

\* A request's operation resolves: the deadline is cleared, and the value is the
\* JSON receipt or does not parse.
RequestResolves(e) ==
  /\ e \notin Sessions
  /\ work[e] = "operating"
  /\ Current(e)
  /\ work' = [work EXCEPT ![e] = "ended"]
  /\ timer' = [timer EXCEPT ![e] = "none"]
  /\ \E result \in {"ok", "failed"} : Settle(e, result)
  /\ UNCHANGED <<generation, unavailable, admittedCount, pending, queue, gen,
                 cancelling, signalled, life, receipt>>

\* The deadline of a published session; a cancellation's own is started again.
UncancelledDeadline(e) == IF e \in cancelling THEN "none" ELSE "session"
SessionDeadline(e) == IF e \in cancelling THEN "cancel" ELSE "session"

\* A session's operation resolves: the session is published and its deadline
\* replaces the event's.
SessionOpens(e) ==
  /\ e \in Sessions
  /\ work[e] = "operating"
  /\ Current(e)
  /\ work' = [work EXCEPT ![e] = "open"]
  /\ timer' = [timer EXCEPT ![e] = SessionDeadline(e)]
  /\ UNCHANGED <<generation, unavailable, admittedCount, pending, queue, phase,
                 gen, cancelling, signalled, life, receipt, outcome>>

\* The operation resolves to something that is not { value, closed }.
SessionMalformed(e) ==
  /\ e \in Sessions
  /\ work[e] = "operating"
  /\ Current(e)
  /\ work' = [work EXCEPT ![e] = "ended"]
  /\ Settle(e, "failed")
  /\ UNCHANGED <<generation, unavailable, admittedCount, pending, queue, gen,
                 timer, cancelling, signalled, life, receipt>>

\* closed resolves to the clean terminal receipt.
SessionCloses(e) ==
  /\ work[e] = "open"
  /\ Current(e)
  /\ work' = [work EXCEPT ![e] = "closed"]
  /\ timer' = [timer EXCEPT ![e] = "none"]
  /\ Settle(e, "ok")
  /\ UNCHANGED <<generation, unavailable, admittedCount, pending, queue, gen,
                 cancelling, signalled, life, receipt>>

WorkOver(e) == IF work[e] = "open" THEN "closed" ELSE "ended"

\* A current session closes uncleanly, or an operation or a closed promise of
\* this generation is rejected: the generation is abandoned.
Trap(e) ==
  /\ work[e] \in {"operating", "open"}
  /\ gen[e] = generation
  /\ work' = [work EXCEPT ![e] = WorkOver(e)]
  /\ Abandon(pending, admittedCount)
  /\ UNCHANGED <<queue, gen, cancelling, signalled, receipt>>

\* Whatever comes of work that is not current any more is ignored.
LateResult(e) ==
  /\ work[e] \in {"operating", "open"}
  /\ ~Current(e)
  /\ work' = [work EXCEPT ![e] = WorkOver(e)]
  /\ UNCHANGED <<generation, unavailable, admittedCount, pending, queue, phase,
                 gen, timer, cancelling, signalled, life, receipt, outcome>>
-----------------------------------------------------------------------------
(***************************************************************************)
(* Cancellation and deadlines                                              *)
(***************************************************************************)

\* onAbort(): abort the scope and, once, start the cancellation deadline.
OnAbort(e) ==
  /\ life' = [life EXCEPT ![e] = Close(@)]
  /\ cancelling' = cancelling \cup {e}
  /\ timer' = IF e \in cancelling THEN timer
              ELSE [timer EXCEPT ![e] = "cancel"]

\* The request is aborted; nobody looks at the signal of an event that is done.
Signal(e) ==
  /\ e \notin signalled
  /\ phase[e] # "done"
  /\ signalled' = signalled \cup {e}
  /\ IF Listening(e) THEN OnAbort(e) ELSE UNCHANGED <<life, cancelling, timer>>
  /\ UNCHANGED <<generation, unavailable, admittedCount, pending, queue, phase,
                 work, gen, receipt, outcome>>

\* The holder of a published session cancels it, as often and as late as it
\* likes.
SessionCancel(e) ==
  /\ e \in Sessions
  /\ work[e] \in {"open", "closed"}
  /\ Current(e)
  /\ OnAbort(e)
  /\ UNCHANGED <<generation, unavailable, admittedCount, pending, queue, phase,
                 work, gen, signalled, receipt, outcome>>

\* An armed deadline passes, whoever armed it.
TimerFires(e) ==
  /\ timer[e] # "none"
  /\ MicrotasksDrained
  /\ Abandon(pending \cup {e}, admittedCount)
  /\ UNCHANGED <<queue, work, gen, cancelling, signalled, receipt>>
-----------------------------------------------------------------------------
(***************************************************************************)
(* The finalizer of each event, in the context that owns it                *)
(***************************************************************************)

\* The deadline is cleared and the event disposed of: its scope is aborted and
\* settled() is awaited.
BeginFinalizer(e) ==
  /\ phase[e] = "settled"
  /\ phase' = [phase EXCEPT ![e] = "finalizing"]
  /\ timer' = [timer EXCEPT ![e] = "none"]
  /\ life' = [life EXCEPT ![e] = Close(@)]
  /\ UNCHANGED <<generation, unavailable, admittedCount, pending, queue, work,
                 gen, cancelling, signalled, receipt, outcome>>

\* settled() answers; an uncertain scope fences itself.
ScopeSettles(e) ==
  /\ phase[e] = "finalizing"
  /\ receipt[e] = "none"
  /\ \/ /\ receipt' = [receipt EXCEPT ![e] = "clean"]
        /\ UNCHANGED life
     \/ /\ receipt' = [receipt EXCEPT ![e] = "uncertain"]
        /\ life' = [life EXCEPT ![e] = "fenced"]
  /\ UNCHANGED <<generation, unavailable, admittedCount, pending, queue, phase,
                 work, gen, timer, cancelling, signalled, outcome>>

\* What the owner hears: an uncertain cleanup replaces the event's result.
ReportedAsSettled(e) == outcome[e]
Reported(e) == IF receipt[e] = "clean" THEN outcome[e] ELSE "uncertain"

\* The last event to leave retires a generation that has served enough.
RetiresBusy(left) == ~unavailable /\ admittedCount >= RetirementLimit
RetiresLater(left) ==
  ~unavailable /\ left = {} /\ admittedCount > RetirementLimit
Retires(left) == ~unavailable /\ left = {} /\ admittedCount >= RetirementLimit

\* The event is fenced and leaves the generation; a failing retirement replaces
\* its result.
EndFinalizer(e) ==
  /\ phase[e] = "finalizing"
  /\ receipt[e] # "none"
  /\ phase' = [phase EXCEPT ![e] = "done"]
  /\ life' = [life EXCEPT ![e] = Fence(@)]
  /\ pending' = pending \ {e}
  /\ IF Retires(pending')
     THEN /\ Rotate(admittedCount)
          /\ outcome' = [outcome EXCEPT ![e] =
                           IF unavailable' THEN "failed" ELSE Reported(e)]
     ELSE /\ outcome' = [outcome EXCEPT ![e] = Reported(e)]
          /\ UNCHANGED <<generation, unavailable, admittedCount>>
  /\ UNCHANGED <<queue, work, gen, timer, cancelling, signalled, receipt>>

Next ==
  \E e \in Events :
    \/ Arrive(e) \/ ArriveToWait(e) \/ WaiterEnters(e) \/ WaiterGivesUp(e)
    \/ LeaveQueue(e)
    \/ RequestResolves(e) \/ SessionOpens(e) \/ SessionMalformed(e)
    \/ SessionCloses(e) \/ Trap(e) \/ LateResult(e)
    \/ Signal(e) \/ SessionCancel(e) \/ TimerFires(e)
    \/ BeginFinalizer(e) \/ ScopeSettles(e) \/ EndFinalizer(e)

\* The event loop runs timers, polls and promise reactions; settled() answers
\* because it is bounded (EventScope).  Wasm work may never end.
Fairness ==
  \A e \in Events :
    /\ WF_vars(TimerFires(e))
    /\ WF_vars(WaiterEnters(e) \/ WaiterGivesUp(e))
    /\ WF_vars(LeaveQueue(e))
    /\ WF_vars(BeginFinalizer(e))
    /\ WF_vars(ScopeSettles(e))
    /\ WF_vars(EndFinalizer(e))

Spec == Init /\ [][Next]_vars /\ Fairness
-----------------------------------------------------------------------------
(***************************************************************************)
(* Properties                                                              *)
(***************************************************************************)

\* Every variable of the runner keeps its type, and no generation admits more
\* than the ceiling.
TypeOK ==
  /\ generation \in Nat \ {0}
  /\ unavailable \in BOOLEAN
  /\ admittedCount \in 0..HardLimit
  /\ pending \subseteq Events
  /\ queue \subseteq Events
  /\ phase \in [Events -> Phases]
  /\ work \in [Events -> Works]
  /\ gen \in [Events -> Nat]
  /\ timer \in [Events -> Timers]
  /\ cancelling \subseteq Events
  /\ signalled \subseteq Events
  /\ life \in [Events -> {"open", "closed", "fenced"}]
  /\ receipt \in [Events -> {"none", "clean", "uncertain"}]
  /\ outcome \in [Events -> Outcomes]

\* The scope of an event that some other generation admitted, or that has left
\* its own, is fenced: whatever its native work still delivers, no continuation
\* runs in the Wasm instance that replaced the one it belongs to.
StaleScopesFenced ==
  \A e \in Events :
    gen[e] # 0 /\ (gen[e] # generation \/ e \notin pending)
      => life[e] = "fenced"

\* Wasm work of the current generation belongs to a pending event, so the two
\* error paths that compare the generation only and do not ask pending.has(event)
\* never abandon a generation for an event that already left it.
TrapsComeFromMembers ==
  \A e \in Events :
    work[e] \in {"operating", "open"} /\ gen[e] = generation => e \in pending

\* The count that decides retirement is the number of events this generation
\* admitted: no admission escapes it and none of an earlier one is left in it.
AdmissionsCounted ==
  ~unavailable =>
    admittedCount = Cardinality({e \in Events : gen[e] = generation})

\* At most maxConcurrent events are admitted at a time, a finalizing event still
\* counting.
WithinCapacity == Cardinality(pending) <= MaxConcurrent

\* The queue holds the waiters and the events that were admitted from it and
\* have not settled, never more than its capacity.
QueueBounded ==
  /\ Cardinality(queue) <= QueueCapacity
  /\ \A e \in Events : phase[e] = "waiting" => e \in queue

\* An admitted event whose promise is open always has a deadline armed: no state
\* is left in which only hanging Wasm work could settle it.
EveryEventHasDeadline ==
  \A e \in Events : phase[e] = "admitted" => timer[e] # "none"

\* A request that has finished leaves no deadline behind that could abandon the
\* generation of others.
NoDeadlineLeftBehind ==
  \A e \in Events \ Sessions : phase[e] = "done" => timer[e] = "none"

\* A cancellation that settled in time is over: the event it cancelled has left,
\* and no deadline of it is running towards an abandonment.
CancellationIsOver ==
  \A e \in Sessions : phase[e] = "done" => timer[e] = "none"

\* A generation that has served its admissions is retired when its last event
\* leaves, so a new event never finds an idle one at the ceiling.
IdleIsRetired == pending = {} /\ ~unavailable => admittedCount < RetirementLimit

\* A failed reset strands nobody: when the runner is unavailable no event is
\* pending in it.
UnavailableIsEmpty == unavailable => pending = {}

\* An owner is told of success only after its own work ended in time and its
\* scope was drained cleanly.
SuccessIsComplete ==
  \A e \in Events :
    phase[e] = "done" /\ outcome[e] = "ok" =>
      /\ work[e] \in {"ended", "closed"}
      /\ receipt[e] = "clean"

\* The bookkeeping of an isolate: generations, queue, count and deadlines stay
\* consistent with the events that are open, whatever they are doing.
Safety ==
  /\ TypeOK /\ StaleScopesFenced /\ TrapsComeFromMembers
  /\ AdmissionsCounted /\ QueueBounded /\ EveryEventHasDeadline
  /\ NoDeadlineLeftBehind /\ IdleIsRetired

\* The generation never changes under an event whose promise is open: each one
\* is rejected in the step that replaces it.
GenerationWaitsOrRejects ==
  [][generation' # generation =>
       \A e \in Events : phase[e] = "admitted" =>
         phase'[e] = "settled" /\ outcome'[e] = "abandoned"]_vars

\* The runner implements the lease on the shared instance.
Leases == INSTANCE GenerationLease WITH lease <- gen, holders <- pending
ImplementsLease == Leases!Spec

\* Every event that asked is answered, even if its Wasm work hangs: an admitted
\* one by its result, its deadline or an abandonment, a waiting one by
\* admission or refusal; and it gives its place in the queue back.
EveryEventEnds ==
  \A e \in Events :
    phase[e] \in {"waiting", "admitted"} ~> phase[e] = "done" /\ e \notin queue
=============================================================================
