------------------------------ MODULE ProcessV1 ------------------------------
(***************************************************************************)
(* startProcessV1 of lenso-bun-plugin: the child of the Process V1         *)
(* profile, with its data listener and its control listener.               *)
(*                                                                         *)
(* A request is known by its correlation id; the code's maps `active` and  *)
(* `retired` are Active and Retired.  Both listeners are served by one     *)
(* event loop, so a handler runs undivided from one await to the next, and *)
(* what the two do is interleaved at the awaits.  A message that changes   *)
(* nothing (wrong path or session, unknown method, a second handshake, a   *)
(* cancellation of an unknown id) is ControlAnswered on the control        *)
(* listener and no step at all on the data listener.                       *)
(***************************************************************************)
EXTENDS Integers, Sequences, FiniteSets

CONSTANTS
  Ids,                   \* the correlation ids the host uses
  Timed,                 \* those sent with a remaining timeout
  MaxConcurrent,         \* max_concurrent_requests
  QueueCapacity,         \* child_request_queue_capacity
  MaxRetired,            \* max_retired_correlation_ids
  ControlCapacity,       \* control_queue_capacity of the admitted identity
  FirstControlCapacity   \* what stands for it before the handshake: 32

ASSUME IdsAssumption == IsFiniteSet(Ids) /\ Timed \subseteq Ids
\* validatePeerLimits requires positive limits.
ASSUME LimitsAssumption ==
  {MaxConcurrent, QueueCapacity, MaxRetired, ControlCapacity,
   FirstControlCapacity} \subseteq Nat \ {0}

VARIABLES
  accepting,        \* the data listener admits requests
  attempted,        \* the handshake was attempted
  session,          \* the handshake succeeded
  controlInFlight,  \* control messages being handled
  running,          \* the counter runningDataRequests
  waiters,          \* dataWaiters: who waits for a slot, oldest first
  phase,            \* how far each request is
  cancelled,        \* requests whose cancellation flag is set
  invoked,          \* history: requests the provider was called for
  stopping          \* history: shutdown or stop() was served

vars == <<accepting, attempted, session, controlInFlight, running, waiters,
          phase, cancelled, invoked, stopping>>

control == <<attempted, session, controlInFlight>>

\* "granted" is the await between the slot and the provider.
Phases == {"new", "queued", "granted", "invoking", "done"}

Active == {i \in Ids : phase[i] \in {"queued", "granted", "invoking"}}
Holders == {i \in Ids : phase[i] \in {"granted", "invoking"}}
Retired == {i \in Ids : phase[i] = "done"}

Init ==
  /\ accepting = TRUE
  /\ attempted = FALSE
  /\ session = FALSE
  /\ controlInFlight = 0
  /\ running = 0
  /\ waiters = <<>>
  /\ phase = [i \in Ids |-> "new"]
  /\ cancelled = {}
  /\ invoked = {}
  /\ stopping = FALSE
-----------------------------------------------------------------------------
(***************************************************************************)
(* The data listener                                                       *)
(***************************************************************************)

Serving == accepting /\ session

\* An id that is being served or was served; the other gates follow.
Duplicate(i) == i \in Active \cup Retired

RetiredFull == Cardinality(Retired) >= MaxRetired

\* Every slot is taken and every place in the queue too: the request is refused
\* and its id may be used again.
QueueFull ==
  /\ Cardinality(Active) >= MaxConcurrent
  /\ Len(waiters) >= QueueCapacity

\* A breach of the protocol ends admission: a duplicate id, no room to remember
\* another one or, past the capacity gate, an operation the admitted identity
\* does not have.
Breach(i) ==
  /\ Serving
  /\ Duplicate(i) \/ RetiredFull \/ ~QueueFull
  /\ accepting' = FALSE
  /\ UNCHANGED <<control, running, waiters, phase, cancelled, invoked,
                 stopping>>

\* acquireDataSlot(): a slot, or a place in the queue.  The branch that finds
\* neither is no action: SlotsConserved shows that it is never taken.
AcquireSlot(i) ==
  IF running < MaxConcurrent
  THEN /\ running' = running + 1
       /\ phase' = [phase EXCEPT ![i] = "granted"]
       /\ UNCHANGED waiters
  ELSE /\ Len(waiters) < QueueCapacity
       /\ waiters' = Append(waiters, i)
       /\ phase' = [phase EXCEPT ![i] = "queued"]
       /\ UNCHANGED running

\* A request passes every gate.
Admit(i) ==
  /\ Serving
  /\ ~Duplicate(i) /\ ~RetiredFull /\ ~QueueFull
  /\ AcquireSlot(i)
  /\ UNCHANGED <<accepting, control, cancelled, invoked, stopping>>

\* The finally block: the id is retired, and releaseDataSlot() hands the slot to
\* the oldest waiter or gives it back.
RetireAndForget(i) ==
  /\ running' = running - 1
  /\ phase' = [phase EXCEPT ![i] = "done"]
  /\ UNCHANGED waiters

RetireAndFree(i) ==
  /\ running' = running - 1
  /\ IF waiters = <<>>
     THEN phase' = [phase EXCEPT ![i] = "done"] /\ UNCHANGED waiters
     ELSE /\ phase' = [phase EXCEPT ![i] = "done", ![Head(waiters)] = "granted"]
          /\ waiters' = Tail(waiters)

Retire(i) ==
  IF waiters = <<>>
  THEN /\ running' = running - 1
       /\ phase' = [phase EXCEPT ![i] = "done"]
       /\ UNCHANGED waiters
  ELSE /\ phase' = [phase EXCEPT ![i] = "done", ![Head(waiters)] = "granted"]
       /\ waiters' = Tail(waiters)
       /\ UNCHANGED running

\* With its slot, a cancelled request is answered at once, ...
AnswerCancelled(i) ==
  /\ phase[i] = "granted"
  /\ i \in cancelled
  /\ Retire(i)
  /\ UNCHANGED <<accepting, control, cancelled, invoked, stopping>>

\* ... one whose payload is invalid ends admission, ...
InvalidPayload(i) ==
  /\ phase[i] = "granted"
  /\ i \notin cancelled
  /\ accepting' = FALSE
  /\ Retire(i)
  /\ UNCHANGED <<control, cancelled, invoked, stopping>>

\* ... and for any other the provider is called.
MayInvokeAnyway(i) == phase[i] = "granted"
MayInvoke(i) == phase[i] = "granted" /\ i \notin cancelled

Invoke(i) ==
  /\ MayInvoke(i)
  /\ phase' = [phase EXCEPT ![i] = "invoking"]
  /\ invoked' = invoked \cup {i}
  /\ UNCHANGED <<accepting, control, running, waiters, cancelled, stopping>>

\* The provider's promise settles; a failure, an invalid outcome or one that
\* cannot be encoded ends admission.
InvocationSettles(i) ==
  /\ phase[i] = "invoking"
  /\ accepting' \in {accepting, FALSE}
  /\ Retire(i)
  /\ UNCHANGED <<control, cancelled, invoked, stopping>>

\* The child timer of a request: it only sets the flag.
TimerFires(i) ==
  /\ i \in Timed \cap Active
  /\ cancelled' = cancelled \cup {i}
  /\ UNCHANGED <<accepting, control, running, waiters, phase, invoked,
                 stopping>>
-----------------------------------------------------------------------------
(***************************************************************************)
(* The control listener                                                    *)
(***************************************************************************)

\* The bound that stands now; it may shrink below what is already in flight.
ControlBound == IF session THEN ControlCapacity ELSE FirstControlCapacity

ControlFull == controlInFlight >= ControlBound

\* A message takes a control slot while its body is read; the handler that
\* follows gives it back.
ControlArrives ==
  /\ ~ControlFull
  /\ controlInFlight' = controlInFlight + 1
  /\ UNCHANGED <<accepting, attempted, session, running, waiters, phase,
                 cancelled, invoked, stopping>>

ControlLeaves == controlInFlight > 0 /\ controlInFlight' = controlInFlight - 1

ControlAnswered ==
  /\ ControlLeaves
  /\ UNCHANGED <<accepting, attempted, session, running, waiters, phase,
                 cancelled, invoked, stopping>>

\* The only handshake there can be: it opens the session or fails for good.
Handshake ==
  /\ ControlLeaves
  /\ ~attempted
  /\ attempted' = TRUE
  /\ session' \in BOOLEAN
  /\ UNCHANGED <<accepting, running, waiters, phase, cancelled, invoked,
                 stopping>>

Cancel(i) ==
  /\ ControlLeaves
  /\ session
  /\ i \in Active
  /\ cancelled' = cancelled \cup {i}
  /\ UNCHANGED <<accepting, attempted, session, running, waiters, phase,
                 invoked, stopping>>

\* What shutdown and stop() do before the listeners are stopped.
CancelActive == cancelled' = cancelled \cup Active

CloseAdmission ==
  /\ accepting' = FALSE
  /\ CancelActive
  /\ stopping' = TRUE
  /\ UNCHANGED <<running, waiters, phase, invoked>>

Shutdown ==
  /\ ControlLeaves
  /\ session
  /\ CloseAdmission
  /\ UNCHANGED <<attempted, session>>

\* stop() of the server object.
Stop == CloseAdmission /\ UNCHANGED control

Next ==
  \/ \E i \in Ids :
       \/ Breach(i) \/ Admit(i) \/ AnswerCancelled(i) \/ InvalidPayload(i)
       \/ Invoke(i) \/ InvocationSettles(i) \/ TimerFires(i) \/ Cancel(i)
  \/ ControlArrives \/ ControlAnswered \/ Handshake \/ Shutdown \/ Stop

\* A request that has its slot goes on; nothing makes a provider settle.
Spec ==
  /\ Init /\ [][Next]_vars
  /\ \A i \in Ids :
       WF_vars(AnswerCancelled(i) \/ InvalidPayload(i) \/ Invoke(i))
-----------------------------------------------------------------------------
(***************************************************************************)
(* Properties                                                              *)
(***************************************************************************)

\* Every variable of the child keeps its type, and the control messages in
\* flight never exceed the larger of the two bounds they were admitted under.
TypeOK ==
  /\ {accepting, attempted, session, stopping} \subseteq BOOLEAN
  /\ controlInFlight \in Nat
  /\ \/ controlInFlight <= ControlCapacity
     \/ controlInFlight <= FirstControlCapacity
  /\ running \in 0..MaxConcurrent
  /\ waiters \in Seq(Ids)
  /\ phase \in [Ids -> Phases]
  /\ cancelled \subseteq Ids
  /\ invoked \subseteq Ids

\* The counter, the queue and the map of active requests agree although each is
\* updated on its own: a slot is held by exactly the requests past the queue, a
\* request waits once and only while every slot is held, and so a request that
\* passed the gate on active.size always finds a slot or a place.
SlotsConserved ==
  /\ running = Cardinality(Holders)
  /\ Cardinality(Active) = running + Len(waiters)
  /\ waiters # <<>> => running = MaxConcurrent
  /\ Len(waiters) <= QueueCapacity

\* A correlation id reaches the provider at most once, whatever is sent again
\* with the same id and however late.
InvokedOnce == \A i \in invoked : phase[i] \in {"invoking", "done"}

\* After shutdown or stop() no provider is called any more, not even for the
\* requests that were queued or had just been granted a slot.
NothingStartsAfterStop == [][stopping => invoked' = invoked]_vars

\* The ids remembered for good stay bounded: the limit is read before the
\* request is active, so the requests open at that moment may still overrun it.
RetiredBounded ==
  Cardinality(Retired) < MaxRetired + MaxConcurrent + QueueCapacity

\* The accounting of the child: slots, queues and ids stay consistent with the
\* requests it has accepted, and no request is served twice.
Safety == TypeOK /\ SlotsConserved /\ InvokedOnce /\ RetiredBounded

\* The child implements the window of calls a host relies on.
Window == INSTANCE CallWindow WITH
  Calls <- Ids, Width <- MaxConcurrent, Depth <- MaxConcurrent + QueueCapacity,
  shut <- stopping,
  stage <- [i \in Ids |-> IF phase[i] \in {"queued", "granted"} THEN "waiting"
                          ELSE IF phase[i] = "invoking" THEN "running"
                          ELSE phase[i]]
ImplementsWindow == Window!Spec

\* If no invocation hangs, everyone who waits for a slot is answered, cancelled
\* or not: no wake-up is lost between the finally block and the queue.
NoWaiterLost ==
  (\A i \in Ids : []<>(phase[i] # "invoking"))
    => \A i \in Ids : phase[i] = "queued" ~> phase[i] = "done"
=============================================================================
