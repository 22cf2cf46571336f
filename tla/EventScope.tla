----------------------------- MODULE EventScope -----------------------------
(***************************************************************************)
(* createEventScope of lenso-workers-runtime: the native resources and the *)
(* detachable Wasm continuations of one request.                           *)
(*                                                                         *)
(* An operation is one use of scope.operation.  Its native promise, the    *)
(* promise of an asynchronous abort and a promise an adapter hands to      *)
(* trackNative while the operation is in flight are the members of the     *)
(* code's `pending` set; its `aborters` set is Live, and its `gates` set   *)
(* is Live as long as the scope is not invalidated.  Values and errors are *)
(* not told apart: both are delivered through the same gate.               *)
(***************************************************************************)
EXTENDS Naturals, FiniteSets

CONSTANTS
  Operations,     \* the operations the application may ask for
  MaxOperations   \* the option maxOperations

ASSUME OperationsAssumption == IsFiniteSet(Operations)
ASSUME MaxOperationsAssumption == MaxOperations \in Nat \ {0}

VARIABLES
  closed,         \* no application operation is admitted any more
  invalidated,    \* continuations are cut off
  cancelled,      \* abort() was called
  attached,       \* a Wasm cancellation callback is attached
  cleanupFailed,  \* an abort failed, synchronously or later
  op,             \* the state of each operation
  aborted,        \* operations whose abort closure already ran
  aborting,       \* operations whose asynchronous abort is tracked
  extra,          \* the native promise an adapter tracked for an operation
  delivered,      \* operations whose outcome reached the application
  settlement,     \* the memoised result of settled()
  \* history
  failed,         \* operations whose abort failed
  certified       \* operations that were aborted when a clean receipt was issued

vars == <<closed, invalidated, cancelled, attached, cleanupFailed, op,
          aborted, aborting, extra, delivered, settlement, failed, certified>>
historyVars == <<failed, certified>>

Live == {o \in Operations : op[o] \in {"running", "completed"}}
Started == {o \in Operations : op[o] \in {"running", "completed", "finished"}}

\* A drain that does not wait for the promises of aborts.
DrainedOfWork == Live = {} /\ \A o \in Operations : extra[o] # "tracked"

\* The code's `pending` set is empty.
Drained == /\ Live = {}
           /\ aborting = {}
           /\ \A o \in Operations : extra[o] # "tracked"

Init ==
  /\ closed = FALSE
  /\ invalidated = FALSE
  /\ cancelled = FALSE
  /\ attached = FALSE
  /\ cleanupFailed = FALSE
  /\ op = [o \in Operations |-> "idle"]
  /\ aborted = {}
  /\ aborting = {}
  /\ extra = [o \in Operations |-> "none"]
  /\ delivered = {}
  /\ settlement = "none"
  /\ failed = {}
  /\ certified = {}
-----------------------------------------------------------------------------
(***************************************************************************)
(* Operations                                                              *)
(***************************************************************************)

\* operation() admits while the scope is open and below its capacity.
Admissible == ~closed /\ Cardinality(Live) < MaxOperations

Start(o) ==
  /\ op[o] = "idle"
  /\ Admissible
  /\ op' = [op EXCEPT ![o] = "running"]
  /\ UNCHANGED <<closed, invalidated, cancelled, attached, cleanupFailed,
                 aborted, aborting, extra, delivered, settlement, historyVars>>

\* operation() refuses: closed, at its capacity, or the adapter's start() throws.
Refuse(o) ==
  /\ op[o] = "idle"
  /\ op' = [op EXCEPT ![o] = "refused"]
  /\ UNCHANGED <<closed, invalidated, cancelled, attached, cleanupFailed,
                 aborted, aborting, extra, delivered, settlement, historyVars>>

\* The native promise settles; its reactions are queued.
NativeSettles(o) ==
  /\ op[o] = "running"
  /\ op' = [op EXCEPT ![o] = "completed"]
  /\ UNCHANGED <<closed, invalidated, cancelled, attached, cleanupFailed,
                 aborted, aborting, extra, delivered, settlement, historyVars>>

\* The reactions run: the promise leaves `pending`, finish() takes the aborter
\* and the gate away and delivers through the gate, unless it was fenced.
Finish(o) ==
  /\ op[o] = "completed"
  /\ op' = [op EXCEPT ![o] = "finished"]
  /\ delivered' = IF invalidated THEN delivered ELSE delivered \cup {o}
  /\ UNCHANGED <<closed, invalidated, cancelled, attached, cleanupFailed,
                 aborted, aborting, extra, settlement, historyVars>>

\* An adapter tracks native cleanup while the operation or its abort runs.
TrackNative(o) ==
  /\ o \in Live \cup aborting
  /\ extra[o] = "none"
  /\ extra' = [extra EXCEPT ![o] = "tracked"]
  /\ UNCHANGED <<closed, invalidated, cancelled, attached, cleanupFailed, op,
                 aborted, aborting, delivered, settlement, historyVars>>

TrackedSettles(o) ==
  /\ extra[o] = "tracked"
  /\ extra' = [extra EXCEPT ![o] = "settled"]
  /\ UNCHANGED <<closed, invalidated, cancelled, attached, cleanupFailed, op,
                 aborted, aborting, delivered, settlement, historyVars>>
-----------------------------------------------------------------------------
(***************************************************************************)
(* Cancellation                                                            *)
(***************************************************************************)

\* The abort closures of the operations in `targets` run, each at most once.
\* An abort returns nothing, throws (`broken`) or returns a promise (`async`).
RunAborts(targets, callbackThrows) ==
  \E broken, async \in SUBSET (targets \ aborted) :
    /\ broken \cap async = {}
    /\ aborted' = aborted \cup targets
    /\ aborting' = aborting \cup async
    /\ cleanupFailed' = (cleanupFailed \/ broken # {} \/ callbackThrows)
    /\ failed' = failed \cup broken

\* The abort handle operation() returned; it outlives the operation.
AbortOperation(o) ==
  /\ o \in Started \ aborted
  /\ RunAborts({o}, FALSE)
  /\ UNCHANGED <<closed, invalidated, cancelled, attached, op, extra,
                 delivered, settlement, certified>>

\* The tracked promise of an asynchronous abort settles; its failure is
\* recorded before it leaves `pending`.
AbortSettles(o) ==
  /\ o \in aborting
  /\ aborting' = aborting \ {o}
  /\ \/ UNCHANGED <<cleanupFailed, failed>>
     \/ cleanupFailed' = TRUE /\ failed' = failed \cup {o}
  /\ UNCHANGED <<closed, invalidated, cancelled, attached, op, aborted, extra,
                 delivered, settlement, certified>>

\* abort(): close, detach and call the callback, run every live aborter.
Abort ==
  /\ closed' = TRUE
  /\ cancelled' = TRUE
  /\ attached' = FALSE
  /\ \E callbackThrows \in BOOLEAN :
       /\ callbackThrows => attached
       /\ RunAborts(Live, callbackThrows)
  /\ UNCHANGED <<invalidated, op, extra, delivered, settlement, certified>>

\* attach(): ignored once invalidated; a callback that comes after the abort is
\* called at once and stays attached.
Attach ==
  /\ ~invalidated
  /\ attached' = TRUE
  /\ UNCHANGED <<closed, invalidated, cancelled, cleanupFailed, op, aborted,
                 aborting, extra, delivered, settlement, historyVars>>

Detach ==
  /\ attached' = FALSE
  /\ UNCHANGED <<closed, invalidated, cancelled, cleanupFailed, op, aborted,
                 aborting, extra, delivered, settlement, historyVars>>

\* The fence: gates and callback are dropped, no native resource is touched.
CutCallbackOnly == attached' = FALSE /\ UNCHANGED invalidated
CutContinuations == attached' = FALSE /\ invalidated' = TRUE

\* invalidate()
Invalidate ==
  /\ closed' = TRUE
  /\ CutContinuations
  /\ UNCHANGED <<cancelled, cleanupFailed, op, aborted, aborting, extra,
                 delivered, settlement, historyVars>>
-----------------------------------------------------------------------------
(***************************************************************************)
(* Settlement                                                              *)
(***************************************************************************)

\* The first settled() closes the scope and races the drain with the timer.
BeginSettlement ==
  /\ settlement = "none"
  /\ settlement' = "draining"
  /\ closed' = TRUE
  /\ UNCHANGED <<invalidated, cancelled, attached, cleanupFailed, op, aborted,
                 aborting, extra, delivered, historyVars>>

\* The drain loop finds `pending` empty.
DrainEnds ==
  /\ settlement = "draining"
  /\ Drained
  /\ IF cleanupFailed
     THEN settlement' = "uncertain" /\ CutContinuations /\ UNCHANGED certified
     ELSE /\ settlement' = "clean" /\ certified' = aborted
          /\ UNCHANGED <<invalidated, attached>>
  /\ UNCHANGED <<closed, cancelled, cleanupFailed, op, aborted, aborting,
                 extra, delivered, failed>>

\* The cleanup budget runs out first.
TimerArmedByAbort == settlement = "draining" /\ cancelled
TimerArmed == settlement = "draining"

CleanupTimeout ==
  /\ TimerArmed
  /\ settlement' = "uncertain"
  /\ CutContinuations
  /\ UNCHANGED <<closed, cancelled, cleanupFailed, op, aborted, aborting,
                 extra, delivered, historyVars>>

Next ==
  \/ \E o \in Operations :
       Start(o) \/ Refuse(o) \/ NativeSettles(o) \/ Finish(o)
       \/ TrackNative(o) \/ TrackedSettles(o) \/ AbortOperation(o)
       \/ AbortSettles(o)
  \/ Abort \/ Attach \/ Detach \/ Invalidate
  \/ BeginSettlement \/ DrainEnds \/ CleanupTimeout

\* Nothing makes native work end; the cleanup timer does fire.
Spec == Init /\ [][Next]_vars /\ WF_vars(CleanupTimeout)
-----------------------------------------------------------------------------
(***************************************************************************)
(* Properties                                                              *)
(***************************************************************************)

\* Every variable of the scope keeps its type, and an abort is only awaited for
\* an operation whose closure is marked as run, so no closure runs twice.
TypeOK ==
  /\ {closed, invalidated, cancelled, attached, cleanupFailed} \subseteq BOOLEAN
  /\ op \in [Operations ->
               {"idle", "refused", "running", "completed", "finished"}]
  /\ extra \in [Operations -> {"none", "tracked", "settled"}]
  /\ aborted \subseteq Operations
  /\ aborting \subseteq aborted
  /\ delivered \subseteq Operations
  /\ settlement \in {"none", "draining", "clean", "uncertain"}
  /\ failed \subseteq aborted /\ certified \subseteq aborted

\* A clean receipt tells the truth for ever: when settled() has reported a clean
\* cleanup, no operation of the scope is in flight, then or later, and of the
\* aborts that had run by then none is still under way, none has failed or will
\* fail, and what was tracked for them has ended.
CleanMeansQuiet ==
  settlement = "clean" =>
    /\ closed /\ Live = {}
    /\ certified \cap (aborting \cup failed) = {}
    /\ \A o \in certified : extra[o] # "tracked"

\* Once settled() has answered, whatever the answer, no outcome of an operation
\* reaches the application any more: a clean scope has none left, and an
\* uncertain one has fenced them.
NothingAfterReceipt ==
  [][(settlement \in {"clean", "uncertain"}) => delivered' = delivered]_vars

\* Cancellation reaches every operation: after abort() no operation is in
\* flight whose abort closure was not run, although operations keep starting
\* until the instant of the abort.
CancelReachesAll == cancelled => Live \subseteq aborted

\* What an isolate may rely on in every state of a scope: its receipts tell the
\* truth and its cancellations are complete.
Safety == TypeOK /\ CleanMeansQuiet /\ CancelReachesAll

\* The operation budget bounds what is in flight.
WithinCapacity == Cardinality(Live) <= MaxOperations

\* The scope implements the lease its owner relies on.
Lease == INSTANCE ScopeLease WITH
  life <- IF invalidated THEN "fenced" ELSE IF closed THEN "closed" ELSE "open",
  receipt <- IF settlement = "draining" THEN "none" ELSE settlement
ImplementsLease == Lease!Spec

\* settled() always answers, even when native work never ends.
SettlementAnswers ==
  settlement = "draining" ~> settlement \in {"clean", "uncertain"}
=============================================================================
