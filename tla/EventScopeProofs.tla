-------------------------- MODULE EventScopeProofs --------------------------
(***************************************************************************)
(* Proofs about EventScope, for any number of operations.                  *)
(***************************************************************************)
EXTENDS EventScope, FiniteSetTheorems, TLAPS

\* The flags only go together one way: a scope that is cancelled, invalidated or
\* being settled is closed, an uncertain receipt carries the fence, and a failed
\* abort is recorded.
FlagsAgree ==
  /\ cancelled \/ invalidated \/ settlement # "none" => closed
  /\ failed # {} => cleanupFailed
  /\ settlement = "uncertain" => invalidated

\* The inductive invariant.
IInv ==
  /\ TypeOK
  /\ FlagsAgree
  /\ CleanMeansQuiet
  /\ CancelReachesAll

LEMMA InitIInv == Init => IInv
<1> SUFFICES ASSUME Init PROVE IInv
  OBVIOUS
<1>1. TypeOK
  <2>1. {closed, invalidated, cancelled, attached, cleanupFailed} \subseteq BOOLEAN
    BY Zenon DEF Init
  <2> QED
    BY <2>1 DEF Init, TypeOK
<1>2. FlagsAgree /\ CleanMeansQuiet /\ CancelReachesAll
  BY DEF Init, FlagsAgree, CleanMeansQuiet, CancelReachesAll, Live
<1> QED
  BY <1>1, <1>2 DEF IInv

LEMMA StepPreserves == IInv /\ [Next]_vars => IInv'
<1> SUFFICES ASSUME IInv, [Next]_vars PROVE IInv'
  OBVIOUS
<1> USE DEF IInv, TypeOK, FlagsAgree, CleanMeansQuiet, CancelReachesAll, Live,
            historyVars
<1>1. CASE UNCHANGED vars
  BY <1>1 DEF vars
<1>2. ASSUME NEW o \in Operations, Start(o) PROVE IInv'
  BY <1>2 DEF Start, Admissible
<1>3. ASSUME NEW o \in Operations, Refuse(o) PROVE IInv'
  BY <1>3 DEF Refuse
<1>4. ASSUME NEW o \in Operations, NativeSettles(o) PROVE IInv'
  BY <1>4 DEF NativeSettles
<1>5. ASSUME NEW o \in Operations, Finish(o) PROVE IInv'
  BY <1>5 DEF Finish
<1>6. ASSUME NEW o \in Operations, TrackNative(o) \/ TrackedSettles(o)
      PROVE  IInv'
  BY <1>6 DEF TrackNative, TrackedSettles
<1>7. ASSUME NEW o \in Operations, AbortOperation(o) PROVE IInv'
  BY <1>7 DEF AbortOperation, RunAborts, Started
<1>8. ASSUME NEW o \in Operations, AbortSettles(o) PROVE IInv'
  <2>1. o \in aborting /\ aborting' = aborting \ {o}
    BY <1>8 DEF AbortSettles
  <2>2. UNCHANGED <<closed, invalidated, cancelled, attached, op, aborted, extra,
                    delivered, settlement, certified>>
    BY <1>8 DEF AbortSettles
  <2>3. CASE UNCHANGED <<cleanupFailed, failed>>
    BY <2>1, <2>2, <2>3
  <2>4. CASE cleanupFailed' = TRUE /\ failed' = failed \cup {o}
    BY <2>1, <2>2, <2>4
  <2> QED
    BY <1>8, <2>3, <2>4 DEF AbortSettles
<1>9. CASE Abort
  BY <1>9 DEF Abort, RunAborts
<1>10. CASE Attach \/ Detach
  <2>1. attached' \in BOOLEAN
    BY <1>10, Zenon DEF Attach, Detach
  <2>2. UNCHANGED <<closed, invalidated, cancelled, cleanupFailed, op, aborted,
                    aborting, extra, delivered, settlement>>
    BY <1>10 DEF Attach, Detach
  <2>3. UNCHANGED <<failed, certified>>
    BY <1>10 DEF Attach, Detach, historyVars
  <2> QED
    BY <2>1, <2>2, <2>3
<1>11. CASE Invalidate
  BY <1>11 DEF Invalidate, CutContinuations
<1>12. CASE BeginSettlement
  BY <1>12 DEF BeginSettlement
<1>13. CASE DrainEnds
  BY <1>13 DEF DrainEnds, Drained, CutContinuations
<1>14. CASE CleanupTimeout
  BY <1>14 DEF CleanupTimeout, TimerArmed, CutContinuations
<1> HIDE DEF IInv
<1> QED
  BY <1>1, <1>2, <1>3, <1>4, <1>5, <1>6, <1>7, <1>8, <1>9, <1>10, <1>11, <1>12,
     <1>13, <1>14 DEF Next

\* The inductive invariant holds in every state of every scope.
THEOREM Invariance == Spec => []IInv
  BY InitIInv, StepPreserves, PTL DEF Spec

\* Type correctness of the scope.
THEOREM TypeCorrect == Spec => []TypeOK
  BY Invariance, PTL DEF IInv

\* A clean receipt is never followed by work in flight.
THEOREM CleanReceipt == Spec => []CleanMeansQuiet
  BY Invariance, PTL DEF IInv

\* Cancellation reaches every operation in flight.
THEOREM Cancellation == Spec => []CancelReachesAll
  BY Invariance, PTL DEF IInv

\* After the receipt nothing is delivered: a clean scope has nothing left, an
\* uncertain one is fenced.
LEMMA ReceiptStep ==
  IInv /\ [Next]_vars =>
    ((settlement \in {"clean", "uncertain"}) => delivered' = delivered)
<1> SUFFICES ASSUME IInv, [Next]_vars, settlement \in {"clean", "uncertain"}
             PROVE  delivered' = delivered
  OBVIOUS
<1>1. ASSUME NEW o \in Operations, Finish(o) PROVE delivered' = delivered
  <2>1. o \in Live
    BY <1>1 DEF Finish, Live
  <2>2. settlement = "uncertain" /\ invalidated
    BY <2>1 DEF IInv, CleanMeansQuiet, FlagsAgree
  <2> QED
    BY <1>1, <2>2 DEF Finish
<1> QED
  BY <1>1 DEF Next, vars, Start, Refuse, NativeSettles, TrackNative,
     TrackedSettles, AbortOperation, RunAborts, AbortSettles, Abort, Attach,
     Detach, Invalidate, BeginSettlement, DrainEnds, CleanupTimeout

THEOREM NoLateDelivery == Spec => NothingAfterReceipt
  BY Invariance, ReceiptStep, PTL DEF Spec, NothingAfterReceipt

\* The number of operations in flight grows by starting one, below capacity.
LEMMA CapacityStep ==
  IInv /\ WithinCapacity /\ [Next]_vars => WithinCapacity'
<1> SUFFICES ASSUME IInv, WithinCapacity, [Next]_vars PROVE WithinCapacity'
  OBVIOUS
<1> USE OperationsAssumption, MaxOperationsAssumption
<1>1. IsFiniteSet(Live) /\ Cardinality(Live) \in Nat
  BY FS_Subset, FS_CardinalityType DEF Live
<1>2. CASE Live' \subseteq Live
  <2>1. Cardinality(Live') <= Cardinality(Live) /\ Cardinality(Live') \in Nat
    BY <1>1, <1>2, FS_Subset, FS_CardinalityType
  <2> QED
    BY <1>1, <2>1 DEF WithinCapacity
<1>3. ASSUME NEW o \in Operations, Start(o) PROVE WithinCapacity'
  <2>1. Live' = Live \cup {o}
    BY <1>3 DEF Start, Live, IInv, TypeOK
  <2>2. Cardinality(Live') \in {Cardinality(Live), Cardinality(Live) + 1}
    BY <1>1, <2>1, FS_AddElement
  <2>3. Cardinality(Live) < MaxOperations
    BY <1>3 DEF Start, Admissible
  <2> QED
    BY <1>1, <2>2, <2>3 DEF WithinCapacity
<1>4. Live' \subseteq Live \/ \E o \in Operations : Start(o)
  BY DEF Live, IInv, TypeOK, Next, vars, Refuse, NativeSettles, Finish,
     TrackNative, TrackedSettles, AbortOperation, AbortSettles, Abort, Attach,
     Detach, Invalidate, BeginSettlement, DrainEnds, CleanupTimeout
<1> QED
  BY <1>2, <1>3, <1>4

\* The scope never has more operations in flight than maxOperations.
THEOREM Capacity == Spec => []WithinCapacity
<1>1. Init => WithinCapacity
  <2>1. Init => Live = {}
    BY DEF Init, Live
  <2> QED
    BY <2>1, FS_EmptySet, MaxOperationsAssumption DEF WithinCapacity
<1> QED
  BY <1>1, CapacityStep, Invariance, PTL DEF Spec

\* Each step of the scope is a step of the lease or leaves it alone.
LEMMA LeaseStep == IInv /\ [Next]_vars => [Lease!Next]_(Lease!vars)
<1> SUFFICES ASSUME IInv, [Next]_vars PROVE [Lease!Next]_(Lease!vars)
  OBVIOUS
<1> USE DEF Lease!Next, Lease!vars, Lease!Close, Lease!Fence,
            Lease!ReceiptClean, Lease!ReceiptUncertain
<1>1. CASE Abort
  BY <1>1 DEF Abort
<1>2. CASE Invalidate
  BY <1>2 DEF Invalidate, CutContinuations
<1>3. CASE BeginSettlement
  BY <1>3 DEF BeginSettlement
<1>4. CASE DrainEnds \/ CleanupTimeout
  BY <1>4 DEF DrainEnds, CleanupTimeout, TimerArmed, CutContinuations,
     IInv, FlagsAgree
<1>5. CASE UNCHANGED <<closed, invalidated, settlement>>
  BY <1>5
<1>6. \/ Abort \/ Invalidate \/ BeginSettlement \/ DrainEnds \/ CleanupTimeout
      \/ UNCHANGED <<closed, invalidated, settlement>>
  BY DEF Next, vars, Start, Refuse, NativeSettles, Finish, TrackNative,
     TrackedSettles, AbortOperation, AbortSettles, Attach, Detach
<1> HIDE DEF Lease!Next, Lease!vars
<1> QED
  BY <1>1, <1>2, <1>3, <1>4, <1>5, <1>6

\* The scope implements ScopeLease.
THEOREM Refinement == Spec => ImplementsLease
<1>1. Init => Lease!Init
  BY DEF Init, Lease!Init
<1> QED
  BY <1>1, LeaseStep, Invariance, PTL DEF Spec, ImplementsLease, Lease!Spec

\* Receipts tell the truth and cancellations are complete in every state.
THEOREM SafetyHolds == Spec => []Safety
  BY TypeCorrect, CleanReceipt, Cancellation, PTL DEF Safety
=============================================================================
