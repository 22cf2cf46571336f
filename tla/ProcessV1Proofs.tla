--------------------------- MODULE ProcessV1Proofs ---------------------------
(***************************************************************************)
(* Proofs about ProcessV1, for any ids and any positive limits.            *)
(***************************************************************************)
EXTENDS ProcessV1, FiniteSetTheorems, SequenceTheorems, TLAPS

\* The part of the type that the slots are about.
SlotTypes ==
  /\ running \in 0..MaxConcurrent
  /\ waiters \in Seq(Ids)
  /\ phase \in [Ids -> Phases]

\* Whoever is in the queue waits there, and only once.
WaitersQueued ==
  /\ \A k \in 1..Len(waiters) : phase[waiters[k]] = "queued"
  /\ \A j, k \in 1..Len(waiters) : waiters[j] = waiters[k] => j = k

Slots == SlotTypes /\ SlotsConserved /\ WaitersQueued

\* What is remembered and what is still open share the room that was there when
\* the last request was admitted.
RoomToRetire ==
  Cardinality(Retired) + Cardinality(Active)
    < MaxRetired + MaxConcurrent + QueueCapacity

\* Stopping has reached everyone, and nobody comes after.
StopReachedAll == stopping => ~accepting /\ Active \subseteq cancelled

IInv == TypeOK /\ Slots /\ RoomToRetire /\ InvokedOnce /\ StopReachedAll

USE IdsAssumption, LimitsAssumption

\* The sets of requests are finite.
LEMMA FiniteSets ==
  /\ IsFiniteSet(Active) /\ Cardinality(Active) \in Nat
  /\ IsFiniteSet(Holders) /\ Cardinality(Holders) \in Nat
  /\ IsFiniteSet(Retired) /\ Cardinality(Retired) \in Nat
<1>1. Active \subseteq Ids /\ Holders \subseteq Ids /\ Retired \subseteq Ids
  BY DEF Active, Holders, Retired
<1> QED
  BY <1>1, FS_Subset, FS_CardinalityType

\* A request that was not there takes a slot or a place.
LEMMA AcquireKeeps ==
  ASSUME Slots, NEW i \in Ids, phase[i] = "new", ~QueueFull, AcquireSlot(i)
  PROVE  /\ Slots'
         /\ Retired' = Retired
         /\ Active' = Active \cup {i}
         /\ Cardinality(Active)' <= MaxConcurrent + QueueCapacity
<1> USE DEF Slots, SlotTypes, Phases
<1>1. CASE running < MaxConcurrent
  <2>1. /\ running' = running + 1 /\ waiters' = waiters
        /\ phase' = [phase EXCEPT ![i] = "granted"]
    BY <1>1 DEF AcquireSlot
  <2>2. Active' = Active \cup {i} /\ Holders' = Holders \cup {i} /\ Retired' = Retired
    BY <2>1 DEF Active, Holders, Retired
  <2>3. i \notin Active /\ i \notin Holders
    BY DEF Active, Holders
  <2>4. /\ Cardinality(Active)' = Cardinality(Active) + 1
        /\ Cardinality(Holders)' = Cardinality(Holders) + 1
    BY <2>2, <2>3, FiniteSets, FS_AddElement
  <2>5. waiters = <<>>
    BY <1>1 DEF SlotsConserved
  <2>6. SlotsConserved'
    BY <2>1, <2>4, <2>5, <1>1 DEF SlotsConserved
  <2>7. WaitersQueued'
    BY <2>1, <2>5 DEF WaitersQueued
  <2>8. Cardinality(Active)' <= MaxConcurrent + QueueCapacity
    BY <2>1, <2>6, <1>1 DEF SlotsConserved
  <2> QED
    BY <2>1, <2>2, <2>6, <2>7, <2>8, <1>1
<1>2. CASE ~(running < MaxConcurrent)
  <2>1. /\ running' = running /\ Len(waiters) < QueueCapacity
        /\ waiters' = Append(waiters, i)
        /\ phase' = [phase EXCEPT ![i] = "queued"]
    BY <1>2 DEF AcquireSlot
  <2>2. Active' = Active \cup {i} /\ Holders' = Holders /\ Retired' = Retired
    BY <2>1 DEF Active, Holders, Retired
  <2>3. Cardinality(Active)' = Cardinality(Active) + 1
    <3>1. i \notin Active
      BY DEF Active
    <3> QED
      BY <3>1, <2>2, FiniteSets, FS_AddElement
  <2>4. /\ waiters' \in Seq(Ids) /\ Len(waiters') = Len(waiters) + 1
        /\ \A k \in 1..Len(waiters) : waiters'[k] = waiters[k]
        /\ waiters'[Len(waiters) + 1] = i
    BY <2>1, AppendProperties
  <2>5. running = MaxConcurrent
    BY <1>2
  <2>6. SlotsConserved'
    BY <2>1, <2>2, <2>3, <2>4, <2>5 DEF SlotsConserved
  <2>7. WaitersQueued'
    <3>1. \A k \in 1..Len(waiters) : phase[waiters[k]] = "queued" /\ waiters[k] # i
      BY DEF WaitersQueued
    <3>2. \A k \in 1..Len(waiters') : k \in 1..Len(waiters) \/ k = Len(waiters) + 1
      BY <2>4
    <3>3. \A k \in 1..Len(waiters') : phase'[waiters'[k]] = "queued"
      BY <2>1, <2>4, <3>1, <3>2
    <3>4. \A j, k \in 1..Len(waiters') : waiters'[j] = waiters'[k] => j = k
      BY <2>4, <3>1, <3>2 DEF WaitersQueued
    <3> QED
      BY <3>3, <3>4 DEF WaitersQueued
  <2>8. Cardinality(Active)' <= MaxConcurrent + QueueCapacity
    BY <2>1, <2>4, <2>6 DEF SlotsConserved
  <2> QED
    BY <2>1, <2>2, <2>4, <2>6, <2>7, <2>8
<1> QED
  BY <1>1, <1>2

\* A request that holds a slot is retired, and its slot passes to the oldest
\* waiter or is given back.
LEMMA RetireKeeps ==
  ASSUME Slots, NEW i \in Ids, phase[i] \in {"granted", "invoking"}, Retire(i)
  PROVE  /\ Slots'
         /\ Retired' = Retired \cup {i} /\ i \notin Retired
         /\ Active' = Active \ {i} /\ i \in Active
         /\ \A k \in Ids \ {i} : phase[k] # "queued" => phase'[k] = phase[k]
         /\ phase'[i] = "done"
<1> USE DEF Slots, SlotTypes, Phases
<1>0. i \in Active /\ i \in Holders /\ i \notin Retired
  BY DEF Active, Holders, Retired
<1>1. CASE waiters = <<>>
  <2>1. /\ running' = running - 1 /\ waiters' = waiters
        /\ phase' = [phase EXCEPT ![i] = "done"]
    BY <1>1 DEF Retire
  <2>2. /\ Active' = Active \ {i} /\ Holders' = Holders \ {i}
        /\ Retired' = Retired \cup {i}
    BY <2>1 DEF Active, Holders, Retired
  <2>3. /\ Cardinality(Active)' = Cardinality(Active) - 1
        /\ Cardinality(Holders)' = Cardinality(Holders) - 1
    BY <2>2, <1>0, FiniteSets, FS_RemoveElement
  <2>4. running > 0
    <3>1. Cardinality(Holders) # 0
      BY <1>0, FiniteSets, FS_EmptySet
    <3> QED
      BY <3>1, FiniteSets DEF SlotsConserved
  <2>5. SlotsConserved'
    BY <2>1, <2>3, <1>1 DEF SlotsConserved
  <2>6. WaitersQueued'
    BY <2>1, <1>1 DEF WaitersQueued
  <2> QED
    BY <2>1, <2>2, <2>4, <2>5, <2>6, <1>0
<1>2. CASE waiters # <<>>
  <2> DEFINE h == Head(waiters)
  <2>1. /\ running' = running /\ waiters' = Tail(waiters)
        /\ phase' = [phase EXCEPT ![i] = "done", ![h] = "granted"]
    BY <1>2 DEF Retire
  <2>2. /\ h \in Ids /\ waiters' \in Seq(Ids) /\ Len(waiters') = Len(waiters) - 1
        /\ \A k \in 1..Len(waiters') : waiters'[k] = waiters[k + 1]
    BY <2>1, <1>2, HeadTailProperties
  <2>3. Len(waiters) > 0 /\ h = waiters[1]
    BY <1>2
  <2>4. phase[h] = "queued" /\ h # i
    BY <2>3 DEF WaitersQueued
  <2>5. /\ phase'[i] = "done" /\ phase'[h] = "granted"
        /\ \A k \in Ids \ {i, h} : phase'[k] = phase[k]
        /\ phase' \in [Ids -> Phases]
    BY <2>1, <2>2, <2>4
  <2> HIDE DEF h
  <2>6. /\ Active' = Active \ {i} /\ Holders' = (Holders \ {i}) \cup {h}
        /\ Retired' = Retired \cup {i} /\ h \notin Holders \ {i}
    BY <2>2, <2>4, <2>5 DEF Active, Holders, Retired
  <2>7. /\ Cardinality(Active)' = Cardinality(Active) - 1
        /\ Cardinality(Holders)' = Cardinality(Holders)
    <3>1. /\ IsFiniteSet(Holders \ {i})
          /\ Cardinality(Holders \ {i}) = Cardinality(Holders) - 1
          /\ Cardinality(Active \ {i}) = Cardinality(Active) - 1
      BY <1>0, FiniteSets, FS_RemoveElement
    <3>2. Cardinality((Holders \ {i}) \cup {h}) = Cardinality(Holders \ {i}) + 1
      BY <3>1, <2>6, FS_AddElement
    <3> QED
      BY <3>1, <3>2, <2>6, FiniteSets
  <2>8. SlotsConserved'
    BY <2>1, <2>2, <2>3, <2>7, FiniteSets, <1>2 DEF SlotsConserved
  <2>9. WaitersQueued'
    <3>1. \A k \in 1..Len(waiters') : k + 1 \in 1..Len(waiters)
      BY <2>2
    <3>2. \A k \in 1..Len(waiters') :
            waiters'[k] \in Ids /\ waiters'[k] # h /\ waiters'[k] # i
      <4> SUFFICES ASSUME NEW k \in 1..Len(waiters')
                   PROVE  waiters'[k] \in Ids /\ waiters'[k] # h /\ waiters'[k] # i
        OBVIOUS
      <4>1. k + 1 \in 1..Len(waiters) /\ 1 \in 1..Len(waiters) /\ k + 1 # 1
        BY <2>2, <2>3, <3>1
      <4>2. waiters'[k] = waiters[k + 1] /\ waiters[k + 1] \in Ids
        BY <2>2, <4>1
      <4>3. phase[waiters[k + 1]] = "queued" /\ waiters[k + 1] # waiters[1]
        BY <4>1 DEF WaitersQueued
      <4> QED
        BY <4>2, <4>3, <2>3
    <3>3. \A k \in 1..Len(waiters') : phase'[waiters'[k]] = "queued"
      BY <2>2, <2>5, <3>1, <3>2 DEF WaitersQueued
    <3>4. \A j, k \in 1..Len(waiters') : waiters'[j] = waiters'[k] => j = k
      <4> SUFFICES ASSUME NEW j \in 1..Len(waiters'), NEW k \in 1..Len(waiters'),
                          waiters'[j] = waiters'[k]
                   PROVE  j = k
        OBVIOUS
      <4>1. j + 1 \in 1..Len(waiters) /\ k + 1 \in 1..Len(waiters)
        BY <3>1
      <4>2. waiters[j + 1] = waiters[k + 1]
        BY <2>2
      <4>3. j + 1 = k + 1
        BY <4>1, <4>2 DEF WaitersQueued
      <4> QED
        BY <4>3, <2>2
    <3> QED
      BY <3>3, <3>4 DEF WaitersQueued
  <2> QED
    BY <2>1, <2>2, <2>4, <2>5, <2>6, <2>8, <2>9, <1>0
<1> QED
  BY <1>1, <1>2

\* Calling the provider keeps the slot.
LEMMA InvokeKeeps ==
  ASSUME Slots, NEW i \in Ids, phase[i] = "granted",
         phase' = [phase EXCEPT ![i] = "invoking"], UNCHANGED <<running, waiters>>
  PROVE  Slots' /\ Active' = Active /\ Retired' = Retired
<1> USE DEF Slots, SlotTypes, Phases
<1>1. Active' = Active /\ Holders' = Holders /\ Retired' = Retired
  BY DEF Active, Holders, Retired
<1>2. SlotsConserved' /\ WaitersQueued'
  BY <1>1 DEF SlotsConserved, WaitersQueued
<1> QED
  BY <1>1, <1>2
-----------------------------------------------------------------------------
LEMMA InitIInv == Init => IInv
<1> SUFFICES ASSUME Init PROVE IInv
  OBVIOUS
<1>1. Active = {} /\ Holders = {} /\ Retired = {}
  BY DEF Init, Active, Holders, Retired
<1>2. Cardinality(Active) = 0 /\ Cardinality(Holders) = 0 /\ Cardinality(Retired) = 0
  BY <1>1, FS_EmptySet
<1>3. SlotTypes /\ WaitersQueued
  BY DEF Init, SlotTypes, WaitersQueued, Phases
<1>4. SlotsConserved
  BY <1>2 DEF Init, SlotsConserved
<1>5. TypeOK
  <2>1. {accepting, attempted, session, stopping} \subseteq BOOLEAN
    BY Zenon DEF Init
  <2> QED
    BY <2>1, <1>3 DEF Init, TypeOK, SlotTypes
<1>6. RoomToRetire
  BY <1>2 DEF RoomToRetire
<1>7. InvokedOnce /\ StopReachedAll
  BY <1>1 DEF Init, InvokedOnce, StopReachedAll
<1> QED
  BY <1>3, <1>4, <1>5, <1>6, <1>7 DEF IInv, Slots

\* What every step keeps of the control side and of the flags.
LEMMA FlagsTyped ==
  ASSUME TypeOK, Next
  PROVE  /\ {accepting, attempted, session, stopping}' \subseteq BOOLEAN
         /\ controlInFlight' \in Nat
         /\ controlInFlight' <= ControlCapacity \/ controlInFlight' <= FirstControlCapacity
         /\ cancelled' \subseteq Ids /\ invoked' \subseteq Ids
<1>1. accepting \in BOOLEAN /\ attempted \in BOOLEAN /\ session \in BOOLEAN
      /\ stopping \in BOOLEAN
  BY Zenon DEF TypeOK
<1>2. accepting' \in BOOLEAN /\ attempted' \in BOOLEAN /\ session' \in BOOLEAN
      /\ stopping' \in BOOLEAN
  BY <1>1, Zenon DEF Next, Breach, Admit, AnswerCancelled, InvalidPayload, Invoke,
    InvocationSettles, TimerFires, Cancel, ControlArrives, ControlAnswered, Handshake,
    Shutdown, Stop, CloseAdmission, control
<1>3. {accepting, attempted, session, stopping}' \subseteq BOOLEAN
  BY <1>2, Zenon
<1>4. /\ controlInFlight' \in Nat
      /\ controlInFlight' <= ControlCapacity \/ controlInFlight' <= FirstControlCapacity
  <2>1. /\ controlInFlight \in Nat
        /\ controlInFlight <= ControlCapacity \/ controlInFlight <= FirstControlCapacity
    BY DEF TypeOK
  <2>2. CASE controlInFlight' = controlInFlight
    BY <2>1, <2>2
  <2>3. CASE ControlLeaves
    BY <2>1, <2>3 DEF ControlLeaves
  <2>4. CASE ControlArrives
    BY <2>1, <2>4 DEF ControlArrives, ControlFull, ControlBound
  <2>5. controlInFlight' = controlInFlight \/ ControlLeaves \/ ControlArrives
    BY DEF Next, Breach, Admit, AnswerCancelled, InvalidPayload, Invoke,
      InvocationSettles, TimerFires, Cancel, ControlAnswered, Handshake,
      Shutdown, Stop, control
  <2> QED
    BY <2>2, <2>3, <2>4, <2>5
<1>5. cancelled' \subseteq Ids /\ invoked' \subseteq Ids
  BY DEF TypeOK, Next, Breach, Admit, AnswerCancelled, InvalidPayload, Invoke,
    InvocationSettles, TimerFires, Cancel, ControlArrives, ControlAnswered, Handshake,
    Shutdown, Stop, CloseAdmission, CancelActive, Active, control
<1> QED
  BY <1>3, <1>4, <1>5, Zenon

\* A step that moves no request, withdraws no cancellation and opens nothing.
LEMMA QuietKeeps ==
  ASSUME IInv, UNCHANGED <<running, waiters, phase, invoked, stopping>>,
         cancelled \subseteq cancelled', accepting' => accepting
  PROVE  Slots' /\ RoomToRetire' /\ InvokedOnce' /\ StopReachedAll'
<1>1. Active' = Active /\ Holders' = Holders /\ Retired' = Retired
  BY DEF Active, Holders, Retired
<1>2. Slots' /\ RoomToRetire'
  BY <1>1 DEF IInv, Slots, SlotTypes, SlotsConserved, WaitersQueued, RoomToRetire
<1>3. InvokedOnce'
  BY DEF IInv, InvokedOnce
<1>4. StopReachedAll'
  <2>1. (stopping => ~accepting) /\ (stopping => Active \subseteq cancelled)
    BY Zenon DEF IInv, StopReachedAll
  <2>2. (stopping => ~accepting)' /\ (stopping => Active \subseteq cancelled)'
    BY <1>1, <2>1, Zenon
  <2> QED
    BY <2>2, Zenon DEF StopReachedAll
<1> QED
  BY <1>2, <1>3, <1>4

\* A retirement changes nothing else that matters.
LEMMA RetirementKeeps ==
  ASSUME IInv, NEW i \in Ids, phase[i] \in {"granted", "invoking"}, Retire(i),
         UNCHANGED <<cancelled, invoked, stopping>>, accepting' => accepting
  PROVE  Slots' /\ RoomToRetire' /\ InvokedOnce' /\ StopReachedAll'
<1>1. /\ Slots' /\ Retired' = Retired \cup {i} /\ i \notin Retired
      /\ Active' = Active \ {i} /\ i \in Active
      /\ \A k \in Ids \ {i} : phase[k] # "queued" => phase'[k] = phase[k]
      /\ phase'[i] = "done"
  BY RetireKeeps DEF IInv
<1>2. RoomToRetire'
  <2>1. Cardinality(Retired)' = Cardinality(Retired) + 1
        /\ Cardinality(Active)' = Cardinality(Active) - 1
    BY <1>1, FiniteSets, FS_AddElement, FS_RemoveElement
  <2> QED
    BY <2>1, FiniteSets DEF IInv, RoomToRetire
<1>3. InvokedOnce'
  BY <1>1 DEF IInv, InvokedOnce, TypeOK
<1>4. StopReachedAll'
  <2>1. (stopping => ~accepting) /\ (stopping => Active \subseteq cancelled)
    BY Zenon DEF IInv, StopReachedAll
  <2>2. (stopping => ~accepting)' /\ (stopping => Active \subseteq cancelled)'
    BY <1>1, <2>1, Zenon
  <2> QED
    BY <2>2, Zenon DEF StopReachedAll
<1> QED
  BY <1>1, <1>2, <1>3, <1>4

LEMMA NextIInv == IInv /\ [Next]_vars => IInv'
<1> SUFFICES ASSUME IInv, [Next]_vars PROVE IInv'
  OBVIOUS
<1> DEFINE Rest == Slots' /\ RoomToRetire' /\ InvokedOnce' /\ StopReachedAll'
<1>1. ASSUME NEW i \in Ids, Breach(i) PROVE Rest
  BY <1>1, QuietKeeps DEF Breach
<1>2. ASSUME NEW i \in Ids, Admit(i) PROVE Rest
  <2>1. phase[i] = "new" /\ Slots
    BY <1>2 DEF Admit, Duplicate, Active, Retired, IInv, Slots, SlotTypes, Phases
  <2>2. /\ Slots' /\ Retired' = Retired /\ Active' = Active \cup {i}
        /\ Cardinality(Active)' <= MaxConcurrent + QueueCapacity
    BY <1>2, <2>1, AcquireKeeps DEF Admit
  <2>3. RoomToRetire'
    <3>1. Cardinality(Retired)' < MaxRetired
      BY <1>2, <2>2, FiniteSets DEF Admit, RetiredFull
    <3>2. Cardinality(Active)' \in Nat /\ Cardinality(Retired)' \in Nat
      <4>1. Cardinality(Active \cup {i}) \in Nat
        BY FiniteSets, FS_AddElement, FS_CardinalityType
      <4> QED
        BY <4>1, <2>2, FiniteSets
    <3> QED
      BY <3>1, <3>2, <2>2 DEF RoomToRetire
  <2>4. InvokedOnce'
    <3>1. \A k \in Ids \ {i} : phase'[k] = phase[k]
      BY <1>2, <2>1 DEF Admit, AcquireSlot, Slots, SlotTypes
    <3>2. i \notin invoked /\ invoked' = invoked /\ invoked \subseteq Ids
      BY <1>2, <2>1 DEF Admit, IInv, InvokedOnce, TypeOK
    <3> QED
      BY <3>1, <3>2 DEF IInv, InvokedOnce
  <2>5. StopReachedAll'
    <3>1. accepting /\ stopping' = stopping
      BY <1>2 DEF Admit, Serving
    <3>2. ~stopping
      BY <3>1, Zenon DEF IInv, StopReachedAll
    <3> QED
      BY <3>1, <3>2, Zenon DEF StopReachedAll
  <2> QED
    BY <2>2, <2>3, <2>4, <2>5
<1>3. ASSUME NEW i \in Ids, AnswerCancelled(i) PROVE Rest
  BY <1>3, RetirementKeeps DEF AnswerCancelled
<1>4. ASSUME NEW i \in Ids, InvalidPayload(i) PROVE Rest
  BY <1>4, RetirementKeeps DEF InvalidPayload
<1>5. ASSUME NEW i \in Ids, Invoke(i) PROVE Rest
  <2>1. Slots' /\ Active' = Active /\ Retired' = Retired
    BY <1>5, InvokeKeeps DEF Invoke, MayInvoke, IInv
  <2>2. RoomToRetire'
    BY <2>1 DEF IInv, RoomToRetire
  <2>3. InvokedOnce'
    BY <1>5 DEF Invoke, IInv, InvokedOnce, TypeOK
  <2>4. StopReachedAll'
    <3>1. (stopping => ~accepting) /\ (stopping => Active \subseteq cancelled)
      BY Zenon DEF IInv, StopReachedAll
    <3>2. UNCHANGED <<stopping, accepting, cancelled>>
      BY <1>5 DEF Invoke
    <3> QED
      BY <2>1, <3>1, <3>2, Zenon DEF StopReachedAll
  <2> QED
    BY <2>1, <2>2, <2>3, <2>4
<1>6. ASSUME NEW i \in Ids, InvocationSettles(i) PROVE Rest
  <2>1. accepting' => accepting
    BY <1>6, Zenon DEF InvocationSettles
  <2> QED
    BY <1>6, <2>1, RetirementKeeps DEF InvocationSettles
<1>7. ASSUME NEW i \in Ids, TimerFires(i) PROVE Rest
  BY <1>7, QuietKeeps DEF TimerFires
<1>8. ASSUME NEW i \in Ids, Cancel(i) PROVE Rest
  BY <1>8, QuietKeeps DEF Cancel
<1>9. ASSUME ControlArrives \/ ControlAnswered \/ Handshake PROVE Rest
  BY <1>9, QuietKeeps DEF ControlArrives, ControlAnswered, Handshake
<1>10. ASSUME CloseAdmission PROVE Rest
  <2>1. Active' = Active /\ Holders' = Holders /\ Retired' = Retired
    BY <1>10 DEF CloseAdmission, Active, Holders, Retired
  <2>2. Slots' /\ RoomToRetire'
    BY <1>10, <2>1 DEF CloseAdmission, IInv, Slots, SlotTypes, SlotsConserved,
      WaitersQueued, RoomToRetire
  <2>3. InvokedOnce'
    BY <1>10 DEF CloseAdmission, IInv, InvokedOnce
  <2>4. StopReachedAll'
    BY <1>10, <2>1, Zenon DEF CloseAdmission, CancelActive, StopReachedAll
  <2> QED
    BY <2>2, <2>3, <2>4
<1>11. ASSUME UNCHANGED vars PROVE Rest
  BY <1>11, QuietKeeps DEF vars
<1>12. Rest
  BY <1>1, <1>2, <1>3, <1>4, <1>5, <1>6, <1>7, <1>8, <1>9, <1>10, <1>11
  DEF Next, Shutdown, Stop
<1>13. TypeOK'
  <2>1. CASE Next
    BY <2>1, <1>12, FlagsTyped DEF IInv, TypeOK, Slots, SlotTypes
  <2>2. CASE UNCHANGED vars
    BY <2>2 DEF vars, IInv, TypeOK
  <2> QED
    BY <2>1, <2>2
<1> QED
  BY <1>12, <1>13 DEF IInv

\* The invariant of the proofs holds in every reachable state.
THEOREM Invariance == Spec => []IInv
<1>1. Init => IInv
  BY InitIInv
<1>2. IInv /\ [Next]_vars => IInv'
  BY NextIInv
<1> QED
  BY <1>1, <1>2, PTL DEF Spec

\* Type correctness of the child: process-v1.ts, all handlers.
THEOREM TypeCorrect == Spec => []TypeOK
<1>1. IInv => TypeOK
  BY DEF IInv
<1> QED
  BY <1>1, Invariance, PTL

\* The slot counter, the queue and the active map agree, so that the `false`
\* of acquireDataSlot is never returned.
THEOREM SlotAccounting == Spec => []SlotsConserved
<1>1. IInv => SlotsConserved
  BY DEF IInv, Slots
<1> QED
  BY <1>1, Invariance, PTL

\* No correlation id is served twice.
THEOREM AtMostOnce == Spec => []InvokedOnce
<1>1. IInv => InvokedOnce
  BY DEF IInv
<1> QED
  BY <1>1, Invariance, PTL

\* The set of retired ids is bounded, by more than its limit.
THEOREM RetiredIds == Spec => []RetiredBounded
<1>1. IInv => RetiredBounded
  BY FiniteSets DEF IInv, RoomToRetire, RetiredBounded
<1> QED
  BY <1>1, Invariance, PTL

\* No provider is called once the child was told to stop.
THEOREM StopIsFinal == Spec => NothingStartsAfterStop
<1>1. IInv /\ [Next]_vars => [stopping => invoked' = invoked]_vars
  <2> SUFFICES ASSUME IInv, [Next]_vars, stopping PROVE invoked' = invoked
    OBVIOUS
  <2>1. Active \subseteq cancelled
    BY DEF IInv, StopReachedAll
  <2>2. ASSUME NEW i \in Ids, Invoke(i) PROVE FALSE
    BY <2>1, <2>2 DEF Invoke, MayInvoke, Active
  <2> QED
    BY <2>2 DEF Next, Breach, Admit, AnswerCancelled, InvalidPayload, InvocationSettles,
      TimerFires, Cancel, ControlArrives, ControlAnswered, Handshake, Shutdown, Stop,
      CloseAdmission, vars
<1> QED
  BY <1>1, Invariance, PTL DEF Spec, NothingStartsAfterStop

\* The child implements the window of calls the host relies on: at most
\* MaxConcurrent providers run, none twice, and none once it is stopping.
THEOREM Refinement == Spec => ImplementsWindow
<1> DEFINE st == [i \in Ids |-> IF phase[i] \in {"queued", "granted"} THEN "waiting"
                                ELSE IF phase[i] = "invoking" THEN "running"
                                ELSE phase[i]]
<1>1. Init => Window!Init
  BY DEF Init, Window!Init
<1>2. IInv /\ [Next]_vars => [Window!Next]_(Window!vars)
  <2> SUFFICES ASSUME IInv, [Next]_vars PROVE Window!Next \/ UNCHANGED Window!vars
    OBVIOUS
  <2>0. Slots /\ SlotTypes /\ phase' \in [Ids -> Phases]
    BY NextIInv DEF IInv, Slots, SlotTypes
  <2>a. \A S : Window!Cardinality(S) = Cardinality(S)
    BY Zenon DEF Window!Cardinality, Cardinality
  <2>1. /\ Window!Running = {i \in Ids : phase[i] = "invoking"}
        /\ Window!Waiting \cup Window!Running = Active
    BY <2>0 DEF SlotTypes, Phases, Window!Running, Window!Waiting, Active
  <2>2. ASSUME UNCHANGED phase, UNCHANGED stopping PROVE UNCHANGED Window!vars
    BY <2>2 DEF Window!vars
  <2>3. ASSUME CloseAdmission PROVE Window!Shut
    BY <2>3 DEF CloseAdmission, Window!Shut
  <2>4. ASSUME NEW i \in Ids, Admit(i) PROVE Window!Take(i)
    <3>1. phase[i] = "new" /\ ~stopping
      <4>1. phase[i] = "new"
        BY <2>0, <2>4 DEF Admit, Duplicate, Active, Retired, SlotTypes, Phases
      <4>2. accepting
        BY <2>4 DEF Admit, Serving
      <4>3. ~stopping
        BY <4>2, Zenon DEF IInv, StopReachedAll
      <4> QED
        BY <4>1, <4>3
    <3>2. Cardinality(Active) < MaxConcurrent + QueueCapacity
      <4>1. i \notin Active
        BY <3>1 DEF Active
      <4>2. Cardinality(Active \cup {i}) = Cardinality(Active) + 1
        BY <4>1, FiniteSets, FS_AddElement
      <4>3. Active' = Active \cup {i} /\ Cardinality(Active)' <= MaxConcurrent + QueueCapacity
        BY <2>0, <2>4, <3>1, AcquireKeeps DEF Admit
      <4> QED
        BY <4>2, <4>3, FiniteSets
    <3>3. \E p \in {"granted", "queued"} : phase' = [phase EXCEPT ![i] = p]
      BY <2>4 DEF Admit, AcquireSlot
    <3>4. st' = [st EXCEPT ![i] = "waiting"]
      BY <2>0, <3>3 DEF SlotTypes
    <3>5. UNCHANGED stopping
      BY <2>4 DEF Admit
    <3> QED
      BY <2>a, <2>1, <3>1, <3>2, <3>4, <3>5 DEF Window!Take
  <2>5. ASSUME NEW i \in Ids, Invoke(i) PROVE Window!Begin(i)
    <3>1. phase[i] = "granted" /\ phase' = [phase EXCEPT ![i] = "invoking"]
          /\ UNCHANGED stopping /\ i \notin cancelled
      BY <2>5 DEF Invoke, MayInvoke
    <3>2. ~stopping
      <4>1. i \in Active
        BY <3>1 DEF Active
      <4> QED
        BY <3>1, <4>1, Zenon DEF IInv, StopReachedAll
    <3>3. Cardinality(Window!Running) < MaxConcurrent
      <4>1. Window!Running \subseteq Holders \ {i}
        BY <2>1, <3>1 DEF Holders
      <4>2. i \in Holders
        BY <3>1 DEF Holders
      <4>3. /\ IsFiniteSet(Holders \ {i})
            /\ Cardinality(Holders \ {i}) = Cardinality(Holders) - 1
        BY <4>2, FiniteSets, FS_RemoveElement
      <4>4. Cardinality(Window!Running) <= Cardinality(Holders \ {i})
            /\ Cardinality(Window!Running) \in Nat
        BY <4>1, <4>3, FS_Subset, FS_CardinalityType
      <4>5. Cardinality(Holders) \in 0..MaxConcurrent
        BY <2>0 DEF SlotTypes, Slots, SlotsConserved
      <4> QED
        BY <4>3, <4>4, <4>5
    <3>4. st' = [st EXCEPT ![i] = "running"]
      BY <2>0, <3>1 DEF SlotTypes
    <3> QED
      BY <2>a, <3>1, <3>2, <3>3, <3>4 DEF Window!Begin
  <2>6. ASSUME NEW i \in Ids, phase[i] \in {"granted", "invoking"}, Retire(i), UNCHANGED stopping
        PROVE  Window!End(i)
    <3>1. \/ phase' = [phase EXCEPT ![i] = "done"]
          \/ /\ waiters # <<>>
             /\ phase' = [phase EXCEPT ![i] = "done", ![Head(waiters)] = "granted"]
      BY <2>6 DEF Retire
    <3>2. waiters # <<>> => Head(waiters) \in Ids /\ phase[Head(waiters)] = "queued"
      <4> SUFFICES ASSUME waiters # <<>>
                   PROVE  Head(waiters) \in Ids /\ phase[Head(waiters)] = "queued"
        OBVIOUS
      <4>1. Head(waiters) = waiters[1] /\ 1 \in 1..Len(waiters)
        BY <2>0 DEF SlotTypes
      <4> QED
        BY <4>1, <2>0, HeadTailProperties DEF SlotTypes, Slots, WaitersQueued
    <3>3. st' = [st EXCEPT ![i] = "done"]
      BY <2>0, <2>6, <3>1, <3>2 DEF SlotTypes
    <3>4. st[i] \in {"waiting", "running"}
      BY <2>6
    <3> QED
      BY <2>6, <3>3, <3>4 DEF Window!End
  <2>7. CASE UNCHANGED vars
    BY <2>2, <2>7 DEF vars
  <2>8. CASE Next
    BY <2>2, <2>3, <2>4, <2>5, <2>6, <2>8 DEF Next, Window!Next, Breach, AnswerCancelled,
      InvalidPayload, InvocationSettles, TimerFires, Cancel, ControlArrives,
      ControlAnswered, Handshake, Shutdown, Stop
  <2> QED
    BY <2>7, <2>8
<1> QED
  BY <1>1, <1>2, Invariance, PTL DEF Spec, ImplementsWindow, Window!Spec

\* The accounting of the child is consistent in every state.
THEOREM SafetyHolds == Spec => []Safety
  BY TypeCorrect, SlotAccounting, AtMostOnce, RetiredIds, PTL DEF Safety
=============================================================================
