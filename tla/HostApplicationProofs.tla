----------------------- MODULE HostApplicationProofs -----------------------
(***************************************************************************)
(* Proofs about HostApplication, for any number of inspections.            *)
(***************************************************************************)
EXTENDS HostApplication, FiniteSetTheorems, TLAPS

\* Who waits for an answer is in the map, so failAll() reaches it.
WaitersMapped == \A q \in Requests : request[q] = "waiting" => q \in pending

\* The listeners are notified of an outcome, and whoever reports the end of the
\* application was; a launch that was rejected had an outcome too.
EndsAgree ==
  /\ notified => Terminal
  /\ closed \/ stopCall = "done" => notified
  /\ owned = "rejected" => Terminal
  /\ app = "launching" =>
       pending = {} /\ \A i \in Inspections : request[i] = "idle"

IInv == /\ TypeOK
        /\ WaitersMapped
        /\ EndsAgree
        /\ NobodyLeftWaiting
        /\ NoneUnattended

USE InspectionsAssumption, RevisionsAssumption, OutstandingAssumption

\* The map has room for everyone but a stop.
Room(P) == Cardinality(P \ {"stop"}) <= MaxOutstanding

LEMMA RequestsFinite == IsFiniteSet(Requests)
<1>1. IsFiniteSet(Inspections \cup {"start"})
  BY FS_AddElement
<1>2. Requests = (Inspections \cup {"start"}) \cup {"stop"}
  BY DEF Requests
<1> QED
  BY <1>1, <1>2, FS_AddElement

\* A subset needs no more room.
LEMMA RoomSubset ==
  ASSUME NEW P \in SUBSET Requests, NEW Q \in SUBSET P, Room(P)
  PROVE  Room(Q)
<1>1. IsFiniteSet(P \ {"stop"}) /\ Q \ {"stop"} \subseteq P \ {"stop"}
  BY RequestsFinite, FS_Subset
<1>2. /\ Cardinality(Q \ {"stop"}) <= Cardinality(P \ {"stop"})
      /\ Cardinality(Q \ {"stop"}) \in Nat /\ Cardinality(P \ {"stop"}) \in Nat
  BY <1>1, FS_Subset, FS_CardinalityType
<1> QED
  BY <1>2 DEF Room

\* One more than fewer than MaxOutstanding fit.
LEMMA RoomForOne ==
  ASSUME NEW P \in SUBSET Requests, NEW q, Cardinality(P) < MaxOutstanding
  PROVE  Room(P \cup {q})
<1>1. IsFiniteSet(P) /\ Cardinality(P) \in Nat
  BY RequestsFinite, FS_Subset, FS_CardinalityType
<1>2. /\ IsFiniteSet(P \cup {q})
      /\ Cardinality(P \cup {q}) = IF q \in P THEN Cardinality(P) ELSE Cardinality(P) + 1
  BY <1>1, FS_AddElement
<1>3. Cardinality(P \cup {q}) <= MaxOutstanding
  BY <1>1, <1>2
<1>4. Cardinality((P \cup {q}) \ {"stop"}) <= Cardinality(P \cup {q})
  BY <1>2, FS_Subset
<1>5. Cardinality((P \cup {q}) \ {"stop"}) \in Nat /\ Cardinality(P \cup {q}) \in Nat
  BY <1>2, FS_Subset, FS_CardinalityType
<1> QED
  BY <1>3, <1>4, <1>5 DEF Room

\* The stop takes no room.
LEMMA RoomForStop ==
  ASSUME NEW P, Room(P) PROVE Room(P \cup {"stop"})
<1>1. (P \cup {"stop"}) \ {"stop"} = P \ {"stop"}
  OBVIOUS
<1> QED
  BY <1>1 DEF Room
------------------------------------------------------------------------------
\* What the pieces of the steps keep: a request that is added or failed, and an
\* outcome or a stop that never goes back.
Promises == [Requests ->
               {"idle", "waiting", "answered", "rejected", "complete"}]
Mapped == pending \subseteq Requests /\ request \in Promises /\ WaitersMapped

LEMMA AskKeeps ==
  ASSUME Mapped, NEW q \in Requests, Ask(q)
  PROVE  /\ Mapped'
         /\ Terminal =>
              \A r \in Requests : request'[r] = "waiting" => request[r] = "waiting"
BY DEF Ask, Mapped, WaitersMapped, Promises, Sendable

LEMMA FailAllKeeps ==
  ASSUME Mapped, FailAll
  PROVE  /\ Mapped' /\ pending' = {}
         /\ \A r \in Requests : request'[r] # "waiting"
         /\ \A r \in Requests : request[r] = "idle" => request'[r] = "idle"
BY DEF FailAll, Mapped, WaitersMapped, Promises

LEMMA StopProcessKeeps ==
  ASSUME ProcessTypeOK, owned = "rejected" => Terminal, StopProcess
  PROVE  /\ ProcessTypeOK' /\ (owned = "rejected" => Terminal)'
         /\ stopping' \/ Terminal'
         /\ Terminal' <=> Terminal
         /\ stopping => stopping'
<1> USE DEF ProcessTypeOK, StopProcess, EndPipe, Sendable, Terminal
<1>1. /\ timer' \in {"startup", "cleanup", "none"}
      /\ owned' = owned /\ ownership' = ownership /\ breached' = breached
  BY DEF StopProcess
<1>2. {stopping', breached'} \subseteq BOOLEAN
  BY Zenon
<1>3. (stopping' \/ Terminal') /\ (stopping => stopping')
  BY <1>1
<1> QED
  BY <1>1, <1>2, <1>3
------------------------------------------------------------------------------
LEMMA InitIInv == Init => IInv
<1> SUFFICES ASSUME Init PROVE IInv
  OBVIOUS
<1> USE DEF Init, ProcessInit
<1>1. {stopping, breached, listening, notified, startTimer, closed} \subseteq BOOLEAN
  BY Zenon
<1>2. Cardinality(pending \ {"stop"}) <= MaxOutstanding
  <2>1. pending \ {"stop"} = {}
    OBVIOUS
  <2> QED
    BY <2>1, FS_EmptySet
<1>3. TypeOK
  BY <1>1, <1>2 DEF TypeOK, ProcessTypeOK
<1>4. WaitersMapped /\ EndsAgree /\ NobodyLeftWaiting /\ NoneUnattended
  BY DEF WaitersMapped, EndsAgree, NobodyLeftWaiting, NoneUnattended, Requests
<1> QED
  BY <1>3, <1>4 DEF IInv

\* The steps of the process alone.
LEMMA ProcessPreserves == IInv /\ ProcessStep => IInv'
<1> SUFFICES ASSUME IInv, ProcessStep PROVE IInv'
  OBVIOUS
<1> USE DEF IInv, TypeOK, ProcessTypeOK
<1>1. UNCHANGED appVars
  BY DEF ProcessStep
<1>2. /\ ProcessTypeOK'
      /\ Terminal => Terminal'
      /\ stopping => stopping' 
      /\ owned' = "rejected" => Terminal'
  <2> USE DEF Terminal, Finish, EndPipe, Sendable, EndsAgree
  <2>1. CASE OwnedFrame
    BY <2>1 DEF OwnedFrame, Reading
  <2>2. CASE TerminalFrame
    BY <2>2 DEF TerminalFrame
  <2>3. CASE OwnerGone \/ CleanupTimeout
    BY <2>3 DEF OwnerGone, CleanupTimeout
  <2>4. CASE TransportFails \/ StartupTimeout
    BY <2>4, StopProcessKeeps DEF TransportFails, StartupTimeout
  <2>5. CASE BadFrame
    <3>1. /\ breached' = TRUE /\ owned' = owned /\ ownership' = ownership
          /\ timer' \in {"startup", "cleanup", "none"}
      BY <2>5 DEF BadFrame
    <3>2. {stopping', breached'} \subseteq BOOLEAN
      BY <2>5, Zenon DEF BadFrame
    <3>3. stopping => stopping'
      BY <2>5 DEF BadFrame
    <3> QED
      BY <3>1, <3>2, <3>3
  <2> QED
    BY <2>1, <2>2, <2>3, <2>4, <2>5 DEF ProcessStep, ProcessNext
<1>3. TypeOK'
  BY <1>1, <1>2 DEF appVars, Requests
<1>4. WaitersMapped' /\ NobodyLeftWaiting'
  BY <1>1 DEF appVars, WaitersMapped, NobodyLeftWaiting
<1>5. EndsAgree' /\ NoneUnattended'
  BY <1>1, <1>2 DEF appVars, EndsAgree, NoneUnattended
<1> QED
  BY <1>3, <1>4, <1>5

\* The start: launch, timeout, and both ends.
LEMMA StartPreserves ==
  IInv /\ (Launched \/ LaunchFails \/ StartTimeout \/ StartResolves \/ StartFails)
    => IInv'
<1> USE DEF IInv, TypeOK, EndsAgree, NobodyLeftWaiting, NoneUnattended, Mapped,
            Promises
<1>1. ASSUME IInv, Launched PROVE IInv'
  <2>1. Mapped'
    BY <1>1, AskKeeps DEF Launched, Requests
  <2>2. Room(pending')
    <3>1. pending' = {"start"}
      BY <1>1 DEF Launched, Ask
    <3>2. Cardinality({"start"} \ {"stop"}) = 1
      <4>1. {"start"} \ {"stop"} = {"start"}
        OBVIOUS
      <4> QED
        BY <4>1, FS_Singleton
    <3> QED
      BY <3>1, <3>2 DEF Room
  <2>3. {startTimer', listening', notified', closed', stopping', breached'} \subseteq BOOLEAN
    BY <1>1, Zenon DEF Launched, processVars, ProcessTypeOK, Sendable
  <2>4. TypeOK'
    BY <1>1, <2>1, <2>2, <2>3 DEF Launched, processVars, ProcessTypeOK, Room
  <2>5. ~Sendable => stopping \/ Terminal
    BY DEF Sendable
  <2> QED
    BY <1>1, <2>1, <2>4, <2>5 DEF Launched, processVars, Terminal, Sendable, Ask
<1>2. ASSUME IInv, LaunchFails PROVE IInv'
  BY <1>2 DEF LaunchFails, processVars, listenVars, ProcessTypeOK, Terminal,
              WaitersMapped
<1>3. ASSUME IInv, StartTimeout PROVE IInv'
  <2>1. Mapped' /\ \A r \in Requests : request'[r] # "waiting"
    BY <1>3, FailAllKeeps DEF StartTimeout
  <2>2. Room(pending')
    BY <1>3, RoomSubset DEF StartTimeout, FailAll, Room
  <2>3. startTimer' = FALSE /\ pending' = {} /\ UNCHANGED processVars
    BY <1>3 DEF StartTimeout, FailAll
  <2>4. {startTimer', listening', notified', closed', stopping', breached'} \subseteq BOOLEAN
    BY <1>3, Zenon DEF StartTimeout, processVars, listenVars, ProcessTypeOK
  <2>6. TypeOK'
    BY <1>3, <2>1, <2>2, <2>3, <2>4 DEF StartTimeout, processVars, listenVars,
         ProcessTypeOK, Room
  <2>5. (\A i \in Inspections : request[i] = "idle")
          => \A i \in Inspections : request'[i] = "idle"
    BY <1>3 DEF StartTimeout, FailAll, Requests
  <2> QED
    BY <1>3, <2>1, <2>3, <2>5, <2>6 DEF StartTimeout, processVars, listenVars,
         Terminal
<1>4. ASSUME IInv, StartResolves PROVE IInv'
  <2>1. ProcessTypeOK' /\ (owned = "rejected" => Terminal)'
        /\ (Terminal' <=> Terminal) /\ (stopping => stopping')
        /\ (app' \in {"failing", "failed"} => stopping' \/ Terminal')
    <3>1. CASE app' = "started" /\ UNCHANGED processVars
      BY <1>4, <3>1 DEF processVars, ProcessTypeOK, Terminal
    <3>2. CASE app' = "failing" /\ StopProcess
      BY <1>4, <3>2, StopProcessKeeps
    <3> QED
      BY <1>4, <3>1, <3>2 DEF StartResolves, GiveUp
  <2>2. app' \in {"started", "failing"}
    BY <1>4 DEF StartResolves, GiveUp
  <2> QED
    BY <1>4, <2>1, <2>2 DEF StartResolves, listenVars, WaitersMapped
<1>5. ASSUME IInv, StartFails PROVE IInv'
  BY <1>5 DEF StartFails, processVars, listenVars, ProcessTypeOK, Terminal,
              WaitersMapped
<1> QED
  BY <1>1, <1>2, <1>3, <1>4, <1>5

\* Messages, and the last one that the process itself makes.
LEMMA MessagesPreserve ==
  IInv /\ (Ready \/ (\E q \in Requests : Answer(q))
           \/ ApplicationTerminal \/ BadEnvelope \/ ProcessClosed)
    => IInv'
<1> USE DEF IInv, TypeOK, EndsAgree, NobodyLeftWaiting, NoneUnattended, Mapped,
            Promises, processVars, listenVars, lifeVars, ProcessTypeOK, Terminal
<1>1. ASSUME IInv, Ready \/ ApplicationTerminal PROVE IInv'
  BY <1>1 DEF Ready, ApplicationTerminal, WaitersMapped
<1>2. ASSUME IInv, NEW q \in Requests, Answer(q) PROVE IInv'
  <2>1. Room(pending')
    BY <1>2, RoomSubset DEF Answer, Room
  <2>2. started' \in Revisions \cup {"none"}
    BY <1>2 DEF Answer
  <2> QED
    BY <1>2, <2>1, <2>2 DEF Answer, WaitersMapped, Room
<1>3. ASSUME IInv, BadEnvelope PROVE IInv'
  <2>1. /\ Mapped' /\ pending' = {}
        /\ \A r \in Requests : request'[r] # "waiting"
        /\ \A r \in Requests : request[r] = "idle" => request'[r] = "idle"
    BY <1>3, FailAllKeeps DEF BadEnvelope
  <2>2. Room(pending')
    BY <1>3, RoomSubset DEF BadEnvelope, FailAll, Room
  <2>3. app' = "launching" => \A i \in Inspections : request'[i] = "idle"
    BY <1>3, <2>1 DEF BadEnvelope, Requests
  <2> QED
    BY <1>3, <2>1, <2>2, <2>3 DEF BadEnvelope, Room
<1>4. ASSUME IInv, ProcessClosed PROVE IInv'
  BY <1>4 DEF ProcessClosed, ReceiptAtClose, WaitersMapped
<1> QED
  BY <1>1, <1>2, <1>3, <1>4

\* Asking for a page keeps the map within its bound.
LEMMA AskPageKeeps ==
  ASSUME Mapped, Room(pending), NEW i \in Requests, AskPage(i)
  PROVE  /\ Mapped' /\ Room(pending')
         /\ Terminal =>
              \A r \in Requests : request'[r] = "waiting" => request[r] = "waiting"
         /\ pending' \subseteq pending \cup {i}
<1>1. CASE Cardinality(pending) < MaxOutstanding
  <2>1. Ask(i)
    BY <1>1 DEF AskPage
  <2>2. pending' = pending \cup {i}
    BY <2>1 DEF Ask
  <2>3. Room(pending')
    BY <1>1, <2>2, RoomForOne DEF Mapped
  <2> QED
    BY <2>1, <2>2, <2>3, AskKeeps
<1>2. CASE ~(Cardinality(pending) < MaxOutstanding)
  BY <1>2 DEF AskPage, Mapped, WaitersMapped, Promises
<1> QED
  BY <1>1, <1>2

\* The handle: inspections, stop and close.
LEMMA HandlePreserves ==
  IInv /\ ((\E i \in Inspections : Inspect(i) \/ PageArrives(i))
           \/ Stop \/ StopProceeds \/ StopReturns \/ Close)
    => IInv'
<1> USE DEF IInv, TypeOK, EndsAgree, NobodyLeftWaiting, NoneUnattended, Mapped,
            Promises, listenVars, lifeVars
<1>1. ASSUME IInv, NEW i \in Inspections, Inspect(i) PROVE IInv'
  <2>1. /\ Mapped' /\ Room(pending')
        /\ Terminal =>
             \A r \in Requests : request'[r] = "waiting" => request[r] = "waiting"
    BY <1>1, AskPageKeeps DEF Inspect, Requests, Room
  <2> QED
    BY <1>1, <2>1 DEF Inspect, processVars, ProcessTypeOK, Terminal, Room
<1>2. ASSUME IInv, NEW i \in Inspections, PageArrives(i) PROVE IInv'
  <2>1. /\ Mapped' /\ Room(pending')
        /\ Terminal =>
             \A r \in Requests : request'[r] = "waiting" => request[r] = "waiting"
    <3>1. CASE AskPage(i)
      BY <1>2, <3>1, AskPageKeeps DEF Requests, Room
    <3>2. CASE request' = [request EXCEPT ![i] = "complete"] /\ UNCHANGED pending
      BY <1>2, <3>2 DEF WaitersMapped, Room
    <3> QED
      BY <1>2, <3>1, <3>2 DEF PageArrives
  <2> QED
    BY <1>2, <2>1 DEF PageArrives, processVars, ProcessTypeOK, Terminal, Room
<1>3. ASSUME IInv, Stop PROVE IInv'
  <2>1. /\ Mapped'
        /\ Terminal =>
             \A r \in Requests : request'[r] = "waiting" => request[r] = "waiting"
    BY <1>3, AskKeeps DEF Stop, Requests
  <2>2. Room(pending')
    BY <1>3, RoomForStop DEF Stop, Ask, Room
  <2> QED
    BY <1>3, <2>1, <2>2 DEF Stop, processVars, ProcessTypeOK, Terminal, Room
<1>4. ASSUME IInv, StopProceeds PROVE IInv'
  <2>1. ProcessTypeOK' /\ (owned = "rejected" => Terminal)'
        /\ (Terminal' <=> Terminal) /\ (stopping => stopping')
    BY <1>4, StopProcessKeeps DEF StopProceeds
  <2> QED
    BY <1>4, <2>1 DEF StopProceeds, WaitersMapped
<1>5. ASSUME IInv, StopReturns \/ Close PROVE IInv'
  <2>1. /\ Mapped' /\ pending' = {}
        /\ \A r \in Requests : request'[r] # "waiting"
        /\ \A r \in Requests : request[r] = "idle" => request'[r] = "idle"
    BY <1>5, FailAllKeeps DEF StopReturns, Close
  <2>2. Room(pending')
    BY <1>5, RoomSubset DEF StopReturns, Close, FailAll, Room
  <2>3. TypeOK'
    <3>1. CASE StopReturns
      BY <1>5, <2>1, <2>2, <3>1 DEF StopReturns, processVars, ProcessTypeOK, Terminal, Room
    <3>2. CASE Close
      BY <1>5, <2>1, <2>2, <3>2 DEF Close, processVars, ProcessTypeOK, Terminal, Room
    <3> QED
      BY <1>5, <3>1, <3>2
  <2>4. EndsAgree' /\ WaitersMapped' /\ NobodyLeftWaiting' /\ NoneUnattended'
    BY <1>5, <2>1 DEF StopReturns, Close, processVars, ProcessTypeOK, Terminal, Requests
  <2> QED
    BY <2>3, <2>4
<1> QED
  BY <1>1, <1>2, <1>3, <1>4, <1>5

LEMMA StepPreserves == IInv /\ [Next]_vars => IInv'
<1>1. IInv /\ UNCHANGED vars => IInv'
  BY DEF vars, processVars, appVars, IInv, TypeOK, ProcessTypeOK, WaitersMapped,
         EndsAgree, NobodyLeftWaiting, NoneUnattended, Terminal
<1> QED
  BY <1>1, ProcessPreserves, StartPreserves, MessagesPreserve, HandlePreserves
  DEF Next

THEOREM Invariance == Spec => []IInv
<1> QED
  BY InitIInv, StepPreserves, PTL DEF Spec

\* The types of the handle, and a map of requests that stays bounded although
\* requests that could not be sent are never taken out of it.
THEOREM TypeCorrect == Spec => []TypeOK
<1>1. IInv => TypeOK
  BY DEF IInv
<1> QED
  BY <1>1, Invariance, PTL

\* Whoever asked the application for something has an answer by the time its end
\* is reported, and so has whoever asks later.
THEOREM EveryoneAnswered == Spec => []NobodyLeftWaiting
<1>1. IInv => NobodyLeftWaiting
  BY DEF IInv
<1> QED
  BY <1>1, Invariance, PTL

\* No failed start leaves a process that was not told to stop.
THEOREM FailedStartsStop == Spec => []NoneUnattended
<1>1. IInv => NoneUnattended
  BY DEF IInv
<1> QED
  BY <1>1, Invariance, PTL

\* Nobody is forgotten in any state.
THEOREM SafetyHolds == Spec => []Safety
  BY TypeCorrect, EveryoneAnswered, FailedStartsStop, PTL DEF Safety
=============================================================================
