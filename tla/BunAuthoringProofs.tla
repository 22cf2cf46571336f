------------------------- MODULE BunAuthoringProofs -------------------------
(***************************************************************************)
(* Proofs about BunAuthoring, for any work and any positive limits.        *)
(***************************************************************************)
EXTENDS BunAuthoring, FiniteSetTheorems, TLAPS

\* What is active now may still become a stream or a retired id.
RoomLeft ==
  /\ Cardinality(Active) <= MaxActive
  /\ Cardinality(Publishing) <= MaxQueued
  /\ Cardinality(Outbound) <= MaxOutbound

\* The opens under way and the streams share the room there was at the last
\* admission, and so do active work and the retired ids.
Opening == {i \in Opens : phase[i] = "running"}

Shares ==
  /\ Cardinality(streams) + Cardinality(Opening) < MaxUnfinished + MaxActive
  /\ Cardinality(Retired) + Cardinality(Active) < MaxRetired + MaxActive

\* An open keeps its context while it runs, and the sweep of stop only touches
\* ids that are retired, whose context cannot come back; it begins with nothing.
SweepIsFinal ==
  /\ \A i \in Opens : phase[i] = "running" => i \in contexts
  /\ sweeping \cup swept \subseteq Retired
  /\ swept \cap contexts = {}
  /\ stop = "none" => swept = {}
  /\ sweeping # {} => stop = "draining"

IInv == TypeOK /\ RoomLeft /\ Shares /\ ContextsFollowWork /\ SweepIsFinal

USE WorkAssumption, LimitsAssumption

LEMMA FiniteWork ==
  ASSUME TypeOK
  PROVE  /\ IsFiniteSet(Active) /\ Cardinality(Active) \in Nat
         /\ IsFiniteSet(Retired) /\ Cardinality(Retired) \in Nat
         /\ IsFiniteSet(Opening) /\ Cardinality(Opening) \in Nat
         /\ IsFiniteSet(streams) /\ Cardinality(streams) \in Nat
         /\ IsFiniteSet(Publishing) /\ Cardinality(Publishing) \in Nat
         /\ IsFiniteSet(Outbound) /\ Cardinality(Outbound) \in Nat
         /\ Cardinality(Opening) <= Cardinality(Active)
<1>1. /\ Active \subseteq Ids /\ Retired \subseteq Ids /\ Opening \subseteq Active
      /\ streams \subseteq Ids /\ Publishing \subseteq Publications
      /\ Outbound \subseteq Calls
  BY DEF TypeOK, Active, Retired, Opening, Publishing, Outbound, Ids
<1>2. IsFiniteSet(Active) /\ IsFiniteSet(Retired) /\ IsFiniteSet(streams)
      /\ IsFiniteSet(Publishing) /\ IsFiniteSet(Outbound)
  BY <1>1, FS_Subset
<1>3. IsFiniteSet(Opening) /\ Cardinality(Opening) <= Cardinality(Active)
  BY <1>1, <1>2, FS_Subset
<1> QED
  BY <1>2, <1>3, FS_CardinalityType

LEMMA InitIInv == Init => IInv
<1> SUFFICES ASSUME Init PROVE IInv
  OBVIOUS
<1>1. Active = {} /\ Retired = {} /\ Opening = {} /\ Publishing = {} /\ streams = {}
  BY DEF Init, Active, Retired, Opening, Publishing, Ids
<1>2. Outbound = {}
  BY DEF Init, Outbound
<1>3. RoomLeft /\ Shares
  BY <1>1, <1>2, FS_EmptySet DEF RoomLeft, Shares
<1>4. TypeOK
  BY DEF Init, TypeOK
<1>5. ContextsFollowWork
  BY DEF Init, ContextsFollowWork
<1>6. SweepIsFinal
  BY DEF Init, SweepIsFinal, Ids
<1> QED
  BY <1>3, <1>4, <1>5, <1>6 DEF IInv

\* Which sets of work each kind of step changes.
LEMMA BeginCounts ==
  ASSUME IInv, NEW i \in Ids, Begin(i)
  PROVE  /\ Active' = Active \cup {i} /\ i \notin Active
         /\ Retired' = Retired
         /\ Opening' = IF i \in Opens THEN Opening \cup {i} ELSE Opening
         /\ phase[i] = "new" /\ phase' = [phase EXCEPT ![i] = "running"]
         /\ phase' \in [Ids -> {"new", "running", "done"}]
         /\ UNCHANGED <<Publishing, Outbound, streams>>
<1>1. phase[i] = "new" /\ phase' = [phase EXCEPT ![i] = "running"]
      /\ phase \in [Ids -> {"new", "running", "done"}]
  BY DEF Begin, Fresh, Active, Retired, IInv, TypeOK
<1>2. UNCHANGED <<publication, call, streams>>
  BY DEF Begin
<1> QED
  BY <1>1, <1>2 DEF Active, Retired, Opening, Publishing, Outbound, Ids

LEMMA EndCounts ==
  ASSUME IInv, NEW i \in Ids, phase[i] = "running",
         phase' = [phase EXCEPT ![i] = "done"], UNCHANGED <<publication, call>>
  PROVE  /\ Active' = Active \ {i} /\ i \in Active
         /\ Retired' = Retired \cup {i} /\ i \notin Retired
         /\ Opening' = Opening \ {i} /\ (i \in Opens => i \in Opening)
         /\ phase' \in [Ids -> {"new", "running", "done"}]
         /\ UNCHANGED <<Publishing, Outbound>>
<1>1. phase \in [Ids -> {"new", "running", "done"}]
  BY DEF IInv, TypeOK
<1> QED
  BY <1>1 DEF Active, Retired, Opening, Publishing, Outbound, Ids

\* The end of active work makes room.
LEMMA EndKeepsRoom ==
  ASSUME IInv, NEW i \in Ids, phase[i] = "running",
         phase' = [phase EXCEPT ![i] = "done"], UNCHANGED <<publication, call>>,
         streams' = streams \/ (i \in Opens /\ streams' = streams \cup {i})
  PROVE  RoomLeft' /\ Shares'
<1>1. /\ Active' = Active \ {i} /\ i \in Active
      /\ Retired' = Retired \cup {i} /\ i \notin Retired
      /\ Opening' = Opening \ {i} /\ (i \in Opens => i \in Opening)
      /\ UNCHANGED <<Publishing, Outbound>>
  BY EndCounts
<1>2. /\ Cardinality(Active)' = Cardinality(Active) - 1
      /\ Cardinality(Retired)' = Cardinality(Retired) + 1
      /\ Cardinality(Opening)' = IF i \in Opening THEN Cardinality(Opening) - 1
                                 ELSE Cardinality(Opening)
  BY <1>1, FiniteWork, FS_AddElement, FS_RemoveElement DEF IInv
<1>0. IsFiniteSet(streams) /\ Cardinality(streams) \in Nat
  BY FiniteWork DEF IInv
<1>3. Cardinality(streams \cup {i}) <= Cardinality(streams) + 1
      /\ Cardinality(streams \cup {i}) \in Nat
  <2>1. Cardinality(streams \cup {i}) = IF i \in streams THEN Cardinality(streams)
                                        ELSE Cardinality(streams) + 1
    BY <1>0, FS_AddElement
  <2> QED
    BY <1>0, <2>1
<1>4. RoomLeft'
  BY <1>1, <1>2, FiniteWork DEF IInv, RoomLeft
<1>5. Shares'
  <2>1. /\ Cardinality(Retired) + Cardinality(Active) < MaxRetired + MaxActive
        /\ Cardinality(streams) + Cardinality(Opening) < MaxUnfinished + MaxActive
        /\ Cardinality(Retired) \in Nat /\ Cardinality(Active) \in Nat
        /\ Cardinality(Opening) \in Nat
    BY FiniteWork DEF IInv, Shares
  <2>2. Cardinality(Retired)' + Cardinality(Active)' < MaxRetired + MaxActive
    BY <1>2, <2>1
  <2>3. Cardinality(streams') + Cardinality(Opening)' < MaxUnfinished + MaxActive
    <3>1. CASE streams' = streams
      BY <1>0, <1>2, <2>1, <3>1
    <3>2. CASE i \in Opens /\ streams' = streams \cup {i}
      <4>1. Cardinality(Opening)' = Cardinality(Opening) - 1
        BY <1>1, <1>2, <3>2
      <4> QED
        BY <1>0, <1>3, <2>1, <3>2, <4>1
    <3> QED
      BY <3>1, <3>2
  <2> QED
    BY <2>2, <2>3 DEF Shares
<1> QED
  BY <1>4, <1>5

\* A step that begins and ends nothing, and adds no stream, keeps the bounds.
LEMMA QuietKeepsRoom ==
  ASSUME IInv, UNCHANGED <<phase, publication, call>>, streams' \subseteq streams
  PROVE  RoomLeft' /\ Shares'
<1>1. UNCHANGED <<Active, Retired, Opening, Publishing, Outbound>>
  BY DEF Active, Retired, Opening, Publishing, Outbound
<1>2. Cardinality(streams') <= Cardinality(streams) /\ Cardinality(streams') \in Nat
  BY FiniteWork, FS_Subset, FS_CardinalityType DEF IInv
<1> QED
  BY <1>1, <1>2, FiniteWork DEF IInv, RoomLeft, Shares

LEMMA NextRoom == IInv /\ [Next]_vars => RoomLeft' /\ Shares'
<1> SUFFICES ASSUME IInv, [Next]_vars PROVE RoomLeft' /\ Shares'
  OBVIOUS
<1> DEFINE Room == RoomLeft' /\ Shares'
<1>1. ASSUME NEW i \in Ids, Begin(i), i \in Opens => StreamRoom PROVE Room
  <2>1. /\ Active' = Active \cup {i} /\ i \notin Active /\ Retired' = Retired
        /\ Opening' = IF i \in Opens THEN Opening \cup {i} ELSE Opening
        /\ UNCHANGED <<Publishing, Outbound, streams>>
    BY <1>1, BeginCounts
  <2>2. Cardinality(Active)' = Cardinality(Active) + 1
        /\ Cardinality(Active) < MaxActive /\ Cardinality(Retired) < MaxRetired
    BY <1>1, <2>1, FiniteWork, FS_AddElement DEF IInv, Begin, HasRoom
  <2>3. CASE i \in Opens
    <3>1. Cardinality(Opening)' <= Cardinality(Opening) + 1 /\ Cardinality(Opening)' \in Nat
      <4>1. IsFiniteSet(Opening) /\ Cardinality(Opening) \in Nat
        BY FiniteWork DEF IInv
      <4>2. Cardinality(Opening \cup {i}) = IF i \in Opening THEN Cardinality(Opening)
                                            ELSE Cardinality(Opening) + 1
        BY <4>1, FS_AddElement
      <4> QED
        BY <2>1, <2>3, <4>1, <4>2
    <3>2. Cardinality(streams) < MaxUnfinished
      BY <1>1, <2>3 DEF StreamRoom
    <3> QED
      BY <2>1, <2>2, <3>1, <3>2, FiniteWork DEF IInv, RoomLeft, Shares
  <2>4. CASE i \notin Opens
    BY <2>1, <2>2, <2>4, FiniteWork DEF IInv, RoomLeft, Shares
  <2> QED
    BY <2>3, <2>4
<1>2. ASSUME NEW i \in Ids, InvocationEnds(i) \/ StreamOpenFails(i) PROVE Room
  BY <1>2, EndKeepsRoom DEF InvocationEnds, StreamOpenFails
<1>3. ASSUME NEW i \in Ids, StreamOpens(i) PROVE Room
  BY <1>3, EndKeepsRoom DEF StreamOpens, Openable
<1>4. ASSUME NEW p \in Publications, Publish(p) \/ PublishEnds(p) PROVE Room
  <2>1. UNCHANGED <<phase, call, streams>>
    BY <1>4 DEF Publish, PublishEnds
  <2>2. UNCHANGED <<Active, Retired, Opening, Outbound>>
    BY <2>1 DEF Active, Retired, Opening, Outbound
  <2>3. \/ Publishing' \subseteq Publishing
        \/ Publishing' = Publishing \cup {p} /\ Cardinality(Publishing) < MaxQueued
    BY <1>4 DEF Publish, PublishEnds, Publishing, IInv, TypeOK
  <2>4. Cardinality(Publishing') <= MaxQueued
    <3>1. CASE Publishing' \subseteq Publishing
      BY <3>1, FiniteWork, FS_Subset, FS_CardinalityType DEF IInv, RoomLeft
    <3>2. CASE Publishing' = Publishing \cup {p} /\ Cardinality(Publishing) < MaxQueued
      <4>1. IsFiniteSet(Publishing) /\ Cardinality(Publishing) \in Nat
        BY FiniteWork DEF IInv
      <4>2. Cardinality(Publishing \cup {p}) = IF p \in Publishing THEN Cardinality(Publishing)
                                            ELSE Cardinality(Publishing) + 1
        BY <4>1, FS_AddElement
      <4>3. Cardinality(Publishing \cup {p}) <= MaxQueued
        BY <3>2, <4>1, <4>2
      <4> QED
        BY <3>2, <4>3
    <3> QED
      BY <2>3, <3>1, <3>2
  <2> QED
    BY <2>1, <2>2, <2>4 DEF IInv, RoomLeft, Shares
<1>5. ASSUME NEW k \in Calls, HostCallEnds(k) \/ \E c \in Contexts : HostCall(k, c) PROVE Room
  <2>1. UNCHANGED <<phase, publication, streams>>
    BY <1>5 DEF HostCallEnds, HostCall, workVars
  <2>2. UNCHANGED <<Active, Retired, Opening, Publishing>>
    BY <2>1 DEF Active, Retired, Opening, Publishing
  <2>3. \/ Outbound' \subseteq Outbound
        \/ Outbound' = Outbound \cup {k} /\ Cardinality(Outbound) < MaxOutbound
    BY <1>5 DEF HostCallEnds, HostCall, MayCall, Outbound, IInv, TypeOK
  <2>4. Cardinality(Outbound') <= MaxOutbound
    <3>1. CASE Outbound' \subseteq Outbound
      BY <3>1, FiniteWork, FS_Subset, FS_CardinalityType DEF IInv, RoomLeft
    <3>2. CASE Outbound' = Outbound \cup {k} /\ Cardinality(Outbound) < MaxOutbound
      <4>1. IsFiniteSet(Outbound) /\ Cardinality(Outbound) \in Nat
        BY FiniteWork DEF IInv
      <4>2. Cardinality(Outbound \cup {k}) = IF k \in Outbound THEN Cardinality(Outbound)
                                            ELSE Cardinality(Outbound) + 1
        BY <4>1, FS_AddElement
      <4>3. Cardinality(Outbound \cup {k}) <= MaxOutbound
        BY <3>2, <4>1, <4>2
      <4> QED
        BY <3>2, <4>3
    <3> QED
      BY <2>3, <3>1, <3>2
  <2> QED
    BY <2>1, <2>2, <2>4 DEF IInv, RoomLeft, Shares
<1>6. ASSUME UNCHANGED <<phase, publication, call>>, streams' \subseteq streams PROVE Room
  BY <1>6, QuietKeepsRoom
<1>7. CASE UNCHANGED vars
  BY <1>6, <1>7 DEF vars
<1>8. CASE Next
  <2>1. \/ \E i \in Ids : Begin(i) /\ (i \in Opens => StreamRoom)
        \/ \E i \in Ids : InvocationEnds(i) \/ StreamOpenFails(i) \/ StreamOpens(i)
        \/ \E p \in Publications : Publish(p) \/ PublishEnds(p)
        \/ \E k \in Calls : HostCallEnds(k) \/ \E c \in Contexts : HostCall(k, c)
        \/ UNCHANGED <<phase, publication, call>> /\ streams' \subseteq streams
    BY <1>8 DEF Next, InitializeArrives, InitializeVerified, Construct, ConstructEnds,
      Invoke, OpenStream, Cancel, StreamTerminates, CancelStream, CancelStreamEnds,
      ForgetStream, Stop, StopSweeps, SweepsNext, SweepEnds, StopHookEnds, workVars
  <2> QED
    BY <2>1, <1>1, <1>2, <1>3, <1>4, <1>5, <1>6
<1> QED
  BY <1>7, <1>8
-----------------------------------------------------------------------------
\* Every step keeps the types, the lifetimes of contexts and the finality of the
\* sweep.
LEMMA NextContexts ==
  IInv /\ [Next]_vars => TypeOK' /\ ContextsFollowWork' /\ SweepIsFinal'
<1> SUFFICES ASSUME IInv, [Next]_vars PROVE TypeOK' /\ ContextsFollowWork' /\ SweepIsFinal'
  OBVIOUS
<1> DEFINE Kept == TypeOK' /\ ContextsFollowWork' /\ SweepIsFinal'
<1> USE DEF IInv, TypeOK, ContextsFollowWork, SweepIsFinal, Retired, Ids, Contexts,
            Lifecycle, workVars, stopVars
<1>1. ASSUME NEW a \in Attempts, InitializeArrives(a) \/ InitializeVerified(a) PROVE Kept
  BY <1>1 DEF InitializeArrives, InitializeVerified
<1>2. ASSUME Construct \/ ConstructEnds PROVE Kept
  BY <1>2 DEF Construct, ConstructEnds
<1>3. ASSUME NEW i \in Ids, Begin(i) PROVE Kept
  <2>1. phase[i] = "new" /\ phase' = [phase EXCEPT ![i] = "running"]
        /\ phase' \in [Ids -> {"new", "running", "done"}]
    BY <1>3, BeginCounts
  <2> QED
    BY <1>3, <2>1 DEF Begin
<1>4. ASSUME NEW i \in Ids, InvocationEnds(i) PROVE Kept
  BY <1>4 DEF InvocationEnds
<1>5. ASSUME NEW i \in Ids, StreamOpens(i) PROVE Kept
  BY <1>5 DEF StreamOpens, Openable
<1>6. ASSUME NEW i \in Ids, StreamOpenFails(i) PROVE Kept
  BY <1>6 DEF StreamOpenFails
<1>7. ASSUME NEW i \in Ids, Cancel(i) \/ CancelStream(i) PROVE Kept
  BY <1>7 DEF Cancel, CancelStream, Active
<1>8. ASSUME NEW i \in Ids, StreamTerminates(i) \/ CancelStreamEnds(i) PROVE Kept
  BY <1>8 DEF StreamTerminates, CancelStreamEnds, ForgetStream
<1>9. ASSUME NEW p \in Publications, Publish(p) \/ PublishEnds(p) PROVE Kept
  BY <1>9 DEF Publish, PublishEnds
<1>10. ASSUME NEW k \in Calls, HostCallEnds(k) \/ \E c \in Contexts : HostCall(k, c) PROVE Kept
  BY <1>10 DEF HostCallEnds, HostCall
<1>11. ASSUME NEW done \in SUBSET Opens, NEW kept \in SUBSET contexts,
              swept \subseteq done, done \subseteq Retired, done \cap kept = {},
              \A c \in contexts \ kept : c \in done,
              SweepsNext(done, kept) \/ SweepEnds(done, kept), stop # "hook",
              UNCHANGED <<handshake, construction, phase, publication, closing, call>>
       PROVE  Kept
  <2>1. CASE SweepsNext(done, kept)
    BY <1>11, <2>1 DEF SweepsNext
  <2>2. CASE SweepEnds(done, kept)
    BY <1>11, <2>2 DEF SweepEnds
  <2> QED
    BY <1>11, <2>1, <2>2
<1>12. ASSUME Stop \/ StopHookEnds \/ \E s \in Ids : StopSweeps(s) PROVE Kept
  <2>1. CASE StopHookEnds
    BY <2>1 DEF StopHookEnds
  <2>2. CASE Stop
    <3>1. /\ stop = "none" /\ swept = {}
          /\ UNCHANGED <<handshake, construction, phase, publication, closing, call>>
      BY <2>2 DEF Stop
    <3>2. CASE stop' = "failed" /\ UNCHANGED <<contexts, aborted, streams, sweeping, swept>>
      BY <3>1, <3>2
    <3>3. CASE SweepsNext({}, contexts) \/ SweepEnds({}, contexts)
      <4>1. /\ {} \in SUBSET Opens /\ contexts \in SUBSET contexts /\ swept \subseteq {}
            /\ {} \subseteq Retired /\ {} \cap contexts = {} /\ stop # "hook"
            /\ \A c \in contexts \ contexts : c \in {}
        BY <3>1
      <4> HIDE DEF Kept
      <4> QED
        BY <1>11, <3>1, <3>3, <4>1
    <3> QED
      BY <2>2, <3>2, <3>3 DEF Stop
  <2>3. ASSUME NEW s \in Ids, StopSweeps(s) PROVE Kept
    <3>1. /\ s \in sweeping /\ stop = "draining"
          /\ UNCHANGED <<handshake, construction, phase, publication, closing, call>>
      BY <2>3 DEF StopSweeps
    <3>2. CASE /\ stop' = "failed" /\ sweeping' = {}
               /\ UNCHANGED <<contexts, aborted, streams, swept>>
      BY <3>1, <3>2
    <3>3. CASE \/ SweepsNext(swept \cup {s}, contexts \ {s})
               \/ SweepEnds(swept \cup {s}, contexts \ {s})
      <4> DEFINE done == swept \cup {s}
                 kept == contexts \ {s}
      <4>1. /\ done \in SUBSET Opens /\ kept \in SUBSET contexts /\ swept \subseteq done
            /\ done \subseteq Retired /\ done \cap kept = {} /\ stop # "hook"
            /\ \A c \in contexts \ kept : c \in done
        BY <3>1
      <4>2. SweepsNext(done, kept) \/ SweepEnds(done, kept)
        BY <3>3
      <4> HIDE DEF Kept, done, kept
      <4> QED
        BY <1>11, <3>1, <4>1, <4>2
    <3> QED
      BY <2>3, <3>2, <3>3 DEF StopSweeps
  <2> QED
    BY <1>12, <2>1, <2>2, <2>3
<1>13. CASE UNCHANGED vars
  BY <1>13 DEF vars
<1>14. CASE Next
  BY <1>1, <1>2, <1>3, <1>4, <1>5, <1>6, <1>7, <1>8, <1>9, <1>10, <1>11, <1>12, <1>14
  DEF Next, Invoke, OpenStream
<1> QED
  BY <1>13, <1>14

\* The invariant of the proofs holds in every reachable state.
THEOREM Invariance == Spec => []IInv
<1>1. IInv /\ [Next]_vars => IInv'
  BY NextRoom, NextContexts DEF IInv
<1> QED
  BY <1>1, InitIInv, PTL DEF Spec

\* Type correctness of the server: v2.ts, all handlers.
THEOREM TypeCorrect == Spec => []TypeOK
<1>1. IInv => TypeOK
  BY DEF IInv
<1> QED
  BY <1>1, Invariance, PTL

\* What the limits of the admitted session bound, overruns included.
THEOREM Bounds == Spec => []WorkBounded
<1>1. IInv => WorkBounded
  BY FiniteWork DEF IInv, RoomLeft, Shares, WorkBounded
<1> QED
  BY <1>1, Invariance, PTL

\* Contexts other than an invocation's end with their work, and an open stream
\* can be aborted.
THEOREM ContextLifetime == Spec => []ContextsFollowWork
<1>1. IInv => ContextsFollowWork
  BY DEF IInv
<1> QED
  BY <1>1, Invariance, PTL

\* A retired correlation id never runs again.
THEOREM AtMostOnce == Spec => ServedOnce
<1>1. IInv /\ [Next]_vars => [\A i \in Ids : phase[i] = "done" => phase'[i] = "done"]_vars
  <2> SUFFICES ASSUME IInv, [Next]_vars, NEW x \in Ids, phase[x] = "done"
               PROVE  phase'[x] = "done"
    OBVIOUS
  <2>1. \/ UNCHANGED phase
        \/ \E i \in Ids : Begin(i)
        \/ \E i \in Ids : phase' = [phase EXCEPT ![i] = "done"]
    BY DEF Next, vars, workVars, Invoke, OpenStream, InitializeArrives,
      InitializeVerified, Construct, ConstructEnds, InvocationEnds, StreamOpens,
      StreamOpenFails, Cancel, StreamTerminates, CancelStream, CancelStreamEnds,
      Stop, StopSweeps, SweepsNext, SweepEnds, StopHookEnds, Publish, PublishEnds,
      HostCall, HostCallEnds
  <2>2. ASSUME NEW i \in Ids, Begin(i) PROVE phase'[x] = "done"
    BY <2>2, BeginCounts DEF IInv, TypeOK
  <2> QED
    BY <2>1, <2>2 DEF IInv, TypeOK
<1> QED
  BY <1>1, Invariance, PTL DEF Spec, ServedOnce

\* A cancelled open leaves no stream behind.
THEOREM CancelledOpens == Spec => CancelledOpensNothing
<1>1. [Next]_vars => [\A s \in streams' \ streams : s \notin aborted]_vars
  BY DEF Next, vars, workVars, Invoke, OpenStream, Begin, InitializeArrives,
    InitializeVerified, Construct, ConstructEnds, InvocationEnds, StreamOpens,
    StreamOpenFails, Cancel, StreamTerminates, CancelStream, CancelStreamEnds,
    Stop, StopSweeps, SweepsNext, SweepEnds, StopHookEnds, Publish, PublishEnds,
    HostCall, HostCallEnds, Openable, ForgetStream
<1> QED
  BY <1>1, PTL DEF Spec, CancelledOpensNothing

\* Limits and contexts are consistent with the work in every state.
THEOREM SafetyHolds == Spec => []Safety
  BY TypeCorrect, Bounds, ContextLifetime, PTL DEF Safety
=============================================================================
