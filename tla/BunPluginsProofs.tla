--------------------------- MODULE BunPluginsProofs ---------------------------
(***************************************************************************)
(* Proofs about the two parts of the Bun plugin host that TLC explores      *)
(* together: a stream between two plugins, and the server of a plugin of    *)
(* the protocol before V2.  Each keeps its own invariant, for every number  *)
(* of actions, requests, activations and shutdowns, and every capacity.     *)
(***************************************************************************)
EXTENDS MCBunPlugins, FiniteSetTheorems, SequenceTheorems, TLAPS

(***************************************************************************)
(* A stream between two plugins: the inductive invariant                   *)
(***************************************************************************)
Jobs == Actions \cup {"cancel"}
JobPlaces == {"none", "host", "serving", "answered"}
JobShape == [at : JobPlaces, sequence : 0 .. Cardinality(Sends), outcome : StreamOutcomes]

DoneSends == {s \in Sends : action[s] = "done"}

\* The sends the provider accepted whose answer the consumer has not seen.
Owed == {s \in Sends : job[s].at = "answered" /\ job[s].outcome = "accepted"}

StreamShapes ==
  /\ parent \in {"live", "aborted"}
  /\ opening \in {"calling", "open", "refused"}
  /\ closed \in BOOLEAN /\ listed \in BOOLEAN
  /\ cancelling \in {"no", "calling", "confirmed", "unconfirmed"}
  /\ action \in [Actions -> {"idle", "calling", "done"}]
  /\ answer \in [Actions -> StreamOutcomes]
  /\ job \in [Jobs -> JobShape]
  /\ entry \in {"none", "open", "gone"} /\ aborted \in BOOLEAN
  /\ iterator \in {"running", "ended"} /\ left \in 0 .. Messages
  /\ waiting \in Seq(Receives)
  /\ overlapped \in BOOLEAN /\ lost \in BOOLEAN

\* Nothing happens before the open is answered.
Unopened ==
  opening = "calling" =>
    /\ closed = FALSE /\ cancelling = "no" /\ entry = "none"
    /\ \A j \in Jobs : job[j] = Idle
    /\ \A a \in Actions : action[a] = "idle" /\ answer[a] = "none"

\* The receives that wait are served, and wait once.
Queued ==
  /\ \A i \in 1 .. Len(waiting) : job[waiting[i]].at = "serving"
  /\ \A i, j \in 1 .. Len(waiting) : waiting[i] = waiting[j] => i = j

\* A send counts once, and only sends do; an action under way has no answer.
ActionsKept ==
  /\ sendSequence \in Nat /\ sendSequence <= Cardinality(DoneSends)
  /\ \A a \in Actions : action[a] # "done" => answer[a] = "none"
  /\ \A r \in Receives : job[r].outcome # "accepted"
  /\ \A a \in Actions : action[a] = "idle" => job[a] = Idle
  /\ Queued

\* While no call failed, the provider is ahead by what it accepted and the
\* consumer was not told of, and a call under way has a job.
Counts ==
  /\ accepted \in Seq(Nat) /\ nextSequence = Len(accepted)
  /\ ~ lost => /\ nextSequence = sendSequence + Cardinality(Owed)
               /\ \A s \in Sends : action[s] # "calling" => job[s].at = "none"

\* While sends do not overlap, the one that is served carries the number that is
\* expected.
InOrder ==
  ~ overlapped =>
    /\ \A s, t \in Sends : UnderWay(s) /\ UnderWay(t) => s = t
    /\ \A s \in Sends : job[s].at = "serving" => job[s].sequence = nextSequence
    /\ \A i \in 1 .. Len(accepted) : accepted[i] = i - 1

\* What the consumer was told of the stream's end, or is about to be told, is so.
EndsKnown ==
  /\ \A a \in Actions : answer[a] \in {"failure", "violation", "terminal"} => closed
  /\ \A a \in Actions : answer[a] = "terminal" => entry # "open"
  /\ \A a \in Actions :
       job[a].at = "answered" /\ job[a].outcome = "terminal" => entry # "open"
  /\ closed => cancelling # "no" \/ \E a \in Actions : EndsSession(answer[a])
  /\ job["cancel"].at = "answered" /\ job["cancel"].outcome = "accepted" => entry # "open"
  /\ cancelling = "confirmed" => entry # "open"

StreamInv ==
  StreamShapes /\ Unopened /\ ActionsKept /\ Counts /\ InOrder /\ EndsKnown

LEMMA SendsFinite ==
  /\ IsFiniteSet(Sends) /\ Cardinality(Sends) \in Nat
  /\ \A S \in SUBSET Sends : /\ IsFiniteSet(S) /\ Cardinality(S) \in Nat
                             /\ Cardinality(S) <= Cardinality(Sends)
<1>1. IsFiniteSet(Sends)
  BY StreamAssumption, FS_Subset DEF Actions
<1> QED
  BY <1>1, FS_Subset, FS_CardinalityType

LEMMA StreamTypes == StreamInv => StreamSafety
<1> SUFFICES ASSUME StreamInv PROVE StreamSafety
  OBVIOUS
<1>1. DoneSends \in SUBSET Sends /\ Cardinality(Sends) \in Nat
      /\ Cardinality(DoneSends) \in Nat /\ Cardinality(DoneSends) <= Cardinality(Sends)
  BY SendsFinite DEF DoneSends
<1>2. sendSequence \in 0 .. Cardinality(Sends)
  BY <1>1 DEF StreamInv, ActionsKept
<1>3. ASSUME NEW j \in DOMAIN job
      PROVE  /\ job[j].at \in {"none", "host", "serving", "answered"}
             /\ job[j].sequence \in 0 .. Cardinality(Sends)
             /\ job[j].outcome \in StreamOutcomes
  BY DEF StreamInv, StreamShapes, JobShape, JobPlaces
<1>4. \A i \in DOMAIN waiting : waiting[i] \in Receives
  BY DEF StreamInv, StreamShapes
<1>5. StreamTypeOK
  BY <1>2, <1>3, <1>4 DEF StreamInv, StreamShapes, Counts, StreamTypeOK
<1>6. SequencesAgree
  <2>1. ASSUME ~ lost, \A s \in Sends : action[s] # "calling"
        PROVE  sendSequence = nextSequence
    <3>1. Owed = {}
      BY <2>1 DEF StreamInv, Counts, Owed
    <3>2. Cardinality(Owed) = 0
      BY <3>1, FS_EmptySet
    <3> QED
      BY <1>2, <2>1, <3>2 DEF StreamInv, Counts
  <2>2. ASSUME ~ overlapped PROVE accepted = [i \in 1 .. Len(accepted) |-> i - 1]
    <3>1. accepted \in Seq(Nat) /\ \A i \in 1 .. Len(accepted) : accepted[i] = i - 1
      BY <2>2 DEF StreamInv, Counts, InOrder
    <3>2. accepted = [i \in 1 .. Len(accepted) |-> accepted[i]]
      BY <3>1
    <3> QED
      BY <3>1, <3>2
  <2> QED
    BY <2>1, <2>2 DEF SequencesAgree
<1>7. FinishedIsForgotten
  BY DEF StreamInv, StreamShapes, EndsKnown, FinishedIsForgotten, Quiet, ToldOfFailure, EndsSession
<1> QED
  BY <1>5, <1>6, <1>7 DEF StreamSafety

LEMMA StreamStarts == StreamInit => StreamInv
<1> SUFFICES ASSUME StreamInit PROVE StreamInv
  OBVIOUS
<1>1. Cardinality(Sends) \in Nat /\ Messages \in Nat
  BY SendsFinite, StreamAssumption
<1>2. Idle \in JobShape
  BY <1>1 DEF Idle, JobShape, JobPlaces, StreamOutcomes
<1>3. StreamShapes
  <2>1. job \in [Jobs -> JobShape]
    BY <1>2 DEF StreamInit, Jobs
  <2>2. left \in 0 .. Messages /\ waiting \in Seq(Receives)
    BY <1>1 DEF StreamInit
  <2>3. /\ answer \in [Actions -> StreamOutcomes]
        /\ action \in [Actions -> {"idle", "calling", "done"}]
    BY DEF StreamInit, StreamOutcomes
  <2> QED
    BY <2>1, <2>2, <2>3 DEF StreamInit, StreamShapes
<1>4. Unopened
  BY DEF StreamInit, Unopened, Jobs
<1>5. DoneSends = {} /\ Owed = {} /\ Cardinality({}) = 0
  BY FS_EmptySet DEF StreamInit, DoneSends, Owed, Idle, Actions
<1>6. ActionsKept
  BY <1>5 DEF StreamInit, ActionsKept, Queued, Idle, Actions
<1>7. Counts
  BY <1>5 DEF StreamInit, Counts, Idle, Actions
<1>8. InOrder
  BY DEF StreamInit, InOrder, UnderWay, Idle, Actions
<1>9. EndsKnown
  BY DEF StreamInit, EndsKnown, Idle, Actions
<1> QED
  BY <1>3, <1>4, <1>6, <1>7, <1>8, <1>9 DEF StreamInv

\* A job that waits goes on waiting unless it is answered.
LEMMA QueuedKept ==
  ASSUME StreamShapes, Queued, waiting' = waiting,
         \A r \in Receives : job[r].at = "serving" => job'[r].at = "serving"
  PROVE  Queued'
<1>1. \A i \in 1 .. Len(waiting) : waiting[i] \in Receives
  BY DEF StreamShapes
<1> QED
  BY <1>1 DEF Queued

\* Steps that leave the actions and their jobs alone disturb no count.
LEMMA CountsKept ==
  ASSUME StreamInv,
         UNCHANGED <<action, answer, sendSequence, nextSequence, waiting, accepted, overlapped>>,
         \A a \in Actions : job'[a] = job[a], lost => lost', lost' \in BOOLEAN
  PROVE  ActionsKept' /\ Counts' /\ InOrder'
<1>0. Sends \subseteq Actions /\ Receives \subseteq Actions
  BY DEF Actions
<1>1. DoneSends' = DoneSends /\ Owed' = Owed
  BY <1>0 DEF DoneSends, Owed
<1>2. ActionsKept'
  <2>1. Queued'
    BY <1>0, QueuedKept DEF StreamInv, ActionsKept
  <2> QED
    BY <1>0, <1>1, <2>1 DEF StreamInv, ActionsKept
<1>3. Counts'
  BY <1>0, <1>1 DEF StreamInv, StreamShapes, Counts
<1>4. InOrder'
  BY <1>0 DEF StreamInv, InOrder, UnderWay
<1> QED
  BY <1>2, <1>3, <1>4

\* A session that is cancelled is closed; the others stay as they are.
LEMMA CancelSessionDoes ==
  ASSUME StreamInv, CancelSession
  PROVE  /\ job' \in [Jobs -> JobShape] /\ \A a \in Actions : job'[a] = job[a]
         /\ closed' \in BOOLEAN /\ cancelling' \in {"no", "calling", "confirmed", "unconfirmed"}
         /\ closed => closed'
         /\ closed' => cancelling' # "no" \/ closed
         /\ cancelling # "no" => cancelling' = cancelling
         /\ cancelling' = "confirmed" => cancelling = "confirmed"
         /\ job'["cancel"] = job["cancel"] \/ job'["cancel"].at = "host"
<1>1. "cancel" \notin Actions /\ job \in [Jobs -> JobShape] /\ closed \in BOOLEAN
      /\ cancelling \in {"no", "calling", "confirmed", "unconfirmed"}
  BY StreamAssumption DEF StreamInv, StreamShapes
<1>2. Relaying(0) \in JobShape /\ Relaying(0).at = "host"
  BY SendsFinite DEF Relaying, JobShape, JobPlaces, StreamOutcomes
<1> QED
  BY <1>1, <1>2 DEF CancelSession, Jobs

LEMMA SessionPreserves ==
  ASSUME StreamInv,
         \/ Opened \/ OpenRefused \/ ParentAborts \/ PluginCancels
         \/ CancelReturns \/ CancelFails \/ CancelArrives \/ CancelServed
  PROVE  StreamInv'
<1> USE DEF StreamInv
<1>0. /\ "cancel" \notin Actions /\ "cancel" \in Jobs /\ Actions \subseteq Jobs
      /\ job \in [Jobs -> JobShape]
  BY StreamAssumption DEF Jobs, StreamShapes
<1>1. Idle \in JobShape /\ \A o \in StreamOutcomes : Answered(o) \in JobShape
  BY SendsFinite DEF Idle, Answered, JobShape, JobPlaces, StreamOutcomes
\* When the open is answered, and after that.
<1>2. ASSUME opening # "calling", opening' = opening, StreamShapes',
             ActionsKept' /\ Counts' /\ InOrder', EndsKnown'
      PROVE  StreamInv'
  BY <1>2 DEF Unopened
<1>3. CASE Opened
  <2>1. /\ job' \in [Jobs -> JobShape] /\ \A a \in Actions : job'[a] = job[a]
        /\ closed' \in BOOLEAN /\ cancelling' \in {"no", "calling"}
        /\ closed' => cancelling' # "no"
        /\ job'["cancel"].at # "answered"
    <3>1. job["cancel"] = Idle /\ closed = FALSE /\ cancelling = "no"
      BY <1>0, <1>3 DEF Opened, Unopened
    <3>2. CASE parent = "aborted"
      BY <1>3, <3>1, <3>2, CancelSessionDoes DEF Opened, AbortedMeanwhile, Idle, CancelSession
    <3>3. CASE parent # "aborted"
      <4>1. UNCHANGED <<closed, cancelling, job>>
        BY <1>3, <3>3 DEF Opened, AbortedMeanwhile, Unaborted
      <4>2. job["cancel"].at = "none"
        BY <3>1 DEF Idle
      <4> QED
        BY <1>0, <3>1, <4>1, <4>2
    <3> QED
      BY <3>2, <3>3
  <2>2. StreamShapes'
    BY <1>3, <2>1 DEF Opened, historyVars, StreamShapes
  <2>3. ActionsKept' /\ Counts' /\ InOrder'
    BY <1>3, <2>1, CountsKept DEF Opened, historyVars, StreamShapes
  <2>4. \A a \in Actions : answer'[a] = "none" /\ job'[a] = Idle
    BY <1>0, <1>3, <2>1 DEF Opened, Unopened
  <2>5. EndsKnown'
    BY <2>1, <2>4 DEF EndsKnown, Idle
  <2> QED
    BY <1>3, <2>2, <2>3, <2>5 DEF Opened, Unopened
<1>4. CASE OpenRefused
  <2>1. StreamShapes'
    BY <1>4 DEF OpenRefused, historyVars, StreamShapes
  <2>2. ActionsKept' /\ Counts' /\ InOrder'
    BY <1>4, CountsKept DEF OpenRefused, historyVars, StreamShapes
  <2>3. /\ \A a \in Actions : answer'[a] = "none" /\ job'[a] = Idle
        /\ job'["cancel"] = Idle /\ closed' = FALSE /\ cancelling' = "no"
    BY <1>0, <1>4 DEF OpenRefused, Unopened
  <2>4. EndsKnown'
    BY <2>3 DEF EndsKnown, Idle
  <2> QED
    BY <1>4, <2>1, <2>2, <2>4 DEF OpenRefused, Unopened
<1>5. CASE ParentAborts
  <2>1. CASE opening = "open"
    <3>1. CancelSession
      BY <1>5, <2>1 DEF ParentAborts
    <3>2. StreamShapes'
      BY <1>5, <3>1, CancelSessionDoes DEF ParentAborts, providerVars, historyVars, StreamShapes
    <3>3. ActionsKept' /\ Counts' /\ InOrder'
      BY <1>5, <3>1, CancelSessionDoes, CountsKept
        DEF ParentAborts, providerVars, historyVars, StreamShapes
    <3>4. EndsKnown'
      BY <1>5, <3>1, CancelSessionDoes DEF ParentAborts, providerVars, EndsKnown
    <3> QED
      BY <1>5, <2>1, <3>2, <3>3, <3>4 DEF ParentAborts, Unopened
  <2>2. CASE opening # "open"
    <3>1. StreamShapes'
      BY <1>5, <2>2 DEF ParentAborts, Unaborted, providerVars, historyVars, StreamShapes
    <3>2. ActionsKept' /\ Counts' /\ InOrder'
      BY <1>5, <2>2, CountsKept DEF ParentAborts, Unaborted, providerVars, historyVars, StreamShapes
    <3>3. EndsKnown' /\ Unopened'
      BY <1>5, <2>2 DEF ParentAborts, Unaborted, providerVars, EndsKnown, Unopened
    <3> QED
      BY <3>1, <3>2, <3>3
  <2> QED
    BY <2>1, <2>2
<1>6. CASE PluginCancels
  <2>1. StreamShapes'
    BY <1>6, CancelSessionDoes DEF PluginCancels, providerVars, historyVars, StreamShapes
  <2>2. ActionsKept' /\ Counts' /\ InOrder'
    BY <1>6, CancelSessionDoes, CountsKept
      DEF PluginCancels, providerVars, historyVars, StreamShapes
  <2>3. EndsKnown'
    BY <1>6, CancelSessionDoes DEF PluginCancels, providerVars, EndsKnown
  <2> QED
    BY <1>2, <1>6, <2>1, <2>2, <2>3 DEF PluginCancels
<1>7. CASE CancelReturns
  <2>1. /\ job' \in [Jobs -> JobShape] /\ \A a \in Actions : job'[a] = job[a]
        /\ job'["cancel"] = Idle
    BY <1>0, <1>1, <1>7 DEF CancelReturns
  <2>2. StreamShapes'
    BY <1>7, <2>1 DEF CancelReturns, Finish, providerVars, historyVars, StreamShapes
  <2>3. ActionsKept' /\ Counts' /\ InOrder'
    BY <1>7, <2>1, CountsKept DEF CancelReturns, providerVars, historyVars, StreamShapes
  <2>4. EndsKnown'
    BY <1>7, <2>1 DEF CancelReturns, Finish, providerVars, EndsKnown, Idle
  <2> QED
    BY <1>2, <1>7, <2>2, <2>3, <2>4 DEF CancelReturns, Unopened
<1>8. CASE CancelFails
  <2>1. StreamShapes'
    BY <1>8 DEF CancelFails, providerVars, StreamShapes
  <2>2. ActionsKept' /\ Counts' /\ InOrder'
    BY <1>8, CountsKept DEF CancelFails, providerVars
  <2>3. EndsKnown'
    BY <1>8 DEF CancelFails, providerVars, EndsKnown
  <2> QED
    BY <1>2, <1>8, <2>1, <2>2, <2>3 DEF CancelFails, Unopened
<1>9. CASE CancelArrives
  <2>0. opening # "calling"
    BY <1>0, <1>9 DEF CancelArrives, Unopened, Idle
  <2>1. /\ job' \in [Jobs -> JobShape] /\ \A a \in Actions : job'[a] = job[a]
        /\ job'["cancel"].at = "serving"
    <3>1. job' = [job EXCEPT !["cancel"] = [job["cancel"] EXCEPT !.at = "serving"]]
      BY <1>9 DEF CancelArrives
    <3>2. job["cancel"] \in JobShape
      BY <1>0
    <3>3. [job["cancel"] EXCEPT !.at = "serving"] \in JobShape
      BY <3>2 DEF JobShape, JobPlaces
    <3> QED
      BY <1>0, <3>1, <3>2, <3>3 DEF JobShape
  <2>2. StreamShapes'
    <3>1. /\ UNCHANGED <<parent, opening, closed, listed, cancelling, action, answer>>
          /\ UNCHANGED <<entry, left, waiting, overlapped, lost>>
      BY <1>9 DEF CancelArrives, consumerVars, historyVars
    <3>2. aborted' \in BOOLEAN /\ iterator' \in {"running", "ended"}
      BY <1>9 DEF CancelArrives, StreamShapes
    <3> QED
      BY <2>1, <3>1, <3>2 DEF StreamShapes
  <2>3. ActionsKept' /\ Counts' /\ InOrder'
    BY <1>9, <2>1, CountsKept DEF CancelArrives, consumerVars, historyVars, StreamShapes
  <2>4. EndsKnown'
    BY <1>9, <2>1 DEF CancelArrives, consumerVars, EndsKnown
  <2> QED
    BY <1>2, <1>9, <2>0, <2>2, <2>3, <2>4 DEF CancelArrives, consumerVars
<1>10. CASE CancelServed
  <2>0. opening # "calling"
    BY <1>0, <1>10 DEF CancelServed, Unopened, Idle
  <2>1. /\ job' \in [Jobs -> JobShape] /\ \A a \in Actions : job'[a] = job[a]
        /\ \/ entry' = "gone"
           \/ entry' = entry /\ job'["cancel"].outcome = "error"
    BY <1>0, <1>1, <1>10 DEF CancelServed, Reply, Answered, StreamOutcomes, Removed
  <2>2. StreamShapes'
    BY <1>10, <2>1 DEF CancelServed, consumerVars, historyVars, StreamShapes
  <2>3. ActionsKept' /\ Counts' /\ InOrder'
    BY <1>10, <2>1, CountsKept DEF CancelServed, consumerVars, historyVars, StreamShapes
  <2>4. EndsKnown'
    BY <1>10, <2>1 DEF CancelServed, consumerVars, EndsKnown
  <2> QED
    BY <1>2, <1>10, <2>0, <2>2, <2>3, <2>4 DEF CancelServed, consumerVars
<1> QED
  BY <1>3, <1>4, <1>5, <1>6, <1>7, <1>8, <1>9, <1>10

LEMMA ActionsPreserve ==
  ASSUME StreamInv, NEW a \in Actions,
         \/ (a \in Sends /\ StartSend(a))
         \/ (a \in Receives /\ StartReceive(a))
         \/ CallReturns(a) \/ CallFails(a)
  PROVE  StreamInv'
<1> USE DEF StreamInv
<1>0. /\ "cancel" \notin Actions /\ "cancel" \in Jobs /\ Actions \subseteq Jobs
      /\ Sends \subseteq Actions /\ Receives \subseteq Actions /\ Sends \cap Receives = {}
      /\ job \in [Jobs -> JobShape] /\ job[a] \in JobShape
  BY StreamAssumption DEF Jobs, StreamShapes, Actions
<1>1. /\ DoneSends \in SUBSET Sends /\ IsFiniteSet(DoneSends) /\ Cardinality(DoneSends) \in Nat
      /\ Owed \in SUBSET Sends /\ IsFiniteSet(Owed) /\ Cardinality(Owed) \in Nat
      /\ Cardinality(Sends) \in Nat /\ Cardinality(DoneSends) <= Cardinality(Sends)
  BY SendsFinite DEF DoneSends, Owed
<1>2. sendSequence \in 0 .. Cardinality(Sends)
  BY <1>1 DEF ActionsKept
<1>3. Idle \in JobShape /\ Relaying(sendSequence) \in JobShape
  BY <1>1, <1>2 DEF Idle, Relaying, JobShape, JobPlaces, StreamOutcomes
\* When an action is over, the sends that are done grow by it.
<1>4. ASSUME action' = [action EXCEPT ![a] = "done"], action[a] # "done",
             \/ sendSequence' = sendSequence
             \/ a \in Sends /\ sendSequence' = sendSequence + 1
      PROVE  sendSequence' \in Nat /\ sendSequence' <= Cardinality(DoneSends')
  <2>1. CASE a \in Sends
    <3>1. DoneSends' = DoneSends \cup {a} /\ a \notin DoneSends
      BY <1>0, <1>4, <2>1 DEF DoneSends, StreamShapes
    <3>2. Cardinality(DoneSends') = Cardinality(DoneSends) + 1
      BY <1>1, <3>1, FS_AddElement
    <3> QED
      BY <1>1, <1>2, <1>4, <3>2 DEF ActionsKept
  <2>2. CASE a \notin Sends
    <3>1. DoneSends' = DoneSends
      BY <1>0, <1>4, <2>2 DEF DoneSends, StreamShapes
    <3> QED
      BY <1>4, <2>2, <3>1 DEF ActionsKept
  <2> QED
    BY <2>1, <2>2
<1>5. CASE CallFails(a)
  <2>1. /\ action[a] = "calling" /\ action' = [action EXCEPT ![a] = "done"]
        /\ answer' = [answer EXCEPT ![a] = "error"] /\ lost' = TRUE
        /\ UNCHANGED <<parent, opening, closed, listed, cancelling, sendSequence,
                       job, providerVars, accepted, overlapped>>
    BY <1>5 DEF CallFails
  <2>2. StreamShapes'
    BY <2>1 DEF providerVars, StreamShapes, StreamOutcomes
  <2>3. Unopened'
    BY <2>1 DEF Unopened
  <2>4. ActionsKept'
    <3>1. Queued'
      BY <2>1, QueuedKept DEF ActionsKept, providerVars
    <3>2. sendSequence' \in Nat /\ sendSequence' <= Cardinality(DoneSends')
      BY <1>4, <2>1
    <3> QED
      BY <2>1, <3>1, <3>2 DEF ActionsKept, StreamShapes
  <2>5. Counts'
    BY <2>1 DEF Counts, providerVars
  <2>6. InOrder'
    BY <1>0, <2>1 DEF InOrder, providerVars, UnderWay, StreamShapes
  <2>7. EndsKnown'
    <3>1. \A b \in Actions : answer'[b] = answer[b] \/ answer'[b] = "error"
      BY <2>1 DEF StreamShapes
    <3>2. closed => cancelling # "no" \/ \E b \in Actions : EndsSession(answer'[b])
      <4>1. answer[a] = "none"
        BY <2>1 DEF ActionsKept
      <4> QED
        BY <2>1, <4>1 DEF EndsKnown, EndsSession, StreamShapes
    <3> QED
      BY <2>1, <3>1, <3>2 DEF EndsKnown, providerVars
  <2> QED
    BY <2>2, <2>3, <2>4, <2>5, <2>6, <2>7
<1>6. CASE CallReturns(a)
  <2> DEFINE outcome == job[a].outcome
             n == Cardinality(Owed)
  <2>1. /\ action[a] = "calling" /\ action' = [action EXCEPT ![a] = "done"]
        /\ job[a].at = "answered" /\ answer' = [answer EXCEPT ![a] = outcome]
        /\ sendSequence' = IF outcome = "accepted" THEN sendSequence + 1 ELSE sendSequence
        /\ IF EndsSession(outcome) THEN Finish ELSE UNCHANGED <<closed, listed>>
        /\ job' = [job EXCEPT ![a] = Idle]
        /\ UNCHANGED <<parent, opening, cancelling, providerVars, historyVars>>
    BY <1>6 DEF CallReturns
  <2>2. outcome \in StreamOutcomes /\ (outcome = "accepted" => a \in Sends)
    BY <1>0, <2>1 DEF ActionsKept, Actions, JobShape
  <2>3. /\ job' \in [Jobs -> JobShape] /\ job'[a] = Idle /\ job'["cancel"] = job["cancel"]
        /\ \A b \in Actions \ {a} : job'[b] = job[b]
    BY <1>0, <1>3, <2>1
  <2>4. /\ answer' \in [Actions -> StreamOutcomes] /\ answer'[a] = outcome
        /\ \A b \in Actions \ {a} : answer'[b] = answer[b]
        /\ action' \in [Actions -> {"idle", "calling", "done"}] /\ action'[a] = "done"
        /\ \A b \in Actions \ {a} : action'[b] = action[b]
    BY <2>1, <2>2 DEF StreamShapes
  <2>5. closed' \in BOOLEAN /\ listed' \in BOOLEAN
        /\ (closed => closed') /\ (EndsSession(outcome) => closed')
        /\ (closed' => closed \/ EndsSession(outcome))
    BY <2>1 DEF Finish, StreamShapes
  <2> HIDE DEF outcome
  <2>6. StreamShapes'
    BY <2>1, <2>3, <2>4, <2>5 DEF historyVars, providerVars, StreamShapes
  <2>7. Unopened'
    BY <2>1 DEF Unopened
  <2>8. ActionsKept'
    <3>1. sendSequence' \in Nat /\ sendSequence' <= Cardinality(DoneSends')
      BY <1>4, <2>1, <2>2
    <3> QED
      <4>1. Queued'
        BY <1>0, <2>1, <2>3, QueuedKept DEF ActionsKept, providerVars
      <4> QED
        BY <1>0, <2>3, <2>4, <3>1, <4>1 DEF ActionsKept, Idle
  <2>9. Counts'
    <3>1. \A s \in Sends : action'[s] # "calling" => job'[s].at = "none" \/ lost'
      BY <1>0, <2>1, <2>3, <2>4 DEF Counts, Idle, historyVars, StreamShapes
    <3>2. ASSUME ~ lost' PROVE nextSequence' = sendSequence' + Cardinality(Owed')
      <4>1. nextSequence = sendSequence + n /\ n \in Nat /\ sendSequence \in Nat
        BY <1>1, <1>2, <2>1, <3>2 DEF Counts, historyVars, StreamShapes
      <4>2. Owed' = Owed \ {a}
        BY <1>0, <2>3 DEF Owed, Idle
      <4>3. CASE outcome = "accepted"
        <5>1. a \in Owed
          BY <2>1, <2>2, <4>3 DEF Owed, outcome
        <5>2. Cardinality(Owed') = n - 1
          BY <1>1, <4>2, <5>1, FS_RemoveElement
        <5> HIDE DEF n
        <5> QED
          BY <2>1, <4>1, <4>3, <5>2 DEF providerVars
      <4>4. CASE outcome # "accepted"
        <5>1. a \notin Owed
          BY <4>4 DEF Owed, outcome
        <5>2. Owed' = Owed
          BY <4>2, <5>1
        <5> QED
          BY <2>1, <4>1, <4>4, <5>2 DEF providerVars
      <4> QED
        BY <4>3, <4>4
    <3> QED
      BY <2>1, <3>1, <3>2 DEF Counts, providerVars, historyVars
  <2>10. InOrder'
    <3>1. \A s \in Sends : (UnderWay(s))' => UnderWay(s)
      BY <1>0, <2>3, <2>4 DEF UnderWay, Idle
    <3>2. \A s \in Sends : job'[s].at = "serving" => job'[s] = job[s]
      BY <1>0, <2>3 DEF Idle
    <3> QED
      BY <2>1, <3>1, <3>2 DEF InOrder, historyVars, providerVars
  <2>11. EndsKnown'
    <3>1. answer[a] = "none"
      BY <2>1 DEF ActionsKept
    <3>2. closed' => cancelling' # "no" \/ \E b \in Actions : EndsSession(answer'[b])
      BY <2>1, <2>4, <2>5, <3>1 DEF EndsKnown, EndsSession
    <3>3. outcome = "terminal" => entry # "open"
      BY <2>1 DEF EndsKnown, outcome
    <3> QED
      BY <2>1, <2>3, <2>4, <2>5, <3>2, <3>3 DEF EndsKnown, EndsSession, Idle, providerVars
  <2> QED
    BY <2>6, <2>7, <2>8, <2>9, <2>10, <2>11
\* An action that starts is refused at once, or the host is called for it.
<1>7. ASSUME Start(a), overlapped' \in BOOLEAN, overlapped => overlapped',
             a \in Receives \/ (overlapped' \/ ~ \E t \in Sends : UnderWay(t))
      PROVE  StreamInv'
  <2>1. /\ opening = "open" /\ action[a] = "idle" /\ job[a] = Idle /\ answer[a] = "none"
        /\ UNCHANGED <<parent, opening, closed, listed, cancelling, sendSequence,
                       providerVars, accepted, lost>>
    BY <1>7 DEF Start, ActionsKept
  <2>2. Unopened'
    BY <2>1 DEF Unopened
  <2>3. ASSUME action' = [action EXCEPT ![a] = "done"], job' = job,
               answer' = [answer EXCEPT ![a] = IF closed THEN "violation" ELSE "exhausted"]
        PROVE  StreamInv'
    <3>1. /\ answer' \in [Actions -> StreamOutcomes]
          /\ answer'[a] = (IF closed THEN "violation" ELSE "exhausted")
          /\ \A b \in Actions \ {a} : answer'[b] = answer[b]
          /\ action' \in [Actions -> {"idle", "calling", "done"}] /\ action'[a] = "done"
          /\ \A b \in Actions \ {a} : action'[b] = action[b]
      BY <2>3 DEF StreamShapes, StreamOutcomes
    <3>2. StreamShapes'
      BY <1>7, <2>1, <2>3, <3>1 DEF providerVars, StreamShapes
    <3>3. ActionsKept'
      <4>1. sendSequence' \in Nat /\ sendSequence' <= Cardinality(DoneSends')
        BY <1>4, <2>1, <2>3
      <4> QED
        <5>1. Queued'
          BY <2>1, <2>3, QueuedKept DEF ActionsKept, providerVars
        <5> QED
          BY <2>3, <3>1, <4>1, <5>1 DEF ActionsKept
    <3>4. Counts'
      <4>1. Owed' = Owed
        BY <2>3 DEF Owed
      <4>2. \A s \in Sends : action'[s] # "calling" => action[s] # "calling"
        BY <1>0, <2>1, <3>1
      <4> QED
        BY <2>1, <2>3, <4>1, <4>2 DEF Counts, providerVars
    <3>5. InOrder'
      <4>1. \A s \in Sends : (UnderWay(s))' => UnderWay(s)
        BY <1>0, <2>3, <3>1 DEF UnderWay
      <4> QED
        BY <1>7, <2>1, <2>3, <4>1 DEF InOrder, providerVars
    <3>6. EndsKnown'
      BY <2>1, <2>3, <3>1 DEF EndsKnown, EndsSession, providerVars
    <3> QED
      BY <2>2, <3>2, <3>3, <3>4, <3>5, <3>6
  <2>4. ASSUME action' = [action EXCEPT ![a] = "calling"], answer' = answer,
               job' = [job EXCEPT ![a] = Relaying(sendSequence)]
        PROVE  StreamInv'
    <3>1. /\ job' \in [Jobs -> JobShape] /\ job'[a] = Relaying(sendSequence)
          /\ job'["cancel"] = job["cancel"] /\ \A b \in Actions \ {a} : job'[b] = job[b]
          /\ action' \in [Actions -> {"idle", "calling", "done"}] /\ action'[a] = "calling"
          /\ \A b \in Actions \ {a} : action'[b] = action[b]
      BY <1>0, <1>3, <2>4 DEF StreamShapes
    <3>2. StreamShapes'
      BY <1>7, <2>1, <2>4, <3>1 DEF providerVars, StreamShapes
    <3>3. DoneSends' = DoneSends /\ Owed' = Owed
      BY <1>0, <2>1, <3>1 DEF DoneSends, Owed, Relaying, Idle
    <3>4. ActionsKept'
      <4>1. Queued'
        BY <1>0, <2>1, <3>1, QueuedKept DEF ActionsKept, providerVars, Idle
      <4>2. \A r \in Receives : job'[r].outcome # "accepted"
        BY <1>0, <3>1 DEF ActionsKept, Relaying
      <4> QED
        BY <1>0, <2>1, <2>4, <3>1, <3>3, <4>1, <4>2 DEF ActionsKept
    <3>5. Counts'
      BY <1>0, <2>1, <3>1, <3>3 DEF Counts, providerVars
    <3>6. InOrder'
      <4> SUFFICES ASSUME ~ overlapped' PROVE InOrder'
        BY DEF InOrder
      <4>1. ~ overlapped
        BY <1>7
      <4>2. CASE a \in Receives
        <5>1. \A s \in Sends : job'[s] = job[s] /\ action'[s] = action[s]
          BY <1>0, <3>1, <4>2
        <5> QED
          BY <2>1, <4>1, <5>1 DEF InOrder, UnderWay, providerVars
      <4>3. CASE ~ \E t \in Sends : UnderWay(t)
        <5>1. \A s \in Sends : (UnderWay(s))' => s = a
          BY <1>0, <3>1, <4>3 DEF UnderWay
        <5>2. \A s \in Sends : job'[s].at # "serving"
          BY <1>0, <3>1, <4>3 DEF UnderWay, Relaying
        <5> QED
          BY <2>1, <4>1, <5>1, <5>2 DEF InOrder, providerVars
      <4> QED
        BY <1>7, <4>2, <4>3
    <3>7. EndsKnown'
      BY <2>1, <2>4, <3>1 DEF EndsKnown, Relaying, providerVars
    <3> QED
      BY <2>2, <3>2, <3>4, <3>5, <3>6, <3>7
  <2> QED
    BY <1>7, <2>3, <2>4 DEF Start
<1>8. CASE a \in Sends /\ StartSend(a)
  BY <1>7, <1>8 DEF StartSend, StreamShapes
<1>9. CASE a \in Receives /\ StartReceive(a)
  BY <1>7, <1>9 DEF StartReceive, StreamShapes
<1> QED
  BY <1>5, <1>6, <1>8, <1>9

LEMMA ProviderPreserves ==
  ASSUME StreamInv,
         \/ \E s \in Sends : SendArrives(s) \/ SendServed(s)
         \/ \E r \in Receives : ReceiveArrives(r)
         \/ ReceiveServed
  PROVE  StreamInv'
<1> USE DEF StreamInv
<1>0. /\ "cancel" \notin Actions /\ "cancel" \in Jobs /\ Actions \subseteq Jobs
      /\ Sends \subseteq Actions /\ Receives \subseteq Actions /\ Sends \cap Receives = {}
      /\ job \in [Jobs -> JobShape]
  BY StreamAssumption DEF Jobs, StreamShapes, Actions
<1>1. \A o \in StreamOutcomes : /\ Answered(o) \in JobShape /\ Answered(o).at = "answered"
                                /\ Answered(o).outcome = o
  BY SendsFinite DEF Answered, JobShape, JobPlaces
\* A job moves on at the provider.
<1>2. ASSUME NEW a \in Actions, NEW v \in JobShape, job[a].at \in {"host", "serving"},
             v.at \in {"serving", "answered"}, job' = [job EXCEPT ![a] = v]
      PROVE  /\ opening # "calling"
             /\ job' \in [Jobs -> JobShape] /\ job'[a] = v /\ job'["cancel"] = job["cancel"]
             /\ \A b \in Actions \ {a} : job'[b] = job[b]
  BY <1>0, <1>2 DEF Unopened, Idle
<1>3. ASSUME NEW a \in Actions, NEW v \in JobShape, job[a].at \in {"host", "serving"},
             v.at \in {"serving", "answered"}, job' = [job EXCEPT ![a] = v],
             v.outcome = "terminal" /\ v.at = "answered" => entry' # "open",
             entry' = "open" => entry = "open",
             consumerVars' = consumerVars, lost' = lost, overlapped' = overlapped
      PROVE  EndsKnown' /\ Unopened'
  <2>0. /\ opening # "calling" /\ job'[a] = v /\ job'["cancel"] = job["cancel"]
        /\ \A b \in Actions \ {a} : job'[b] = job[b]
    BY <1>2, <1>3
  <2>1. Unopened'
    BY <1>3, <2>0 DEF consumerVars, Unopened
  <2>2. EndsKnown'
    BY <1>3, <2>0 DEF consumerVars, EndsKnown
  <2> QED
    BY <2>1, <2>2
<1>4. ASSUME NEW s \in Sends, SendArrives(s) PROVE StreamInv'
  <2>1. /\ job[s].at = "host" /\ UNCHANGED <<consumerVars, providerVars, historyVars>>
        /\ job[s] \in JobShape
    BY <1>0, <1>4 DEF SendArrives
  <2>2. PICK v \in JobShape :
               /\ job' = [job EXCEPT ![s] = v]
               /\ \/ v.at = "answered" /\ v.outcome \in {"violation", "error"}
                  \/ v.at = "serving" /\ v.sequence = nextSequence
    <3>1. CASE job' = [job EXCEPT ![s] = Answered("violation")]
      BY <1>1, <3>1 DEF StreamOutcomes
    <3>2. CASE job' = [job EXCEPT ![s] = Answered("error")]
      BY <1>1, <3>2 DEF StreamOutcomes
    <3>3. ASSUME InSequence(s), job' = [job EXCEPT ![s].at = "serving"]
          PROVE  \E v \in JobShape : /\ job' = [job EXCEPT ![s] = v]
                                     /\ v.at = "serving" /\ v.sequence = nextSequence
      <4> DEFINE v == [job[s] EXCEPT !.at = "serving"]
      <4>1. v \in JobShape /\ v.at = "serving" /\ v.sequence = nextSequence
        BY <2>1, <3>3 DEF JobShape, JobPlaces, InSequence
      <4>2. job' = [job EXCEPT ![s] = v]
        BY <3>3
      <4> HIDE DEF v
      <4> QED
        BY <4>1, <4>2
    <3> QED
      BY <1>4, <3>1, <3>2, <3>3 DEF SendArrives, Reply
  <2>3. /\ opening # "calling" /\ job' \in [Jobs -> JobShape] /\ job'[s] = v
        /\ job'["cancel"] = job["cancel"] /\ \A b \in Actions \ {s} : job'[b] = job[b]
    BY <1>0, <1>2, <2>1, <2>2
  <2>4. StreamShapes'
    BY <2>1, <2>3 DEF StreamShapes, consumerVars, providerVars, historyVars
  <2>5. EndsKnown' /\ Unopened'
    BY <1>0, <1>3, <2>1, <2>2 DEF providerVars, historyVars
  <2>6. Owed' = Owed /\ DoneSends' = DoneSends
    BY <1>0, <2>1, <2>2, <2>3 DEF Owed, DoneSends, consumerVars
  <2>7. ActionsKept'
    <3>1. action[s] # "idle"
      BY <1>0, <2>1 DEF ActionsKept, Idle
    <3> QED
      <4>1. Queued'
        BY <1>0, <2>1, <2>3, QueuedKept DEF ActionsKept, providerVars
      <4> QED
        BY <1>0, <2>1, <2>3, <2>6, <3>1, <4>1 DEF ActionsKept, consumerVars
  <2>8. Counts'
    BY <1>0, <2>1, <2>3, <2>6 DEF Counts, consumerVars, providerVars, historyVars
  <2>9. InOrder'
    <3>1. \A t \in Sends : (UnderWay(t))' => UnderWay(t)
      BY <1>0, <2>1, <2>3 DEF UnderWay, consumerVars
    <3>2. \A t \in Sends : job'[t].at = "serving" =>
            job'[t] = job[t] \/ job'[t].sequence = nextSequence
      BY <1>0, <2>2, <2>3
    <3> QED
      BY <2>1, <3>1, <3>2 DEF InOrder, providerVars, historyVars
  <2> QED
    BY <2>4, <2>5, <2>7, <2>8, <2>9
\* The provider answers a send.
<1>5. ASSUME NEW s \in Sends, SendServed(s) PROVE StreamInv'
  <2> DEFINE n == Cardinality(Owed)
  <2>1. /\ job[s].at = "serving" /\ job[s] \in JobShape /\ action[s] # "idle"
        /\ UNCHANGED <<consumerVars, entry, aborted, iterator, left, waiting, overlapped, lost>>
    BY <1>0, <1>5 DEF SendServed, ActionsKept, Idle
  <2>2. PICK outcome \in {"accepted", "failure"} :
          /\ job' = [job EXCEPT ![s] = Answered(outcome)]
          /\ nextSequence' = IF outcome = "accepted" THEN nextSequence + 1 ELSE nextSequence
          /\ accepted' = IF outcome = "accepted" THEN Append(accepted, job[s].sequence)
                                                 ELSE accepted
    BY <1>5 DEF SendServed, Reply
  <2>3. /\ Answered(outcome) \in JobShape /\ Answered(outcome).at = "answered"
        /\ Answered(outcome).outcome = outcome
    BY <1>1 DEF StreamOutcomes
  <2>4. /\ opening # "calling" /\ job' \in [Jobs -> JobShape] /\ job'[s] = Answered(outcome)
        /\ job'["cancel"] = job["cancel"] /\ \A b \in Actions \ {s} : job'[b] = job[b]
    BY <1>0, <1>2, <2>1, <2>2, <2>3
  <2>5. StreamShapes'
    BY <2>1, <2>4 DEF StreamShapes, consumerVars
  <2>6. EndsKnown' /\ Unopened'
    BY <1>0, <1>3, <2>1, <2>2, <2>3
  <2>7. ActionsKept'
    <3>1. DoneSends' = DoneSends
      BY <2>1 DEF DoneSends, consumerVars
    <3> QED
      <4>1. Queued'
        BY <1>0, <2>1, <2>4, QueuedKept DEF ActionsKept
      <4> QED
        BY <1>0, <2>1, <2>4, <3>1, <4>1 DEF ActionsKept, consumerVars
  <2>8. /\ accepted' \in Seq(Nat) /\ nextSequence' = Len(accepted')
        /\ accepted \in Seq(Nat) /\ nextSequence = Len(accepted) /\ nextSequence \in Nat
    <3>1. job[s].sequence \in Nat /\ accepted \in Seq(Nat) /\ nextSequence = Len(accepted)
      BY <2>1, SendsFinite DEF JobShape, Counts
    <3> QED
      BY <2>2, <3>1
  <2>9. Counts'
    <3>1. ASSUME ~ lost' PROVE nextSequence' = sendSequence' + Cardinality(Owed')
      <4>1. s \notin Owed /\ nextSequence = sendSequence + n
            /\ sendSequence \in Nat /\ sendSequence' = sendSequence
        BY <2>1, <3>1 DEF Owed, Counts, ActionsKept, consumerVars
      <4>2. IsFiniteSet(Owed) /\ n \in Nat
        BY SendsFinite DEF Owed
      <4>3. CASE outcome = "accepted"
        <5>1. Owed' = Owed \cup {s}
          BY <1>0, <2>3, <2>4, <4>3 DEF Owed
        <5>2. Cardinality(Owed') = n + 1
          BY <4>1, <4>2, <5>1, FS_AddElement
        <5> HIDE DEF n
        <5> QED
          BY <2>2, <4>1, <4>2, <4>3, <5>2
      <4>4. CASE outcome # "accepted"
        <5>1. Owed' = Owed
          BY <1>0, <2>3, <2>4, <4>1, <4>4 DEF Owed
        <5> QED
          BY <2>2, <4>1, <4>4, <5>1
      <4> QED
        BY <4>3, <4>4
    <3>2. ASSUME ~ lost', NEW t \in Sends, action'[t] # "calling" PROVE job'[t].at = "none"
      BY <1>0, <2>1, <2>4, <3>2 DEF Counts, consumerVars
    <3> QED
      BY <2>8, <3>1, <3>2 DEF Counts
  <2>10. InOrder'
    <3> SUFFICES ASSUME ~ overlapped' PROVE InOrder'
      BY DEF InOrder
    <3>1. /\ job[s].sequence = nextSequence
          /\ \A t, u \in Sends : UnderWay(t) /\ UnderWay(u) => t = u
          /\ \A i \in 1 .. Len(accepted) : accepted[i] = i - 1
      BY <2>1 DEF InOrder
    <3>2. \A t \in Sends : (UnderWay(t))' => UnderWay(t)
      BY <1>0, <2>1, <2>3, <2>4 DEF UnderWay, consumerVars
    <3>3. \A t \in Sends : job'[t].at # "serving"
      BY <1>0, <2>1, <2>3, <2>4, <3>1 DEF UnderWay
    <3>4. \A i \in 1 .. Len(accepted') : accepted'[i] = i - 1
      BY <2>2, <2>8, <3>1
    <3> QED
      BY <3>1, <3>2, <3>3, <3>4 DEF InOrder
  <2> QED
    BY <2>5, <2>6, <2>7, <2>9, <2>10
\* A receive moves on: the sends are not concerned.
<1>6. ASSUME NEW r \in Receives, NEW v \in JobShape, job[r].at \in {"host", "serving"},
             v.at \in {"serving", "answered"}, v.outcome # "accepted",
             job' = [job EXCEPT ![r] = v],
             v.outcome = "terminal" /\ v.at = "answered" => entry' # "open",
             entry' = "open" => entry = "open", entry' \in {"none", "open", "gone"},
             iterator' \in {"running", "ended"}, left' \in 0 .. Messages,
             waiting' \in Seq(Receives),
             Queued',
             UNCHANGED <<consumerVars, nextSequence, aborted, historyVars>>
      PROVE  StreamInv'
  <2>1. /\ opening # "calling" /\ job' \in [Jobs -> JobShape] /\ job'[r] = v
        /\ job'["cancel"] = job["cancel"] /\ \A b \in Actions \ {r} : job'[b] = job[b]
    BY <1>0, <1>2, <1>6
  <2>2. \A s \in Sends : job'[s] = job[s]
    BY <1>0, <2>1
  <2>3. StreamShapes'
    BY <1>6, <2>1 DEF StreamShapes, consumerVars, historyVars
  <2>4. EndsKnown' /\ Unopened'
    BY <1>0, <1>3, <1>6 DEF historyVars
  <2>5. Owed' = Owed /\ DoneSends' = DoneSends /\ action[r] # "idle"
    BY <1>0, <1>6, <2>2 DEF Owed, DoneSends, consumerVars, ActionsKept, Idle
  <2>6. ActionsKept'
    BY <1>0, <1>6, <2>1, <2>5 DEF ActionsKept, consumerVars
  <2>7. Counts'
    BY <1>6, <2>2, <2>5 DEF Counts, consumerVars, historyVars
  <2>8. InOrder'
    BY <1>6, <2>2 DEF InOrder, UnderWay, consumerVars, historyVars
  <2> QED
    BY <2>3, <2>4, <2>6, <2>7, <2>8
<1>7. ASSUME NEW r \in Receives, ReceiveArrives(r) PROVE StreamInv'
  <2>1. /\ job[r].at = "host" /\ job[r] \in JobShape /\ job[r].outcome # "accepted"
        /\ waiting \in Seq(Receives)
        /\ \A i \in 1 .. Len(waiting) : waiting[i] \in Receives /\ waiting[i] # r
        /\ UNCHANGED <<consumerVars, entry, nextSequence, aborted, iterator, left, historyVars>>
    BY <1>0, <1>7 DEF ReceiveArrives, ActionsKept, Queued, StreamShapes
  <2>2. ASSUME NEW o \in {"violation", "failure"},
               job' = [job EXCEPT ![r] = Answered(o)] /\ UNCHANGED waiting
        PROVE  StreamInv'
    <3>1. /\ Answered(o) \in JobShape /\ Answered(o).at = "answered"
          /\ Answered(o).outcome = o
      BY <1>1 DEF StreamOutcomes
    <3>2. \A i \in 1 .. Len(waiting') : job'[waiting'[i]].at = "serving"
      BY <1>0, <2>1, <2>2 DEF ActionsKept, Queued
    <3>3. \A i, j \in 1 .. Len(waiting') : waiting'[i] = waiting'[j] => i = j
      BY <2>2 DEF ActionsKept, Queued
    <3>4. entry' \in {"none", "open", "gone"} /\ iterator' \in {"running", "ended"}
          /\ left' \in 0 .. Messages /\ waiting' \in Seq(Receives)
      BY <2>1, <2>2 DEF StreamShapes
    <3> QED
      BY <1>6, <2>1, <2>2, <3>1, <3>2, <3>3, <3>4 DEF Queued
  <2>3. CASE /\ job' = [job EXCEPT ![r].at = "serving"]
             /\ waiting' = Append(waiting, r)
    <3> DEFINE v == [job[r] EXCEPT !.at = "serving"]
    <3>1. v \in JobShape /\ v.at = "serving" /\ v.outcome # "accepted"
      BY <2>1 DEF JobShape, JobPlaces
    <3>2. job' = [job EXCEPT ![r] = v]
      BY <2>3
    <3> HIDE DEF v
    <3>3. /\ waiting' \in Seq(Receives) /\ Len(waiting') = Len(waiting) + 1
          /\ \A i \in 1 .. Len(waiting) : waiting'[i] = waiting[i]
          /\ waiting'[Len(waiting) + 1] = r /\ Len(waiting) \in Nat
      BY <2>1, <2>3
    <3>4. \A i \in 1 .. Len(waiting') : job'[waiting'[i]].at = "serving"
      BY <1>0, <2>1, <3>1, <3>2, <3>3 DEF ActionsKept, Queued
    <3>5. \A i, j \in 1 .. Len(waiting') : waiting'[i] = waiting'[j] => i = j
      BY <2>1, <3>3 DEF ActionsKept, Queued
    <3>6. entry' \in {"none", "open", "gone"} /\ iterator' \in {"running", "ended"}
          /\ left' \in 0 .. Messages
      BY <2>1 DEF StreamShapes
    <3> QED
      BY <1>6, <2>1, <3>1, <3>2, <3>3, <3>4, <3>5, <3>6 DEF Queued
  <2> QED
    BY <1>7, <2>2, <2>3 DEF ReceiveArrives, Reply
<1>8. CASE ReceiveServed
  <2> DEFINE r == Head(waiting)
  <2>1. /\ waiting # <<>> /\ waiting \in Seq(Receives)
        /\ waiting' = Tail(waiting)
        /\ UNCHANGED <<consumerVars, nextSequence, aborted, historyVars>>
    BY <1>8 DEF ReceiveServed, StreamShapes
  <2>2. /\ Len(waiting) \in Nat /\ Len(waiting) >= 1 /\ r = waiting[1] /\ r \in Receives
        /\ waiting' \in Seq(Receives) /\ Len(waiting') = Len(waiting) - 1
        /\ \A i \in 1 .. Len(waiting') : waiting'[i] = waiting[i + 1]
    BY <2>1
  <2>3. job[r].at = "serving"
    BY <2>2 DEF ActionsKept, Queued
  <2>4. PICK outcome \in {"message", "terminal", "failure"} :
          /\ outcome = "message" => left > 0
          /\ left' = IF outcome = "message" THEN left - 1 ELSE left
          /\ iterator' = IF outcome = "message" THEN iterator ELSE "ended"
          /\ IF aborted THEN Reply(r, "failure") /\ UNCHANGED entry
                        ELSE Reply(r, outcome)
                             /\ entry' = IF outcome = "terminal" THEN "gone" ELSE entry
    BY <1>8 DEF ReceiveServed
  <2>5. left' \in 0 .. Messages /\ iterator' \in {"running", "ended"}
    BY <2>4, StreamAssumption DEF StreamShapes
  <2> HIDE DEF r
  <2>6. ASSUME NEW o \in {"message", "terminal", "failure"}, Reply(r, o),
               o = "terminal" => entry' = "gone", entry' = entry \/ entry' = "gone",
               entry' = "open" => entry = "open"
        PROVE  StreamInv'
    <3> DEFINE v == Answered(o)
    <3>1. v \in JobShape /\ v.at = "answered" /\ v.outcome = o
      BY <1>1 DEF StreamOutcomes
    <3>2. job' = [job EXCEPT ![r] = v]
      BY <2>6 DEF Reply
    <3> HIDE DEF v
    <3>3. \A i \in 1 .. Len(waiting') : waiting'[i] # r /\ waiting'[i] \in Receives
      <4> SUFFICES ASSUME NEW i \in 1 .. Len(waiting')
                   PROVE  waiting'[i] # r /\ waiting'[i] \in Receives
        OBVIOUS
      <4>1. /\ i + 1 \in 1 .. Len(waiting) /\ 1 \in 1 .. Len(waiting) /\ i + 1 # 1
            /\ waiting'[i] = waiting[i + 1]
        BY <2>2
      <4>2. waiting[i + 1] # waiting[1]
        BY <4>1 DEF ActionsKept, Queued
      <4>3. waiting'[i] \in Receives
        BY <2>1, <4>1
      <4> QED
        BY <2>2, <4>1, <4>2, <4>3
    <3>4. \A i \in 1 .. Len(waiting') : job'[waiting'[i]].at = "serving"
      BY <1>0, <2>2, <3>2, <3>3 DEF ActionsKept, Queued
    <3>5. ASSUME NEW i \in 1 .. Len(waiting'), NEW j \in 1 .. Len(waiting'),
                 waiting'[i] = waiting'[j]
          PROVE  i = j
      <4>1. /\ i + 1 \in 1 .. Len(waiting) /\ j + 1 \in 1 .. Len(waiting)
            /\ waiting[i + 1] = waiting[j + 1]
        BY <2>2, <3>5
      <4>2. i + 1 = j + 1
        BY <4>1 DEF ActionsKept, Queued
      <4> QED
        BY <2>2, <4>2
    <3>6. entry' \in {"none", "open", "gone"}
      BY <2>6 DEF StreamShapes
    <3> QED
      BY <1>6, <2>1, <2>2, <2>3, <2>5, <2>6, <3>1, <3>2, <3>4, <3>5, <3>6 DEF Queued
  <2> QED
    BY <2>4, <2>6
<1> QED
  BY <1>4, <1>5, <1>7, <1>8

\* The stream's invariant holds in every step of either part.
LEMMA StreamPreserves == StreamInv /\ [StreamNext]_streamVars => StreamInv'
<1> SUFFICES ASSUME StreamInv, [StreamNext]_streamVars PROVE StreamInv'
  OBVIOUS
<1>1. CASE UNCHANGED streamVars
  BY <1>1 DEF streamVars, StreamInv, StreamShapes, Unopened, ActionsKept, Queued, DoneSends,
     Counts, Owed, InOrder, UnderWay, EndsKnown
<1>2. CASE \/ Opened \/ OpenRefused \/ ParentAborts \/ PluginCancels
           \/ CancelReturns \/ CancelFails \/ CancelArrives \/ CancelServed
  BY <1>2, SessionPreserves
<1>3. CASE \/ \E s \in Sends : SendArrives(s) \/ SendServed(s)
           \/ \E r \in Receives : ReceiveArrives(r)
           \/ ReceiveServed
  BY <1>3, ProviderPreserves
<1>4. CASE \/ \E s \in Sends : StartSend(s)
           \/ \E r \in Receives : StartReceive(r)
           \/ \E a \in Actions : CallReturns(a) \/ CallFails(a)
  BY <1>4, ActionsPreserve DEF Actions
<1> QED
  BY <1>1, <1>2, <1>3, <1>4 DEF StreamNext

LEMMA StreamAlways == Spec => []StreamInv
<1>1. Init => StreamInv
  BY StreamStarts DEF Init
<1>2. StreamInv /\ [Next]_vars => StreamInv'
  BY StreamPreserves DEF Next, vars
<1> QED
  BY <1>1, <1>2, PTL DEF Spec

\* The two ends of a stream agree on the next sequence number whenever no send
\* is under way and no call failed, every number is accepted once and in order
\* while sends do not overlap, and a stream that is done with is forgotten by
\* its provider: for any number of sends and receives.
THEOREM StreamsAreSafe == Spec => []StreamSafety
<1> QED
  BY StreamTypes, StreamAlways, PTL

\* No action starts on a session whose plugin was told of a failure.
LEMMA FailedStaysClosed ==
  StreamInv /\ [StreamNext]_streamVars =>
    \A a, b \in Actions :
      answer[a] \in {"failure", "violation"} /\ action[b] = "idle" => action'[b] # "calling"
<1> SUFFICES ASSUME StreamInv, [StreamNext]_streamVars, NEW a \in Actions, NEW b \in Actions,
                    answer[a] \in {"failure", "violation"}, action[b] = "idle"
             PROVE  action'[b] # "calling"
  OBVIOUS
<1>1. closed /\ action \in [Actions -> {"idle", "calling", "done"}]
  BY DEF StreamInv, EndsKnown, StreamShapes
<1>2. \/ UNCHANGED action
      \/ \E c \in Actions : action' = [action EXCEPT ![c] = "done"]
  <2>1. ASSUME NEW c \in Actions, Start(c) PROVE action' = [action EXCEPT ![c] = "done"]
    BY <1>1, <2>1 DEF Start
  <2>2. CASE UNCHANGED streamVars
    BY <2>2 DEF streamVars
  <2>3. CASE \/ Opened \/ OpenRefused \/ ParentAborts \/ PluginCancels
             \/ CancelReturns \/ CancelFails \/ CancelArrives \/ CancelServed \/ ReceiveServed
    BY <2>3 DEF Opened, OpenRefused, ParentAborts, PluginCancels, CancelReturns, CancelFails,
       CancelArrives, CancelServed, ReceiveServed, consumerVars
  <2>4. CASE \/ \E s \in Sends : SendArrives(s) \/ SendServed(s)
             \/ \E r \in Receives : ReceiveArrives(r)
    BY <2>4 DEF SendArrives, SendServed, ReceiveArrives, consumerVars
  <2>5. CASE \E c \in Actions : CallReturns(c) \/ CallFails(c)
    BY <2>5 DEF CallReturns, CallFails
  <2>6. CASE (\E s \in Sends : StartSend(s)) \/ (\E r \in Receives : StartReceive(r))
    BY <2>1, <2>6 DEF StartSend, StartReceive, Actions
  <2> QED
    BY <2>2, <2>3, <2>4, <2>5, <2>6 DEF StreamNext
<1> QED
  BY <1>1, <1>2

\* A plugin that was told of a failure starts no further action on the session.
THEOREM FailuresAreFinal == Spec => FailureIsFinal
<1>1. StreamInv /\ [Next]_vars =>
        [\A a, b \in Actions :
           answer[a] \in {"failure", "violation"} /\ action[b] = "idle"
             => action'[b] # "calling"]_streamVars
  BY FailedStaysClosed DEF Next, vars
<1> QED
  BY <1>1, StreamAlways, PTL DEF Spec, FailureIsFinal

(***************************************************************************)
(* A legacy plugin's server: the ids it has retired                        *)
(***************************************************************************)

\* The latest ids that were retired are where their ages say.
Remembered ==
  /\ retired \in Seq(Ids) /\ Len(retired) <= MaxRetired
  /\ since \in [Ids -> 0 .. MaxRetired]
  /\ \A j \in Ids : since[j] < MaxRetired =>
       /\ since[j] < Len(retired)
       /\ retired[Len(retired) - since[j]] = j

\* What making room for an id leaves.
LEMMA EvictDoes ==
  ASSUME NEW ids \in Seq(Ids), Len(ids) <= MaxRetired
  PROVE  /\ Evict(ids) \in Seq(Ids)
         /\ Len(Evict(ids)) = (IF Len(ids) >= MaxRetired THEN Len(ids) - 1 ELSE Len(ids))
         /\ \A k \in 1 .. Len(Evict(ids)) :
              Evict(ids)[k] = IF Len(ids) >= MaxRetired THEN ids[k + 1] ELSE ids[k]
<1>0. MaxRetired \in Nat /\ MaxRetired > 0 /\ Len(ids) \in Nat
  BY LegacyAssumption
<1>1. CASE Len(ids) >= MaxRetired
  <2>1. ids # <<>>
    BY <1>0, <1>1
  <2>2. /\ Tail(ids) \in Seq(Ids) /\ Len(Tail(ids)) = Len(ids) - 1
        /\ \A k \in 1 .. Len(Tail(ids)) : Tail(ids)[k] = ids[k + 1]
    BY <2>1
  <2> QED
    BY <1>1, <2>2 DEF Evict
<1>2. CASE ~ (Len(ids) >= MaxRetired)
  BY <1>2 DEF Evict
<1> QED
  BY <1>1, <1>2

LEMMA RetireKeeps ==
  ASSUME Remembered, NEW i \in Ids, Retire(i)
  PROVE  /\ Remembered'
         /\ Retired' \subseteq Retired \cup {i}
<1> DEFINE e == Evict(retired)
           n == Len(e)
<1>0. /\ MaxRetired \in Nat /\ MaxRetired > 0 /\ Len(retired) \in Nat
      /\ Len(retired) <= MaxRetired /\ retired \in Seq(Ids)
  BY LegacyAssumption DEF Remembered
<1>1. /\ e \in Seq(Ids)
      /\ n = (IF Len(retired) >= MaxRetired THEN Len(retired) - 1 ELSE Len(retired))
      /\ \A k \in 1 .. n :
           e[k] = IF Len(retired) >= MaxRetired THEN retired[k + 1] ELSE retired[k]
  BY <1>0, EvictDoes
<1>2. retired' = Append(e, i)
  BY DEF Retire
<1> HIDE DEF e
<1>3. /\ retired' \in Seq(Ids) /\ Len(retired') = n + 1
      /\ \A k \in 1 .. n : retired'[k] = e[k]
      /\ retired'[n + 1] = i
      /\ n \in Nat
  BY <1>1, <1>2
<1> HIDE DEF n
<1>4. Len(retired') <= MaxRetired
  BY <1>0, <1>1, <1>3
<1>5. since' \in [Ids -> 0 .. MaxRetired]
  BY <1>0 DEF Retire, Remembered
<1>6. ASSUME NEW j \in Ids, since'[j] < MaxRetired
      PROVE  since'[j] < Len(retired') /\ retired'[Len(retired') - since'[j]] = j
  <2>1. CASE j = i
    <3>1. since'[j] = 0
      BY <2>1 DEF Retire
    <3> QED
      BY <1>3, <2>1, <3>1
  <2>2. CASE j # i
    <3> DEFINE s == since[j]
               k == n + 1 - (s + 1)
    <3>1. s \in 0 .. MaxRetired
      BY DEF Remembered
    <3>2. since'[j] = IF s = MaxRetired THEN MaxRetired ELSE s + 1
      BY <2>2 DEF Retire
    <3>3. s + 1 < MaxRetired /\ since'[j] = s + 1
      BY <1>0, <1>6, <3>1, <3>2
    <3>4. s < Len(retired) /\ retired[Len(retired) - s] = j
      BY <1>0, <3>1, <3>3 DEF Remembered
    <3> HIDE DEF s
    <3> DEFINE m == Len(retired)
    <3>5. k \in 1 .. n /\ s + 1 < n + 1
      <4>1. /\ m \in Nat /\ n \in Nat /\ s \in Nat /\ s < m /\ s + 1 < MaxRetired
            /\ n = m \/ (n = m - 1 /\ m >= MaxRetired)
        BY <1>0, <1>1, <1>3, <3>1, <3>3, <3>4
      <4> HIDE DEF m
      <4>2. s < n
        BY <1>0, <4>1
      <4> QED
        BY <4>1, <4>2
    <3>6. e[k] = retired[m - s]
      <4>1. CASE m >= MaxRetired
        <5>1. e[k] = retired[k + 1]
          BY <1>1, <3>5, <4>1
        <5>2. k + 1 = m - s
          BY <1>0, <1>1, <3>1, <4>1
        <5> QED
          BY <5>1, <5>2
      <4>2. CASE ~ (m >= MaxRetired)
        <5>1. e[k] = retired[k]
          BY <1>1, <3>5, <4>2
        <5>2. k = m - s
          BY <1>0, <1>1, <3>1, <4>2
        <5> QED
          BY <5>1, <5>2
      <4> QED
        BY <4>1, <4>2
    <3>7. Len(retired') - since'[j] = k
      BY <1>0, <1>3, <3>1, <3>3
    <3> HIDE DEF k
    <3> QED
      BY <1>3, <3>3, <3>4, <3>5, <3>6, <3>7
  <2> QED
    BY <2>1, <2>2
<1>7. Retired' \subseteq Retired \cup {i}
  <2> SUFFICES ASSUME NEW k \in 1 .. n + 1 PROVE retired'[k] \in Retired \cup {i}
    BY <1>3 DEF Retired
  <2>1. CASE k = n + 1
    BY <1>3, <2>1
  <2>2. CASE k \in 1 .. n
    <3>1. retired'[k] = IF Len(retired) >= MaxRetired THEN retired[k + 1] ELSE retired[k]
      BY <1>1, <1>3, <2>2
    <3>2. \/ k \in 1 .. Len(retired) /\ retired'[k] = retired[k]
          \/ k + 1 \in 1 .. Len(retired) /\ retired'[k] = retired[k + 1]
      BY <1>0, <1>1, <1>3, <2>2, <3>1
    <3>3. DOMAIN retired = 1 .. Len(retired)
      BY <1>0
    <3> QED
      BY <3>2, <3>3 DEF Retired
  <2> QED
    BY <1>3, <2>1, <2>2
<1> QED
  BY <1>3, <1>4, <1>5, <1>6, <1>7 DEF Remembered

(***************************************************************************)
(* The inductive invariant                                                 *)
(***************************************************************************)

\* What is active, and what is not accepted any more is cancelled.
RequestsKept ==
  /\ running \subseteq Ids /\ IsFiniteSet(running) /\ Cardinality(running) <= MaxConcurrent
  /\ cancelled \subseteq running /\ expired \subseteq running
  /\ running \cap Retired = {}
  /\ ~ accepting => running \subseteq cancelled

Creating == {a \in Activations : activation[a] = "creating"}

\* The activations, as long as none of them overlapped: one at a time, only
\* before there is an instance, and none once a shutdown was seen, which stopped
\* the instance there was.
NoneForgotten ==
  ~ raced =>
    /\ \A a, b \in Creating : a = b
    /\ Creating # {} => instance = "none"
    /\ made \subseteq {instance}
    /\ (\E m \in Shutdowns : shutdown[m] # "new") =>
         ~ accepting /\ Creating = {} /\ made \subseteq stopped

\* The clients are those of what the host admitted.
Bound == routes = <<>> \/ \E admitted \in Admissible : routes \in Clients(admitted)

Stages ==
  /\ session \in 0 .. MaxSessions
  /\ accepting \in BOOLEAN /\ listening \in BOOLEAN /\ raced \in BOOLEAN
  /\ instance \in Activations \cup {"none", "static"}
  /\ activation \in [Activations -> {"new", "creating", "done", "failed"}]
  /\ shutdown \in [Shutdowns -> {"new", "done", "failed", "static"} \cup Activations]
  /\ stopped \subseteq Activations \cup {"static"} /\ made \subseteq Activations

LegacyInv == Stages /\ Remembered /\ RequestsKept /\ NoneForgotten /\ Bound

LEMMA ClientsApart == Bound => ClientsOwnTheirImports
<1> SUFFICES ASSUME NEW admitted \in Admissible, routes \in Clients(admitted),
                    NEW d \in Dependencies, NEW e \in Dependencies
             PROVE  /\ routes[d].capability = d.capability
                    /\ routes[d] = routes[e] => d = e
                    /\ routes[d].requirement = e.requirement => d = e
  BY DEF Bound, ClientsOwnTheirImports
<1>1. /\ routes \in [Dependencies -> admitted]
      /\ \A x \in Dependencies : /\ routes[x] \in Candidates(x, admitted)
                                 /\ routes[x].capability = x.capability
      /\ \A x, y \in Dependencies : routes[x] = routes[y] => x = y
  BY DEF Clients
<1>2. ASSUME routes[d].requirement = e.requirement PROVE routes[d] = routes[e]
  <2>1. routes[d] \in admitted /\ routes[e] \in admitted
    BY <1>1
  <2>2. routes[d] \in Exact(e, admitted)
    BY <1>2, <2>1 DEF Exact
  <2>3. routes[e] \in Exact(e, admitted)
    BY <1>1, <2>2 DEF Candidates
  <2>4. routes[e].requirement = routes[d].requirement
    BY <1>2, <2>3 DEF Exact
  <2> QED
    BY <2>1, <2>4 DEF Admissible
<1> QED
  BY <1>1, <1>2

LEMMA LegacyTypes == LegacyInv => LegacySafety
<1> SUFFICES ASSUME LegacyInv PROVE LegacySafety
  OBVIOUS
<1>1. routes = <<>> \/ routes \in [Dependencies -> Imports]
  <2> SUFFICES ASSUME NEW admitted \in Admissible, routes \in Clients(admitted)
               PROVE  routes \in [Dependencies -> Imports]
    BY DEF LegacyInv, Bound
  <2>1. admitted \subseteq Imports /\ routes \in [Dependencies -> admitted]
    BY DEF Admissible, Clients
  <2> QED
    BY <2>1
<1>2. LegacyTypeOK
  BY <1>1 DEF LegacyInv, Stages, Remembered, RequestsKept, LegacyTypeOK
<1>3. InstancesAreStopped
  BY DEF LegacyInv, NoneForgotten, InstancesAreStopped
<1>4. ClientsOwnTheirImports
  BY ClientsApart DEF LegacyInv
<1> QED
  BY <1>2, <1>3, <1>4 DEF LegacySafety

LEMMA LegacyStarts == LegacyInit => LegacyInv
<1> SUFFICES ASSUME LegacyInit PROVE LegacyInv
  OBVIOUS
<1>1. Stages
  <2>1. 0 \in 0 .. MaxSessions
    BY LegacyAssumption
  <2> QED
    BY <2>1 DEF LegacyInit, Stages
<1>2. Creating = {} /\ Bound
  BY DEF LegacyInit, Creating, Bound
<1>3. NoneForgotten
  BY <1>2 DEF LegacyInit, NoneForgotten
<1>4. Remembered
  BY LegacyAssumption DEF LegacyInit, Remembered
<1>5. IsFiniteSet({}) /\ Cardinality({}) = 0
  BY FS_EmptySet
<1>6. RequestsKept
  BY <1>5, LegacyAssumption DEF LegacyInit, RequestsKept
<1> QED
  BY <1>1, <1>2, <1>3, <1>4, <1>6 DEF LegacyInv

LEMMA LegacyPreserves == LegacyInv /\ [LegacyNext]_legacyVars => LegacyInv'
<1> SUFFICES ASSUME LegacyInv, [LegacyNext]_legacyVars PROVE LegacyInv'
  OBVIOUS
<1> USE DEF LegacyInv
<1>0. /\ MaxRetired \in Nat /\ MaxConcurrent \in Nat /\ MaxSessions \in Nat
      /\ Activations \cap {"none", "static", "new", "done", "failed"} = {}
  BY LegacyAssumption
<1>1. CASE UNCHANGED legacyVars
  BY <1>1 DEF legacyVars, Stages, Remembered, RequestsKept, NoneForgotten, Bound, Creating, Retired
\* Steps that leave the requests alone, and those that only touch requests.
<1>2. ASSUME UNCHANGED requestVars, UNCHANGED accepting PROVE Remembered' /\ RequestsKept'
  BY <1>2 DEF requestVars, Remembered, RequestsKept, Retired
<1>3. ASSUME UNCHANGED <<accepting, listening, raced, lifecycleVars, stopVars>>
      PROVE  Stages' /\ NoneForgotten' /\ Bound'
  BY <1>3 DEF lifecycleVars, stopVars, Stages, NoneForgotten, Bound, Creating
<1>4. CASE Handshake
  <2>1. Stages'
    BY <1>0, <1>4 DEF Handshake, requestVars, stopVars, Stages
  <2>2. NoneForgotten' /\ Bound'
    BY <1>4 DEF Handshake, requestVars, stopVars, NoneForgotten, Bound, Creating
  <2> QED
    BY <1>2, <1>4, <2>1, <2>2 DEF Handshake
<1>5. ASSUME NEW a \in Activations, Activate(a) PROVE LegacyInv'
  <2>1. Stages'
    BY <1>5 DEF Activate, stopVars, Stages
  <2>2. Creating' = Creating \cup {a}
    BY <1>5 DEF Activate, Creating, Stages
  <2>3. NoneForgotten'
    <3> SUFFICES ASSUME ~ raced' PROVE NoneForgotten'
      BY DEF NoneForgotten
    <3>1. ~ raced /\ accepting /\ Creating = {} /\ instance = "none"
      BY <1>5 DEF Activate, Creating, Stages
    <3>2. /\ instance' = instance /\ made' = made /\ shutdown' = shutdown
          /\ accepting' = accepting /\ stopped' = stopped
      BY <1>5 DEF Activate, stopVars
    <3> QED
      BY <2>2, <3>1, <3>2 DEF NoneForgotten
  <2>4. Bound'
    BY <1>5 DEF Activate, Bound
  <2> QED
    BY <1>2, <1>5, <2>1, <2>3, <2>4 DEF Activate
<1>6. ASSUME NEW a \in Activations, CreateReturns(a) PROVE LegacyInv'
  <2>1. Stages'
    BY <1>6 DEF CreateReturns, stopVars, Stages
  <2>2. Creating' = Creating \ {a} /\ a \in Creating
    BY <1>6 DEF CreateReturns, Creating, Stages
  <2>3. NoneForgotten'
    <3> SUFFICES ASSUME ~ raced' PROVE NoneForgotten'
      BY DEF NoneForgotten
    <3>1. ~ raced /\ instance = "none" /\ Creating = {a} /\ made \subseteq {"none"}
          /\ ~ \E m \in Shutdowns : shutdown[m] # "new"
      BY <1>6, <2>2 DEF CreateReturns, NoneForgotten
    <3>2. made = {}
      BY <1>0, <3>1 DEF Stages
    <3>3. Creating' = {} /\ made' \subseteq {instance'} /\ shutdown' = shutdown
      BY <1>6, <2>2, <3>1, <3>2 DEF CreateReturns, stopVars
    <3> QED
      BY <3>1, <3>3 DEF NoneForgotten
  <2>4. Bound'
    BY <1>6 DEF CreateReturns, Bound
  <2> QED
    BY <1>2, <1>6, <2>1, <2>3, <2>4 DEF CreateReturns
<1>7. ASSUME NEW i \in Ids, Request(i) PROVE LegacyInv'
  <2>1. Stages' /\ NoneForgotten' /\ Bound'
    BY <1>3, <1>7 DEF Request
  <2>2. Remembered' /\ Retired' = Retired
    BY <1>7 DEF Request, Remembered, Retired
  <2>3. IsFiniteSet(running') /\ Cardinality(running') <= MaxConcurrent
    <3>1. /\ i \notin running /\ running' = running \cup {i} /\ IsFiniteSet(running)
          /\ Cardinality(running) < MaxConcurrent
      BY <1>7 DEF Request, Admits, RequestsKept
    <3>2. IsFiniteSet(running') /\ Cardinality(running') = Cardinality(running) + 1
          /\ Cardinality(running) \in Nat
      BY <3>1, FS_AddElement, FS_CardinalityType
    <3> QED
      BY <1>0, <3>1, <3>2
  <2>4. RequestsKept'
    BY <1>7, <2>2, <2>3 DEF Request, Admits, RequestsKept
  <2> QED
    BY <2>1, <2>2, <2>4
<1>8. ASSUME NEW i \in Ids, RequestAnswered(i) PROVE LegacyInv'
  <2>1. Stages' /\ NoneForgotten' /\ Bound'
    BY <1>3, <1>8 DEF RequestAnswered
  <2>2. Remembered' /\ Retired' \subseteq Retired \cup {i}
    BY <1>8, RetireKeeps DEF RequestAnswered
  <2>3. RequestsKept'
    BY <1>8, <2>2 DEF RequestAnswered, Admits, RequestsKept
  <2> QED
    BY <2>1, <2>2, <2>3
<1>9. ASSUME NEW i \in Ids, Cancel(i) \/ Expire(i) PROVE LegacyInv'
  <2>1. Stages' /\ NoneForgotten' /\ Bound'
    BY <1>3, <1>9 DEF Cancel, Expire
  <2>2. Remembered' /\ Retired' = Retired
    BY <1>9 DEF Cancel, Expire, Remembered, Retired
  <2>3. RequestsKept'
    BY <1>9, <2>2 DEF Cancel, Expire, RequestsKept
  <2> QED
    BY <2>1, <2>2, <2>3
<1>10. ASSUME NEW i \in Ids, NEW outcome \in Outcomes(i), Returns(i, outcome) PROVE LegacyInv'
  <2>1. Stages' /\ NoneForgotten' /\ Bound'
    BY <1>3, <1>10 DEF Returns
  <2>2. Remembered' /\ Retired' \subseteq Retired \cup {i}
    BY <1>10, RetireKeeps DEF Returns
  <2>3. IsFiniteSet(running') /\ Cardinality(running') <= MaxConcurrent
    <3>1. /\ running' \subseteq running /\ IsFiniteSet(running)
          /\ Cardinality(running) <= MaxConcurrent
      BY <1>10 DEF Returns, RequestsKept
    <3>2. /\ IsFiniteSet(running') /\ Cardinality(running') <= Cardinality(running)
          /\ Cardinality(running) \in Nat /\ Cardinality(running') \in Nat
      BY <3>1, FS_Subset, FS_CardinalityType
    <3> QED
      BY <1>0, <3>1, <3>2
  <2>4. RequestsKept'
    BY <1>10, <2>2, <2>3 DEF Returns, RequestsKept
  <2> QED
    BY <2>1, <2>2, <2>4
<1>11. ASSUME NEW m \in Shutdowns, Shutdown(m) PROVE LegacyInv'
  <2>1. Stages'
    BY <1>11 DEF Shutdown, lifecycleVars, HasHook, Stages
  <2>2. Remembered' /\ RequestsKept'
    BY <1>11 DEF Shutdown, CancelAll, Remembered, RequestsKept, Retired
  <2>3. Creating' = Creating /\ Bound'
    BY <1>11 DEF Shutdown, lifecycleVars, Creating, Bound
  <2>4. NoneForgotten'
    <3> SUFFICES ASSUME ~ raced' PROVE NoneForgotten'
      BY DEF NoneForgotten
    <3>1. ~ raced /\ Creating = {} /\ made \subseteq {instance}
      BY <1>11 DEF Shutdown, Creating, NoneForgotten
    <3>2. made \subseteq stopped'
      <4>1. CASE instance = "none"
        BY <1>0, <3>1, <4>1 DEF Stages
      <4>2. CASE instance # "none"
        BY <1>11, <3>1, <4>2 DEF Shutdown, HasHook
      <4> QED
        BY <4>1, <4>2
    <3>3. ~ accepting' /\ made' = made /\ instance' = instance
      BY <1>11 DEF Shutdown, lifecycleVars
    <3> QED
      BY <2>3, <3>1, <3>2, <3>3 DEF NoneForgotten
  <2> QED
    BY <2>1, <2>2, <2>3, <2>4
<1>12. ASSUME NEW m \in Shutdowns, HookReturns(m) PROVE LegacyInv'
  <2>1. Stages'
    BY <1>12 DEF HookReturns, lifecycleVars, Stages
  <2>2. Creating' = Creating /\ Bound' /\ shutdown[m] # "new"
    BY <1>0, <1>12 DEF HookReturns, lifecycleVars, Creating, Bound
  <2>3. NoneForgotten'
    <3>1. /\ raced' = raced /\ instance' = instance /\ made' = made
          /\ accepting' = accepting /\ stopped' = stopped
      BY <1>12 DEF HookReturns, lifecycleVars
    <3>2. \E k \in Shutdowns : shutdown[k] # "new"
      BY <2>2
    <3> QED
      BY <2>2, <3>1, <3>2 DEF NoneForgotten
  <2> QED
    BY <1>2, <1>12, <2>1, <2>2, <2>3 DEF HookReturns
<1>13. CASE ServerStops
  <2>1. Stages'
    BY <1>13 DEF ServerStops, lifecycleVars, stopVars, Stages
  <2>2. NoneForgotten' /\ Bound'
    BY <1>13 DEF ServerStops, lifecycleVars, stopVars, NoneForgotten, Bound, Creating
  <2> QED
    BY <1>2, <1>13, <2>1, <2>2 DEF ServerStops
<1>14. CASE StopServer
  <2>1. Stages'
    BY <1>14 DEF StopServer, lifecycleVars, stopVars, Stages
  <2>2. Remembered' /\ RequestsKept'
    BY <1>14 DEF StopServer, CancelAll, Remembered, RequestsKept, Retired
  <2>3. NoneForgotten' /\ Bound'
    BY <1>14 DEF StopServer, lifecycleVars, stopVars, NoneForgotten, Bound, Creating
  <2> QED
    BY <2>1, <2>2, <2>3
<1> QED
  BY <1>1, <1>4, <1>5, <1>6, <1>7, <1>8, <1>9, <1>10, <1>11, <1>12, <1>13, <1>14 DEF LegacyNext

\* Only a request that is still accepted answers what its provider returned.
LEMMA AnswersWhileAccepting ==
  ASSUME LegacyInv, NEW i \in Ids, Returns(i, "answer")
  PROVE  accepting
  BY DEF LegacyInv, RequestsKept, Returns, Outcomes, Stages

\* An id that is admitted is not among the latest that were retired.
LEMMA AdmittedIsForgotten ==
  ASSUME LegacyInv, NEW i \in Ids, Admits(i)
  PROVE  since[i] = MaxRetired
<1>1. since[i] \in 0 .. MaxRetired /\ retired \in Seq(Ids) /\ MaxRetired \in Nat
  BY LegacyAssumption DEF LegacyInv, Remembered
<1> SUFFICES ASSUME since[i] < MaxRetired PROVE FALSE
  BY <1>1
<1> DEFINE k == Len(retired) - since[i]
<1>2. retired[k] = i /\ since[i] < Len(retired)
  BY DEF LegacyInv, Remembered
<1>3. k \in DOMAIN retired
  BY <1>1, <1>2
<1> HIDE DEF k
<1> QED
  BY <1>2, <1>3 DEF Admits, Retired

LEMMA LegacyAlways == Spec => []LegacyInv
<1>1. Init => LegacyInv
  BY LegacyStarts DEF Init
<1>2. LegacyInv /\ [Next]_vars => LegacyInv'
  BY LegacyPreserves DEF Next, vars
<1> QED
  BY <1>1, <1>2, PTL DEF Spec

\* However handshakes, activations, requests and shutdowns interleave, a
\* shutdown that is done stopped every instance unless an activation overlapped,
\* and the clients never share an import: for every capacity and id space.
THEOREM LegacyIsSafe == Spec => []LegacySafety
<1> QED
  BY LegacyTypes, LegacyAlways, PTL

\* After a shutdown nothing answers what its provider returned.
THEOREM ShutdownSilences == Spec => NoAnswerAfterShutdown
<1>1. LegacyInv /\ [Next]_vars =>
        [\A i \in Ids : Returns(i, "answer") => accepting]_legacyVars
  BY AnswersWhileAccepting
<1> QED
  BY <1>1, LegacyAlways, PTL DEF Spec, NoAnswerAfterShutdown

\* An id that is served again was forgotten by the list of retired ids, which
\* keeps the latest MaxRetired.
THEOREM IdsAreReusedLate == Spec => IdsComeBackLate
<1>1. LegacyInv /\ [Next]_vars =>
        [\A i \in Ids : Request(i) \/ RequestAnswered(i) => since[i] = MaxRetired]_legacyVars
  BY AdmittedIsForgotten DEF Request, RequestAnswered
<1> QED
  BY <1>1, LegacyAlways, PTL DEF Spec, IdsComeBackLate
=============================================================================
