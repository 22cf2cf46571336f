---------------------------- MODULE WorkersProofs ----------------------------
(***************************************************************************)
(* Proofs about the parts of a Workers isolate, for every value of their   *)
(* limits.  Each part keeps its own invariant; the composition adds that a *)
(* step of one part leaves the others alone.                               *)
(***************************************************************************)
EXTENDS MCWorkers, FiniteSetTheorems, SequenceTheorems, TLAPS

USE EgressAssumption

(***************************************************************************)
(* An outgoing request: its shape, and what the transport's operators do   *)
(***************************************************************************)
Places == {"new", "fetching", "reading", "answered"}
Answers == {"none", "response", "timeout"} \cup Failures
Timings == {"none", "armed", "fired", "cleared"}
Races == {"open", "response", "chunk", "end", "error", "interrupted"}
Bodies == {"none", "open", "ended", "cancelled", "errored", "discarded"}
Natives == SUBSET {"fetch", "read", "discard"}

\* The shape of a call, without the bounds of its counters.
CallShape ==
  [at : Places, answer : Answers, timer : Timings, aborted : BOOLEAN,
   asked : BOOLEAN, race : Races, body : Bodies, total : Nat, natives : Natives,
   cancels : Nat]

\* What the operators of the transport do keeps that shape.
LEMMA SettledType ==
  ASSUME NEW c \in CallShape, NEW how \in Races
  PROVE  Settled(c, how) \in CallShape
  BY DEF Settled, CallShape

LEMMA AbortType == ASSUME NEW c \in CallShape PROVE Abort(c) \in CallShape
<1> DEFINE s == Settled(c, "interrupted")
           n == s.cancels + (IF c.at = "reading" THEN 1 ELSE 0)
<1>1. s \in CallShape
  BY SettledType DEF Races
<1>2. n \in Nat
  BY <1>1 DEF CallShape
<1>3. Released(c) \in Bodies
  BY DEF Released, CallShape, Bodies
<1>4. Abort(c) = IF c.at = "answered" THEN c
                 ELSE [s EXCEPT !.aborted = TRUE, !.body = Released(c), !.cancels = n]
  BY DEF Abort
<1> HIDE DEF s, n
<1> QED
  BY <1>1, <1>2, <1>3, <1>4 DEF CallShape

LEMMA EndsType ==
  ASSUME NEW c \in CallShape, NEW answer \in Answers
  PROVE  Ends(c, answer) \in CallShape
<1> DEFINE t == IF c.timer = "armed" THEN "cleared" ELSE c.timer
<1>1. t \in Timings
  BY DEF CallShape, Timings
<1>2. Ends(c, answer) = [c EXCEPT !.at = "answered", !.race = "open", !.answer = answer,
                                 !.timer = t]
  BY DEF Ends
<1> HIDE DEF t
<1> QED
  BY <1>1, <1>2 DEF CallShape, Places, Races

\* ... and which fields they change.
LEMMA SettledDoes ==
  ASSUME NEW c \in CallShape, NEW how
  PROVE  LET d == Settled(c, how) IN
         /\ d.race = (IF c.race = "open" /\ c.at # "answered" THEN how ELSE c.race)
         /\ d.at = c.at /\ d.answer = c.answer /\ d.timer = c.timer /\ d.asked = c.asked
         /\ d.aborted = c.aborted /\ d.body = c.body /\ d.total = c.total
         /\ d.natives = c.natives /\ d.cancels = c.cancels
  BY DEF Settled, CallShape

LEMMA AbortDoes ==
  ASSUME NEW c \in CallShape, c.at # "answered"
  PROVE  LET d == Abort(c) IN
         /\ d.aborted = TRUE /\ d.body = Released(c)
         /\ d.race = (IF c.race = "open" THEN "interrupted" ELSE c.race)
         /\ d.cancels = c.cancels + (IF c.at = "reading" THEN 1 ELSE 0)
         /\ d.at = c.at /\ d.answer = c.answer /\ d.timer = c.timer
         /\ d.asked = c.asked /\ d.total = c.total /\ d.natives = c.natives
<1> DEFINE s == Settled(c, "interrupted")
           n == s.cancels + (IF c.at = "reading" THEN 1 ELSE 0)
           d == [s EXCEPT !.aborted = TRUE, !.body = Released(c), !.cancels = n]
<1>1. s \in CallShape
  BY SettledType DEF Races
<1>2. /\ s.race = (IF c.race = "open" THEN "interrupted" ELSE c.race)
      /\ s.cancels = c.cancels /\ s.at = c.at /\ s.answer = c.answer
      /\ s.timer = c.timer /\ s.asked = c.asked /\ s.total = c.total
      /\ s.natives = c.natives
  BY DEF Settled, CallShape
<1>3. Abort(c) = d
  BY DEF Abort
<1> HIDE DEF s
<1>4. /\ d.aborted = TRUE /\ d.body = Released(c) /\ d.race = s.race /\ d.cancels = n
      /\ d.at = s.at /\ d.answer = s.answer /\ d.timer = s.timer /\ d.asked = s.asked
      /\ d.total = s.total /\ d.natives = s.natives
  BY <1>1 DEF CallShape
<1> HIDE DEF d
<1> QED
  BY <1>2, <1>3, <1>4

LEMMA EndsDoes ==
  ASSUME NEW c \in CallShape, NEW answer \in Answers
  PROVE  LET d == Ends(c, answer) IN
         /\ d.at = "answered" /\ d.race = "open" /\ d.answer = answer
         /\ d.timer = (IF c.timer = "armed" THEN "cleared" ELSE c.timer)
         /\ d.aborted = c.aborted /\ d.body = c.body /\ d.cancels = c.cancels
         /\ d.asked = c.asked /\ d.total = c.total /\ d.natives = c.natives
  BY DEF Ends, CallShape

LEMMA FailsDoes ==
  ASSUME NEW c \in CallShape, NEW code \in Failures, c.at # "answered"
  PROVE  LET d == Fails(c, code) IN
         /\ d \in CallShape
         /\ d.at = "answered" /\ d.race = "open"
         /\ d.answer = (IF c.timer = "fired" THEN "timeout" ELSE code)
         /\ d.timer = (IF c.timer = "armed" THEN "cleared" ELSE c.timer)
         /\ d.aborted = TRUE /\ d.body = Released(c)
         /\ d.cancels = c.cancels + (IF c.at = "reading" THEN 1 ELSE 0)
         /\ d.asked = c.asked /\ d.total = c.total /\ d.natives = c.natives
<1> DEFINE b == Abort(c)
           answer == IF c.timer = "fired" THEN "timeout" ELSE code
<1>1. b \in CallShape /\ answer \in Answers
  BY AbortType DEF Answers
<1>2. Fails(c, code) = Ends(b, answer)
  BY DEF Fails
<1>3. /\ b.aborted = TRUE /\ b.body = Released(c)
      /\ b.cancels = c.cancels + (IF c.at = "reading" THEN 1 ELSE 0)
      /\ b.timer = c.timer /\ b.asked = c.asked /\ b.total = c.total /\ b.natives = c.natives
  BY AbortDoes
<1> HIDE DEF b, answer
<1>4. Ends(b, answer) \in CallShape
  BY <1>1, EndsType
<1> QED
  BY <1>1, <1>2, <1>3, <1>4, EndsDoes DEF answer

\* The next read of a body that is not over yet, or was cut.
LEMMA NextReadDoes ==
  ASSUME NEW c \in CallShape, c.at = "reading", NEW d \in NextRead(c),
         c.body \in {"open", "errored", "cancelled"}
  PROVE  /\ d \in CallShape
         /\ d.at = "reading" /\ d.answer = c.answer /\ d.timer = c.timer
         /\ d.aborted = c.aborted /\ d.asked = c.asked /\ d.total = c.total
         /\ d.cancels = c.cancels
         /\ \/ c.body = "errored" /\ d.race = "error" /\ d.body = c.body /\ d.natives = c.natives
            \/ c.body = "cancelled" /\ d.race = "end" /\ d.body = c.body /\ d.natives = c.natives
            \/ /\ c.body = "open" /\ c.aborted /\ d.race = "interrupted"
               /\ d.body = c.body /\ d.natives = c.natives \cup {"read"}
            \/ /\ c.body = "open" /\ c.aborted /\ d.race = "chunk"
               /\ d.body = c.body /\ d.natives = c.natives
            \/ /\ c.body = "open" /\ c.aborted /\ d.race = "end"
               /\ d.body = "ended" /\ d.natives = c.natives
            \/ /\ c.body = "open" /\ ~ c.aborted /\ d.race = "open"
               /\ d.body = c.body /\ d.natives = c.natives \cup {"read"}
<1>1. c.natives \cup {"read"} \in Natives
  BY DEF CallShape, Natives
<1>2. \/ c.body = "errored" /\ d = [c EXCEPT !.race = "error"]
      \/ c.body = "cancelled" /\ d = [c EXCEPT !.race = "end"]
      \/ c.body = "open" /\ c.aborted /\
         d = [c EXCEPT !.race = "interrupted", !.natives = @ \cup {"read"}]
      \/ c.body = "open" /\ c.aborted /\ d = [c EXCEPT !.race = "chunk"]
      \/ c.body = "open" /\ c.aborted /\ d = [c EXCEPT !.race = "end", !.body = "ended"]
      \/ c.body = "open" /\ ~ c.aborted /\
         d = [c EXCEPT !.race = "open", !.natives = @ \cup {"read"}]
  BY DEF NextRead
<1>3. d \in CallShape
  <2>1. {"error", "end", "interrupted", "chunk", "open"} \subseteq Races /\ "ended" \in Bodies
    BY DEF Races, Bodies
  <2>2. \A n \in Natives : [c EXCEPT !.race = "interrupted", !.natives = n] \in CallShape
                         /\ [c EXCEPT !.race = "open", !.natives = n] \in CallShape
    BY <2>1 DEF CallShape
  <2>3. \A race \in {"error", "end", "chunk"} : [c EXCEPT !.race = race] \in CallShape
    BY <2>1 DEF CallShape
  <2>4. [c EXCEPT !.race = "end", !.body = "ended"] \in CallShape
    BY <2>1 DEF CallShape
  <2> QED
    BY <1>1, <1>2, <2>2, <2>3, <2>4
<1> QED
  BY <1>2, <1>3 DEF CallShape

(***************************************************************************)
(* An outgoing request: the inductive invariant                            *)
(***************************************************************************)
Underway == call.at \in {"fetching", "reading"}

\* Whoever was aborted does not wait: its race has an answer already.  The timer
\* is armed until it fires, which interrupts the race for good.
EgressTimed ==
  /\ Underway => /\ call.answer = "none" /\ call.timer \in {"armed", "fired"}
                 /\ call.timer = "fired" => call.race = "interrupted"
                 /\ call.race = "open" => ~ call.aborted
  /\ ~ Underway => call.race = "open" /\ call.timer # "armed"
  /\ Answered /\ call.timer = "fired" => call.answer = "timeout"

\* A closed scope has asked the call to abort.
EgressAsked ==
  /\ call.asked => call.at # "new"
  /\ call.asked /\ Underway => call.aborted
  /\ life = "closed" /\ Underway => call.asked
  /\ receipt # "none" => life = "closed"

\* What each answer of the race says about the body.
EgressRace ==
  /\ call.race \in {"response", "chunk", "end"} => "fetch" \notin call.natives
  /\ call.race = "response" => /\ call.at = "fetching"
                               /\ "discard" \notin call.natives
                               /\ call.body \in {"none", "open", "errored"}
  /\ call.race = "chunk" => /\ call.at = "reading" /\ "read" \notin call.natives
                            /\ call.body \in {"open", "errored", "cancelled"}
  /\ call.race = "end" => /\ call.at = "reading"
                          /\ call.body = "ended" \/ (call.body = "cancelled" /\ ~ heeds)

\* Which native promises may be pending, and what an answered call left.
EgressNatives ==
  /\ call.at = "new" => call = NoCall
  /\ call.at = "fetching" => "read" \notin call.natives
  /\ call.at = "reading" => /\ call.natives \subseteq {"read"}
                            /\ call.body \in {"open", "ended", "errored", "cancelled"}
  /\ "fetch" \in call.natives => call.body = "none"
  /\ "discard" \in call.natives => call.body = "discarded"
  /\ call.body = "discarded" => life = "closed"
  /\ call.body = "cancelled" => ~ heeds
  /\ Answered /\ call.answer = "response" =>
       "fetch" \notin call.natives /\ "discard" \notin call.natives
  /\ Answered /\ "fetch" \in call.natives => call.aborted
  /\ Answered /\ call.body = "open" => call.aborted

\* Each cancellation of the reader has a reason of its own.
EgressCancels ==
  call.cancels <= (IF call.asked THEN 1 ELSE 0) + (IF call.timer = "fired" THEN 1 ELSE 0)
                    + (IF Answered THEN 1 ELSE 0)

EgressInv ==
  /\ EgressTypeOK /\ EgressTimed /\ EgressAsked /\ EgressRace /\ EgressNatives
  /\ EgressCancels /\ EgressSafety

(***************************************************************************)
(* An outgoing request: the steps                                          *)
(***************************************************************************)
LEMMA EgressStarts == EgressInit => EgressInv
  BY DEF EgressInit, EgressInv, NoCall, EgressTypeOK, EgressTimed, EgressAsked, EgressRace,
     EgressNatives, EgressCancels, EgressSafety, ResponsesAreWhole, CallsAreTimed,
     CleanLeavesNothing, Underway, Answered, Failures

\* Preserved by every step.  Three endings are proved once and cited: a call
\* that fails (<1>3), one that ends with a response (<1>4), a read that starts (<1>5);
\* so are the two abortions, of a call that is over (<1>7) and of one that is not.
LEMMA EgressPreserves == EgressInv /\ [EgressNext]_egressVars => EgressInv'
<1> SUFFICES ASSUME EgressInv, [EgressNext]_egressVars PROVE EgressInv'
  OBVIOUS
<1> USE DEF EgressInv
<1>0. call \in CallShape /\ heeds \in BOOLEAN /\ life \in {"open", "closed"}
       /\ receipt \in {"none", "draining", "clean", "uncertain"}
       /\ call.total <= MaxResponse /\ call.cancels <= 3
  BY DEF EgressTypeOK, CallShape, Places, Answers, Timings, Races, Bodies, Natives
\* Types follow from the shape and the count of cancellations.
<1>T. ASSUME call' \in CallShape, call'.total <= MaxResponse, EgressCancels',
             UNCHANGED heeds, life' \in {"open", "closed"},
             receipt' \in {"none", "draining", "clean", "uncertain"}
      PROVE  EgressTypeOK'
  <2>1. call'.cancels \in 0 .. 3 /\ call'.total \in 0 .. MaxResponse
    BY <1>T DEF EgressCancels, CallShape
  <2> QED
    BY <1>0, <1>T, <2>1
      DEF EgressTypeOK, CallShape, Places, Answers, Timings, Races, Bodies, Natives
<1>1. CASE UNCHANGED egressVars
  BY <1>1 DEF egressVars, EgressTypeOK, EgressTimed, EgressAsked, EgressRace, EgressNatives,
     EgressCancels, EgressSafety, ResponsesAreWhole, CallsAreTimed, CleanLeavesNothing,
     Underway, Answered
<1>2. CASE Begin
  <2>0. call = NoCall /\ UNCHANGED <<heeds, life, receipt>> /\ life = "open"
    BY <1>2 DEF Begin, Becomes, EgressNatives
  <2>1. call' \in CallShape
    <3>1. Ends(call, "transport_failure") \in CallShape
      BY <1>0, EndsType DEF Answers, Failures
    <3>2. [call EXCEPT !.at = "fetching", !.timer = "armed", !.natives = {"fetch"}] \in CallShape
      BY <1>0 DEF CallShape, Places, Timings, Natives
    <3> QED
      BY <3>1, <3>2, <1>2 DEF Begin, Becomes
  <2>2. /\ call'.aborted = FALSE /\ call'.asked = FALSE /\ call'.race = "open"
        /\ call'.body = "none" /\ call'.total = 0 /\ call'.cancels = 0
    BY <2>0, <1>2 DEF Begin, Becomes, Ends, NoCall
  <2>3. \/ /\ call'.at = "fetching" /\ call'.timer = "armed" /\ call'.natives = {"fetch"}
           /\ call'.answer = "none"
        \/ /\ call'.at = "answered" /\ call'.timer = "none" /\ call'.natives = {}
           /\ call'.answer = "transport_failure"
    BY <2>0, <1>2 DEF Begin, Becomes, Ends, NoCall
  <2>4. EgressTimed' /\ EgressAsked'
    BY <1>0, <2>0, <2>1, <2>2, <2>3 DEF EgressTimed, EgressAsked, Underway, Answered
  <2>5. EgressRace'
    BY <1>0, <2>0, <2>1, <2>2, <2>3
      DEF EgressRace, EgressTimed, EgressNatives, Underway, Answered
  <2>6. EgressNatives'
    BY <1>0, <2>0, <2>1, <2>2, <2>3
      DEF EgressRace, EgressTimed, EgressNatives, EgressAsked, NoCall, Underway, Answered
  <2>7. EgressCancels'
    BY <1>0, <2>0, <2>1, <2>2, <2>3
      DEF EgressCancels, EgressTimed, EgressAsked, CallShape, Underway, Answered
  <2>8. ResponsesAreWhole' /\ CallsAreTimed'
    BY <1>0, <2>0, <2>1, <2>2, <2>3
      DEF EgressSafety, ResponsesAreWhole, CallsAreTimed, EgressTimed, EgressNatives,
          EgressRace, Underway, Answered
  <2>9. CleanLeavesNothing'
    BY <1>0, <2>0, <2>1, <2>2, <2>3
      DEF EgressSafety, CleanLeavesNothing, EgressTimed, EgressNatives, EgressAsked,
          EgressRace, Underway, Answered
  <2> QED
    BY <1>0, <1>T, <2>0, <2>1, <2>2, <2>3, <2>4, <2>5, <2>6, <2>7, <2>8, <2>9
      DEF EgressSafety, CallShape
<1>3. ASSUME NEW code \in Failures, Underway, call' = Fails(call, code),
             UNCHANGED <<heeds, life, receipt>>
      PROVE  EgressInv'
  <2>1. call.at # "answered" /\ call.at # "new"
    BY <1>3 DEF Underway
  <2>2. /\ call' \in CallShape /\ call'.at = "answered" /\ call'.race = "open"
        /\ call'.answer = (IF call.timer = "fired" THEN "timeout" ELSE code)
        /\ call'.timer = (IF call.timer = "armed" THEN "cleared" ELSE call.timer)
        /\ call'.aborted = TRUE /\ call'.body = Released(call)
        /\ call'.cancels = call.cancels + (IF call.at = "reading" THEN 1 ELSE 0)
        /\ call'.asked = call.asked /\ call'.total = call.total
        /\ call'.natives = call.natives
    <3> HIDE DEF EgressInv
    <3> DEFINE d == Fails(call, code)
    <3>1. /\ d \in CallShape /\ d.at = "answered" /\ d.race = "open"
          /\ d.answer = (IF call.timer = "fired" THEN "timeout" ELSE code)
          /\ d.timer = (IF call.timer = "armed" THEN "cleared" ELSE call.timer)
          /\ d.aborted = TRUE /\ d.body = Released(call)
          /\ d.cancels = call.cancels + (IF call.at = "reading" THEN 1 ELSE 0)
          /\ d.asked = call.asked /\ d.total = call.total /\ d.natives = call.natives
      <4> HIDE DEF EgressInv
      <4>1. call \in CallShape
        BY <1>0
      <4> QED
        BY <4>1, <2>1, FailsDoes, Zenon
    <3>2. call' = d
      BY <1>3
    <3> HIDE DEF d
    <3> QED
      BY <3>1, <3>2
  <2>3. EgressTimed' /\ EgressAsked'
    BY <1>0, <1>3, <2>1, <2>2
      DEF EgressTimed, EgressAsked, Underway, Answered, Released, Failures
  <2>4. EgressRace'
    BY <1>0, <1>3, <2>1, <2>2
      DEF EgressRace, EgressTimed, EgressNatives, Underway, Answered, Released, Failures
  <2>5. EgressNatives'
    BY <1>0, <1>3, <2>1, <2>2
      DEF EgressRace, EgressTimed, EgressNatives, EgressAsked, NoCall, Underway, Answered,
          Released, Failures
  <2>6. EgressCancels'
    BY <1>0, <1>3, <2>1, <2>2
      DEF EgressCancels, EgressTimed, EgressAsked, CallShape, Underway, Answered, Released,
          Failures
  <2>7. ResponsesAreWhole' /\ CallsAreTimed'
    BY <1>0, <1>3, <2>1, <2>2
      DEF EgressSafety, ResponsesAreWhole, CallsAreTimed, EgressTimed, EgressNatives,
          EgressRace, Underway, Answered, Released, Failures
  <2>8. CleanLeavesNothing'
    BY <1>0, <1>3, <2>1, <2>2
      DEF EgressSafety, CleanLeavesNothing, EgressTimed, EgressNatives, EgressAsked,
          EgressRace, Underway, Answered, Released, Failures
  <2> QED
    BY <1>0, <1>T, <1>3, <2>1, <2>2, <2>3, <2>4, <2>5, <2>6, <2>7, <2>8
      DEF EgressSafety, CallShape
<1>4. ASSUME Underway, call.timer # "fired", call' = Ends(call, "response"),
             "fetch" \notin call.natives, "discard" \notin call.natives,
             call.body \in {"none", "ended"} \/ (call.body = "cancelled" /\ ~ heeds),
             UNCHANGED <<heeds, life, receipt>>
      PROVE  EgressInv'
  <2>1. call' \in CallShape
    BY <1>0, <1>4, EndsType DEF Answers
  <2>2. /\ call'.at = "answered" /\ call'.race = "open" /\ call'.answer = "response"
        /\ call'.timer = (IF call.timer = "armed" THEN "cleared" ELSE call.timer)
        /\ call'.aborted = call.aborted /\ call'.body = call.body
        /\ call'.cancels = call.cancels /\ call'.asked = call.asked
        /\ call'.total = call.total /\ call'.natives = call.natives
    BY <1>0, <1>4, EndsDoes DEF Answers
  <2>3. EgressTimed' /\ EgressAsked'
    BY <1>0, <1>4, <2>1, <2>2 DEF EgressTimed, EgressAsked, Underway, Answered
  <2>4. EgressRace'
    BY <1>0, <1>4, <2>1, <2>2 DEF EgressRace, EgressTimed, EgressNatives, Underway, Answered
  <2>5. EgressNatives'
    BY <1>0, <1>4, <2>1, <2>2
      DEF EgressRace, EgressTimed, EgressNatives, EgressAsked, NoCall, Underway, Answered
  <2>6. EgressCancels'
    BY <1>0, <1>4, <2>1, <2>2
      DEF EgressCancels, EgressTimed, EgressAsked, CallShape, Underway, Answered
  <2>7. ResponsesAreWhole' /\ CallsAreTimed'
    BY <1>0, <1>4, <2>1, <2>2
      DEF EgressSafety, ResponsesAreWhole, CallsAreTimed, EgressTimed, EgressNatives,
          EgressRace, Underway, Answered
  <2>8. CleanLeavesNothing'
    BY <1>0, <1>4, <2>1, <2>2
      DEF EgressSafety, CleanLeavesNothing, EgressTimed, EgressNatives, EgressAsked,
          EgressRace, Underway, Answered
  <2> QED
    BY <1>0, <1>T, <1>4, <2>1, <2>2, <2>3, <2>4, <2>5, <2>6, <2>7, <2>8
      DEF EgressSafety, CallShape
<1>5. ASSUME NEW c \in CallShape, call' \in NextRead(c), Underway, c.at = "reading",
             c.body = call.body, c.answer = call.answer,
             c.body \in {"open", "errored", "cancelled"},
             c.timer = call.timer, c.aborted = call.aborted, c.asked = call.asked,
             c.natives = call.natives, c.natives = {}, c.cancels = call.cancels,
             call.timer # "fired", c.total <= MaxResponse, UNCHANGED <<heeds, life, receipt>>
      PROVE  EgressInv'
  <2> DEFINE d == call'
  <2>1. /\ d \in CallShape
        /\ d.at = "reading" /\ d.answer = c.answer /\ d.timer = c.timer
        /\ d.aborted = c.aborted /\ d.asked = c.asked /\ d.total = c.total
        /\ d.cancels = c.cancels
    BY <1>5, NextReadDoes
  <2>2. \/ c.body = "errored" /\ d.race = "error" /\ d.body = c.body /\ d.natives = c.natives
        \/ c.body = "cancelled" /\ d.race = "end" /\ d.body = c.body /\ d.natives = c.natives
        \/ /\ c.body = "open" /\ c.aborted /\ d.race = "interrupted"
           /\ d.body = c.body /\ d.natives = c.natives \cup {"read"}
        \/ /\ c.body = "open" /\ c.aborted /\ d.race = "chunk"
           /\ d.body = c.body /\ d.natives = c.natives
        \/ /\ c.body = "open" /\ c.aborted /\ d.race = "end"
           /\ d.body = "ended" /\ d.natives = c.natives
        \/ /\ c.body = "open" /\ ~ c.aborted /\ d.race = "open"
           /\ d.body = c.body /\ d.natives = c.natives \cup {"read"}
    BY <1>5, NextReadDoes
  <2>3. EgressTimed' /\ EgressAsked'
    BY <1>0, <1>5, <2>1, <2>2 DEF EgressTimed, EgressAsked, Underway, Answered
  <2>4. EgressRace'
    BY <1>0, <1>5, <2>1, <2>2 DEF EgressRace, EgressTimed, EgressNatives, Underway, Answered
  <2>5. EgressNatives'
    BY <1>0, <1>5, <2>1, <2>2
      DEF EgressRace, EgressTimed, EgressNatives, EgressAsked, NoCall, Underway, Answered
  <2>6. EgressCancels'
    BY <1>0, <1>5, <2>1, <2>2
      DEF EgressCancels, EgressTimed, EgressAsked, CallShape, Underway, Answered
  <2>7. ResponsesAreWhole' /\ CallsAreTimed'
    BY <1>0, <1>5, <2>1, <2>2
      DEF EgressSafety, ResponsesAreWhole, CallsAreTimed, EgressTimed, EgressNatives,
          EgressRace, Underway, Answered
  <2>8. CleanLeavesNothing'
    BY <1>0, <1>5, <2>1, <2>2
      DEF EgressSafety, CleanLeavesNothing, EgressTimed, EgressNatives, EgressAsked,
          EgressRace, Underway, Answered
  <2> QED
    BY <1>0, <1>T, <1>5, <2>1, <2>2, <2>3, <2>4, <2>5, <2>6, <2>7, <2>8
      DEF EgressSafety, CallShape
<1>6. CASE RequestTimesOut
  <2> DEFINE c == [call EXCEPT !.timer = "fired"]
  <2>1. /\ c \in CallShape /\ c.timer = "fired" /\ c.at = call.at /\ c.race = call.race
        /\ c.answer = call.answer /\ c.asked = call.asked /\ c.total = call.total
        /\ c.natives = call.natives /\ c.cancels = call.cancels /\ c.body = call.body
    BY <1>0 DEF CallShape, Timings
  <2>2. /\ Underway /\ call.timer = "armed" /\ call.race = "open"
        /\ call' = Abort(c) /\ UNCHANGED <<heeds, life, receipt>>
    BY <1>6 DEF RequestTimesOut, Becomes, EgressTimed
  <2> HIDE DEF c
  <2>3. /\ call' \in CallShape /\ call'.aborted = TRUE /\ call'.body = Released(c)
        /\ call'.race = "interrupted" /\ call'.at = call.at
        /\ call'.cancels = call.cancels + (IF call.at = "reading" THEN 1 ELSE 0)
        /\ call'.answer = call.answer /\ call'.timer = "fired" /\ call'.asked = call.asked
        /\ call'.total = call.total /\ call'.natives = call.natives
    <3> HIDE DEF EgressInv
    <3>1. c.at # "answered" /\ c.race = "open"
      BY <2>1, <2>2 DEF Underway
    <3>2. Abort(c) \in CallShape
      BY <2>1, AbortType
    <3>3. /\ Abort(c).aborted = TRUE /\ Abort(c).body = Released(c)
          /\ Abort(c).race = "interrupted" /\ Abort(c).at = c.at
          /\ Abort(c).cancels = c.cancels + (IF c.at = "reading" THEN 1 ELSE 0)
          /\ Abort(c).answer = c.answer /\ Abort(c).timer = c.timer
          /\ Abort(c).asked = c.asked /\ Abort(c).total = c.total
          /\ Abort(c).natives = c.natives
      BY <2>1, <3>1, AbortDoes
    <3> QED
      BY <2>1, <2>2, <3>2, <3>3
  <2>4. \/ call'.body = call.body /\ call.body # "open"
        \/ call.body = "open" /\ heeds /\ call'.body = "errored"
        \/ call.body = "open" /\ ~ heeds /\ call.at = "reading" /\ call'.body = "cancelled"
        \/ call.body = "open" /\ ~ heeds /\ call.at # "reading" /\ call'.body = "open"
    BY <2>1, <2>3 DEF Released
  <2>5. EgressTimed' /\ EgressAsked'
    BY <1>0, <2>2, <2>3, <2>4 DEF EgressTimed, EgressAsked, Underway, Answered
  <2>6. EgressRace'
    BY <1>0, <2>2, <2>3, <2>4 DEF EgressRace, EgressTimed, EgressNatives, Underway, Answered
  <2>7. EgressNatives'
    BY <1>0, <2>2, <2>3, <2>4
      DEF EgressRace, EgressTimed, EgressNatives, EgressAsked, NoCall, Underway, Answered
  <2>8. EgressCancels'
    BY <1>0, <2>2, <2>3, <2>4
      DEF EgressCancels, EgressTimed, EgressAsked, CallShape, Underway, Answered
  <2>9. ResponsesAreWhole' /\ CallsAreTimed'
    BY <1>0, <2>2, <2>3, <2>4
      DEF EgressSafety, ResponsesAreWhole, CallsAreTimed, EgressTimed, EgressNatives,
          EgressRace, Underway, Answered
  <2>10. CleanLeavesNothing'
    BY <1>0, <2>2, <2>3, <2>4
      DEF EgressSafety, CleanLeavesNothing, EgressTimed, EgressNatives, EgressAsked,
          EgressRace, Underway, Answered
  <2> QED
    BY <1>0, <1>T, <2>2, <2>3, <2>4, <2>5, <2>6, <2>7, <2>8, <2>9, <2>10
      DEF EgressSafety, CallShape
<1>7. ASSUME call' = AbortOperation(call), Answered, ~ call.asked,
             life' \in {life, "closed"}, UNCHANGED <<heeds, receipt>>,
             receipt # "none" => life = "closed"
      PROVE  EgressInv'
  <2>1. call' = [call EXCEPT !.asked = TRUE]
    BY <1>0, <1>7 DEF AbortOperation, Abort, Answered, CallShape
  <2>2. /\ call' \in CallShape /\ call'.asked = TRUE /\ call'.at = call.at /\ call'.race = call.race
        /\ call'.answer = call.answer /\ call'.timer = call.timer /\ call'.total = call.total
        /\ call'.natives = call.natives /\ call'.cancels = call.cancels /\ call'.body = call.body
        /\ call'.aborted = call.aborted
    BY <1>0, <2>1 DEF CallShape
  <2>3. EgressTimed' /\ EgressAsked'
    BY <1>0, <1>7, <2>2 DEF EgressTimed, EgressAsked, Underway, Answered
  <2>4. EgressRace'
    BY <1>0, <1>7, <2>2 DEF EgressRace, EgressTimed, EgressNatives, Underway, Answered
  <2>5. EgressNatives'
    BY <1>0, <1>7, <2>2
      DEF EgressRace, EgressTimed, EgressNatives, EgressAsked, NoCall, Underway, Answered
  <2>6. EgressCancels'
    BY <1>0, <1>7, <2>2
      DEF EgressCancels, EgressTimed, EgressAsked, CallShape, Underway, Answered
  <2>7. ResponsesAreWhole' /\ CallsAreTimed'
    BY <1>0, <1>7, <2>2
      DEF EgressSafety, ResponsesAreWhole, CallsAreTimed, EgressTimed, EgressNatives,
          EgressRace, Underway, Answered
  <2>8. CleanLeavesNothing'
    BY <1>0, <1>7, <2>2
      DEF EgressSafety, CleanLeavesNothing, EgressTimed, EgressNatives, EgressAsked,
          EgressRace, Underway, Answered
  <2> QED
    BY <1>0, <1>T, <1>7, <2>2, <2>3, <2>4, <2>5, <2>6, <2>7, <2>8 DEF EgressSafety, CallShape
<1>8. ASSUME call' = AbortOperation(call), Underway, ~ call.asked,
             life' \in {life, "closed"}, UNCHANGED <<heeds, receipt>>,
             receipt # "none" => life = "closed"
      PROVE  EgressInv'
  <2> DEFINE c == [call EXCEPT !.asked = TRUE]
  <2>1. /\ c \in CallShape /\ c.asked = TRUE /\ c.at = call.at /\ c.race = call.race
        /\ c.answer = call.answer /\ c.timer = call.timer /\ c.total = call.total
        /\ c.natives = call.natives /\ c.cancels = call.cancels /\ c.body = call.body
        /\ c.aborted = call.aborted
    BY <1>0 DEF CallShape
  <2>2. call' = Abort(c)
    BY <1>8 DEF AbortOperation, Underway
  <2> HIDE DEF c
  <2>3. /\ call' \in CallShape /\ call'.aborted = TRUE /\ call'.body = Released(c)
        /\ call'.race = (IF call.race = "open" THEN "interrupted" ELSE call.race)
        /\ call'.at = call.at
        /\ call'.cancels = call.cancels + (IF call.at = "reading" THEN 1 ELSE 0)
        /\ call'.answer = call.answer /\ call'.timer = call.timer /\ call'.asked = TRUE
        /\ call'.total = call.total /\ call'.natives = call.natives
    <3> HIDE DEF EgressInv
    <3>1. c.at # "answered"
      BY <1>8, <2>1 DEF Underway
    <3>2. Abort(c) \in CallShape
      BY <2>1, AbortType
    <3>3. /\ Abort(c).aborted = TRUE /\ Abort(c).body = Released(c)
          /\ Abort(c).race = (IF c.race = "open" THEN "interrupted" ELSE c.race)
          /\ Abort(c).at = c.at
          /\ Abort(c).cancels = c.cancels + (IF c.at = "reading" THEN 1 ELSE 0)
          /\ Abort(c).answer = c.answer /\ Abort(c).timer = c.timer
          /\ Abort(c).asked = c.asked /\ Abort(c).total = c.total
          /\ Abort(c).natives = c.natives
      BY <2>1, <3>1, AbortDoes
    <3> QED
      BY <2>1, <2>2, <3>2, <3>3
  <2>4. \/ call'.body = call.body /\ call.body # "open"
        \/ call.body = "open" /\ heeds /\ call'.body = "errored"
        \/ call.body = "open" /\ ~ heeds /\ call.at = "reading" /\ call'.body = "cancelled"
        \/ call.body = "open" /\ ~ heeds /\ call.at # "reading" /\ call'.body = "open"
    BY <2>1, <2>3 DEF Released
  <2>5. EgressTimed' /\ EgressAsked'
    BY <1>0, <1>8, <2>3, <2>4 DEF EgressTimed, EgressAsked, Underway, Answered
  <2>6. EgressRace'
    BY <1>0, <1>8, <2>3, <2>4 DEF EgressRace, EgressTimed, EgressNatives, Underway, Answered
  <2>7. EgressNatives'
    BY <1>0, <1>8, <2>3, <2>4
      DEF EgressRace, EgressTimed, EgressNatives, EgressAsked, NoCall, Underway, Answered
  <2>8. EgressCancels'
    BY <1>0, <1>8, <2>3, <2>4
      DEF EgressCancels, EgressTimed, EgressAsked, CallShape, Underway, Answered
  <2>9. ResponsesAreWhole' /\ CallsAreTimed'
    BY <1>0, <1>8, <2>3, <2>4
      DEF EgressSafety, ResponsesAreWhole, CallsAreTimed, EgressTimed, EgressNatives,
          EgressRace, Underway, Answered
  <2>10. CleanLeavesNothing'
    BY <1>0, <1>8, <2>3, <2>4
      DEF EgressSafety, CleanLeavesNothing, EgressTimed, EgressNatives, EgressAsked,
          EgressRace, Underway, Answered
  <2> QED
    BY <1>0, <1>T, <1>8, <2>3, <2>4, <2>5, <2>6, <2>7, <2>8, <2>9, <2>10
      DEF EgressSafety, CallShape
<1>9. CASE FetchSettles
  <2> DEFINE c == [call EXCEPT !.natives = @ \ {"fetch"}]
             b == IF heeds /\ call.aborted THEN "errored" ELSE "open"
             o == [c EXCEPT !.body = b]
             x == [c EXCEPT !.body = "discarded", !.natives = @ \cup {"discard"}]
             p == IF call.race = "open" /\ call.at # "answered" THEN "response" ELSE call.race
             e == IF call.race = "open" /\ call.at # "answered" THEN "error" ELSE call.race
  <2>1. /\ c \in CallShape /\ c.natives = call.natives \ {"fetch"} /\ c.at = call.at
        /\ c.race = call.race /\ c.answer = call.answer /\ c.asked = call.asked
        /\ c.total = call.total /\ c.timer = call.timer /\ c.cancels = call.cancels
        /\ c.body = call.body /\ c.aborted = call.aborted
    BY <1>0 DEF CallShape, Natives
  <2>2. /\ "fetch" \in call.natives /\ UNCHANGED <<heeds, life, receipt>>
        /\ \/ call' = Settled(c, "error")
           \/ call' = Settled(c, "response")
           \/ life = "open" /\ call' = Settled(o, "response")
           \/ life = "closed" /\ call' = x
    BY <1>9 DEF FetchSettles, Becomes
  <2> HIDE DEF c
  <2>3. /\ o \in CallShape /\ o.natives = c.natives /\ o.at = c.at
        /\ o.race = c.race /\ o.answer = c.answer /\ o.asked = c.asked
        /\ o.total = c.total /\ o.timer = c.timer /\ o.cancels = c.cancels
        /\ o.body = b /\ o.aborted = c.aborted
    BY <2>1 DEF CallShape, Bodies
  <2>4. /\ x \in CallShape /\ x.natives = c.natives \cup {"discard"} /\ x.at = c.at
        /\ x.race = c.race /\ x.answer = c.answer /\ x.asked = c.asked
        /\ x.total = c.total /\ x.timer = c.timer /\ x.cancels = c.cancels
        /\ x.body = "discarded" /\ x.aborted = c.aborted
    BY <2>1 DEF CallShape, Bodies, Natives
  <2> HIDE DEF o, x
  <2>5. call' \in CallShape
    BY <2>1, <2>2, <2>3, <2>4, SettledType DEF Races
  <2>6. /\ call'.at = call.at /\ call'.answer = call.answer /\ call'.asked = call.asked
        /\ call'.total = call.total /\ call'.timer = call.timer /\ call'.cancels = call.cancels
        /\ call'.aborted = call.aborted
    BY <2>1, <2>2, <2>3, <2>4, SettledDoes
  <2>7. \/ /\ call'.race \in {e, p} /\ call'.body = call.body
           /\ call'.natives = call.natives \ {"fetch"}
        \/ /\ call'.race = p /\ call'.natives = call.natives \ {"fetch"}
           /\ life = "open" /\ call'.body = b
        \/ /\ call'.race = call.race /\ call'.body = "discarded" /\ life = "closed"
           /\ call'.natives = (call.natives \ {"fetch"}) \cup {"discard"}
    BY <2>1, <2>2, <2>3, <2>4, SettledDoes
  <2>8. call.race \in {"open", "error", "interrupted"} /\ call.body = "none"
    BY <1>0, <2>2 DEF EgressRace, EgressNatives, CallShape, Races
  <2>9. call.at \in {"fetching", "answered"}
    BY <1>0, <2>2 DEF EgressNatives, NoCall, CallShape, Places
  <2>10. EgressTimed' /\ EgressAsked'
    BY <1>0, <2>2, <2>5, <2>6, <2>7, <2>8, <2>9 DEF EgressTimed, EgressAsked, Underway, Answered
  <2>11. EgressRace'
    BY <1>0, <2>2, <2>5, <2>6, <2>7, <2>8, <2>9
      DEF EgressRace, EgressTimed, EgressNatives, Underway, Answered
  <2>12. EgressNatives'
    BY <1>0, <2>2, <2>5, <2>6, <2>7, <2>8, <2>9
      DEF EgressRace, EgressTimed, EgressNatives, EgressAsked, NoCall, Underway, Answered
  <2>13. EgressCancels'
    BY <1>0, <2>2, <2>5, <2>6, <2>7, <2>8, <2>9
      DEF EgressCancels, EgressTimed, EgressAsked, CallShape, Underway, Answered
  <2>14. ResponsesAreWhole' /\ CallsAreTimed'
    BY <1>0, <2>2, <2>5, <2>6, <2>7, <2>8, <2>9
      DEF EgressSafety, ResponsesAreWhole, CallsAreTimed, EgressTimed, EgressNatives,
          EgressRace, Underway, Answered
  <2>15. CleanLeavesNothing'
    BY <1>0, <2>2, <2>5, <2>6, <2>7, <2>8, <2>9
      DEF EgressSafety, CleanLeavesNothing, EgressTimed, EgressNatives, EgressAsked,
          EgressRace, Underway, Answered
  <2> QED
    BY <1>0, <1>T, <2>2, <2>5, <2>6, <2>7, <2>8, <2>9, <2>10, <2>11, <2>12, <2>13, <2>14,
        <2>15
      DEF EgressSafety, CallShape
<1>10. CASE Discarded
  <2> DEFINE c == [call EXCEPT !.natives = @ \ {"discard"}]
             p == IF call.race = "open" /\ call.at # "answered" THEN "response" ELSE call.race
  <2>1. /\ c \in CallShape /\ c.natives = call.natives \ {"discard"} /\ c.at = call.at
        /\ c.race = call.race /\ c.answer = call.answer /\ c.asked = call.asked
        /\ c.total = call.total /\ c.timer = call.timer /\ c.cancels = call.cancels
        /\ c.body = call.body /\ c.aborted = call.aborted
    BY <1>0 DEF CallShape, Natives
  <2>2. /\ "discard" \in call.natives /\ UNCHANGED <<heeds, life, receipt>>
        /\ call' = Settled(c, "response")
    BY <1>10 DEF Discarded, Becomes
  <2> HIDE DEF c
  <2>3. /\ call' \in CallShape /\ call'.at = call.at /\ call'.answer = call.answer
        /\ call'.asked = call.asked /\ call'.total = call.total /\ call'.timer = call.timer
        /\ call'.cancels = call.cancels /\ call'.aborted = call.aborted
        /\ call'.race = p /\ call'.body = call.body
        /\ call'.natives = call.natives \ {"discard"}
    BY <2>1, <2>2, SettledType, SettledDoes DEF Races
  <2>4. /\ call.at \in {"fetching", "answered"} /\ call.body = "discarded"
        /\ life = "closed" /\ call.race # "response"
    BY <1>0, <2>2 DEF EgressNatives, EgressRace, NoCall, CallShape, Places
  <2>5. call.at = "fetching" => p = call.race
    BY <2>4 DEF EgressAsked, EgressTimed, Underway
  <2>6. EgressTimed' /\ EgressAsked'
    BY <1>0, <2>2, <2>3, <2>4, <2>5 DEF EgressTimed, EgressAsked, Underway, Answered
  <2>7. EgressRace'
    BY <1>0, <2>2, <2>3, <2>4, <2>5
      DEF EgressRace, EgressTimed, EgressNatives, Underway, Answered
  <2>8. EgressNatives'
    BY <1>0, <2>2, <2>3, <2>4, <2>5
      DEF EgressRace, EgressTimed, EgressNatives, EgressAsked, NoCall, Underway, Answered
  <2>9. EgressCancels'
    BY <1>0, <2>2, <2>3, <2>4, <2>5
      DEF EgressCancels, EgressTimed, EgressAsked, CallShape, Underway, Answered
  <2>10. ResponsesAreWhole' /\ CallsAreTimed'
    BY <1>0, <2>2, <2>3, <2>4, <2>5
      DEF EgressSafety, ResponsesAreWhole, CallsAreTimed, EgressTimed, EgressNatives,
          EgressRace, Underway, Answered
  <2>11. CleanLeavesNothing'
    BY <1>0, <2>2, <2>3, <2>4, <2>5
      DEF EgressSafety, CleanLeavesNothing, EgressTimed, EgressNatives, EgressAsked,
          EgressRace, Underway, Answered
  <2> QED
    BY <1>0, <1>T, <2>2, <2>3, <2>4, <2>5, <2>6, <2>7, <2>8, <2>9, <2>10, <2>11
      DEF EgressSafety, CallShape
<1>11. CASE ReadSettles
  <2> DEFINE c == [call EXCEPT !.natives = @ \ {"read"}]
             o(body1) == [c EXCEPT !.body = body1]
             r(how) == IF call.race = "open" /\ call.at # "answered" THEN how ELSE call.race
  <2>1. /\ c \in CallShape /\ c.natives = call.natives \ {"read"} /\ c.at = call.at
        /\ c.race = call.race /\ c.answer = call.answer /\ c.asked = call.asked
        /\ c.total = call.total /\ c.timer = call.timer /\ c.cancels = call.cancels
        /\ c.body = call.body /\ c.aborted = call.aborted
    BY <1>0 DEF CallShape, Natives
  <2>2. PICK how \in {"chunk", "end", "error"}, after \in Bodies :
          /\ call' = Settled(o(after), how)
          /\ how = "chunk" => call.body = "open" /\ after = "open"
          /\ how = "end" => \/ call.body = "open" /\ after = "ended"
                            \/ call.body = "cancelled" /\ after = "cancelled"
          /\ how = "error" => call.body \in {"open", "errored"} /\ after = "errored"
    <3>1. call.body = "open" => c = o("open")
      BY <2>1 DEF CallShape
    <3>2. call.body = "cancelled" => c = o("cancelled")
      BY <2>1 DEF CallShape
    <3>3. call.body = "errored" => c = o("errored")
      BY <2>1 DEF CallShape
    <3>4. \/ call.body = "open" /\ call' = Settled(c, "chunk")
          \/ call.body = "open" /\ call' = Settled(o("ended"), "end")
          \/ call.body = "open" /\ call' = Settled(o("errored"), "error")
          \/ call.body = "cancelled" /\ call' = Settled(c, "end")
          \/ call.body = "errored" /\ call' = Settled(c, "error")
      BY <1>11 DEF ReadSettles, Becomes
    <3> HIDE DEF c, o
    <3> QED
      BY <3>1, <3>2, <3>3, <3>4 DEF Bodies
  <2>3. "read" \in call.natives /\ UNCHANGED <<heeds, life, receipt>>
    BY <1>11 DEF ReadSettles, Becomes
  <2> HIDE DEF c
  <2>4. /\ o(after) \in CallShape /\ o(after).natives = c.natives /\ o(after).at = c.at
        /\ o(after).race = c.race /\ o(after).answer = c.answer /\ o(after).asked = c.asked
        /\ o(after).total = c.total /\ o(after).timer = c.timer /\ o(after).cancels = c.cancels
        /\ o(after).body = after /\ o(after).aborted = c.aborted
    BY <2>1 DEF CallShape
  <2> HIDE DEF o
  <2>5. /\ call' \in CallShape /\ call'.at = call.at /\ call'.answer = call.answer
        /\ call'.asked = call.asked /\ call'.total = call.total /\ call'.timer = call.timer
        /\ call'.cancels = call.cancels /\ call'.aborted = call.aborted
        /\ call'.race = r(how) /\ call'.body = after
        /\ call'.natives = call.natives \ {"read"}
    BY <2>1, <2>2, <2>4, SettledType, SettledDoes DEF Races
  <2>6. call.at \in {"reading", "answered"} /\ call.race # "chunk"
    BY <1>0, <2>3 DEF EgressNatives, EgressRace, NoCall, CallShape, Places
  <2>7. /\ how = "chunk" => call.body = "open" /\ after = "open"
        /\ how = "end" => \/ call.body = "open" /\ after = "ended"
                          \/ call.body = "cancelled" /\ after = "cancelled"
        /\ how = "error" => call.body \in {"open", "errored"} /\ after = "errored"
        /\ how \in {"chunk", "end", "error"}
    BY <2>2
  <2>8. EgressTimed' /\ EgressAsked'
    BY <1>0, <2>3, <2>5, <2>6, <2>7 DEF EgressTimed, EgressAsked, Underway, Answered
  <2>9. EgressRace'
    BY <1>0, <2>3, <2>5, <2>6, <2>7
      DEF EgressRace, EgressTimed, EgressNatives, Underway, Answered
  <2>10. EgressNatives'
    BY <1>0, <2>3, <2>5, <2>6, <2>7
      DEF EgressRace, EgressTimed, EgressNatives, EgressAsked, NoCall, Underway, Answered
  <2>11. EgressCancels'
    BY <1>0, <2>3, <2>5, <2>6, <2>7
      DEF EgressCancels, EgressTimed, EgressAsked, CallShape, Underway, Answered
  <2>12. ResponsesAreWhole' /\ CallsAreTimed'
    BY <1>0, <2>3, <2>5, <2>6, <2>7
      DEF EgressSafety, ResponsesAreWhole, CallsAreTimed, EgressTimed, EgressNatives,
          EgressRace, Underway, Answered
  <2>13. CleanLeavesNothing'
    BY <1>0, <2>3, <2>5, <2>6, <2>7
      DEF EgressSafety, CleanLeavesNothing, EgressTimed, EgressNatives, EgressAsked,
          EgressRace, Underway, Answered
  <2> QED
    BY <1>0, <1>T, <2>3, <2>5, <2>6, <2>7, <2>8, <2>9, <2>10, <2>11, <2>12, <2>13
      DEF EgressSafety, CallShape
<1>12. CASE ReaderCancelled
  <2>1. call.cancels > 0 /\ UNCHANGED <<heeds, life, receipt>>
        /\ call' = [call EXCEPT !.cancels = @ - 1]
    BY <1>12 DEF ReaderCancelled, Becomes
  <2>2. call.cancels - 1 \in Nat
    BY <1>0, <2>1 DEF CallShape
  <2>3. /\ call' \in CallShape /\ call'.asked = call.asked /\ call'.at = call.at
        /\ call'.race = call.race /\ call'.answer = call.answer /\ call'.timer = call.timer
        /\ call'.total = call.total /\ call'.natives = call.natives /\ call'.body = call.body
        /\ call'.aborted = call.aborted /\ call'.cancels = call.cancels - 1
    BY <1>0, <2>1, <2>2 DEF CallShape
  <2>4. call.at # "new" /\ call.cancels \in Nat
    BY <1>0, <2>1 DEF EgressNatives, NoCall, CallShape
  <2>5. EgressTimed' /\ EgressAsked'
    BY <1>0, <2>1, <2>3, <2>4 DEF EgressTimed, EgressAsked, Underway, Answered
  <2>6. EgressRace'
    BY <1>0, <2>1, <2>3, <2>4 DEF EgressRace, EgressTimed, EgressNatives, Underway, Answered
  <2>7. EgressNatives'
    BY <1>0, <2>1, <2>3, <2>4
      DEF EgressRace, EgressTimed, EgressNatives, EgressAsked, NoCall, Underway, Answered
  <2>8. EgressCancels'
    BY <1>0, <2>1, <2>3, <2>4
      DEF EgressCancels, EgressTimed, EgressAsked, CallShape, Underway, Answered
  <2>9. ResponsesAreWhole' /\ CallsAreTimed'
    BY <1>0, <2>1, <2>3, <2>4
      DEF EgressSafety, ResponsesAreWhole, CallsAreTimed, EgressTimed, EgressNatives,
          EgressRace, Underway, Answered
  <2>10. CleanLeavesNothing'
    BY <1>0, <2>1, <2>3, <2>4
      DEF EgressSafety, CleanLeavesNothing, EgressTimed, EgressNatives, EgressAsked,
          EgressRace, Underway, Answered
  <2> QED
    BY <1>0, <1>T, <2>1, <2>3, <2>4, <2>5, <2>6, <2>7, <2>8, <2>9, <2>10
      DEF EgressSafety, CallShape
<1>13. CASE ScopeSettles \/ Receipt
  <2>1. /\ UNCHANGED <<call, heeds, life>> /\ life = "closed"
        /\ receipt' \in {"draining", "clean", "uncertain"}
        /\ receipt' = "clean" => Drained
    BY <1>0, <1>13 DEF ScopeSettles, Receipt, EgressAsked
  <2>2. CleanLeavesNothing'
    BY <1>0, <2>1
      DEF CleanLeavesNothing, Drained, EgressTimed, EgressNatives, Underway, Answered
  <2> QED
    BY <1>0, <1>T, <2>1, <2>2
      DEF EgressTimed, EgressRace, EgressAsked, EgressNatives, EgressCancels,
       EgressSafety, ResponsesAreWhole, CallsAreTimed, Underway, Answered
<1>14. CASE HeadArrives
  <2> DEFINE r == [call EXCEPT !.at = "reading"]
  <2>1. /\ call.at = "fetching" /\ call.race = "response" /\ UNCHANGED <<heeds, life, receipt>>
    BY <1>14 DEF HeadArrives, Becomes
  <2>2. /\ Underway /\ call.timer # "fired" /\ call.natives = {}
        /\ call.body \in {"none", "open", "errored"}
    BY <1>0, <2>1 DEF Underway, EgressTimed, EgressRace, EgressNatives, CallShape, Natives
  <2>3. /\ r \in CallShape /\ r.at = "reading" /\ r.body = call.body /\ r.answer = call.answer
        /\ r.timer = call.timer /\ r.aborted = call.aborted /\ r.asked = call.asked
        /\ r.natives = call.natives /\ r.cancels = call.cancels /\ r.total = call.total
    BY <1>0 DEF CallShape, Places
  <2>4. \/ \E code \in Failures : call' = Fails(call, code)
        \/ call.body \in {"none", "discarded"} /\ call' = Ends(call, "response")
        \/ call.body \in {"open", "errored"} /\ call' \in NextRead(r)
    BY <1>14 DEF HeadArrives, Becomes
  <2> HIDE DEF r
  <2> QED
    BY <1>0, <2>1, <2>2, <2>3, <2>4, <1>3, <1>4, <1>5
<1>15. ASSUME NEW bytes \in 0 .. MaxResponse + 1, BytesArrive(bytes) PROVE EgressInv'
  <2> DEFINE r == [call EXCEPT !.total = @ + bytes]
  <2>1. /\ call.race = "chunk" /\ UNCHANGED <<heeds, life, receipt>>
    BY <1>15 DEF BytesArrive, Becomes
  <2>2. /\ Underway /\ call.timer # "fired" /\ call.natives = {} /\ call.at = "reading"
        /\ call.body \in {"cancelled", "open", "errored"}
    BY <1>0, <2>1 DEF Underway, EgressTimed, EgressRace, EgressNatives, CallShape, Natives
  <2>3. /\ r \in CallShape /\ r.at = "reading" /\ r.body = call.body /\ r.answer = call.answer
        /\ r.timer = call.timer /\ r.aborted = call.aborted /\ r.asked = call.asked
        /\ r.natives = call.natives /\ r.cancels = call.cancels /\ r.total = call.total + bytes
    BY <1>0, <2>2 DEF CallShape
  <2>4. \/ call' = Fails(call, "response_too_large")
        \/ call.total + bytes <= MaxResponse /\ call' \in NextRead(r)
    BY <1>0, <1>15 DEF BytesArrive, Becomes, CallShape
  <2> HIDE DEF r
  <2> QED
    BY <1>0, <2>1, <2>2, <2>3, <2>4, <1>3, <1>5 DEF Failures
<1>16. CASE BodyEnds
  <2>1. /\ call.race = "end" /\ UNCHANGED <<heeds, life, receipt>> /\ call' = Ends(call, "response")
    BY <1>16 DEF BodyEnds, Becomes
  <2>2. /\ Underway /\ call.timer # "fired" /\ "fetch" \notin call.natives
        /\ "discard" \notin call.natives
        /\ call.body = "ended" \/ (call.body = "cancelled" /\ ~ heeds)
    BY <1>0, <2>1 DEF Underway, EgressTimed, EgressRace, EgressNatives, CallShape, Natives
  <2> QED
    BY <2>1, <2>2, <1>4
<1>17. CASE RaceLost
  <2>1. /\ UNCHANGED <<heeds, life, receipt>> /\ call' = Fails(call, "transport_failure")
    BY <1>17 DEF RaceLost, Becomes
  <2>2. Underway
    BY <1>0, <1>17 DEF RaceLost, EgressTimed
  <2> QED
    BY <2>1, <2>2, <1>3 DEF Failures
<1>18. CASE OperationAborted
  <2>1. /\ UNCHANGED <<heeds, life, receipt>> /\ call' = AbortOperation(call) /\ ~ call.asked
    BY <1>18 DEF OperationAborted, Becomes
  <2>2. Underway
    BY <1>18 DEF OperationAborted, Underway
  <2> QED
    BY <1>0, <2>1, <2>2, <1>8 DEF EgressAsked
<1>19. CASE ScopeAborts
  <2>1. /\ UNCHANGED <<heeds, receipt>> /\ call' = AbortOperation(call)
        /\ life = "open" /\ life' = "closed"
    BY <1>19 DEF ScopeAborts
  <2>2. CASE ~ call.asked /\ Answered
    BY <1>0, <2>1, <2>2, <1>7 DEF EgressAsked
  <2>3. CASE ~ call.asked /\ Underway
    BY <1>0, <2>1, <2>3, <1>8 DEF EgressAsked
  <2>4. CASE call.at = "new" \/ call.asked
    <3>1. call' = call
      BY <2>1, <2>4 DEF AbortOperation
    <3> QED
      BY <1>0, <1>T, <2>1, <2>4, <3>1 DEF EgressTimed, EgressRace, EgressAsked, EgressNatives,
         EgressCancels, EgressSafety, ResponsesAreWhole, CallsAreTimed, CleanLeavesNothing,
         Underway, Answered
  <2> QED
    BY <1>0, <2>2, <2>3, <2>4 DEF CallShape, Places, Underway, Answered
<1> QED
  BY <1>1, <1>2, <1>3, <1>4, <1>5, <1>6, <1>7, <1>8, <1>9, <1>10, <1>11, <1>12, <1>13,
      <1>14, <1>15, <1>16, <1>17, <1>18, <1>19
    DEF EgressNext


\* EgressInv for every behaviour of the isolate: the steps of the other parts
\* leave the request alone.
LEMMA EgressAlways == Spec => []EgressInv
<1>1. Init => EgressInv
  BY EgressStarts DEF Init
<1>2. EgressInv /\ [Next]_vars => EgressInv'
  BY EgressPreserves DEF Next, vars, PluginStep, IngressStep, EgressStep, ClockStep
<1> QED
  BY <1>1, <1>2, PTL DEF Spec

\* A response the application gets has the body the server sent, a call that
\* waits is timed and one that timed out says so, and a clean receipt leaves
\* nothing native behind: for every limit and every interleaving of the abort.
THEOREM EgressSafetyHolds == Spec => []EgressSafety
<1>1. EgressInv => EgressSafety
  BY DEF EgressInv
<1> QED
  BY <1>1, EgressAlways, PTL

(***************************************************************************)
(* The timer domain                                                        *)
(***************************************************************************)

\* The first 2 * M numbers modulo M.
LEMMA Remainder ==
  ASSUME NEW M \in Nat \ {0}, NEW x \in 0 .. 2 * M - 1
  PROVE  x % M = IF x < M THEN x ELSE x - M
  OBVIOUS

\* The k-th id that setTimer() tries.
Tried(k) == ((nextId + k - 1) % MaxId) + 1

\* MaxId attempts try MaxId different ids.
LEMMA TriedDiffer ==
  ASSUME nextId \in 0 .. MaxId, NEW k \in 1 .. MaxId, NEW l \in 1 .. MaxId,
         Tried(k) = Tried(l)
  PROVE  k = l /\ Tried(k) \in Ids
<1>1. MaxId \in Nat \ {0}
  BY ClockAssumption
<1> DEFINE x == nextId + k - 1
           y == nextId + l - 1
<1>2. x \in 0 .. 2 * MaxId - 1 /\ y \in 0 .. 2 * MaxId - 1
  BY <1>1
<1>3. Tried(k) = (x % MaxId) + 1 /\ Tried(l) = (y % MaxId) + 1
  BY DEF Tried
<1>4. x - y = k - l
  BY <1>1
<1> HIDE DEF x, y
<1>5. x % MaxId = IF x < MaxId THEN x ELSE x - MaxId
  BY <1>1, <1>2, Remainder
<1>6. y % MaxId = IF y < MaxId THEN y ELSE y - MaxId
  BY <1>1, <1>2, Remainder
<1> DEFINE r == x % MaxId
           q == y % MaxId
<1> HIDE DEF r, q
<1>7. r + 1 = q + 1 /\ Tried(k) = r + 1
  BY <1>3 DEF r, q
<1>8. r = (IF x < MaxId THEN x ELSE x - MaxId) /\ q = (IF y < MaxId THEN y ELSE y - MaxId)
  BY <1>5, <1>6 DEF r, q
<1> QED
  BY <1>1, <1>2, <1>4, <1>7, <1>8 DEF Ids

\* The loop of setTimer() ends with an id nobody has, as long as the map is not
\* full: what is skipped is a prefix of the attempts, and it cannot be all of them.
LEMMA FreshIsFree ==
  ASSUME nextId \in 0 .. MaxId, DOMAIN timers \subseteq Ids,
         Cardinality(DOMAIN timers) < MaxId
  PROVE  FreshId \in Ids \ DOMAIN timers
<1> DEFINE skipped == {n \in 1 .. MaxId : \A k \in 1 .. n : Tried(k) \in DOMAIN timers}
           c == Cardinality(skipped)
<1>1. MaxId \in Nat /\ IsFiniteSet(Ids) /\ IsFiniteSet(DOMAIN timers) /\ IsFiniteSet(skipped)
  BY ClockAssumption, FS_Interval, FS_Subset DEF Ids
<1>2. c \in Nat /\ MaxId > 0 /\ Cardinality(DOMAIN timers) \in Nat
  BY <1>1, FS_CardinalityType
<1>3. ASSUME NEW n \in skipped PROVE n <= c
  <2>1. 1 .. n \subseteq skipped
    BY <1>1
  <2>2. Cardinality(1 .. n) <= c
    BY <1>1, <2>1, FS_Subset
  <2> QED
    BY <1>1, <2>2, FS_Interval
<1>4. skipped = 1 .. c
  <2>1. skipped \subseteq 1 .. c
    BY <1>2, <1>3
  <2> QED
    <3>1. IsFiniteSet(1 .. c) /\ Cardinality(1 .. c) = c
      BY <1>2, FS_Interval
    <3> QED
      BY <2>1, <3>1, FS_Subset
<1>5. skipped \subseteq 1 .. MaxId
  OBVIOUS
<1>6. c < MaxId
  <2>1. SUFFICES ASSUME skipped = 1 .. MaxId PROVE FALSE
    <3> HIDE DEF c, skipped
    <3>1. c = 0 \/ c \in skipped
      BY <1>2, <1>4
    <3>2. c <= MaxId
      BY <1>1, <1>2, <1>5, <3>1
    <3> QED
      BY <1>1, <1>2, <1>4, <3>2
  <2> DEFINE f == [k \in 1 .. MaxId |-> Tried(k)]
  <2>2. MaxId \in skipped
    <3> HIDE DEF skipped
    <3> QED
      BY <1>2, <2>1, ClockAssumption
  <2>3. f \in [1 .. MaxId -> DOMAIN timers]
    BY <2>2
  <2>4. \A k, l \in 1 .. MaxId : f[k] = f[l] => k = l
    BY TriedDiffer
  <2>5. f \in Injection(1 .. MaxId, DOMAIN timers)
    BY <2>3, <2>4 DEF Injection, IsInjective
  <2>6. Cardinality(1 .. MaxId) <= Cardinality(DOMAIN timers)
    BY <1>1, <2>5, FS_Injection
  <2> QED
    BY <1>1, <1>2, <2>6, FS_Interval
<1> HIDE DEF c
<1>7. c + 1 \in 1 .. MaxId /\ c + 1 \notin skipped
  <2> HIDE DEF skipped
  <2> QED
    BY <1>1, <1>2, <1>4, <1>6
<1>8. PICK k \in 1 .. c + 1 : Tried(k) \notin DOMAIN timers
  BY <1>7
<1>9. k = c + 1
  <2>1. SUFFICES ASSUME k \in 1 .. c PROVE FALSE
    BY <1>2
  <2>2. c \in skipped
    <3> HIDE DEF skipped
    <3> QED
      BY <1>2, <1>4, <2>1
  <2> QED
    BY <1>8, <2>1, <2>2
<1>10. FreshId = Tried(c + 1)
  <2>1. FreshId = ((nextId + c) % MaxId) + 1
    BY DEF FreshId, Tried, c
  <2>2. nextId + (c + 1) - 1 = nextId + c
    BY <1>2
  <2> QED
    BY <2>1, <2>2 DEF Tried
<1>11. Tried(c + 1) \in Ids
  BY <1>7, TriedDiffer
<1> QED
  BY <1>8, <1>9, <1>10, <1>11

ClockInv == ClockTypeOK /\ TimersReachable

\* A timer that is not armed leaves room in the map.
LEMMA RoomForATimer ==
  ASSUME ClockInv, NEW t \in Timers, native[t] = 0
  PROVE  Cardinality(DOMAIN timers) < MaxId
<1> DEFINE f == [i \in DOMAIN timers |-> timers[i]]
<1>1. f \in [DOMAIN timers -> Timers \ {t}]
  BY DEF ClockInv, ClockTypeOK, TimersReachable, Ids
<1>2. \A i, j \in DOMAIN timers : f[i] = f[j] => i = j
  BY DEF ClockInv, TimersReachable
<1>3. f \in Injection(DOMAIN timers, Timers \ {t})
  BY <1>1, <1>2 DEF Injection, IsInjective
<1>4. /\ IsFiniteSet(Timers \ {t}) /\ Cardinality(Timers \ {t}) = Cardinality(Timers) - 1
  BY ClockAssumption, FS_RemoveElement
<1>5. Cardinality(DOMAIN timers) <= Cardinality(Timers \ {t})
  BY <1>3, <1>4, FS_Injection
<1>6. Cardinality(DOMAIN timers) \in Nat /\ Cardinality(Timers) \in Nat
  BY ClockAssumption, <1>3, <1>4, FS_Injection, FS_CardinalityType
<1> QED
  BY <1>4, <1>5, <1>6, ClockAssumption

LEMMA ClockStarts == ClockInit => ClockInv
  BY ClockAssumption DEF ClockInit, ClockInv, ClockTypeOK, TimersReachable, Ids

LEMMA ClockPreserves == ClockInv /\ [ClockNext]_clockVars => ClockInv'
<1> SUFFICES ASSUME ClockInv, [ClockNext]_clockVars PROVE ClockInv'
  OBVIOUS
<1> USE DEF ClockInv
<1>1. ASSUME NEW t \in Timers, SetTimer(t) PROVE ClockInv'
  <2> DEFINE id == FreshId
  <2>1. id \in Ids \ DOMAIN timers
    BY <1>1, RoomForATimer, FreshIsFree DEF SetTimer, ClockTypeOK
  <2>2. /\ nextId' = id
        /\ DOMAIN timers' = DOMAIN timers \cup {id}
        /\ timers'[id] = t /\ \A i \in DOMAIN timers : timers'[i] = timers[i]
        /\ native[t] = 0 /\ native' = [native EXCEPT ![t] = id]
    BY <1>1, <2>1 DEF SetTimer
  <2>3. MaxId \in Nat /\ id \in 1 .. MaxId
    BY <2>1, ClockAssumption DEF Ids
  <2> HIDE DEF id
  <2>4. ClockTypeOK'
    BY <2>1, <2>2, <2>3 DEF ClockTypeOK, Ids
  <2>5. TimersReachable'
    BY <2>1, <2>2, <2>3 DEF ClockTypeOK, TimersReachable, Ids
  <2> QED
    BY <2>4, <2>5
<1>2. ASSUME NEW t \in Timers, Fire(t) PROVE ClockInv'
  <2>1. native[t] \in DOMAIN timers /\ timers[native[t]] = t /\ native[t] # 0
    BY <1>2 DEF Fire, TimersReachable
  <2>2. /\ UNCHANGED nextId /\ native' = [native EXCEPT ![t] = 0]
        /\ DOMAIN timers' = DOMAIN timers \ {native[t]}
        /\ \A i \in DOMAIN timers' : timers'[i] = timers[i]
    BY <1>2 DEF Fire, Without
  <2> QED
    BY <2>1, <2>2, ClockAssumption DEF ClockTypeOK, TimersReachable, Ids
<1>3. ASSUME NEW id \in Ids, ClearTimer(id) PROVE ClockInv'
  <2>1. /\ UNCHANGED nextId
        /\ DOMAIN timers' = DOMAIN timers \ {id}
        /\ \A i \in DOMAIN timers' : timers'[i] = timers[i]
        /\ native' = IF id \in DOMAIN timers THEN [native EXCEPT ![timers[id]] = 0] ELSE native
    BY <1>3 DEF ClearTimer, Without
  <2>2. CASE id \in DOMAIN timers
    <3>1. native[timers[id]] = id /\ timers[id] \in Timers
      BY <2>2 DEF ClockTypeOK, TimersReachable
    <3> QED
      BY <2>1, <2>2, <3>1, ClockAssumption DEF ClockTypeOK, TimersReachable, Ids
  <2>3. CASE id \notin DOMAIN timers
    BY <2>1, <2>3 DEF ClockTypeOK, TimersReachable, Ids
  <2> QED
    BY <2>2, <2>3
<1>4. CASE clearTimers
  <2>1. UNCHANGED nextId /\ DOMAIN timers' = {}
    BY <1>4 DEF clearTimers
  <2>2. \A t \in Timers : native'[t] = 0
    BY <1>4 DEF clearTimers, ClockTypeOK, TimersReachable, Ids
  <2>3. native' \in [Timers -> 0 .. MaxId]
    BY <1>4, ClockAssumption DEF clearTimers, ClockTypeOK
  <2> QED
    BY <2>1, <2>2, <2>3 DEF ClockTypeOK, TimersReachable, Ids
<1>5. CASE UNCHANGED clockVars
  BY <1>5 DEF clockVars, ClockTypeOK, TimersReachable
<1> QED
  BY <1>1, <1>2, <1>3, <1>4, <1>5 DEF ClockNext

LEMMA ClockAlways == Spec => []ClockInv
<1>1. Init => ClockInv
  BY ClockStarts DEF Init
<1>2. ClockInv /\ [Next]_vars => ClockInv'
  BY ClockPreserves DEF Next, vars, PluginStep, IngressStep, EgressStep, ClockStep
<1> QED
  BY <1>1, <1>2, PTL DEF Spec

\* However often the id wrapped and whatever was cleared, the map and the native
\* timers that are armed are the same set.
THEOREM TimersAreReachable == Spec => []TimersReachable
<1>1. ClockInv => TimersReachable
  BY DEF ClockInv
<1> QED
  BY <1>1, ClockAlways, PTL

(***************************************************************************)
(* A web request: the bytes that wait for the application                  *)
(***************************************************************************)
Frames == 0 .. MaxMessage

\* A row of n bytes at place i holds n bytes.
LEMMA RowHolds ==
  ASSUME NEW i \in Nat, NEW n \in Nat
  PROVE  LET row == {i} \X (0 .. n - 1)
         IN  IsFiniteSet(row) /\ Cardinality(row) = n
<1>2. IsFiniteSet({i}) /\ Cardinality({i}) = 1
  BY FS_Singleton
<1>3. IsFiniteSet(0 .. n - 1) /\ Cardinality(0 .. n - 1) = n
  BY FS_Interval
<1> QED
  BY <1>2, <1>3, FS_Product

LEMMA WaitingIsFinite ==
  ASSUME NEW q \in Seq(Frames)
  PROVE  IsFiniteSet(Waiting(q)) /\ Cardinality(Waiting(q)) \in Nat
<1>1. MaxMessage \in Nat
  BY IngressAssumption
<1>2. IsFiniteSet(DOMAIN q) /\ IsFiniteSet(Sizes)
  BY <1>1, FS_Interval DEF Sizes
<1>3. IsFiniteSet((DOMAIN q) \X Sizes)
  BY <1>2, FS_Product
<1>4. Waiting(q) \in SUBSET ((DOMAIN q) \X Sizes)
  BY DEF Waiting
<1> QED
  BY <1>3, <1>4, FS_Subset, FS_CardinalityType

LEMMA WaitingAppend ==
  ASSUME NEW q \in Seq(Frames), NEW bytes \in Frames
  PROVE  Cardinality(Waiting(Append(q, bytes))) = Cardinality(Waiting(q)) + bytes
<1> DEFINE n == Len(q)
           a == Append(q, bytes)
           row == {n + 1} \X (0 .. bytes - 1)
<1>1. MaxMessage \in Nat /\ bytes \in Nat /\ n \in Nat /\ bytes <= MaxMessage
  BY IngressAssumption DEF Frames
<1>2. /\ DOMAIN a = 1 .. n + 1 /\ DOMAIN q = 1 .. n
      /\ a[n + 1] = bytes /\ \A i \in 1 .. n : a[i] = q[i]
  OBVIOUS
<1>3. IsFiniteSet(row) /\ Cardinality(row) = bytes
  BY <1>1, RowHolds
<1> HIDE DEF a, n
<1>4. ASSUME NEW p \in Waiting(a) PROVE p \in Waiting(q) \cup row
  <2>1. p \in (1 .. n + 1) \X Sizes /\ p[2] < a[p[1]]
    BY <1>2 DEF Waiting
  <2>2. p = <<p[1], p[2]>> /\ p[1] \in 1 .. n + 1 /\ p[2] \in Sizes
    BY <2>1
  <2>3. CASE p[1] = n + 1
    BY <1>1, <1>2, <2>1, <2>2, <2>3 DEF Sizes
  <2>4. CASE p[1] \in 1 .. n
    <3>1. p \in (DOMAIN q) \X Sizes /\ p[2] < q[p[1]]
      BY <1>2, <2>1, <2>2, <2>4
    <3> QED
      BY <3>1 DEF Waiting
  <2> QED
    BY <1>1, <2>2, <2>3, <2>4
<1>5. ASSUME NEW p \in row PROVE p \in Waiting(a)
  <2>1. p = <<p[1], p[2]>> /\ p[1] = n + 1 /\ p[2] \in 0 .. bytes - 1
    OBVIOUS
  <2>2. p[2] \in Sizes /\ p[1] \in 1 .. n + 1 /\ p[2] < a[p[1]]
    BY <1>1, <1>2, <2>1 DEF Sizes
  <2>3. p \in (DOMAIN a) \X Sizes
    BY <1>2, <2>1, <2>2
  <2> QED
    BY <2>2, <2>3 DEF Waiting
<1>6. ASSUME NEW p \in Waiting(q) PROVE p \in Waiting(a) /\ p \notin row
  <2>1. p \in (1 .. n) \X Sizes /\ p[2] < q[p[1]]
    BY <1>2 DEF Waiting
  <2>2. p = <<p[1], p[2]>> /\ p[1] \in 1 .. n /\ p[2] \in Sizes
    BY <2>1
  <2>3. p \in (DOMAIN a) \X Sizes /\ p[2] < a[p[1]]
    BY <1>1, <1>2, <2>1, <2>2
  <2>4. p \notin row
    BY <1>1, <2>2
  <2> QED
    BY <2>3, <2>4 DEF Waiting
<1>7. Waiting(a) = Waiting(q) \cup row /\ Waiting(q) \cap row = {}
  BY <1>4, <1>5, <1>6
<1>8. /\ IsFiniteSet(Waiting(q)) /\ Cardinality(Waiting(q)) \in Nat
  BY WaitingIsFinite
<1> HIDE DEF row
<1>9. Cardinality(Waiting(a)) = Cardinality(Waiting(q)) + Cardinality(row) - Cardinality({})
  BY <1>3, <1>7, <1>8, FS_Union
<1> QED
  BY <1>1, <1>3, <1>8, <1>9, FS_EmptySet DEF a

LEMMA WaitingEmpty == Cardinality(Waiting(<<>>)) = 0
<1>1. Waiting(<<>>) = {}
  BY DEF Waiting
<1> QED
  BY <1>1, FS_EmptySet

LEMMA WaitingTail ==
  ASSUME NEW q \in Seq(Frames), q # <<>>
  PROVE  Cardinality(Waiting(q)) = Head(q) + Cardinality(Waiting(Tail(q)))
<1> DEFINE n == Len(q)
           t == Tail(q)
           row == {1} \X (0 .. Head(q) - 1)
           rest == {p \in Waiting(q) : p[1] # 1}
           f == [p \in Waiting(t) |-> <<p[1] + 1, p[2]>>]
<1>1. /\ MaxMessage \in Nat /\ Head(q) \in Nat /\ n \in Nat /\ n > 0 /\ Head(q) <= MaxMessage
      /\ Head(q) = q[1]
  BY IngressAssumption DEF Frames
<1>2. /\ DOMAIN t = 1 .. n - 1 /\ DOMAIN q = 1 .. n /\ t \in Seq(Frames)
      /\ \A i \in 1 .. n - 1 : t[i] = q[i + 1]
  OBVIOUS
<1>3. IsFiniteSet(row) /\ Cardinality(row) = Head(q)
  BY <1>1, RowHolds
<1> HIDE DEF t, n
<1>4. ASSUME NEW p \in Waiting(q), p[1] = 1 PROVE p \in row
  <2>1. p = <<p[1], p[2]>> /\ p[2] \in Sizes /\ p[2] < q[1]
    BY <1>4 DEF Waiting
  <2> QED
    BY <1>1, <1>4, <2>1 DEF Sizes
<1>5. ASSUME NEW p \in row PROVE p \in Waiting(q) /\ p[1] = 1
  <2>1. p = <<p[1], p[2]>> /\ p[1] = 1 /\ p[2] \in 0 .. Head(q) - 1
    OBVIOUS
  <2>2. p \in (DOMAIN q) \X Sizes /\ p[2] < q[p[1]]
    BY <1>1, <1>2, <2>1 DEF Sizes
  <2> QED
    BY <2>1, <2>2 DEF Waiting
<1>6. Waiting(q) = row \cup rest /\ row \cap rest = {}
  BY <1>4, <1>5
<1>7. f \in Bijection(Waiting(t), rest)
  <2>1. ASSUME NEW p \in Waiting(t)
        PROVE  /\ p = <<p[1], p[2]>> /\ p[1] \in 1 .. n - 1
               /\ f[p] = <<p[1] + 1, p[2]>> /\ f[p] \in rest
    <3>1. p \in (DOMAIN t) \X Sizes /\ p[2] < t[p[1]]
      BY DEF Waiting
    <3>2. p = <<p[1], p[2]>> /\ p[1] \in 1 .. n - 1 /\ p[2] \in Sizes
      BY <1>2, <3>1
    <3>3. <<p[1] + 1, p[2]>> \in (DOMAIN q) \X Sizes /\ p[2] < q[p[1] + 1]
      BY <1>1, <1>2, <3>1, <3>2
    <3>4. <<p[1] + 1, p[2]>> \in rest
      BY <1>1, <3>2, <3>3 DEF Waiting
    <3> QED
      BY <3>2, <3>4
  <2>2. ASSUME NEW p \in Waiting(t), NEW o \in Waiting(t), f[p] = f[o] PROVE p = o
    <3> HIDE DEF f
    <3>1. <<p[1] + 1, p[2]>> = <<o[1] + 1, o[2]>>
      BY <2>1, <2>2
    <3>2. p[1] = o[1] /\ p[2] = o[2]
      BY <1>1, <2>1, <3>1
    <3>3. p = <<p[1], p[2]>> /\ o = <<o[1], o[2]>>
      BY <2>1
    <3> QED
      BY <3>2, <3>3
  <2>3. ASSUME NEW o \in rest PROVE \E p \in Waiting(t) : f[p] = o
    <3> DEFINE p == <<o[1] - 1, o[2]>>
    <3>1. o \in (DOMAIN q) \X Sizes /\ o[2] < q[o[1]] /\ o[1] # 1
      BY DEF Waiting
    <3>2. o = <<o[1], o[2]>> /\ o[1] \in 2 .. n /\ o[2] \in Sizes
      BY <1>1, <1>2, <3>1
    <3>3. p \in (DOMAIN t) \X Sizes /\ o[2] < t[o[1] - 1]
      BY <1>1, <1>2, <3>1, <3>2
    <3>4. p \in Waiting(t)
      BY <3>3 DEF Waiting
    <3>5. f[p] = o
      BY <1>1, <3>2, <3>4
    <3> QED
      BY <3>4, <3>5
  <2>4. f \in [Waiting(t) -> rest]
    BY <2>1
  <2> HIDE DEF f, rest
  <2>5. f \in Injection(Waiting(t), rest)
    BY <2>2, <2>4 DEF Injection, IsInjective
  <2>6. f \in Surjection(Waiting(t), rest)
    BY <2>3, <2>4 DEF Surjection
  <2> QED
    BY <2>5, <2>6 DEF Bijection
<1> HIDE DEF f, row, rest
<1>8. IsFiniteSet(Waiting(t)) /\ Cardinality(Waiting(t)) \in Nat
  BY <1>2, WaitingIsFinite
<1>9. IsFiniteSet(rest) /\ Cardinality(rest) = Cardinality(Waiting(t))
  BY <1>7, <1>8, FS_Bijection DEF ExistsBijection
<1>10. Cardinality(Waiting(q)) = Cardinality(row) + Cardinality(rest) - Cardinality({})
  BY <1>3, <1>6, <1>9, FS_Union
<1> QED
  BY <1>1, <1>3, <1>8, <1>9, <1>10, FS_EmptySet DEF t

(***************************************************************************)
(* A web request: what the operators of the socket preserve                *)
(***************************************************************************)
SocketShape ==
  [live : BOOLEAN, active : BOOLEAN, closing : BOOLEAN, sending : BOOLEAN,
   inflight : Nat, peerClosed : BOOLEAN, queue : Seq(Frames), queuedBytes : Nat,
   transferred : Nat, reading : {"no", "read", "done"}, listening : BOOLEAN,
   native : BOOLEAN, tracked : BOOLEAN, closeThrows : BOOLEAN]

Entering(w) == IF w.sending THEN 1 ELSE 0

\* The counters of a socket: what it accounts for and within which bounds.
Accounted(w) ==
  /\ Len(w.queue) + Entering(w) <= MaxQueuedMessages
  /\ w.queuedBytes = w.inflight + Cardinality(Waiting(w.queue))
  /\ w.queuedBytes <= MaxQueuedBytes

\* A frame is in flight while one enters the application only; of a socket that
\* is not active the counters bound nothing but what is in flight.
SocketOK(w) ==
  /\ w \in SocketShape
  /\ w.transferred <= MaxSession
  /\ w.inflight <= w.queuedBytes
  /\ ~ w.sending => w.inflight = 0
  /\ w.active => Accounted(w)

LEMMA CloseOK == ASSUME NEW w, SocketOK(w) PROVE SocketOK(close(w))
<1> DEFINE d == [w EXCEPT !.closing = TRUE, !.native = @ \/ w.closeThrows]
<1>1. /\ d \in SocketShape /\ d.transferred = w.transferred /\ d.inflight = w.inflight
      /\ d.queuedBytes = w.queuedBytes /\ d.sending = w.sending /\ d.active = w.active
      /\ d.queue = w.queue
  BY DEF SocketOK, SocketShape
<1>2. close(w) \in {d, w}
  BY DEF close
<1> HIDE DEF d
<1> QED
  BY <1>1, <1>2 DEF SocketOK, Accounted, Entering

LEMMA FailOK == ASSUME NEW w, SocketOK(w) PROVE SocketOK(fail(w))
<1> DEFINE c == close(w)
           d == [c EXCEPT !.active = FALSE]
<1>1. SocketOK(c)
  BY CloseOK
<1> HIDE DEF c
<1>2. /\ d \in SocketShape /\ d.transferred = c.transferred /\ d.inflight = c.inflight
      /\ d.queuedBytes = c.queuedBytes /\ d.sending = c.sending /\ d.active = FALSE
      /\ d.queue = c.queue
  BY <1>1 DEF SocketOK, SocketShape
<1>3. fail(w) \in {d, w}
  BY DEF fail, c
<1> HIDE DEF d
<1> QED
  BY <1>1, <1>2, <1>3 DEF SocketOK

\* A socket that is no longer active is not bounded by its counters, but what
\* closes it never touches them: the queue moves on once it knows of the failure.
LEMMA FailQuietly ==
  ASSUME NEW w \in SocketShape, w.transferred <= MaxSession, w.inflight <= w.queuedBytes,
         ~ w.sending => w.inflight = 0, w.active
  PROVE  SocketOK(fail(w))
<1> DEFINE c == close(w)
           d == [c EXCEPT !.active = FALSE]
           e == [w EXCEPT !.closing = TRUE, !.native = @ \/ w.closeThrows]
<1>1. /\ e \in SocketShape /\ e.transferred = w.transferred /\ e.inflight = w.inflight
      /\ e.queuedBytes = w.queuedBytes /\ e.sending = w.sending
  BY DEF SocketShape
<1>2. c \in {e, w}
  BY DEF close
<1>3. fail(w) = d
  BY DEF fail
<1> HIDE DEF e, c
<1>4. /\ c \in SocketShape /\ c.transferred = w.transferred /\ c.inflight = w.inflight
      /\ c.queuedBytes = w.queuedBytes /\ c.sending = w.sending
  BY <1>1, <1>2
<1>5. /\ d \in SocketShape /\ d.transferred = c.transferred /\ d.inflight = c.inflight
      /\ d.queuedBytes = c.queuedBytes /\ d.sending = c.sending /\ d.active = FALSE
  BY <1>4 DEF SocketShape
<1> HIDE DEF d
<1> QED
  BY <1>3, <1>4, <1>5 DEF SocketOK

\* Where drain() starts: nothing enters the application, whatever is still noted
\* as in flight left the counter, and one more frame may enter.
Drainable(w) ==
  /\ w \in SocketShape
  /\ w.transferred <= MaxSession
  /\ w.active => /\ Len(w.queue) <= MaxQueuedMessages
                 /\ w.queuedBytes = Cardinality(Waiting(w.queue))
                 /\ w.queuedBytes <= MaxQueuedBytes

LEMMA DrainOK == ASSUME NEW w, Drainable(w) PROVE SocketOK(Drain(w))
<1> DEFINE i == [w EXCEPT !.sending = FALSE, !.inflight = 0]
           e == [w EXCEPT !.sending = TRUE, !.inflight = Head(w.queue), !.queue = Tail(w.queue)]
           l == [w EXCEPT !.sending = FALSE, !.inflight = 0, !.queue = Tail(w.queue),
                          !.queuedBytes = @ - Head(w.queue)]
<1>1. /\ w \in SocketShape /\ w.queue \in Seq(Frames) /\ w.queuedBytes \in Nat
      /\ MaxMessage \in Nat /\ MaxQueuedMessages \in Nat /\ MaxQueuedMessages > 0
  BY IngressAssumption DEF Drainable, SocketShape
<1>2. /\ i \in SocketShape /\ i.transferred = w.transferred /\ i.inflight = 0
      /\ i.queuedBytes = w.queuedBytes /\ i.sending = FALSE /\ i.active = w.active
      /\ i.queue = w.queue
  BY <1>1 DEF SocketShape
<1>3. CASE ~ w.active \/ w.queue = <<>>
  <2>1. Drain(w) = i
    BY <1>3 DEF Drain
  <2>2. i.active => i.queue = <<>> /\ i.queuedBytes = Cardinality(Waiting(<<>>))
    BY <1>2, <1>3 DEF Drainable
  <2>3. i.active => Len(i.queue) = 0 /\ i.queuedBytes = 0 /\ Cardinality(Waiting(i.queue)) = 0
    BY <2>2, WaitingEmpty
  <2>4. MaxQueuedBytes >= 0
    BY IngressAssumption
  <2> HIDE DEF i
  <2> QED
    BY <1>1, <1>2, <2>1, <2>3, <2>4 DEF Drainable, SocketOK, Accounted, Entering, SocketShape
<1>4. CASE w.active /\ w.queue # <<>>
  <2> DEFINE h == Head(w.queue)
             t == Tail(w.queue)
  <2>1. /\ h \in Nat /\ h \in Frames /\ t \in Seq(Frames) /\ Len(t) = Len(w.queue) - 1
        /\ Len(w.queue) \in Nat
    <3> DEFINE q == w.queue
    <3> HIDE DEF q
    <3>1. q \in Seq(Frames) /\ q # <<>>
      BY <1>1, <1>4 DEF q
    <3>2. /\ Head(q) \in Frames /\ Tail(q) \in Seq(Frames) /\ Len(Tail(q)) = Len(q) - 1
          /\ Len(q) \in Nat
      BY <3>1
    <3> QED
      BY <1>1, <3>2 DEF Frames, q
  <2>2. /\ w.queuedBytes = h + Cardinality(Waiting(t)) /\ Cardinality(Waiting(t)) \in Nat
        /\ w.queuedBytes <= MaxQueuedBytes /\ Len(w.queue) <= MaxQueuedMessages
    BY <1>1, <1>4, <2>1, WaitingTail, WaitingIsFinite DEF Drainable
  <2>3. /\ e \in SocketShape /\ e.transferred = w.transferred /\ e.inflight = h
        /\ e.queuedBytes = w.queuedBytes /\ e.sending = TRUE /\ e.active = w.active
        /\ e.queue = t
    <3> HIDE DEF h, t
    <3> QED
      BY <1>1, <2>1 DEF SocketShape, h, t
  <2>4. w.queuedBytes - h \in Nat
    BY <1>1, <2>1, <2>2
  <2>5. /\ l \in SocketShape /\ l.transferred = w.transferred /\ l.inflight = 0
        /\ l.sending = FALSE /\ l.active /\ l.queuedBytes \in Nat
    BY <1>1, <1>4, <2>1, <2>4 DEF SocketShape
  <2>6. Drain(w) = IF Invocable THEN e ELSE fail(l)
    BY <1>4 DEF Drain
  <2> HIDE DEF e, l, h, t
  <2>7. SocketOK(e)
    BY <1>1, <2>1, <2>2, <2>3 DEF Drainable, SocketOK, Accounted, Entering
  <2>8. SocketOK(fail(l))
    BY <2>5, FailQuietly DEF Drainable
  <2> QED
    BY <2>6, <2>7, <2>8
<1> QED
  BY <1>3, <1>4

LEMMA EnqueueOK ==
  ASSUME NEW w, SocketOK(w), w.active, NEW bytes \in Frames
  PROVE  SocketOK(enqueue(w, bytes))
<1> DEFINE y == [w EXCEPT !.queuedBytes = @ + bytes, !.queue = Append(@, bytes)]
           a == Append(w.queue, bytes)
<1>1. /\ w \in SocketShape /\ w.queue \in Seq(Frames) /\ w.queuedBytes \in Nat
      /\ bytes \in Nat /\ MaxQueuedBytes \in Nat /\ MaxQueuedMessages \in Nat
      /\ w.inflight \in Nat
  BY IngressAssumption DEF SocketOK, SocketShape, Frames
<1>2. /\ a \in Seq(Frames) /\ Len(a) = Len(w.queue) + 1 /\ Len(w.queue) \in Nat
      /\ Cardinality(Waiting(a)) = Cardinality(Waiting(w.queue)) + bytes
      /\ Cardinality(Waiting(w.queue)) \in Nat
  BY <1>1, WaitingAppend, WaitingIsFinite
<1>3. /\ y \in SocketShape /\ y.transferred = w.transferred /\ y.inflight = w.inflight
      /\ y.queuedBytes = w.queuedBytes + bytes /\ y.sending = w.sending
      /\ y.active = w.active /\ y.queue = a
  <2> DEFINE n == w.queuedBytes + bytes
  <2>1. y = [w EXCEPT !.queuedBytes = n, !.queue = a]
    OBVIOUS
  <2>2. n \in Nat
    BY <1>1
  <2> HIDE DEF a, n, y
  <2>3. y \in SocketShape /\ y.queuedBytes = n
    BY <1>1, <1>2, <2>1, <2>2 DEF SocketShape
  <2> QED
    BY <1>1, <2>1, <2>3 DEF SocketShape, n
<1>4. CASE QueueFull(w) \/ bytes > MaxQueuedBytes - w.queuedBytes
  BY <1>4, FailOK DEF enqueue
<1>5. CASE ~ (QueueFull(w) \/ bytes > MaxQueuedBytes - w.queuedBytes)
  <2>1. enqueue(w, bytes) = IF w.sending THEN y ELSE Drain(y)
    BY <1>5 DEF enqueue
  <2> HIDE DEF y, a
  <2> DEFINE used == Entering(w)
  <2>2. /\ Len(a) + used <= MaxQueuedMessages
        /\ w.queuedBytes + bytes <= MaxQueuedBytes
    <3>1. ~ (Len(w.queue) + used >= MaxQueuedMessages)
      BY <1>5 DEF QueueFull, Entering
    <3>2. used \in {0, 1}
      BY DEF Entering
    <3>3. ~ (bytes > MaxQueuedBytes - w.queuedBytes)
      BY <1>5
    <3> HIDE DEF used
    <3> QED
      BY <1>1, <1>2, <3>1, <3>2, <3>3
  <2>3. w.queuedBytes + bytes = w.inflight + Cardinality(Waiting(a))
    BY <1>1, <1>2 DEF SocketOK, Accounted
  <2> HIDE DEF used
  <2>4. ASSUME w.sending PROVE SocketOK(y)
    <3>1. w.transferred <= MaxSession /\ Accounted(w)
      BY DEF SocketOK
    <3>2. Entering(y) = used
      BY <1>3 DEF Entering, used
    <3>3. w.inflight <= w.queuedBytes + bytes
      BY <1>1, <1>2, <2>3
    <3>4. Accounted(y)
      BY <1>3, <2>2, <2>3, <3>2 DEF Accounted
    <3> QED
      BY <1>3, <2>4, <3>1, <3>3, <3>4 DEF SocketOK
  <2>5. ASSUME ~ w.sending PROVE Drainable(y)
    <3>1. w.transferred <= MaxSession /\ Accounted(w) /\ w.inflight = 0
      BY <2>5 DEF SocketOK
    <3>2. used = 0
      BY <2>5 DEF Entering, used
    <3>3. /\ Len(a) <= MaxQueuedMessages
          /\ w.queuedBytes + bytes = Cardinality(Waiting(a))
      BY <1>1, <1>2, <2>2, <2>3, <3>1, <3>2
    <3> QED
      BY <1>3, <2>2, <3>1, <3>3 DEF Drainable
  <2> QED
    BY <2>1, <2>4, <2>5, DrainOK
<1> QED
  BY <1>4, <1>5

\* What leaves the counters alone keeps them right.
LEMMA SameCounters ==
  ASSUME NEW w, SocketOK(w), NEW d \in SocketShape,
         d.transferred = w.transferred, d.inflight = w.inflight, d.queuedBytes = w.queuedBytes,
         d.sending = w.sending, d.queue = w.queue, d.active => w.active
  PROVE  SocketOK(d)
  BY DEF SocketOK, Accounted, Entering

LEMMA SpendOK ==
  ASSUME NEW w, SocketOK(w), NEW bytes \in Nat, ~ OverBudget(w, bytes)
  PROVE  SocketOK(Spend(w, bytes)) /\ Spend(w, bytes).active = w.active
<1> DEFINE d == Spend(w, bytes)
           n == w.transferred + bytes
<1>1. w \in SocketShape /\ w.transferred \in Nat /\ MaxSession \in Nat
  BY IngressAssumption DEF SocketOK, SocketShape
<1>2. n \in Nat /\ n <= MaxSession
  BY <1>1 DEF OverBudget
<1>3. d = [w EXCEPT !.transferred = n]
  BY DEF Spend
<1> HIDE DEF d, n
<1>4. /\ d \in SocketShape /\ d.transferred = n /\ d.inflight = w.inflight
      /\ d.queuedBytes = w.queuedBytes /\ d.sending = w.sending /\ d.queue = w.queue
      /\ d.active = w.active
  BY <1>1, <1>2, <1>3 DEF SocketShape
<1> QED
  BY <1>2, <1>4 DEF SocketOK, Accounted, Entering, d

\* The flags that the events of the platform set.
LEMMA FlagsOK ==
  ASSUME NEW w, SocketOK(w)
  PROVE  /\ SocketOK([w EXCEPT !.reading = "done"])
         /\ SocketOK([w EXCEPT !.listening = FALSE])
         /\ SocketOK([w EXCEPT !.native = TRUE])
         /\ SocketOK([w EXCEPT !.native = TRUE, !.peerClosed = TRUE])
<1>1. w \in SocketShape
  BY DEF SocketOK
<1>2. ASSUME NEW d, NEW reading \in {"no", "read", "done"}, NEW listening \in BOOLEAN,
             NEW live \in BOOLEAN, NEW peerClosed \in BOOLEAN,
             d = [w EXCEPT !.reading = reading, !.listening = listening, !.native = live,
                           !.peerClosed = peerClosed]
      PROVE  SocketOK(d)
  <2>1. d \in SocketShape
    BY <1>1, <1>2 DEF SocketShape
  <2>2. /\ d.transferred = w.transferred /\ d.inflight = w.inflight
        /\ d.queuedBytes = w.queuedBytes /\ d.sending = w.sending /\ d.queue = w.queue
        /\ d.active = w.active
    BY <1>1, <1>2 DEF SocketShape
  <2> QED
    BY <2>1, <2>2, SameCounters
<1>3. w.reading \in {"no", "read", "done"} /\ w.listening \in BOOLEAN
      /\ w.native \in BOOLEAN /\ w.peerClosed \in BOOLEAN
  BY <1>1 DEF SocketShape
<1>4. SocketOK([w EXCEPT !.reading = "done"])
  <2>1. [w EXCEPT !.reading = "done"]
          = [w EXCEPT !.reading = "done", !.listening = w.listening, !.native = w.native,
                      !.peerClosed = w.peerClosed]
    BY <1>1 DEF SocketShape
  <2> QED
    BY <1>2, <1>3, <2>1
<1>5. SocketOK([w EXCEPT !.listening = FALSE])
  <2>1. [w EXCEPT !.listening = FALSE]
          = [w EXCEPT !.reading = w.reading, !.listening = FALSE, !.native = w.native,
                      !.peerClosed = w.peerClosed]
    BY <1>1 DEF SocketShape
  <2> QED
    BY <1>2, <1>3, <2>1
<1>6. SocketOK([w EXCEPT !.native = TRUE])
  <2>1. [w EXCEPT !.native = TRUE]
          = [w EXCEPT !.reading = w.reading, !.listening = w.listening, !.native = TRUE,
                      !.peerClosed = w.peerClosed]
    BY <1>1 DEF SocketShape
  <2> QED
    BY <1>2, <1>3, <2>1
<1>7. SocketOK([w EXCEPT !.native = TRUE, !.peerClosed = TRUE])
  <2>1. [w EXCEPT !.native = TRUE, !.peerClosed = TRUE]
          = [w EXCEPT !.reading = w.reading, !.listening = w.listening, !.native = TRUE,
                      !.peerClosed = TRUE]
    BY <1>1 DEF SocketShape
  <2> QED
    BY <1>2, <1>3, <2>1
<1> QED
  BY <1>4, <1>5, <1>6, <1>7

\* The frame that entered leaves the counter; the queue may move on, or the
\* socket fail.
LEMMA TakenOK ==
  ASSUME NEW w, SocketOK(w), w.sending
  PROVE  LET d == [w EXCEPT !.queuedBytes = @ - w.inflight]
         IN  /\ SocketOK(Drain(d))
             /\ SocketOK(fail([d EXCEPT !.sending = FALSE, !.inflight = 0]))
<1> DEFINE d == [w EXCEPT !.queuedBytes = @ - w.inflight]
           e == [d EXCEPT !.sending = FALSE, !.inflight = 0]
           n == w.queuedBytes - w.inflight
<1>1. /\ w \in SocketShape /\ w.queue \in Seq(Frames) /\ w.queuedBytes \in Nat
      /\ w.inflight \in Nat /\ Len(w.queue) \in Nat
      /\ MaxQueuedMessages \in Nat /\ MaxQueuedBytes \in Nat
  BY IngressAssumption DEF SocketOK, SocketShape
<1>2. n \in Nat /\ n <= w.queuedBytes
  BY <1>1 DEF SocketOK
<1>3. d = [w EXCEPT !.queuedBytes = n]
  OBVIOUS
<1> HIDE DEF d, n
<1>4. /\ d \in SocketShape /\ d.transferred = w.transferred /\ d.inflight = w.inflight
      /\ d.queuedBytes = n /\ d.sending = w.sending /\ d.queue = w.queue
      /\ d.active = w.active
  BY <1>1, <1>2, <1>3 DEF SocketShape
<1>5. /\ e \in SocketShape /\ e.transferred = w.transferred /\ e.inflight = 0
      /\ e.queuedBytes = n /\ e.sending = FALSE /\ e.queue = w.queue
      /\ e.active = w.active
  BY <1>4 DEF SocketShape
<1> HIDE DEF e
<1>6. Cardinality(Waiting(w.queue)) \in Nat
  BY <1>1, WaitingIsFinite
<1>7. w.active => /\ Len(w.queue) <= MaxQueuedMessages
                  /\ n = Cardinality(Waiting(w.queue)) /\ n <= MaxQueuedBytes
  BY <1>1, <1>2, <1>6 DEF SocketOK, Accounted, Entering, n
<1>8. Drainable(d)
  BY <1>4, <1>7 DEF Drainable, SocketOK
<1>9. SocketOK(e)
  <2>1. Entering(e) = 0
    BY <1>5 DEF Entering
  <2>2. e.active => Accounted(e)
    BY <1>1, <1>2, <1>5, <1>6, <1>7, <2>1 DEF Accounted
  <2> QED
    BY <1>2, <1>5, <2>2 DEF SocketOK
<1> QED
  BY <1>8, <1>9, DrainOK, FailOK DEF e, d

LEMMA NoSocketOK ==
  /\ SocketOK(NoSocket)
  /\ \A admitted, throws \in BOOLEAN : SocketOK(AcceptedSocket(admitted, throws))
<1>1. /\ MaxSession \in Nat /\ MaxQueuedMessages \in Nat /\ MaxQueuedBytes \in Nat
      /\ <<>> \in Seq(Frames) /\ Len(<<>>) = 0
  BY IngressAssumption
<1>2. 0 = 0 + Cardinality(Waiting(<<>>))
  BY WaitingEmpty
<1>3. ASSUME NEW d \in SocketShape, d.transferred = 0, d.inflight = 0,
             d.queuedBytes = 0, d.sending = FALSE, d.queue = <<>>
      PROVE  SocketOK(d)
  <2>1. Entering(d) = 0
    BY <1>3 DEF Entering
  <2>2. Accounted(d)
    BY <1>1, <1>2, <1>3, <2>1 DEF Accounted
  <2> QED
    BY <1>1, <1>3, <2>2 DEF SocketOK
<1>4. SocketOK(NoSocket)
  BY <1>1, <1>3 DEF NoSocket, SocketShape
<1>5. ASSUME NEW admitted \in BOOLEAN, NEW throws \in BOOLEAN
      PROVE  SocketOK(AcceptedSocket(admitted, throws))
  <2> DEFINE w == AcceptedSocket(admitted, throws)
             reading == IF scopeClosed THEN "done" ELSE "read"
  <2>0. w = [NoSocket EXCEPT !.live = TRUE, !.active = TRUE, !.listening = TRUE,
                             !.reading = reading, !.tracked = admitted,
                             !.closeThrows = throws]
    BY DEF AcceptedSocket
  <2>1. reading \in {"done", "read"}
    OBVIOUS
  <2> HIDE DEF reading, w
  <2>2. w \in SocketShape
    BY <1>1, <2>0, <2>1 DEF NoSocket, SocketShape
  <2>3. /\ w.transferred = 0 /\ w.inflight = 0 /\ w.queuedBytes = 0
        /\ w.sending = FALSE /\ w.queue = <<>>
    BY <2>0 DEF NoSocket
  <2> QED
    BY <1>3, <2>2, <2>3 DEF w
<1> QED
  BY <1>4, <1>5

(***************************************************************************)
(* A web request: the inductive invariant                                  *)
(***************************************************************************)
BodyShape ==
  [state : {"none", "readable", "closed", "errored", "cancelled"}, ended : BOOLEAN,
   pull : {"no", "read", "end"}, received : Nat, complete : BOOLEAN, observed : BOOLEAN]

\* A body exists only once the session is open, and what it still has to show
\* as its end is complete.
BodyOK(b) ==
  /\ b \in BodyShape /\ b.received <= MaxBody
  /\ b.pull = "end" => b.complete

Hosted ==
  /\ handler \in {"reading", "opening", "forbidden", "transferred", "cleaning", "answered"}
  /\ session \in {"none", "open", "closing", "clean", "failed"}
  /\ ending \in {"clean", "failed"} /\ scopeClosed \in BOOLEAN

IngressInv ==
  /\ Hosted /\ BodyOK(body) /\ SocketOK(socket)
  /\ handler \in {"reading", "opening"} => session = "none" /\ body = NoBody
  /\ TruncationShows

LEMMA IngressTypes == IngressInv => IngressTypeOK /\ SocketBounded
<1> SUFFICES ASSUME IngressInv PROVE IngressTypeOK /\ SocketBounded
  OBVIOUS
<1>1. body \in [state : {"none", "readable", "closed", "errored", "cancelled"}, ended : BOOLEAN,
                pull : {"no", "read", "end"}, received : 0..MaxBody,
                complete : BOOLEAN, observed : BOOLEAN]
  BY IngressAssumption DEF IngressInv, BodyOK, BodyShape
<1>2. socket \in SocketShape /\ socket.queue \in Seq(Frames)
  BY DEF IngressInv, SocketOK, SocketShape
<1>3. socket.queue \in Seq(Nat)
  <2> DEFINE q == socket.queue
  <2> HIDE DEF q
  <2>1. q \in Seq(Frames)
    BY <1>2 DEF q
  <2>2. Frames \subseteq Nat
    BY IngressAssumption DEF Frames
  <2>3. q \in Seq(Nat)
    BY <2>1, <2>2, SeqMonotonic
  <2> QED
    BY <2>3 DEF q
<1>4. socket \in [live : BOOLEAN, active : BOOLEAN, closing : BOOLEAN, sending : BOOLEAN,
                 inflight : Nat, peerClosed : BOOLEAN, queue : Seq(Nat), queuedBytes : Nat,
                 transferred : Nat, reading : {"no", "read", "done"}, listening : BOOLEAN,
                 native : BOOLEAN, tracked : BOOLEAN, closeThrows : BOOLEAN]
  BY <1>2, <1>3 DEF SocketShape
<1>5. IngressTypeOK
  BY <1>1, <1>4 DEF IngressInv, Hosted, IngressTypeOK
<1>6. SocketBounded
  BY DEF IngressInv, SocketOK, Accounted, Entering, SocketBounded
<1> QED
  BY <1>5, <1>6

LEMMA IngressStarts == IngressInit => IngressInv
<1> SUFFICES ASSUME IngressInit PROVE IngressInv
  OBVIOUS
<1>1. BodyOK(body) /\ TruncationShows
  BY IngressAssumption DEF IngressInit, BodyOK, BodyShape, NoBody, TruncationShows
<1> QED
  BY <1>1, NoSocketOK DEF IngressInit, IngressInv, Hosted

LEMMA IngressPreserves == IngressInv /\ [IngressNext]_ingressVars => IngressInv'
<1> SUFFICES ASSUME IngressInv, [IngressNext]_ingressVars PROVE IngressInv'
  OBVIOUS
<1> USE DEF IngressInv
\* A step of the socket keeps everything else.
<1>1. ASSUME NEW w, SocketOK(w), SocketBecomes(w) PROVE IngressInv'
  BY <1>1 DEF SocketBecomes, Hosted, BodyOK, SocketOK, Accounted, TruncationShows
<1>2. SocketOK(AbortNative(socket))
  BY CloseOK DEF AbortNative
\* A step of the body, once there is one, keeps the host.
<1>3. ASSUME handler' = handler, session' = session, ending' = ending, socket' = socket,
             scopeClosed' \in BOOLEAN, handler \notin {"reading", "opening"},
             BodyOK(body'), body'.state = "closed" => body'.complete /\ session = "clean"
      PROVE  IngressInv'
  BY <1>3 DEF Hosted, BodyOK, SocketOK, Accounted, TruncationShows
\* A step of the host that leaves the body alone.
<1>4. ASSUME Hosted', UNCHANGED body, SocketOK(socket'), handler' \notin {"reading", "opening"},
             session = "clean" => session' = "clean"
      PROVE  IngressInv'
  BY <1>4 DEF BodyOK, SocketOK, Accounted, TruncationShows
<1>5. CASE UNCHANGED ingressVars
  BY <1>5 DEF ingressVars, Hosted, BodyOK, SocketOK, Accounted, TruncationShows
<1>6. CASE RequestAborts
  <2>1. Hosted' /\ UNCHANGED <<body, session>> /\ handler' = handler
    BY <1>6 DEF RequestAborts, Hosted
  <2>2. SocketOK(socket')
    BY <1>6, <1>2 DEF RequestAborts
  <2>3. body.state = "closed" => session' = "clean"
    BY <2>1 DEF TruncationShows
  <2> QED
    BY <2>1, <2>2 DEF BodyOK, TruncationShows
<1>7. CASE SessionEnds
  BY <1>2, <1>4, <1>7 DEF SessionEnds, Hosted
<1>8. CASE SessionSettles
  BY <1>4, <1>8 DEF SessionSettles, Hosted
<1>9. CASE ReadBody
  <2>1. Hosted' /\ UNCHANGED <<body, session>> /\ session = "none" /\ body = NoBody
    BY <1>9 DEF ReadBody, GiveUp, Hosted
  <2>2. SocketOK(socket')
    BY <1>9, <1>2 DEF ReadBody, GiveUp
  <2>3. NoBody.state = "none"
    BY DEF NoBody
  <2> QED
    BY <2>1, <2>2, <2>3 DEF BodyOK, TruncationShows
<1>10. CASE OpenRejects \/ OpenIsInvalid
  BY <1>2, <1>4, <1>10 DEF OpenRejects, OpenIsInvalid, GiveUp, Hosted
<1>11. CASE OpenStreams
  <2>1. Hosted' /\ UNCHANGED socket /\ handler' \notin {"reading", "opening"} /\ body = NoBody
    BY <1>11 DEF OpenStreams, Hosted
  <2>2. body' = body \/ body' = [NoBody EXCEPT !.state = "readable"]
    BY <1>11 DEF OpenStreams
  <2>3. BodyOK(body') /\ body'.state # "closed"
    BY <2>1, <2>2, IngressAssumption DEF BodyOK, BodyShape, NoBody
  <2> QED
    BY <2>1, <2>3 DEF BodyOK, SocketOK, Accounted, TruncationShows
<1>12. CASE OpenUpgrades
  <2>1. Hosted' /\ UNCHANGED body /\ handler' \notin {"reading", "opening"} /\ session # "clean"
    BY <1>12 DEF OpenUpgrades, Hosted
  <2>2. PICK admitted \in BOOLEAN, throws \in BOOLEAN :
          socket' \in {AcceptedSocket(admitted, throws),
                      [fail(AcceptedSocket(admitted, throws)) EXCEPT !.listening = FALSE]}
    BY <1>12 DEF OpenUpgrades
  <2>3. SocketOK(socket')
    BY <2>2, NoSocketOK, FailOK, FlagsOK
  <2> QED
    BY <1>4, <2>1, <2>3
<1>13. CASE ForbiddenBodyEnds \/ Cleaned
  BY <1>2, <1>4, <1>13 DEF ForbiddenBodyEnds, Cleaned, GiveUp, Hosted
\* The body.
<1>14. /\ BodyOK(Errored(body))
       /\ Errored(body).state = "closed" => /\ body.state = "closed"
                                           /\ Errored(body).complete = body.complete
  BY DEF Errored, BodyOK, BodyShape
<1>15. ASSUME body # NoBody, PullFails PROVE IngressInv'
  <2>1. body' = Errored(body) /\ UNCHANGED <<handler, session, ending, socket>>
        /\ scopeClosed' \in BOOLEAN
    BY <1>15 DEF PullFails, Hosted
  <2> QED
    BY <1>3, <1>14, <1>15, <2>1 DEF TruncationShows
<1>16. ASSUME body # NoBody, NEW b, BodyBecomes(b), BodyOK(b),
              b.state = "closed" => b.complete /\ session = "clean"
       PROVE  IngressInv'
  BY <1>3, <1>16 DEF BodyBecomes, Hosted
<1>17. body.pull # "no" \/ body.state # "none" => body # NoBody
  BY DEF NoBody
<1>18. CASE Pull
  <2> DEFINE b == [body EXCEPT !.pull = "read"]
  <2>1. body # NoBody /\ (BodyBecomes(b) \/ PullFails)
    BY <1>17, <1>18 DEF Pull
  <2>2. BodyOK(b) /\ b.state = body.state /\ b.complete = body.complete
    BY DEF BodyOK, BodyShape
  <2> HIDE DEF b
  <2> QED
    BY <1>15, <1>16, <2>1, <2>2 DEF TruncationShows
<1>19. ASSUME NEW bytes \in Sizes, ChunkArrives(bytes) PROVE IngressInv'
  <2> DEFINE b == [body EXCEPT !.pull = "no", !.received = @ + bytes]
  <2>1. body # NoBody /\ (PullFails \/ (~ TooLarge(bytes) /\ BodyBecomes(b)))
    BY <1>17, <1>19 DEF ChunkArrives
  <2>2. body.received \in Nat /\ bytes \in Nat /\ MaxBody \in Nat
    BY IngressAssumption DEF BodyOK, BodyShape, Sizes
  <2>3. ~ TooLarge(bytes) => body.received + bytes \in Nat /\ body.received + bytes <= MaxBody
    BY <2>2 DEF TooLarge
  <2>4. ~ TooLarge(bytes) => BodyOK(b) /\ b.state = body.state /\ b.complete = body.complete
    BY <2>3 DEF BodyOK, BodyShape
  <2> HIDE DEF b
  <2> QED
    BY <1>15, <1>16, <2>1, <2>4 DEF TruncationShows
<1>20. CASE TerminalArrives
  <2> DEFINE b == [body EXCEPT !.pull = "end", !.complete = TRUE]
  <2>1. body # NoBody /\ BodyBecomes(b)
    BY <1>17, <1>20 DEF TerminalArrives
  <2>2. BodyOK(b) /\ b.state = body.state /\ b.complete
    BY DEF BodyOK, BodyShape
  <2> HIDE DEF b
  <2> QED
    BY <1>16, <2>1, <2>2 DEF TruncationShows
<1>21. CASE TerminalShown
  <2> DEFINE after == IF body.state = "readable" THEN "closed" ELSE body.state
             b == [body EXCEPT !.pull = "no", !.ended = TRUE, !.state = after]
  <2>1. body # NoBody /\ body.pull = "end"
        /\ ((session = "clean" /\ BodyBecomes(b)) \/ PullFails)
    BY <1>17, <1>21 DEF TerminalShown, EndIsShown
  <2>2. after \in {"none", "readable", "closed", "errored", "cancelled"}
    BY DEF BodyOK, BodyShape
  <2> HIDE DEF after
  <2>3. BodyOK(b) /\ b.complete = body.complete /\ body.complete
    BY <2>1, <2>2 DEF BodyOK, BodyShape
  <2> HIDE DEF b
  <2> QED
    BY <1>15, <1>16, <2>1, <2>3
<1>22. CASE FailureShows
  <2> DEFINE b == [body EXCEPT !.observed = TRUE]
             e == [Errored(body) EXCEPT !.pull = body.pull, !.observed = TRUE]
  <2>1. body # NoBody /\ (BodyBecomes(b) \/ BodyBecomes(e))
    BY <1>17, <1>22 DEF FailureShows, Errored
  <2>2. BodyOK(b) /\ b.state = body.state /\ b.complete = body.complete
    BY DEF BodyOK, BodyShape
  <2>3. BodyOK(e) /\ e.complete = body.complete
        /\ (e.state = "closed" => body.state = "closed")
    BY DEF BodyOK, BodyShape, Errored
  <2> HIDE DEF b, e
  <2> QED
    BY <1>16, <2>1, <2>2, <2>3 DEF TruncationShows
<1>23. CASE ClientCancels
  <2>1. /\ UNCHANGED <<handler, session, ending, socket>> /\ scopeClosed' \in BOOLEAN
        /\ body # NoBody
    BY <1>17, <1>23 DEF ClientCancels, Hosted
  <2>2. BodyOK(body') /\ body'.state = "cancelled"
    BY <1>23 DEF ClientCancels, BodyOK, BodyShape
  <2> QED
    BY <1>3, <2>1, <2>2
\* The socket.
<1>24. ASSUME NEW bytes \in Sizes, MessageArrives(bytes) PROVE IngressInv'
  <2>1. socket.active /\ bytes \in Nat
        /\ SocketBecomes(IF OverBudget(socket, bytes) THEN fail(socket)
                         ELSE enqueue(Spend(socket, bytes), bytes))
    BY <1>24, IngressAssumption DEF MessageArrives, Sizes
  <2>2. CASE OverBudget(socket, bytes)
    BY <1>1, <2>1, <2>2, FailOK
  <2>3. CASE ~ OverBudget(socket, bytes)
    <3>1. bytes \in Frames
      BY <2>1, <2>3, IngressAssumption DEF OverBudget, Frames
    <3>2. SocketOK(enqueue(Spend(socket, bytes), bytes))
      BY <2>1, <2>3, <3>1, SpendOK, EnqueueOK
    <3> QED
      BY <1>1, <2>1, <2>3, <3>2
  <2> QED
    BY <2>2, <2>3
<1>25. CASE FrameTaken
  <2> DEFINE w == [socket EXCEPT !.queuedBytes = @ - socket.inflight]
  <2>1. /\ socket.sending
        /\ \/ SocketBecomes(Drain(w))
           \/ SocketBecomes(fail([w EXCEPT !.sending = FALSE, !.inflight = 0]))
    BY <1>25 DEF FrameTaken
  <2> HIDE DEF w
  <2> QED
    BY <1>1, <2>1, TakenOK DEF w
<1>26. ASSUME NEW abnormal \in BOOLEAN, PeerCloses(abnormal) PROVE IngressInv'
  <2> DEFINE w == [socket EXCEPT !.native = TRUE, !.peerClosed = TRUE]
  <2>1. \/ SocketBecomes(w) \/ SocketBecomes(fail(w))
        \/ w.active /\ SocketBecomes(enqueue(w, 0))
    BY <1>26 DEF PeerCloses
  <2>2. SocketOK(w)
    BY FlagsOK
  <2>3. 0 \in Frames
    BY IngressAssumption DEF Frames
  <2> HIDE DEF w
  <2> QED
    BY <1>1, <2>1, <2>2, <2>3, FailOK, EnqueueOK
<1>27. CASE SocketErrors
  BY <1>1, <1>27, FlagsOK, FailOK DEF SocketErrors
<1>28. CASE FrameArrives
  <2> DEFINE stop(w) == [w EXCEPT !.reading = "done"]
  <2>1. \/ SocketBecomes(stop(socket))
        \/ \E bytes \in Sizes :
             \/ SocketBecomes(stop(fail(socket)))
             \/ ~ OverBudget(socket, bytes) /\ SocketBecomes(stop(fail(Spend(socket, bytes))))
             \/ ~ OverBudget(socket, bytes) /\ SocketBecomes(Spend(socket, bytes))
        \/ SocketBecomes(stop(close(socket)))
        \/ SocketBecomes(close(socket))
        \/ SocketBecomes(stop(fail(socket)))
    BY <1>28 DEF FrameArrives
  <2>2. ASSUME NEW w, SocketOK(w) PROVE SocketOK(stop(w))
    BY <2>2, FlagsOK
  <2>3. Sizes \subseteq Nat
    BY IngressAssumption DEF Sizes
  <2> HIDE DEF stop
  <2> QED
    BY <1>1, <2>1, <2>2, <2>3, FailOK, CloseOK, SpendOK
<1>29. CASE SocketCleanup
  <2> DEFINE w == IF session = "failed" THEN close(socket) ELSE socket
             d == [w EXCEPT !.active = FALSE, !.queue = <<>>, !.listening = FALSE]
  <2>1. SocketOK(w)
    BY CloseOK
  <2>2. socket' = d /\ UNCHANGED <<handler, session, ending, scopeClosed, body>>
    BY <1>29 DEF SocketCleanup
  <2> HIDE DEF w
  <2>3. <<>> \in Seq(Frames)
    OBVIOUS
  <2>4. /\ d \in SocketShape /\ d.transferred = w.transferred /\ d.inflight = w.inflight
        /\ d.queuedBytes = w.queuedBytes /\ d.sending = w.sending /\ d.active = FALSE
    BY <2>1, <2>3 DEF SocketOK, SocketShape
  <2> HIDE DEF d
  <2>5. SocketOK(d)
    BY <2>1, <2>4 DEF SocketOK
  <2> QED
    BY <2>2, <2>5 DEF Hosted, BodyOK, TruncationShows
<1> QED
  BY <1>5, <1>6, <1>7, <1>8, <1>9, <1>10, <1>11, <1>12, <1>13, <1>18, <1>19, <1>20, <1>21,
     <1>22, <1>23, <1>24, <1>25, <1>26, <1>27, <1>28, <1>29 DEF IngressNext

LEMMA IngressAlways == Spec => []IngressInv
<1>1. Init => IngressInv
  BY IngressStarts DEF Init
<1>2. IngressInv /\ [Next]_vars => IngressInv'
  BY IngressPreserves DEF Next, vars, PluginStep, IngressStep, EgressStep, ClockStep
<1> QED
  BY <1>1, <1>2, PTL DEF Spec

\* Whenever a client is shown the regular end of a body, the body is complete
\* and the session behind it was closed cleanly.
THEOREM TruncationIsShown == Spec => []TruncationShows
<1>1. IngressInv => TruncationShows
  BY DEF IngressInv
<1> QED
  BY <1>1, IngressAlways, PTL

\* A socket never holds more frames or bytes than it may, and its counter is
\* what the frames that wait and the one that is entering amount to.
THEOREM SocketStaysBounded == Spec => []SocketBounded
<1> QED
  BY IngressTypes, IngressAlways, PTL

(***************************************************************************)
(* A plugin instance: the shape of a stream                                *)
(***************************************************************************)
Phases == {"idle", "opening", "cancelled", "open", "over"}
Sendings == {"no", "send", "closeSend"}
Cleanups == {"no", "running", "done", "failed"}
Closings == {"pending", "resolved", "rejected"}
Calls == {"next", "return", "turn"}

StreamShape ==
  [phase : Phases, held : BOOLEAN, aborted : BOOLEAN, cancelled : BOOLEAN,
   cancelling : BOOLEAN, receiving : Receiving, sending : Sendings, sendClosed : BOOLEAN,
   actions : Nat, physical : BOOLEAN, released : BOOLEAN, uncertain : BOOLEAN,
   cut : BOOLEAN, finished : BOOLEAN, cleanup : Cleanups, closed : Closings,
   turns : Nat, started : BOOLEAN, ended : BOOLEAN, calls : Seq(Calls)]

\* The actions in flight are the receive, the send and the cancellation.
Counted(x) ==
  x.actions = (IF x.receiving # "no" THEN 1 ELSE 0) + (IF x.sending # "no" THEN 1 ELSE 0)
                + (IF x.cancelling THEN 1 ELSE 0)

\* Nothing happened to a stream that was not handed out.
Untouched(x) ==
  /\ ~ x.started => /\ ~ x.held /\ ~ x.cancelled /\ ~ x.cancelling /\ ~ x.physical
                    /\ ~ x.released /\ ~ x.uncertain /\ ~ x.cut /\ ~ x.finished /\ ~ x.ended
                    /\ x.receiving = "no" /\ x.sending = "no" /\ x.cleanup = "no"
                    /\ x.closed = "pending" /\ x.phase \notin {"open", "cancelled"}
  /\ x.phase \in {"idle", "opening"} => ~ x.started

\* The iterator was asked for what the lowering waits for, and for nothing else.
Asked(x) ==
  /\ x.receiving = "next" /\ x.cleanup = "running" => x.calls = <<"next", "return">>
  /\ x.receiving = "next" /\ x.cleanup # "running" => x.calls = <<"next">>
  /\ x.receiving # "next" /\ x.cleanup = "running" => x.calls \in {<<"return">>, <<"turn">>}
  /\ x.receiving # "next" /\ x.cleanup # "running" => x.calls = <<>>

\* The lowering is cut by its cleanup only, and a cut stream asks no more.
CutOK(x) ==
  /\ (x.cut = TRUE) <=> (x.cleanup # "no")
  /\ x.cancelling => x.cancelled

AsksNoMore(x) ==
  x.cut => x.cancelled \/ x.aborted \/ x.receiving \in {"closed", "failed"}

\* What the receipt means: the iterator is over and its cleanup not under way.
ReceiptOK(x) ==
  /\ x.closed = "resolved" => x.finished /\ x.ended /\ x.cleanup \in {"no", "done"}
  /\ x.physical => x.closed = "resolved"
  /\ x.released => x.physical /\ x.receiving = "no" /\ ~ x.held

StreamOK(x) ==
  /\ x \in StreamShape /\ x.turns <= CleanupTurns
  /\ Counted(x) /\ Untouched(x) /\ Asked(x) /\ CutOK(x) /\ AsksNoMore(x) /\ ReceiptOK(x)

\* A stream takes a place: its open is under way, it is a session, or its
\* iterator is alive.
Claims(x) == x.phase = "opening" \/ x.held \/ (x.started /\ ~ x.ended)
Loose(x) == x.phase \in {"opening", "cancelled"} \/ x.held
\* It left its session without a release.
Lost(x) == x.started /\ ~ x.held /\ ~ x.released

\* What a step does to a stream: it takes no place it had not, and whoever has
\* been released stays so.
Moves(x, y) ==
  /\ StreamOK(y)
  /\ Claims(y) => Claims(x)
  /\ Loose(y) => Loose(x)
  /\ Lost(y) => Lost(x)
  /\ y.uncertain => x.uncertain \/ (x.started /\ ~ x.released)

(***************************************************************************)
(* A plugin instance: what the layers do                                   *)
(***************************************************************************)

\* A second call in the queue of the iterator.
LEMMA AppendOne ==
  ASSUME NEW a \in Calls, NEW b \in Calls PROVE Append(<<a>>, b) = <<a, b>>
<1>1. <<a>> \in Seq(Calls) /\ <<a, b>> \in Seq(Calls)
  OBVIOUS
<1>2. Len(Append(<<a>>, b)) = 2 /\ Len(<<a, b>>) = 2 /\ Append(<<a>>, b) \in Seq(Calls)
  BY <1>1
<1>3. Append(<<a>>, b)[1] = a /\ Append(<<a>>, b)[2] = b
  BY <1>1
<1>4. \A i \in 1 .. 2 : Append(<<a>>, b)[i] = <<a, b>>[i]
  BY <1>3
<1> QED
  BY <1>1, <1>2, <1>4, SeqEqual

\* release() changes two flags.
LEMMA ReleaseDoes ==
  ASSUME NEW x, StreamOK(x)
  PROVE  LET y == release(x) IN
         /\ StreamOK(y)
         /\ y.phase = x.phase /\ y.started = x.started /\ y.ended = x.ended
         /\ y.uncertain = x.uncertain
         /\ y.held => x.held
         /\ Lost(y) => Lost(x)
<1> DEFINE y == release(x)
           d == [x EXCEPT !.released = TRUE, !.held = FALSE]
<1>1. x \in StreamShape
  BY DEF StreamOK
<1>2. CASE ~ (x.physical /\ x.actions = 0 /\ ~x.uncertain /\ ~x.released)
  BY <1>2 DEF release
<1>3. CASE x.physical /\ x.actions = 0 /\ ~x.uncertain /\ ~x.released
  <2>1. y = d
    BY <1>3 DEF release
  <2>2. /\ d \in StreamShape /\ d.phase = x.phase /\ d.aborted = x.aborted
        /\ d.cancelled = x.cancelled /\ d.cancelling = x.cancelling
        /\ d.receiving = x.receiving /\ d.sending = x.sending /\ d.actions = x.actions
        /\ d.physical = x.physical /\ d.uncertain = x.uncertain /\ d.cut = x.cut
        /\ d.finished = x.finished /\ d.cleanup = x.cleanup /\ d.closed = x.closed
        /\ d.turns = x.turns /\ d.started = x.started /\ d.ended = x.ended
        /\ d.calls = x.calls /\ d.released = TRUE /\ d.held = FALSE
    BY <1>1 DEF StreamShape
  <2> HIDE DEF d
  <2>3. x.receiving = "no"
    BY <1>3 DEF StreamOK, Counted
  <2>4. x.started
    BY <1>3 DEF StreamOK, Untouched
  <2>5. Counted(d) /\ Untouched(d)
    BY <2>2, <2>4 DEF StreamOK, Counted, Untouched
  <2>6. Asked(d) /\ CutOK(d) /\ AsksNoMore(d)
    BY <2>2 DEF StreamOK, Asked, CutOK, AsksNoMore
  <2>7. ReceiptOK(d)
    BY <1>3, <2>2, <2>3 DEF StreamOK, ReceiptOK
  <2>8. StreamOK(d)
    BY <2>2, <2>5, <2>6, <2>7 DEF StreamOK
  <2> QED
    BY <2>1, <2>2, <2>8 DEF Lost
<1> QED
  BY <1>2, <1>3

\* What the cancellation of the lowering leaves of a stream.
LEMMA CutDoes ==
  ASSUME NEW x \in StreamShape
  PROVE  LET y == CancelLowering(x) IN
         /\ y \in StreamShape
         /\ y.phase = x.phase /\ y.aborted = x.aborted /\ y.held = x.held
         /\ y.cancelled = x.cancelled /\ y.cancelling = x.cancelling
         /\ y.receiving = x.receiving /\ y.sending = x.sending /\ y.actions = x.actions
         /\ y.physical = x.physical /\ y.uncertain = x.uncertain /\ y.released = x.released
         /\ y.finished = x.finished /\ y.closed = x.closed
         /\ y.turns = x.turns /\ y.started = x.started /\ y.ended = x.ended
         /\ \/ x.cleanup # "no" /\ y = x
            \/ /\ x.cleanup = "no" /\ x.finished /\ y.cut /\ y.cleanup = "done"
               /\ y.calls = x.calls
            \/ /\ x.cleanup = "no" /\ ~ x.finished /\ y.cut /\ y.cleanup = "running"
               /\ y.calls = Append(x.calls, "return")
<1> DEFINE d == [x EXCEPT !.cut = TRUE, !.cleanup = "done"]
           e == [x EXCEPT !.cut = TRUE, !.cleanup = "running", !.calls = Append(@, "return")]
<1>1. CancelLowering(x) = IF x.cleanup # "no" THEN x ELSE IF x.finished THEN d ELSE e
  BY DEF CancelLowering
<1>2. Append(x.calls, "return") \in Seq(Calls)
  BY DEF StreamShape, Calls
<1>3. d \in StreamShape
  BY DEF StreamShape, Cleanups
<1>4. e \in StreamShape
  BY <1>2 DEF StreamShape, Cleanups
<1>5. CASE x.cleanup # "no"
  BY <1>1, <1>5
<1>6. CASE x.cleanup = "no" /\ x.finished
  <2>1. CancelLowering(x) = d
    BY <1>1, <1>6
  <2>2. /\ d.phase = x.phase /\ d.aborted = x.aborted /\ d.held = x.held
        /\ d.cancelled = x.cancelled /\ d.cancelling = x.cancelling
        /\ d.receiving = x.receiving /\ d.sending = x.sending /\ d.actions = x.actions
        /\ d.physical = x.physical /\ d.uncertain = x.uncertain /\ d.released = x.released
        /\ d.finished = x.finished /\ d.closed = x.closed /\ d.turns = x.turns
        /\ d.started = x.started /\ d.ended = x.ended /\ d.cut = TRUE
        /\ d.cleanup = "done" /\ d.calls = x.calls
    BY DEF StreamShape
  <2> HIDE DEF d
  <2> QED
    BY <1>3, <1>6, <2>1, <2>2
<1>7. CASE x.cleanup = "no" /\ ~ x.finished
  <2>1. CancelLowering(x) = e
    BY <1>1, <1>7
  <2> QED
    BY <1>4, <1>7, <2>1 DEF StreamShape
<1> QED
  BY <1>5, <1>6, <1>7

\* The cancellation of a session keeps all that a stream relies on.
LEMMA CancelDoes ==
  ASSUME NEW x, StreamOK(x), x.started
  PROVE  LET y == CancelSession(x) IN
         /\ StreamOK(y) /\ y.cancelled
         /\ y.phase = x.phase /\ y.started = x.started /\ y.ended = x.ended
         /\ y.uncertain = x.uncertain /\ y.released = x.released /\ y.held = x.held
         /\ y.receiving = x.receiving /\ y.sending = x.sending
<1> DEFINE c == CancelLowering(x)
           y == [c EXCEPT !.cancelled = TRUE, !.aborted = TRUE, !.cancelling = TRUE,
                          !.actions = @ + 1]
<1>1. CASE x.cancelled
  BY <1>1 DEF CancelSession
<1>2. CASE ~ x.cancelled
  <2>1. x \in StreamShape /\ x.cancelling = FALSE
    BY <1>2 DEF StreamOK, CutOK, StreamShape
  <2>2. CancelSession(x) = y
    BY <1>2 DEF CancelSession
  <2>3. /\ c \in StreamShape
        /\ c.phase = x.phase /\ c.aborted = x.aborted /\ c.held = x.held
        /\ c.cancelled = x.cancelled /\ c.cancelling = x.cancelling
        /\ c.receiving = x.receiving /\ c.sending = x.sending /\ c.actions = x.actions
        /\ c.physical = x.physical /\ c.uncertain = x.uncertain /\ c.released = x.released
        /\ c.finished = x.finished /\ c.closed = x.closed
        /\ c.turns = x.turns /\ c.started = x.started /\ c.ended = x.ended
        /\ \/ x.cleanup # "no" /\ c = x
           \/ /\ x.cleanup = "no" /\ x.finished /\ c.cut /\ c.cleanup = "done"
              /\ c.calls = x.calls
           \/ /\ x.cleanup = "no" /\ ~ x.finished /\ c.cut /\ c.cleanup = "running"
              /\ c.calls = Append(x.calls, "return")
    BY <2>1, CutDoes
  <2> DEFINE n == c.actions + 1
  <2> HIDE DEF c
  <2>0. n \in Nat
    BY <2>3 DEF StreamShape
  <2> HIDE DEF n
  <2>4. /\ y \in StreamShape /\ y.phase = c.phase /\ y.aborted = TRUE /\ y.held = c.held
        /\ y.cancelled = TRUE /\ y.cancelling = TRUE
        /\ y.receiving = c.receiving /\ y.sending = c.sending /\ y.actions = n
        /\ y.physical = c.physical /\ y.uncertain = c.uncertain /\ y.released = c.released
        /\ y.cut = c.cut /\ y.finished = c.finished /\ y.cleanup = c.cleanup
        /\ y.closed = c.closed /\ y.turns = c.turns /\ y.started = c.started
        /\ y.ended = c.ended /\ y.calls = c.calls
    <3>1. y = [c EXCEPT !.cancelled = TRUE, !.aborted = TRUE, !.cancelling = TRUE, !.actions = n]
      BY DEF n
    <3> HIDE DEF y
    <3> QED
      BY <2>0, <2>3, <3>1 DEF StreamShape
  <2> HIDE DEF y
  <2>5. Counted(y)
    BY <2>1, <2>3, <2>4 DEF StreamOK, Counted, n
  <2>6. Untouched(y)
    BY <2>3, <2>4 DEF StreamOK, Untouched
  <2>7. Asked(y)
    <3>1. CASE c.calls = x.calls /\ (c.cleanup = "running" <=> x.cleanup = "running")
      BY <2>3, <2>4, <3>1 DEF StreamOK, Asked
    <3>2. CASE x.cleanup = "no" /\ c.cleanup = "running" /\ c.calls = Append(x.calls, "return")
      <4>1. /\ x.receiving = "next" => c.calls = Append(<<"next">>, "return")
            /\ x.receiving # "next" => c.calls = Append(<<>>, "return")
        BY <3>2 DEF StreamOK, Asked
      <4>2. Append(<<"next">>, "return") = <<"next", "return">>
        BY AppendOne DEF Calls
      <4>3. Append(<<>>, "return") = <<"return">>
        OBVIOUS
      <4> QED
        BY <2>3, <2>4, <3>2, <4>1, <4>2, <4>3 DEF Asked
    <3> QED
      BY <2>3, <3>1, <3>2
  <2>8. CutOK(y) /\ AsksNoMore(y)
    BY <2>3, <2>4 DEF StreamOK, CutOK, AsksNoMore
  <2>9. ReceiptOK(y)
    BY <2>3, <2>4 DEF StreamOK, ReceiptOK
  <2>10. StreamOK(y)
    BY <2>3, <2>4, <2>5, <2>6, <2>7, <2>8, <2>9 DEF StreamOK
  <2> QED
    BY <2>2, <2>3, <2>4, <2>10
<1> QED
  BY <1>1, <1>2

\* The phase of a stream that was handed out is its own.
LEMMA PhaseOK ==
  ASSUME NEW x, StreamOK(x), x.started, NEW p \in {"cancelled", "open", "over"}
  PROVE  LET y == [x EXCEPT !.phase = p]
         IN  StreamOK(y) /\ y.phase = p /\ y.held = x.held /\ y.started = x.started
             /\ y.ended = x.ended /\ y.released = x.released /\ y.uncertain = x.uncertain
<1> DEFINE y == [x EXCEPT !.phase = p]
<1>1. x \in StreamShape
  BY DEF StreamOK
<1>2. /\ y \in StreamShape /\ y.phase = p /\ y.held = x.held /\ y.aborted = x.aborted
      /\ y.cancelled = x.cancelled /\ y.cancelling = x.cancelling
      /\ y.receiving = x.receiving /\ y.sending = x.sending /\ y.sendClosed = x.sendClosed
      /\ y.actions = x.actions /\ y.physical = x.physical /\ y.released = x.released
      /\ y.uncertain = x.uncertain /\ y.cut = x.cut /\ y.finished = x.finished
      /\ y.cleanup = x.cleanup /\ y.closed = x.closed /\ y.turns = x.turns
      /\ y.started = x.started /\ y.ended = x.ended /\ y.calls = x.calls
  BY <1>1 DEF StreamShape, Phases
<1> HIDE DEF y
<1>3. Counted(y)
  BY <1>2 DEF StreamOK, Counted
<1>4. Untouched(y)
  BY <1>2 DEF StreamOK, Untouched
<1>5. Asked(y)
  BY <1>2 DEF StreamOK, Asked
<1>6. CutOK(y)
  BY <1>2 DEF StreamOK, CutOK
<1>7. AsksNoMore(y)
  BY <1>2 DEF StreamOK, AsksNoMore
<1>8. ReceiptOK(y)
  BY <1>2 DEF StreamOK, ReceiptOK
<1>9. StreamOK(y)
  BY <1>2, <1>3, <1>4, <1>5, <1>6, <1>7, <1>8 DEF StreamOK
<1> QED
  BY <1>2, <1>9 DEF y

\* An open that brings no stream.
LEMMA RefusedOK ==
  ASSUME NEW x, StreamOK(x), ~ x.started
  PROVE  LET y == [x EXCEPT !.phase = "over"]
         IN  StreamOK(y) /\ y.phase = "over" /\ y.held = x.held /\ y.started = x.started
             /\ y.uncertain = x.uncertain
<1> DEFINE y == [x EXCEPT !.phase = "over"]
<1>1. x \in StreamShape
  BY DEF StreamOK
<1>2. /\ y \in StreamShape /\ y.phase = "over" /\ y.held = x.held /\ y.aborted = x.aborted
      /\ y.cancelled = x.cancelled /\ y.cancelling = x.cancelling
      /\ y.receiving = x.receiving /\ y.sending = x.sending /\ y.sendClosed = x.sendClosed
      /\ y.actions = x.actions /\ y.physical = x.physical /\ y.released = x.released
      /\ y.uncertain = x.uncertain /\ y.cut = x.cut /\ y.finished = x.finished
      /\ y.cleanup = x.cleanup /\ y.closed = x.closed /\ y.turns = x.turns
      /\ y.started = x.started /\ y.ended = x.ended /\ y.calls = x.calls
  BY <1>1 DEF StreamShape, Phases
<1> HIDE DEF y
<1>3. Counted(y)
  BY <1>2 DEF StreamOK, Counted
<1>4. Untouched(y)
  BY <1>2 DEF StreamOK, Untouched
<1>5. Asked(y)
  BY <1>2 DEF StreamOK, Asked
<1>6. CutOK(y)
  BY <1>2 DEF StreamOK, CutOK
<1>7. AsksNoMore(y)
  BY <1>2 DEF StreamOK, AsksNoMore
<1>8. ReceiptOK(y)
  BY <1>2 DEF StreamOK, ReceiptOK
<1>9. StreamOK(y)
  BY <1>2, <1>3, <1>4, <1>5, <1>6, <1>7, <1>8 DEF StreamOK
<1> QED
  BY <1>2, <1>9 DEF y

\* An open that is under way.
LEMMA OpeningOK ==
  ASSUME NEW x, StreamOK(x), ~ x.started
  PROVE  LET y == [x EXCEPT !.phase = "opening"]
         IN  StreamOK(y) /\ y.phase = "opening" /\ y.held = x.held /\ y.started = x.started
             /\ y.uncertain = x.uncertain
<1> DEFINE y == [x EXCEPT !.phase = "opening"]
<1>1. x \in StreamShape
  BY DEF StreamOK
<1>2. /\ y \in StreamShape /\ y.phase = "opening" /\ y.held = x.held
      /\ y.aborted = x.aborted /\ y.cancelled = x.cancelled /\ y.cancelling = x.cancelling
      /\ y.receiving = x.receiving /\ y.sending = x.sending /\ y.sendClosed = x.sendClosed
      /\ y.actions = x.actions /\ y.physical = x.physical /\ y.released = x.released
      /\ y.uncertain = x.uncertain /\ y.cut = x.cut /\ y.finished = x.finished
      /\ y.cleanup = x.cleanup /\ y.closed = x.closed /\ y.turns = x.turns
      /\ y.started = x.started /\ y.ended = x.ended /\ y.calls = x.calls
  BY <1>1 DEF StreamShape, Phases
<1> HIDE DEF y
<1>3. Counted(y)
  BY <1>2 DEF StreamOK, Counted
<1>4. Untouched(y)
  BY <1>2 DEF StreamOK, Untouched
<1>5. Asked(y)
  BY <1>2 DEF StreamOK, Asked
<1>6. CutOK(y)
  BY <1>2 DEF StreamOK, CutOK
<1>7. AsksNoMore(y)
  BY <1>2 DEF StreamOK, AsksNoMore
<1>8. ReceiptOK(y)
  BY <1>2 DEF StreamOK, ReceiptOK
<1>9. StreamOK(y)
  BY <1>2, <1>3, <1>4, <1>5, <1>6, <1>7, <1>8 DEF StreamOK
<1> QED
  BY <1>2, <1>9 DEF y

\* An open that brings a stream.
LEMMA OpenedOK ==
  ASSUME NEW x, StreamOK(x), ~ x.started
  PROVE  LET y == [x EXCEPT !.phase = "open", !.held = TRUE, !.started = TRUE]
         IN  StreamOK(y) /\ y.started /\ y.held /\ y.uncertain = x.uncertain
<1> DEFINE y == [x EXCEPT !.phase = "open", !.held = TRUE, !.started = TRUE]
<1>1. x \in StreamShape
  BY DEF StreamOK
<1>2. /\ y \in StreamShape /\ y.phase = "open" /\ y.held = TRUE /\ y.aborted = x.aborted
      /\ y.cancelled = x.cancelled /\ y.cancelling = x.cancelling
      /\ y.receiving = x.receiving /\ y.sending = x.sending /\ y.sendClosed = x.sendClosed
      /\ y.actions = x.actions /\ y.physical = x.physical /\ y.released = x.released
      /\ y.uncertain = x.uncertain /\ y.cut = x.cut /\ y.finished = x.finished
      /\ y.cleanup = x.cleanup /\ y.closed = x.closed /\ y.turns = x.turns
      /\ y.started = TRUE /\ y.ended = x.ended /\ y.calls = x.calls
  BY <1>1 DEF StreamShape, Phases
<1> HIDE DEF y
<1>3. Counted(y)
  BY <1>2 DEF StreamOK, Counted
<1>4. Untouched(y)
  BY <1>2 DEF StreamOK, Untouched
<1>5. Asked(y)
  BY <1>2 DEF StreamOK, Asked
<1>6. CutOK(y)
  BY <1>2 DEF StreamOK, CutOK
<1>7. AsksNoMore(y)
  BY <1>2 DEF StreamOK, AsksNoMore
<1>8. ReceiptOK(y)
  BY <1>2 DEF StreamOK, ReceiptOK, Untouched
<1>9. StreamOK(y)
  BY <1>2, <1>3, <1>4, <1>5, <1>6, <1>7, <1>8 DEF StreamOK
<1> QED
  BY <1>2, <1>9 DEF y

\* An open that brings a stream without a receipt.
LEMMA BareOK ==
  ASSUME NEW x, StreamOK(x), ~ x.started
  PROVE  LET y == [x EXCEPT !.phase = "over", !.started = TRUE]
         IN  StreamOK(y) /\ y.phase = "over" /\ y.held = x.held
<1> DEFINE y == [x EXCEPT !.phase = "over", !.started = TRUE]
<1>1. x \in StreamShape
  BY DEF StreamOK
<1>2. /\ y \in StreamShape /\ y.phase = "over" /\ y.held = x.held /\ y.aborted = x.aborted
      /\ y.cancelled = x.cancelled /\ y.cancelling = x.cancelling
      /\ y.receiving = x.receiving /\ y.sending = x.sending /\ y.sendClosed = x.sendClosed
      /\ y.actions = x.actions /\ y.physical = x.physical /\ y.released = x.released
      /\ y.uncertain = x.uncertain /\ y.cut = x.cut /\ y.finished = x.finished
      /\ y.cleanup = x.cleanup /\ y.closed = x.closed /\ y.turns = x.turns
      /\ y.started = TRUE /\ y.ended = x.ended /\ y.calls = x.calls
  BY <1>1 DEF StreamShape, Phases
<1> HIDE DEF y
<1>3. Counted(y)
  BY <1>2 DEF StreamOK, Counted
<1>4. Untouched(y)
  BY <1>2 DEF StreamOK, Untouched
<1>5. Asked(y)
  BY <1>2 DEF StreamOK, Asked
<1>6. CutOK(y)
  BY <1>2 DEF StreamOK, CutOK
<1>7. AsksNoMore(y)
  BY <1>2 DEF StreamOK, AsksNoMore
<1>8. ReceiptOK(y)
  BY <1>2 DEF StreamOK, ReceiptOK
<1>9. StreamOK(y)
  BY <1>2, <1>3, <1>4, <1>5, <1>6, <1>7, <1>8 DEF StreamOK
<1> QED
  BY <1>2, <1>9 DEF y

\* The signal of the call.
LEMMA AbortedOK ==
  ASSUME NEW x, StreamOK(x)
  PROVE  LET y == [x EXCEPT !.aborted = TRUE]
         IN  StreamOK(y) /\ y.phase = x.phase /\ y.held = x.held /\ y.started = x.started
             /\ y.ended = x.ended /\ y.released = x.released /\ y.uncertain = x.uncertain
<1> DEFINE y == [x EXCEPT !.aborted = TRUE]
<1>1. x \in StreamShape
  BY DEF StreamOK
<1>2. /\ y \in StreamShape /\ y.phase = x.phase /\ y.held = x.held /\ y.aborted = TRUE
      /\ y.cancelled = x.cancelled /\ y.cancelling = x.cancelling
      /\ y.receiving = x.receiving /\ y.sending = x.sending /\ y.sendClosed = x.sendClosed
      /\ y.actions = x.actions /\ y.physical = x.physical /\ y.released = x.released
      /\ y.uncertain = x.uncertain /\ y.cut = x.cut /\ y.finished = x.finished
      /\ y.cleanup = x.cleanup /\ y.closed = x.closed /\ y.turns = x.turns
      /\ y.started = x.started /\ y.ended = x.ended /\ y.calls = x.calls
  BY <1>1 DEF StreamShape
<1> HIDE DEF y
<1>3. Counted(y)
  BY <1>2 DEF StreamOK, Counted
<1>4. Untouched(y)
  BY <1>2 DEF StreamOK, Untouched
<1>5. Asked(y)
  BY <1>2 DEF StreamOK, Asked
<1>6. CutOK(y)
  BY <1>2 DEF StreamOK, CutOK
<1>7. AsksNoMore(y)
  BY <1>2 DEF StreamOK, AsksNoMore
<1>8. ReceiptOK(y)
  BY <1>2 DEF StreamOK, ReceiptOK
<1>9. StreamOK(y)
  BY <1>2, <1>3, <1>4, <1>5, <1>6, <1>7, <1>8 DEF StreamOK
<1> QED
  BY <1>2, <1>9 DEF y

\* A receive asks the iterator once more: it was not cut.
LEMMA ReceiveOK ==
  ASSUME NEW x, StreamOK(x), x.phase = "open", ~ Ended(x), x.receiving = "no"
  PROVE  Moves(x, [x EXCEPT !.receiving = "next", !.actions = @ + 1, !.calls = Append(@, "next")])
<1> DEFINE n == x.actions + 1
           a == Append(x.calls, "next")
           y == [x EXCEPT !.receiving = "next", !.actions = n, !.calls = a]
<1>1. x \in StreamShape
  BY DEF StreamOK
<1>2. x.started /\ x.cleanup = "no" /\ ~ x.released /\ x.calls = <<>>
  BY <1>1 DEF StreamOK, Untouched, AsksNoMore, CutOK, Asked, Ended, StreamShape
<1>3. n \in Nat /\ a = <<"next">> /\ a \in Seq(Calls)
  BY <1>1, <1>2 DEF StreamShape, Calls
<1> HIDE DEF n, a
<1>4. /\ y \in StreamShape /\ y.phase = x.phase /\ y.held = x.held /\ y.aborted = x.aborted
      /\ y.cancelled = x.cancelled /\ y.cancelling = x.cancelling /\ y.receiving = "next"
      /\ y.sending = x.sending /\ y.sendClosed = x.sendClosed /\ y.actions = n
      /\ y.physical = x.physical /\ y.released = x.released /\ y.uncertain = x.uncertain
      /\ y.cut = x.cut /\ y.finished = x.finished /\ y.cleanup = x.cleanup
      /\ y.closed = x.closed /\ y.turns = x.turns /\ y.started = x.started
      /\ y.ended = x.ended /\ y.calls = a
  BY <1>1, <1>3 DEF StreamShape, Receiving
<1> HIDE DEF y
<1>5. Counted(y)
  BY <1>1, <1>3, <1>4 DEF StreamOK, Counted, n
<1>6. Untouched(y)
  BY <1>2, <1>4 DEF StreamOK, Untouched
<1>7. Asked(y)
  BY <1>2, <1>3, <1>4 DEF StreamOK, Asked
<1>8. CutOK(y)
  BY <1>2, <1>4 DEF StreamOK, CutOK
<1>9. AsksNoMore(y)
  BY <1>2, <1>4 DEF StreamOK, AsksNoMore
<1>10. ReceiptOK(y)
  BY <1>2, <1>4 DEF StreamOK, ReceiptOK
<1>11. StreamOK(y)
  BY <1>4, <1>5, <1>6, <1>7, <1>8, <1>9, <1>10 DEF StreamOK
<1> QED
  BY <1>4, <1>11, <1>2 DEF y, n, a, Moves, Claims, Loose, Lost

\* A send is counted.
LEMMA SendOK ==
  ASSUME NEW x, StreamOK(x), x.phase = "open", x.sending = "no", NEW a \in {"send", "closeSend"}
  PROVE  Moves(x, [x EXCEPT !.sending = a, !.actions = @ + 1])
<1> DEFINE n == x.actions + 1
           y == [x EXCEPT !.sending = a, !.actions = n]
<1>1. x \in StreamShape
  BY DEF StreamOK
<1>2. n \in Nat /\ x.started
  BY <1>1 DEF StreamShape, StreamOK, Untouched
<1> HIDE DEF n
<1>3. /\ y \in StreamShape /\ y.phase = x.phase /\ y.held = x.held /\ y.aborted = x.aborted
      /\ y.cancelled = x.cancelled /\ y.cancelling = x.cancelling
      /\ y.receiving = x.receiving /\ y.sending = a /\ y.sendClosed = x.sendClosed
      /\ y.actions = n /\ y.physical = x.physical /\ y.released = x.released
      /\ y.uncertain = x.uncertain /\ y.cut = x.cut /\ y.finished = x.finished
      /\ y.cleanup = x.cleanup /\ y.closed = x.closed /\ y.turns = x.turns
      /\ y.started = x.started /\ y.ended = x.ended /\ y.calls = x.calls
  BY <1>1, <1>2 DEF StreamShape, Sendings
<1> HIDE DEF y
<1>4. Counted(y)
  BY <1>1, <1>2, <1>3 DEF StreamOK, Counted, n
<1>5. Untouched(y)
  BY <1>2, <1>3 DEF StreamOK, Untouched
<1>6. Asked(y)
  BY <1>2, <1>3 DEF StreamOK, Asked
<1>7. CutOK(y)
  BY <1>2, <1>3 DEF StreamOK, CutOK
<1>8. AsksNoMore(y)
  BY <1>2, <1>3 DEF StreamOK, AsksNoMore
<1>9. ReceiptOK(y)
  BY <1>2, <1>3 DEF StreamOK, ReceiptOK
<1>10. StreamOK(y)
  BY <1>3, <1>4, <1>5, <1>6, <1>7, <1>8, <1>9 DEF StreamOK
<1> QED
  BY <1>3, <1>10, <1>2 DEF y, n, Moves, Claims, Loose, Lost

\* A send that returns is counted off.
LEMMA SentOK ==
  ASSUME NEW x, StreamOK(x), x.sending # "no"
  PROVE  Moves(x, release([x EXCEPT !.sending = "no", !.actions = @ - 1,
                                   !.sendClosed = x.sending = "closeSend"]))
<1> DEFINE n == x.actions - 1
           b == (x.sending = "closeSend")
           y == [x EXCEPT !.sending = "no", !.actions = n, !.sendClosed = b]
<1>1. x \in StreamShape
  BY DEF StreamOK
<1>2. n \in Nat /\ b \in BOOLEAN /\ x.started
  BY <1>1 DEF StreamShape, StreamOK, Untouched, Counted
<1> HIDE DEF n, b
<1>3. /\ y \in StreamShape /\ y.phase = x.phase /\ y.held = x.held /\ y.aborted = x.aborted
      /\ y.cancelled = x.cancelled /\ y.cancelling = x.cancelling
      /\ y.receiving = x.receiving /\ y.sending = "no" /\ y.sendClosed = b /\ y.actions = n
      /\ y.physical = x.physical /\ y.released = x.released /\ y.uncertain = x.uncertain
      /\ y.cut = x.cut /\ y.finished = x.finished /\ y.cleanup = x.cleanup
      /\ y.closed = x.closed /\ y.turns = x.turns /\ y.started = x.started
      /\ y.ended = x.ended /\ y.calls = x.calls
  BY <1>1, <1>2 DEF StreamShape, Sendings
<1> HIDE DEF y
<1>4. Counted(y)
  BY <1>1, <1>2, <1>3 DEF StreamOK, Counted, n
<1>5. Untouched(y)
  BY <1>2, <1>3 DEF StreamOK, Untouched
<1>6. Asked(y)
  BY <1>2, <1>3 DEF StreamOK, Asked
<1>7. CutOK(y)
  BY <1>2, <1>3 DEF StreamOK, CutOK
<1>8. AsksNoMore(y)
  BY <1>2, <1>3 DEF StreamOK, AsksNoMore
<1>9. ReceiptOK(y)
  BY <1>2, <1>3 DEF StreamOK, ReceiptOK
<1>10. StreamOK(y)
  BY <1>3, <1>4, <1>5, <1>6, <1>7, <1>8, <1>9 DEF StreamOK
<1>11. Moves(x, release(y))
  <2> DEFINE r == release(y)
  <2>1. /\ StreamOK(r) /\ r.phase = y.phase /\ r.started = y.started /\ r.ended = y.ended
        /\ r.uncertain = y.uncertain /\ (r.held => y.held) /\ (Lost(r) => Lost(y))
    BY <1>10, ReleaseDoes
  <2> HIDE DEF r
  <2>2. Claims(r) => Claims(x)
    BY <1>3, <2>1 DEF Claims
  <2>3. (Loose(r) => Loose(x)) /\ (Lost(r) => Lost(x))
    BY <1>3, <2>1 DEF Loose, Lost
  <2>4. Moves(x, r)
    BY <1>3, <2>1, <2>2, <2>3 DEF Moves
  <2> QED
    BY <2>4 DEF r
<1> QED
  BY <1>3, <1>10, <1>11 DEF y, n, b

\* A cancellation that ends well is counted off.
LEMMA CancelledOK ==
  ASSUME NEW x, StreamOK(x), x.cancelling
  PROVE  LET y == [x EXCEPT !.cancelling = FALSE, !.actions = @ - 1]
         IN  Moves(x, release(y)) /\ StreamOK(y) /\ y.phase = x.phase /\ y.held = x.held
             /\ y.started = x.started /\ y.ended = x.ended /\ y.released = x.released
             /\ y.cleanup = x.cleanup
<1> DEFINE n == x.actions - 1
           y == [x EXCEPT !.cancelling = FALSE, !.actions = n]
<1>1. x \in StreamShape
  BY DEF StreamOK
<1>2. n \in Nat /\ x.started
  BY <1>1 DEF StreamShape, StreamOK, Untouched, Counted
<1> HIDE DEF n
<1>3. /\ y \in StreamShape /\ y.phase = x.phase /\ y.held = x.held /\ y.aborted = x.aborted
      /\ y.cancelled = x.cancelled /\ y.cancelling = FALSE /\ y.receiving = x.receiving
      /\ y.sending = x.sending /\ y.sendClosed = x.sendClosed /\ y.actions = n
      /\ y.physical = x.physical /\ y.released = x.released /\ y.uncertain = x.uncertain
      /\ y.cut = x.cut /\ y.finished = x.finished /\ y.cleanup = x.cleanup
      /\ y.closed = x.closed /\ y.turns = x.turns /\ y.started = x.started
      /\ y.ended = x.ended /\ y.calls = x.calls
  BY <1>1, <1>2 DEF StreamShape
<1> HIDE DEF y
<1>4. Counted(y)
  BY <1>1, <1>2, <1>3 DEF StreamOK, Counted, n
<1>5. Untouched(y)
  BY <1>2, <1>3 DEF StreamOK, Untouched
<1>6. Asked(y)
  BY <1>2, <1>3 DEF StreamOK, Asked
<1>7. CutOK(y)
  BY <1>2, <1>3 DEF StreamOK, CutOK
<1>8. AsksNoMore(y)
  BY <1>2, <1>3 DEF StreamOK, AsksNoMore
<1>9. ReceiptOK(y)
  BY <1>2, <1>3 DEF StreamOK, ReceiptOK
<1>10. StreamOK(y)
  BY <1>3, <1>4, <1>5, <1>6, <1>7, <1>8, <1>9 DEF StreamOK
<1>11. Moves(x, release(y))
  <2> DEFINE r == release(y)
  <2>1. /\ StreamOK(r) /\ r.phase = y.phase /\ r.started = y.started /\ r.ended = y.ended
        /\ r.uncertain = y.uncertain /\ (r.held => y.held) /\ (Lost(r) => Lost(y))
    BY <1>10, ReleaseDoes
  <2> HIDE DEF r
  <2>2. Claims(r) => Claims(x)
    BY <1>3, <2>1 DEF Claims
  <2>3. (Loose(r) => Loose(x)) /\ (Lost(r) => Lost(x))
    BY <1>3, <2>1 DEF Loose, Lost
  <2>4. Moves(x, r)
    BY <1>3, <2>1, <2>2, <2>3 DEF Moves
  <2> QED
    BY <2>4 DEF r
<1> QED
  BY <1>3, <1>10, <1>11 DEF y, n

\* A stream whose cleanup nobody confirms.
LEMMA UncertainOK ==
  ASSUME NEW x, StreamOK(x), x.started, ~ x.released
  PROVE  LET y == [x EXCEPT !.uncertain = TRUE]
         IN  StreamOK(y) /\ y.phase = x.phase /\ y.held = x.held /\ y.started = x.started
             /\ y.ended = x.ended /\ y.released = x.released
<1> DEFINE y == [x EXCEPT !.uncertain = TRUE]
<1>1. x \in StreamShape
  BY DEF StreamOK
<1>2. /\ y \in StreamShape /\ y.phase = x.phase /\ y.held = x.held /\ y.aborted = x.aborted
      /\ y.cancelled = x.cancelled /\ y.cancelling = x.cancelling
      /\ y.receiving = x.receiving /\ y.sending = x.sending /\ y.sendClosed = x.sendClosed
      /\ y.actions = x.actions /\ y.physical = x.physical /\ y.released = x.released
      /\ y.uncertain = TRUE /\ y.cut = x.cut /\ y.finished = x.finished
      /\ y.cleanup = x.cleanup /\ y.closed = x.closed /\ y.turns = x.turns
      /\ y.started = x.started /\ y.ended = x.ended /\ y.calls = x.calls
  BY <1>1 DEF StreamShape
<1> HIDE DEF y
<1>3. Counted(y)
  BY <1>2 DEF StreamOK, Counted
<1>4. Untouched(y)
  BY <1>2 DEF StreamOK, Untouched
<1>5. Asked(y)
  BY <1>2 DEF StreamOK, Asked
<1>6. CutOK(y)
  BY <1>2 DEF StreamOK, CutOK
<1>7. AsksNoMore(y)
  BY <1>2 DEF StreamOK, AsksNoMore
<1>8. ReceiptOK(y)
  BY <1>2 DEF StreamOK, ReceiptOK
<1>9. StreamOK(y)
  BY <1>2, <1>3, <1>4, <1>5, <1>6, <1>7, <1>8 DEF StreamOK
<1> QED
  BY <1>2, <1>9 DEF y

\* The receipt reaches the session.
LEMMA PhysicalOK ==
  ASSUME NEW x, StreamOK(x), x.held, x.closed = "resolved"
  PROVE  Moves(x, release([x EXCEPT !.physical = TRUE]))
<1> DEFINE y == [x EXCEPT !.physical = TRUE]
<1>1. x \in StreamShape
  BY DEF StreamOK
<1>2. /\ y \in StreamShape /\ y.phase = x.phase /\ y.held = x.held /\ y.aborted = x.aborted
      /\ y.cancelled = x.cancelled /\ y.cancelling = x.cancelling
      /\ y.receiving = x.receiving /\ y.sending = x.sending /\ y.sendClosed = x.sendClosed
      /\ y.actions = x.actions /\ y.physical = TRUE /\ y.released = x.released
      /\ y.uncertain = x.uncertain /\ y.cut = x.cut /\ y.finished = x.finished
      /\ y.cleanup = x.cleanup /\ y.closed = x.closed /\ y.turns = x.turns
      /\ y.started = x.started /\ y.ended = x.ended /\ y.calls = x.calls
  BY <1>1 DEF StreamShape
<1> HIDE DEF y
<1>3. Counted(y)
  BY <1>2 DEF StreamOK, Counted
<1>4. Untouched(y)
  BY <1>2 DEF StreamOK, Untouched
<1>5. Asked(y)
  BY <1>2 DEF StreamOK, Asked
<1>6. CutOK(y)
  BY <1>2 DEF StreamOK, CutOK
<1>7. AsksNoMore(y)
  BY <1>2 DEF StreamOK, AsksNoMore
<1>8. ReceiptOK(y)
  BY <1>2 DEF StreamOK, ReceiptOK
<1>9. StreamOK(y)
  BY <1>2, <1>3, <1>4, <1>5, <1>6, <1>7, <1>8 DEF StreamOK
<1>10. Moves(x, release(y))
  <2> DEFINE r == release(y)
  <2>1. /\ StreamOK(r) /\ r.phase = y.phase /\ r.started = y.started /\ r.ended = y.ended
        /\ r.uncertain = y.uncertain /\ (r.held => y.held) /\ (Lost(r) => Lost(y))
    BY <1>9, ReleaseDoes
  <2> HIDE DEF r
  <2>2. Claims(r) => Claims(x)
    BY <1>2, <2>1 DEF Claims
  <2>3. (Loose(r) => Loose(x)) /\ (Lost(r) => Lost(x))
    BY <1>2, <2>1 DEF Loose, Lost
  <2>4. Moves(x, r)
    BY <1>2, <2>1, <2>2, <2>3 DEF Moves
  <2> QED
    BY <2>4 DEF r
<1> QED
  BY <1>2, <1>9, <1>10 DEF y

\* A receive learns that its stream was cut.
LEMMA SeenClosedOK ==
  ASSUME NEW x, StreamOK(x), x.receiving = "closed"
  PROVE  Moves(x, [x EXCEPT !.receiving = "failed"])
<1> DEFINE y == [x EXCEPT !.receiving = "failed"]
<1>1. x \in StreamShape
  BY DEF StreamOK
<1>2. /\ y \in StreamShape /\ y.phase = x.phase /\ y.held = x.held /\ y.aborted = x.aborted
      /\ y.cancelled = x.cancelled /\ y.cancelling = x.cancelling /\ y.receiving = "failed"
      /\ y.sending = x.sending /\ y.sendClosed = x.sendClosed /\ y.actions = x.actions
      /\ y.physical = x.physical /\ y.released = x.released /\ y.uncertain = x.uncertain
      /\ y.cut = x.cut /\ y.finished = x.finished /\ y.cleanup = x.cleanup
      /\ y.closed = x.closed /\ y.turns = x.turns /\ y.started = x.started
      /\ y.ended = x.ended /\ y.calls = x.calls
  BY <1>1 DEF StreamShape, Receiving
<1> HIDE DEF y
<1>3. Counted(y)
  BY <1>2 DEF StreamOK, Counted
<1>4. Untouched(y)
  BY <1>2 DEF StreamOK, Untouched
<1>5. Asked(y)
  BY <1>2 DEF StreamOK, Asked
<1>6. CutOK(y)
  BY <1>2 DEF StreamOK, CutOK
<1>7. AsksNoMore(y)
  BY <1>2 DEF StreamOK, AsksNoMore
<1>8. ReceiptOK(y)
  BY <1>2 DEF StreamOK, ReceiptOK
<1>9. StreamOK(y)
  BY <1>2, <1>3, <1>4, <1>5, <1>6, <1>7, <1>8 DEF StreamOK
<1> QED
  BY <1>2, <1>9 DEF y, Moves, Claims, Loose, Lost

\* A receive that returns from a stream that was not cut, or is given up.
LEMMA ReturnedOK ==
  ASSUME NEW x, StreamOK(x), x.receiving \notin {"no", "next"}, x.cut => x.cancelled \/ x.aborted
  PROVE  Moves(x, release([x EXCEPT !.receiving = "no", !.actions = @ - 1]))
<1> DEFINE n == x.actions - 1
           y == [x EXCEPT !.receiving = "no", !.actions = n]
<1>1. x \in StreamShape
  BY DEF StreamOK
<1>2. n \in Nat /\ x.started
  BY <1>1 DEF StreamShape, StreamOK, Untouched, Counted
<1> HIDE DEF n
<1>3. /\ y \in StreamShape /\ y.phase = x.phase /\ y.held = x.held /\ y.aborted = x.aborted
      /\ y.cancelled = x.cancelled /\ y.cancelling = x.cancelling /\ y.receiving = "no"
      /\ y.sending = x.sending /\ y.sendClosed = x.sendClosed /\ y.actions = n
      /\ y.physical = x.physical /\ y.released = x.released /\ y.uncertain = x.uncertain
      /\ y.cut = x.cut /\ y.finished = x.finished /\ y.cleanup = x.cleanup
      /\ y.closed = x.closed /\ y.turns = x.turns /\ y.started = x.started
      /\ y.ended = x.ended /\ y.calls = x.calls
  BY <1>1, <1>2 DEF StreamShape, Receiving
<1> HIDE DEF y
<1>4. Counted(y)
  BY <1>1, <1>2, <1>3 DEF StreamOK, Counted, n
<1>5. Untouched(y)
  BY <1>2, <1>3 DEF StreamOK, Untouched
<1>6. Asked(y)
  BY <1>2, <1>3 DEF StreamOK, Asked
<1>7. CutOK(y)
  BY <1>2, <1>3 DEF StreamOK, CutOK
<1>8. AsksNoMore(y)
  BY <1>2, <1>3 DEF StreamOK, AsksNoMore
<1>9. ReceiptOK(y)
  BY <1>2, <1>3 DEF StreamOK, ReceiptOK
<1>10. StreamOK(y)
  BY <1>3, <1>4, <1>5, <1>6, <1>7, <1>8, <1>9 DEF StreamOK
<1>11. Moves(x, release(y))
  <2> DEFINE r == release(y)
  <2>1. /\ StreamOK(r) /\ r.phase = y.phase /\ r.started = y.started /\ r.ended = y.ended
        /\ r.uncertain = y.uncertain /\ (r.held => y.held) /\ (Lost(r) => Lost(y))
    BY <1>10, ReleaseDoes
  <2> HIDE DEF r
  <2>2. Claims(r) => Claims(x)
    BY <1>3, <2>1 DEF Claims
  <2>3. (Loose(r) => Loose(x)) /\ (Lost(r) => Lost(x))
    BY <1>3, <2>1 DEF Loose, Lost
  <2>4. Moves(x, r)
    BY <1>3, <2>1, <2>2, <2>3 DEF Moves
  <2> QED
    BY <2>4 DEF r
<1> QED
  BY <1>3, <1>10, <1>11 DEF y, n

\* The two ends of the queue of the iterator.
LEMMA QueueHolds ==
  ASSUME NEW x, StreamOK(x), x.calls # <<>>
  PROVE  /\ Head(x.calls) = "next" => /\ x.receiving = "next"
                                      /\ x.cleanup = "running" => Tail(x.calls) = <<"return">>
                                      /\ x.cleanup # "running" => Tail(x.calls) = <<>>
         /\ Head(x.calls) # "next" => /\ x.receiving # "next" /\ x.cleanup = "running"
                                      /\ Tail(x.calls) = <<>>
         /\ Tail(x.calls) \in Seq(Calls)
<1>1. /\ Tail(<<"next", "return">>) = <<"return">> /\ Head(<<"next", "return">>) = "next"
      /\ Tail(<<"next">>) = <<>> /\ Head(<<"next">>) = "next"
  OBVIOUS
<1>2. \A a \in {"return", "turn"} : Tail(<<a>>) = <<>> /\ Head(<<a>>) = a
  OBVIOUS
<1>3. \/ x.receiving = "next" /\ x.cleanup = "running" /\ x.calls = <<"next", "return">>
      \/ x.receiving = "next" /\ x.cleanup # "running" /\ x.calls = <<"next">>
      \/ x.receiving # "next" /\ x.cleanup = "running" /\ x.calls = <<"return">>
      \/ x.receiving # "next" /\ x.cleanup = "running" /\ x.calls = <<"turn">>
  BY DEF StreamOK, Asked
<1>4. <<"return">> \in Seq(Calls) /\ <<>> \in Seq(Calls)
  BY DEF Calls
<1> QED
  BY <1>1, <1>2, <1>3, <1>4

\* The iterator answers a receive.
LEMMA AnswerNextOK ==
  ASSUME NEW x, StreamOK(x), x.calls # <<>>, Head(x.calls) = "next",
         NEW outcome \in {"message", "big", "done", "throw"}
  PROVE  Moves(x, AnswerNext([x EXCEPT !.calls = Tail(@)], outcome))
<1> DEFINE q == Tail(x.calls)
           c == [x EXCEPT !.calls = Tail(@)]
<1>1. /\ x \in StreamShape /\ x.receiving = "next" /\ x.started /\ q \in Seq(Calls)
      /\ x.cleanup = "running" => q = <<"return">>
      /\ x.cleanup # "running" => q = <<>>
  BY QueueHolds DEF StreamOK, Untouched
<1>2. c = [x EXCEPT !.calls = q]
  OBVIOUS
<1> SUFFICES Moves(x, AnswerNext(c, outcome))
  OBVIOUS
<1> HIDE DEF q, c
<1>3. /\ c \in StreamShape /\ c.phase = x.phase /\ c.held = x.held /\ c.aborted = x.aborted
      /\ c.cancelled = x.cancelled /\ c.cancelling = x.cancelling
      /\ c.receiving = x.receiving /\ c.sending = x.sending /\ c.sendClosed = x.sendClosed
      /\ c.actions = x.actions /\ c.physical = x.physical /\ c.released = x.released
      /\ c.uncertain = x.uncertain /\ c.cut = x.cut /\ c.finished = x.finished
      /\ c.cleanup = x.cleanup /\ c.closed = x.closed /\ c.turns = x.turns
      /\ c.started = x.started /\ c.ended = x.ended /\ c.calls = q
  BY <1>1, <1>2 DEF StreamShape
<1>4. CASE x.cut
  <2> DEFINE r == IF outcome = "throw" THEN "failed" ELSE "closed"
             e == x.ended \/ outcome = "done"
             y == [c EXCEPT !.receiving = r, !.ended = e]
  <2>0. /\ r \in Receiving /\ r \in {"closed", "failed"} /\ e \in BOOLEAN /\ (x.ended => e)
    BY <1>1 DEF Receiving, StreamShape
  <2>00. AnswerNext(c, outcome) = y
    BY <1>3, <1>4 DEF AnswerNext
  <2> HIDE DEF r, e
  <2>1. /\ y \in StreamShape /\ y.phase = x.phase /\ y.held = x.held
        /\ y.aborted = x.aborted /\ y.cancelled = x.cancelled /\ y.cancelling = x.cancelling
        /\ y.receiving = r /\ y.sending = x.sending /\ y.sendClosed = x.sendClosed
        /\ y.actions = x.actions /\ y.physical = x.physical /\ y.released = x.released
        /\ y.uncertain = x.uncertain /\ y.cut = x.cut /\ y.finished = x.finished
        /\ y.cleanup = x.cleanup /\ y.closed = x.closed /\ y.turns = x.turns
        /\ y.started = x.started /\ y.ended = e /\ y.calls = q
    BY <1>1, <1>3, <2>0 DEF StreamShape
  <2> HIDE DEF y
  <2>2. Counted(y)
    BY <1>1, <1>4, <2>0, <2>1 DEF StreamOK, Counted
  <2>3. Untouched(y)
    BY <1>1, <1>4, <2>0, <2>1 DEF StreamOK, Untouched
  <2>4. Asked(y)
    BY <1>1, <1>4, <2>0, <2>1 DEF StreamOK, Asked
  <2>5. CutOK(y)
    BY <1>1, <1>4, <2>0, <2>1 DEF StreamOK, CutOK
  <2>6. AsksNoMore(y)
    BY <1>1, <1>4, <2>0, <2>1 DEF StreamOK, AsksNoMore
  <2>7. ReceiptOK(y)
    BY <1>1, <1>4, <2>0, <2>1 DEF StreamOK, ReceiptOK
  <2>8. StreamOK(y)
    BY <2>1, <2>2, <2>3, <2>4, <2>5, <2>6, <2>7 DEF StreamOK
  <2> QED
    BY <1>1, <2>0, <2>00, <2>1, <2>8 DEF Moves, Claims, Loose, Lost
<1>5. ~ x.cut => x.cleanup = "no" /\ q = <<>> /\ x.closed \in {"pending", "resolved", "rejected"}
  BY <1>1 DEF StreamOK, CutOK, StreamShape, Closings
<1>6. CASE ~ x.cut /\ outcome = "done"
  <2> DEFINE k == IF x.closed = "pending" THEN "resolved" ELSE x.closed
             y == [c EXCEPT !.finished = TRUE, !.ended = TRUE, !.closed = k,
                            !.receiving = "terminal"]
  <2>0. k \in Closings /\ (x.closed # "pending" => k = x.closed)
    BY <1>5, <1>6 DEF Closings
  <2>00. AnswerNext(c, outcome) = y
    <3>1. AnswerNext(c, outcome) = [Finish(c) EXCEPT !.receiving = "terminal"]
      BY <1>3, <1>6 DEF AnswerNext
    <3>2. Finish(c) = [c EXCEPT !.finished = TRUE, !.ended = TRUE, !.closed = k]
      BY <1>3 DEF Finish
    <3> HIDE DEF k
    <3> QED
      BY <1>3, <3>1, <3>2 DEF StreamShape
  <2> HIDE DEF k
  <2>1. /\ y \in StreamShape /\ y.phase = x.phase /\ y.held = x.held
        /\ y.aborted = x.aborted /\ y.cancelled = x.cancelled /\ y.cancelling = x.cancelling
        /\ y.receiving = "terminal" /\ y.sending = x.sending /\ y.sendClosed = x.sendClosed
        /\ y.actions = x.actions /\ y.physical = x.physical /\ y.released = x.released
        /\ y.uncertain = x.uncertain /\ y.cut = x.cut /\ y.finished = TRUE
        /\ y.cleanup = x.cleanup /\ y.closed = k /\ y.turns = x.turns
        /\ y.started = x.started /\ y.ended = TRUE /\ y.calls = q
    BY <1>1, <1>3, <2>0 DEF StreamShape, Receiving
  <2> HIDE DEF y
  <2>2. Counted(y)
    BY <1>1, <1>5, <1>6, <2>0, <2>1 DEF StreamOK, Counted
  <2>3. Untouched(y)
    BY <1>1, <1>5, <1>6, <2>0, <2>1 DEF StreamOK, Untouched
  <2>4. Asked(y)
    BY <1>1, <1>5, <1>6, <2>0, <2>1 DEF StreamOK, Asked
  <2>5. CutOK(y)
    BY <1>1, <1>5, <1>6, <2>0, <2>1 DEF StreamOK, CutOK
  <2>6. AsksNoMore(y)
    BY <1>1, <1>5, <1>6, <2>0, <2>1 DEF StreamOK, AsksNoMore
  <2>7. ReceiptOK(y)
    BY <1>1, <1>5, <1>6, <2>0, <2>1 DEF StreamOK, ReceiptOK
  <2>8. StreamOK(y)
    BY <2>1, <2>2, <2>3, <2>4, <2>5, <2>6, <2>7 DEF StreamOK
  <2> QED
    BY <1>1, <2>00, <2>1, <2>8 DEF Moves, Claims, Loose, Lost
<1>7. CASE ~ x.cut /\ outcome = "throw"
  <2> DEFINE d == CancelLowering(c)
             y == [d EXCEPT !.receiving = "closed"]
  <2>00. AnswerNext(c, outcome) = y
    BY <1>3, <1>7 DEF AnswerNext
  <2>0. /\ d \in StreamShape
        /\ d.phase = x.phase /\ d.aborted = x.aborted /\ d.held = x.held
        /\ d.cancelled = x.cancelled /\ d.cancelling = x.cancelling
        /\ d.sending = x.sending /\ d.actions = x.actions
        /\ d.physical = x.physical /\ d.uncertain = x.uncertain /\ d.released = x.released
        /\ d.finished = x.finished /\ d.closed = x.closed
        /\ d.turns = x.turns /\ d.started = x.started /\ d.ended = x.ended
        /\ \/ x.finished /\ d.cut /\ d.cleanup = "done" /\ d.calls = <<>>
           \/ ~ x.finished /\ d.cut /\ d.cleanup = "running" /\ d.calls = Append(<<>>, "return")
    BY <1>3, <1>5, <1>7, CutDoes
  <2> HIDE DEF d
  <2>1. /\ y \in StreamShape /\ y.receiving = "closed"
        /\ y.phase = d.phase /\ y.aborted = d.aborted /\ y.held = d.held
        /\ y.cancelled = d.cancelled /\ y.cancelling = d.cancelling
        /\ y.sending = d.sending /\ y.actions = d.actions /\ y.cut = d.cut
        /\ y.physical = d.physical /\ y.uncertain = d.uncertain /\ y.released = d.released
        /\ y.finished = d.finished /\ y.closed = d.closed /\ y.cleanup = d.cleanup
        /\ y.turns = d.turns /\ y.started = d.started /\ y.ended = d.ended
        /\ y.calls = d.calls
    BY <2>0 DEF StreamShape, Receiving
  <2> HIDE DEF y
  <2>9. Append(<<>>, "return") = <<"return">>
    OBVIOUS
  <2>10. Counted(y)
    BY <1>1, <1>5, <1>7, <2>0, <2>1 DEF StreamOK, Counted
  <2>11. Untouched(y)
    BY <1>1, <1>5, <1>7, <2>0, <2>1 DEF StreamOK, Untouched
  <2>12. Asked(y)
    BY <2>0, <2>1, <2>9 DEF StreamOK, Asked
  <2>13. CutOK(y)
    BY <1>1, <1>5, <1>7, <2>0, <2>1 DEF StreamOK, CutOK
  <2>14. AsksNoMore(y)
    BY <1>1, <1>5, <1>7, <2>0, <2>1 DEF StreamOK, AsksNoMore
  <2>15. ReceiptOK(y)
    BY <1>1, <1>5, <1>7, <2>0, <2>1 DEF StreamOK, ReceiptOK
  <2>16. StreamOK(y)
    BY <2>0, <2>1, <2>10, <2>11, <2>12, <2>13, <2>14, <2>15 DEF StreamOK
  <2> QED
    BY <1>1, <2>0, <2>00, <2>1, <2>16 DEF Moves, Claims, Loose, Lost
<1>8. CASE ~ x.cut /\ outcome \in {"message", "big"}
  <2> DEFINE y == [c EXCEPT !.receiving = outcome]
  <2>00. AnswerNext(c, outcome) = y
    BY <1>3, <1>8 DEF AnswerNext
  <2>0. outcome \in Receiving /\ outcome # "next" /\ outcome # "no"
    BY <1>8 DEF Receiving
  <2>1. /\ y \in StreamShape /\ y.phase = x.phase /\ y.held = x.held
        /\ y.aborted = x.aborted /\ y.cancelled = x.cancelled /\ y.cancelling = x.cancelling
        /\ y.receiving = outcome /\ y.sending = x.sending /\ y.sendClosed = x.sendClosed
        /\ y.actions = x.actions /\ y.physical = x.physical /\ y.released = x.released
        /\ y.uncertain = x.uncertain /\ y.cut = x.cut /\ y.finished = x.finished
        /\ y.cleanup = x.cleanup /\ y.closed = x.closed /\ y.turns = x.turns
        /\ y.started = x.started /\ y.ended = x.ended /\ y.calls = q
    BY <1>1, <1>3, <2>0 DEF StreamShape
  <2> HIDE DEF y
  <2>2. Counted(y)
    BY <1>1, <1>5, <1>8, <2>0, <2>1 DEF StreamOK, Counted
  <2>3. Untouched(y)
    BY <1>1, <1>5, <1>8, <2>0, <2>1 DEF StreamOK, Untouched
  <2>4. Asked(y)
    BY <1>1, <1>5, <1>8, <2>0, <2>1 DEF StreamOK, Asked
  <2>5. CutOK(y)
    BY <1>1, <1>5, <1>8, <2>0, <2>1 DEF StreamOK, CutOK
  <2>6. AsksNoMore(y)
    BY <1>1, <1>5, <1>8, <2>0, <2>1 DEF StreamOK, AsksNoMore
  <2>7. ReceiptOK(y)
    BY <1>1, <1>5, <1>8, <2>0, <2>1 DEF StreamOK, ReceiptOK
  <2>8. StreamOK(y)
    BY <2>1, <2>2, <2>3, <2>4, <2>5, <2>6, <2>7 DEF StreamOK
  <2> QED
    BY <1>1, <2>00, <2>1, <2>8 DEF Moves, Claims, Loose, Lost
<1> QED
  BY <1>1, <1>4, <1>6, <1>7, <1>8

\* The iterator answers the cleanup of a cut stream.
LEMMA AnswerCleanupOK ==
  ASSUME NEW x, StreamOK(x), x.calls # <<>>, Head(x.calls) # "next",
         NEW outcome \in {"message", "big", "done", "throw"}
  PROVE  Moves(x, AnswerCleanup([x EXCEPT !.calls = Tail(@)], outcome))
<1> DEFINE c == [x EXCEPT !.calls = Tail(@)]
<1>1. /\ x \in StreamShape /\ x.receiving # "next" /\ x.started /\ x.cleanup = "running"
      /\ Tail(x.calls) = <<>> /\ <<>> \in Seq(Calls) /\ x.cut /\ x.closed # "resolved"
      /\ x.closed \in Closings
  BY QueueHolds DEF StreamOK, Untouched, CutOK, ReceiptOK, StreamShape
<1>2. c = [x EXCEPT !.calls = <<>>]
  BY <1>1
<1> SUFFICES Moves(x, AnswerCleanup(c, outcome))
  OBVIOUS
<1> HIDE DEF c
<1>3. /\ c \in StreamShape /\ c.phase = x.phase /\ c.held = x.held /\ c.aborted = x.aborted
      /\ c.cancelled = x.cancelled /\ c.cancelling = x.cancelling
      /\ c.receiving = x.receiving /\ c.sending = x.sending /\ c.sendClosed = x.sendClosed
      /\ c.actions = x.actions /\ c.physical = x.physical /\ c.released = x.released
      /\ c.uncertain = x.uncertain /\ c.cut = x.cut /\ c.finished = x.finished
      /\ c.cleanup = x.cleanup /\ c.closed = x.closed /\ c.turns = x.turns
      /\ c.started = x.started /\ c.ended = x.ended /\ c.calls = <<>>
  BY <1>1, <1>2 DEF StreamShape
<1>4. CASE outcome = "done"
  <2> DEFINE k == IF x.closed = "pending" THEN "resolved" ELSE x.closed
             y == [c EXCEPT !.finished = TRUE, !.ended = TRUE, !.closed = k, !.cleanup = "done"]
  <2>0. k \in Closings
    BY <1>1 DEF Closings
  <2>00. AnswerCleanup(c, outcome) = y
    <3>1. AnswerCleanup(c, outcome) = [Finish(c) EXCEPT !.cleanup = "done"]
      BY <1>4 DEF AnswerCleanup, Clean
    <3>2. Finish(c) = [c EXCEPT !.finished = TRUE, !.ended = TRUE, !.closed = k]
      BY <1>3 DEF Finish
    <3> HIDE DEF k
    <3> QED
      BY <1>3, <3>1, <3>2 DEF StreamShape
  <2> HIDE DEF k
  <2>1. /\ y \in StreamShape /\ y.phase = x.phase /\ y.held = x.held
        /\ y.aborted = x.aborted /\ y.cancelled = x.cancelled /\ y.cancelling = x.cancelling
        /\ y.receiving = x.receiving /\ y.sending = x.sending /\ y.sendClosed = x.sendClosed
        /\ y.actions = x.actions /\ y.physical = x.physical /\ y.released = x.released
        /\ y.uncertain = x.uncertain /\ y.cut = x.cut /\ y.finished = TRUE
        /\ y.cleanup = "done" /\ y.closed = k /\ y.turns = x.turns /\ y.started = x.started
        /\ y.ended = TRUE /\ y.calls = <<>>
    BY <1>1, <1>3, <2>0 DEF StreamShape, Cleanups
  <2> HIDE DEF y
  <2>2. Counted(y)
    BY <1>1, <1>4, <2>0, <2>1 DEF StreamOK, Counted
  <2>3. Untouched(y)
    BY <1>1, <1>4, <2>0, <2>1 DEF StreamOK, Untouched
  <2>4. Asked(y)
    BY <1>1, <1>4, <2>0, <2>1 DEF StreamOK, Asked
  <2>5. CutOK(y)
    BY <1>1, <1>4, <2>0, <2>1 DEF StreamOK, CutOK
  <2>6. AsksNoMore(y)
    BY <1>1, <1>4, <2>0, <2>1 DEF StreamOK, AsksNoMore
  <2>7. ReceiptOK(y)
    BY <1>1, <1>4, <2>0, <2>1 DEF StreamOK, ReceiptOK
  <2>8. StreamOK(y)
    BY <2>1, <2>2, <2>3, <2>4, <2>5, <2>6, <2>7 DEF StreamOK
  <2> QED
    BY <1>1, <2>00, <2>1, <2>8 DEF Moves, Claims, Loose, Lost
<1>5. ASSUME AnswerCleanup(c, outcome) = Unclean(c)
      PROVE  Moves(x, AnswerCleanup(c, outcome))
  <2> DEFINE k == IF x.closed = "pending" THEN "rejected" ELSE x.closed
             y == [c EXCEPT !.cleanup = "failed", !.closed = k]
  <2>0. k \in Closings /\ k # "resolved"
    BY <1>1 DEF Closings
  <2>00. AnswerCleanup(c, outcome) = y
    BY <1>3, <1>5 DEF Unclean
  <2> HIDE DEF k
  <2>1. /\ y \in StreamShape /\ y.phase = x.phase /\ y.held = x.held
        /\ y.aborted = x.aborted /\ y.cancelled = x.cancelled /\ y.cancelling = x.cancelling
        /\ y.receiving = x.receiving /\ y.sending = x.sending /\ y.sendClosed = x.sendClosed
        /\ y.actions = x.actions /\ y.physical = x.physical /\ y.released = x.released
        /\ y.uncertain = x.uncertain /\ y.cut = x.cut /\ y.finished = x.finished
        /\ y.cleanup = "failed" /\ y.closed = k /\ y.turns = x.turns
        /\ y.started = x.started /\ y.ended = x.ended /\ y.calls = <<>>
    BY <1>1, <1>3, <2>0 DEF StreamShape, Cleanups
  <2> HIDE DEF y
  <2>2. Counted(y)
    BY <1>1, <2>0, <2>1 DEF StreamOK, Counted
  <2>3. Untouched(y)
    BY <1>1, <2>0, <2>1 DEF StreamOK, Untouched
  <2>4. Asked(y)
    BY <1>1, <2>0, <2>1 DEF StreamOK, Asked
  <2>5. CutOK(y)
    BY <1>1, <2>0, <2>1 DEF StreamOK, CutOK
  <2>6. AsksNoMore(y)
    BY <1>1, <2>0, <2>1 DEF StreamOK, AsksNoMore
  <2>7. ReceiptOK(y)
    BY <1>1, <2>0, <2>1 DEF StreamOK, ReceiptOK
  <2>8. StreamOK(y)
    BY <2>1, <2>2, <2>3, <2>4, <2>5, <2>6, <2>7 DEF StreamOK
  <2> QED
    BY <1>1, <2>00, <2>1, <2>8 DEF Moves, Claims, Loose, Lost
<1>6. CASE outcome \in {"message", "big"} /\ x.turns < CleanupTurns
  <2> DEFINE n == x.turns + 1
             a == Append(c.calls, "turn")
             y == [c EXCEPT !.turns = n, !.calls = a]
  <2>0. /\ n \in Nat /\ n <= CleanupTurns
        /\ a = <<"turn">> /\ a \in Seq(Calls)
    BY <1>1, <1>3, <1>6, PluginAssumption DEF StreamShape, Calls
  <2>00. AnswerCleanup(c, outcome) = y
    BY <1>3, <1>6 DEF AnswerCleanup
  <2> HIDE DEF n, a
  <2>1. /\ y \in StreamShape /\ y.phase = x.phase /\ y.held = x.held
        /\ y.aborted = x.aborted /\ y.cancelled = x.cancelled /\ y.cancelling = x.cancelling
        /\ y.receiving = x.receiving /\ y.sending = x.sending /\ y.sendClosed = x.sendClosed
        /\ y.actions = x.actions /\ y.physical = x.physical /\ y.released = x.released
        /\ y.uncertain = x.uncertain /\ y.cut = x.cut /\ y.finished = x.finished
        /\ y.cleanup = x.cleanup /\ y.closed = x.closed /\ y.turns = n
        /\ y.started = x.started /\ y.ended = x.ended /\ y.calls = a
    BY <1>1, <1>3, <2>0 DEF StreamShape
  <2> HIDE DEF y
  <2>2. Counted(y)
    BY <1>1, <1>6, <2>0, <2>1 DEF StreamOK, Counted
  <2>3. Untouched(y)
    BY <1>1, <1>6, <2>0, <2>1 DEF StreamOK, Untouched
  <2>4. Asked(y)
    BY <1>1, <1>6, <2>0, <2>1 DEF StreamOK, Asked
  <2>5. CutOK(y)
    BY <1>1, <1>6, <2>0, <2>1 DEF StreamOK, CutOK
  <2>6. AsksNoMore(y)
    BY <1>1, <1>6, <2>0, <2>1 DEF StreamOK, AsksNoMore
  <2>7. ReceiptOK(y)
    BY <1>1, <1>6, <2>0, <2>1 DEF StreamOK, ReceiptOK
  <2>8. StreamOK(y)
    BY <2>0, <2>1, <2>2, <2>3, <2>4, <2>5, <2>6, <2>7 DEF StreamOK
  <2> QED
    BY <1>1, <2>00, <2>1, <2>8 DEF Moves, Claims, Loose, Lost
<1>7. CASE outcome = "throw" \/ (outcome \in {"message", "big"} /\ ~ (x.turns < CleanupTurns))
  <2>1. AnswerCleanup(c, outcome) = Unclean(c)
    BY <1>3, <1>7 DEF AnswerCleanup
  <2> QED
    BY <1>5, <2>1
<1> QED
  BY <1>4, <1>6, <1>7

(***************************************************************************)
(* A plugin instance: the inductive invariant                              *)
(***************************************************************************)
PlacesTaken == {s \in Streams : Claims(stream[s])}

\* What the instance knows of its streams: one that is lost or uncertain has
\* made it unconfirmed, and all of them keep to their places.
StreamsKept ==
  /\ stream \in [Streams -> StreamShape]
  /\ \A s \in Streams : StreamOK(stream[s])
  /\ \A s \in Streams : Lost(stream[s]) \/ stream[s].uncertain => cleanupUnconfirmed
  /\ Cardinality(PlacesTaken) <= MaxOpenStreams

\* Before it is ready an instance has run nothing; once it stops nothing of it
\* is loose, and that stays so.
Staged ==
  /\ plugin # "ready" => /\ \A r \in Requests : request[r] = "idle"
                         /\ \A s \in Streams : stream[s].phase = "idle"
  /\ hook # "no" => stopping \/ plugin = "unbound"
  /\ stopping => /\ plugin = "ready" /\ pending = {} /\ ~ cleanupUnconfirmed
                 /\ \A s \in Streams : ~ Loose(stream[s])

PluginInv ==
  /\ plugin \in {"creating", "ready", "unbound", "failed"}
  /\ request \in [Requests -> {"idle", "active", "over"}]
  /\ stopping \in BOOLEAN /\ cleanupUnconfirmed \in BOOLEAN
  /\ hook \in {"no", "running", "returned"}
  /\ StreamsKept /\ Staged

LEMMA PluginTypes == PluginInv => PluginTypeOK
<1> SUFFICES ASSUME PluginInv PROVE PluginTypeOK
  OBVIOUS
<1>1. ASSUME NEW s \in Streams PROVE stream[s] \in StreamState
  <2>1. stream[s] \in StreamShape /\ stream[s].turns <= CleanupTurns /\ Counted(stream[s])
    BY DEF PluginInv, StreamsKept, StreamOK
  <2>2. CleanupTurns \in Nat
    BY PluginAssumption
  <2>3. stream[s].actions \in 0 .. 3 /\ stream[s].turns \in 0 .. CleanupTurns
    BY <2>1, <2>2 DEF StreamShape, Counted
  <2> QED
    BY <2>1, <2>3 DEF StreamShape, StreamState, Phases, Sendings, Cleanups, Closings, Calls
<1>2. stream \in [Streams -> StreamState]
  BY <1>1 DEF PluginInv, StreamsKept
<1> QED
  BY <1>2 DEF PluginInv, PluginTypeOK

\* A subset of the places taken is no more places.
LEMMA PlacesShrink ==
  ASSUME NEW S \in SUBSET Streams, NEW T \in SUBSET S
  PROVE  /\ IsFiniteSet(S) /\ IsFiniteSet(T) /\ Cardinality(S) \in Nat
         /\ Cardinality(T) \in Nat /\ Cardinality(T) <= Cardinality(S)
<1>1. IsFiniteSet(S)
  BY PluginAssumption, FS_Subset
<1> QED
  BY <1>1, FS_Subset, FS_CardinalityType

LEMMA PluginBounds == PluginInv => AliveBounded
<1> SUFFICES ASSUME PluginInv PROVE AliveBounded
  OBVIOUS
<1> DEFINE alive == {s \in Streams : \/ stream[s].phase = "opening"
                                     \/ stream[s].started /\ ~stream[s].ended}
<1>1. alive \in SUBSET PlacesTaken
  BY DEF PlacesTaken, Claims
<1>2. Cardinality(alive) <= Cardinality(PlacesTaken) /\ Cardinality(alive) \in Nat
      /\ Cardinality(PlacesTaken) \in Nat
  BY <1>1, PlacesShrink DEF PlacesTaken
<1> QED
  BY <1>2, PluginAssumption DEF PluginInv, StreamsKept, AliveBounded

LEMMA PluginQuiet == PluginInv => StopFindsQuiet
<1> SUFFICES ASSUME PluginInv, hook # "no" PROVE StopFindsQuiet
  BY DEF StopFindsQuiet
<1>1. ASSUME NEW s \in Streams
      PROVE  /\ stream[s].phase \notin {"opening", "cancelled"}
             /\ stream[s].calls = <<>> /\ (stream[s].started => stream[s].ended)
  <2>1. StreamOK(stream[s])
    BY DEF PluginInv, StreamsKept
  <2>2. CASE stopping
    <3>1. ~ Loose(stream[s]) /\ ~ Lost(stream[s])
      BY <2>2 DEF PluginInv, StreamsKept, Staged
    <3>2. stream[s].started => stream[s].released
      BY <3>1 DEF Loose, Lost
    <3> QED
      BY <2>1, <3>1, <3>2 DEF Loose, StreamOK, Untouched, Asked, ReceiptOK
  <2>3. CASE plugin = "unbound"
    <3>1. stream[s].phase = "idle"
      BY <2>3 DEF PluginInv, Staged
    <3> QED
      BY <2>1, <3>1 DEF StreamOK, Untouched, Asked
  <2> QED
    BY <2>2, <2>3 DEF PluginInv, Staged
<1>2. pending = {}
  BY DEF PluginInv, Staged, pending
<1> QED
  BY <1>1, <1>2 DEF StopFindsQuiet, opening

LEMMA PluginStarts == PluginInit => PluginInv
<1> SUFFICES ASSUME PluginInit PROVE PluginInv
  OBVIOUS
<1>1. \A s \in Streams : stream[s] = NewStream
  BY DEF PluginInit
<1>2. NewStream \in StreamShape
  BY DEF NewStream, StreamShape, Phases, Receiving, Sendings, Cleanups, Closings
<1>3. Counted(NewStream) /\ Untouched(NewStream) /\ Asked(NewStream)
  BY DEF NewStream, Counted, Untouched, Asked
<1>4. CutOK(NewStream) /\ AsksNoMore(NewStream) /\ ReceiptOK(NewStream)
  BY DEF NewStream, CutOK, AsksNoMore, ReceiptOK
<1>5. StreamOK(NewStream)
  BY <1>2, <1>3, <1>4, PluginAssumption DEF StreamOK, NewStream
<1>6. ~ Lost(NewStream) /\ ~ NewStream.uncertain /\ ~ Claims(NewStream) /\ NewStream.phase = "idle"
  BY DEF NewStream, Lost, Claims
<1>7. PlacesTaken = {}
  BY <1>1, <1>6 DEF PlacesTaken
<1>8. Cardinality(PlacesTaken) = 0
  BY <1>7, FS_EmptySet
<1>9. StreamsKept
  BY <1>1, <1>2, <1>5, <1>6, <1>8, PluginAssumption DEF StreamsKept, PluginInit
<1>10. Staged
  BY <1>1, <1>6 DEF Staged, PluginInit
<1> QED
  BY <1>9, <1>10 DEF PluginInv, PluginInit

\* A step of one stream that Moves it keeps the invariant.
LEMMA MovesPreserve ==
  ASSUME PluginInv, NEW s \in Streams, NEW y, Moves(stream[s], y), Become(s, y),
         plugin = "ready" \/ y.phase = stream[s].phase
  PROVE  PluginInv'
<1> DEFINE x == stream[s]
<1>1. /\ stream' = [stream EXCEPT ![s] = y]
      /\ cleanupUnconfirmed' = (cleanupUnconfirmed \/ y.uncertain)
      /\ UNCHANGED <<plugin, request, stopping, hook>>
  BY DEF Become
<1>2. y \in StreamShape /\ StreamOK(y)
  BY DEF Moves, StreamOK
<1>3. /\ stream' \in [Streams -> StreamShape] /\ stream'[s] = y
      /\ \A t \in Streams \ {s} : stream'[t] = stream[t]
  BY <1>1, <1>2 DEF PluginInv, StreamsKept
<1>4. cleanupUnconfirmed' \in BOOLEAN /\ (cleanupUnconfirmed => cleanupUnconfirmed')
      /\ (y.uncertain => cleanupUnconfirmed')
  BY <1>1, <1>2 DEF PluginInv, StreamShape
<1>5. \A t \in Streams : StreamOK(stream'[t])
  BY <1>2, <1>3 DEF PluginInv, StreamsKept
<1>6. \A t \in Streams : Lost(stream'[t]) \/ stream'[t].uncertain => cleanupUnconfirmed'
  <2>1. Lost(y) \/ y.uncertain => cleanupUnconfirmed'
    BY <1>4 DEF Moves, PluginInv, StreamsKept
  <2> QED
    BY <1>3, <1>4, <2>1 DEF PluginInv, StreamsKept
<1>7. Cardinality(PlacesTaken') <= MaxOpenStreams
  <2>1. PlacesTaken' \in SUBSET PlacesTaken
    BY <1>3 DEF PlacesTaken, Moves
  <2>2. /\ Cardinality(PlacesTaken') <= Cardinality(PlacesTaken)
        /\ Cardinality(PlacesTaken') \in Nat
        /\ Cardinality(PlacesTaken) \in Nat
    BY <2>1, PlacesShrink DEF PlacesTaken
  <2> QED
    BY <2>2, PluginAssumption DEF PluginInv, StreamsKept
<1>8. StreamsKept'
  BY <1>3, <1>5, <1>6, <1>7 DEF StreamsKept
<1>9. stopping => ~ cleanupUnconfirmed'
  <2> SUFFICES ASSUME stopping PROVE ~ y.uncertain
    BY <1>1 DEF PluginInv, Staged
  <2>1. ~ Loose(x) /\ ~ Lost(x) /\ ~ x.uncertain
    BY DEF PluginInv, StreamsKept, Staged
  <2> QED
    BY <2>1 DEF Moves, Loose, Lost
<1>10. Staged'
  BY <1>1, <1>3, <1>9 DEF PluginInv, Staged, Moves, pending
<1> QED
  BY <1>1, <1>4, <1>8, <1>10 DEF PluginInv

LEMMA PluginPreserves == PluginInv /\ [PluginNext]_pluginVars => PluginInv'
<1> SUFFICES ASSUME PluginInv, [PluginNext]_pluginVars PROVE PluginInv'
  OBVIOUS
<1>0. \A s \in Streams : StreamOK(stream[s])
  BY DEF PluginInv, StreamsKept
<1>1. CASE UNCHANGED pluginVars
  BY <1>1 DEF pluginVars, PluginInv, StreamsKept, Staged, PlacesTaken, pending
\* Steps that leave the streams alone.
<1>2. ASSUME UNCHANGED <<stream, cleanupUnconfirmed>> PROVE StreamsKept'
  BY <1>2 DEF PluginInv, StreamsKept, PlacesTaken
<1>3. CASE CreateReturns
  <2>1. UNCHANGED <<stream, cleanupUnconfirmed, request, stopping>>
    BY <1>3 DEF CreateReturns
  <2> QED
    BY <1>2, <1>3, <2>1 DEF CreateReturns, PluginInv, Staged, pending
<1>4. CASE Stop
  <2>1. UNCHANGED <<stream, cleanupUnconfirmed, request, plugin>>
    BY <1>4 DEF Stop
  <2>2. \A s \in Streams : ~ Loose(stream[s])
    BY <1>4 DEF Stop, MayStop, opening, sessions, Loose
  <2> QED
    BY <1>2, <1>4, <2>1, <2>2 DEF Stop, MayStop, PluginInv, Staged, pending
<1>5. CASE HookReturns
  BY <1>2, <1>5 DEF HookReturns, PluginInv, Staged, pending
<1>6. ASSUME NEW r \in Requests, InvokeRequest(r) \/ InvokeReturns(r) PROVE PluginInv'
  <2>1. UNCHANGED <<stream, cleanupUnconfirmed, plugin, stopping, hook>>
    BY <1>6 DEF InvokeRequest, InvokeReturns
  <2>2. request' \in [Requests -> {"idle", "active", "over"}]
    BY <1>6 DEF InvokeRequest, InvokeReturns, PluginInv
  <2>3. plugin = "ready"
    BY <1>6 DEF InvokeRequest, InvokeReturns, PluginInv, Staged
  <2>4. stopping => pending' = {}
    BY <1>6 DEF InvokeRequest, InvokeReturns, PluginInv, Staged, pending
  <2> QED
    BY <1>2, <2>1, <2>2, <2>3, <2>4 DEF PluginInv, Staged
\* Opens.
<1>7. ASSUME NEW s \in Streams, OpenStream(s) PROVE PluginInv'
  <2> DEFINE x == stream[s]
             o == [x EXCEPT !.phase = "opening"]
             v == [x EXCEPT !.phase = "over"]
             refused == stopping \/ cleanupUnconfirmed \/ x.aborted \/ Full
  <2>1. /\ plugin = "ready" /\ x.phase = "idle" /\ ~ x.started
        /\ refused => Become(s, v)
        /\ ~ refused => Become(s, o)
    BY <1>0, <1>7 DEF OpenStream, StreamOK, Untouched
  <2>2. CASE refused
    <3>1. StreamOK(v) /\ v.phase = "over" /\ v.held = x.held /\ v.started = x.started
          /\ v.uncertain = x.uncertain
      BY <1>0, <2>1, RefusedOK
    <3> HIDE DEF v
    <3>2. /\ Claims(v) => Claims(x)
          /\ Loose(v) => Loose(x)
          /\ Lost(v) => Lost(x)
      BY <2>1, <3>1 DEF Claims, Loose, Lost
    <3>3. Moves(x, v)
      BY <3>1, <3>2 DEF Moves
    <3>4. Become(s, v)
      BY <2>1, <2>2
    <3> QED
      BY <2>1, <3>3, <3>4, MovesPreserve
  <2>3. CASE ~ refused
    <3>1. StreamOK(o) /\ o.phase = "opening" /\ o.held = x.held /\ o.started = x.started
          /\ o.uncertain = x.uncertain
      BY <1>0, <2>1, OpeningOK
    <3>2. Become(s, o)
      BY <2>1, <2>3
    <3>3. o \in StreamShape /\ ~ Lost(o) /\ ~ x.uncertain /\ o.uncertain = FALSE
      BY <1>0, <2>1, <3>1 DEF StreamOK, StreamShape, Untouched, Lost
    <3>4. ~ cleanupUnconfirmed /\ ~ stopping /\ ~ Full
      BY <2>3
    <3> HIDE DEF o, refused
    <3>5. /\ stream' = [stream EXCEPT ![s] = o]
          /\ cleanupUnconfirmed' = (cleanupUnconfirmed \/ o.uncertain)
          /\ UNCHANGED <<plugin, request, stopping, hook>>
      BY <3>2 DEF Become
    <3>6. /\ stream' \in [Streams -> StreamShape] /\ stream'[s] = o
          /\ \A t \in Streams \ {s} : stream'[t] = stream[t]
      BY <3>3, <3>5 DEF PluginInv, StreamsKept
    <3>7. cleanupUnconfirmed' = FALSE
      BY <3>3, <3>4, <3>5
    <3>8. Cardinality(PlacesTaken') <= MaxOpenStreams
      <4>1. PlacesTaken \subseteq sessions \cup opening
        BY <3>4 DEF PlacesTaken, Claims, sessions, opening, Lost, PluginInv, StreamsKept, StreamOK,
           ReceiptOK
      <4>2. IsFiniteSet(sessions) /\ IsFiniteSet(opening) /\ IsFiniteSet(PlacesTaken)
            /\ IsFiniteSet(sessions \cup opening) /\ IsFiniteSet(sessions \cap opening)
        BY PluginAssumption, FS_Subset DEF sessions, opening, PlacesTaken
      <4>3. /\ Cardinality(sessions \cup opening)
                 = Cardinality(sessions) + Cardinality(opening) - Cardinality(sessions \cap opening)
            /\ Cardinality(PlacesTaken) <= Cardinality(sessions \cup opening)
        BY <4>1, <4>2, FS_Union, FS_Subset
      <4>4. /\ Cardinality(sessions) \in Nat /\ Cardinality(opening) \in Nat
            /\ Cardinality(sessions \cap opening) \in Nat /\ Cardinality(PlacesTaken) \in Nat
            /\ Cardinality(sessions \cup opening) \in Nat
        BY <4>2, FS_CardinalityType
      <4>5. Cardinality(PlacesTaken) < MaxOpenStreams
        BY <3>4, <4>3, <4>4, PluginAssumption DEF Full
      <4>6. PlacesTaken' \in SUBSET (PlacesTaken \cup {s})
        BY <3>6 DEF PlacesTaken
      <4>7. IsFiniteSet(PlacesTaken \cup {s})
            /\ Cardinality(PlacesTaken \cup {s}) <= Cardinality(PlacesTaken) + 1
        <5>1. IsFiniteSet(PlacesTaken \cup {s})
              /\ Cardinality(PlacesTaken \cup {s})
                   = IF s \in PlacesTaken THEN Cardinality(PlacesTaken)
                     ELSE Cardinality(PlacesTaken) + 1
          BY <4>2, FS_AddElement
        <5> DEFINE m == Cardinality(PlacesTaken)
                   n == Cardinality(PlacesTaken \cup {s})
        <5>2. m \in Nat /\ (n = m \/ n = m + 1)
          BY <5>1, <4>4
        <5>3. n <= m + 1
          <6> HIDE DEF m, n
          <6> QED
            BY <5>2
        <5> QED
          BY <5>1, <5>3
      <4>8. /\ Cardinality(PlacesTaken') <= Cardinality(PlacesTaken \cup {s})
            /\ Cardinality(PlacesTaken') \in Nat
            /\ Cardinality(PlacesTaken \cup {s}) \in Nat
        BY <4>6, <4>7, FS_Subset, FS_CardinalityType
      <4> QED
        BY <4>4, <4>5, <4>7, <4>8, PluginAssumption
    <3>9. StreamsKept'
      BY <3>1, <3>3, <3>4, <3>6, <3>7, <3>8 DEF PluginInv, StreamsKept
    <3>10. Staged'
      BY <2>1, <3>4, <3>5 DEF PluginInv, Staged
    <3> QED
      BY <3>5, <3>7, <3>9, <3>10 DEF PluginInv
  <2> QED
    BY <2>2, <2>3
\* A stream that was opened is one of an instance that is ready.
<1>8. ASSUME NEW s \in Streams, stream[s].phase # "idle" \/ stream[s].started
      PROVE  plugin = "ready"
  BY <1>0, <1>8 DEF PluginInv, Staged, StreamOK, Untouched
<1>9. ASSUME NEW s \in Streams, OpenReturns(s) PROVE PluginInv'
  <2> DEFINE x == stream[s]
             v == [x EXCEPT !.phase = "over"]
             y == [x EXCEPT !.phase = "open", !.held = TRUE, !.started = TRUE]
             c == CancelSession(y)
             d == [c EXCEPT !.phase = "cancelled"]
  <2>1. /\ x.phase = "opening" /\ ~ x.started /\ StreamOK(x) /\ plugin = "ready"
        /\ Become(s, v) \/ Become(s, d) \/ Become(s, y)
    BY <1>0, <1>8, <1>9 DEF OpenReturns, StreamOK, Untouched
  <2>2. Moves(x, v)
    <3>1. StreamOK(v) /\ v.phase = "over" /\ v.held = x.held /\ v.started = x.started
          /\ v.uncertain = x.uncertain
      BY <2>1, RefusedOK
    <3> HIDE DEF v
    <3> QED
      BY <2>1, <3>1 DEF Moves, Claims, Loose, Lost
  <2>3. StreamOK(y) /\ y.started /\ y.held /\ y.uncertain = x.uncertain
    BY <2>1, OpenedOK
  <2>4. Moves(x, y)
    <3> HIDE DEF y
    <3> QED
      BY <2>1, <2>3 DEF Moves, Claims, Loose, Lost
  <2>5. Moves(x, d)
    <3> HIDE DEF y
    <3>1. StreamOK(c) /\ c.started = y.started /\ c.held = y.held /\ c.uncertain = y.uncertain
      BY <2>3, CancelDoes
    <3> HIDE DEF c
    <3>2. /\ StreamOK(d) /\ d.held = c.held /\ d.uncertain = c.uncertain
      BY <2>3, <3>1, PhaseOK
    <3> HIDE DEF d
    <3> QED
      BY <2>1, <2>3, <3>1, <3>2 DEF Moves, Claims, Loose, Lost
  <2> HIDE DEF v, d, y
  <2> QED
    BY <2>1, <2>2, <2>4, <2>5, MovesPreserve
<1>10. ASSUME NEW s \in Streams, OpenWithoutReceipt(s) PROVE PluginInv'
  <2> DEFINE x == stream[s]
             y == [x EXCEPT !.phase = "over", !.started = TRUE]
  <2>1. /\ x.phase = "opening" /\ StreamOK(x) /\ plugin = "ready" /\ ~ x.started
        /\ UNCHANGED <<plugin, request, stopping, hook>> /\ cleanupUnconfirmed' = TRUE
    BY <1>0, <1>8, <1>10 DEF OpenWithoutReceipt, StreamOK, Untouched
  <2>2. stream' = [stream EXCEPT ![s] = y]
    BY <1>10 DEF OpenWithoutReceipt, PluginInv, StreamsKept
  <2>3. StreamOK(y)
    BY <2>1, BareOK
  <2>4. y \in StreamShape
    BY <2>3 DEF StreamOK
  <2> HIDE DEF y
  <2>5. /\ stream' \in [Streams -> StreamShape] /\ stream'[s] = y
        /\ \A t \in Streams \ {s} : stream'[t] = stream[t]
    BY <2>2, <2>4 DEF PluginInv, StreamsKept
  <2>6. PlacesTaken' \in SUBSET PlacesTaken
    BY <2>1, <2>5 DEF PlacesTaken, Claims
  <2>7. /\ Cardinality(PlacesTaken') <= Cardinality(PlacesTaken)
        /\ Cardinality(PlacesTaken') \in Nat
        /\ Cardinality(PlacesTaken) \in Nat
    BY <2>6, PlacesShrink DEF PlacesTaken
  <2>8. Cardinality(PlacesTaken') <= MaxOpenStreams
    BY <2>7, PluginAssumption DEF PluginInv, StreamsKept
  <2>9. StreamsKept'
    BY <2>1, <2>3, <2>5, <2>8 DEF PluginInv, StreamsKept
  <2>10. ~ stopping
    BY <2>1 DEF PluginInv, Staged, Loose
  <2>11. Staged'
    BY <2>1, <2>10 DEF PluginInv, Staged
  <2> QED
    BY <2>1, <2>9, <2>11 DEF PluginInv
<1>11. ASSUME NEW s \in Streams, OpenGivesUp(s) PROVE PluginInv'
  <2> DEFINE x == stream[s]
             y == [x EXCEPT !.phase = "over"]
  <2>1. StreamOK(x) /\ x.phase = "cancelled" /\ x.started /\ plugin = "ready" /\ Become(s, y)
    BY <1>0, <1>8, <1>11 DEF OpenGivesUp, StreamOK, Untouched
  <2>2. StreamOK(y) /\ y.phase = "over" /\ y.held = x.held /\ y.started = x.started
        /\ y.ended = x.ended /\ y.released = x.released /\ y.uncertain = x.uncertain
    BY <2>1, PhaseOK
  <2> HIDE DEF y
  <2>3. Moves(x, y)
    BY <2>1, <2>2 DEF Moves, Claims, Loose, Lost
  <2> QED
    BY <2>1, <2>3, MovesPreserve
<1>12. ASSUME NEW s \in Streams, HostAborts(s) PROVE PluginInv'
  <2> DEFINE x == stream[s]
             a == [x EXCEPT !.aborted = TRUE]
             c == CancelSession(a)
  <2>1. StreamOK(x) /\ ((Become(s, c) /\ a.held) \/ Become(s, a))
    BY <1>0, <1>12 DEF HostAborts
  <2>2. StreamOK(a) /\ a.phase = x.phase /\ a.held = x.held /\ a.started = x.started
        /\ a.ended = x.ended /\ a.released = x.released /\ a.uncertain = x.uncertain
    BY <2>1, AbortedOK
  <2> HIDE DEF a
  <2>3. Moves(x, a)
    BY <2>2 DEF Moves, Claims, Loose, Lost
  <2>4. a.held => Moves(x, c) /\ c.phase = x.phase
    <3> SUFFICES ASSUME a.held PROVE Moves(x, c) /\ c.phase = x.phase
      OBVIOUS
    <3>1. a.started
      BY <2>2 DEF StreamOK, Untouched
    <3>2. /\ StreamOK(c) /\ c.phase = a.phase /\ c.started = a.started /\ c.ended = a.ended
          /\ c.uncertain = a.uncertain /\ c.released = a.released /\ c.held = a.held
      BY <2>2, <3>1, CancelDoes
    <3> HIDE DEF c
    <3> QED
      BY <2>2, <3>2 DEF Moves, Claims, Loose, Lost
  <2> HIDE DEF c
  <2> QED
    BY <2>1, <2>2, <2>3, <2>4, MovesPreserve
<1>13. ASSUME NEW s \in Streams, stream[s].started PROVE Moves(stream[s], CancelSession(stream[s]))
  <2> DEFINE x == stream[s]
             c == CancelSession(x)
  <2>1. /\ StreamOK(c) /\ c.phase = x.phase /\ c.started = x.started /\ c.ended = x.ended
        /\ c.uncertain = x.uncertain /\ c.released = x.released /\ c.held = x.held
    BY <1>0, <1>13, CancelDoes
  <2> HIDE DEF c
  <2>2. Moves(x, c)
    BY <2>1 DEF Moves, Claims, Loose, Lost
  <2> QED
    BY <2>2 DEF c
<1>14. ASSUME NEW s \in Streams, Cancel(s) PROVE PluginInv'
  <2>1. stream[s].started /\ Become(s, CancelSession(stream[s])) /\ plugin = "ready"
    BY <1>0, <1>8, <1>14 DEF Cancel, StreamOK, Untouched
  <2> QED
    BY <1>13, <2>1, MovesPreserve
<1>15. ASSUME NEW s \in Streams, Receive(s) PROVE PluginInv'
  <2>1. plugin = "ready"
    BY <1>8, <1>15 DEF Receive
  <2>2. Moves(stream[s], [stream[s] EXCEPT !.receiving = "next", !.actions = @ + 1,
                                           !.calls = Append(@, "next")])
    BY <1>0, <1>15, ReceiveOK DEF Receive
  <2> QED
    BY <1>15, <2>1, <2>2, MovesPreserve DEF Receive
<1>16. ASSUME NEW s \in Streams, IteratorAnswers(s) PROVE PluginInv'
  <2> DEFINE x == stream[s]
             c == [x EXCEPT !.calls = Tail(@)]
  <2>1. PICK outcome \in {"message", "big", "done", "throw"} :
          Become(s, IF Head(x.calls) = "next" THEN AnswerNext(c, outcome)
                    ELSE AnswerCleanup(c, outcome))
    BY <1>16 DEF IteratorAnswers
  <2>2. x.calls # <<>>
    BY <1>16 DEF IteratorAnswers
  <2>3. x.started
    BY <1>0, <2>2, QueueHolds DEF StreamOK, Untouched
  <2>4. plugin = "ready"
    BY <1>8, <2>3
  <2>5. CASE Head(x.calls) = "next"
    <3>1. Moves(x, AnswerNext(c, outcome))
      BY <1>0, <2>2, <2>5, AnswerNextOK
    <3> QED
      BY <2>1, <2>4, <2>5, <3>1, MovesPreserve
  <2>6. CASE Head(x.calls) # "next"
    <3>1. Moves(x, AnswerCleanup(c, outcome))
      BY <1>0, <2>2, <2>6, AnswerCleanupOK
    <3> QED
      BY <2>1, <2>4, <2>6, <3>1, MovesPreserve
  <2> QED
    BY <2>5, <2>6
<1>17. ASSUME NEW s \in Streams, Send(s) PROVE PluginInv'
  <2>1. plugin = "ready"
    BY <1>8, <1>17 DEF Send
  <2>2. PICK a \in {"send", "closeSend"} :
          Become(s, [stream[s] EXCEPT !.sending = a, !.actions = @ + 1])
    BY <1>17 DEF Send
  <2>3. Moves(stream[s], [stream[s] EXCEPT !.sending = a, !.actions = @ + 1])
    BY <1>0, <1>17, SendOK DEF Send
  <2> QED
    BY <2>1, <2>2, <2>3, MovesPreserve
\* Reactions.
<1>18. ASSUME NEW s \in Streams, ReceiveSeesClosed(s) PROVE PluginInv'
  <2>1. plugin = "ready"
    BY <1>0, <1>8, <1>18 DEF ReceiveSeesClosed, StreamOK, Untouched
  <2>2. Moves(stream[s], [stream[s] EXCEPT !.receiving = "failed"])
    BY <1>0, <1>18, SeenClosedOK DEF ReceiveSeesClosed
  <2> QED
    BY <1>18, <2>1, <2>2, MovesPreserve DEF ReceiveSeesClosed
<1>19. ASSUME NEW s \in Streams, ReceiveReturns(s) PROVE PluginInv'
  <2> DEFINE x == stream[s]
             y == IF x.receiving \in {"big", "failed"} /\ ~x.aborted THEN CancelSession(x) ELSE x
             r == release([y EXCEPT !.receiving = "no", !.actions = @ - 1])
  <2>1. StreamOK(x) /\ x.receiving \in {"message", "big", "terminal", "failed"} /\ Become(s, r)
    BY <1>0, <1>19 DEF ReceiveReturns
  <2>2. x.started
    BY <2>1 DEF StreamOK, Untouched
  <2>3. plugin = "ready"
    BY <1>8, <2>2
  <2>4. /\ StreamOK(y) /\ y.phase = x.phase /\ y.started = x.started /\ y.ended = x.ended
        /\ y.uncertain = x.uncertain /\ y.released = x.released /\ y.held = x.held
        /\ y.receiving = x.receiving /\ (y.cut => y.cancelled \/ y.aborted)
    <3>1. CASE x.receiving \in {"big", "failed"} /\ ~x.aborted
      BY <2>1, <2>2, <3>1, CancelDoes
    <3>2. CASE ~ (x.receiving \in {"big", "failed"} /\ ~x.aborted)
      BY <2>1, <2>2, <3>2 DEF StreamOK, AsksNoMore
    <3> QED
      BY <3>1, <3>2
  <2> HIDE DEF y
  <2>5. Moves(y, r)
    BY <2>1, <2>4, ReturnedOK
  <2> HIDE DEF r
  <2>6. Moves(x, r)
    BY <2>4, <2>5 DEF Moves, Claims, Loose, Lost
  <2> QED
    BY <2>1, <2>3, <2>6, MovesPreserve
<1>20. ASSUME NEW s \in Streams, SendReturns(s) PROVE PluginInv'
  <2>1. plugin = "ready"
    BY <1>0, <1>8, <1>20 DEF SendReturns, StreamOK, Untouched
  <2>2. Moves(stream[s], release([stream[s] EXCEPT !.sending = "no", !.actions = @ - 1,
                                     !.sendClosed = stream[s].sending = "closeSend"]))
    BY <1>0, <1>20, SentOK DEF SendReturns
  <2> QED
    BY <1>20, <2>1, <2>2, MovesPreserve DEF SendReturns
<1>21. ASSUME NEW s \in Streams, CancelSettles(s) PROVE PluginInv'
  <2> DEFINE x == stream[s]
             y == [x EXCEPT !.cancelling = FALSE, !.actions = @ - 1]
             v == [y EXCEPT !.uncertain = TRUE]
  <2>1. /\ StreamOK(x) /\ x.cancelling /\ x.cleanup \in {"done", "failed"}
        /\ Become(s, IF y.cleanup = "done" THEN release(y) ELSE v)
    BY <1>0, <1>21 DEF CancelSettles
  <2>2. x.started
    BY <2>1 DEF StreamOK, Untouched
  <2>3. plugin = "ready"
    BY <1>8, <2>2
  <2>4. Moves(x, release(y)) /\ StreamOK(y) /\ y.phase = x.phase /\ y.held = x.held
        /\ y.started = x.started /\ y.ended = x.ended /\ y.released = x.released
        /\ y.cleanup = x.cleanup
    BY <2>1, CancelledOK
  <2>5. CASE x.cleanup = "done"
    BY <2>1, <2>3, <2>4, <2>5, MovesPreserve
  <2>6. CASE x.cleanup = "failed"
    <3>1. Become(s, v)
      BY <2>1, <2>4, <2>6
    <3>2. ~ x.released
      BY <2>1, <2>6 DEF StreamOK, ReceiptOK
    <3> HIDE DEF y
    <3>3. /\ StreamOK(v) /\ v.phase = y.phase /\ v.held = y.held /\ v.started = y.started
          /\ v.ended = y.ended /\ v.released = y.released
      BY <2>2, <2>4, <3>2, UncertainOK
    <3> HIDE DEF v
    <3>4. Moves(x, v)
      BY <2>2, <2>4, <3>2, <3>3 DEF Moves, Claims, Loose, Lost
    <3> QED
      BY <2>3, <3>1, <3>4, MovesPreserve
  <2> QED
    BY <2>1, <2>5, <2>6
<1>22. ASSUME NEW s \in Streams, ClosedSettles(s) PROVE PluginInv'
  <2> DEFINE x == stream[s]
             v == [x EXCEPT !.uncertain = TRUE]
  <2>1. /\ StreamOK(x) /\ x.held
        /\ \/ x.closed = "resolved" /\ Become(s, release([x EXCEPT !.physical = TRUE]))
           \/ Become(s, v)
    BY <1>0, <1>22 DEF ClosedSettles
  <2>2. x.started /\ ~ x.released
    BY <2>1 DEF StreamOK, Untouched, ReceiptOK
  <2>3. plugin = "ready"
    BY <1>8, <2>2
  <2>4. Moves(x, v)
    <3>1. /\ StreamOK(v) /\ v.phase = x.phase /\ v.held = x.held /\ v.started = x.started
          /\ v.ended = x.ended /\ v.released = x.released
      BY <2>1, <2>2, UncertainOK
    <3> HIDE DEF v
    <3> QED
      BY <2>2, <3>1 DEF Moves, Claims, Loose, Lost
  <2>5. x.closed = "resolved" => Moves(x, release([x EXCEPT !.physical = TRUE]))
    BY <2>1, PhysicalOK
  <2> QED
    BY <2>1, <2>3, <2>4, <2>5, MovesPreserve
<1> QED
  BY <1>1, <1>3, <1>4, <1>5, <1>6, <1>7, <1>9, <1>10, <1>11, <1>12, <1>14, <1>15, <1>16,
     <1>17, <1>18, <1>19, <1>20, <1>21, <1>22 DEF PluginNext, React

LEMMA PluginAlways == Spec => []PluginInv
<1>1. Init => PluginInv
  BY PluginStarts DEF Init
<1>2. PluginInv /\ [Next]_vars => PluginInv'
  BY PluginPreserves DEF Next, vars, PluginStep, IngressStep, EgressStep, ClockStep
<1> QED
  BY <1>1, <1>2, PTL DEF Spec

\* The stop hook is called on an instance nothing of which is loose: no request
\* is active, no stream is opening, held, lost or alive.
THEOREM StopIsQuiet == Spec => []StopFindsQuiet
<1> QED
  BY PluginQuiet, PluginAlways, PTL

\* Whatever the callers do, no more iterators are alive than streams may be open.
THEOREM AliveStaysBounded == Spec => []AliveBounded
<1> QED
  BY PluginBounds, PluginAlways, PTL

(***************************************************************************)
(* The parts together                                                      *)
(***************************************************************************)
LEMMA TypesTogether ==
  PluginInv /\ IngressInv /\ EgressInv /\ ClockInv => Safety
<1>1. PluginInv => PluginTypeOK /\ AliveBounded
  BY PluginTypes, PluginBounds
<1>2. IngressInv => IngressTypeOK /\ SocketBounded
  BY IngressTypes
<1>3. EgressInv => EgressTypeOK
  BY DEF EgressInv
<1>4. ClockInv => ClockTypeOK
  BY DEF ClockInv
<1> QED
  BY <1>1, <1>2, <1>3, <1>4 DEF Safety, TypeOK

\* Each part takes the values of its code only, the iterators that live are
\* within the bound on open streams, and the frames of a socket within its own.
THEOREM SafetyHolds == Spec => []Safety
<1> QED
  BY TypesTogether, PluginAlways, IngressAlways, EgressAlways, ClockAlways, PTL
=============================================================================
