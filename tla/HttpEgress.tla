----------------------------- MODULE HttpEgress -----------------------------
(***************************************************************************)
(* One request through the scoped Fetch transport (event-fetch.mjs).  Its  *)
(* promise is an operation of the event's scope, and every native promise  *)
(* it makes is tracked there: the fetch, each read, each cancellation of   *)
(* the reader.  The scope is here as what EventScope shows of it, with the *)
(* use its owner makes of it: closed by an abort, then settled.  A step is *)
(* a promise reaction or a native event; of the head of a response only    *)
(* whether it is refused is modelled, of a chunk only its size.            *)
(***************************************************************************)
EXTENDS Naturals

CONSTANTS MaxResponse  \* max_response_body_bytes

ASSUME EgressAssumption == MaxResponse \in Nat \ {0}

VARIABLES
  call,    \* the state of one call of eventHttpFetch
  heeds,   \* the Fetch that was injected errors what its signal aborts
  life,    \* the scope: "open" or "closed"
  receipt  \* of the scope: "none", "draining", "clean" or "uncertain"

egressVars == <<call, heeds, life, receipt>>

Failures == {"transport_failure", "response_too_large"}

\* `race` is what the Promise.race being awaited settled with; `natives` are
\* the promises pending in the scope, cancellations of the reader apart.
NoCall == [at |-> "new", answer |-> "none", timer |-> "none",
           aborted |-> FALSE, asked |-> FALSE, race |-> "open", body |-> "none", total |-> 0,
           natives |-> {}, cancels |-> 0]

EgressInit ==
  /\ call = NoCall /\ heeds \in BOOLEAN
  /\ life = "open" /\ receipt = "none"

Answered == call.at = "answered"
Becomes(c) == call' = c /\ UNCHANGED <<heeds, life, receipt>>
-----------------------------------------------------------------------------
(***************************************************************************)
(* Abort                                                                   *)
(***************************************************************************)
Settled(c, how) ==
  IF c.race = "open" /\ c.at # "answered" THEN [c EXCEPT !.race = how] ELSE c

\* What controller.abort() and reader.cancel() leave of the body.
Released(c) ==
  CASE c.body = "open" /\ heeds -> "errored"
    [] c.body = "open" /\ ~ heeds /\ c.at = "reading" -> "cancelled"
    [] OTHER -> c.body

\* The signal is aborted and the reader cancelled, but nobody interrupted.
AbortsQuietly(c) ==
  IF c.at = "answered" THEN c
  ELSE [c EXCEPT !.aborted = TRUE, !.body = Released(c),
                 !.cancels = @ + (IF c.at = "reading" THEN 1 ELSE 0)]

\* The transport's abort(): the race that is open loses to the interruption.
Abort(c) ==
  IF c.at = "answered" THEN c
  ELSE [Settled(c, "interrupted") EXCEPT
          !.aborted = TRUE, !.body = Released(c),
          !.cancels = @ + (IF c.at = "reading" THEN 1 ELSE 0)]

Ends(c, answer) ==
  [c EXCEPT !.at = "answered", !.race = "open", !.answer = answer,
            !.timer = IF @ = "armed" THEN "cleared" ELSE @]

\* The catch and finally blocks: a timeout outranks every other failure.
Fails(c, code) ==
  Ends(Abort(c), IF c.timer = "fired" THEN "timeout" ELSE code)
-----------------------------------------------------------------------------
(***************************************************************************)
(* The transport                                                           *)
(***************************************************************************)

\* A closed scope refuses the operation; limits that are none end it at once.
Begin ==
  /\ call.at = "new" /\ life = "open"
  /\ \/ Becomes([call EXCEPT !.at = "fetching", !.timer = "armed",
                             !.natives = {"fetch"}])
     \/ Becomes(Ends(call, "transport_failure"))

\* reader.read(): a stream that is over answers at once and is heard before
\* the interruption, any other read of an aborted call loses to it unless a
\* chunk was waiting.
NextRead(c) ==
  CASE c.body = "errored" -> {[c EXCEPT !.race = "error"]}
    [] c.body = "cancelled" -> {[c EXCEPT !.race = "end"]}
    [] c.body = "open" /\ c.aborted ->
         {[c EXCEPT !.race = "interrupted", !.natives = @ \cup {"read"}],
          [c EXCEPT !.race = "chunk"],
          [c EXCEPT !.race = "end", !.body = "ended"]}
    [] OTHER -> {[c EXCEPT !.race = "open", !.natives = @ \cup {"read"}]}

\* The head: redirected, too large, without its cookies, or accepted.
HeadArrives ==
  /\ call.at = "fetching" /\ call.race = "response"
  /\ \/ \E code \in Failures : Becomes(Fails(call, code))
     \/ /\ call.body \in {"none", "discarded"}
        /\ Becomes(Ends(call, "response"))
     \/ /\ call.body \in {"open", "errored"}
        /\ \E c \in NextRead([call EXCEPT !.at = "reading"]) : Becomes(c)

BytesArrive(bytes) ==
  /\ call.race = "chunk"
  /\ IF call.total + bytes > MaxResponse
       THEN Becomes(Fails(call, "response_too_large"))
       ELSE \E c \in NextRead([call EXCEPT !.total = @ + bytes]) : Becomes(c)

BodyEnds == call.race = "end" /\ Becomes(Ends(call, "response"))

RaceLost ==
  /\ call.race \in {"error", "interrupted"}
  /\ Becomes(Fails(call, "transport_failure"))

\* A timer is a task of its own: no reaction is pending when it fires.
RequestTimesOut ==
  /\ call.timer = "armed"
  /\ call.race = "open"
  /\ Becomes(Abort([call EXCEPT !.timer = "fired"]))
-----------------------------------------------------------------------------
(***************************************************************************)
(* Native events                                                           *)
(***************************************************************************)

\* The fetch fails, or responds: to an open scope, or to one that closed
\* meanwhile, for which the body is discarded before anybody is told.
FetchSettles ==
  LET c == [call EXCEPT !.natives = @ \ {"fetch"}]
      body == IF heeds /\ call.aborted THEN "errored" ELSE "open"
  IN  /\ "fetch" \in call.natives
      /\ \/ Becomes(Settled(c, "error"))
         \/ Becomes(Settled(c, "response"))
         \/ /\ life = "open"
            /\ Becomes(Settled([c EXCEPT !.body = body], "response"))
         \/ /\ life = "closed"
            /\ Becomes([c EXCEPT !.body = "discarded",
                                 !.natives = @ \cup {"discard"}])

Discarded ==
  /\ "discard" \in call.natives
  /\ Becomes(Settled([call EXCEPT !.natives = @ \ {"discard"}], "response"))

\* Of a body that is over, a pending read is answered accordingly.
ReadSettles ==
  LET c == [call EXCEPT !.natives = @ \ {"read"}]
  IN  /\ "read" \in call.natives
      /\ \/ call.body = "open" /\ Becomes(Settled(c, "chunk"))
         \/ /\ call.body = "open"
            /\ Becomes(Settled([c EXCEPT !.body = "ended"], "end"))
         \/ /\ call.body = "open"
            /\ Becomes(Settled([c EXCEPT !.body = "errored"], "error"))
         \/ call.body = "cancelled" /\ Becomes(Settled(c, "end"))
         \/ call.body = "errored" /\ Becomes(Settled(c, "error"))

ReaderCancelled ==
  /\ call.cancels > 0
  /\ Becomes([call EXCEPT !.cancels = @ - 1])
-----------------------------------------------------------------------------
(***************************************************************************)
(* The scope and its owner                                                 *)
(***************************************************************************)

\* scope.operation asks its resource to abort once, and only while it is open.
AbortOperation(c) ==
  IF c.at = "new" \/ c.asked THEN c ELSE Abort([c EXCEPT !.asked = TRUE])

\* The caller gives this one operation up.
OperationAborted ==
  /\ call.at \in {"fetching", "reading"} /\ ~ call.asked
  /\ Becomes(AbortOperation(call))

ScopeAborts ==
  /\ life = "open"
  /\ life' = "closed"
  /\ call' = AbortOperation(call)
  /\ UNCHANGED <<heeds, receipt>>

ScopeSettles ==
  /\ life = "closed" /\ receipt = "none"
  /\ receipt' = "draining"
  /\ UNCHANGED <<call, heeds, life>>

Drained == call.natives = {} /\ call.cancels = 0 /\ call.at \in {"new", "answered"}

Receipt ==
  /\ receipt = "draining"
  /\ \/ Drained /\ receipt' = "clean"
     \/ receipt' = "uncertain"
  /\ UNCHANGED <<call, heeds, life>>

EgressNext ==
  \/ Begin \/ HeadArrives \/ (\E bytes \in 0 .. MaxResponse + 1 : BytesArrive(bytes))
  \/ BodyEnds \/ RaceLost \/ RequestTimesOut
  \/ FetchSettles \/ Discarded \/ ReadSettles \/ ReaderCancelled
  \/ OperationAborted \/ ScopeAborts \/ ScopeSettles \/ Receipt
-----------------------------------------------------------------------------
(***************************************************************************)
(* Properties                                                              *)
(***************************************************************************)
EgressTypeOK ==
  /\ heeds \in BOOLEAN /\ life \in {"open", "closed"}
  /\ receipt \in {"none", "draining", "clean", "uncertain"}
  /\ call \in [at : {"new", "fetching", "reading", "answered"},
               answer : {"none", "response", "timeout"} \cup Failures,
               timer : {"none", "armed", "fired", "cleared"},
               aborted : BOOLEAN, asked : BOOLEAN,
               race : {"open", "response", "chunk", "end", "error", "interrupted"},
               body : {"none", "open", "ended", "cancelled", "errored", "discarded"},
               total : 0 .. MaxResponse,
               natives : SUBSET {"fetch", "read", "discard"},
               cancels : 0 .. 3]

\* A response the application gets has the whole body the server sent: a late
\* response whose body was discarded, or one that was cancelled while it was
\* read, never passes for a short one.  (A Fetch that ignores its signal breaks
\* the second half: a cancelled reader ends as if the body did.)
ResponsesAreWhole ==
  call.answer = "response" =>
    \/ call.body \in {"none", "ended"}
    \/ call.body = "cancelled" /\ ~ heeds

\* A call nobody interrupted has its timer, and one that timed out says so.
CallsAreTimed ==
  /\ call.at \in {"fetching", "reading"} /\ call.race = "open" =>
       call.timer = "armed" /\ ~ call.aborted
  /\ Answered /\ call.timer = "fired" => call.answer = "timeout"

\* After a clean receipt the call is over, nothing native is under way or will
\* ever start, and the body was read, cancelled, or its fetch aborted.
CleanLeavesNothing ==
  receipt = "clean" /\ call.at # "new" =>
    /\ Answered /\ call.natives = {} /\ call.cancels = 0 /\ call.timer # "armed"
    /\ call.body = "open" => call.aborted

\* What a request leaves behind and what it tells, whenever it is aborted.
EgressSafety == ResponsesAreWhole /\ CallsAreTimed /\ CleanLeavesNothing
=============================================================================
