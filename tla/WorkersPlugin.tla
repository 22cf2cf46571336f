---------------------------- MODULE WorkersPlugin ----------------------------
(***************************************************************************)
(* One source-first plugin instance inside a Workers isolate (plugin.mjs): *)
(* its preparation, its requests, the streams it opens and its stop.  A    *)
(* stream is three layers, each with its own flags, and all three are here *)
(* because the release of a stream depends on their agreement:             *)
(*   - the provider's asynchronous iterator, which answers calls in order; *)
(*   - the generated lowering of the iterator (contract-runtime stream.ts),*)
(*     whose `closed` promise is the receipt of physical cleanup;          *)
(*   - the session handed to the caller (plugin-stream.mjs), which leaves  *)
(*     `sessions` once the receipt came and no action is in flight, or     *)
(*     makes the whole instance unconfirmed.                               *)
(* A microtask between the settlement of a promise and its reaction is a   *)
(* step of its own: a cancellation may come between the two.               *)
(***************************************************************************)
EXTENDS Integers, Sequences, FiniteSets

CONSTANTS Streams,        \* stream opens that may happen
          Requests,       \* requests that may happen
          MaxOpenStreams, \* maxOpenStreams
          MaxRequests,    \* definition.maxConcurrentRequests
          CleanupTurns    \* yields a finally block may still make (16)

ASSUME PluginAssumption ==
  /\ IsFiniteSet(Streams) /\ IsFiniteSet(Requests)
  /\ MaxOpenStreams \in Nat \ {0} /\ MaxRequests \in Nat \ {0}
  /\ CleanupTurns \in Nat

VARIABLES plugin,             \* preparation of the instance
          stream,             \* the three layers of every stream
          request,            \* life of every request
          stopping,           \* stop() passed its guards
          cleanupUnconfirmed, \* some receipt was rejected or missing
          hook                \* definition.stop: never called, running, returned

pluginVars == <<plugin, stream, request, stopping, cleanupUnconfirmed, hook>>

Receiving == {"no", "next", "closed", "message", "big", "terminal", "failed"}

StreamState ==
  [phase : {"idle", "opening", "cancelled", "open", "over"},
   held : BOOLEAN,                       \* in `sessions`
   aborted : BOOLEAN,                    \* call.cancelled
   cancelled : BOOLEAN, cancelling : BOOLEAN,
   receiving : Receiving, sending : {"no", "send", "closeSend"}, sendClosed : BOOLEAN,
   actions : 0..3,
   physical : BOOLEAN, released : BOOLEAN, uncertain : BOOLEAN,
   cut : BOOLEAN, finished : BOOLEAN,    \* the lowering's cancelled, finished
   cleanup : {"no", "running", "done", "failed"},
   closed : {"pending", "resolved", "rejected"},
   turns : 0..CleanupTurns,
   started : BOOLEAN, ended : BOOLEAN,   \* the iterator
   calls : Seq({"next", "return", "turn"})]

NewStream ==
  [phase |-> "idle", held |-> FALSE, aborted |-> FALSE, cancelled |-> FALSE,
   cancelling |-> FALSE, receiving |-> "no", sending |-> "no", sendClosed |-> FALSE,
   actions |-> 0, physical |-> FALSE, released |-> FALSE, uncertain |-> FALSE,
   cut |-> FALSE, finished |-> FALSE, cleanup |-> "no", closed |-> "pending",
   turns |-> 0, started |-> FALSE, ended |-> FALSE, calls |-> <<>>]

PluginInit ==
  /\ plugin = "creating"
  /\ stream = [s \in Streams |-> NewStream]
  /\ request = [r \in Requests |-> "idle"]
  /\ stopping = FALSE /\ cleanupUnconfirmed = FALSE
  /\ hook = "no"

opening == {s \in Streams : stream[s].phase \in {"opening", "cancelled"}}
sessions == {s \in Streams : stream[s].held}
pending == {r \in Requests : request[r] = "active"}

----------------------------------------------------------------------------
(* What the layers do to a stream x.                                       *)

\* A mistake: only an uncancelled stream is released.
ReleaseNever(x) == IF x.physical /\ x.actions = 0 /\ ~x.cancelled /\ ~x.uncertain /\ ~x.released
                   THEN [x EXCEPT !.released = TRUE, !.held = FALSE] ELSE x
release(x) ==
  IF x.physical /\ x.actions = 0 /\ ~x.uncertain /\ ~x.released
  THEN [x EXCEPT !.released = TRUE, !.held = FALSE] ELSE x

\* cancel of the lowering: return() is queued behind what the iterator does.
CancelLowering(x) ==
  IF x.cleanup # "no" THEN x
  ELSE IF x.finished THEN [x EXCEPT !.cut = TRUE, !.cleanup = "done"]
  ELSE [x EXCEPT !.cut = TRUE, !.cleanup = "running", !.calls = Append(@, "return")]

\* cancel of the session, which also aborts the call's own controller.
CancelSession(x) ==
  IF x.cancelled THEN x
  ELSE [CancelLowering(x) EXCEPT !.cancelled = TRUE, !.aborted = TRUE,
                                 !.cancelling = TRUE, !.actions = @ + 1]

Ended(x) == x.cancelled \/ x.aborted \/ x.released \/ x.uncertain

\* The iterator terminated: the receipt, once.
Finish(x) == [x EXCEPT !.finished = TRUE, !.ended = TRUE,
                       !.closed = IF @ = "pending" THEN "resolved" ELSE @]
Clean(x) == [Finish(x) EXCEPT !.cleanup = "done"]
Unclean(x) == [x EXCEPT !.cleanup = "failed", !.closed = IF @ = "pending" THEN "rejected" ELSE @]

\* The iterator answers the receive of the lowering.
AnswerNext(x, outcome) ==
  IF x.cut
  THEN [x EXCEPT !.receiving = IF outcome = "throw" THEN "failed" ELSE "closed",
                 !.ended = @ \/ outcome = "done"]
  ELSE CASE outcome = "done"  -> [Finish(x) EXCEPT !.receiving = "terminal"]
         [] outcome = "throw" -> [CancelLowering(x) EXCEPT !.receiving = "closed"]
         [] OTHER             -> [x EXCEPT !.receiving = outcome]

\* A mistake: return() answering is taken for the end of the iterator.
AnswerCleanupOnce(x, outcome) ==
  IF outcome = "throw" THEN Unclean(x) ELSE [Clean(x) EXCEPT !.ended = outcome = "done"]

\* The iterator answers the cleanup; finally blocks may still yield a while.
AnswerCleanup(x, outcome) ==
  CASE outcome = "done" -> Clean(x)
    [] outcome = "throw" -> Unclean(x)
    [] OTHER -> IF x.turns < CleanupTurns
                THEN [x EXCEPT !.turns = @ + 1, !.calls = Append(@, "turn")]
                ELSE Unclean(x)

\* The instance is unconfirmed as soon as one of its sessions is.
Become(s, x) ==
  /\ stream' = [stream EXCEPT ![s] = x]
  /\ cleanupUnconfirmed' = (cleanupUnconfirmed \/ x.uncertain)
  /\ UNCHANGED <<plugin, request, stopping, hook>>

----------------------------------------------------------------------------
(* Preparation.  Configuration, endpoints and routes are checked before    *)
(* create; what is created and cannot be bound is stopped again.           *)
CreateReturns ==
  /\ plugin = "creating"
  /\ \/ plugin' = "failed" /\ hook' = hook          \* refused, or create failed
     \/ plugin' = "ready" /\ hook' = hook
     \/ plugin' = "unbound" /\ hook' = "running"    \* cancelled or binder mismatch
  /\ UNCHANGED <<stream, request, stopping, cleanupUnconfirmed>>

InvokeRequest(r) ==
  /\ plugin = "ready" /\ request[r] = "idle"
  /\ request' = [request EXCEPT ![r] =
       IF stopping \/ cleanupUnconfirmed \/ Cardinality(pending) >= MaxRequests
       THEN "over" ELSE "active"]
  /\ UNCHANGED <<plugin, stream, stopping, cleanupUnconfirmed, hook>>

InvokeReturns(r) ==
  /\ request[r] = "active"
  /\ request' = [request EXCEPT ![r] = "over"]
  /\ UNCHANGED <<plugin, stream, stopping, cleanupUnconfirmed, hook>>

\* A mistake: opens under way do not count.
FullOfSessions == Cardinality(sessions) >= MaxOpenStreams
Full == Cardinality(sessions) + Cardinality(opening) >= MaxOpenStreams

OpenStream(s) ==
  /\ plugin = "ready" /\ stream[s].phase = "idle"
  /\ LET refused == stopping \/ cleanupUnconfirmed \/ stream[s].aborted \/ Full
     IN  Become(s, [stream[s] EXCEPT !.phase = IF refused THEN "over" ELSE "opening"])

\* The provider's answer: no stream, a stream, a stream cancelled meanwhile.
OpenReturns(s) ==
  LET x == stream[s]
      y == [x EXCEPT !.phase = "open", !.held = TRUE, !.started = TRUE]
  IN  /\ x.phase = "opening"
      /\ \/ Become(s, [x EXCEPT !.phase = "over"])
         \/ x.aborted /\ Become(s, [CancelSession(y) EXCEPT !.phase = "cancelled"])
         \/ ~x.aborted /\ Become(s, y)

\* A stream that brings no receipt cannot be owned: the instance is fenced.
OpenWithoutReceipt(s) ==
  /\ stream[s].phase = "opening"
  /\ stream' = [stream EXCEPT ![s].phase = "over", ![s].started = TRUE]
  /\ cleanupUnconfirmed' = TRUE
  /\ UNCHANGED <<plugin, request, stopping, hook>>

\* The open of a cancelled stream returns once its session is closed.
OpenGivesUp(s) ==
  /\ stream[s].phase = "cancelled"
  /\ stream[s].released \/ stream[s].uncertain
  /\ Become(s, [stream[s] EXCEPT !.phase = "over"])

\* The host cancels the scope of the call: at any time, seen by a session.
HostAborts(s) ==
  LET x == [stream[s] EXCEPT !.aborted = TRUE]
  IN  ~stream[s].aborted /\ Become(s, IF x.held THEN CancelSession(x) ELSE x)

Cancel(s) ==
  /\ stream[s].phase = "open" /\ ~stream[s].cancelled
  /\ Become(s, CancelSession(stream[s]))

----------------------------------------------------------------------------
(* The actions of a session.                                               *)
Receive(s) ==
  LET x == stream[s]
  IN  /\ x.phase = "open" /\ ~Ended(x) /\ x.receiving = "no"
      /\ Become(s, [x EXCEPT !.receiving = "next", !.actions = @ + 1,
                             !.calls = Append(@, "next")])

\* After its last answer an iterator answers done for ever.
IteratorAnswers(s) ==
  LET x == [stream[s] EXCEPT !.calls = Tail(@)]
      call == Head(stream[s].calls)
  IN  /\ stream[s].calls # <<>>
      /\ \E outcome \in (IF x.ended THEN {"done"} ELSE {"message", "big", "done", "throw"}) :
           Become(s, IF call = "next" THEN AnswerNext(x, outcome) ELSE AnswerCleanup(x, outcome))

\* A receive whose stream was cut waits for the receipt and then fails.
ReceiveSeesClosed(s) ==
  /\ stream[s].receiving = "closed" /\ stream[s].closed # "pending"
  /\ Become(s, [stream[s] EXCEPT !.receiving = "failed"])

ReceiveReturns(s) ==
  LET x == stream[s]
      y == IF x.receiving \in {"big", "failed"} /\ ~x.aborted THEN CancelSession(x) ELSE x
  IN  /\ x.receiving \in {"message", "big", "terminal", "failed"}
      /\ Become(s, release([y EXCEPT !.receiving = "no", !.actions = @ - 1]))

Send(s) ==
  LET x == stream[s]
  IN  /\ x.phase = "open" /\ ~Ended(x) /\ x.sending = "no" /\ ~x.sendClosed
      /\ \E a \in {"send", "closeSend"} : Become(s, [x EXCEPT !.sending = a, !.actions = @ + 1])

\* A server-output stream refuses what is sent and accepts the half close.
SendReturns(s) ==
  LET x == stream[s]
  IN  /\ x.sending # "no"
      /\ Become(s, release([x EXCEPT !.sending = "no", !.actions = @ - 1,
                                     !.sendClosed = x.sending = "closeSend"]))

\* The reaction of the session to the end of its own cancellation.
CancelSettles(s) ==
  LET x == [stream[s] EXCEPT !.cancelling = FALSE, !.actions = @ - 1]
  IN  /\ stream[s].cancelling /\ stream[s].cleanup \in {"done", "failed"}
      /\ Become(s, IF x.cleanup = "done" THEN release(x) ELSE [x EXCEPT !.uncertain = TRUE])

\* The reaction of the session to the receipt.
ClosedSettles(s) ==
  LET x == stream[s]
  IN  /\ x.held /\ ~x.physical /\ ~x.uncertain
      /\ \/ x.closed = "resolved" /\ Become(s, release([x EXCEPT !.physical = TRUE]))
         \/ x.closed = "rejected" /\ Become(s, [x EXCEPT !.uncertain = TRUE])

----------------------------------------------------------------------------
MayStop == /\ ~stopping
           /\ pending = {} /\ opening = {} /\ sessions = {}
           /\ ~cleanupUnconfirmed

Stop ==
  /\ plugin = "ready" /\ MayStop
  /\ stopping' = TRUE /\ hook' = "running"
  /\ UNCHANGED <<plugin, stream, request, cleanupUnconfirmed>>

HookReturns ==
  /\ hook = "running" /\ hook' = "returned"
  /\ UNCHANGED <<plugin, stream, request, stopping, cleanupUnconfirmed>>

React(s) == \/ OpenGivesUp(s) \/ ReceiveSeesClosed(s) \/ ReceiveReturns(s)
            \/ SendReturns(s) \/ CancelSettles(s) \/ ClosedSettles(s)

PluginNext ==
  \/ CreateReturns \/ Stop \/ HookReturns
  \/ \E r \in Requests : InvokeRequest(r) \/ InvokeReturns(r)
  \/ \E s \in Streams :
       \/ OpenStream(s) \/ OpenReturns(s) \/ OpenWithoutReceipt(s)
       \/ HostAborts(s) \/ Cancel(s)
       \/ Receive(s) \/ IteratorAnswers(s) \/ Send(s)
       \/ React(s)

\* Promise reactions run.  That a provider's iterator answers what it is
\* asked is an assumption on the plugin, stated only for liveness.
PluginFairness == \A s \in Streams : WF_pluginVars(React(s)) /\ WF_pluginVars(IteratorAnswers(s))

PluginSpec == PluginInit /\ [][PluginNext]_pluginVars /\ PluginFairness

----------------------------------------------------------------------------
PluginTypeOK ==
  /\ plugin \in {"creating", "ready", "unbound", "failed"}
  /\ stream \in [Streams -> StreamState]
  /\ request \in [Requests -> {"idle", "active", "over"}]
  /\ stopping \in BOOLEAN /\ cleanupUnconfirmed \in BOOLEAN
  /\ hook \in {"no", "running", "returned"}

\* The stop hook of the definition only ever runs when nothing of the instance
\* does: no request, no call of an iterator, and every iterator that was ever
\* handed out has terminated (plugin.mjs stop, plugin-stream.mjs release and
\* the receipt of stream.ts together).
StopFindsQuiet ==
  hook # "no" =>
    /\ pending = {} /\ opening = {}
    /\ \A s \in Streams : /\ stream[s].calls = <<>>
                          /\ stream[s].started => stream[s].ended

\* The iterators alive and the opens under way never exceed maxOpenStreams,
\* although a session counts until its release and an open until its answer.
AliveBounded ==
  Cardinality({s \in Streams : \/ stream[s].phase = "opening"
                               \/ stream[s].started /\ ~stream[s].ended}) <= MaxOpenStreams

\* A stream whose caller went away does not hold its place for ever: it is
\* released, or the instance says that it cannot tell.
AbortedLeaves ==
  \A s \in Streams : (stream[s].aborted /\ stream[s].held) ~> (~stream[s].held \/ cleanupUnconfirmed)
=============================================================================
