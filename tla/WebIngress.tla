----------------------------- MODULE WebIngress -----------------------------
(***************************************************************************)
(* One request through the streaming HTTP handler (http.mjs) and, when the *)
(* application answers 101, the WebSocket transport it becomes             *)
(* (websocket.mjs).  Both hold the same runner session and event scope;    *)
(* the runner is here only as its contract, which EventRunner implements:  *)
(* a session that is cancelled or reaches its deadline ends; its scope is  *)
(* aborted first; `closed` settles after the scope did, and fails when     *)
(* native work was still outstanding at the cleanup timeout.  The bytes of *)
(* chunks and frames are numbers, everything else about them is left out.  *)
(***************************************************************************)
EXTENDS Integers, Sequences, FiniteSets

CONSTANTS MaxBody,           \* maxResponseBodyBytes
          MaxMessage,        \* maxMessageBytes and maxResponseChunkBytes
          MaxQueuedMessages, \* frames that may wait for the application
          MaxQueuedBytes,
          MaxSession         \* bytes of all frames, both directions

ASSUME IngressAssumption ==
  /\ {MaxBody, MaxMessage, MaxQueuedMessages, MaxQueuedBytes, MaxSession} \subseteq Nat \ {0}

VARIABLES handler,     \* where the handler of the request is
          session,     \* the runner session
          ending,      \* how the session will settle once its scope has
          scopeClosed, \* scope.closed
          body,        \* the response stream
          socket       \* the WebSocket

ingressVars == <<handler, session, ending, scopeClosed, body, socket>>

Sizes == 0..(MaxMessage + 1)

NoBody == [state |-> "none", ended |-> FALSE, pull |-> "no", received |-> 0,
           complete |-> FALSE, observed |-> FALSE]

NoSocket == [live |-> FALSE, active |-> FALSE, closing |-> FALSE, sending |-> FALSE,
             inflight |-> 0, peerClosed |-> FALSE, queue |-> <<>>, queuedBytes |-> 0,
             transferred |-> 0, reading |-> "no", listening |-> FALSE, native |-> FALSE,
             tracked |-> FALSE, closeThrows |-> FALSE]

IngressInit ==
  /\ handler = "reading" /\ session = "none" /\ ending = "clean" /\ scopeClosed = FALSE
  /\ body = NoBody /\ socket = NoSocket

Over == session \in {"clean", "failed"}
Invocable == session = "open" /\ ~scopeClosed    \* else session.invoke throws

----------------------------------------------------------------------------
(* What happens to a socket w.                                             *)

\* A close the platform refuses ends the native operation.
close(w) == IF w.closing \/ ~w.live THEN w
            ELSE [w EXCEPT !.closing = TRUE, !.native = @ \/ w.closeThrows]

\* The abort closure of the native operation, if the scope admitted it, is gone
\* once the operation is over.
AbortNative(w) == IF w.native \/ ~w.tracked THEN w ELSE close(w)

fail(w) == IF w.active THEN [close(w) EXCEPT !.active = FALSE] ELSE w

\* Does w now need session.cancel()?
Failed(w) == w # socket /\ socket.active /\ ~w.active

\* The next frame enters the application, or its lease is gone.
Drain(w) ==
  IF ~w.active \/ w.queue = <<>> THEN [w EXCEPT !.sending = FALSE, !.inflight = 0]
  ELSE IF Invocable
  THEN [w EXCEPT !.sending = TRUE, !.inflight = Head(w.queue), !.queue = Tail(w.queue)]
  ELSE fail([w EXCEPT !.sending = FALSE, !.inflight = 0, !.queue = Tail(w.queue),
                      !.queuedBytes = @ - Head(w.queue)])

QueueFull(w) == Len(w.queue) + (IF w.sending THEN 1 ELSE 0) >= MaxQueuedMessages

enqueue(w, bytes) ==
  LET y == [w EXCEPT !.queuedBytes = @ + bytes, !.queue = Append(@, bytes)]
  IN  IF QueueFull(w) \/ bytes > MaxQueuedBytes - w.queuedBytes THEN fail(w)
      ELSE IF w.sending THEN y ELSE Drain(y)

OverBudget(w, bytes) == bytes > MaxMessage \/ bytes > MaxSession - w.transferred
Spend(w, bytes) == [w EXCEPT !.transferred = @ + bytes]

\* A step of the socket, with the cancellation of the session it may ask for.
SocketBecomes(w) ==
  /\ socket' = w
  /\ scopeClosed' = (scopeClosed \/ (Failed(w) /\ session = "open"))
  /\ UNCHANGED <<handler, session, ending, body>>

----------------------------------------------------------------------------
(* The runner.                                                             *)

\* The request's signal fires: the runner aborts the scope and arms a deadline.
RequestAborts ==
  /\ handler # "reading" /\ session \in {"none", "open"} /\ ~scopeClosed
  /\ scopeClosed' = TRUE /\ socket' = AbortNative(socket)
  /\ UNCHANGED <<handler, session, ending, body>>

\* The application is done, or a deadline abandons it: the scope is aborted.
SessionEnds ==
  /\ session = "open" /\ session' = "closing"
  /\ ending' \in {"clean", "failed"}
  /\ scopeClosed' = TRUE /\ socket' = AbortNative(socket)
  /\ UNCHANGED <<handler, body>>

\* The scope settled, or its cleanup timed out with the socket outstanding.
SessionSettles ==
  /\ session = "closing"
  /\ session' = IF socket.tracked /\ ~socket.native THEN "failed" ELSE ending
  /\ UNCHANGED <<handler, ending, scopeClosed, body, socket>>

----------------------------------------------------------------------------
(* The handler.                                                            *)

\* Leaving without a transfer aborts the scope and waits for it.
GiveUp == handler' = "cleaning" /\ scopeClosed' = TRUE /\ socket' = AbortNative(socket)

ReadBody ==
  /\ handler = "reading"
  /\ \/ handler' = "opening" /\ UNCHANGED <<scopeClosed, socket>>
     \/ GiveUp                                  \* head or body refused
  /\ UNCHANGED <<session, ending, body>>

OpenRejects ==
  /\ handler = "opening" /\ session' = "failed" /\ GiveUp
  /\ UNCHANGED <<ending, body>>

\* An ordinary head: its body is pulled, unless it must have none.
OpenStreams ==
  /\ handler = "opening" /\ session' = "open"
  /\ \/ handler' = "transferred" /\ body' = [NoBody EXCEPT !.state = "readable"]
        /\ UNCHANGED scopeClosed
     \/ handler' = "forbidden" /\ scopeClosed' = TRUE /\ UNCHANGED body
  /\ UNCHANGED <<ending, socket>>

OpenIsInvalid ==
  /\ handler = "opening" /\ session' = "open" /\ GiveUp
  /\ UNCHANGED <<ending, body>>

\* An authorized upgrade.  A scope that is closed, or has all the operations it
\* may have, refuses the native operation; the socket is accepted all the same,
\* and only a closed scope keeps its frames from being read.
AcceptedSocket(admitted, throws) ==
  [NoSocket EXCEPT !.live = TRUE, !.active = TRUE, !.listening = TRUE,
                   !.reading = IF scopeClosed THEN "done" ELSE "read",
                   !.tracked = admitted, !.closeThrows = throws]

\* The platform may refuse the response after that.
OpenUpgrades ==
  /\ handler = "opening" /\ session' = "open"
  /\ \E admitted \in {a \in BOOLEAN : scopeClosed => ~a}, throws \in BOOLEAN :
       \/ handler' = "transferred" /\ UNCHANGED scopeClosed
          /\ socket' = AcceptedSocket(admitted, throws)
       \/ handler' = "cleaning" /\ scopeClosed' = TRUE
          /\ socket' = [fail(AcceptedSocket(admitted, throws)) EXCEPT !.listening = FALSE]
  /\ UNCHANGED <<ending, body>>

ForbiddenBodyEnds ==
  /\ handler = "forbidden" /\ Over
  /\ \/ session = "clean" /\ handler' = "transferred" /\ UNCHANGED <<scopeClosed, socket>>
     \/ session = "failed" /\ GiveUp
  /\ UNCHANGED <<session, ending, body>>

Cleaned ==
  /\ handler = "cleaning" /\ handler' = "answered"
  /\ UNCHANGED <<session, ending, scopeClosed, body, socket>>

----------------------------------------------------------------------------
(* The response stream.                                                    *)
BodyBecomes(b) == body' = b /\ UNCHANGED <<handler, session, ending, scopeClosed, socket>>

\* error() of a stream that is no longer readable does nothing.
Errored(b) == [b EXCEPT !.ended = TRUE, !.pull = "no",
                        !.state = IF @ = "readable" THEN "errored" ELSE @]

PullFails ==
  /\ body' = Errored(body) /\ scopeClosed' = (scopeClosed \/ session = "open")
  /\ UNCHANGED <<handler, session, ending, socket>>

Pull ==
  /\ body.state = "readable" /\ body.pull = "no" /\ ~body.ended
  /\ IF Invocable THEN BodyBecomes([body EXCEPT !.pull = "read"]) ELSE PullFails

TooLarge(bytes) == bytes > MaxMessage \/ bytes > MaxBody - body.received

\* A chunk; one that is too large, a failure, or a stream the client left.
ChunkArrives(bytes) ==
  /\ body.pull = "read"
  /\ IF TooLarge(bytes) \/ body.state # "readable" THEN PullFails
     ELSE BodyBecomes([body EXCEPT !.pull = "no", !.received = @ + bytes])

\* The terminal read: the end is not shown before the session is closed.
TerminalArrives ==
  /\ body.pull = "read"
  /\ BodyBecomes([body EXCEPT !.pull = "end", !.complete = TRUE])

\* A mistake: the end is shown without waiting for the session.
ShowsEndAtOnce == TRUE
EndIsShown == session = "clean"

TerminalShown ==
  /\ body.pull = "end"
  /\ \/ EndIsShown /\ BodyBecomes([body EXCEPT !.pull = "no", !.ended = TRUE,
                                     !.state = IF @ = "readable" THEN "closed" ELSE @])
     \/ session = "failed" /\ PullFails

\* A mistake: a stream that waits for a chunk does not observe its session.
ObservesBetweenReads == body.pull = "no"
Observes == TRUE

\* The rejection of session.closed reaches the stream.
FailureShows ==
  /\ body.state # "none" /\ session = "failed" /\ ~body.observed /\ Observes
  /\ BodyBecomes([(IF body.ended THEN body ELSE [Errored(body) EXCEPT !.pull = body.pull])
                  EXCEPT !.observed = TRUE])

ClientCancels ==
  /\ body.state = "readable"
  /\ body' = [body EXCEPT !.state = "cancelled", !.ended = TRUE]
  /\ scopeClosed' = (scopeClosed \/ session = "open")
  /\ UNCHANGED <<handler, session, ending, socket>>

----------------------------------------------------------------------------
(* The socket.                                                             *)
MessageArrives(bytes) ==
  /\ socket.listening /\ socket.active /\ ~socket.peerClosed /\ ~scopeClosed
  /\ SocketBecomes(IF OverBudget(socket, bytes) THEN fail(socket)
                   ELSE enqueue(Spend(socket, bytes), bytes))

\* The application took the frame, or failed.
FrameTaken ==
  LET w == [socket EXCEPT !.queuedBytes = @ - socket.inflight]
  IN  /\ socket.sending
      /\ \/ SocketBecomes(Drain(w))
         \/ SocketBecomes(fail([w EXCEPT !.sending = FALSE, !.inflight = 0]))

PeerCloses(abnormal) ==
  LET w == [socket EXCEPT !.native = TRUE, !.peerClosed = TRUE]
  IN  /\ socket.listening /\ ~socket.peerClosed
      /\ SocketBecomes(IF ~w.active \/ scopeClosed THEN w
                       ELSE IF abnormal THEN fail(w) ELSE enqueue(w, 0))

SocketErrors ==
  /\ socket.listening /\ ~socket.peerClosed
  /\ SocketBecomes(fail([socket EXCEPT !.native = TRUE]))

\* A frame of the application: data, its end, a close, or nothing usable.
\* A socket that is closing takes no more data, unless it refused to close.
FrameArrives ==
  LET stop(w) == [w EXCEPT !.reading = "done"]
  IN  /\ socket.reading = "read"
      /\ IF ~socket.active \/ scopeClosed THEN SocketBecomes(stop(socket))
         ELSE \/ \E bytes \in Sizes :
                   \/ OverBudget(socket, bytes) /\ SocketBecomes(stop(fail(socket)))
                   \/ /\ ~OverBudget(socket, bytes) /\ socket.closing
                      /\ SocketBecomes(stop(fail(Spend(socket, bytes))))
                   \/ /\ ~OverBudget(socket, bytes) /\ (socket.closing => socket.closeThrows)
                      /\ SocketBecomes(Spend(socket, bytes))
              \/ SocketBecomes(stop(close(socket)))
              \/ SocketBecomes(close(socket))
              \/ SocketBecomes(stop(fail(socket)))

SocketCleanup ==
  /\ socket.listening /\ Over
  /\ socket' = [(IF session = "failed" THEN close(socket) ELSE socket)
                  EXCEPT !.active = FALSE, !.queue = <<>>, !.listening = FALSE]
  /\ UNCHANGED <<handler, session, ending, scopeClosed, body>>

IngressNext ==
  \/ RequestAborts \/ SessionEnds \/ SessionSettles
  \/ ReadBody \/ OpenRejects \/ OpenStreams \/ OpenIsInvalid \/ OpenUpgrades
  \/ ForbiddenBodyEnds \/ Cleaned
  \/ Pull \/ TerminalArrives \/ TerminalShown \/ FailureShows \/ ClientCancels
  \/ \E bytes \in Sizes : ChunkArrives(bytes) \/ MessageArrives(bytes)
  \/ FrameTaken \/ (\E abnormal \in BOOLEAN : PeerCloses(abnormal)) \/ SocketErrors
  \/ FrameArrives \/ SocketCleanup

\* An application that was shut down cleanly left no read unanswered.
CleanReadReturns ==
  session = "clean" /\ (TerminalArrives \/ \E bytes \in Sizes : ChunkArrives(bytes))

\* The runner has deadlines for sessions and for cleanup; promise reactions
\* run; the client keeps reading.  A read may hang, unless the shutdown of
\* the application was clean.
IngressFairness ==
  /\ WF_ingressVars(CleanReadReturns)
  /\ WF_ingressVars(SessionEnds) /\ WF_ingressVars(SessionSettles)
  /\ WF_ingressVars(Pull) /\ WF_ingressVars(TerminalShown) /\ WF_ingressVars(FailureShows)

IngressSpec == IngressInit /\ [][IngressNext]_ingressVars /\ IngressFairness

----------------------------------------------------------------------------
IngressTypeOK ==
  /\ handler \in {"reading", "opening", "forbidden", "transferred", "cleaning", "answered"}
  /\ session \in {"none", "open", "closing", "clean", "failed"}
  /\ ending \in {"clean", "failed"} /\ scopeClosed \in BOOLEAN
  /\ body \in [state : {"none", "readable", "closed", "errored", "cancelled"}, ended : BOOLEAN,
               pull : {"no", "read", "end"}, received : 0..MaxBody,
               complete : BOOLEAN, observed : BOOLEAN]
  /\ socket \in [live : BOOLEAN, active : BOOLEAN, closing : BOOLEAN, sending : BOOLEAN,
                 inflight : Nat, peerClosed : BOOLEAN, queue : Seq(Nat), queuedBytes : Nat,
                 transferred : Nat, reading : {"no", "read", "done"}, listening : BOOLEAN,
                 native : BOOLEAN, tracked : BOOLEAN, closeThrows : BOOLEAN]

\* A client that sees the regular end of a response body got all of it, and
\* the application behind it was shut down cleanly: a truncated response, a
\* failed shutdown or an unconfirmed cleanup show as an error.
TruncationShows == body.state = "closed" => body.complete /\ session = "clean"

\* A client that keeps reading is told the end, or an error, even when the
\* application hangs: the deadline of the session is enough.
ReaderIsAnswered == (body.state = "readable") ~> (body.state # "readable")

\* Every byte of the frames of a queue, told by its frame and its place there.
Waiting(queue) == {p \in (DOMAIN queue) \X Sizes : p[2] < queue[p[1]]}

\* What a slow application leaves in memory is bounded, the frame it is
\* reading included, and the byte counter accounts for exactly that.
SocketBounded ==
  /\ socket.transferred <= MaxSession
  /\ socket.active =>
       /\ Len(socket.queue) + (IF socket.sending THEN 1 ELSE 0) <= MaxQueuedMessages
       /\ socket.queuedBytes = socket.inflight + Cardinality(Waiting(socket.queue))
       /\ socket.queuedBytes <= MaxQueuedBytes
=============================================================================
