-------------------------- MODULE HostApplication --------------------------
(***************************************************************************)
(* startApplication of lenso-cli: an application behind its native owner.  *)
(* It is started, inspected and stopped by messages that travel inside the *)
(* frames of OwnedProcess.                                                 *)
(*                                                                         *)
(* The requests are the start, the stop and the inspections; the pages of  *)
(* an inspection are asked for one after the other under its name.  The    *)
(* map `pending` and the promises are told apart: a request whose send     *)
(* throws is rejected and stays in the map.  The application answers a     *)
(* request by its id; stop() also ends its wait with the terminal message, *)
(* and what it then reads as the shutdown is left out.  Messages that      *)
(* nobody listens to, or that answer nothing, are no steps.                *)
(***************************************************************************)
EXTENDS OwnedProcess, FiniteSets

CONSTANTS
  Inspections,      \* the calls of inspect()
  Revisions,        \* the revisions an application may report
  MaxOutstanding    \* the bound on requests an inspection may add to: 8

ASSUME InspectionsAssumption ==
  IsFiniteSet(Inspections) /\ {"start", "stop"} \cap Inspections = {}
ASSUME RevisionsAssumption == "none" \notin Revisions
ASSUME OutstandingAssumption == MaxOutstanding \in Nat \ {0}

Requests == {"start", "stop"} \cup Inspections

VARIABLES
  app,          \* how far startApplication is
  listening,    \* its listener is registered with the process
  notified,     \* the listeners were told of the process's outcome
  startTimer,   \* the timer of the start is armed
  revision,     \* what the last ready message said
  started,      \* the revision of the started message
  pending,      \* the ids the map holds
  request,      \* the promise of each request
  receipt,      \* the shutdown the promise `terminal` is resolved with
  stopCall,     \* how far stop() is
  closed        \* the application's `closed` is resolved

appVars == <<app, listening, notified, startTimer, revision, started, pending,
             request, receipt, stopCall, closed>>
vars == <<processVars, appVars>>
lifeVars == <<app, startTimer, stopCall, closed>>
listenVars == <<listening, notified>>

Init ==
  /\ ProcessInit
  /\ app = "launching"
  /\ listening = FALSE
  /\ notified = FALSE
  /\ startTimer = FALSE
  /\ revision = "none"
  /\ started = "none"
  /\ pending = {}
  /\ request = [q \in Requests |-> "idle"]
  /\ receipt = "none"
  /\ stopCall = "none"
  /\ closed = FALSE

\* request(): the promise is in the map before the message is sent.
Ask(q) ==
  /\ pending' = pending \cup {q}
  /\ request' = [request EXCEPT ![q] = IF Sendable THEN "waiting"
                                       ELSE "rejected"]

\* failAll(): nobody who is in the map waits any more.
FailNone == UNCHANGED <<pending, request>>
FailAll ==
  /\ pending' = {}
  /\ request' = [q \in Requests |->
                   IF q \in pending /\ request[q] = "waiting" THEN "rejected"
                   ELSE request[q]]

ProcessStep == ProcessNext /\ UNCHANGED appVars
-----------------------------------------------------------------------------
(***************************************************************************)
(* The start                                                               *)
(***************************************************************************)

\* The launch is over: the listener is registered and the start is sent, which
\* throws when the process is already on its way out (and leaves a promise of
\* the start that nobody awaits).
Launched ==
  /\ app = "launching"
  /\ owned = "resolved"
  /\ listening' = TRUE
  /\ Ask("start")
  /\ app' = IF Sendable THEN "starting" ELSE "failed"
  /\ startTimer' = Sendable
  /\ UNCHANGED <<processVars, notified, revision, started, receipt, stopCall,
                 closed>>

LaunchFails ==
  /\ app = "launching"
  /\ owned = "rejected"
  /\ app' = "failed"
  /\ UNCHANGED <<processVars, listenVars, startTimer, revision, started,
                 pending, request, receipt, stopCall, closed>>

\* startup timed out; failing it a second time changes nothing.
StartTimeout ==
  /\ startTimer
  /\ startTimer' = FALSE
  /\ FailAll
  /\ UNCHANGED <<processVars, listenVars, app, revision, started, receipt,
                 stopCall, closed>>

\* The start is given up: the process is stopped first.
GiveUp == app' = "failing" /\ StopProcess

\* The started message has to name the revision of the last ready one.
ReadinessComplete == started # "none" /\ started = revision

StartResolves ==
  /\ app = "starting"
  /\ request["start"] \in {"answered", "rejected"}
  /\ IF request["start"] = "answered" /\ ReadinessComplete
     THEN app' = "started" /\ UNCHANGED processVars
     ELSE GiveUp
  /\ startTimer' = FALSE
  /\ UNCHANGED <<listenVars, revision, started, pending, request, receipt,
                 stopCall, closed>>

\* startApplication rejects when the process it stopped is closed.
StartFails ==
  /\ app = "failing"
  /\ notified
  /\ app' = "failed"
  /\ UNCHANGED <<processVars, listenVars, startTimer, revision, started,
                 pending, request, receipt, stopCall, closed>>
-----------------------------------------------------------------------------
(***************************************************************************)
(* Messages of the application                                             *)
(***************************************************************************)

Heard == Reading /\ listening

Ready ==
  /\ Heard
  /\ revision' \in Revisions
  /\ UNCHANGED <<processVars, listenVars, lifeVars, started, pending, request,
                 receipt>>

\* A request is answered, or rejected, by its id: a stop with any kind of message
\* that is not terminal.
Answer(q) ==
  /\ Heard
  /\ q \in pending
  /\ pending' = pending \ {q}
  /\ \/ request' = [request EXCEPT ![q] = "answered"]
        /\ IF q = "start" THEN started' \in Revisions \cup {"none"}
           ELSE UNCHANGED started
     \/ request' = [request EXCEPT ![q] = "rejected"] /\ UNCHANGED started
  /\ UNCHANGED <<processVars, listenVars, lifeVars, revision, receipt>>

\* The first terminal message stays.
ApplicationTerminal ==
  /\ Heard
  /\ receipt = "none"
  /\ receipt' \in {"suspended", "failed"}
  /\ UNCHANGED <<processVars, listenVars, lifeVars, revision, started, pending,
                 request>>

BadEnvelope ==
  /\ Heard
  /\ FailAll
  /\ UNCHANGED <<processVars, listenVars, lifeVars, revision, started, receipt>>

\* The process is closed: its listeners get a terminal message of its making.
ReceiptOnlyIfAsked == IF stopCall = "asking" /\ receipt = "none" THEN "failed"
                      ELSE receipt
ReceiptAtClose == IF listening /\ receipt = "none" THEN "failed" ELSE receipt

ProcessClosed ==
  /\ Terminal /\ ~notified
  /\ notified' = TRUE
  /\ receipt' = ReceiptAtClose
  /\ UNCHANGED <<processVars, listening, lifeVars, revision, started, pending,
                 request>>
-----------------------------------------------------------------------------
(***************************************************************************)
(* The handle                                                              *)
(***************************************************************************)

\* inspect() asks for a page, unless too many requests are outstanding.
AskPage(i) ==
  IF Cardinality(pending) < MaxOutstanding THEN Ask(i)
  ELSE /\ request' = [request EXCEPT ![i] = "rejected"]
       /\ UNCHANGED pending

Inspect(i) ==
  /\ app = "started"
  /\ stopCall = "none"
  /\ request[i] = "idle"
  /\ AskPage(i)
  /\ UNCHANGED <<processVars, listenVars, lifeVars, revision, started, receipt>>

\* A page was answered: there is another, or the inspection is complete.
PageArrives(i) ==
  /\ request[i] = "answered"
  /\ \/ AskPage(i)
     \/ request' = [request EXCEPT ![i] = "complete"] /\ UNCHANGED pending
  /\ UNCHANGED <<processVars, listenVars, lifeVars, revision, started, receipt>>

\* stop(), however often it is called, asks the application once ...
Stop ==
  /\ app = "started"
  /\ stopCall = "none"
  /\ stopCall' = "asking"
  /\ Ask("stop")
  /\ UNCHANGED <<processVars, listenVars, app, startTimer, closed, revision,
                 started, receipt>>

\* ... waits for an answer or for the terminal message, a rejection making no
\* difference, and stops the process ...
StopProceeds ==
  /\ stopCall = "asking"
  /\ receipt # "none" \/ request["stop"] = "answered"
  /\ stopCall' = "closing"
  /\ StopProcess
  /\ UNCHANGED <<listenVars, app, startTimer, closed, revision, started,
                 pending, request, receipt>>

\* ... until it is closed.
StopReturns ==
  /\ stopCall = "closing"
  /\ notified
  /\ stopCall' = "done"
  /\ listening' = FALSE
  /\ FailAll
  /\ UNCHANGED <<processVars, notified, app, startTimer, closed, revision,
                 started, receipt>>

\* The application's own `closed`: terminal message and outcome are both there.
Close ==
  /\ app = "started"
  /\ ~closed
  /\ receipt # "none" /\ notified
  /\ closed' = TRUE
  /\ listening' = FALSE
  /\ FailAll
  /\ UNCHANGED <<processVars, notified, app, startTimer, stopCall, revision,
                 started, receipt>>

Next ==
  \/ ProcessStep
  \/ Launched \/ LaunchFails \/ StartTimeout \/ StartResolves \/ StartFails
  \/ Ready \/ (\E q \in Requests : Answer(q))
  \/ ApplicationTerminal \/ BadEnvelope \/ ProcessClosed
  \/ (\E i \in Inspections : Inspect(i) \/ PageArrives(i))
  \/ Stop \/ StopProceeds \/ StopReturns \/ Close

\* Timers fire and promise reactions run; nothing makes the owner or the
\* application speak.
Fairness ==
  /\ WF_vars(StartupTimeout /\ UNCHANGED appVars)
  /\ WF_vars(CleanupTimeout /\ UNCHANGED appVars)
  /\ WF_vars(StartTimeout)
  /\ WF_vars(Launched \/ LaunchFails \/ StartResolves \/ StartFails)
  /\ WF_vars(ProcessClosed)
  /\ WF_vars(StopProceeds \/ StopReturns)
  /\ WF_vars(Close)

Spec == Init /\ [][Next]_vars /\ Fairness
-----------------------------------------------------------------------------
(***************************************************************************)
(* Properties                                                              *)
(***************************************************************************)

\* Every variable keeps its type; the map never holds more than the inspections
\* may fill and a stop beside them.
TypeOK ==
  /\ ProcessTypeOK
  /\ app \in {"launching", "starting", "started", "failing", "failed"}
  /\ {listening, notified, startTimer, closed} \subseteq BOOLEAN
  /\ revision \in Revisions \cup {"none"}
  /\ started \in Revisions \cup {"none"}
  /\ pending \subseteq Requests
  /\ Cardinality(pending \ {"stop"}) <= MaxOutstanding
  /\ request \in [Requests ->
                    {"idle", "waiting", "answered", "rejected", "complete"}]
  /\ receipt \in {"none", "suspended", "failed"}
  /\ stopCall \in {"none", "asking", "closing", "done"}

\* Once the handle reports that the application is closed or stopped, nobody is
\* left waiting for an answer of it: not a page asked for in between, nor one
\* asked for later.
NobodyLeftWaiting ==
  closed \/ stopCall = "done" => \A q \in Requests : request[q] # "waiting"

\* A start that failed leaves no application running unattended: its owner was
\* told to clean up, or is gone.
NoneUnattended == app \in {"failing", "failed"} => stopping \/ Terminal

\* Neither a caller nor a process is forgotten, whatever fails first.
Safety == TypeOK /\ NobodyLeftWaiting /\ NoneUnattended

\* The start is answered even if the owner or the application never speaks.
StartAnswers ==
  app \in {"launching", "starting", "failing"} ~> app \in {"started", "failed"}

\* When the process is stopped, breaks or ends, at whatever moment, everyone who
\* holds the application learns of it: `closed` resolves and stop() returns.
EndReachesEveryone ==
  stopping \/ Terminal
    ~> app = "failed" \/ (closed /\ stopCall \in {"none", "done"})
=============================================================================
