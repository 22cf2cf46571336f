----------------------------- MODULE BunStreams -----------------------------
(***************************************************************************)
(* One stream from a consumer plugin to a provider plugin.  The consumer's *)
(* Authoring V2 server opened it with lenso.stream.open for work that may  *)
(* be aborted; its session sends, receives and cancels by calls to the     *)
(* host, which relays every call to the provider's server.  The provider   *)
(* is behind the generated binding: it accepts the messages sent to it or  *)
(* fails, and its own messages come from an iterator, whose next() calls   *)
(* are answered in order.  A close of the sending side is a send without a *)
(* number, a half close a message without content: both are left out.      *)
(*                                                                         *)
(* A call to the host may fail at any time, before or after it was         *)
(* relayed, and the plugin may have several actions of one session under   *)
(* way.                                                                    *)
(***************************************************************************)
EXTENDS Naturals, Sequences, FiniteSets

CONSTANTS
  Sends, Receives,  \* the actions the consumer may start
  Messages,         \* how many messages the iterator has at most
  MaxOutbound       \* max_active_outbound_calls of the consumer

Actions == Sends \cup Receives

ASSUME StreamAssumption ==
  /\ IsFiniteSet(Actions) /\ Sends \cap Receives = {} /\ "cancel" \notin Actions
  /\ Messages \in Nat /\ MaxOutbound \in Nat \ {0}

VARIABLES
  \* the consumer's server
  parent,        \* the work the stream was opened for: "live" or "aborted"
  opening,       \* the open: "calling", "open", "refused"
  closed,        \* the session refuses further actions
  listed,        \* the session's cancel is in #outboundStreams
  cancelling,    \* the cancel call, shared by all who cancel
  sendSequence,  \* the sequence number of the next send
  action,        \* each action of the session
  answer,        \* what the plugin got for it
  \* the calls the host relays
  job,           \* each call: where it is and what it carries
  \* the provider's server
  entry,         \* the stream in #streams: "none", "open", "gone"
  nextSequence,  \* the sequence number it expects
  aborted,       \* the stream's context is aborted
  \* the provider behind its binding
  iterator,      \* "running" or "ended"
  left,          \* messages it still has
  waiting,       \* receives that wait for next(), in order
  \* history
  accepted,      \* the sequence numbers of the sends the provider accepted
  overlapped,    \* a send started while another was under way
  lost           \* a call to the host failed

streamVars == <<parent, opening, closed, listed, cancelling, sendSequence,
                action, answer, job, entry, nextSequence, aborted, iterator,
                left, waiting, accepted, overlapped, lost>>
consumerVars == <<parent, opening, closed, listed, cancelling, sendSequence,
                  action, answer>>
providerVars == <<entry, nextSequence, aborted, iterator, left, waiting>>
historyVars == <<accepted, overlapped, lost>>

Idle == [at |-> "none", sequence |-> 0, outcome |-> "none"]
Answered(outcome) == [at |-> "answered", sequence |-> 0, outcome |-> outcome]
Relaying(number) == [at |-> "host", sequence |-> number, outcome |-> "none"]
StreamOutcomes == {"none", "accepted", "message", "terminal", "failure",
             "violation", "exhausted", "error"}

StreamInit ==
  /\ parent = "live" /\ opening = "calling"
  /\ closed = FALSE /\ listed = FALSE /\ cancelling = "no"
  /\ sendSequence = 0
  /\ action = [a \in Actions |-> "idle"]
  /\ answer = [a \in Actions |-> "none"]
  /\ job = [a \in Actions \cup {"cancel"} |-> Idle]
  /\ entry = "none" /\ nextSequence = 0 /\ aborted = FALSE
  /\ iterator = "running" /\ left = Messages /\ waiting = <<>>
  /\ accepted = <<>> /\ overlapped = FALSE /\ lost = FALSE
-----------------------------------------------------------------------------
(***************************************************************************)
(* The consumer: open, abort, cancel                                       *)
(***************************************************************************)

\* The session ends for its plugin and is no longer listed for stop.
Finish == closed' = TRUE /\ listed' = FALSE

\* cancel() of the session: the first call closes the session and calls the
\* host, the others share its promise, and a session that is over ignores it.
CancelSession ==
  IF cancelling # "no" \/ closed
    THEN UNCHANGED <<closed, cancelling, job>>
    ELSE /\ closed' = TRUE
         /\ cancelling' = "calling"
         /\ job' = [job EXCEPT !["cancel"] = Relaying(0)]

Unaborted == UNCHANGED <<closed, cancelling, job>>
AbortedMeanwhile == IF parent = "aborted" THEN CancelSession ELSE Unaborted

\* The host answers the open.  The provider registered the stream before, and
\* the parent may have been aborted meanwhile.
Opened ==
  /\ opening = "calling"
  /\ opening' = "open"
  /\ entry' = "open"
  /\ listed' = TRUE
  /\ AbortedMeanwhile
  /\ UNCHANGED <<parent, sendSequence, action, answer, nextSequence, aborted,
                 iterator, left, waiting, historyVars>>

\* It is refused, or fails although the provider has opened it.
OpenRefused ==
  /\ opening = "calling"
  /\ opening' = "refused"
  /\ entry' \in {"none", "open"}
  /\ UNCHANGED <<parent, closed, listed, cancelling, sendSequence, action,
                 answer, job, nextSequence, aborted, iterator, left, waiting,
                 historyVars>>

\* The work is aborted; the listener of an open session cancels it.
ParentAborts ==
  /\ parent = "live"
  /\ parent' = "aborted"
  /\ IF opening = "open" THEN CancelSession ELSE Unaborted
  /\ UNCHANGED <<opening, listed, sendSequence, action, answer, providerVars,
                 historyVars>>

\* The plugin, or the stop of its server, cancels the session.
PluginCancels ==
  /\ opening = "open"
  /\ cancelling = "no" /\ ~ closed
  /\ CancelSession
  /\ UNCHANGED <<parent, opening, listed, sendSequence, action, answer,
                 providerVars, historyVars>>

\* The cancel call returns; without a confirmation the session stays listed.
CancelReturns ==
  /\ cancelling = "calling"
  /\ job["cancel"].at = "answered"
  /\ IF job["cancel"].outcome = "accepted"
       THEN cancelling' = "confirmed" /\ Finish
       ELSE cancelling' = "unconfirmed" /\ UNCHANGED <<closed, listed>>
  /\ job' = [job EXCEPT !["cancel"] = Idle]
  /\ UNCHANGED <<parent, opening, sendSequence, action, answer, providerVars,
                 historyVars>>

CancelFails ==
  /\ cancelling = "calling"
  /\ cancelling' = "unconfirmed"
  /\ lost' = TRUE
  /\ UNCHANGED <<parent, opening, closed, listed, sendSequence, action, answer,
                 job, providerVars, accepted, overlapped>>
-----------------------------------------------------------------------------
(***************************************************************************)
(* The consumer: send and receive                                          *)
(***************************************************************************)
Outbound == {a \in Actions : action[a] = "calling"}
UnderWay(s) == action[s] = "calling" \/ job[s].at \in {"host", "serving"}

\* An action is refused at once when the session is closed or too many calls to
\* the host are under way ...
Start(a) ==
  /\ opening = "open"
  /\ action[a] = "idle"
  /\ IF closed \/ Cardinality(Outbound) >= MaxOutbound
       THEN /\ action' = [action EXCEPT ![a] = "done"]
            /\ answer' = [answer EXCEPT
                            ![a] = IF closed THEN "violation" ELSE "exhausted"]
            /\ UNCHANGED job
       ELSE /\ action' = [action EXCEPT ![a] = "calling"]
            /\ job' = [job EXCEPT ![a] = Relaying(sendSequence)]
            /\ UNCHANGED answer
  /\ UNCHANGED <<parent, opening, closed, listed, cancelling, sendSequence,
                 providerVars, accepted, lost>>

\* ... and a send takes the sequence number of the next one.
StartSend(s) ==
  /\ Start(s)
  /\ overlapped' = (overlapped \/ \E t \in Sends : UnderWay(t))

StartReceive(r) == Start(r) /\ UNCHANGED overlapped

\* The answer of an action: a runtime failure ends the session, and so does the
\* end of the stream; an error of the call itself does not.
EndsWell(outcome) == outcome = "terminal"
EndsSession(outcome) == outcome \in {"terminal", "failure", "violation"}
CallReturns(a) ==
  LET outcome == job[a].outcome IN
  /\ action[a] = "calling"
  /\ job[a].at = "answered"
  /\ action' = [action EXCEPT ![a] = "done"]
  /\ answer' = [answer EXCEPT ![a] = outcome]
  /\ sendSequence' = IF outcome = "accepted" THEN sendSequence + 1
                                             ELSE sendSequence
  /\ IF EndsSession(outcome) THEN Finish ELSE UNCHANGED <<closed, listed>>
  /\ job' = [job EXCEPT ![a] = Idle]
  /\ UNCHANGED <<parent, opening, cancelling, providerVars, historyVars>>

\* The call fails for the consumer; the host may have relayed it or not.
CallFails(a) ==
  /\ action[a] = "calling"
  /\ action' = [action EXCEPT ![a] = "done"]
  /\ answer' = [answer EXCEPT ![a] = "error"]
  /\ lost' = TRUE
  /\ UNCHANGED <<parent, opening, closed, listed, cancelling, sendSequence,
                 job, providerVars, accepted, overlapped>>
-----------------------------------------------------------------------------
(***************************************************************************)
(* The provider's server                                                   *)
(***************************************************************************)
Reply(a, outcome) == job' = [job EXCEPT ![a] = Answered(outcome)]

NotAhead(s) == job[s].sequence <= nextSequence
InSequence(s) == job[s].sequence = nextSequence

\* A send must carry the expected number when it arrives.  A stream that is
\* unknown is a violation, another number an error.
SendArrives(s) ==
  /\ s \in Sends
  /\ job[s].at = "host"
  /\ CASE entry # "open" -> Reply(s, "violation")
       [] entry = "open" /\ ~ InSequence(s) -> Reply(s, "error")
       [] OTHER -> job' = [job EXCEPT ![s].at = "serving"]
  /\ UNCHANGED <<consumerVars, providerVars, historyVars>>

\* The provider accepts the message or fails; the number advances by then only.
SendServed(s) ==
  /\ s \in Sends
  /\ job[s].at = "serving"
  /\ \/ /\ Reply(s, "accepted")
        /\ nextSequence' = nextSequence + 1
        /\ accepted' = Append(accepted, job[s].sequence)
     \/ /\ Reply(s, "failure")
        /\ UNCHANGED <<nextSequence, accepted>>
  /\ UNCHANGED <<consumerVars, entry, aborted, iterator, left, waiting,
                 overlapped, lost>>

\* A receive asks the iterator; one whose lowering was cancelled has ended.  The
\* lowering the build writes refuses a receive while another waits, a session of
\* the provider's own may queue it.
ReceiveArrives(r) ==
  /\ r \in Receives
  /\ job[r].at = "host"
  /\ IF entry # "open"
       THEN Reply(r, "violation") /\ UNCHANGED waiting
       ELSE \/ /\ job' = [job EXCEPT ![r].at = "serving"]
               /\ waiting' = Append(waiting, r)
            \/ waiting # <<>> /\ Reply(r, "failure") /\ UNCHANGED waiting
  /\ UNCHANGED <<consumerVars, entry, nextSequence, aborted, iterator, left,
                 historyVars>>

\* The next waiting receive is answered: a message while there are some, then
\* the end; a failure once, after which the iterator has ended too.
ReceiveServed ==
  /\ waiting # <<>>
  /\ \E outcome \in {"message", "terminal", "failure"} :
       /\ outcome = "message" => iterator = "running" /\ left > 0
       /\ outcome = "failure" => iterator = "running"
       /\ outcome = "terminal" => iterator = "ended" \/ left = 0
       /\ left' = IF outcome = "message" THEN left - 1 ELSE left
       /\ iterator' = IF outcome = "message" THEN iterator ELSE "ended"
       /\ IF aborted THEN Reply(Head(waiting), "failure") /\ UNCHANGED entry
                     ELSE Reply(Head(waiting), outcome)
                          /\ entry' = IF outcome = "terminal" THEN "gone"
                                                               ELSE entry
  /\ waiting' = Tail(waiting)
  /\ UNCHANGED <<consumerVars, nextSequence, aborted, historyVars>>

\* A cancel aborts the stream's context and cancels the lowered iterator, which
\* has ended for whoever asks later ...
CancelArrives ==
  /\ job["cancel"].at = "host"
  /\ IF entry = "open"
       THEN aborted' = TRUE /\ iterator' = "ended"
       ELSE UNCHANGED <<aborted, iterator>>
  /\ job' = [job EXCEPT !["cancel"].at = "serving"]
  /\ UNCHANGED <<consumerVars, entry, nextSequence, left, waiting, historyVars>>

\* ... and the stream is forgotten when that is done; or that fails.
Removed == "gone"
CancelServed ==
  /\ job["cancel"].at = "serving"
  /\ \/ Reply("cancel", "accepted") /\ entry' = Removed
     \/ aborted /\ Reply("cancel", "error") /\ UNCHANGED entry
  /\ UNCHANGED <<consumerVars, nextSequence, aborted, iterator, left, waiting,
                 historyVars>>

StreamNext ==
  \/ Opened \/ OpenRefused \/ ParentAborts \/ PluginCancels
  \/ CancelReturns \/ CancelFails \/ CancelArrives \/ CancelServed
  \/ ReceiveServed
  \/ \E s \in Sends : StartSend(s) \/ SendArrives(s) \/ SendServed(s)
  \/ \E r \in Receives : StartReceive(r) \/ ReceiveArrives(r)
  \/ \E a \in Actions : CallReturns(a) \/ CallFails(a)

\* The host relays what it was given and the servers answer it.
StreamFairness ==
  /\ WF_streamVars(Opened \/ OpenRefused)
  /\ WF_streamVars(CancelArrives) /\ WF_streamVars(CancelServed)

StreamSpec == StreamInit /\ [][StreamNext]_streamVars /\ StreamFairness
-----------------------------------------------------------------------------
(***************************************************************************)
(* Properties                                                              *)
(***************************************************************************)
StreamTypeOK ==
  /\ parent \in {"live", "aborted"}
  /\ opening \in {"calling", "open", "refused"}
  /\ closed \in BOOLEAN /\ listed \in BOOLEAN
  /\ cancelling \in {"no", "calling", "confirmed", "unconfirmed"}
  /\ sendSequence \in 0 .. Cardinality(Sends)
  /\ action \in [Actions -> {"idle", "calling", "done"}]
  /\ answer \in [Actions -> StreamOutcomes]
  /\ \A j \in DOMAIN job :
       /\ job[j].at \in {"none", "host", "serving", "answered"}
       /\ job[j].sequence \in 0 .. Cardinality(Sends)
       /\ job[j].outcome \in StreamOutcomes
  /\ entry \in {"none", "open", "gone"}
  /\ nextSequence = Len(accepted) /\ aborted \in BOOLEAN
  /\ iterator \in {"running", "ended"} /\ left \in 0 .. Messages
  /\ \A i \in DOMAIN waiting : waiting[i] \in Receives

\* Both ends agree on the next sequence number whenever no send is under way and
\* no call failed, however the sends overlapped; and while they do not overlap,
\* the provider accepts every number once, in order, failed calls included.
SequencesAgree ==
  /\ ~ lost /\ (\A s \in Sends : action[s] # "calling")
       => sendSequence = nextSequence
  /\ ~ overlapped => accepted = [i \in 1 .. Len(accepted) |-> i - 1]

\* A failure ends the session for its plugin: no action starts after it was told
\* of one, although the iterator behind the stream has ended by then and would
\* answer a receive with the end of the stream.  Receives that were under way
\* already may still answer that end.
FailureIsFinal ==
  [][\A a, b \in Actions :
       answer[a] \in {"failure", "violation"} /\ action[b] = "idle"
         => action'[b] # "calling"]_streamVars

Quiet ==
  /\ cancelling # "calling" /\ \A a \in Actions : action[a] # "calling"
  /\ \A j \in DOMAIN job : job[j].at \notin {"host", "serving"}
ToldOfFailure == \E a \in Actions : answer[a] \in {"failure", "violation"}

\* A confirmed cancellation leaves nothing at the provider, and once nothing is
\* under way a stream the consumer has finished with is only left behind after
\* a failure or an unconfirmed cancellation.
FinishedIsForgotten ==
  /\ cancelling = "confirmed" => entry # "open"
  /\ closed /\ Quiet /\ entry = "open" =>
       cancelling = "unconfirmed" \/ ToldOfFailure

\* The two ends of a stream never disagree about where it stands.
StreamSafety == StreamTypeOK /\ SequencesAgree /\ FinishedIsForgotten

\* A stream opened for work that is aborted is cancelled, even if the abort came
\* while the open was under way: the provider is told, unless that call fails.
AbortReachesProvider ==
  parent = "aborted" /\ opening # "refused" ~>
    \/ opening = "refused" \/ entry = "gone" \/ cancelling = "unconfirmed"
    \/ aborted \/ \E a \in Actions : EndsSession(answer[a])
=============================================================================
