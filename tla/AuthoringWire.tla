---------------------------- MODULE AuthoringWire ----------------------------
(***************************************************************************)
(* The messages of Bun Authoring V2.  A chain of plugins calls each other  *)
(* through the host: every server builds its requests and its answers, and *)
(* the validators of the protocol read them on the other side.  What a     *)
(* plugin is answered by its client it returns as its own answer.          *)
(*                                                                         *)
(* A message is a record with the fields the code writes.  Identities are  *)
(* valid tokens, but for the ids of scopes, which servers build: such an   *)
(* id is the sequence of the lengths of its parts.  A text is what it says *)
(* and the widths of its characters in UTF-8.  The host is the protocol's  *)
(* other side: it checks what it reads with the validators, hands a child  *)
(* scope on as the scope of the callee, and may answer with any failure    *)
(* the protocol knows; what becomes of a request it refuses is not told.   *)
(***************************************************************************)
EXTENDS Integers, Sequences, SequencesExt

CONSTANTS
  ChainLength,      \* plugins in a chain
  MaxTime,      \* how long the chain is watched
  MaxBudget,    \* the budgets the host starts with
  TokenLimit,   \* characters of a token
  RootLengths,  \* lengths of the ids of scopes the host starts with
  PartLengths,  \* lengths of what a call adds to the id of its scope
  LongestPart,  \* a bound of these
  DetailLimit,  \* bytes of a detail
  Causes        \* the texts of errors, as sequences of widths

ASSUME WireAssumption ==
  ChainLength \in Nat \ {0} /\ MaxTime \in Nat /\ MaxBudget \in Nat
    /\ TokenLimit \in Nat /\ RootLengths \subseteq 1 .. TokenLimit
    /\ LongestPart \in Nat /\ PartLengths \subseteq 1 .. LongestPart
    /\ DetailLimit \in Nat \ {0} /\ Causes \subseteq Seq(1 .. 4)

VARIABLES
  entry,    \* how the plugins call each other, or "session"
  scopes,   \* the scope each plugin of the chain runs under
  started,  \* when it got it
  clock,    \* the time
  transit,  \* the time requests have spent on their way
  phase,     \* who acts next
  sent,     \* the last message on the wire
  origin,   \* the outcome that started on its way up, and who reads it first
  answer    \* what the client of the last plugin of the chain was answered

wireVars ==
  <<entry, scopes, started, clock, transit, phase, sent, origin, answer>>
chainVars == <<entry, scopes, started, clock, transit>>

Interactions == {"invoke", "event_publish", "stream_open"}
NoMessage == [kind |-> "nothing"]
Hop == Len(scopes)
-----------------------------------------------------------------------------
(***************************************************************************)
(* Texts and failures                                                      *)
(***************************************************************************)
Bytes(widths) ==
  LET upTo[n \in 0 .. Len(widths)] == IF n = 0 THEN 0 ELSE upTo[n - 1] + widths[n]
  IN  upTo[Len(widths)]
Text(says, widths) == [says |-> says, widths |-> widths]

\* What an object turns into as a string, and the name of a kind.
ObjectText == Text("object", <<1>>)
KindText == Text("kind", <<1>>)
EmptyText == Text("empty", <<1>>)

\* Cutting between characters.
CutBefore(widths) ==
  LET whole == {n \in 0 .. Len(widths) :
                  Bytes(SubSeq(widths, 1, n)) <= DetailLimit}
  IN  SubSeq(widths, 1, CHOOSE n \in whole : \A m \in whole : m <= n)

\* Cutting between bytes: the bytes of a character cut in two are decoded as
\* one replacement character, which has three bytes.
CutBytes(widths) ==
  LET kept == CutBefore(widths)
  IN  IF kept # widths /\ Bytes(kept) < DetailLimit
        THEN Append(kept, 3) ELSE kept

\* A detail is a text, or an object taken for one.
boundedError(value) ==
  LET text == IF "says" \in DOMAIN value THEN value ELSE ObjectText
      full == IF text.widths = <<>> THEN EmptyText ELSE text
  IN  Text(full.says, CutBytes(full.widths))

\* The fields of a failure of every kind, besides the kind.
FailureFields ==
  [unavailable |-> {"capability"}, protocol_violation |-> {"capability"},
   unknown_operation |-> {"capability", "operation"},
   resource_exhausted |-> {"capability", "operation"},
   ambiguous_binding |-> {"capability", "providers"},
   missing_plugin_factory |-> {"instance", "package_id"},
   unavailable_execution_class |-> {"instance_key", "execution_class"},
   invalid_resolved_plan |-> {"detail"}, internal |-> {"detail"},
   plugin_failure |-> {"detail"}, admission_closed |-> {},
   deadline_exceeded |-> {"request_id"}, cancelled |-> {"request_id"},
   plugin_restart_exhausted |-> {"instance", "attempts"}]
Kinds == DOMAIN FailureFields
Passed == {"cancelled", "deadline_exceeded", "resource_exhausted",
           "unknown_operation", "protocol_violation", "admission_closed"}

Detail(text) == Bytes(text.widths) \in 1 .. DetailLimit
FailureAccepted(failure) ==
  /\ failure.kind \in Kinds
  /\ DOMAIN failure = {"kind"} \cup FailureFields[failure.kind]
  /\ "detail" \in DOMAIN failure => Detail(failure.detail)

\* Failures of a kind as the protocol has them, and as a plugin may return them.
FailureOf(kind, text) ==
  [field \in {"kind"} \cup FailureFields[kind] |->
     CASE field = "kind" -> kind
       [] field = "detail" -> text
       [] OTHER -> "token"]
PluginFailures(text) ==
  {[kind |-> k, detail |-> text] : k \in Kinds} \cup {[kind |-> k] : k \in Kinds}

\* What a server puts on the wire for a failure its plugin returned.
normalizeRuntimeFailure(failure) ==
  IF failure.kind \in Passed
    THEN FailureOf(failure.kind, KindText)
    ELSE FailureOf("plugin_failure",
           boundedError(IF "detail" \in DOMAIN failure THEN failure.detail
                                                       ELSE KindText))
Abandoned(text) == FailureOf("plugin_failure", boundedError(text))
Failing(failure) == [kind |-> "runtime", failure |-> failure]
-----------------------------------------------------------------------------
(***************************************************************************)
(* Scopes                                                                  *)
(***************************************************************************)

\* A context that hands its budget down as it got it.
RemainingAtStart(hop) == scopes[hop].remaining_budget_nanos

\* A budget that is spent turns negative.
RemainingUnclamped(hop) ==
  scopes[hop].remaining_budget_nanos - (clock - started[hop])

Remaining(hop) ==
  LET left == scopes[hop].remaining_budget_nanos - (clock - started[hop])
  IN  IF left < 0 THEN 0 ELSE left

NoParent == <<>>
RootScope(budget, length) ==
  [scope_id |-> <<length>>, parent_scope_id |-> NoParent,
   remaining_budget_nanos |-> budget, permissions |-> "granted",
   extensions |-> "given"]

\* The id of a child continues its parent's by ":outbound:" and the number of
\* the call.
outboundScope(hop, added) ==
  [scope_id |-> Append(scopes[hop].scope_id, added),
   parent_scope_id |-> scopes[hop].scope_id,
   remaining_budget_nanos |-> Remaining(hop),
   permissions |-> scopes[hop].permissions,
   extensions |-> scopes[hop].extensions]

Token(id) == Bytes(id) \in 1 .. TokenLimit
ScopeAccepted(scope) ==
  /\ DOMAIN scope = {"scope_id", "parent_scope_id", "remaining_budget_nanos",
                     "permissions", "extensions"}
  /\ Token(scope.scope_id)
  /\ scope.parent_scope_id # NoParent => Token(scope.parent_scope_id)
  /\ scope.remaining_budget_nanos \in Nat

ChildAccepted(scope, parent) ==
  /\ ScopeAccepted(scope)
  /\ scope.parent_scope_id = parent.scope_id
  /\ scope.remaining_budget_nanos <= parent.remaining_budget_nanos
  /\ scope.permissions = parent.permissions
  /\ scope.extensions = parent.extensions
-----------------------------------------------------------------------------
(***************************************************************************)
(* What the validators accept                                              *)
(***************************************************************************)
Carried == [invoke |-> "payload", event_publish |-> "event",
            stream_open |-> "request"]

\* A request of a plugin, read with the scope of its caller.
OutboundAccepted(message, parent) ==
  /\ DOMAIN message = {"session", "correlation_id", "requirement_id",
                       "route_id", "operation", "scope", Carried[entry]}
  /\ ChildAccepted(message.scope, parent)

\* A request of the host, read by the server of the plugin it is for.
ProvidedAccepted(message) ==
  /\ DOMAIN message = {"session", "correlation_id", "endpoint_id",
                       "capability_id", "descriptor_version",
                       "descriptor_digest", "operation", "scope",
                       Carried[entry]}
  /\ ScopeAccepted(message.scope)

\* The fields of an outcome that is no failure, besides its kind.
CallOutcomes ==
  [invoke |-> [success |-> {"value"}, domain |-> {"error"}],
   event_publish |-> [accepted |-> {}],
   stream_open |-> [opened |-> {"stream_id"}, domain |-> {"error"}]]
ActionOutcomes == [accepted |-> {}]
ReceiveOutcomes ==
  [message |-> {"sequence", "message"}, peer_half_closed |-> {},
   terminal |-> {"outcome"}]
TerminalOutcomes == [success |-> {}, domain |-> {"error"}]

Plain(outcome, outcomes) ==
  /\ outcome.kind \in DOMAIN outcomes
  /\ DOMAIN outcome = {"kind"} \cup outcomes[outcome.kind]
Failed(outcome) ==
  /\ outcome.kind = "runtime"
  /\ DOMAIN outcome = {"kind", "failure"}
  /\ FailureAccepted(outcome.failure)

ResultAccepted(message) ==
  /\ DOMAIN message = {"session", "correlation_id", "outcome"}
  /\ Plain(message.outcome, CallOutcomes[entry]) \/ Failed(message.outcome)

StreamResultAccepted(message, outcomes) ==
  /\ DOMAIN message = {"session", "correlation_id", "stream_id", "outcome"}
  /\ \/ Plain(message.outcome, outcomes)
     \/ Failed(message.outcome)
  /\ message.outcome.kind = "terminal" =>
       Plain(message.outcome.outcome, TerminalOutcomes)

\* Every other message a server sends, with what is checked of its values.
Notices ==
  [constructed |-> {"session", "lifecycle_scope_id", "outcome"},
   cancel_ack |-> {"session", "scope_id", "correlation_id", "accepted"},
   settlement |-> {"session", "scope_id", "correlation_id", "state"},
   stopped |-> {"session", "cleanup_scope_id", "hook", "diagnostics"}]
NoticeAccepted(kind, message) ==
  /\ DOMAIN message = Notices[kind]
  /\ CASE kind = "constructed" ->
            \/ message.outcome = [kind |-> "constructed"]
            \/ /\ DOMAIN message.outcome = {"kind", "detail"}
               /\ message.outcome.kind = "failed"
               /\ Detail(message.outcome.detail)
       [] kind = "cancel_ack" -> message.accepted
       [] kind = "settlement" ->
            message.state \in {"completed", "cancelled", "abandoned"}
       [] kind = "stopped" ->
            /\ message.hook \in {"not_declared", "completed", "failed"}
            /\ \A i \in DOMAIN message.diagnostics :
                 /\ DOMAIN message.diagnostics[i] = {"code", "detail"}
                 /\ Detail(message.diagnostics[i].detail)
-----------------------------------------------------------------------------
(***************************************************************************)
(* What the servers build                                                  *)
(***************************************************************************)
OutboundRequest(hop, added) ==
  [field \in {"session", "correlation_id", "requirement_id", "route_id",
              "operation", "scope", Carried[entry]} |->
     IF field = "scope" THEN outboundScope(hop, added) ELSE "token"]

\* The host puts the endpoint's descriptor in the place of the route.
ProvidedRequest(scope) ==
  [field \in {"session", "correlation_id", "endpoint_id", "capability_id",
              "descriptor_version", "descriptor_digest", "operation", "scope",
              Carried[entry]} |->
     IF field = "scope" THEN scope ELSE "token"]

Result(outcome) ==
  [session |-> "token", correlation_id |-> "token", outcome |-> outcome]

\* Outcomes of a plugin that are no failures, as they are on the wire.
GoodOutcomes ==
  CASE entry = "invoke" -> {[kind |-> "success", value |-> "payload"],
                            [kind |-> "domain", error |-> "payload"]}
    [] entry = "event_publish" -> {[kind |-> "accepted"]}
    [] entry = "stream_open" -> {[kind |-> "opened", stream_id |-> "token"],
                                 [kind |-> "domain", error |-> "payload"]}

toWireOutcome(outcome) ==
  IF outcome.kind = "runtime"
    THEN Failing(normalizeRuntimeFailure(outcome.failure)) ELSE outcome

\* The client of a request wraps the failure it read; those of events and of
\* streams return it as it is.
WrapsAlways(outcome) ==
  IF outcome.kind = "runtime"
    THEN Failing([kind |-> outcome.failure.kind, detail |-> outcome.failure])
    ELSE outcome
fromWireOutcome(outcome) ==
  IF outcome.kind = "runtime" /\ entry = "invoke"
    THEN Failing([kind |-> outcome.failure.kind, detail |-> outcome.failure])
    ELSE outcome

\* The answers to actions on a stream; a stream nobody knows is a violation.
StreamResults(text) ==
  LET failures == {Failing(normalizeRuntimeFailure(f)) :
                     f \in PluginFailures(text)}
                    \cup {Failing(FailureOf("protocol_violation", text))}
      Results(kind, outcomes) ==
        {[kind |-> kind,
          message |-> [session |-> "token", correlation_id |-> "token",
                       stream_id |-> "token", outcome |-> outcome]] :
           outcome \in outcomes \cup failures}
  IN  Results("stream_action_result", {[kind |-> "accepted"]})
        \cup Results("stream_receive_result",
          {[kind |-> "message", sequence |-> "token", message |-> "payload"],
           [kind |-> "peer_half_closed"],
           [kind |-> "terminal", outcome |-> [kind |-> "success"]],
           [kind |-> "terminal",
            outcome |-> [kind |-> "domain", error |-> "payload"]]})

As(kind, message) == [kind |-> kind, message |-> message]
Constructed(text) ==
  {As("constructed",
      [session |-> "token", lifecycle_scope_id |-> "token",
       outcome |-> outcome]) :
     outcome \in {[kind |-> "constructed"],
                  [kind |-> "failed", detail |-> boundedError(text)]}}

\* An acknowledgement tells whether the call was still active in that scope.
CancelAcks ==
  {As("cancel_ack",
      [session |-> "token", scope_id |-> "token", correlation_id |-> "token",
       accepted |-> active]) : active \in BOOLEAN}
Settlements ==
  {As("settlement",
      [session |-> "token", scope_id |-> "token", correlation_id |-> "token",
       state |-> state]) : state \in {"completed", "cancelled", "abandoned"}}
Stopped(text) ==
  {As("stopped",
      [session |-> "token", cleanup_scope_id |-> "token", hook |-> hook,
       diagnostics |->
         IF hook = "failed" THEN <<[code |-> "plugin_stop_failed",
                                    detail |-> boundedError(text)]>>
                            ELSE <<>>]) :
     hook \in {"not_declared", "completed", "failed"}}

Built(text) == StreamResults(text) \cup Constructed(text) \cup CancelAcks
                 \cup Settlements \cup Stopped(text)
Accepted(built) ==
  CASE built.kind = "stream_action_result" ->
         StreamResultAccepted(built.message, ActionOutcomes)
    [] built.kind = "stream_receive_result" ->
         StreamResultAccepted(built.message, ReceiveOutcomes)
    [] OTHER -> NoticeAccepted(built.kind, built.message)
-----------------------------------------------------------------------------
WireInit ==
  /\ entry \in Interactions \cup {"session"}
  /\ scopes \in {<<RootScope(budget, length)>> :
                   budget \in 0 .. MaxBudget, length \in RootLengths}
  /\ started = <<0>> /\ clock = 0 /\ transit = 0
  /\ phase = IF entry = "session" THEN "session" ELSE "plugin"
  /\ sent = NoMessage /\ origin = NoMessage /\ answer = NoMessage

\* An outcome that starts on its way up: one a plugin gave, through its server,
\* or one its caller gets from the host or from its own server.
Started(own, outcome, text) ==
  [own |-> own, reader |-> IF own THEN Hop - 1 ELSE Hop, text |-> text,
   kind |-> outcome.kind,
   failure |-> IF outcome.kind = "runtime" THEN outcome.failure.kind
                                           ELSE "none"]

PluginCalls ==
  /\ phase = "plugin"
  /\ Hop < ChainLength
  /\ \E added \in PartLengths : sent' = OutboundRequest(Hop, added)
  /\ phase' = "request"
  /\ UNCHANGED <<chainVars, origin, answer>>

\* The server answers by itself: the scope is cancelled, or too many calls are
\* under way.  Only the request client fails to name its field for the protocol.
CallFailsAtHome ==
  /\ phase = "plugin"
  /\ Hop < ChainLength
  /\ \E kind \in {"cancelled", "resource_exhausted"} :
       /\ answer' = Failing(IF entry = "invoke"
                              THEN [kind |-> kind, detail |-> KindText]
                              ELSE FailureOf(kind, KindText))
       /\ origin' = Started(FALSE, answer', <<>>)
  /\ phase' = "answered"
  /\ UNCHANGED <<chainVars, sent>>

HostForwards ==
  /\ phase = "request"
  /\ OutboundAccepted(sent, scopes[Hop])
  /\ ProvidedAccepted(ProvidedRequest(sent.scope))
  /\ scopes' = Append(scopes, sent.scope)
  /\ started' = Append(started, clock)
  /\ phase' = "plugin"
  /\ UNCHANGED <<entry, clock, transit, sent, origin, answer>>

\* The validators of the host refuse a request; the chain is left at that.
HostRefuses ==
  /\ phase = "request"
  /\ ~ OutboundAccepted(sent, scopes[Hop])
  /\ origin' = [kind |-> "request", text |-> <<>>]
  /\ phase' = "refused"
  /\ UNCHANGED <<chainVars, sent, answer>>

HostAnswers ==
  /\ phase = "request"
  /\ OutboundAccepted(sent, scopes[Hop])
  /\ \E kind \in Kinds, cause \in {c \in Causes : Detail(Text("cause", c))} :
       LET outcome == Failing(FailureOf(kind, Text("cause", cause)))
       IN  /\ sent' = Result(outcome)
           /\ answer' = fromWireOutcome(outcome)
           /\ origin' = Started(FALSE, outcome, cause)
  /\ phase' = "answered"
  /\ UNCHANGED chainVars

PluginAnswers ==
  /\ phase = "plugin"
  /\ \/ \E outcome \in GoodOutcomes :
          sent' = Result(outcome)
          /\ origin' = Started(TRUE, outcome, <<>>)
     \/ \E cause \in Causes :
        \E failure \in PluginFailures(Text("cause", cause)) :
          /\ sent' = Result(toWireOutcome(Failing(failure)))
          /\ origin' = Started(TRUE, Failing(failure),
               IF "detail" \in DOMAIN failure THEN cause ELSE <<1>>)
  /\ phase' = "result"
  /\ UNCHANGED <<chainVars, answer>>

PluginThrows ==
  /\ phase = "plugin"
  /\ \E cause \in Causes :
       LET outcome == Failing(Abandoned(Text("cause", cause)))
       IN  sent' = Result(outcome) /\ origin' = Started(TRUE, outcome, cause)
  /\ phase' = "result"
  /\ UNCHANGED <<chainVars, answer>>

PluginRelays ==
  /\ phase = "answered"
  /\ sent' = Result(toWireOutcome(answer))
  /\ phase' = "result"
  /\ UNCHANGED <<chainVars, origin, answer>>

\* The host reads a result and brings it to the caller, whose server reads it
\* with the same validators.  The host itself is the first caller.
HostReads ==
  /\ phase = "result"
  /\ \/ /\ ~ ResultAccepted(sent)
        /\ phase' = "refused"
        /\ UNCHANGED <<chainVars, answer>>
     \/ /\ ResultAccepted(sent) /\ Hop = 1
        /\ phase' = "done"
        /\ UNCHANGED <<chainVars, answer>>
     \/ /\ ResultAccepted(sent) /\ Hop > 1
        /\ answer' = fromWireOutcome(sent.outcome)
        /\ scopes' = Front(scopes) /\ started' = Front(started)
        /\ phase' = "answered"
        /\ UNCHANGED <<entry, clock, transit>>
  /\ UNCHANGED <<sent, origin>>

\* Any other message of a session, and the host that reads it.
ServerReports ==
  /\ phase = "session"
  /\ \E cause \in Causes : \E built \in Built(Text("cause", cause)) :
       /\ sent' = built
       /\ phase' = IF Accepted(built) THEN "done" ELSE "refused"
       /\ origin' = [kind |-> built.kind, text |-> cause]
  /\ UNCHANGED <<chainVars, answer>>

Elapse ==
  /\ phase \in {"plugin", "request"}
  /\ clock < MaxTime
  /\ clock' = clock + 1
  /\ transit' = IF phase = "request" THEN transit + 1 ELSE transit
  /\ UNCHANGED <<entry, scopes, started, phase, sent, origin, answer>>

WireNext ==
  \/ PluginCalls \/ CallFailsAtHome \/ HostForwards \/ HostRefuses
  \/ HostAnswers \/ PluginAnswers \/ PluginThrows \/ PluginRelays \/ HostReads
  \/ ServerReports \/ Elapse

WireSpec == WireInit /\ [][WireNext]_wireVars
-----------------------------------------------------------------------------
(***************************************************************************)
(* Properties                                                              *)
(***************************************************************************)
WireTypeOK ==
  /\ entry \in Interactions \cup {"session"}
  /\ Hop \in 1 .. ChainLength /\ Len(started) = Hop
  /\ clock \in 0 .. MaxTime /\ transit \in 0 .. clock
  /\ phase \in {"plugin", "request", "result", "answered", "done", "refused",
               "session"}

\* However deep the calls nest, the deadline of a scope is the deadline of the
\* first one, later at most by the time the requests were on their way: a budget
\* that is left is never more than that.  Ids, permissions and extensions are
\* handed down unchanged.
ScopesNarrow ==
  \A i \in 1 .. Hop :
    /\ \/ scopes[i].remaining_budget_nanos = 0
       \/ started[i] + scopes[i].remaining_budget_nanos
            <= scopes[1].remaining_budget_nanos + transit
    /\ scopes[i].permissions = scopes[1].permissions
    /\ i > 1 => scopes[i].parent_scope_id = scopes[i - 1].scope_id
    /\ \A j \in 1 .. Hop : scopes[i].scope_id = scopes[j].scope_id => i = j

\* A character of the text lies across the limit and leaves no room for the
\* replacement character that stands for its beginning.
CutTooLate(widths) ==
  \E n \in 1 .. Len(widths) :
    /\ Bytes(SubSeq(widths, 1, n)) > DetailLimit
    /\ Bytes(SubSeq(widths, 1, n - 1)) \in DetailLimit - 2 .. DetailLimit - 1

\* A chain is deep for its first id, of which the ids of all its scopes are made.
ChainIsDeep ==
  Bytes(scopes[1].scope_id) + Hop * LongestPart > TokenLimit

\* A request is refused exactly when the id its server built for the new scope is
\* no token any more, which takes a chain that is deep for its first id; deadline,
\* permissions and extensions are never the reason.  What a server answers is
\* refused in two cases only: a text the server cut in the middle of a character,
\* so that it got longer than the limit it was cut to, and a cancellation that
\* came too late, which the server acknowledges by false.
RefusedExactly ==
  /\ phase = "request" =>
       (OutboundAccepted(sent, scopes[Hop])
          <=> Bytes(sent.scope.scope_id) <= TokenLimit)
  /\ phase = "refused" =>
       \/ origin.kind = "request" /\ ChainIsDeep
       \/ CutTooLate(origin.text)
       \/ entry = "session" /\ sent.kind = "cancel_ack" /\ ~ sent.message.accepted

\* What the client of a plugin, or the host as the first caller, reads of a
\* failure, after so many plugins relayed it.  Its kind survives if servers pass
\* it on, and is the failure of a plugin as soon as one server put another kind
\* on the wire.  The text of the cause is lost exactly when a server puts on the
\* wire what the client of a request returned.
Relays == origin.reader - Hop + (IF phase = "done" THEN 1 ELSE 0)
Read == IF phase = "done" THEN sent.outcome ELSE answer
Says(failure) ==
  IF "detail" \notin DOMAIN failure THEN "none" ELSE
  IF "says" \in DOMAIN failure.detail THEN failure.detail.says ELSE
  IF "detail" \in DOMAIN failure.detail THEN failure.detail.detail.says
                                        ELSE "none"
FailuresRelayed ==
  phase \in {"answered", "done"} /\ entry # "session" =>
    /\ Read.kind = origin.kind
    /\ origin.kind = "runtime" =>
         /\ Read.failure.kind =
              IF origin.failure \in Passed \/ (Relays = 0 /\ ~ origin.own)
                THEN origin.failure ELSE "plugin_failure"
         /\ Says(Read.failure) = "object" <=>
              entry = "invoke" /\ Relays > 0 /\ origin.failure \notin Passed
=============================================================================
