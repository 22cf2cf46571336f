---------------------------- MODULE BunAuthoring ----------------------------
(***************************************************************************)
(* BunAuthoringServer of lenso-bun-plugin: one Plugin Instance behind the  *)
(* Authoring V2 protocol.  The host sends initialize, construct, invoke,   *)
(* event.publish, stream and stop messages; the plugin calls the host back *)
(* with the context of the work it is doing.                               *)
(*                                                                         *)
(* Every message is handled undivided up to its first await.  A message    *)
(* that is refused without a change of state is no step, nor is the        *)
(* settlement callback that precedes the answer of an invocation.  Stream  *)
(* messages and their sequence numbers are left out, and so are the        *)
(* streams the plugin opens at the host, which stop cancels first.         *)
(***************************************************************************)
EXTENDS Naturals, FiniteSets

CONSTANTS
  Attempts,       \* initialize messages
  Invokes,        \* correlation ids the host uses for invocations ...
  Opens,          \* ... and for stream opens; a stream is known by its id
  Publications,   \* events published to the plugin
  Calls,          \* calls of the plugin to the host
  MaxActive,      \* max_active_invocations
  MaxUnfinished,  \* max_unfinished_executions
  MaxRetired,     \* max_retired_ids
  MaxQueued,      \* max_queued_calls
  MaxOutbound     \* max_active_outbound_calls

Ids == Invokes \cup Opens
Lifecycle == {"construct", "stop"}
Contexts == Ids \cup Publications \cup Lifecycle

ASSUME WorkAssumption ==
  /\ IsFiniteSet(Ids) /\ IsFiniteSet(Publications) /\ IsFiniteSet(Calls)
  /\ Invokes \cap Opens = {}
  /\ Ids \cap Publications = {}
  /\ (Ids \cup Publications) \cap Lifecycle = {}
  /\ "none" \notin Contexts /\ "done" \notin Contexts
ASSUME LimitsAssumption ==
  {MaxActive, MaxUnfinished, MaxRetired, MaxQueued, MaxOutbound}
    \subseteq Nat \ {0}

VARIABLES
  handshake,     \* each initialize message
  construction,  \* the only construction
  phase,         \* each invocation or stream open
  publication,   \* each event publication
  aborted,       \* contexts whose AbortController fired
  contexts,      \* the contexts the plugin may call the host with
  streams,       \* open streams
  closing,       \* streams a cancel message is cleaning up
  call,          \* each call to the host: the context it was made with
  stop,          \* how far the only stop is
  sweeping,      \* the stream stop is cancelling
  swept          \* the streams it has cancelled

vars == <<handshake, construction, phase, publication, aborted, contexts,
          streams, closing, call, stop, sweeping, swept>>
stopVars == <<stop, sweeping, swept>>
workVars == <<phase, publication, aborted, streams, closing>>

Initialized == \E a \in Attempts : handshake[a] = "accepted"
Ready == Initialized /\ construction = "done"

\* The maps and counters of the server.
Active == {i \in Ids : phase[i] = "running"}
Retired == {i \in Ids : phase[i] = "done"}
Publishing == {p \in Publications : publication[p] = "running"}
Refused == {p \in Publications : publication[p] = "refused"}
Outbound == {k \in Calls : call[k] \in Contexts}

Init ==
  /\ handshake = [a \in Attempts |-> "new"]
  /\ construction = "none"
  /\ phase = [i \in Ids |-> "new"]
  /\ publication = [p \in Publications |-> "new"]
  /\ aborted = {}
  /\ contexts = {}
  /\ streams = {}
  /\ closing = {}
  /\ call = [k \in Calls |-> "none"]
  /\ stop = "none"
  /\ sweeping = {}
  /\ swept = {}
-----------------------------------------------------------------------------
(***************************************************************************)
(* Initialization and construction                                         *)
(***************************************************************************)

\* The proof is verified across an await.
InitializeArrives(a) ==
  /\ handshake[a] = "new"
  /\ handshake' = [handshake EXCEPT
                     ![a] = IF Initialized THEN "refused" ELSE "verifying"]
  /\ UNCHANGED <<construction, contexts, call, workVars, stopVars>>

InitializeVerified(a) ==
  /\ handshake[a] = "verifying"
  /\ \E answer \in {"accepted", "refused"} :
       handshake' = [handshake EXCEPT ![a] = answer]
  /\ UNCHANGED <<construction, contexts, call, workVars, stopVars>>

\* The factory is called once, with a context of its own.
Construct ==
  /\ Initialized
  /\ construction = "none"
  /\ construction' = "running"
  /\ contexts' = contexts \cup {"construct"}
  /\ UNCHANGED <<handshake, call, workVars, stopVars>>

ConstructEnds ==
  /\ construction = "running"
  /\ construction' \in {"done", "failed"}
  /\ contexts' = contexts \ {"construct"}
  /\ UNCHANGED <<handshake, call, workVars, stopVars>>
-----------------------------------------------------------------------------
(***************************************************************************)
(* Invocations, events and stream opens                                    *)
(***************************************************************************)

FreshUnlessActive(i) == i \notin Active
Fresh(i) == i \notin Active \cup Retired

\* The limits are read before the work is counted.
HasRoom ==
  /\ Cardinality(Active) < MaxActive
  /\ Cardinality(Retired) < MaxRetired

StreamRoom == Cardinality(streams) < MaxUnfinished

\* Work starts under a context of its own.
Begin(i) ==
  /\ Ready
  /\ Fresh(i) /\ HasRoom
  /\ phase' = [phase EXCEPT ![i] = "running"]
  /\ contexts' = contexts \cup {i}
  /\ UNCHANGED <<handshake, construction, publication, aborted, streams,
                 closing, call, stopVars>>

Invoke(i) == i \in Invokes /\ Begin(i)

\* The provider's promise settles and the id is retired; the context is kept.
InvocationEnds(i) ==
  /\ i \in Invokes
  /\ phase[i] = "running"
  /\ phase' = [phase EXCEPT ![i] = "done"]
  /\ UNCHANGED <<handshake, construction, publication, aborted, contexts,
                 streams, closing, call, stopVars>>

OpenStream(i) == i \in Opens /\ StreamRoom /\ Begin(i)

\* The provider opened the stream and the open was not cancelled meanwhile ...
OpenableAnyway(i) == phase[i] = "running"
Openable(i) == phase[i] = "running" /\ i \notin aborted

StreamOpens(i) ==
  /\ i \in Opens
  /\ Openable(i)
  /\ phase' = [phase EXCEPT ![i] = "done"]
  /\ streams' = streams \cup {i}
  /\ UNCHANGED <<handshake, construction, publication, aborted, contexts,
                 closing, call, stopVars>>

\* ... or there is no stream: a failure, a domain error, or an open that was
\* cancelled and whose stream is cancelled at once.
StreamOpenFails(i) ==
  /\ i \in Opens
  /\ phase[i] = "running"
  /\ phase' = [phase EXCEPT ![i] = "done"]
  /\ contexts' = contexts \ {i}
  /\ UNCHANGED <<handshake, construction, publication, aborted, streams,
                 closing, call, stopVars>>

\* The host cancels an active invocation or open.
Cancel(i) ==
  /\ Initialized
  /\ i \in Active
  /\ aborted' = aborted \cup {i}
  /\ UNCHANGED <<handshake, construction, phase, publication, contexts,
                 streams, closing, call, stopVars>>

\* An event is published; beyond the limit it is refused, but its context is
\* registered by then.
Publish(p) ==
  /\ Ready
  /\ publication[p] = "new"
  /\ contexts' = contexts \cup {p}
  /\ \/ /\ Cardinality(Publishing) < MaxQueued
        /\ publication' = [publication EXCEPT ![p] = "running"]
     \/ publication' = [publication EXCEPT ![p] = "refused"]
  /\ UNCHANGED <<handshake, construction, phase, aborted, streams, closing,
                 call, stopVars>>

PublishEnds(p) ==
  /\ publication[p] = "running"
  /\ publication' = [publication EXCEPT ![p] = "done"]
  /\ contexts' = contexts \ {p}
  /\ UNCHANGED <<handshake, construction, phase, aborted, streams, closing,
                 call, stopVars>>
-----------------------------------------------------------------------------
(***************************************************************************)
(* The end of streams, and calls to the host                               *)
(***************************************************************************)

\* A stream and its context go together.
ForgetStreamOnly(s) == streams' = streams \ {s} /\ UNCHANGED contexts
ForgetStream(s) == streams' = streams \ {s} /\ contexts' = contexts \ {s}

\* receive() of a stream that is not cancelled returns the terminal message.
StreamTerminates(s) ==
  /\ s \in streams \ aborted
  /\ ForgetStream(s)
  /\ UNCHANGED <<handshake, construction, phase, publication, aborted,
                 closing, call, stopVars>>

\* The host cancels a stream: its context is aborted first ...
CancelStream(s) ==
  /\ Initialized
  /\ s \in streams
  /\ aborted' = aborted \cup ({s} \cap contexts)
  /\ closing' = closing \cup {s}
  /\ UNCHANGED <<handshake, construction, phase, publication, contexts,
                 streams, call, stopVars>>

\* ... and it is forgotten when the binding has cancelled and closed, or kept
\* when that fails.
CancelStreamEnds(s) ==
  /\ s \in closing
  /\ closing' = closing \ {s}
  /\ ForgetStream(s) \/ UNCHANGED <<streams, contexts>>
  /\ UNCHANGED <<handshake, construction, phase, publication, aborted, call,
                 stopVars>>

\* The plugin calls the host with a context it was given, however long ago.
MayCall(c) ==
  /\ c \in contexts \ (aborted \cup Refused)
  /\ Cardinality(Outbound) < MaxOutbound

HostCall(k, c) ==
  /\ call[k] = "none"
  /\ MayCall(c)
  /\ call' = [call EXCEPT ![k] = c]
  /\ UNCHANGED <<handshake, construction, contexts, workVars, stopVars>>

HostCallEnds(k) ==
  /\ k \in Outbound
  /\ call' = [call EXCEPT ![k] = "done"]
  /\ UNCHANGED <<handshake, construction, contexts, workVars, stopVars>>
-----------------------------------------------------------------------------
(***************************************************************************)
(* Stop                                                                    *)
(***************************************************************************)

\* The sweep goes on undivided from one await to the next, with the streams it
\* has cancelled and the contexts it has kept so far: another stream is aborted
\* and its cancellation awaited, ...
SweepsNext(done, kept) ==
  \E s \in streams \ done :
    /\ stop' = "draining"
    /\ sweeping' = {s}
    /\ swept' = done
    /\ aborted' = aborted \cup ({s} \cap kept)
    /\ contexts' = kept
    /\ UNCHANGED streams

\* ... or none is left; they are forgotten together, and the stop hook runs if
\* the plugin was constructed and has one.
SweepEnds(done, kept) ==
  /\ streams \subseteq done
  /\ streams' = {}
  /\ sweeping' = {}
  /\ swept' = done
  /\ \/ construction # "done" /\ stop' = "failed" /\ contexts' = kept
     \/ construction = "done" /\ stop' = "stopped" /\ contexts' = kept
     \/ construction = "done" /\ stop' = "hook" /\ contexts' = kept \cup {"stop"}
  /\ UNCHANGED aborted

\* One stop is attempted; with work unfinished it is refused for good.
Stop ==
  /\ Initialized
  /\ stop = "none"
  /\ \/ /\ Active # {} \/ Outbound # {}
        /\ stop' = "failed"
        /\ UNCHANGED <<contexts, aborted, streams, sweeping, swept>>
     \/ /\ Active = {} /\ Outbound = {}
        /\ SweepsNext({}, contexts) \/ SweepEnds({}, contexts)
  /\ UNCHANGED <<handshake, construction, phase, publication, closing, call>>

\* The stream is cancelled and closed and the sweep goes on, or stop fails.
StopSweeps(s) ==
  /\ s \in sweeping
  /\ \/ SweepsNext(swept \cup {s}, contexts \ {s})
     \/ SweepEnds(swept \cup {s}, contexts \ {s})
     \/ /\ stop' = "failed" /\ sweeping' = {}
        /\ UNCHANGED <<contexts, aborted, streams, swept>>
  /\ UNCHANGED <<handshake, construction, phase, publication, closing, call>>

StopHookEnds ==
  /\ stop = "hook"
  /\ stop' = "stopped"
  /\ contexts' = contexts \ {"stop"}
  /\ UNCHANGED <<handshake, construction, call, workVars, sweeping, swept>>

Next ==
  \/ \E a \in Attempts : InitializeArrives(a) \/ InitializeVerified(a)
  \/ Construct \/ ConstructEnds
  \/ \E i \in Ids :
       \/ Invoke(i) \/ InvocationEnds(i)
       \/ OpenStream(i) \/ StreamOpens(i) \/ StreamOpenFails(i)
       \/ Cancel(i) \/ StreamTerminates(i)
       \/ CancelStream(i) \/ CancelStreamEnds(i)
       \/ StopSweeps(i)
  \/ \E p \in Publications : Publish(p) \/ PublishEnds(p)
  \/ \E k \in Calls :
       HostCallEnds(k) \/ \E c \in Contexts : HostCall(k, c)
  \/ Stop \/ StopHookEnds

Spec == Init /\ [][Next]_vars
-----------------------------------------------------------------------------
(***************************************************************************)
(* Properties                                                              *)
(***************************************************************************)

\* Every variable of the server keeps its type, and a stream that is open or
\* being closed belongs to an open that was retired, so that its id cannot come
\* back for another one.
TypeOK ==
  /\ handshake \in [Attempts -> {"new", "verifying", "accepted", "refused"}]
  /\ construction \in {"none", "running", "done", "failed"}
  /\ phase \in [Ids -> {"new", "running", "done"}]
  /\ publication \in [Publications -> {"new", "running", "refused", "done"}]
  /\ aborted \subseteq Ids
  /\ contexts \subseteq Contexts
  /\ streams \cup closing \subseteq Opens \cap Retired
  /\ call \in [Calls -> Contexts \cup {"none", "done"}]
  /\ stop \in {"none", "failed", "draining", "hook", "stopped"}
  /\ sweeping \subseteq Opens
  /\ swept \subseteq Opens

\* What the limits really bound.  Opens that wait for the provider were admitted
\* under an older count of streams, and active work under an older count of
\* retired ids, so both limits may be overrun by what is active, and no more.
WorkBounded ==
  /\ Cardinality(Active) <= MaxActive
  /\ Cardinality(streams) < MaxUnfinished + MaxActive
  /\ Cardinality(Retired) < MaxRetired + MaxActive
  /\ Cardinality(Publishing) <= MaxQueued
  /\ Cardinality(Outbound) <= MaxOutbound

\* A correlation id is served once: after it was retired no message starts work
\* under it again.
ServedOnce == [][\A i \in Ids : phase[i] = "done" => phase'[i] = "done"]_vars

\* A context other than an invocation's lets the plugin call the host only while
\* its own work lasts, and as long as a stream is open its context is there to
\* be aborted, unless stop is about to forget them together.
ContextsFollowWork ==
  /\ \A s \in contexts \cap Opens : phase[s] = "running" \/ s \in streams
  /\ \A s \in streams : s \in contexts \/ s \in swept
  /\ \A p \in contexts \cap Publications :
       publication[p] \in {"running", "refused"}
  /\ "construct" \in contexts <=> construction = "running"
  /\ "stop" \in contexts <=> stop = "hook"

\* Limits and contexts stay consistent with the work under way, although both
\* are read before awaits and changed after them.
Safety == TypeOK /\ WorkBounded /\ ContextsFollowWork

\* An open that the host cancelled, and whose cancellation was accepted, never
\* leaves a stream behind.
CancelledOpensNothing ==
  [][\A s \in streams' \ streams : s \notin aborted]_vars

\* The work a context stands for is under way.
Working(c) ==
  \/ c \in Active \cup streams \cup Publishing
  \/ c = "construct" /\ construction = "running"
  \/ c = "stop" /\ stop = "hook"

\* "Host calls require the active invocation context": no call to the host is
\* started with the context of work that is over.
HostCallsAreActive ==
  [][\A k \in Calls : call[k] = "none" /\ call'[k] # "none"
                        => Working(call'[k])]_vars

\* "Bun Plugin stopped with unfinished work": the stop hook finds no invocation
\* and no event publication that the plugin is still working on.
StopFindsNothingUnfinished ==
  [][stop # "hook" /\ stop' = "hook" => Active = {} /\ Publishing = {}]_vars
=============================================================================
