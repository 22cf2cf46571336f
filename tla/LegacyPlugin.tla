---------------------------- MODULE LegacyPlugin ----------------------------
(***************************************************************************)
(* startPlugin of lenso-bun-plugin: the server of a plugin that speaks the *)
(* protocol before Authoring V2.  Every message is handled undivided up to *)
(* its first await; one that is refused without a change of state is no    *)
(* step.  The plugin declares a stop hook; its lifecycle is managed, or it *)
(* needs no activation and has its instance from the start.                *)
(***************************************************************************)
EXTENDS Naturals, Sequences, FiniteSets

CONSTANTS
  Ids,           \* request ids the host uses, again and again
  Activations,   \* activation messages
  Shutdowns,     \* shutdown messages
  Dependencies,  \* declared dependencies: a requirement and a capability
  Imports,       \* descriptors the host may admit: the same two fields
  MaxConcurrent, \* maxConcurrentRequests
  MaxRetired,    \* maxRetiredRequestIds
  MaxSessions,   \* bound on handshakes
  MaxServed      \* bound on requests admitted

ASSUME LegacyAssumption ==
  /\ {MaxConcurrent, MaxRetired, MaxSessions, MaxServed} \subseteq Nat \ {0}
  /\ Activations \cap {"none", "static", "new", "done", "failed"} = {}

VARIABLES
  session,     \* how many handshakes were accepted; the last one counts
  accepting,   \* new requests and handshakes are accepted
  listening,   \* the server answers
  instance,    \* the activation that made the instance, "static" or "none"
  activation,  \* each activation
  routes,      \* the import each dependency's client calls
  running,     \* activeRequests
  cancelled,   \* ... of them cancelled
  expired,     \* ... of them past their deadline
  retired,     \* retiredRequestIds, oldest first
  shutdown,    \* each shutdown: "new", "failed", "done", or what it stops
  \* history
  served,      \* requests admitted
  since,       \* how many ids were retired since this one, up to MaxRetired
  made,        \* activations whose instance was in place
  stopped,     \* instances the hook was called for
  raced        \* an activation overlapped another one, or the shutdown

legacyVars == <<session, accepting, listening, instance, activation, routes,
                running, cancelled, expired, retired, shutdown, served, since,
                made, stopped, raced>>
lifecycleVars == <<session, instance, activation, routes, made>>
requestVars == <<running, cancelled, expired, retired, served, since>>
stopVars == <<shutdown, stopped>>

LegacyInit ==
  /\ session = 0 /\ accepting = TRUE /\ listening = TRUE
  /\ instance \in {"none", "static"}
  /\ activation = [a \in Activations |-> "new"]
  /\ routes = <<>>
  /\ running = {} /\ cancelled = {} /\ expired = {} /\ retired = <<>>
  /\ shutdown = [m \in Shutdowns |-> "new"]
  /\ served = 0 /\ since = [i \in Ids |-> MaxRetired]
  /\ made = {} /\ stopped = {} /\ raced = FALSE
-----------------------------------------------------------------------------
(***************************************************************************)
(* Handshake and activation                                                *)
(***************************************************************************)

\* A handshake may come again while no request is active; it replaces the
\* session, and neither the instance nor the retired ids.
Handshake ==
  /\ listening /\ accepting
  /\ running = {}
  /\ session < MaxSessions
  /\ session' = session + 1
  /\ UNCHANGED <<accepting, listening, instance, activation, routes, made,
                 raced, requestVars, stopVars>>

\* The import a dependency's client is given: the one admitted for its
\* requirement, or else the only one of its capability.
Exact(d, admitted) == {i \in admitted : i.requirement = d.requirement}
Alike(d, admitted) == {i \in admitted : i.capability = d.capability}
Candidates(d, admitted) ==
  IF Exact(d, admitted) # {} THEN Exact(d, admitted)
  ELSE IF Cardinality(Alike(d, admitted)) = 1 THEN Alike(d, admitted) ELSE {}

\* Clients are made only if every dependency has an import of its capability,
\* and no import is claimed twice.
Clients(admitted) ==
  {f \in [Dependencies -> admitted] :
     /\ \A d \in Dependencies :
          f[d] \in Candidates(d, admitted) /\ f[d].capability = d.capability
     /\ \A d, e \in Dependencies : f[d] = f[e] => d = e}

\* The host admits one descriptor per requirement.
Admissible == {s \in SUBSET Imports :
                 \A i, j \in s : i.requirement = j.requirement => i = j}

\* The guard is read before create() is awaited.
Activate(a) ==
  /\ listening /\ session > 0
  /\ activation[a] = "new"
  /\ instance = "none" /\ running = {}
  /\ \E admitted \in Admissible : \E clients \in Clients(admitted) :
       routes' = clients
  /\ activation' = [activation EXCEPT ![a] = "creating"]
  /\ raced' = (raced \/ ~ accepting
                     \/ \E b \in Activations : activation[b] = "creating")
  /\ UNCHANGED <<session, accepting, listening, instance, made, requestVars,
                 stopVars>>

\* create() returns: an instance, nothing, which is stored all the same, or it
\* throws.
CreateReturns(a) ==
  /\ activation[a] = "creating"
  /\ \/ /\ instance' = a
        /\ made' = made \cup {a}
        /\ activation' = [activation EXCEPT ![a] = "done"]
     \/ /\ instance' \in {"none", instance}
        /\ activation' = [activation EXCEPT ![a] = "failed"]
        /\ UNCHANGED made
  /\ UNCHANGED <<session, accepting, listening, routes, raced, requestVars,
                 stopVars>>
-----------------------------------------------------------------------------
(***************************************************************************)
(* Requests                                                                *)
(***************************************************************************)
Retired == {retired[k] : k \in DOMAIN retired}

\* The oldest ids make room for the one that is retired.
EvictEarly(ids) == IF Len(ids) + 1 >= MaxRetired THEN Tail(ids) ELSE ids
Evict(ids) == IF Len(ids) >= MaxRetired THEN Tail(ids) ELSE ids
Retire(i) ==
  /\ retired' = Append(Evict(retired), i)
  /\ since' = [j \in Ids |-> IF j = i THEN 0
                             ELSE IF since[j] = MaxRetired THEN MaxRetired
                             ELSE since[j] + 1]

Admits(i) ==
  /\ listening /\ accepting /\ session > 0 /\ instance # "none"
  /\ i \notin running \cup Retired
  /\ Cardinality(running) < MaxConcurrent
  /\ served < MaxServed

Request(i) ==
  /\ Admits(i)
  /\ running' = running \cup {i}
  /\ served' = served + 1
  /\ UNCHANGED <<accepting, listening, cancelled, expired, retired, since,
                 raced, lifecycleVars, stopVars>>

\* A deadline of zero, or a context that cannot be built, is answered at once.
RequestAnswered(i) ==
  /\ Admits(i)
  /\ served' = served + 1
  /\ Retire(i)
  /\ UNCHANGED <<accepting, listening, running, cancelled, expired, raced,
                 lifecycleVars, stopVars>>

Cancel(i) ==
  /\ listening
  /\ i \in running
  /\ cancelled' = cancelled \cup {i}
  /\ UNCHANGED <<accepting, listening, running, expired, retired, served,
                 since, raced, lifecycleVars, stopVars>>

Expire(i) ==
  /\ i \in running
  /\ expired' = expired \cup {i}
  /\ UNCHANGED <<accepting, listening, running, cancelled, retired, served,
                 since, raced, lifecycleVars, stopVars>>

\* The provider's promise settles: with what it answered, unless the deadline
\* passed or the request was cancelled meanwhile, or with a failure.
Outcomes(i) ==
  {"failure",
   IF i \in expired THEN "deadline_exceeded"
   ELSE IF i \in cancelled THEN "cancelled" ELSE "answer"}

Returns(i, outcome) ==
  /\ i \in running
  /\ outcome \in Outcomes(i)
  /\ running' = running \ {i}
  /\ cancelled' = cancelled \ {i}
  /\ expired' = expired \ {i}
  /\ Retire(i)
  /\ UNCHANGED <<accepting, listening, served, raced, lifecycleVars, stopVars>>
-----------------------------------------------------------------------------
(***************************************************************************)
(* Shutdown                                                                *)
(***************************************************************************)
CancelNone == UNCHANGED cancelled
CancelAll == cancelled' = cancelled \cup running

\* A shutdown closes admission, cancels what is active, and calls the hook of
\* the instance there is, without waiting for what is active.
HookOfActivated == instance \in Activations /\ running = {}
HasHook == instance # "none"
Shutdown(m) ==
  /\ listening /\ session > 0
  /\ shutdown[m] = "new"
  /\ accepting' = FALSE
  /\ CancelAll
  /\ IF HasHook
       THEN /\ shutdown' = [shutdown EXCEPT ![m] = instance]
            /\ stopped' = stopped \cup {instance}
       ELSE /\ shutdown' = [shutdown EXCEPT ![m] = "done"]
            /\ UNCHANGED stopped
  /\ raced' = (raced \/ \E a \in Activations : activation[a] = "creating")
  /\ UNCHANGED <<listening, running, expired, retired, served, since,
                 lifecycleVars>>

\* A failed hook leaves the server listening.
HookReturns(m) ==
  /\ shutdown[m] \in Activations \cup {"static"}
  /\ \E end \in {"done", "failed"} : shutdown' = [shutdown EXCEPT ![m] = end]
  /\ UNCHANGED <<accepting, listening, stopped, raced, lifecycleVars,
                 requestVars>>

\* The server stops in the turn after the answer.
ServerStops ==
  /\ listening
  /\ \E m \in Shutdowns : shutdown[m] = "done"
  /\ listening' = FALSE
  /\ UNCHANGED <<accepting, raced, lifecycleVars, requestVars, stopVars>>

\* stop() of the server object calls no hook.
StopServer ==
  /\ listening
  /\ accepting' = FALSE
  /\ CancelAll
  /\ listening' = FALSE
  /\ UNCHANGED <<running, expired, retired, served, since, raced,
                 lifecycleVars, stopVars>>

LegacyNext ==
  \/ Handshake \/ ServerStops \/ StopServer
  \/ \E a \in Activations : Activate(a) \/ CreateReturns(a)
  \/ \E i \in Ids :
       \/ Request(i) \/ RequestAnswered(i) \/ Cancel(i) \/ Expire(i)
       \/ \E outcome \in Outcomes(i) : Returns(i, outcome)
  \/ \E m \in Shutdowns : Shutdown(m) \/ HookReturns(m)

LegacySpec == LegacyInit /\ [][LegacyNext]_legacyVars
-----------------------------------------------------------------------------
(***************************************************************************)
(* Properties                                                              *)
(***************************************************************************)
LegacyTypeOK ==
  /\ session \in 0 .. MaxSessions
  /\ accepting \in BOOLEAN /\ listening \in BOOLEAN
  /\ instance \in Activations \cup {"none", "static"}
  /\ activation \in [Activations -> {"new", "creating", "done", "failed"}]
  /\ routes = <<>> \/ routes \in [Dependencies -> Imports]
  /\ running \subseteq Ids /\ cancelled \subseteq running
  /\ expired \subseteq running /\ Cardinality(running) <= MaxConcurrent
  /\ retired \in Seq(Ids) /\ Len(retired) <= MaxRetired
  /\ running \cap Retired = {}
  /\ shutdown \in [Shutdowns ->
                     {"new", "done", "failed", "static"} \cup Activations]
  /\ stopped \subseteq Activations \cup {"static"} /\ made \subseteq Activations

\* After a shutdown, or stop(), no request answers with what its provider
\* returned: the ones that are active were cancelled, and none is admitted.
NoAnswerAfterShutdown ==
  [][\A i \in Ids : Returns(i, "answer") => accepting]_legacyVars

\* The set of retired ids forgets: an id is served again, but only after
\* MaxRetired other ids were retired since it was.
IdsComeBackLate ==
  [][\A i \in Ids : Request(i) \/ RequestAnswered(i)
                     => since[i] = MaxRetired]_legacyVars

\* When a shutdown is done, every instance a create() returned was stopped,
\* unless an activation overlapped another activation or the shutdown.
InstancesAreStopped ==
  (\E m \in Shutdowns : shutdown[m] = "done") /\ ~ raced => made \subseteq stopped

\* The clients of a plugin never share an import, serve the capability they were
\* declared for, and use the import of their own requirement if the host
\* admitted one.
ClientsOwnTheirImports ==
  routes # <<>> =>
    \A d, e \in Dependencies :
      /\ routes[d].capability = d.capability
      /\ routes[d] = routes[e] => d = e
      /\ routes[d].requirement = e.requirement => d = e

\* No instance is forgotten, and no client has the import of another one.
LegacySafety == LegacyTypeOK /\ InstancesAreStopped /\ ClientsOwnTheirImports
=============================================================================
