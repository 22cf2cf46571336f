--------------------------- MODULE CapabilityCall ---------------------------
(***************************************************************************)
(* One call through the capability bindings.  At every hop a generated     *)
(* client and a generated provider binding of one contract face each other *)
(* across the host.  A plugin in between relays: it provides the contract  *)
(* by calling its own client of it and returns what that answers.  The     *)
(* plugin at the last hop answers by itself.                               *)
(*                                                                         *)
(* The bindings of a chain need not be of one age: a client at an old hop  *)
(* was generated before an error code was added.  A stream that opened can *)
(* be used for one more call, through the same bindings.                   *)
(*                                                                         *)
(* A value is known by what the bindings tell apart: whether it has only   *)
(* portable numbers, and whether a domain error is a string, an object     *)
(* with a code, or neither.                                                *)
(***************************************************************************)
EXTENDS Naturals, Capabilities

CONSTANTS
  MaxHops,   \* hops from the first client to the last provider
  Surprise   \* an error code no binding knows

ASSUME HopsAssumption == MaxHops \in Nat \ {0}
ASSUME SurpriseAssumption ==
  \A name \in DOMAIN Bindings :
    \A method \in DOMAIN Bindings[name].client :
      Surprise \notin Bindings[name].errors[method]

VARIABLES
  contract, op,  \* the contract and its operation
  hops,          \* how many hops the chain has
  new, old,      \* a code the operation got lately, and the hops without it
  verb,          \* what is called: the operation, or a method of its stream
  turn,          \* who acts next
  hop,           \* the hop the call has reached
  value,         \* what it carries: a payload downwards, an answer upwards
  given          \* what answered the call in the end, or Nobody

callVars == <<contract, op, hops, new, old, verb, turn, hop, value, given>>

Entries == {"invokeRequest", "openStream", "publishEvent"}
SessionVerbs == {"send", "receive", "closeSend"}
Payloads == {"portable", "unsafe"}
Forms == {"string", "object", "shapeless", "unsafe"}
FailureKinds == {"protocol_violation", "plugin_failure", "unknown_operation",
                 "cancelled"}

\* Answers of a plugin or of a client, and outcomes on the wire.
Success(payload) == [kind |-> "success", payload |-> payload]
Domain(form, code) == [kind |-> "domain", form |-> form, code |-> code]
Runtime(failure) == [kind |-> "runtime", failure |-> failure]
Thrown(failure) == [kind |-> "thrown", failure |-> failure]
Nobody == [kind |-> "nobody"]

Answers(codes) ==
  {Success(p) : p \in Payloads} \cup {Runtime(f) : f \in FailureKinds}
    \cup {Domain(form, c) : form \in Forms, c \in codes}
    \cup {Thrown(f) : f \in FailureKinds \cup {"none", "input"}}

Requests == Bindings[contract].provider.invokeRequest
Streams == Bindings[contract].provider.openStream
Entry == Bindings[contract].client[op]
Known == Bindings[contract].errors[op] \ (IF hop \in old THEN {new} ELSE {})
-----------------------------------------------------------------------------
(***************************************************************************)
(* The two templates                                                       *)
(***************************************************************************)

\* The switch of a provider binding that a verb enters.
Dispatched ==
  \/ verb = "invokeRequest" /\ op \in Requests
  \/ verb = "openStream" /\ op \in Streams
  \/ verb \in SessionVerbs

\* Encoding refuses a number that is not portable.
Encodable(answer) ==
  CASE answer.kind = "success" -> answer.payload # "unsafe"
    [] answer.kind = "domain" -> answer.form # "unsafe"
    [] OTHER -> TRUE

\* The input error taken for everything the plugin throws.
OutcomeByThrow(answer) ==
  CASE ~ Encodable(answer) -> Runtime("plugin_failure")
    [] answer.kind = "thrown" -> Runtime("protocol_violation")
    [] answer.kind # "thrown" /\ Encodable(answer) -> answer

\* A provider binding turns what its plugin answered into an outcome.  Only the
\* send of a lowered iterable throws the error that stands for a bad input.
Outcome(answer) ==
  CASE ~ Encodable(answer) -> Runtime("plugin_failure")
    [] answer = Thrown("input") /\ verb = "send" ->
         Runtime("protocol_violation")
    [] answer.kind = "thrown" /\ ~ (answer = Thrown("input") /\ verb = "send")
         -> Runtime("plugin_failure")
    [] answer.kind # "thrown" /\ Encodable(answer) -> answer

\* A strict decoder: a string code the binding does not know is no error at all.
DecodeKnownOnly(error) ==
  IF error.form = "string" /\ error.code \notin Known
    THEN Runtime("protocol_violation") ELSE error

\* A string code the binding does not know becomes an object with that code.
DecodeDomainError(error) ==
  IF error.form = "string" /\ error.code \notin Known
    THEN Domain("object", error.code) ELSE error

\* The failure of an error read without asking whether it has one.
FailureUnchecked(error) == Runtime(error.failure)

\* What the caller of a client gets for an error the client caught, or for the
\* runtime failure a method of a stream throws.
DependencyFailure(error) ==
  IF error.failure \in FailureKinds THEN Runtime(error.failure)
                                    ELSE Runtime("plugin_failure")
Caught(error) ==
  CASE verb = "invokeRequest" -> Runtime("plugin_failure")
    [] verb = "openStream" -> DependencyFailure(error)
    [] OTHER -> error

Decoded(outcome) ==
  CASE outcome.kind = "domain" ->
         IF outcome.form = "shapeless" THEN Caught(Thrown("none"))
                                       ELSE DecodeDomainError(outcome)
    [] outcome.kind = "runtime" ->
         IF verb \in SessionVerbs THEN Thrown(outcome.failure) ELSE outcome
    [] outcome.kind = "thrown" -> Caught(outcome)
    [] OTHER -> outcome
-----------------------------------------------------------------------------
\* A call starts at a client, or else the host dispatches the operation by its
\* name through another entry than the client's.
CallInit ==
  /\ contract \in DOMAIN Bindings
  /\ op \in DOMAIN Bindings[contract].client
  /\ hops \in 1 .. MaxHops
  /\ new \in Bindings[contract].errors[op]
  /\ old \in SUBSET (1 .. hops)
  /\ \/ verb = Entry /\ turn = "client"
     \/ verb \in Entries \ {Entry} /\ turn = "provider" /\ hops = 1
  /\ hop = 1
  /\ value \in Payloads
  /\ given = Nobody

chain == <<contract, op, hops, new, old, verb>>

\* The client of a hop encodes what it is to send, or fails by itself.
ClientCalls ==
  /\ turn = "client"
  /\ \/ /\ value = "portable"
        /\ turn' = "provider"
        /\ UNCHANGED value
     \/ /\ value = "unsafe"
        /\ turn' = "caller"
        /\ value' = IF verb \in SessionVerbs THEN Thrown("none")
                                             ELSE Runtime("protocol_violation")
  /\ UNCHANGED <<chain, hop, given>>

\* The provider binding of the hop finds the operation and decodes, and a relay
\* passes the request on to its own client.
ProviderRelays ==
  /\ turn = "provider"
  /\ Dispatched
  /\ hop < hops
  /\ hop' = hop + 1
  /\ turn' = "client"
  /\ UNCHANGED <<chain, value, given>>

\* The last plugin answers.  A message, a half close and a clean end all count
\* as the success of receive; a method of a stream fails by throwing only, and
\* nothing but the send of a lowered iterable refuses its input.
ProviderAnswers ==
  /\ turn = "provider"
  /\ Dispatched
  /\ hop = hops
  /\ \E answer \in Answers({new, Surprise}) :
       /\ answer.kind = "runtime" => verb \notin SessionVerbs
       /\ answer.kind = "domain" => verb \notin {"send", "closeSend"}
       /\ answer = Success("unsafe") => verb \in {"invokeRequest", "receive"}
       /\ answer = Thrown("input") => verb = "send"
       /\ given' = answer
       /\ value' = Outcome(answer)
  /\ turn' = "host"
  /\ UNCHANGED <<chain, hop>>

UnknownOperation ==
  /\ turn = "provider"
  /\ ~ Dispatched
  /\ value' = Runtime("unknown_operation")
  /\ turn' = "host"
  /\ UNCHANGED <<chain, hop, given>>

\* The host delivers the outcome, or fails: by an outcome of its own, or by
\* making the invoker throw, with a failure in the error or without.
HostDelivers ==
  /\ turn = "host"
  /\ \/ value' = Decoded(value) /\ UNCHANGED given
     \/ \E fault \in {Runtime("cancelled"), Thrown("cancelled"),
                      Thrown("none")} :
          given' = fault /\ value' = Decoded(fault)
  /\ turn' = "caller"
  /\ UNCHANGED <<chain, hop>>

\* The relay returns what its client answered, and its binding encodes that.
RelayAnswers ==
  /\ turn = "caller"
  /\ hop > 1
  /\ hop' = hop - 1
  /\ value' = Outcome(value)
  /\ turn' = "host"
  /\ UNCHANGED <<chain, given>>

\* The caller of an open stream uses it.
UseStream ==
  /\ turn = "caller"
  /\ hop = 1
  /\ verb = "openStream" /\ value = Success("portable")
  /\ verb' \in SessionVerbs
  /\ value' \in IF verb' = "send" THEN Payloads ELSE {"portable"}
  /\ turn' = "client"
  /\ given' = Nobody
  /\ UNCHANGED <<contract, op, hops, new, old, hop>>

CallNext ==
  \/ ClientCalls \/ ProviderRelays \/ ProviderAnswers \/ UnknownOperation
  \/ HostDelivers \/ RelayAnswers \/ UseStream

CallSpec == CallInit /\ [][CallNext]_callVars
-----------------------------------------------------------------------------
(***************************************************************************)
(* Properties                                                              *)
(***************************************************************************)
Answered == turn = "caller" /\ hop = 1
Failure(answer) == IF answer.kind \in {"runtime", "thrown"}
                     THEN answer.failure ELSE "none"

CallTypeOK ==
  /\ contract \in DOMAIN Bindings /\ op \in DOMAIN Bindings[contract].client
  /\ hops \in 1 .. MaxHops /\ hop \in 1 .. hops /\ old \subseteq 1 .. hops
  /\ verb \in Entries \cup SessionVerbs
  /\ turn \in {"client", "provider", "host", "caller"}
  /\ value \in IF turn \in {"client", "provider"} THEN Payloads
                                                  ELSE Answers({new, Surprise})
  /\ given \in {Nobody} \cup Answers({new, Surprise})

\* A domain error reaches the first caller as a domain error with its code, over
\* any number of relays and whatever the age of the clients on the way; it is
\* still the string the last provider returned exactly if every client on the
\* way knows that string.
DomainErrorsSurvive ==
  Answered /\ given # Nobody =>
    IF given.kind = "domain" /\ given.form \in {"string", "object"}
      THEN /\ value.kind = "domain" /\ value.code = given.code
           /\ value.form = "string" <=>
                /\ given.form = "string" /\ old = {}
                /\ given.code = new
      ELSE value.kind # "domain"

\* A call succeeds only with what the last provider answered, and a request or
\* an open that the client reports as a protocol violation was never served: no
\* plugin was asked, unless the plugin itself speaks of a violation.  A typed
\* client never meets an operation its provider binding does not have, and an
\* operation is served through one entry only, whichever the host tries.
AnswersAreGiven ==
  Answered =>
    /\ value.kind = "success" => given = Success("portable")
    /\ Failure(value) = "protocol_violation" =>
         given = Nobody \/ Failure(given) \in {"protocol_violation", "input"}
    /\ verb \in Entries \ {Entry} => given.kind \notin {"success", "domain"}
    /\ given = Nobody =>
         (Failure(value) = "unknown_operation" <=> verb \in Entries \ {Entry})
=============================================================================
