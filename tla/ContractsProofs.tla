--------------------------- MODULE ContractsProofs ---------------------------
(***************************************************************************)
(* Proofs about the four parts TLC explores together: a call through the   *)
(* capability bindings, for every number of relays and every age of their  *)
(* clients; the messages of a chain of plugins, for every length, budget   *)
(* and text; the scanner of portable patterns, for every pattern and every *)
(* length of the strings it is matched with; and the binding of a plugin,  *)
(* for every definition and every initialization.                          *)
(***************************************************************************)
EXTENDS MCContracts, FiniteSetTheorems, TLAPS

(***************************************************************************)
(* The generated bindings                                                  *)
(***************************************************************************)

\* The switches of a provider binding name an operation exactly where its client
\* enters by that switch.
Fits(b) ==
  \A o \in DOMAIN b.client :
    /\ b.client[o] \in {"invokeRequest", "openStream"}
    /\ o \in b.provider.invokeRequest <=> b.client[o] = "invokeRequest"
    /\ o \in b.provider.openStream <=> b.client[o] = "openStream"

LEMMA BoundFits ==
  ASSUME NEW requests, NEW streams, requests \cap streams = {}, NEW errors
  PROVE  Fits(Bound(Switches(requests, streams), Methods(requests, streams), errors))
  BY DEF Fits, Bound, Switches, Methods

LEMMA BindingsFit == \A name \in ContractNames : Fits(Bindings[name])
<1>1. Fits(Bound(AccountAdminProvider, AccountAdminClient, AccountAdminErrors))
  BY BoundFits DEF AccountAdminProvider, AccountAdminClient
<1>2. Fits(Bound(AgentAuthOpenaiCodexProvider, AgentAuthOpenaiCodexClient,
                 AgentAuthOpenaiCodexErrors))
  BY BoundFits DEF AgentAuthOpenaiCodexProvider, AgentAuthOpenaiCodexClient
<1>3. Fits(Bound(AgentModelProvider, AgentModelClient, AgentModelErrors))
  BY BoundFits DEF AgentModelProvider, AgentModelClient
<1>4. Fits(Bound(AgentPromptProviderProvider, AgentPromptProviderClient, AgentPromptProviderErrors))
  BY BoundFits DEF AgentPromptProviderProvider, AgentPromptProviderClient
<1>5. Fits(Bound(AgentPromptProvider, AgentPromptClient, AgentPromptErrors))
  BY BoundFits DEF AgentPromptProvider, AgentPromptClient
<1>6. Fits(Bound(AgentSessionProvider, AgentSessionClient, AgentSessionErrors))
  BY BoundFits DEF AgentSessionProvider, AgentSessionClient
<1>7. Fits(Bound(AgentToolProviderProvider, AgentToolProviderClient, AgentToolProviderErrors))
  BY BoundFits DEF AgentToolProviderProvider, AgentToolProviderClient
<1>8. Fits(Bound(AgentToolsProvider, AgentToolsClient, AgentToolsErrors))
  BY BoundFits DEF AgentToolsProvider, AgentToolsClient
<1>9. Fits(Bound(AgentProvider, AgentClient, AgentErrors))
  BY BoundFits DEF AgentProvider, AgentClient
<1>10. Fits(Bound(AnonymousAuthProvider, AnonymousAuthClient, AnonymousAuthErrors))
  BY BoundFits DEF AnonymousAuthProvider, AnonymousAuthClient
<1>11. Fits(Bound(AuthProvider, AuthClient, AuthErrors))
  BY BoundFits DEF AuthProvider, AuthClient
<1>12. Fits(Bound(CredentialIssuerProvider, CredentialIssuerClient, CredentialIssuerErrors))
  BY BoundFits DEF CredentialIssuerProvider, CredentialIssuerClient
<1>13. Fits(Bound(DeviceAuthProvider, DeviceAuthClient, DeviceAuthErrors))
  BY BoundFits DEF DeviceAuthProvider, DeviceAuthClient
<1>14. Fits(Bound(FederatedAuthProvider, FederatedAuthClient, FederatedAuthErrors))
  BY BoundFits DEF FederatedAuthProvider, FederatedAuthClient
<1>15. Fits(Bound(HttpClientProvider, HttpClientClient, HttpClientErrors))
  BY BoundFits DEF HttpClientProvider, HttpClientClient
<1>16. Fits(Bound(HttpEndpointProvider, HttpEndpointClient, HttpEndpointErrors))
  BY BoundFits DEF HttpEndpointProvider, HttpEndpointClient
<1>17. Fits(Bound(IdentityDirectoryProvider, IdentityDirectoryClient, IdentityDirectoryErrors))
  BY BoundFits DEF IdentityDirectoryProvider, IdentityDirectoryClient
<1>18. Fits(Bound(JobsProvider, JobsClient, JobsErrors))
  BY BoundFits DEF JobsProvider, JobsClient
<1>19. Fits(Bound(OauthFlowProvider, OauthFlowClient, OauthFlowErrors))
  BY BoundFits DEF OauthFlowProvider, OauthFlowClient
<1>20. Fits(Bound(OidcProviderProvider, OidcProviderClient, OidcProviderErrors))
  BY BoundFits DEF OidcProviderProvider, OidcProviderClient
<1>21. Fits(Bound(PasswordAuthProvider, PasswordAuthClient, PasswordAuthErrors))
  BY BoundFits DEF PasswordAuthProvider, PasswordAuthClient
<1>22. Fits(Bound(PhoneAuthProvider, PhoneAuthClient, PhoneAuthErrors))
  BY BoundFits DEF PhoneAuthProvider, PhoneAuthClient
<1>23. Fits(Bound(SecretsProvider, SecretsClient, SecretsErrors))
  BY BoundFits DEF SecretsProvider, SecretsClient
<1>24. Fits(Bound(SmsDeliveryProvider, SmsDeliveryClient, SmsDeliveryErrors))
  BY BoundFits DEF SmsDeliveryProvider, SmsDeliveryClient
<1>25. Fits(Bound(WebsocketEndpointProvider, WebsocketEndpointClient, WebsocketEndpointErrors))
  BY BoundFits DEF WebsocketEndpointProvider, WebsocketEndpointClient
<1> QED
  BY <1>1, <1>2, <1>3, <1>4, <1>5, <1>6, <1>7, <1>8, <1>9, <1>10, <1>11, <1>12, <1>13,
     <1>14, <1>15, <1>16, <1>17, <1>18, <1>19, <1>20, <1>21, <1>22, <1>23, <1>24, <1>25
    DEF ContractNames, Bindings


(***************************************************************************)
(* A call: the inductive invariant                                         *)
(***************************************************************************)

\* The host tries another entry than the client of the operation does.
OtherEntry == verb \in Entries \ {Entry}

\* The last plugin returned a domain error that has a code.
DomainGiven == given.kind = "domain" /\ given.form \in {"string", "object"}

\* What is carried has the type of whoever acts next, and nothing was given while
\* a request is on its way down.
CallTyped ==
  /\ contract \in ContractNames /\ op \in DOMAIN Bindings[contract].client
  /\ hops \in 1 .. MaxHops /\ hop \in 1 .. hops /\ old \subseteq 1 .. hops
  /\ new \in Bindings[contract].errors[op]
  /\ verb \in Entries \cup SessionVerbs
  /\ turn \in {"client", "provider", "host", "caller"}
  /\ turn \in {"client", "provider"} => value \in Payloads /\ given = Nobody
  /\ turn \in {"host", "caller"} => value \in Answers({new, Surprise})
  /\ given \in {Nobody} \cup Answers({new, Surprise})

\* Another entry reaches no plugin: it is used at the only hop and finds nothing.
EntryHolds ==
  OtherEntry => hops = 1 /\ turn # "client" /\ given.kind \notin {"success", "domain"}

\* Between the last provider and this hop a domain error is kept, as a string while
\* the clients passed on the way know it.
ErrorsKept ==
  /\ turn = "host" =>
       IF DomainGiven
         THEN /\ value.kind = "domain" /\ value.code = given.code
              /\ value.form \in {"string", "object"}
              /\ value.form = "string" <=>
                   /\ given.form = "string" /\ old \cap (hop + 1 .. hops) = {}
                   /\ hop < hops => given.code = new
         ELSE value.kind = "domain" => value.form = "shapeless"
  /\ turn = "caller" =>
       IF DomainGiven
         THEN /\ value.kind = "domain" /\ value.code = given.code
              /\ value.form \in {"string", "object"}
              /\ value.form = "string" <=>
                   /\ given.form = "string" /\ old \cap (hop .. hops) = {}
                   /\ given.code = new
         ELSE value.kind # "domain"

\* Where an answer comes from.
OutcomesTraced ==
  turn \in {"host", "caller"} =>
    /\ turn = "host" => value.kind # "thrown"
    /\ Failure(value) # "input"
    /\ value.kind = "success" => value = Success("portable") /\ given = value
    /\ Failure(value) = "protocol_violation" =>
         given = Nobody \/ Failure(given) \in {"protocol_violation", "input"}
    /\ given = Nobody => (Failure(value) = "unknown_operation" <=> OtherEntry)

CallInv == CallTyped /\ EntryHolds /\ ErrorsKept /\ OutcomesTraced

(***************************************************************************)
(* A call: what the bindings make of an answer                             *)
(***************************************************************************)
LEMMA OutcomeDoes ==
  ASSUME NEW codes, NEW a \in Answers(codes)
  PROVE  LET o == Outcome(a) IN
         /\ o \in Answers(codes) /\ o.kind # "thrown" /\ Failure(o) # "input"
         /\ o.kind = "success" => o = a /\ o = Success("portable")
         /\ o.kind = "domain" => o = a /\ o.form # "unsafe"
         /\ a.kind = "domain" /\ a.form # "unsafe" => o = a
         /\ Failure(o) = "protocol_violation" =>
              Failure(a) \in {"protocol_violation", "input"}
         /\ Failure(o) = "unknown_operation" => Failure(a) = "unknown_operation"
         /\ a.kind = "runtime" => o = a
<1>1. CASE \E p \in Payloads : a = Success(p)
  BY <1>1 DEF Outcome, Encodable, Answers, Success, Runtime, Thrown, Failure, Payloads, FailureKinds
<1>2. CASE \E f \in FailureKinds : a = Runtime(f)
  BY <1>2 DEF Outcome, Encodable, Answers, Success, Runtime, Thrown, Failure, FailureKinds
<1>3. CASE \E form \in Forms, c \in codes : a = Domain(form, c)
  BY <1>3 DEF Outcome, Encodable, Answers, Success, Runtime, Thrown, Domain, Failure, FailureKinds
<1>4. CASE \E f \in FailureKinds \cup {"none", "input"} : a = Thrown(f)
  BY <1>4 DEF Outcome, Encodable, Answers, Success, Runtime, Thrown, Failure, FailureKinds
<1> QED
  BY <1>1, <1>2, <1>3, <1>4 DEF Answers

LEMMA DecodedDoes ==
  ASSUME NEW codes, NEW o \in Answers(codes)
  PROVE  LET d == Decoded(o) IN
         /\ d \in Answers(codes)
         /\ d.kind = "success" => d = o
         /\ d.kind = "domain" => o.kind = "domain" /\ o.form # "shapeless"
         /\ o.kind = "domain" /\ o.form \in {"string", "object"} =>
              /\ d.kind = "domain" /\ d.code = o.code /\ d.form \in {"string", "object"}
              /\ d.form = "string" <=> o.form = "string" /\ o.code \in Known
         /\ o.kind \in {"runtime", "thrown"} => d.kind \in {"runtime", "thrown"}
         /\ Failure(d) \in {Failure(o), "none", "plugin_failure"}
         /\ Failure(o) = "unknown_operation" =>
              Failure(d) = "unknown_operation" \/ verb = "invokeRequest"
         /\ o.kind = "runtime" => Failure(d) = Failure(o)
<1>1. CASE \E p \in Payloads : o = Success(p)
  BY <1>1 DEF Decoded, Answers, Success, Failure, Payloads
<1>2. CASE \E f \in FailureKinds : o = Runtime(f)
  BY <1>2 DEF Decoded, Answers, Runtime, Thrown, Failure, FailureKinds
<1>3. CASE \E form \in Forms, c \in codes : o = Domain(form, c)
  BY <1>3 DEF Decoded, DecodeDomainError, Caught, DependencyFailure, Answers, Domain,
     Runtime, Thrown, Failure, FailureKinds, Forms
<1>4. CASE \E f \in FailureKinds \cup {"none", "input"} : o = Thrown(f)
  BY <1>4 DEF Decoded, Caught, DependencyFailure, Answers, Runtime, Thrown, Failure, FailureKinds
<1> QED
  BY <1>1, <1>2, <1>3, <1>4 DEF Answers

\* A provider binding finds the operation through the entry of the client, and
\* through no other.
LEMMA DispatchedFits == CallTyped => (Dispatched <=> ~ OtherEntry)
<1> SUFFICES ASSUME CallTyped PROVE Dispatched <=> ~ OtherEntry
  OBVIOUS
<1>1. /\ Entry \in {"invokeRequest", "openStream"}
      /\ op \in Requests <=> Entry = "invokeRequest"
      /\ op \in Streams <=> Entry = "openStream"
  BY BindingsFit DEF CallTyped, Fits, Entry, Requests, Streams
<1> QED
  BY <1>1 DEF CallTyped, Dispatched, OtherEntry, Entries, SessionVerbs

\* The newest code is one the bindings of the operation know where they are not
\* old, and the surprise is none.
LEMMA NewIsKnown ==
  CallTyped => Surprise \notin Known /\ (new \in Known <=> hop \notin old) /\ new # Surprise
<1>1. DOMAIN Bindings = ContractNames
  BY DEF Bindings
<1> QED
  BY <1>1, SurpriseAssumption DEF CallTyped, Known

(***************************************************************************)
(* A call: the steps                                                       *)
(***************************************************************************)
LEMMA CallStarts == CallInit => CallInv
<1> SUFFICES ASSUME CallInit PROVE CallInv
  OBVIOUS
<1>1. DOMAIN Bindings = ContractNames
  BY DEF Bindings
<1>2. Nobody.kind = "nobody"
  BY DEF Nobody
<1>3. hops \in Nat /\ 1 \in 1 .. hops
  BY HopsAssumption DEF CallInit
<1>4. CallTyped
  BY <1>1, <1>3, BindingsFit DEF CallInit, CallTyped, Entry, Entries, Fits, SessionVerbs
<1> QED
  BY <1>2, <1>4 DEF CallInit, CallInv, EntryHolds, ErrorsKept, OutcomesTraced, OtherEntry

LEMMA CallPreserves == CallInv /\ [CallNext]_callVars => CallInv'
<1> SUFFICES ASSUME CallInv, [CallNext]_callVars PROVE CallInv'
  OBVIOUS
<1> DEFINE Codes == {new, Surprise}
<1>0. CallTyped /\ EntryHolds /\ ErrorsKept /\ OutcomesTraced
  BY DEF CallInv
<1>N. Nobody.kind = "nobody" /\ \A p : Success(p).kind = "success" /\ Success(p).payload = p
  BY DEF Nobody, Success
\* What every step but the use of a stream leaves alone.
<1>C. ASSUME UNCHANGED chain
      PROVE  (OtherEntry' <=> OtherEntry) /\ {new, Surprise}' = Codes
             /\ (Nobody' = Nobody) /\ Payloads' = Payloads
  BY <1>C DEF chain, OtherEntry, Entry, Nobody
<1>1. CASE UNCHANGED callVars
  BY <1>0, <1>1 DEF callVars, CallInv, CallTyped, EntryHolds, ErrorsKept, OutcomesTraced,
     OtherEntry, Entry, DomainGiven
<1>2. CASE ClientCalls
  <2>1. given = Nobody /\ ~ OtherEntry /\ turn' \in {"provider", "caller"}
    BY <1>0, <1>2 DEF ClientCalls, CallTyped, EntryHolds
  <2>2. /\ turn' = "provider" => value' \in Payloads
        /\ turn' = "caller" =>
             /\ value' \in Answers(Codes) /\ value'.kind \in {"runtime", "thrown"}
             /\ Failure(value') \in {"none", "protocol_violation"}
    BY <1>2 DEF ClientCalls, Answers, Runtime, Thrown, Failure, FailureKinds, Payloads
  <2>3. CallTyped'
    BY <1>0, <1>2, <2>1, <2>2 DEF ClientCalls, chain, CallTyped
  <2> QED
    BY <1>N, <1>C, <1>0, <1>2, <2>1, <2>2, <2>3
      DEF ClientCalls, CallInv, EntryHolds, ErrorsKept, OutcomesTraced, DomainGiven
<1>3. CASE ProviderRelays
  <2>1. hop' \in 1 .. hops
    BY <1>0, <1>3 DEF ProviderRelays, CallTyped
  <2>2. ~ OtherEntry
    BY <1>0, <1>3, DispatchedFits DEF ProviderRelays
  <2> QED
    BY <1>C, <1>0, <1>3, <2>1, <2>2
      DEF ProviderRelays, chain, CallInv, CallTyped, EntryHolds, ErrorsKept, OutcomesTraced
<1>4. CASE ProviderAnswers
  <2>1. ~ OtherEntry /\ turn' = "host" /\ UNCHANGED chain /\ hop' = hops /\ hop = hops
    BY <1>0, <1>4, DispatchedFits DEF ProviderAnswers
  <2>2. given' \in Answers(Codes) /\ value' = Outcome(given')
    BY <1>4 DEF ProviderAnswers
  <2>3. /\ value' \in Answers(Codes) /\ value'.kind # "thrown" /\ Failure(value') # "input"
        /\ value'.kind = "success" => value' = given' /\ value' = Success("portable")
        /\ value'.kind = "domain" => value' = given' /\ value'.form # "unsafe"
        /\ given'.kind = "domain" /\ given'.form # "unsafe" => value' = given'
        /\ Failure(value') = "protocol_violation" =>
             Failure(given') \in {"protocol_violation", "input"}
    BY <2>2, OutcomeDoes
  <2>4. given'.kind = "domain" => given'.form \in Forms
    BY <2>2 DEF Answers, Domain, Success, Runtime, Thrown
  <2>5. given' # Nobody
    BY <2>2 DEF Answers, Nobody, Domain, Success, Runtime, Thrown
  <2>6. CallTyped'
    BY <1>0, <2>1, <2>2, <2>3 DEF chain, CallTyped
  <2>7. old \cap (hop' + 1 .. hops) = {} /\ ~ (hop' < hops)
    BY <1>0, <2>1 DEF CallTyped
  <2>8. ErrorsKept'
    BY <2>1, <2>3, <2>4, <2>7 DEF chain, ErrorsKept, DomainGiven, Forms
  <2> QED
    BY <1>C, <2>1, <2>3, <2>5, <2>6, <2>8 DEF CallInv, EntryHolds, OutcomesTraced
<1>5. CASE UnknownOperation
  <2>1. given = Nobody /\ OtherEntry /\ turn' = "host" /\ UNCHANGED <<chain, hop, given>>
    BY <1>0, <1>5, DispatchedFits DEF UnknownOperation, CallTyped
  <2>2. /\ value' \in Answers(Codes) /\ value'.kind = "runtime"
        /\ Failure(value') = "unknown_operation"
    BY <1>5 DEF UnknownOperation, Answers, Runtime, Failure, FailureKinds
  <2>3. CallTyped'
    BY <1>0, <2>1, <2>2 DEF chain, CallTyped
  <2> QED
    BY <1>N, <1>C, <1>0, <2>1, <2>2, <2>3
      DEF chain, CallInv, EntryHolds, ErrorsKept, OutcomesTraced, DomainGiven
<1>6. CASE HostDelivers
  <2>0. turn = "host" /\ turn' = "caller" /\ UNCHANGED <<chain, hop>>
    BY <1>6 DEF HostDelivers
  <2>1. CASE value' = Decoded(value) /\ UNCHANGED given
    <3>1. /\ value \in Answers(Codes) /\ value.kind # "thrown"
      BY <1>0, <2>0 DEF CallTyped, OutcomesTraced
    <3>2. /\ value' \in Answers(Codes)
          /\ value'.kind = "success" => value' = value
          /\ value'.kind = "domain" => value.kind = "domain" /\ value.form # "shapeless"
          /\ value.kind = "domain" /\ value.form \in {"string", "object"} =>
               /\ value'.kind = "domain" /\ value'.code = value.code
               /\ value'.form \in {"string", "object"}
               /\ value'.form = "string" <=> value.form = "string" /\ value.code \in Known
          /\ Failure(value') \in {Failure(value), "none", "plugin_failure"}
          /\ value.kind = "runtime" => Failure(value') = Failure(value)
      BY <2>1, <3>1, DecodedDoes
    <3>3. CallTyped'
      BY <1>0, <2>0, <2>1, <3>2 DEF chain, CallTyped
    <3>4. ErrorsKept'
      <4>1. CASE DomainGiven
        <5>1. given.code \in Codes
          BY <1>0, <4>1 DEF CallTyped, DomainGiven, Answers, Domain, Success, Runtime, Thrown,
             Nobody
        <5>2. given.code \in Known <=> given.code = new /\ hop \notin old
          BY <1>0, <5>1, NewIsKnown
        <5>3. old \cap (hop .. hops) = {} <=> hop \notin old /\ old \cap (hop + 1 .. hops) = {}
          BY <1>0 DEF CallTyped
        <5>4. /\ value.kind = "domain" /\ value.code = given.code
              /\ value.form \in {"string", "object"}
              /\ value.form = "string" <=>
                   /\ given.form = "string" /\ old \cap (hop + 1 .. hops) = {}
                   /\ hop < hops => given.code = new
          BY <1>0, <2>0, <4>1 DEF ErrorsKept
        <5> QED
          BY <2>0, <2>1, <3>2, <4>1, <5>2, <5>3, <5>4 DEF chain, ErrorsKept, DomainGiven
      <4>2. CASE ~ DomainGiven
        BY <1>0, <2>0, <2>1, <3>2, <4>2 DEF ErrorsKept, DomainGiven
      <4> QED
        BY <4>1, <4>2
    <3>5. OutcomesTraced'
      <4>1. Failure(value') = "unknown_operation" <=> Failure(value) = "unknown_operation"
        BY <3>1, <3>2 DEF Failure
      <4>2. Failure(value') = "protocol_violation" => Failure(value) = "protocol_violation"
        BY <3>2
      <4> QED
        BY <1>C, <1>0, <2>0, <2>1, <3>2, <4>1, <4>2 DEF OutcomesTraced, Failure
    <3> QED
      BY <1>C, <1>0, <2>0, <2>1, <3>3, <3>4, <3>5 DEF chain, CallInv, EntryHolds
  <2>2. ASSUME NEW fault \in {Runtime("cancelled"), Thrown("cancelled"), Thrown("none")},
               given' = fault, value' = Decoded(fault)
        PROVE  CallInv'
    <3>1. /\ fault \in Answers(Codes) /\ fault.kind \in {"runtime", "thrown"}
          /\ Failure(fault) \in {"cancelled", "none"} /\ fault # Nobody
      BY DEF Runtime, Thrown, Answers, FailureKinds, Failure, Nobody
    <3>2. /\ value' \in Answers(Codes) /\ value'.kind \in {"runtime", "thrown"}
          /\ Failure(value') \in {"cancelled", "none", "plugin_failure"}
      BY <2>2, <3>1, DecodedDoes
    <3>3. CallTyped'
      BY <1>0, <2>0, <2>2, <3>1, <3>2 DEF chain, CallTyped
    <3> QED
      BY <1>C, <1>0, <2>0, <2>2, <3>1, <3>2, <3>3
        DEF chain, CallInv, EntryHolds, ErrorsKept, OutcomesTraced, DomainGiven
  <2> QED
    BY <1>6, <2>1, <2>2 DEF HostDelivers
<1>7. CASE RelayAnswers
  <2>0. turn = "caller" /\ turn' = "host" /\ UNCHANGED <<chain, given>> /\ hop > 1
        /\ hop' = hop - 1 /\ value' = Outcome(value)
    BY <1>7 DEF RelayAnswers
  <2>1. value \in Answers(Codes) /\ hops > 1 /\ ~ OtherEntry
    BY <1>0, <2>0 DEF CallTyped, EntryHolds
  <2>2. /\ value' \in Answers(Codes) /\ value'.kind # "thrown" /\ Failure(value') # "input"
        /\ value'.kind = "success" => value' = value
        /\ value'.kind = "domain" => value' = value
        /\ value.kind = "domain" /\ value.form # "unsafe" => value' = value
        /\ Failure(value') = "protocol_violation" =>
             Failure(value) \in {"protocol_violation", "input"}
        /\ Failure(value') = "unknown_operation" => Failure(value) = "unknown_operation"
    BY <2>0, <2>1, OutcomeDoes
  <2>3. CallTyped'
    BY <1>0, <2>0, <2>2 DEF chain, CallTyped
  <2>4. ErrorsKept'
    <3>1. hop' + 1 = hop /\ hop' < hops
      BY <1>0, <2>0 DEF CallTyped
    <3> QED
      BY <1>0, <2>0, <2>2, <3>1 DEF chain, ErrorsKept, DomainGiven
  <2>5. OutcomesTraced'
    BY <1>C, <1>0, <2>0, <2>1, <2>2 DEF OutcomesTraced, Failure
  <2> QED
    BY <1>C, <1>0, <2>0, <2>1, <2>3, <2>4, <2>5 DEF CallInv, EntryHolds
<1>8. CASE UseStream
  <2>1. turn' = "client" /\ given' = Nobody /\ verb' \in SessionVerbs /\ value' \in Payloads
        /\ UNCHANGED <<contract, op, hops, new, old, hop>>
    BY <1>8 DEF UseStream, Payloads
  <2>2. ~ OtherEntry'
    BY <2>1 DEF OtherEntry, Entries, SessionVerbs
  <2>3. CallTyped'
    BY <1>0, <2>1 DEF CallTyped, Nobody
  <2> QED
    BY <2>1, <2>2, <2>3 DEF CallInv, EntryHolds, ErrorsKept, OutcomesTraced
<1> QED
  BY <1>1, <1>2, <1>3, <1>4, <1>5, <1>6, <1>7, <1>8 DEF CallNext

LEMMA CallAnswers == CallInv => CallTypeOK /\ DomainErrorsSurvive /\ AnswersAreGiven
<1> SUFFICES ASSUME CallInv PROVE CallTypeOK /\ DomainErrorsSurvive /\ AnswersAreGiven
  OBVIOUS
<1>0. CallTyped /\ EntryHolds /\ ErrorsKept /\ OutcomesTraced
  BY DEF CallInv
<1>1. CallTypeOK
  BY <1>0 DEF CallTyped, CallTypeOK, Bindings
<1>2. DomainErrorsSurvive
  <2>1. hop = 1 => old \cap (hop .. hops) = old
    BY <1>0 DEF CallTyped
  <2> QED
    BY <1>0, <2>1 DEF DomainErrorsSurvive, Answered, ErrorsKept, DomainGiven
<1>3. AnswersAreGiven
  BY <1>0 DEF AnswersAreGiven, Answered, OutcomesTraced, EntryHolds, OtherEntry
<1> QED
  BY <1>1, <1>2, <1>3

(***************************************************************************)
(* A chain of calls: the inductive invariant                               *)
(***************************************************************************)

\* A scope as its server builds it, or the host as the first one.
ScopeRecords ==
  [scope_id : Seq(Nat), parent_scope_id : Seq(Nat),
   remaining_budget_nanos : Nat, permissions : {"granted"}, extensions : {"given"}]

\* A budget that was handed over at some time ends no later than the first one,
\* but for what the requests were on their way.
InBudget(scope, time) ==
  \/ scope.remaining_budget_nanos = 0
  \/ time + scope.remaining_budget_nanos <= scopes[1].remaining_budget_nanos + transit

WireTyped ==
  /\ entry \in Interactions \cup {"session"}
  /\ scopes \in Seq(ScopeRecords) /\ Hop \in 1 .. ChainLength
  /\ started \in Seq(Nat) /\ Len(started) = Hop
  /\ clock \in 0 .. MaxTime /\ transit \in 0 .. clock
  /\ phase \in {"plugin", "request", "result", "answered", "done", "refused", "session"}
  /\ phase \in {"plugin", "request", "result", "answered"} => entry \in Interactions
  /\ phase = "session" => entry = "session"

\* The ids of the scopes have a part of their own and those of the scopes above.
ScopesNest ==
  \A i \in 1 .. Hop :
    /\ Len(scopes[i].scope_id) = i
    /\ i > 1 => scopes[i].parent_scope_id = scopes[i - 1].scope_id
    /\ started[i] <= clock
    /\ InBudget(scopes[i], started[i])

\* The scope of a request under way would nest at any time it arrives.
RequestNests ==
  phase = "request" =>
    /\ Hop < ChainLength
    /\ DOMAIN sent = {"session", "correlation_id", "requirement_id", "route_id",
                      "operation", "scope", Carried[entry]}
    /\ sent.scope \in ScopeRecords
    /\ Len(sent.scope.scope_id) = Hop + 1
    /\ sent.scope.parent_scope_id = scopes[Hop].scope_id
    /\ sent.scope.remaining_budget_nanos <= scopes[Hop].remaining_budget_nanos
    /\ InBudget(sent.scope, clock)

\* The kind a server puts on the wire for a failure.
Normal(kind) == IF kind \in Passed THEN kind ELSE "plugin_failure"

\* A failure on the wire is in normal form: of a kind that is passed on, without a
\* detail, or the failure of a plugin with a text for one.
OnTheWire ==
  phase \in {"result", "done"} /\ entry # "session" =>
    /\ origin.own \in BOOLEAN /\ origin.reader \in Nat
    /\ origin.reader >= Hop - 1 /\ (~ origin.own => origin.reader >= Hop)
    /\ phase = "done" => Hop = 1
    /\ sent.outcome.kind = origin.kind
    /\ origin.kind = "runtime" =>
         LET f == sent.outcome.failure IN
         /\ f.kind = Normal(origin.failure) /\ "says" \notin DOMAIN f
         /\ f.kind \in Passed => "detail" \notin DOMAIN f
         /\ f.kind \notin Passed =>
              /\ "detail" \in DOMAIN f /\ "says" \in DOMAIN f.detail
              /\ f.detail.says = "object" <=> entry = "invoke" /\ origin.reader >= Hop

\* What a client returned: the first reader of a failure of the host has its kind,
\* everyone else its normal form; the client of a request wraps what it read.
AtTheClient ==
  phase = "answered" =>
    /\ origin.own \in BOOLEAN /\ origin.reader \in Nat /\ origin.reader >= Hop
    /\ answer.kind = origin.kind
    /\ origin.kind = "runtime" =>
         LET f == answer.failure IN
         /\ f.kind = IF origin.reader = Hop /\ ~ origin.own
                       THEN origin.failure ELSE Normal(origin.failure)
         /\ Says(f) = "object" <=>
              entry = "invoke" /\ origin.reader > Hop /\ origin.failure \notin Passed
         /\ f.kind \notin Passed =>
              /\ entry = "invoke" => "detail" \in DOMAIN f /\ "says" \notin DOMAIN f.detail
              /\ entry # "invoke" /\ "detail" \in DOMAIN f => "says" \in DOMAIN f.detail

WireInv == WireTyped /\ ScopesNest /\ RequestNests /\ OnTheWire /\ AtTheClient

(***************************************************************************)
(* A chain of calls: failures                                              *)
(***************************************************************************)
LEMMA PassedHaveNoDetail ==
  /\ Passed \subseteq Kinds /\ "plugin_failure" \in Kinds \ Passed
  /\ FailureFields["plugin_failure"] = {"detail"}
  /\ \A kind \in Passed :
       "detail" \notin FailureFields[kind] /\ "says" \notin FailureFields[kind]
  BY DEF Passed, Kinds, FailureFields

LEMMA FailureOfDoes ==
  ASSUME NEW kind \in Kinds, NEW text
  PROVE  LET f == FailureOf(kind, text) IN
         /\ f.kind = kind /\ DOMAIN f = {"kind"} \cup FailureFields[kind]
         /\ "detail" \in DOMAIN f => f.detail = text
  BY DEF FailureOf

LEMMA NewFailure ==
  ASSUME NEW text
  PROVE  LET n == FailureOf("plugin_failure", text) IN
         /\ n.kind = "plugin_failure" /\ "detail" \in DOMAIN n /\ n.detail = text
         /\ "says" \notin DOMAIN n
<1> DEFINE n == FailureOf("plugin_failure", text)
<1>1. /\ n.kind = "plugin_failure" /\ DOMAIN n = {"kind", "detail"}
      /\ "detail" \in DOMAIN n => n.detail = text
  <2>1. {"kind"} \cup FailureFields["plugin_failure"] = {"kind", "detail"}
    BY PassedHaveNoDetail
  <2> QED
    BY <2>1, PassedHaveNoDetail, FailureOfDoes
<1> HIDE DEF n
<1> QED
  BY <1>1 DEF n

LEMMA BoundedErrorDoes ==
  ASSUME NEW cause
  PROVE  LET b == boundedError(cause) IN
         /\ "says" \in DOMAIN b
         /\ b.says = "object" =>
              "says" \notin DOMAIN cause \/ cause.says = "object"
         /\ "says" \notin DOMAIN cause => b.says = "object"
<1> DEFINE text == IF "says" \in DOMAIN cause THEN cause ELSE ObjectText
           full == IF text.widths = <<>> THEN EmptyText ELSE text
<1>1. "says" \notin DOMAIN cause => full.says = "object"
  BY DEF ObjectText, Text
<1>2. full.says = "object" => "says" \notin DOMAIN cause \/ cause.says = "object"
  BY DEF EmptyText, Text
<1>3. boundedError(cause) = [says |-> full.says, widths |-> CutBytes(full.widths)]
  BY DEF boundedError, Text
<1> HIDE DEF full
<1> QED
  BY <1>1, <1>2, <1>3

LEMMA NormalizeDoes ==
  ASSUME NEW f
  PROVE  LET n == normalizeRuntimeFailure(f) IN
         /\ n.kind = Normal(f.kind) /\ "says" \notin DOMAIN n
         /\ f.kind \in Passed => "detail" \notin DOMAIN n
         /\ f.kind \notin Passed => "detail" \in DOMAIN n /\ "says" \in DOMAIN n.detail
         /\ f.kind \notin Passed /\ n.detail.says = "object" =>
              /\ "detail" \in DOMAIN f
              /\ "says" \notin DOMAIN f.detail \/ f.detail.says = "object"
         /\ f.kind \notin Passed /\ "detail" \in DOMAIN f /\ "says" \notin DOMAIN f.detail =>
              n.detail.says = "object"
<1> DEFINE detail == IF "detail" \in DOMAIN f THEN f.detail ELSE KindText
<1>1. CASE f.kind \in Passed
  <2>1. normalizeRuntimeFailure(f) = FailureOf(f.kind, KindText)
    BY <1>1 DEF normalizeRuntimeFailure
  <2>2. /\ FailureOf(f.kind, KindText).kind = f.kind
        /\ DOMAIN FailureOf(f.kind, KindText) = {"kind"} \cup FailureFields[f.kind]
    BY <1>1, PassedHaveNoDetail, FailureOfDoes
  <2>3. /\ "detail" \notin {"kind"} \cup FailureFields[f.kind]
        /\ "says" \notin {"kind"} \cup FailureFields[f.kind]
    BY <1>1, PassedHaveNoDetail
  <2> QED
    BY <1>1, <2>1, <2>2, <2>3 DEF Normal
<1>2. CASE f.kind \notin Passed
  <2>1. normalizeRuntimeFailure(f) = FailureOf("plugin_failure", boundedError(detail))
    BY <1>2 DEF normalizeRuntimeFailure
  <2>2. "detail" \notin DOMAIN f => "says" \in DOMAIN detail /\ detail.says # "object"
    BY DEF KindText, Text
  <2>3. "detail" \in DOMAIN f => detail = f.detail
    OBVIOUS
  <2> DEFINE text == boundedError(detail)
             n == FailureOf("plugin_failure", text)
  <2>4. /\ "says" \in DOMAIN text
        /\ text.says = "object" => "says" \notin DOMAIN detail \/ detail.says = "object"
        /\ "says" \notin DOMAIN detail => text.says = "object"
    BY BoundedErrorDoes
  <2> HIDE DEF detail, text
  <2>5. /\ n.kind = "plugin_failure" /\ "detail" \in DOMAIN n /\ n.detail = text
        /\ "says" \notin DOMAIN n
    BY NewFailure
  <2> HIDE DEF n
  <2>6. normalizeRuntimeFailure(f) = n
    BY <2>1 DEF n, text
  <2> QED
    BY <1>2, <2>2, <2>3, <2>4, <2>5, <2>6 DEF Normal
<1> QED
  BY <1>1, <1>2

\* What the client of a plugin makes of a failure on the wire.
LEMMA FromWireDoes ==
  ASSUME entry # "session", NEW f
  PROVE  LET g == fromWireOutcome(Failing(f)) IN
         /\ g.kind = "runtime" /\ g.failure.kind = f.kind
         /\ entry = "invoke" =>
              "detail" \in DOMAIN g.failure /\ g.failure.detail = f
         /\ entry # "invoke" => g.failure = f
  BY DEF fromWireOutcome, Failing

(***************************************************************************)
(* A chain of calls: scopes                                                *)
(***************************************************************************)
LEMMA ChildNests ==
  ASSUME WireTyped, ScopesNest, NEW added \in PartLengths
  PROVE  LET s == outboundScope(Hop, added) IN
         /\ s \in ScopeRecords /\ s.scope_id = Append(scopes[Hop].scope_id, added)
         /\ Len(s.scope_id) = Hop + 1 /\ s.parent_scope_id = scopes[Hop].scope_id
         /\ s.remaining_budget_nanos <= scopes[Hop].remaining_budget_nanos
         /\ InBudget(s, clock)
<1> DEFINE p == scopes[Hop]
           left == p.remaining_budget_nanos - (clock - started[Hop])
           rest == Remaining(Hop)
<1>1. /\ Hop \in Nat /\ Hop >= 1 /\ Hop \in 1 .. Len(scopes)
  BY DEF WireTyped, Hop
<1>2. /\ p \in ScopeRecords /\ scopes[1] \in ScopeRecords
  BY <1>1 DEF WireTyped
<1>3. /\ p.scope_id \in Seq(Nat) /\ p.remaining_budget_nanos \in Nat
      /\ p.permissions = "granted" /\ p.extensions = "given"
      /\ scopes[1].remaining_budget_nanos \in Nat
  BY <1>2 DEF ScopeRecords
<1>4. /\ started[Hop] \in Nat /\ clock \in Nat /\ transit \in Nat /\ started[Hop] <= clock
      /\ Len(p.scope_id) = Hop /\ InBudget(p, started[Hop])
  BY <1>1, WireAssumption DEF WireTyped, ScopesNest
<1>5. rest = IF left < 0 THEN 0 ELSE left
  BY DEF Remaining
<1>6. /\ rest \in Nat /\ rest <= p.remaining_budget_nanos
      /\ rest = 0 \/ clock + rest <= scopes[1].remaining_budget_nanos + transit
  BY <1>3, <1>4, <1>5 DEF InBudget
<1>7. Append(p.scope_id, added) \in Seq(Nat) /\ Len(Append(p.scope_id, added)) = Hop + 1
  <2>1. added \in 1 .. LongestPart /\ LongestPart \in Nat
    BY WireAssumption
  <2>2. added \in Nat
    BY <2>1
  <2> QED
    BY <1>1, <1>3, <1>4, <2>2
<1>8. outboundScope(Hop, added) =
        [scope_id |-> Append(p.scope_id, added), parent_scope_id |-> p.scope_id,
         remaining_budget_nanos |-> rest, permissions |-> "granted", extensions |-> "given"]
  BY <1>3 DEF outboundScope
<1> HIDE DEF p, left, rest
<1>9. outboundScope(Hop, added) \in ScopeRecords
  BY <1>3, <1>6, <1>7, <1>8 DEF ScopeRecords
<1> QED
  BY <1>6, <1>7, <1>8, <1>9 DEF InBudget, p

\* The scopes of a chain that gets longer, or shorter, still nest.
LEMMA ForwardedNest ==
  ASSUME WireTyped, ScopesNest, NEW s \in ScopeRecords, Hop < ChainLength,
         Len(s.scope_id) = Hop + 1, s.parent_scope_id = scopes[Hop].scope_id, InBudget(s, clock),
         scopes' = Append(scopes, s), started' = Append(started, clock),
         UNCHANGED <<entry, clock, transit>>, phase' = "plugin", phase = "request"
  PROVE  WireTyped' /\ ScopesNest'
<1>1. /\ Hop \in Nat /\ Hop >= 1 /\ Len(scopes) = Hop /\ Len(started) = Hop
      /\ ChainLength \in Nat /\ clock \in Nat /\ Hop <= ChainLength
  BY WireAssumption DEF WireTyped, Hop
<1>2. /\ scopes' \in Seq(ScopeRecords) /\ Len(scopes') = Hop + 1 /\ Hop' = Hop + 1
      /\ \A i \in 1 .. Hop : scopes'[i] = scopes[i]
      /\ scopes'[Hop + 1] = s
  BY <1>1 DEF WireTyped, Hop
<1>3. /\ started' \in Seq(Nat) /\ Len(started') = Hop + 1
      /\ \A i \in 1 .. Hop : started'[i] = started[i]
      /\ started'[Hop + 1] = clock
  BY <1>1 DEF WireTyped
<1>4. WireTyped'
  BY <1>1, <1>2, <1>3 DEF WireTyped
<1>5. scopes'[1] = scopes[1]
  BY <1>1, <1>2
<1>6. ASSUME NEW i \in 1 .. Hop + 1
      PROVE  /\ Len(scopes'[i].scope_id) = i
             /\ i > 1 => scopes'[i].parent_scope_id = scopes'[i - 1].scope_id
             /\ started'[i] <= clock'
             /\ InBudget(scopes[i], started[i])' 
  <2>1. CASE i = Hop + 1
    <3>1. i - 1 = Hop /\ scopes'[i - 1] = scopes[Hop]
      BY <1>1, <1>2, <2>1
    <3> QED
      BY <1>1, <1>2, <1>3, <1>5, <2>1, <3>1 DEF InBudget
  <2>2. CASE i \in 1 .. Hop
    <3>1. i > 1 => i - 1 \in 1 .. Hop
      BY <1>1, <2>2
    <3> QED
      BY <1>1, <1>2, <1>3, <1>5, <2>2, <3>1 DEF InBudget, ScopesNest
  <2> QED
    BY <1>1, <2>1, <2>2
<1> QED
  BY <1>2, <1>4, <1>6 DEF ScopesNest

LEMMA ReturnedNest ==
  ASSUME WireTyped, ScopesNest, Hop > 1, scopes' = Front(scopes), started' = Front(started),
         UNCHANGED <<entry, clock, transit>>, phase' = "answered", phase = "result"
  PROVE  WireTyped' /\ ScopesNest' /\ Hop' = Hop - 1
<1>1. /\ Hop \in Nat /\ Len(scopes) = Hop /\ Len(started) = Hop /\ Hop - 1 \in 1 .. ChainLength
      /\ scopes \in Seq(ScopeRecords) /\ started \in Seq(Nat)
  BY WireAssumption DEF WireTyped, Hop
<1>2. /\ scopes' \in Seq(ScopeRecords) /\ Len(scopes') = Hop - 1
      /\ \A i \in 1 .. Hop - 1 : scopes'[i] = scopes[i]
  BY <1>1 DEF Front
<1>3. /\ started' \in Seq(Nat) /\ Len(started') = Hop - 1
      /\ \A i \in 1 .. Hop - 1 : started'[i] = started[i]
  BY <1>1 DEF Front
<1>4. Hop' = Hop - 1
  BY <1>2 DEF Hop
<1>5. WireTyped'
  BY <1>1, <1>2, <1>3, <1>4 DEF WireTyped
<1>6. scopes'[1] = scopes[1]
  BY <1>1, <1>2
<1>7. ASSUME NEW i \in 1 .. Hop - 1
      PROVE  /\ Len(scopes'[i].scope_id) = i
             /\ i > 1 => scopes'[i].parent_scope_id = scopes'[i - 1].scope_id
             /\ started'[i] <= clock'
             /\ InBudget(scopes[i], started[i])'
  <2>1. i \in 1 .. Hop /\ (i > 1 => i - 1 \in 1 .. Hop - 1)
    BY <1>1
  <2> QED
    BY <1>1, <1>2, <1>3, <1>6, <2>1 DEF InBudget, ScopesNest
<1> QED
  BY <1>4, <1>5, <1>7 DEF ScopesNest

(***************************************************************************)
(* A chain of calls: the steps                                             *)
(***************************************************************************)
LEMMA WireStarts == WireInit => WireInv
<1> SUFFICES ASSUME WireInit PROVE WireInv
  OBVIOUS
<1>1. PICK budget \in 0 .. MaxBudget, length \in RootLengths :
        scopes = <<RootScope(budget, length)>>
  BY DEF WireInit
<1>2. RootScope(budget, length) \in ScopeRecords /\ Len(RootScope(budget, length).scope_id) = 1
  BY <1>1, WireAssumption DEF RootScope, ScopeRecords, NoParent
<1>3. /\ Hop = 1 /\ scopes[1] = RootScope(budget, length) /\ scopes \in Seq(ScopeRecords)
      /\ started \in Seq(Nat) /\ Len(started) = 1 /\ started[1] = 0
  BY <1>1, <1>2 DEF WireInit, Hop
<1>4. WireTyped
  BY <1>3, WireAssumption DEF WireInit, WireTyped
<1>5. InBudget(scopes[1], 0)
  BY <1>2, <1>3, WireAssumption DEF WireInit, InBudget, ScopeRecords
<1>6. ScopesNest
  BY <1>2, <1>3, <1>5 DEF WireInit, ScopesNest
<1> QED
  BY <1>4, <1>6 DEF WireInit, WireInv, RequestNests, OnTheWire, AtTheClient

\* Where only the phase changes, or the message, scopes nest as before.
LEMMA ScopesKept ==
  ASSUME WireTyped, ScopesNest, UNCHANGED chainVars,
         phase' \in {"plugin", "request", "result", "answered", "done", "refused", "session"},
         phase' \in {"plugin", "request", "result", "answered"} => entry \in Interactions,
         phase' = "session" => entry = "session"
  PROVE  WireTyped' /\ ScopesNest' /\ Hop' = Hop
  BY DEF WireTyped, ScopesNest, InBudget, chainVars, Hop

\* What a plugin gives, or throws, is in normal form on the wire.
LEMMA GivenOnTheWire ==
  ASSUME WireTyped, phase = "plugin", NEW f, NEW o, NEW text, NEW failure,
         o = Failing(f), origin' = Started(TRUE, Failing(failure), text),
         sent' = Result(o), UNCHANGED chainVars, phase' = "result",
         f.kind = Normal(failure.kind), "says" \notin DOMAIN f,
         f.kind \in Passed => "detail" \notin DOMAIN f,
         f.kind \notin Passed =>
           "detail" \in DOMAIN f /\ "says" \in DOMAIN f.detail /\ f.detail.says # "object"
  PROVE  OnTheWire'
<1>1. /\ Hop \in Nat /\ Hop >= 1 /\ Hop' = Hop /\ entry' = entry
      /\ Hop - 1 \in Nat /\ ~ (Hop - 1 >= Hop)
  BY WireAssumption DEF WireTyped, chainVars, Hop
<1>2. /\ origin'.own \in BOOLEAN /\ origin'.own /\ origin'.reader = Hop - 1
      /\ origin'.kind = "runtime"
      /\ origin'.failure = failure.kind
  BY DEF Started, Failing
<1>3. sent'.outcome.kind = "runtime" /\ sent'.outcome.failure = f
  BY DEF Result, Failing
<1>4. sent'.outcome.failure.kind = Normal(origin'.failure)
  BY <1>2, <1>3 DEF Normal
<1>5. /\ f.kind \in Passed => "detail" \notin DOMAIN sent'.outcome.failure
      /\ f.kind \notin Passed =>
           /\ "detail" \in DOMAIN sent'.outcome.failure
           /\ "says" \in DOMAIN sent'.outcome.failure.detail
           /\ sent'.outcome.failure.detail.says # "object"
  BY <1>3
<1>6. phase' # "done" /\ sent'.outcome.failure.kind = f.kind
      /\ "says" \notin DOMAIN sent'.outcome.failure
  BY <1>3
<1>7. ~ (origin'.reader >= Hop') /\ origin'.reader >= Hop' - 1
  <2>1. \A h \in Nat : \A r \in Nat : r = h - 1 => ~ (r >= h) /\ r >= h - 1
    OBVIOUS
  <2>2. Hop' \in Nat /\ origin'.reader \in Nat /\ origin'.reader = Hop' - 1
    BY <1>1, <1>2
  <2> QED
    BY <2>1, <2>2
<1>8. origin'.reader \in Nat
  BY <1>1, <1>2
<1> QED
  BY <1>2, <1>3, <1>4, <1>5, <1>6, <1>7, <1>8 DEF OnTheWire, Normal

LEMMA WirePreserves == WireInv /\ [WireNext]_wireVars => WireInv'
<1> SUFFICES ASSUME WireInv, [WireNext]_wireVars PROVE WireInv'
  OBVIOUS
<1>0. WireTyped /\ ScopesNest /\ RequestNests /\ OnTheWire /\ AtTheClient
  BY DEF WireInv
<1>T. /\ Hop \in Nat /\ Hop >= 1 /\ Hop <= ChainLength /\ clock \in Nat /\ transit \in Nat
      /\ transit <= clock /\ MaxTime \in Nat /\ clock <= MaxTime
      /\ "session" \notin Interactions
  BY <1>0, WireAssumption DEF WireTyped, Interactions
<1>1. CASE UNCHANGED wireVars
  BY <1>0, <1>1 DEF wireVars, WireInv, WireTyped, ScopesNest, InBudget, RequestNests, OnTheWire,
     AtTheClient, Hop
<1>2. CASE PluginCalls
  <2>1. /\ UNCHANGED chainVars /\ phase = "plugin" /\ phase' = "request" /\ Hop < ChainLength
        /\ entry \in Interactions
    BY <1>0, <1>2 DEF PluginCalls, WireTyped
  <2>2. WireTyped' /\ ScopesNest' /\ Hop' = Hop
    BY <1>0, <2>1, ScopesKept
  <2>0. PICK added \in PartLengths : sent' = OutboundRequest(Hop, added)
    BY <1>2 DEF PluginCalls
  <2>3. /\ sent'.scope = outboundScope(Hop, added)
        /\ DOMAIN sent' = {"session", "correlation_id", "requirement_id", "route_id",
                           "operation", "scope", Carried[entry]}
    BY <2>0 DEF OutboundRequest
  <2>4. RequestNests'
    BY <1>0, <2>1, <2>2, <2>3, ChildNests DEF RequestNests, InBudget, chainVars
  <2> QED
    BY <2>1, <2>2, <2>4 DEF WireInv, OnTheWire, AtTheClient
<1>3. CASE CallFailsAtHome
  <2>1. PICK kind \in {"cancelled", "resource_exhausted"} :
          /\ answer' = Failing(IF entry = "invoke"
                                 THEN [kind |-> kind, detail |-> KindText]
                                 ELSE FailureOf(kind, KindText))
          /\ origin' = Started(FALSE, answer', <<>>)
    BY <1>3 DEF CallFailsAtHome
  <2>2. /\ UNCHANGED chainVars /\ phase = "plugin" /\ phase' = "answered"
        /\ entry \in Interactions
    BY <1>0, <1>3 DEF CallFailsAtHome, WireTyped
  <2>3. WireTyped' /\ ScopesNest' /\ Hop' = Hop
    BY <1>0, <2>2, ScopesKept
  <2>4. kind \in Passed /\ kind \in Kinds /\ "detail" \notin FailureFields[kind]
    BY PassedHaveNoDetail DEF Passed
  <2>5. /\ answer'.kind = "runtime" /\ answer'.failure.kind = kind
        /\ Says(answer'.failure) # "object"
    <3>1. CASE entry = "invoke"
      BY <2>1, <3>1 DEF Failing, Says, KindText, Text
    <3>2. CASE entry # "invoke"
      <4>1. /\ FailureOf(kind, KindText).kind = kind
            /\ DOMAIN FailureOf(kind, KindText) = {"kind"} \cup FailureFields[kind]
        BY <2>4, FailureOfDoes
      <4>2. answer'.kind = "runtime" /\ answer'.failure = FailureOf(kind, KindText)
        BY <2>1, <3>2 DEF Failing
      <4> QED
        BY <2>4, <4>1, <4>2 DEF Says
    <3> QED
      BY <3>1, <3>2
  <2>6. /\ origin'.own \in BOOLEAN /\ ~ origin'.own /\ origin'.reader = Hop
        /\ origin'.kind = "runtime"
        /\ origin'.failure = kind
    BY <2>1, <2>5 DEF Started
  <2>7. AtTheClient'
    BY <1>T, <2>2, <2>3, <2>4, <2>5, <2>6 DEF AtTheClient
  <2> QED
    BY <2>2, <2>3, <2>7 DEF WireInv, OnTheWire, RequestNests
<1>4. CASE HostForwards
  <2>1. /\ sent.scope \in ScopeRecords /\ Hop < ChainLength
        /\ Len(sent.scope.scope_id) = Hop + 1 /\ sent.scope.parent_scope_id = scopes[Hop].scope_id
        /\ InBudget(sent.scope, clock)
    BY <1>0, <1>4 DEF HostForwards, RequestNests
  <2>2. WireTyped' /\ ScopesNest'
    BY <1>0, <1>4, <2>1, ForwardedNest DEF HostForwards
  <2> QED
    BY <1>4, <2>2 DEF HostForwards, WireInv, RequestNests, OnTheWire, AtTheClient
<1>5. CASE HostAnswers
  <2>1. PICK kind \in Kinds, cause \in Causes :
          LET outcome == Failing(FailureOf(kind, Text("cause", cause)))
          IN  /\ answer' = fromWireOutcome(outcome)
              /\ origin' = Started(FALSE, outcome, cause)
    BY <1>5 DEF HostAnswers
  <2>2. /\ UNCHANGED chainVars /\ phase = "request" /\ phase' = "answered"
        /\ entry \in Interactions
    BY <1>0, <1>5 DEF HostAnswers, WireTyped
  <2>3. WireTyped' /\ ScopesNest' /\ Hop' = Hop
    BY <1>0, <2>2, ScopesKept
  <2> DEFINE f == FailureOf(kind, Text("cause", cause))
  <2>4. /\ f.kind = kind
        /\ "detail" \in DOMAIN f => f.detail = Text("cause", cause)
    BY FailureOfDoes
  <2>5. /\ answer'.kind = "runtime" /\ answer'.failure.kind = f.kind
        /\ entry = "invoke" =>
             "detail" \in DOMAIN answer'.failure /\ answer'.failure.detail = f
        /\ entry # "invoke" => answer'.failure = f
    BY <1>T, <2>1, <2>2, FromWireDoes
  <2>6. DOMAIN f = {"kind"} \cup FailureFields[kind] /\ "says" \notin DOMAIN f
    <3>1. DOMAIN f = {"kind"} \cup FailureFields[kind]
      BY FailureOfDoes
    <3>2. "says" \notin FailureFields[kind]
      BY DEF Kinds, FailureFields
    <3> QED
      BY <3>1, <3>2
  <2>7. /\ origin'.own \in BOOLEAN /\ ~ origin'.own /\ origin'.reader = Hop
        /\ origin'.kind = "runtime"
        /\ origin'.failure = kind
    BY <2>1, <2>4 DEF Started, Failing
  <2> HIDE DEF f
  <2>8. /\ Says(answer'.failure) # "object"
        /\ entry # "invoke" /\ "detail" \in DOMAIN answer'.failure =>
             "says" \in DOMAIN answer'.failure.detail
        /\ entry = "invoke" => "says" \notin DOMAIN answer'.failure.detail
    BY <2>4, <2>5, <2>6 DEF Says, Text
  <2>9. AtTheClient'
    BY <1>T, <2>2, <2>3, <2>4, <2>5, <2>7, <2>8 DEF AtTheClient, chainVars
  <2> QED
    BY <2>2, <2>3, <2>9 DEF WireInv, OnTheWire, RequestNests
<1>6. CASE PluginAnswers
  <2>1. /\ UNCHANGED chainVars /\ phase = "plugin" /\ phase' = "result"
        /\ entry \in Interactions
    BY <1>0, <1>6 DEF PluginAnswers, WireTyped
  <2>2. WireTyped' /\ ScopesNest' /\ Hop' = Hop
    BY <1>0, <2>1, ScopesKept
  <2>3. OnTheWire'
    <3>1. ASSUME NEW outcome \in GoodOutcomes, sent' = Result(outcome),
                 origin' = Started(TRUE, outcome, <<>>)
          PROVE  OnTheWire'
      <4>1. outcome.kind # "runtime"
        BY <2>1 DEF GoodOutcomes, Interactions
      <4>2. /\ origin'.own \in BOOLEAN /\ origin'.own /\ origin'.reader = Hop - 1
            /\ origin'.kind = outcome.kind
            /\ sent'.outcome = outcome
        BY <3>1 DEF Started, Result
      <4> QED
        BY <1>T, <2>1, <2>2, <4>1, <4>2 DEF OnTheWire
    <3>2. ASSUME NEW cause \in Causes, NEW failure \in PluginFailures(Text("cause", cause)),
                 sent' = Result(toWireOutcome(Failing(failure))), NEW text,
                 origin' = Started(TRUE, Failing(failure), text)
          PROVE  OnTheWire'
      <4>1. "detail" \in DOMAIN failure => failure.detail = Text("cause", cause)
        BY DEF PluginFailures
      <4>2. "detail" \in DOMAIN failure =>
              "says" \in DOMAIN failure.detail /\ failure.detail.says # "object"
        BY <4>1 DEF Text
      <4> DEFINE n == normalizeRuntimeFailure(failure)
      <4>3. toWireOutcome(Failing(failure)) = Failing(n)
        BY DEF toWireOutcome, Failing
      <4>4. /\ n.kind = Normal(failure.kind) /\ "says" \notin DOMAIN n
            /\ failure.kind \in Passed => "detail" \notin DOMAIN n
            /\ failure.kind \notin Passed => "detail" \in DOMAIN n /\ "says" \in DOMAIN n.detail
            /\ failure.kind \notin Passed => n.detail.says # "object"
        BY <4>2, NormalizeDoes
      <4>5. n.kind \in Passed <=> failure.kind \in Passed
        BY <4>4, PassedHaveNoDetail DEF Normal
      <4> HIDE DEF n
      <4> QED
        BY <1>0, <2>1, <3>2, <4>3, <4>4, <4>5, GivenOnTheWire
    <3> QED
      BY <1>6, <3>1, <3>2 DEF PluginAnswers
  <2> QED
    BY <2>1, <2>2, <2>3 DEF WireInv, AtTheClient, RequestNests
<1>7. CASE PluginThrows
  <2>1. /\ UNCHANGED chainVars /\ phase = "plugin" /\ phase' = "result"
        /\ entry \in Interactions
    BY <1>0, <1>7 DEF PluginThrows, WireTyped
  <2>2. WireTyped' /\ ScopesNest' /\ Hop' = Hop
    BY <1>0, <2>1, ScopesKept
  <2>3. PICK cause \in Causes :
          /\ sent' = Result(Failing(Abandoned(Text("cause", cause))))
          /\ origin' = Started(TRUE, Failing(Abandoned(Text("cause", cause))), cause)
    BY <1>7 DEF PluginThrows
  <2> DEFINE text == boundedError(Text("cause", cause))
             f == FailureOf("plugin_failure", text)
  <2>4. "says" \in DOMAIN text /\ text.says # "object"
    <3>1. "says" \in DOMAIN Text("cause", cause) /\ Text("cause", cause).says # "object"
      BY DEF Text
    <3> QED
      BY <3>1, BoundedErrorDoes
  <2> HIDE DEF text
  <2>5. /\ f.kind = "plugin_failure" /\ "detail" \in DOMAIN f /\ f.detail = text
        /\ "says" \notin DOMAIN f
    BY NewFailure
  <2>6. Abandoned(Text("cause", cause)) = f
    BY DEF Abandoned, text
  <2> HIDE DEF f
  <2>7. OnTheWire'
    BY <1>0, <2>1, <2>3, <2>4, <2>5, <2>6, PassedHaveNoDetail, GivenOnTheWire DEF Normal
  <2> QED
    BY <2>1, <2>2, <2>7 DEF WireInv, AtTheClient, RequestNests
<1>8. CASE PluginRelays
  <2>1. /\ UNCHANGED <<chainVars, origin>> /\ phase = "answered" /\ phase' = "result"
        /\ entry \in Interactions /\ sent' = Result(toWireOutcome(answer))
    BY <1>0, <1>8 DEF PluginRelays, WireTyped
  <2>2. WireTyped' /\ ScopesNest' /\ Hop' = Hop /\ entry' = entry
    BY <1>0, <2>1, ScopesKept DEF chainVars
  <2>3. /\ origin.own \in BOOLEAN /\ origin.reader \in Nat /\ origin.reader >= Hop
        /\ answer.kind = origin.kind
    BY <1>0, <2>1 DEF AtTheClient
  <2>4. sent'.outcome = toWireOutcome(answer)
    BY <2>1 DEF Result
  <2>5. CASE origin.kind # "runtime"
    <3>1. toWireOutcome(answer) = answer
      BY <2>3, <2>5 DEF toWireOutcome
    <3>2. OnTheWire'
      BY <1>T, <2>1, <2>2, <2>3, <2>4, <2>5, <3>1 DEF OnTheWire
    <3> QED
      BY <2>1, <2>2, <3>2 DEF WireInv, AtTheClient, RequestNests
  <2>6. CASE origin.kind = "runtime"
    <3> DEFINE f == answer.failure
               n == normalizeRuntimeFailure(f)
    <3>1. toWireOutcome(answer).kind = "runtime" /\ toWireOutcome(answer).failure = n
      BY <2>3, <2>6 DEF toWireOutcome, Failing
    <3>2. /\ f.kind = IF origin.reader = Hop /\ ~ origin.own
                        THEN origin.failure ELSE Normal(origin.failure)
          /\ f.kind \notin Passed =>
               /\ entry = "invoke" => "detail" \in DOMAIN f /\ "says" \notin DOMAIN f.detail
               /\ entry # "invoke" /\ "detail" \in DOMAIN f => "says" \in DOMAIN f.detail
          /\ Says(f) = "object" <=>
               entry = "invoke" /\ origin.reader > Hop /\ origin.failure \notin Passed
      BY <1>0, <2>1, <2>6 DEF AtTheClient
    <3>3. /\ n.kind = Normal(f.kind) /\ "says" \notin DOMAIN n
          /\ f.kind \in Passed => "detail" \notin DOMAIN n
          /\ f.kind \notin Passed => "detail" \in DOMAIN n /\ "says" \in DOMAIN n.detail
          /\ f.kind \notin Passed /\ n.detail.says = "object" =>
               /\ "detail" \in DOMAIN f
               /\ "says" \notin DOMAIN f.detail \/ f.detail.says = "object"
          /\ f.kind \notin Passed /\ "detail" \in DOMAIN f /\ "says" \notin DOMAIN f.detail =>
               n.detail.says = "object"
      BY NormalizeDoes
    <3> HIDE DEF f, n
    <3>4. Normal(f.kind) = Normal(origin.failure) /\ (n.kind \in Passed <=> f.kind \in Passed)
      BY <3>2, <3>3, PassedHaveNoDetail DEF Normal
    <3>5. f.kind \notin Passed => (n.detail.says = "object" <=> entry = "invoke")
      BY <3>2, <3>3 DEF Says
    <3>6. OnTheWire'
      BY <1>T, <2>1, <2>2, <2>3, <2>4, <2>6, <3>1, <3>3, <3>4, <3>5 DEF OnTheWire
    <3> QED
      BY <2>1, <2>2, <3>6 DEF WireInv, AtTheClient, RequestNests
  <2> QED
    BY <2>5, <2>6
<1>9. CASE HostReads
  <2>0. phase = "result" /\ UNCHANGED <<sent, origin>> /\ entry \in Interactions
        /\ phase' \in {"refused", "done", "answered"}
    BY <1>0, <1>9 DEF HostReads, WireTyped
  <2>1. CASE phase' = "refused"
    <3>1. UNCHANGED chainVars
      BY <1>9, <2>1 DEF HostReads
    <3> QED
      BY <1>0, <2>0, <2>1, <3>1, ScopesKept DEF WireInv, RequestNests, OnTheWire, AtTheClient
  <2>2. CASE phase' = "done"
    <3>1. UNCHANGED chainVars /\ Hop = 1
      BY <1>9, <2>2 DEF HostReads
    <3>2. WireTyped' /\ ScopesNest' /\ Hop' = Hop /\ entry' = entry
      BY <1>0, <2>0, <2>2, <3>1, ScopesKept DEF chainVars
    <3>3. OnTheWire'
      BY <1>0, <2>0, <2>2, <3>1, <3>2 DEF OnTheWire
    <3> QED
      BY <2>2, <3>2, <3>3 DEF WireInv, RequestNests, AtTheClient
  <2>3. CASE phase' = "answered"
    <3>1. /\ Hop > 1 /\ answer' = fromWireOutcome(sent.outcome)
          /\ scopes' = Front(scopes) /\ started' = Front(started)
          /\ UNCHANGED <<entry, clock, transit>>
      BY <1>9, <2>3 DEF HostReads
    <3>2. WireTyped' /\ ScopesNest' /\ Hop' = Hop - 1
      BY <1>0, <2>0, <2>3, <3>1, ReturnedNest
    <3>3. /\ origin.own \in BOOLEAN /\ origin.reader \in Nat
          /\ origin.reader >= Hop - 1 /\ (~ origin.own => origin.reader >= Hop)
          /\ sent.outcome.kind = origin.kind
      BY <1>0, <1>T, <2>0 DEF OnTheWire
    <3>4. AtTheClient'
      <4>1. CASE origin.kind # "runtime"
        <5>1. answer' = sent.outcome
          BY <3>1, <3>3, <4>1 DEF fromWireOutcome
        <5> QED
          BY <1>T, <2>0, <3>2, <3>3, <4>1, <5>1 DEF AtTheClient
      <4>2. CASE origin.kind = "runtime"
        <5> DEFINE f == sent.outcome.failure
                   g == answer'.failure
        <5>1. /\ f.kind = Normal(origin.failure) /\ "says" \notin DOMAIN f
              /\ f.kind \in Passed => "detail" \notin DOMAIN f
              /\ f.kind \notin Passed =>
                   /\ "detail" \in DOMAIN f /\ "says" \in DOMAIN f.detail
                   /\ f.detail.says = "object" <=> entry = "invoke" /\ origin.reader >= Hop
          BY <1>0, <1>T, <2>0, <4>2 DEF OnTheWire
        <5>2. /\ answer'.kind = "runtime" /\ g.kind = f.kind
              /\ entry = "invoke" => "detail" \in DOMAIN g /\ g.detail = f
              /\ entry # "invoke" => g = f
          BY <3>1, <3>3, <4>2 DEF fromWireOutcome, Failing
        <5> HIDE DEF f
        <5>3. f.kind \in Passed <=> origin.failure \in Passed
          BY <5>1, PassedHaveNoDetail DEF Normal
        <5>4. /\ origin'.reader = Hop' /\ ~ origin'.own <=> FALSE
              /\ entry' = entry /\ origin' = origin
              /\ (origin.reader >= Hop <=> origin.reader > Hop')
              /\ origin.reader >= Hop'
          BY <1>T, <2>0, <3>1, <3>2, <3>3
        <5> HIDE DEF g
        <5>5. CASE entry = "invoke"
          <6>1. "detail" \in DOMAIN g /\ g.detail = f
            BY <5>2, <5>5
          <6>2. f.kind \in Passed => Says(g) # "object"
            BY <5>1, <6>1 DEF Says
          <6>3. f.kind \notin Passed => Says(g) = f.detail.says
            BY <5>1, <6>1 DEF Says
          <6>4. Says(g) = "object" <=> origin.reader >= Hop /\ f.kind \notin Passed
            BY <5>1, <5>5, <6>2, <6>3
          <6> QED
            BY <2>3, <3>3, <4>2, <5>1, <5>2, <5>3, <5>4, <5>5, <6>1, <6>4 DEF AtTheClient, g, Normal
        <5>6. CASE entry # "invoke"
          <6>1. Says(g) # "object"
            BY <5>1, <5>2, <5>6 DEF Says
          <6> QED
            BY <2>3, <3>3, <4>2, <5>1, <5>2, <5>3, <5>4, <5>6, <6>1 DEF AtTheClient, g, Normal
        <5> QED
          BY <5>5, <5>6
      <4> QED
        BY <4>1, <4>2
    <3> QED
      BY <2>3, <3>2, <3>4 DEF WireInv, RequestNests, OnTheWire
  <2> QED
    BY <2>0, <2>1, <2>2, <2>3
<1>10. CASE ServerReports
  <2>1. UNCHANGED chainVars /\ phase = "session" /\ phase' \in {"done", "refused"}
    BY <1>10 DEF ServerReports
  <2> QED
    BY <1>0, <1>10, <2>1, ScopesKept
      DEF WireInv, WireTyped, RequestNests, OnTheWire, AtTheClient, chainVars
<1>11. CASE Elapse
  <2>1. /\ clock' = clock + 1 /\ clock < MaxTime
        /\ transit' = IF phase = "request" THEN transit + 1 ELSE transit
        /\ UNCHANGED <<entry, scopes, started, phase, sent, origin, answer>>
    BY <1>11 DEF Elapse
  <2>2. WireTyped' /\ Hop' = Hop
    BY <1>0, <1>T, <2>1 DEF WireTyped, Hop
  <2>3. \A i \in 1 .. Hop : /\ started[i] \in Nat /\ scopes[i].remaining_budget_nanos \in Nat
    <3>1. \A i \in 1 .. Hop : started[i] \in Nat /\ scopes[i] \in ScopeRecords
      BY <1>0 DEF WireTyped, Hop
    <3> QED
      BY <3>1 DEF ScopeRecords
  <2>4. ScopesNest'
    <3>1. scopes[1].remaining_budget_nanos \in Nat
      BY <1>T, <2>3
    <3>2. ASSUME NEW i \in 1 .. Hop
          PROVE  /\ Len(scopes[i].scope_id) = i
                 /\ i > 1 => scopes[i].parent_scope_id = scopes[i - 1].scope_id
                 /\ started[i] <= clock /\ InBudget(scopes[i], started[i])
                 /\ started[i] \in Nat
      BY <1>0, <2>3 DEF ScopesNest
    <3>3. ASSUME NEW i \in 1 .. Hop
          PROVE  started[i] <= clock' /\ InBudget(scopes[i], started[i])'
      <4>1. started[i] <= clock'
        BY <1>T, <2>1, <3>2
      <4>2. /\ scopes[i].remaining_budget_nanos \in Nat /\ transit' \in Nat
            /\ transit <= transit'
        BY <1>T, <2>1, <2>3
      <4>3. /\ scopes' = scopes /\ started' = started
            /\ InBudget(scopes[i], started[i]) /\ started[i] \in Nat
        BY <2>1, <3>2
      <4> QED
        BY <1>T, <3>1, <4>1, <4>2, <4>3 DEF InBudget
    <3> QED
      BY <2>1, <2>2, <3>2, <3>3 DEF ScopesNest
  <2>5. RequestNests'
    <3>1. phase = "request" =>
            /\ sent.scope.remaining_budget_nanos \in Nat
            /\ 1 \in 1 .. Hop /\ scopes[1].remaining_budget_nanos \in Nat
      BY <1>0, <1>T, <2>3 DEF RequestNests, ScopeRecords
    <3> QED
      BY <1>0, <1>T, <2>1, <2>2, <3>1 DEF RequestNests, InBudget
  <2> QED
    BY <1>0, <2>1, <2>2, <2>4, <2>5 DEF WireInv, OnTheWire, AtTheClient
<1>12. CASE HostRefuses
  <2>1. UNCHANGED chainVars /\ phase = "request" /\ phase' = "refused"
    BY <1>12 DEF HostRefuses
  <2> QED
    BY <1>0, <1>12, <2>1, ScopesKept DEF WireInv, RequestNests, OnTheWire, AtTheClient
<1> QED
  BY <1>1, <1>2, <1>3, <1>4, <1>5, <1>6, <1>7, <1>8, <1>9, <1>10, <1>11, <1>12
     DEF WireNext

LEMMA WireReads == WireInv => WireTypeOK /\ ScopesNarrow /\ FailuresRelayed
<1> SUFFICES ASSUME WireInv PROVE WireTypeOK /\ ScopesNarrow /\ FailuresRelayed
  OBVIOUS
<1>0. WireTyped /\ ScopesNest /\ RequestNests /\ OnTheWire /\ AtTheClient
  BY DEF WireInv
<1>1. WireTypeOK
  BY <1>0 DEF WireTyped, WireTypeOK
<1>2. Hop \in Nat /\ 1 \in 1 .. Hop /\ \A i \in 1 .. Hop : scopes[i] \in ScopeRecords
  BY <1>0 DEF WireTyped, Hop
<1>3. ScopesNarrow
  <2>1. \A i, j \in 1 .. Hop : scopes[i].scope_id = scopes[j].scope_id => i = j
    BY <1>0, <1>2 DEF ScopesNest
  <2>2. \A i \in 1 .. Hop : scopes[i].permissions = "granted"
    BY <1>2 DEF ScopeRecords
  <2> QED
    BY <1>0, <1>2, <2>1, <2>2 DEF ScopesNarrow, ScopesNest, InBudget
<1>4. FailuresRelayed
  <2>1. CASE phase = "answered"
    BY <1>0, <1>2, <2>1 DEF FailuresRelayed, AtTheClient, Relays, Read, Normal
  <2>2. CASE phase = "done" /\ entry # "session"
    <3>1. /\ Hop = 1 /\ Relays = origin.reader /\ Read = sent.outcome /\ origin.reader \in Nat
      BY <1>0, <2>2 DEF OnTheWire, Relays, Read
    <3> QED
      BY <1>0, <2>2, <3>1, PassedHaveNoDetail DEF FailuresRelayed, OnTheWire, Says, Normal
  <2> QED
    BY <2>1, <2>2 DEF FailuresRelayed
<1> QED
  BY <1>1, <1>3, <1>4

(***************************************************************************)
(* A binding: its types                                                    *)
(***************************************************************************)

\* The lists are read entry by entry.
InitInv ==
  /\ stage \in Stages
  /\ declared \in Seq(Declarations) /\ routes \in Seq(Routes) /\ endpoints \in Seq(Endpoints)
  /\ definition \in Definitions \cup {Undefined}

LEMMA OneMore ==
  ASSUME NEW S, NEW list \in Seq(S), NEW e \in S
  PROVE  Append(list, e) \in Seq(S)
  OBVIOUS

LEMMA InitStarts == InitInit => InitInv
  BY DEF InitInit, InitInv, Stages

LEMMA InitPreserves == InitInv /\ [InitNext]_initVars => InitInv'
<1> SUFFICES ASSUME InitInv, [InitNext]_initVars PROVE InitInv'
  OBVIOUS
<1>0. /\ stage \in Stages /\ definition \in Definitions \cup {Undefined}
      /\ declared \in Seq(Declarations) /\ routes \in Seq(Routes) /\ endpoints \in Seq(Endpoints)
  BY DEF InitInv
<1>1. CASE UNCHANGED initVars
  BY <1>0, <1>1 DEF initVars, InitInv
<1>2. CASE ReadDeclaration
  <2>1. stage' \in Stages /\ UNCHANGED <<routes, endpoints, definition>>
    BY <1>0, <1>2 DEF ReadDeclaration, unbound, Stages
  <2>2. \/ UNCHANGED declared
        \/ \E requirement \in Declarations : declared' = Append(declared, requirement)
    BY <1>2 DEF ReadDeclaration
  <2>3. declared' \in Seq(Declarations)
    BY <1>0, <2>2, OneMore
  <2> QED
    BY <1>0, <2>1, <2>3 DEF InitInv
<1>3. CASE ReadRoute
  <2>1. stage' \in Stages /\ UNCHANGED <<declared, endpoints, definition>>
    BY <1>0, <1>3 DEF ReadRoute, unbound, Stages
  <2>2. UNCHANGED routes \/ \E route \in Routes : routes' = Append(routes, route)
    BY <1>3 DEF ReadRoute
  <2>3. routes' \in Seq(Routes)
    BY <1>0, <2>2, OneMore
  <2> QED
    BY <1>0, <2>1, <2>3 DEF InitInv
<1>4. CASE ReadEndpoint
  <2>1. stage' \in Stages /\ UNCHANGED <<declared, routes, definition>>
    BY <1>0, <1>4 DEF ReadEndpoint, unbound, Stages
  <2>2. \/ UNCHANGED endpoints
        \/ \E endpoint \in Endpoints : endpoints' = Append(endpoints, endpoint)
    BY <1>4 DEF ReadEndpoint
  <2>3. endpoints' \in Seq(Endpoints)
    BY <1>0, <2>2, OneMore
  <2> QED
    BY <1>0, <2>1, <2>3 DEF InitInv
<1>5. CASE EndOfList
  BY <1>0, <1>5 DEF EndOfList, lists, unbound, InitInv, Stages
<1>6. CASE Compare
  BY <1>0, <1>6 DEF Compare, lists, InitInv, Stages
<1>7. CASE Construct
  BY <1>0, <1>7 DEF Construct, lists, InitInv, Stages
<1>8. CASE CallOut \/ ServeEndpoint
  BY <1>0, <1>8 DEF CallOut, ServeEndpoint, lists, InitInv
<1> QED
  BY <1>1, <1>2, <1>3, <1>4, <1>5, <1>6, <1>7, <1>8 DEF InitNext

LEMMA InitReads == InitInv => InitTypeOK
  BY DEF InitInv, InitTypeOK

(***************************************************************************)
(* Numbers: induction and recursion.  The induction theorems of the library*)
(* take a predicate, which the provers cannot instantiate; a set does.     *)
(***************************************************************************)

\* Induction, from the least number that is not in a set.
LEMMA Induction ==
  ASSUME NEW S, S \subseteq Nat, 0 \in S, \A n \in S : n + 1 \in S
  PROVE  S = Nat
<1> SUFFICES ASSUME Nat \ S # {} PROVE FALSE
  OBVIOUS
<1>1. PICK m \in Nat \ S : \A n \in Nat \ S : ~ (<<n, m>> \in OpToRel(<, Nat))
  <2>1. IsWellFoundedOn(OpToRel(<, Nat), Nat)
    BY NatLessThanWellFounded
  <2>2. Nat \ S \subseteq Nat
    OBVIOUS
  <2> HIDE DEF IsWellFoundedOn, OpToRel
  <2> QED
    BY <2>1, <2>2, WFMin
<1>2. \A n \in Nat : n < m => <<n, m>> \in OpToRel(<, Nat)
  BY DEF OpToRel
<1>3. m # 0 /\ m - 1 \in Nat /\ m - 1 < m
  OBVIOUS
<1>4. m - 1 \in S
  BY <1>1, <1>2, <1>3
<1>5. (m - 1) + 1 = m
  OBVIOUS
<1> QED
  BY <1>4, <1>5

\* A function defined from each number to the next.
Recursive(f, X, base, step) ==
  /\ f \in [Nat -> X] /\ f[0] = base
  /\ \A n \in Nat : f[n + 1] = step[<<f[n], n + 1>>]

\* Primitive recursion over the naturals.
LEMMA Recursion ==
  ASSUME NEW X, NEW base \in X, NEW step \in [X \X Nat -> X]
  PROVE  \E f : Recursive(f, X, base, step)
<1> DEFINE Upto(f, m) ==
             /\ f \in [0 .. m -> X] /\ f[0] = base
             /\ \A n \in 0 .. m - 1 : f[n + 1] = step[<<f[n], n + 1>>]
           S == {m \in Nat : \E f \in [0 .. m -> X] : Upto(f, m)}
<1>1. 0 \in S
  <2>1. Upto([n \in 0 .. 0 |-> base], 0)
    OBVIOUS
  <2> QED
    BY <2>1
<1>2. ASSUME NEW m \in S PROVE m + 1 \in S
  <2>1. PICK f \in [0 .. m -> X] : Upto(f, m)
    BY <1>2
  <2> DEFINE g == [n \in 0 .. m + 1 |-> IF n = m + 1 THEN step[<<f[m], m + 1>>] ELSE f[n]]
  <2>2. m \in Nat /\ step[<<f[m], m + 1>>] \in X
    OBVIOUS
  <2>3. g \in [0 .. m + 1 -> X] /\ g[0] = base
    BY <2>1, <2>2
  <2>4. ASSUME NEW n \in 0 .. m PROVE g[n + 1] = step[<<g[n], n + 1>>]
    <3>1. CASE n = m
      <4>1. g[m + 1] = step[<<f[m], m + 1>>] /\ g[m] = f[m]
        BY <2>2
      <4> HIDE DEF g
      <4> QED
        BY <3>1, <4>1
    <3>2. CASE n # m
      <4>1. n \in 0 .. m - 1 /\ n + 1 \in 0 .. m /\ n + 1 # m + 1 /\ n # m + 1
            /\ n \in 0 .. m + 1 /\ n + 1 \in 0 .. m + 1
        BY <2>2, <3>2
      <4> QED
        BY <2>1, <4>1
    <3> QED
      BY <3>1, <3>2
  <2>5. (m + 1) - 1 = m /\ m + 1 \in Nat
    BY <2>2
  <2> HIDE DEF g
  <2>6. Upto(g, m + 1)
    BY <2>3, <2>4, <2>5
  <2> QED
    BY <2>3, <2>5, <2>6
<1>3. S = Nat
  <2> HIDE DEF S
  <2>1. S \subseteq Nat
    BY DEF S
  <2> QED
    BY <1>1, <1>2, <2>1, Induction
<1>4. \A m \in Nat : \E f : Upto(f, m)
  BY <1>3
<1> DEFINE F(m) == CHOOSE f : Upto(f, m)
<1>5. ASSUME NEW m \in Nat PROVE Upto(F(m), m)
  BY <1>4
<1>6. ASSUME NEW m \in Nat, NEW f, NEW g, Upto(f, m), Upto(g, m + 1)
      PROVE  g[m] = f[m]
  <2> DEFINE R == {n \in Nat : n <= m => f[n] = g[n]}
  <2>1. 0 \in R
    BY <1>6
  <2>2. ASSUME NEW n \in R PROVE n + 1 \in R
    <3>1. SUFFICES ASSUME n + 1 <= m PROVE f[n + 1] = g[n + 1]
      OBVIOUS
    <3>2. n \in 0 .. m - 1 /\ n \in 0 .. (m + 1) - 1 /\ n <= m
      BY <3>1
    <3> QED
      BY <1>6, <3>2
  <2>3. R = Nat
    <3> HIDE DEF R
    <3>1. R \subseteq Nat
      BY DEF R
    <3> QED
      BY <2>1, <2>2, <3>1, Induction
  <2> QED
    BY <2>3
<1> DEFINE f == [m \in Nat |-> F(m)[m]]
<1>7. f \in [Nat -> X] /\ f[0] = base
  <2>1. \A m \in Nat : F(m)[m] \in X
    <3> HIDE DEF F
    <3>1. \A m \in Nat : F(m) \in [0 .. m -> X] /\ m \in 0 .. m
      BY <1>5
    <3> QED
      BY <3>1
  <2>2. F(0)[0] = base
    BY <1>5
  <2> HIDE DEF F
  <2> QED
    BY <2>1, <2>2
<1>8. ASSUME NEW n \in Nat PROVE f[n + 1] = step[<<f[n], n + 1>>]
  <2>1. n + 1 \in Nat /\ n \in 0 .. (n + 1) - 1
    OBVIOUS
  <2> HIDE DEF F
  <2>4. Upto(F(n), n) /\ Upto(F(n + 1), n + 1)
    BY <1>5, <2>1
  <2>2. F(n + 1)[n] = F(n)[n]
    BY <1>6, <2>4
  <2>3. F(n + 1)[n + 1] = step[<<F(n + 1)[n], n + 1>>]
    BY <2>1, <2>4
  <2> QED
    BY <2>1, <2>2, <2>3
<1> HIDE DEF f
<1> QED
  BY <1>7, <1>8 DEF Recursive

\* The same up to a bound.
Unrolls(h, X, base, m, step) ==
  /\ h \in [0 .. m -> X] /\ h[0] = base
  /\ \A n \in 1 .. m : h[n] = step[<<h[n - 1], n>>]

\* There is one, for every first value and every step.
LEMMA Unrolled ==
  ASSUME NEW X, NEW base \in X, NEW m \in Nat, NEW step \in [X \X (1 .. m) -> X]
  PROVE  \E h : Unrolls(h, X, base, m, step)
<1> DEFINE total == [p \in X \X Nat |-> IF p[2] \in 1 .. m THEN step[p] ELSE base]
<1>1. total \in [X \X Nat -> X]
  <2>1. ASSUME NEW p \in X \X Nat PROVE (IF p[2] \in 1 .. m THEN step[p] ELSE base) \in X
    <3>1. p[2] \in 1 .. m => p \in X \X (1 .. m)
      OBVIOUS
    <3> QED
      BY <3>1
  <2> QED
    BY <2>1
<1>2. ASSUME NEW x \in X, NEW n \in 1 .. m PROVE total[<<x, n>>] = step[<<x, n>>]
  OBVIOUS
<1> HIDE DEF total
<1>3. PICK g : Recursive(g, X, base, total)
  BY <1>1, Recursion
<1>4. g[0] = base /\ \A n \in Nat : g[n] \in X
  BY <1>3 DEF Recursive
<1>5. ASSUME NEW n \in 1 .. m PROVE g[n] = step[<<g[n - 1], n>>]
  <2>1. n - 1 \in Nat /\ (n - 1) + 1 = n
    OBVIOUS
  <2>2. g[n] = total[<<g[n - 1], n>>]
    BY <1>3, <2>1 DEF Recursive
  <2> QED
    BY <1>2, <1>4, <2>1, <2>2
<1> DEFINE h == [n \in 0 .. m |-> g[n]]
<1>6. h \in [0 .. m -> X] /\ \A n \in 0 .. m : h[n] = g[n]
  BY <1>4
<1>7. \A n \in 1 .. m : n \in 0 .. m /\ n - 1 \in 0 .. m
  OBVIOUS
<1>8. 0 \in 0 .. m
  OBVIOUS
<1> HIDE DEF h
<1> QED
  BY <1>4, <1>5, <1>6, <1>7, <1>8 DEF Unrolls

\* What holds of the first value and is kept from each to the next holds of all.
LEMMA Stays ==
  ASSUME NEW X, NEW m \in Nat, NEW u, u[0] \in X, \A n \in 1 .. m : u[n - 1] \in X => u[n] \in X
  PROVE  \A n \in 0 .. m : u[n] \in X
<1> DEFINE S == {n \in Nat : n <= m => u[n] \in X}
<1>1. 0 \in S /\ S \subseteq Nat
  OBVIOUS
<1>2. ASSUME NEW n \in S PROVE n + 1 \in S
  <2> SUFFICES ASSUME n + 1 <= m PROVE u[n + 1] \in X
    OBVIOUS
  <2>1. n + 1 \in 1 .. m /\ (n + 1) - 1 = n /\ u[n] \in X
    OBVIOUS
  <2> QED
    BY <2>1
<1> HIDE DEF S
<1>3. S = Nat
  BY <1>1, <1>2, Induction
<1> QED
  BY <1>3 DEF S

\* Two functions that start and go on alike agree.
StaySame(u, t, m) ==
  u[0] = t[0] /\ \A n \in 1 .. m : u[n - 1] = t[n - 1] => u[n] = t[n]

LEMMA Agree ==
  ASSUME NEW m \in Nat, NEW u, NEW t, StaySame(u, t, m)
  PROVE  u[m] = t[m]
<1> DEFINE S == {n \in Nat : n <= m => u[n] = t[n]}
<1>1. 0 \in S /\ S \subseteq Nat
  BY DEF StaySame
<1>2. ASSUME NEW n \in S PROVE n + 1 \in S
  <2> SUFFICES ASSUME n + 1 <= m PROVE u[n + 1] = t[n + 1]
    OBVIOUS
  <2>1. n + 1 \in 1 .. m /\ (n + 1) - 1 = n /\ u[n] = t[n]
    OBVIOUS
  <2> QED
    BY <2>1 DEF StaySame
<1> HIDE DEF S
<1>3. S = Nat
  BY <1>1, <1>2, Induction
<1> QED
  BY <1>3 DEF S

(***************************************************************************)
(* Patterns: in how many ways a shape matches a string                     *)
(***************************************************************************)

\* In how many ways something matches the strings of every length.
W == [Strings -> Nat]

\* Total is a sum over an interval, ...
LEMMA TotalUnfolds ==
  ASSUME NEW n \in Nat, NEW f \in [0 .. n -> Nat]
  PROVE  \E u \in [0 .. n -> Nat] :
           /\ u[0] = f[0] /\ \A k \in 1 .. n : u[k] = f[k] + u[k - 1]
           /\ Total(f, n) = u[n]
<1> DEFINE step == [p \in Nat \X (1 .. n) |-> f[p[2]] + p[1]]
           Unfolds(u) == u = [k \in 0 .. n |-> IF k = 0 THEN f[0] ELSE f[k] + u[k - 1]]
           u == CHOOSE x : Unfolds(x)
<1>1. step \in [Nat \X (1 .. n) -> Nat] /\ f[0] \in Nat
  OBVIOUS
<1>2. \E h : Unfolds(h)
  <2>1. PICK h : Unrolls(h, Nat, f[0], n, step)
    <3> HIDE DEF step, Unfolds
    <3> QED
      BY <1>1, Unrolled
  <2>4. h \in [0 .. n -> Nat] /\ h[0] = f[0] /\ \A k \in 1 .. n : h[k] = step[<<h[k - 1], k>>]
    <3> HIDE DEF step
    <3> QED
      BY <2>1 DEF Unrolls
  <2>2. ASSUME NEW k \in 1 .. n PROVE h[k] = f[k] + h[k - 1]
    <3>1. k - 1 \in 0 .. n /\ h[k - 1] \in Nat
      BY <2>4
    <3>2. <<h[k - 1], k>> \in Nat \X (1 .. n)
      BY <3>1
    <3>3. step[<<h[k - 1], k>>] = f[k] + h[k - 1]
      BY <3>2
    <3> QED
      BY <2>4, <3>3
  <2>3. Unfolds(h)
    BY <2>2, <2>4
  <2> QED
    BY <2>3
<1>3. Unfolds(u) /\ Total(f, n) = u[n]
  <2>1. Total(f, n) = u[n]
    BY DEF Total
  <2> HIDE DEF Unfolds
  <2> QED
    BY <1>2, <2>1
<1> HIDE DEF u
<1>4. /\ u = [k \in 0 .. n |-> u[k]] /\ u[0] = f[0]
      /\ \A k \in 1 .. n : u[k] = f[k] + u[k - 1]
  <2> DEFINE R == [k \in 0 .. n |-> IF k = 0 THEN f[0] ELSE f[k] + u[k - 1]]
  <2>1. u = R
    BY <1>3
  <2>2. /\ R = [k \in 0 .. n |-> R[k]]
        /\ \A k \in 0 .. n : R[k] = IF k = 0 THEN f[0] ELSE f[k] + u[k - 1]
    OBVIOUS
  <2>3. 0 \in 0 .. n /\ \A k \in 1 .. n : k \in 0 .. n /\ k # 0
    OBVIOUS
  <2> HIDE DEF R, Unfolds
  <2> QED
    BY <2>1, <2>2, <2>3
<1> HIDE DEF Unfolds, step
<1>5. ASSUME NEW k \in 1 .. n, u[k - 1] \in Nat PROVE u[k] \in Nat
  <2>1. f[k] \in Nat
    OBVIOUS
  <2>2. u[k] = f[k] + u[k - 1]
    BY <1>4
  <2> QED
    BY <1>5, <2>1, <2>2
<1>6. \A k \in 0 .. n : u[k] \in Nat
  BY <1>1, <1>4, <1>5, Stays
<1> QED
  BY <1>3, <1>4, <1>6

\* ... and the only summand that is not zero, if there is one.
LEMMA TotalOfOne ==
  ASSUME NEW n \in Nat, NEW f \in [0 .. n -> Nat], NEW j \in 0 .. n,
         \A k \in 0 .. n : k # j => f[k] = 0
  PROVE  Total(f, n) = f[j]
<1>1. PICK u \in [0 .. n -> Nat] :
           /\ u[0] = f[0] /\ \A k \in 1 .. n : u[k] = f[k] + u[k - 1]
           /\ Total(f, n) = u[n]
  BY TotalUnfolds
<1> DEFINE S == {k \in Nat : k <= n => u[k] = IF k < j THEN 0 ELSE f[j]}
<1>2. S = Nat
  <2>1. 0 \in S
    BY <1>1
  <2>2. ASSUME NEW k \in S PROVE k + 1 \in S
    <3> SUFFICES ASSUME k + 1 <= n PROVE u[k + 1] = IF k + 1 < j THEN 0 ELSE f[j]
      OBVIOUS
    <3>1. k + 1 \in 1 .. n /\ k + 1 \in 0 .. n /\ (k + 1) - 1 = k /\ k \in Nat /\ k <= n
      OBVIOUS
    <3>2. u[k + 1] = f[k + 1] + u[k] /\ u[k] = (IF k < j THEN 0 ELSE f[j]) /\ f[k + 1] \in Nat
      BY <1>1, <3>1
    <3>3. k + 1 # j => f[k + 1] = 0
      BY <3>1
    <3> QED
      BY <3>2, <3>3
  <2>3. S \subseteq Nat
    OBVIOUS
  <2> HIDE DEF S
  <2> QED
    BY <2>1, <2>2, <2>3, Induction
<1>3. u[n] = f[j]
  <2>1. n \in S
    <3> HIDE DEF S
    <3> QED
      BY <1>2
  <2>2. n <= n /\ ~ (n < j)
    OBVIOUS
  <2> QED
    BY <2>1, <2>2
<1> QED
  BY <1>1, <1>3

\* One way for one length; one length; no more ways than c.
At(f, p) == \A n \in Strings : f[n] = IF n = p THEN 1 ELSE 0
Fixed(f) == \E p \in Nat : At(f, p)
AtMost(f, c) == \A n \in Strings : f[n] <= c

\* One after the other: typed, ...
LEMMA ThenTyped ==
  ASSUME NEW a \in W, NEW b \in W PROVE Then(a, b) \in W
<1> SUFFICES ASSUME NEW n \in Strings PROVE Total([k \in 0 .. n |-> a[k] * b[n - k]], n) \in Nat
  BY DEF Then, W
<1> DEFINE f == [k \in 0 .. n |-> a[k] * b[n - k]]
<1>1. n \in Nat /\ \A k \in 0 .. n : k \in Strings /\ n - k \in Strings
  BY PatternAssumption DEF Strings
<1>2. \A k \in 0 .. n : a[k] * b[n - k] \in Nat
  <2> SUFFICES ASSUME NEW k \in 0 .. n PROVE a[k] * b[n - k] \in Nat
    OBVIOUS
  <2>1. a[k] \in Nat /\ b[n - k] \in Nat
    BY <1>1 DEF W
  <2> QED
    BY <2>1
<1>3. f \in [0 .. n -> Nat]
  BY <1>2
<1> HIDE DEF f
<1>4. PICK u \in [0 .. n -> Nat] : Total(f, n) = u[n]
  BY <1>1, <1>3, TotalUnfolds
<1> QED
  BY <1>1, <1>4 DEF f

\* ... empty if both are, ...
LEMMA ThenAtZero ==
  ASSUME NEW a \in W, NEW b \in W PROVE Then(a, b)[0] = a[0] * b[0]
<1> DEFINE f == [k \in 0 .. 0 |-> a[k] * b[0 - k]]
<1>1. 0 \in Strings /\ a[0] \in Nat /\ b[0] \in Nat
  BY PatternAssumption DEF Strings, W
<1>2. f[0] = a[0] * b[0]
  OBVIOUS
<1>3. f \in [0 .. 0 -> Nat]
  <2>1. a[0] * b[0] \in Nat
    BY <1>1
  <2> QED
    BY <2>1
<1>4. Total(f, 0) = f[0]
  <2> HIDE DEF f
  <2>1. 0 \in 0 .. 0 /\ \A k \in 0 .. 0 : k = 0
    OBVIOUS
  <2> QED
    BY <1>3, <2>1, TotalOfOne
<1> QED
  BY <1>1, <1>2, <1>4 DEF Then

\* ... and a shift of one by the length of the other, if that has one length.
LEMMA ThenLeftFixed ==
  ASSUME NEW a \in W, NEW b \in W, NEW p \in Nat, At(a, p), NEW n \in Strings
  PROVE  Then(a, b)[n] = IF p <= n THEN b[n - p] ELSE 0
<1> DEFINE f == [k \in 0 .. n |-> a[k] * b[n - k]]
<1>1. n \in Nat /\ \A k \in 0 .. n : k \in Strings /\ n - k \in Strings
  BY PatternAssumption DEF Strings
<1>2. \A k \in 0 .. n : f[k] = IF k = p THEN b[n - k] ELSE 0
  <2> SUFFICES ASSUME NEW k \in 0 .. n PROVE a[k] * b[n - k] = IF k = p THEN b[n - k] ELSE 0
    OBVIOUS
  <2>1. b[n - k] \in Nat /\ a[k] = IF k = p THEN 1 ELSE 0
    BY <1>1 DEF W, At
  <2>2. \A x \in Nat : 1 * x = x /\ 0 * x = 0
    OBVIOUS
  <2> QED
    BY <2>1, <2>2
<1>3. Then(a, b)[n] = Total(f, n)
  BY DEF Then
<1>4. \A k \in 0 .. n : b[n - k] \in Nat
  BY <1>1 DEF W
<1>5. f \in [0 .. n -> Nat]
  <2>1. f = [k \in 0 .. n |-> f[k]]
    OBVIOUS
  <2>2. \A k \in 0 .. n : f[k] \in Nat
    BY <1>2, <1>4
  <2> HIDE DEF f
  <2> QED
    BY <2>1, <2>2
<1> HIDE DEF f
<1>6. CASE p <= n
  <2>1. p \in 0 .. n
    BY <1>1, <1>6
  <2>2. Total(f, n) = f[p]
    BY <1>1, <1>2, <1>5, <2>1, TotalOfOne
  <2> QED
    BY <1>2, <1>3, <1>6, <2>1, <2>2
<1>7. CASE ~ p <= n
  <2>1. \A k \in 0 .. n : f[k] = 0
    BY <1>1, <1>2, <1>7
  <2>2. 0 \in 0 .. n
    BY <1>1
  <2>3. Total(f, n) = f[0]
    BY <1>1, <1>5, <2>1, <2>2, TotalOfOne
  <2> QED
    BY <1>3, <1>7, <2>1, <2>2, <2>3
<1> QED
  BY <1>6, <1>7

LEMMA ThenRightFixed ==
  ASSUME NEW a \in W, NEW b \in W, NEW p \in Nat, At(b, p), NEW n \in Strings
  PROVE  Then(a, b)[n] = IF p <= n THEN a[n - p] ELSE 0
<1> DEFINE f == [k \in 0 .. n |-> a[k] * b[n - k]]
<1>1. n \in Nat /\ \A k \in 0 .. n : k \in Strings /\ n - k \in Strings
  BY PatternAssumption DEF Strings
<1>2. \A k \in 0 .. n : f[k] = IF n - k = p THEN a[k] ELSE 0
  <2> SUFFICES ASSUME NEW k \in 0 .. n PROVE a[k] * b[n - k] = IF n - k = p THEN a[k] ELSE 0
    OBVIOUS
  <2>1. a[k] \in Nat /\ b[n - k] = IF n - k = p THEN 1 ELSE 0
    BY <1>1 DEF W, At
  <2>2. \A x \in Nat : x * 1 = x /\ x * 0 = 0
    OBVIOUS
  <2> QED
    BY <2>1, <2>2
<1>3. Then(a, b)[n] = Total(f, n)
  BY DEF Then
<1>4. \A k \in 0 .. n : a[k] \in Nat
  BY <1>1 DEF W
<1>5. f \in [0 .. n -> Nat]
  <2>1. f = [k \in 0 .. n |-> f[k]]
    OBVIOUS
  <2>2. \A k \in 0 .. n : f[k] \in Nat
    BY <1>2, <1>4
  <2> HIDE DEF f
  <2> QED
    BY <2>1, <2>2
<1> HIDE DEF f
<1>6. CASE p <= n
  <2>1. n - p \in 0 .. n /\ n - (n - p) = p
    BY <1>1, <1>6
  <2>3. \A k \in 0 .. n : k # n - p => n - k # p
    BY <1>1
  <2>2. Total(f, n) = f[n - p]
    BY <1>1, <1>2, <1>5, <2>1, <2>3, TotalOfOne
  <2> QED
    BY <1>2, <1>3, <1>6, <2>1, <2>2
<1>7. CASE ~ p <= n
  <2>1. \A k \in 0 .. n : f[k] = 0
    BY <1>1, <1>2, <1>7
  <2>2. 0 \in 0 .. n
    BY <1>1
  <2>3. Total(f, n) = f[0]
    BY <1>1, <1>5, <2>1, <2>2, TotalOfOne
  <2> QED
    BY <1>3, <1>7, <2>1, <2>2, <2>3
<1> QED
  BY <1>6, <1>7

\* The shapes the scanner starts from.
LEMMA ShapesTyped ==
  /\ 0 \in Strings /\ Strings \subseteq Nat
  /\ Nothing \in W /\ Empty \in W /\ OneCharacter \in W
  /\ At(Empty, 0) /\ At(OneCharacter, 1)
  /\ \A n \in Strings : Nothing[n] = 0
  /\ \A a, b \in W : Either(a, b) \in W /\ \A n \in Strings : Either(a, b)[n] = a[n] + b[n]
<1>1. 0 \in Strings /\ Strings \subseteq Nat
  BY PatternAssumption DEF Strings
<1>2. Nothing \in W /\ Empty \in W /\ OneCharacter \in W
  BY DEF W, Nothing, Empty, OneCharacter
<1>3. At(Empty, 0) /\ At(OneCharacter, 1) /\ \A n \in Strings : Nothing[n] = 0
  BY DEF At, Nothing, Empty, OneCharacter
<1>4. \A a, b \in W : Either(a, b) \in W /\ \A n \in Strings : Either(a, b)[n] = a[n] + b[n]
  BY DEF W, Either
<1> QED
  BY <1>1, <1>2, <1>3, <1>4

\* Two single lengths add up; one of them multiplies nothing.
LEMMA ThenFixed ==
  ASSUME NEW a \in W, NEW b \in W, NEW p \in Nat, NEW q \in Nat, At(a, p), At(b, q)
  PROVE  At(Then(a, b), p + q)
<1> SUFFICES ASSUME NEW n \in Strings PROVE Then(a, b)[n] = IF n = p + q THEN 1 ELSE 0
  BY DEF At
<1>1. n \in Nat /\ (p <= n => n - p \in Strings)
  BY PatternAssumption DEF Strings
<1>2. Then(a, b)[n] = IF p <= n THEN b[n - p] ELSE 0
  BY ThenLeftFixed
<1>3. p <= n => b[n - p] = IF n - p = q THEN 1 ELSE 0
  BY <1>1 DEF At
<1> QED
  BY <1>1, <1>2, <1>3

LEMMA ThenAtMost ==
  ASSUME NEW a \in W, NEW b \in W, NEW c \in Nat,
         \/ Fixed(a) /\ AtMost(b, c)
         \/ Fixed(b) /\ AtMost(a, c)
  PROVE  AtMost(Then(a, b), c)
<1> SUFFICES ASSUME NEW n \in Strings PROVE Then(a, b)[n] <= c
  BY DEF AtMost
<1>1. n \in Nat /\ \A p \in Nat : p <= n => n - p \in Strings
  BY PatternAssumption DEF Strings
<1>2. ASSUME Fixed(a), AtMost(b, c) PROVE Then(a, b)[n] <= c
  <2>1. PICK p \in Nat : At(a, p)
    BY <1>2 DEF Fixed
  <2>2. Then(a, b)[n] = IF p <= n THEN b[n - p] ELSE 0
    BY <2>1, ThenLeftFixed
  <2> QED
    BY <1>1, <1>2, <2>2 DEF AtMost
<1>3. ASSUME Fixed(b), AtMost(a, c) PROVE Then(a, b)[n] <= c
  <2>1. PICK p \in Nat : At(b, p)
    BY <1>3 DEF Fixed
  <2>2. Then(a, b)[n] = IF p <= n THEN a[n - p] ELSE 0
    BY <2>1, ThenRightFixed
  <2> QED
    BY <1>1, <1>3, <2>2 DEF AtMost
<1> QED
  BY <1>2, <1>3

\* One length is matched in one way.
LEMMA FixedAtMost ==
  ASSUME NEW a \in W, Fixed(a), NEW c \in Nat, c >= 1 PROVE AtMost(a, c)
  BY DEF Fixed, At, AtMost, W

\* The powers of an atom and their sums, as Repeated counts them.
Powers(a) ==
  CHOOSE f : f = [k \in Nat |-> IF k = 0 THEN Empty ELSE Then(a, f[k - 1])]
Sums(a, min) ==
  CHOOSE f : f = [k \in Nat |->
                    IF k < min THEN Nothing
                    ELSE IF k = 0 THEN Powers(a)[0] ELSE Either(Powers(a)[k], f[k - 1])]

\* Both recursions of Repeated, unfolded.
LEMMA PowersUnfold ==
  ASSUME NEW a \in W
  PROVE  /\ Powers(a) \in [Nat -> W] /\ Powers(a)[0] = Empty
         /\ \A k \in Nat : Powers(a)[k + 1] = Then(a, Powers(a)[k])
<1> DEFINE step == [x \in W \X Nat |-> Then(a, x[1])]
           Unfolds(f) == f = [k \in Nat |-> IF k = 0 THEN Empty ELSE Then(a, f[k - 1])]
<1>1. step \in [W \X Nat -> W] /\ Empty \in W
  <2>1. \A x \in W \X Nat : Then(a, x[1]) \in W
    BY ThenTyped
  <2> QED
    BY <2>1, ShapesTyped
<1>2. PICK g : Recursive(g, W, Empty, step)
  <2> HIDE DEF step, Unfolds
  <2> QED
    BY <1>1, Recursion
<1>3. g \in [Nat -> W] /\ g[0] = Empty /\ \A k \in Nat : g[k + 1] = Then(a, g[k])
  <2> HIDE DEF Unfolds
  <2>1. g \in [Nat -> W] /\ g[0] = Empty /\ \A k \in Nat : g[k + 1] = step[<<g[k], k + 1>>]
    <3> HIDE DEF step
    <3> QED
      BY <1>2 DEF Recursive
  <2>2. ASSUME NEW k \in Nat PROVE step[<<g[k], k + 1>>] = Then(a, g[k])
    <3>1. g[k] \in W
      BY <2>1
    <3>2. <<g[k], k + 1>> \in W \X Nat
      BY <3>1
    <3> QED
      BY <3>2
  <2> QED
    BY <2>1, <2>2
<1>4. \A k \in Nat : g[k] = IF k = 0 THEN Empty ELSE Then(a, g[k - 1])
  <2> HIDE DEF Unfolds, step
  <2> SUFFICES ASSUME NEW k \in Nat, k # 0 PROVE g[k] = Then(a, g[k - 1])
    BY <1>3
  <2>1. k - 1 \in Nat /\ (k - 1) + 1 = k
    OBVIOUS
  <2> QED
    BY <1>3, <2>1
<1>5. Unfolds(g)
  <2>1. g = [k \in Nat |-> g[k]]
    BY <1>3
  <2> QED
    BY <1>4, <2>1
<1>6. Unfolds(Powers(a))
  <2>1. Powers(a) = CHOOSE f : Unfolds(f)
    BY DEF Powers
  <2> HIDE DEF Unfolds
  <2> QED
    BY <1>5, <2>1
<1> DEFINE u == Powers(a)
<1> HIDE DEF u
<1>7. u[0] = Empty /\ \A k \in Nat : u[k + 1] = Then(a, u[k])
  <2> DEFINE R == [k \in Nat |-> IF k = 0 THEN Empty ELSE Then(a, u[k - 1])]
  <2>1. u = R
    BY <1>6 DEF u
  <2>2. R[0] = Empty /\ \A k \in Nat : R[k + 1] = Then(a, u[(k + 1) - 1])
    OBVIOUS
  <2>3. \A k \in Nat : (k + 1) - 1 = k
    OBVIOUS
  <2> HIDE DEF R, Unfolds, step
  <2> QED
    BY <2>1, <2>2, <2>3
<1> DEFINE S == {k \in Nat : u[k] \in W}
<1>8. S = Nat
  <2> HIDE DEF Unfolds, step
  <2>1. 0 \in S
    BY <1>1, <1>7
  <2>2. ASSUME NEW k \in S PROVE k + 1 \in S
    <3>1. u[k + 1] = Then(a, u[k]) /\ u[k] \in W /\ k + 1 \in Nat
      BY <1>7
    <3>2. Then(a, u[k]) \in W
      BY <3>1, ThenTyped
    <3> QED
      BY <3>1, <3>2
  <2>3. S \subseteq Nat
    OBVIOUS
  <2> HIDE DEF S
  <2> QED
    BY <2>1, <2>2, <2>3, Induction
<1>9. u \in [Nat -> W]
  <2>1. \A k \in Nat : u[k] \in W
    BY <1>8
  <2>2. u = [k \in Nat |-> IF k = 0 THEN Empty ELSE Then(a, u[k - 1])]
    BY <1>6 DEF u
  <2>3. u = [k \in Nat |-> u[k]]
    BY <2>2
  <2> HIDE DEF S, Unfolds, step
  <2> QED
    BY <2>1, <2>3
<1> QED
  BY <1>7, <1>9 DEF u

LEMMA SumsUnfold ==
  ASSUME NEW a \in W, NEW min \in Nat
  PROVE  /\ Sums(a, min) \in [Nat -> W]
         /\ Sums(a, min)[0] = IF min = 0 THEN Empty ELSE Nothing
         /\ \A k \in Nat : Sums(a, min)[k + 1] =
              IF k + 1 < min THEN Nothing ELSE Either(Powers(a)[k + 1], Sums(a, min)[k])
<1> DEFINE w == Powers(a)
<1> HIDE DEF w
<1>0. w \in [Nat -> W] /\ w[0] = Empty
  BY PowersUnfold DEF w
<1> DEFINE base == IF min = 0 THEN Empty ELSE Nothing
           step == [x \in W \X Nat |-> IF x[2] < min THEN Nothing ELSE Either(w[x[2]], x[1])]
           Next1(f, k) == IF k < min THEN Nothing ELSE IF k = 0 THEN w[0] ELSE Either(w[k], f[k - 1])
           Unfolds(f) == f = [k \in Nat |-> IF k < min THEN Nothing
                                 ELSE IF k = 0 THEN w[0] ELSE Either(w[k], f[k - 1])]
<1>1. step \in [W \X Nat -> W] /\ base \in W
  <2>1. \A x \in W \X Nat : (IF x[2] < min THEN Nothing ELSE Either(w[x[2]], x[1])) \in W
    <3> SUFFICES ASSUME NEW x \in W \X Nat PROVE Either(w[x[2]], x[1]) \in W
      BY ShapesTyped
    <3>1. w[x[2]] \in W /\ x[1] \in W
      BY <1>0
    <3> QED
      BY <3>1, ShapesTyped
  <2>2. base \in W
    BY ShapesTyped
  <2> QED
    BY <2>1, <2>2
<1>2. PICK g : Recursive(g, W, base, step)
  <2> HIDE DEF step, Unfolds, base
  <2> QED
    BY <1>1, Recursion
<1>3. /\ g \in [Nat -> W] /\ g[0] = base
      /\ \A k \in Nat : g[k + 1] = IF k + 1 < min THEN Nothing ELSE Either(w[k + 1], g[k])
  <2> HIDE DEF Unfolds, base
  <2>1. g \in [Nat -> W] /\ g[0] = base /\ \A k \in Nat : g[k + 1] = step[<<g[k], k + 1>>]
    <3> HIDE DEF step
    <3> QED
      BY <1>2 DEF Recursive
  <2>2. ASSUME NEW k \in Nat
        PROVE  step[<<g[k], k + 1>>] = IF k + 1 < min THEN Nothing ELSE Either(w[k + 1], g[k])
    <3>1. g[k] \in W
      BY <2>1
    <3>2. <<g[k], k + 1>> \in W \X Nat
      BY <3>1
    <3> QED
      BY <3>2
  <2> HIDE DEF step
  <2> QED
    BY <2>1, <2>2
<1>4. \A k \in Nat : g[k] = Next1(g, k)
  <2> HIDE DEF Unfolds, step
  <2> SUFFICES ASSUME NEW k \in Nat PROVE g[k] = Next1(g, k)
    OBVIOUS
  <2>1. CASE k = 0
    BY <1>0, <1>3, <2>1
  <2>2. CASE k # 0
    <3>1. k - 1 \in Nat /\ (k - 1) + 1 = k
      BY <2>2
    <3>2. g[(k - 1) + 1] = IF (k - 1) + 1 < min THEN Nothing ELSE Either(w[(k - 1) + 1], g[k - 1])
      BY <1>3, <3>1
    <3> QED
      BY <2>2, <3>1, <3>2
  <2> QED
    BY <2>1, <2>2
<1>5. Unfolds(g)
  <2>1. g = [k \in Nat |-> g[k]]
    BY <1>3
  <2> QED
    BY <1>4, <2>1
<1>6. Unfolds(Sums(a, min))
  <2>1. Sums(a, min) = CHOOSE f : Unfolds(f)
    BY DEF Sums, w
  <2> HIDE DEF Unfolds
  <2> QED
    BY <1>5, <2>1
<1> DEFINE u == Sums(a, min)
<1> HIDE DEF u
<1>7. /\ u[0] = base
      /\ \A k \in Nat : u[k + 1] = IF k + 1 < min THEN Nothing ELSE Either(w[k + 1], u[k])
  <2> DEFINE R == [k \in Nat |-> IF k < min THEN Nothing
                                 ELSE IF k = 0 THEN w[0] ELSE Either(w[k], u[k - 1])]
  <2>1. u = R
    BY <1>6 DEF u
  <2>2. /\ R[0] = base
        /\ \A k \in Nat : R[k + 1] = IF k + 1 < min THEN Nothing ELSE Either(w[k + 1], u[(k + 1) - 1])
    BY <1>0
  <2>3. \A k \in Nat : (k + 1) - 1 = k
    OBVIOUS
  <2> HIDE DEF R, Unfolds, step, base
  <2> QED
    BY <2>1, <2>2, <2>3
<1> DEFINE S == {k \in Nat : u[k] \in W}
<1>8. S = Nat
  <2> HIDE DEF Unfolds, step, base
  <2>1. 0 \in S
    BY <1>1, <1>7
  <2>2. ASSUME NEW k \in S PROVE k + 1 \in S
    <3>1. u[k] \in W /\ k + 1 \in Nat /\ w[k + 1] \in W
      BY <1>0
    <3>2. Either(w[k + 1], u[k]) \in W /\ Nothing \in W
      BY <3>1, ShapesTyped
    <3>3. u[k + 1] = IF k + 1 < min THEN Nothing ELSE Either(w[k + 1], u[k])
      BY <1>7
    <3> QED
      BY <3>1, <3>2, <3>3
  <2>3. S \subseteq Nat
    OBVIOUS
  <2> HIDE DEF S
  <2> QED
    BY <2>1, <2>2, <2>3, Induction
<1>9. u \in [Nat -> W]
  <2>1. \A k \in Nat : u[k] \in W
    BY <1>8
  <2>2. u = [k \in Nat |-> IF k < min THEN Nothing
                           ELSE IF k = 0 THEN w[0] ELSE Either(w[k], u[k - 1])]
    BY <1>6 DEF u
  <2>3. u = [k \in Nat |-> u[k]]
    BY <2>2
  <2> HIDE DEF S, Unfolds, step
  <2> QED
    BY <2>1, <2>3
<1> QED
  BY <1>7, <1>9 DEF u, w

\* Nothing a fixed atom is repeated to matches in two ways.
LEMMA PowersFixed ==
  ASSUME NEW a \in W, NEW p \in Nat, At(a, p), NEW k \in Nat
  PROVE  Fixed(Powers(a)[k])
<1> DEFINE S == {j \in Nat : Fixed(Powers(a)[j])}
<1>1. 0 \in S
  BY PowersUnfold, ShapesTyped DEF Fixed
<1>2. ASSUME NEW j \in S PROVE j + 1 \in S
  <2>1. PICK q \in Nat : At(Powers(a)[j], q)
    BY DEF Fixed
  <2>2. Powers(a)[j + 1] = Then(a, Powers(a)[j]) /\ Powers(a)[j] \in W
    BY PowersUnfold
  <2>3. At(Powers(a)[j + 1], p + q) /\ p + q \in Nat
    BY <2>1, <2>2, ThenFixed
  <2> QED
    BY <2>3 DEF Fixed
<1>3. S \subseteq Nat
  OBVIOUS
<1> HIDE DEF S
<1>4. S = Nat
  BY <1>1, <1>2, <1>3, Induction
<1> QED
  BY <1>4 DEF S

\* All the powers of an atom of one length, but not empty, are different lengths.
LEMMA SumsBounded ==
  ASSUME NEW a \in W, NEW p \in Nat, p # 0, At(a, p), NEW min \in Nat, NEW k \in Nat
  PROVE  /\ AtMost(Sums(a, min)[k], 1)
         /\ Sums(a, min)[k][0] = IF min = 0 THEN 1 ELSE 0
<1> DEFINE u == Sums(a, min)
           w == Powers(a)
           Beyond(j) == \E q \in Nat : At(w[j], q) /\ \A n \in Strings : n > q => u[j][n] = 0
           Good(j) == AtMost(u[j], 1) /\ u[j][0] = (IF min = 0 THEN 1 ELSE 0) /\ Beyond(j)
           S == {j \in Nat : Good(j)}
<1>1. /\ u \in [Nat -> W] /\ w \in [Nat -> W] /\ w[0] = Empty
      /\ u[0] = IF min = 0 THEN Empty ELSE Nothing
      /\ \A j \in Nat : u[j + 1] = IF j + 1 < min THEN Nothing ELSE Either(w[j + 1], u[j])
      /\ \A j \in Nat : w[j + 1] = Then(a, w[j])
  BY SumsUnfold, PowersUnfold
<1> HIDE DEF u, w
<1>2. 0 \in S
  <2>1. At(w[0], 0)
    BY <1>1, ShapesTyped
  <2>2. \A n \in Strings : u[0][n] = IF min = 0 /\ n = 0 THEN 1 ELSE 0
    BY <1>1, ShapesTyped DEF At
  <2>3. 0 \in Strings /\ Strings \subseteq Nat
    BY ShapesTyped
  <2>6. AtMost(u[0], 1)
    <3>1. ASSUME NEW n \in Strings PROVE u[0][n] <= 1
      <4>1. u[0][n] = 0 \/ u[0][n] = 1
        BY <2>2
      <4> QED
        BY <4>1
    <3> QED
      BY <3>1 DEF AtMost
  <2>4. AtMost(u[0], 1) /\ u[0][0] = (IF min = 0 THEN 1 ELSE 0)
    BY <2>2, <2>3, <2>6
  <2>5. \A n \in Strings : n > 0 => u[0][n] = 0
    BY <2>2, <2>3
  <2> QED
    BY <2>1, <2>4, <2>5
<1>3. ASSUME NEW j \in S PROVE j + 1 \in S
  <2>1. PICK q \in Nat : At(w[j], q) /\ \A n \in Strings : n > q => u[j][n] = 0
    OBVIOUS
  <2>2. AtMost(u[j], 1) /\ u[j][0] = (IF min = 0 THEN 1 ELSE 0) /\ j \in Nat
    OBVIOUS
  <2> DEFINE r == p + q
  <2>3. At(w[j + 1], r) /\ r \in Nat /\ r > q /\ r # 0
    BY <1>1, <2>1, <2>2, ThenFixed
  <2> HIDE DEF r
  <2>4. u[j + 1] = (IF j + 1 < min THEN Nothing ELSE Either(w[j + 1], u[j]))
        /\ j + 1 \in Nat /\ w[j + 1] \in W /\ u[j] \in W
    BY <1>1, <2>2
  <2>5. 0 \in Strings /\ Strings \subseteq Nat
    BY ShapesTyped
  <2>6. CASE j + 1 < min
    <3>1. \A n \in Strings : u[j + 1][n] = 0
      BY <2>4, <2>6, ShapesTyped
    <3>2. min # 0
      BY <2>2, <2>6
    <3>3. AtMost(u[j + 1], 1) /\ u[j + 1][0] = (IF min = 0 THEN 1 ELSE 0)
      BY <2>5, <3>1, <3>2 DEF AtMost
    <3> QED
      BY <2>3, <2>4, <3>1, <3>3
  <2>7. CASE ~ j + 1 < min
    <3>1. \A n \in Strings : u[j + 1][n] = w[j + 1][n] + u[j][n]
      BY <2>4, <2>7, ShapesTyped
    <3>2. \A n \in Strings : w[j + 1][n] = IF n = r THEN 1 ELSE 0
      BY <2>3 DEF At
    <3>3. \A n \in Strings : u[j][n] \in Nat /\ u[j][n] <= 1
      BY <2>2, <2>4 DEF W, AtMost
    <3>4. \A n \in Strings : u[j + 1][n] <= 1
      <4> SUFFICES ASSUME NEW n \in Strings PROVE u[j + 1][n] <= 1
        OBVIOUS
      <4>1. CASE n = r
        BY <2>1, <2>3, <3>1, <3>2, <4>1
      <4>2. CASE n # r
        BY <3>1, <3>2, <3>3, <4>2
      <4> QED
        BY <4>1, <4>2
    <3>5. u[j + 1][0] = (IF min = 0 THEN 1 ELSE 0)
      BY <2>2, <2>3, <2>5, <3>1, <3>2
    <3>6. \A n \in Strings : n > r => u[j + 1][n] = 0
      <4> SUFFICES ASSUME NEW n \in Strings, n > r PROVE u[j + 1][n] = 0
        OBVIOUS
      <4>1. n \in Nat /\ n > q /\ n # r
        BY <2>3, <2>5
      <4> QED
        BY <2>1, <3>1, <3>2, <4>1
    <3> QED
      BY <2>3, <2>4, <3>4, <3>5, <3>6 DEF AtMost
  <2> QED
    BY <2>6, <2>7
<1>4. S \subseteq Nat
  OBVIOUS
<1>5. S = Nat
  <2> HIDE DEF S
  <2> QED
    BY <1>2, <1>3, <1>4, Induction
<1> QED
  BY <1>5 DEF u

\* A repetition that stops where it starts is one power.
LEMMA SumsFromPower ==
  ASSUME NEW a \in W, NEW min \in Nat, min # 0, NEW p \in Nat, At(a, p)
  PROVE  Fixed(Sums(a, min)[min])
<1> DEFINE u == Sums(a, min)
           w == Powers(a)
<1>0. min - 1 \in Nat /\ (min - 1) + 1 = min
  OBVIOUS
<1>1. /\ w[min] \in W
      /\ u[0] = IF min = 0 THEN Empty ELSE Nothing
      /\ \A j \in Nat : u[j + 1] = IF j + 1 < min THEN Nothing ELSE Either(w[j + 1], u[j])
  BY SumsUnfold, PowersUnfold
<1> HIDE DEF u, w
<1>2. u[min - 1] = Nothing
  <2>1. CASE min = 1
    BY <1>0, <1>1, <2>1
  <2>2. CASE min # 1
    <3>1. min - 2 \in Nat /\ (min - 2) + 1 = min - 1 /\ min - 1 < min
      BY <2>2
    <3>2. u[(min - 2) + 1] = IF (min - 2) + 1 < min THEN Nothing ELSE Either(w[(min - 2) + 1], u[min - 2])
      BY <1>1, <3>1
    <3> QED
      BY <3>1, <3>2
  <2> QED
    BY <2>1, <2>2
<1>3. u[min] = Either(w[min], Nothing)
  <2>1. u[(min - 1) + 1] = IF (min - 1) + 1 < min THEN Nothing ELSE Either(w[(min - 1) + 1], u[min - 1])
    BY <1>0, <1>1
  <2> QED
    BY <1>0, <1>2, <2>1
<1>4. ASSUME NEW n \in Strings PROVE u[min][n] = w[min][n]
  <2>1. u[min][n] = w[min][n] + Nothing[n]
    <3>1. Nothing \in W
      BY ShapesTyped
    <3>2. Either(w[min], Nothing)[n] = w[min][n] + Nothing[n]
      BY <1>1, <3>1, ShapesTyped
    <3> QED
      BY <1>3, <3>2
  <2>2. w[min][n] \in Nat
    BY <1>1 DEF W
  <2>3. Nothing[n] = 0
    BY ShapesTyped
  <2> QED
    BY <2>1, <2>2, <2>3
<1>5. Fixed(w[min])
  BY PowersFixed DEF w
<1> QED
  BY <1>4, <1>5 DEF Fixed, At, u

\* Repeated by its parts.
LEMMA RepeatedIsSum ==
  ASSUME NEW a, NEW min, NEW max
  PROVE  Repeated(a, min, max) = Sums(a, min)[Min2(max, IF min > Length THEN min ELSE Length)]
  BY DEF Repeated, Sums, Powers

\* What a repetition makes of an atom that matches one length, not empty.
LEMMA RepeatedWays ==
  ASSUME NEW a \in W, Fixed(a), a[0] = 0,
         NEW min \in Nat, NEW max \in Nat, max >= min, max # 0
  PROVE  /\ Repeated(a, min, max) \in W /\ AtMost(Repeated(a, min, max), 1)
         /\ Repeated(a, min, max)[0] > 0 <=> min = 0
         /\ max = min => Fixed(Repeated(a, min, max))
<1> DEFINE n == Min2(max, IF min > Length THEN min ELSE Length)
<1>1. PICK p \in Nat : At(a, p)
  BY DEF Fixed
<1>2. p # 0
  BY <1>1, ShapesTyped DEF At
<1>3. n \in Nat /\ (max = min => n = min)
  BY PatternAssumption DEF Min2
<1>4. Repeated(a, min, max) = Sums(a, min)[n]
  BY RepeatedIsSum
<1> HIDE DEF n
<1>5. Sums(a, min)[n] \in W
  BY <1>3, SumsUnfold
<1>6. AtMost(Sums(a, min)[n], 1) /\ Sums(a, min)[n][0] = IF min = 0 THEN 1 ELSE 0
  BY <1>1, <1>2, <1>3, SumsBounded
<1>7. ASSUME max = min PROVE Fixed(Sums(a, min)[n])
  <2>1. n = min /\ min # 0
    BY <1>3, <1>7
  <2> QED
    BY <1>1, <2>1, SumsFromPower
<1> QED
  BY <1>4, <1>5, <1>6, <1>7

(***************************************************************************)
(* Patterns: what the flags of a frame mean                                *)
(***************************************************************************)

\* An atom and a frame as the scanner builds them.
AtomType ==
  [isAtom : {TRUE}, canMatchEmpty : BOOLEAN, hasVariableShape : BOOLEAN,
   isQuantified : BOOLEAN, prefixCanMatchEmpty : BOOLEAN,
   containsVariableRepetition : BOOLEAN, containsAlternation : BOOLEAN,
   isGroup : BOOLEAN, ways : W]

FrameType ==
  [sequenceCanMatchEmpty : BOOLEAN, earlierBranchCanMatchEmpty : BOOLEAN,
   containsVariableRepetition : BOOLEAN, containsAlternation : BOOLEAN,
   branchHasVariableShape : BOOLEAN, lastAtom : {NoAtom} \cup AtomType,
   earlierWays : W, prefixWays : W]

\* An atom says whether it has one length and whether it can be empty; before it
\* is repeated it is never empty, and only a group has no single length.
AtomHolds(atom, own) ==
  /\ atom.canMatchEmpty <=> atom.ways[0] > 0
  /\ IF atom.hasVariableShape THEN AtMost(atom.ways, 1 + own) ELSE Fixed(atom.ways)
  /\ ~ atom.isQuantified =>
       /\ ~ atom.canMatchEmpty
       /\ atom.hasVariableShape =>
            /\ atom.isGroup
            /\ atom.containsVariableRepetition \/ atom.containsAlternation

\* Earlier branches took some of the bars of the frame; the branch being read has
\* at most one part of no single length, its last atom or what is before it.
Shares(frame, own, e) ==
  /\ AtMost(frame.earlierWays, e)
  /\ frame.lastAtom.isAtom => AtomHolds(frame.lastAtom, own - e)
  /\ IF frame.lastAtom.isAtom /\ frame.lastAtom.hasVariableShape
       THEN Fixed(frame.prefixWays) ELSE AtMost(frame.prefixWays, 1 + (own - e))

\* What the flags of a frame that has so many bars of its own say of its ways.
FrameHolds(frame, own) ==
  /\ \E e \in 0 .. own : Shares(frame, own, e)
  /\ ~ frame.branchHasVariableShape =>
       /\ Fixed(frame.prefixWays)
       /\ frame.lastAtom.isAtom => ~ frame.lastAtom.hasVariableShape
  /\ frame.branchHasVariableShape =>
       frame.containsVariableRepetition \/ frame.containsAlternation
  /\ ~ frame.containsAlternation =>
       /\ frame.earlierWays = Nothing /\ ~ frame.earlierBranchCanMatchEmpty
  /\ frame.sequenceCanMatchEmpty <=> BranchWays(frame)[0] > 0
  /\ frame.earlierBranchCanMatchEmpty <=> frame.earlierWays[0] > 0
  /\ frame.lastAtom.isAtom =>
       (frame.lastAtom.prefixCanMatchEmpty <=> frame.prefixWays[0] > 0)

\* The last atom of a frame, or none, and the ways they add up to.
LEMMA LastAtomTyped ==
  ASSUME NEW frame \in FrameType
  PROVE  /\ frame.lastAtom.ways \in W /\ frame.lastAtom.isAtom \in BOOLEAN
         /\ frame.lastAtom.isAtom => frame.lastAtom \in AtomType
         /\ ~ frame.lastAtom.isAtom => frame.lastAtom = NoAtom
         /\ frame.prefixWays \in W /\ frame.earlierWays \in W
         /\ BranchWays(frame) \in W /\ FrameWays(frame) \in W
         /\ BranchWays(frame)[0] = frame.prefixWays[0] * frame.lastAtom.ways[0]
         /\ NoAtom.ways = Empty /\ ~ NoAtom.isAtom
<1>1. NoAtom.ways = Empty /\ ~ NoAtom.isAtom /\ NoAtom.isAtom \in BOOLEAN /\ NoAtom.ways \in W
  BY ShapesTyped DEF NoAtom
<1>2. frame.lastAtom \in {NoAtom} \cup AtomType /\ frame.prefixWays \in W /\ frame.earlierWays \in W
  BY DEF FrameType
<1>3. \A a \in AtomType : a.isAtom /\ a.isAtom \in BOOLEAN /\ a.ways \in W
  BY DEF AtomType
<1>4. /\ frame.lastAtom.ways \in W /\ frame.lastAtom.isAtom \in BOOLEAN
      /\ frame.lastAtom.isAtom => frame.lastAtom \in AtomType
      /\ ~ frame.lastAtom.isAtom => frame.lastAtom = NoAtom
  BY <1>1, <1>2, <1>3
<1>5. /\ BranchWays(frame) \in W
      /\ BranchWays(frame)[0] = frame.prefixWays[0] * frame.lastAtom.ways[0]
  BY <1>2, <1>4, ThenTyped, ThenAtZero DEF BranchWays
<1>6. FrameWays(frame) \in W
  BY <1>2, <1>5, ShapesTyped DEF FrameWays
<1> QED
  BY <1>1, <1>2, <1>4, <1>5, <1>6

\* The branch being read has one length unless a flag says otherwise, and a frame
\* matches no string in more ways than one more than its bars.
LEMMA FrameBounded ==
  ASSUME NEW frame \in FrameType, NEW own \in Nat, NEW e \in 0 .. own, Shares(frame, own, e)
  PROVE  /\ AtMost(BranchWays(frame), 1 + (own - e))
         /\ AtMost(FrameWays(frame), 1 + own)
<1> DEFINE p == frame.prefixWays
           w == frame.lastAtom.ways
           c == 1 + (own - e)
<1>1. p \in W /\ w \in W /\ c \in Nat /\ c >= 1
  BY LastAtomTyped
<1>2. AtMost(Then(p, w), c)
  <2>1. CASE frame.lastAtom.isAtom /\ frame.lastAtom.hasVariableShape
    <3>1. Fixed(p) /\ AtMost(w, c)
      BY <2>1 DEF Shares, AtomHolds
    <3> HIDE DEF p, w, c
    <3> QED
      BY <1>1, <3>1, ThenAtMost
  <2>2. CASE ~ (frame.lastAtom.isAtom /\ frame.lastAtom.hasVariableShape)
    <3>1. AtMost(p, c)
      BY <2>2 DEF Shares
    <3>2. Fixed(w)
      BY <2>2, LastAtomTyped, ShapesTyped DEF Shares, AtomHolds, Fixed
    <3> HIDE DEF p, w, c
    <3> QED
      BY <1>1, <3>1, <3>2, ThenAtMost
  <2> QED
    BY <2>1, <2>2
<1>3. AtMost(BranchWays(frame), c)
  BY <1>2 DEF BranchWays
<1>4. AtMost(FrameWays(frame), 1 + own)
  <2> SUFFICES ASSUME NEW n \in Strings PROVE FrameWays(frame)[n] <= 1 + own
    BY DEF AtMost
  <2>1. FrameWays(frame)[n] = frame.earlierWays[n] + BranchWays(frame)[n]
    BY LastAtomTyped, ShapesTyped DEF FrameWays
  <2>2. frame.earlierWays[n] \in Nat /\ BranchWays(frame)[n] \in Nat
    BY LastAtomTyped DEF W
  <2>3. frame.earlierWays[n] <= e /\ BranchWays(frame)[n] <= c
    BY <1>3 DEF Shares, AtMost
  <2> QED
    BY <2>1, <2>2, <2>3
<1> QED
  BY <1>3, <1>4

\* Without a variable shape the branch being read has one length.
LEMMA BranchFixed ==
  ASSUME NEW frame \in FrameType, NEW own \in Nat, FrameHolds(frame, own),
         ~ frame.branchHasVariableShape
  PROVE  /\ Fixed(frame.lastAtom.ways) /\ Fixed(BranchWays(frame))
         /\ ~ frame.containsAlternation => Fixed(FrameWays(frame))
<1>1. Fixed(frame.prefixWays)
  BY DEF FrameHolds
<1>2. Fixed(frame.lastAtom.ways)
  BY LastAtomTyped, ShapesTyped DEF FrameHolds, Shares, AtomHolds, Fixed
<1>3. Fixed(BranchWays(frame))
  <2>1. PICK p \in Nat : At(frame.prefixWays, p)
    BY <1>1 DEF Fixed
  <2>2. PICK q \in Nat : At(frame.lastAtom.ways, q)
    BY <1>2 DEF Fixed
  <2>3. At(BranchWays(frame), p + q) /\ p + q \in Nat
    BY <2>1, <2>2, LastAtomTyped, ThenFixed DEF BranchWays
  <2> QED
    BY <2>3 DEF Fixed
<1>4. ASSUME ~ frame.containsAlternation PROVE Fixed(FrameWays(frame))
  <2>1. frame.earlierWays = Nothing
    BY <1>4 DEF FrameHolds
  <2>2. \A n \in Strings : FrameWays(frame)[n] = Nothing[n] + BranchWays(frame)[n]
                           /\ Nothing[n] = 0 /\ BranchWays(frame)[n] \in Nat
    BY <2>1, LastAtomTyped, ShapesTyped DEF FrameWays, W
  <2>3. \A n \in Strings : FrameWays(frame)[n] = BranchWays(frame)[n]
    BY <2>2
  <2> QED
    BY <1>3, <2>3 DEF Fixed, At
<1> QED
  BY <1>2, <1>3, <1>4

\* A group starts with nothing.
LEMMA NewFrameHolds == NewFrame \in FrameType /\ FrameHolds(NewFrame, 0)
<1>1. NewFrame \in FrameType
  BY ShapesTyped DEF NewFrame, FrameType
<1>2. /\ NewFrame.prefixWays = Empty /\ NewFrame.lastAtom = NoAtom /\ NewFrame.earlierWays = Nothing
      /\ NewFrame.sequenceCanMatchEmpty /\ ~ NewFrame.earlierBranchCanMatchEmpty
      /\ ~ NewFrame.branchHasVariableShape /\ ~ NewFrame.containsAlternation
  BY DEF NewFrame
<1>3. Empty[0] = 1 /\ Nothing[0] = 0 /\ Fixed(Empty) /\ Empty \in W
  BY ShapesTyped DEF At, Fixed
<1>4. BranchWays(NewFrame)[0] = 1
  <2>1. 1 * 1 = 1
    OBVIOUS
  <2> QED
    BY <1>1, <1>2, <1>3, <2>1, LastAtomTyped
<1>5. AtMost(Nothing, 0) /\ AtMost(Empty, 1 + (0 - 0))
  BY <1>3, ShapesTyped, FixedAtMost DEF AtMost
<1>6. Shares(NewFrame, 0, 0)
  BY <1>1, <1>2, <1>5, LastAtomTyped DEF Shares
<1> QED
  BY <1>1, <1>2, <1>3, <1>4, <1>6, LastAtomTyped DEF FrameHolds

\* What a push leaves in the frame.
LEMMA PushDoes ==
  ASSUME NEW frame \in FrameType, NEW atom \in AtomType
  PROVE  LET next == Push(frame, atom) IN
         /\ next \in FrameType
         /\ next.lastAtom.isAtom
         /\ next.lastAtom = [atom EXCEPT !.prefixCanMatchEmpty = frame.sequenceCanMatchEmpty]
         /\ next.sequenceCanMatchEmpty = (frame.sequenceCanMatchEmpty /\ atom.canMatchEmpty)
         /\ next.branchHasVariableShape = (frame.branchHasVariableShape \/ atom.hasVariableShape)
         /\ next.containsVariableRepetition =
              (frame.containsVariableRepetition \/ atom.containsVariableRepetition)
         /\ next.containsAlternation = (frame.containsAlternation \/ atom.containsAlternation)
         /\ next.prefixWays = BranchWays(frame)
         /\ next.earlierWays = frame.earlierWays
         /\ next.earlierBranchCanMatchEmpty = frame.earlierBranchCanMatchEmpty
<1>1. BranchWays(frame) \in W
  BY LastAtomTyped
<1>2. [atom EXCEPT !.prefixCanMatchEmpty = frame.sequenceCanMatchEmpty] \in AtomType
  BY DEF AtomType, FrameType
<1>3. \A a \in AtomType : a.isAtom
  BY DEF AtomType
<1> DEFINE a == [atom EXCEPT !.prefixCanMatchEmpty = frame.sequenceCanMatchEmpty]
<1>4. Push(frame, atom) =
        [frame EXCEPT
           !.lastAtom = a,
           !.sequenceCanMatchEmpty = @ /\ atom.canMatchEmpty,
           !.branchHasVariableShape = @ \/ atom.hasVariableShape,
           !.containsVariableRepetition = @ \/ atom.containsVariableRepetition,
           !.containsAlternation = @ \/ atom.containsAlternation,
           !.prefixWays = BranchWays(frame)]
  BY DEF Push
<1>5. a \in AtomType /\ a.isAtom
  BY <1>2, <1>3
<1> HIDE DEF a
<1> QED
  BY <1>1, <1>4, <1>5 DEF FrameType, a

\* A larger bound.
LEMMA AtMostMore ==
  ASSUME NEW a \in W, NEW c \in Nat, NEW d \in Nat, c <= d, AtMost(a, c) PROVE AtMost(a, d)
  BY DEF AtMost, W

\* A product is zero if a factor is.
LEMMA ZeroProduct ==
  \A x, y \in Nat : x * y \in Nat /\ (x * y > 0 <=> x > 0 /\ y > 0)
  BY Z3

\* What a push keeps: the bars of the atom come to the frame.
LEMMA PushHolds ==
  ASSUME NEW frame \in FrameType, NEW own \in Nat, FrameHolds(frame, own),
         NEW atom \in AtomType, NEW more \in Nat, AtomHolds(atom, more),
         ~ atom.isQuantified, CanPush(frame, atom)
  PROVE  Push(frame, atom) \in FrameType /\ FrameHolds(Push(frame, atom), own + more)
<1> DEFINE next == Push(frame, atom)
<1> HIDE DEF next
<1>1. /\ next \in FrameType
      /\ next.lastAtom.isAtom
      /\ next.lastAtom = [atom EXCEPT !.prefixCanMatchEmpty = frame.sequenceCanMatchEmpty]
      /\ next.sequenceCanMatchEmpty = (frame.sequenceCanMatchEmpty /\ atom.canMatchEmpty)
      /\ next.branchHasVariableShape = (frame.branchHasVariableShape \/ atom.hasVariableShape)
      /\ next.containsVariableRepetition =
           (frame.containsVariableRepetition \/ atom.containsVariableRepetition)
      /\ next.containsAlternation = (frame.containsAlternation \/ atom.containsAlternation)
      /\ next.prefixWays = BranchWays(frame)
      /\ next.earlierWays = frame.earlierWays
      /\ next.earlierBranchCanMatchEmpty = frame.earlierBranchCanMatchEmpty
  BY PushDoes DEF next
<1>2. /\ next.lastAtom.prefixCanMatchEmpty = frame.sequenceCanMatchEmpty
      /\ next.lastAtom.ways = atom.ways /\ next.lastAtom.canMatchEmpty = atom.canMatchEmpty
      /\ next.lastAtom.hasVariableShape = atom.hasVariableShape
      /\ next.lastAtom.isQuantified = atom.isQuantified /\ next.lastAtom.isGroup = atom.isGroup
      /\ next.lastAtom.containsVariableRepetition = atom.containsVariableRepetition
      /\ next.lastAtom.containsAlternation = atom.containsAlternation
  BY <1>1 DEF AtomType
<1>3. PICK e \in 0 .. own : Shares(frame, own, e)
  BY DEF FrameHolds
<1> DEFINE mine == own + more
<1>4. /\ mine \in Nat /\ e \in 0 .. mine /\ mine - e \in Nat /\ more \in Nat
      /\ 1 + more <= 1 + (mine - e) /\ 1 + (own - e) <= 1 + (mine - e)
      /\ 1 + (own - e) \in Nat /\ 1 + (mine - e) \in Nat /\ 1 + more \in Nat
  OBVIOUS
<1> HIDE DEF mine
<1>5. atom.ways \in W /\ BranchWays(frame) \in W
  BY LastAtomTyped DEF AtomType
<1>6. AtomHolds(next.lastAtom, mine - e)
  <2>1. atom.hasVariableShape => AtMost(atom.ways, 1 + (mine - e))
    BY <1>4, <1>5, AtMostMore DEF AtomHolds
  <2> QED
    BY <1>2, <2>1 DEF AtomHolds
<1>7. IF atom.hasVariableShape THEN Fixed(BranchWays(frame))
      ELSE AtMost(BranchWays(frame), 1 + (mine - e))
  <2>1. CASE atom.hasVariableShape
    <3>1. ~ frame.branchHasVariableShape
      BY <2>1 DEF CanPush
    <3> QED
      BY <2>1, <3>1, BranchFixed
  <2>2. CASE ~ atom.hasVariableShape
    <3>1. AtMost(BranchWays(frame), 1 + (own - e))
      BY <1>3, FrameBounded
    <3>2. AtMost(BranchWays(frame), 1 + (mine - e))
      BY <1>4, <1>5, <3>1, AtMostMore
    <3> QED
      BY <2>2, <3>2
  <2> QED
    BY <2>1, <2>2
<1>8. Shares(next, mine, e)
  BY <1>1, <1>2, <1>3, <1>6, <1>7 DEF Shares
<1>9. ~ next.branchHasVariableShape =>
        Fixed(next.prefixWays) /\ ~ next.lastAtom.hasVariableShape
  BY <1>1, <1>2, BranchFixed
<1>10. next.branchHasVariableShape =>
         next.containsVariableRepetition \/ next.containsAlternation
  BY <1>1 DEF FrameHolds, AtomHolds
<1>11. ~ next.containsAlternation =>
         next.earlierWays = Nothing /\ ~ next.earlierBranchCanMatchEmpty
  BY <1>1 DEF FrameHolds
<1>12. ~ next.sequenceCanMatchEmpty /\ ~ BranchWays(next)[0] > 0
  <2>1. ~ atom.canMatchEmpty /\ ~ atom.ways[0] > 0 /\ 0 \in Strings
    BY ShapesTyped DEF AtomHolds
  <2>2. BranchWays(next)[0] = next.prefixWays[0] * atom.ways[0]
    BY <1>1, <1>2, LastAtomTyped
  <2>3. atom.ways[0] \in Nat /\ next.prefixWays[0] \in Nat
    BY <1>1, <1>5, <2>1 DEF W
  <2>4. ~ next.prefixWays[0] * atom.ways[0] > 0
    BY <2>1, <2>3, ZeroProduct
  <2> QED
    BY <1>1, <2>1, <2>2, <2>4
<1>13. /\ next.earlierBranchCanMatchEmpty <=> next.earlierWays[0] > 0
       /\ next.lastAtom.prefixCanMatchEmpty <=> next.prefixWays[0] > 0
  BY <1>1, <1>2 DEF FrameHolds
<1>14. FrameHolds(next, mine)
  BY <1>4, <1>8, <1>9, <1>10, <1>11, <1>12, <1>13 DEF FrameHolds
<1> QED
  BY <1>1, <1>14 DEF next, mine

\* A literal matches one string.
LEMMA LiteralHolds ==
  /\ Literal \in AtomType /\ AtomHolds(Literal, 0)
  /\ ~ Literal.isQuantified /\ ~ Literal.hasVariableShape
<1>1. Literal \in AtomType
  BY ShapesTyped DEF Literal, Atom, AtomType
<1>2. /\ ~ Literal.isQuantified /\ ~ Literal.hasVariableShape /\ ~ Literal.canMatchEmpty
      /\ Literal.ways = OneCharacter
  BY DEF Literal, Atom
<1>3. Fixed(OneCharacter) /\ OneCharacter[0] = 0
  BY ShapesTyped DEF Fixed, At
<1> QED
  BY <1>1, <1>2, <1>3 DEF AtomHolds

\* A closed group that is never empty is an atom that keeps the bars of its frame.
LEMMA GroupAtomHolds ==
  ASSUME NEW frame \in FrameType, NEW own \in Nat, FrameHolds(frame, own),
         ~ CanMatchEmpty(frame)
  PROVE  /\ GroupAtom(frame) \in AtomType /\ AtomHolds(GroupAtom(frame), own)
         /\ ~ GroupAtom(frame).isQuantified
<1> DEFINE atom == GroupAtom(frame)
<1>1. FrameWays(frame) \in W
  BY LastAtomTyped
<1>2. /\ atom \in AtomType /\ ~ atom.isQuantified /\ ~ atom.canMatchEmpty
      /\ atom.ways = FrameWays(frame) /\ atom.isGroup
      /\ atom.containsVariableRepetition = frame.containsVariableRepetition
      /\ atom.containsAlternation = frame.containsAlternation
      /\ atom.hasVariableShape = (frame.containsVariableRepetition \/ frame.containsAlternation)
  <2>1. GroupAtom(frame) =
          [isAtom |-> TRUE, canMatchEmpty |-> FALSE,
           hasVariableShape |-> frame.containsVariableRepetition \/ frame.containsAlternation,
           isQuantified |-> FALSE, prefixCanMatchEmpty |-> FALSE,
           containsVariableRepetition |-> frame.containsVariableRepetition,
           containsAlternation |-> frame.containsAlternation, isGroup |-> TRUE,
           ways |-> FrameWays(frame)]
    BY DEF GroupAtom, Atom
  <2> QED
    BY <1>1, <2>1 DEF FrameType, AtomType
<1> HIDE DEF atom
<1>3. ~ FrameWays(frame)[0] > 0
  <2>1. FrameWays(frame)[0] = frame.earlierWays[0] + BranchWays(frame)[0]
    BY LastAtomTyped, ShapesTyped DEF FrameWays
  <2>2. frame.earlierWays[0] \in Nat /\ BranchWays(frame)[0] \in Nat
    BY LastAtomTyped, ShapesTyped DEF W
  <2>3. ~ frame.earlierWays[0] > 0 /\ ~ BranchWays(frame)[0] > 0
    BY DEF CanMatchEmpty, FrameHolds
  <2> QED
    BY <2>1, <2>2, <2>3
<1>4. atom.hasVariableShape => AtMost(atom.ways, 1 + own)
  BY <1>2, FrameBounded DEF FrameHolds
<1>5. ~ atom.hasVariableShape => Fixed(atom.ways)
  <2> SUFFICES ASSUME ~ atom.hasVariableShape PROVE Fixed(atom.ways)
    OBVIOUS
  <2>1. ~ frame.containsAlternation /\ ~ frame.branchHasVariableShape
    BY <1>2 DEF FrameHolds, FrameType
  <2> QED
    BY <1>2, <2>1, BranchFixed
<1>6. AtomHolds(atom, own)
  BY <1>2, <1>3, <1>4, <1>5 DEF AtomHolds
<1> QED
  BY <1>2, <1>6 DEF atom

\* A bar is counted by the frame it stands in.
LEMMA NextBranchHolds ==
  ASSUME NEW frame \in FrameType, NEW own \in Nat, FrameHolds(frame, own)
  PROVE  NextBranch(frame) \in FrameType /\ FrameHolds(NextBranch(frame), own + 1)
<1> DEFINE next == NextBranch(frame)
           mine == own + 1
<1>1. /\ next \in FrameType
      /\ next.lastAtom = NoAtom /\ next.prefixWays = Empty /\ next.earlierWays = FrameWays(frame)
      /\ next.sequenceCanMatchEmpty /\ ~ next.branchHasVariableShape
      /\ next.containsAlternation
      /\ next.earlierBranchCanMatchEmpty =
           (frame.earlierBranchCanMatchEmpty \/ frame.sequenceCanMatchEmpty)
  <2>1. FrameWays(frame) \in W /\ Empty \in W
    BY LastAtomTyped, ShapesTyped
  <2> QED
    BY <2>1 DEF NextBranch, FrameType
<1> HIDE DEF next
<1>2. Empty[0] = 1 /\ Fixed(Empty) /\ Empty \in W /\ 0 \in Strings
  BY ShapesTyped DEF At, Fixed
<1>3. BranchWays(next)[0] > 0
  <2>1. 1 * 1 = 1 /\ 1 > 0
    OBVIOUS
  <2>2. BranchWays(next)[0] = 1 * 1
    BY <1>1, <1>2, LastAtomTyped
  <2> QED
    BY <2>1, <2>2
<1>4. next.earlierBranchCanMatchEmpty <=> next.earlierWays[0] > 0
  <2>1. FrameWays(frame)[0] = frame.earlierWays[0] + BranchWays(frame)[0]
    BY LastAtomTyped, ShapesTyped DEF FrameWays
  <2>2. frame.earlierWays[0] \in Nat /\ BranchWays(frame)[0] \in Nat
    BY <1>2, LastAtomTyped DEF W
  <2>3. /\ frame.earlierBranchCanMatchEmpty <=> frame.earlierWays[0] > 0
        /\ frame.sequenceCanMatchEmpty <=> BranchWays(frame)[0] > 0
    BY DEF FrameHolds
  <2>4. FrameWays(frame)[0] > 0 <=> frame.earlierWays[0] > 0 \/ BranchWays(frame)[0] > 0
    BY <2>1, <2>2
  <2> QED
    BY <1>1, <2>3, <2>4
<1>5. mine \in Nat /\ mine \in 0 .. mine /\ mine - mine = 0 /\ mine = 1 + own /\ 1 + 0 = 1
  OBVIOUS
<1> HIDE DEF mine
<1>6. Shares(next, mine, mine)
  <2>1. AtMost(next.earlierWays, mine)
    BY <1>1, <1>5, FrameBounded DEF FrameHolds
  <2>2. AtMost(next.prefixWays, 1 + (mine - mine))
    BY <1>1, <1>2, <1>5, FixedAtMost
  <2> QED
    BY <1>1, <2>1, <2>2, LastAtomTyped DEF Shares
<1> QED
  BY <1>1, <1>2, <1>3, <1>4, <1>5, <1>6, LastAtomTyped DEF FrameHolds, next, mine

\* After an assertion no atom may be repeated.
LEMMA ForgetAtomHolds ==
  ASSUME NEW frame \in FrameType, NEW own \in Nat, FrameHolds(frame, own)
  PROVE  ForgetAtom(frame) \in FrameType /\ FrameHolds(ForgetAtom(frame), own)
<1> DEFINE next == ForgetAtom(frame)
<1>1. /\ next \in FrameType
      /\ next.lastAtom = NoAtom /\ next.prefixWays = BranchWays(frame)
      /\ next.earlierWays = frame.earlierWays
      /\ next.sequenceCanMatchEmpty = frame.sequenceCanMatchEmpty
      /\ next.branchHasVariableShape = frame.branchHasVariableShape
      /\ next.containsAlternation = frame.containsAlternation
      /\ next.containsVariableRepetition = frame.containsVariableRepetition
      /\ next.earlierBranchCanMatchEmpty = frame.earlierBranchCanMatchEmpty
  <2>1. BranchWays(frame) \in W
    BY LastAtomTyped
  <2> QED
    BY <2>1 DEF ForgetAtom, FrameType
<1> HIDE DEF next
<1>2. Empty[0] = 1 /\ 0 \in Strings
  BY ShapesTyped DEF At
<1>3. BranchWays(next)[0] = BranchWays(frame)[0]
  <2>1. BranchWays(next)[0] = BranchWays(frame)[0] * 1
    BY <1>1, <1>2, LastAtomTyped
  <2>2. BranchWays(frame)[0] \in Nat
    BY <1>2, LastAtomTyped DEF W
  <2>3. \A x \in Nat : x * 1 = x
    OBVIOUS
  <2> QED
    BY <2>1, <2>2, <2>3
<1>4. PICK e \in 0 .. own : Shares(frame, own, e)
  BY DEF FrameHolds
<1>5. Shares(next, own, e)
  BY <1>1, <1>4, FrameBounded, LastAtomTyped DEF Shares
<1>6. ~ next.branchHasVariableShape => Fixed(next.prefixWays)
  BY <1>1, BranchFixed
<1>7. ~ next.lastAtom.isAtom
  BY <1>1, LastAtomTyped
<1> QED
  BY <1>1, <1>3, <1>5, <1>6, <1>7 DEF FrameHolds, next

\* A repetition of the last atom brings no bars.
LEMMA RepeatHolds ==
  ASSUME NEW frame \in FrameType, NEW own \in Nat, FrameHolds(frame, own),
         NEW r \in Repetitions, CanRepeat(frame, r)
  PROVE  Repeat(frame, r) \in FrameType /\ FrameHolds(Repeat(frame, r), own)
<1> DEFINE next == Repeat(frame, r)
           atom == frame.lastAtom
           ways == Repeated(atom.ways, r.min, r.max)
           wider == VariableExtent(r)
<1>1. r.min \in Nat /\ r.max \in Nat /\ r.max >= r.min /\ r.max # 0
  BY PatternAssumption DEF CanRepeat
<1>2. wider \in BOOLEAN /\ (~ wider => r.max = r.min)
  BY DEF VariableExtent
<1>3. PICK e \in 0 .. own : Shares(frame, own, e)
  BY DEF FrameHolds
<1>4. /\ atom.isAtom /\ atom \in AtomType /\ ~ atom.isQuantified
      /\ ~ atom.hasVariableShape /\ ~ atom.canMatchEmpty /\ ~ atom.ways[0] > 0
      /\ Fixed(atom.ways) /\ atom.ways \in W
      /\ AtMost(frame.prefixWays, 1 + (own - e))
      /\ wider => ~ frame.branchHasVariableShape
  <2>1. atom.isAtom /\ atom \in AtomType /\ ~ atom.isQuantified
    BY LastAtomTyped DEF CanRepeat
  <2>2. AtomHolds(atom, own - e)
    BY <1>3, <2>1 DEF Shares
  <2>3. ~ atom.hasVariableShape
    BY <2>1, <2>2 DEF AtomHolds, CanRepeat
  <2> QED
    BY <1>3, <2>1, <2>2, <2>3, LastAtomTyped DEF AtomHolds, CanRepeat, Shares
<1>5. atom.ways[0] = 0
  BY <1>4, ShapesTyped DEF W
<1>6. /\ ways \in W /\ AtMost(ways, 1) /\ (ways[0] > 0 <=> r.min = 0)
      /\ ~ wider => Fixed(ways)
  BY <1>1, <1>2, <1>4, <1>5, RepeatedWays
<1>7. /\ next \in FrameType /\ next.lastAtom \in AtomType /\ next.lastAtom.isAtom
      /\ next.lastAtom.isQuantified /\ next.lastAtom.ways = ways
      /\ next.lastAtom.hasVariableShape = wider
      /\ next.lastAtom.canMatchEmpty = (r.min = 0)
      /\ next.lastAtom.prefixCanMatchEmpty = atom.prefixCanMatchEmpty
      /\ next.sequenceCanMatchEmpty = (atom.prefixCanMatchEmpty /\ r.min = 0)
      /\ next.branchHasVariableShape = (frame.branchHasVariableShape \/ wider)
      /\ next.containsVariableRepetition = (frame.containsVariableRepetition \/ wider)
      /\ next.containsAlternation = frame.containsAlternation
      /\ next.prefixWays = frame.prefixWays
      /\ next.earlierWays = frame.earlierWays
      /\ next.earlierBranchCanMatchEmpty = frame.earlierBranchCanMatchEmpty
  <2> DEFINE empty == r.min = 0 \/ atom.canMatchEmpty
             a == [atom EXCEPT
                     !.isQuantified = TRUE, !.hasVariableShape = @ \/ wider,
                     !.canMatchEmpty = empty, !.ways = ways]
  <2>1. next = [frame EXCEPT
                  !.lastAtom = a,
                  !.sequenceCanMatchEmpty = atom.prefixCanMatchEmpty /\ empty,
                  !.branchHasVariableShape = @ \/ wider,
                  !.containsVariableRepetition = @ \/ wider]
    BY DEF Repeat
  <2>2. empty \in BOOLEAN /\ empty = (r.min = 0)
    BY <1>4
  <2> HIDE DEF empty, wider, ways, next
  <2>3. /\ a \in AtomType /\ a.isAtom /\ a.isQuantified /\ a.ways = ways
        /\ a.hasVariableShape = wider /\ a.canMatchEmpty = empty
        /\ a.prefixCanMatchEmpty = atom.prefixCanMatchEmpty
    BY <1>2, <1>4, <1>6, <2>2 DEF AtomType
  <2>4. atom.prefixCanMatchEmpty \in BOOLEAN
    BY <1>4 DEF AtomType
  <2> HIDE DEF a, atom
  <2>7. (atom.prefixCanMatchEmpty /\ empty) \in BOOLEAN /\ wider \in BOOLEAN
    BY <1>2, <2>2, <2>4
  <2>8. /\ (frame.branchHasVariableShape \/ wider) \in BOOLEAN
        /\ (frame.containsVariableRepetition \/ wider) \in BOOLEAN
    BY <1>2, <2>7 DEF FrameType
  <2>5. next \in FrameType
    BY <1>2, <2>1, <2>3, <2>7, <2>8 DEF FrameType
  <2>6. /\ next.lastAtom = a
        /\ next.sequenceCanMatchEmpty = (atom.prefixCanMatchEmpty /\ empty)
        /\ next.branchHasVariableShape = (frame.branchHasVariableShape \/ wider)
        /\ next.containsVariableRepetition = (frame.containsVariableRepetition \/ wider)
        /\ next.containsAlternation = frame.containsAlternation
        /\ next.prefixWays = frame.prefixWays
        /\ next.earlierWays = frame.earlierWays
        /\ next.earlierBranchCanMatchEmpty = frame.earlierBranchCanMatchEmpty
    BY <1>2, <2>1 DEF FrameType
  <2> HIDE DEF wider
  <2> QED
    BY <2>2, <2>3, <2>5, <2>6
<1> HIDE DEF next, ways, wider, atom
<1>8. AtMost(ways, 1 + (own - e))
  <2>1. 1 \in Nat /\ 1 + (own - e) \in Nat /\ 1 <= 1 + (own - e)
    OBVIOUS
  <2> QED
    BY <1>6, <2>1, AtMostMore
<1>9. Shares(next, own, e)
  <2>1. AtomHolds(next.lastAtom, own - e)
    BY <1>2, <1>6, <1>7, <1>8 DEF AtomHolds
  <2>2. IF wider THEN Fixed(frame.prefixWays) ELSE AtMost(frame.prefixWays, 1 + (own - e))
    BY <1>2, <1>4 DEF FrameHolds
  <2> QED
    BY <1>3, <1>7, <2>1, <2>2 DEF Shares
<1>10. next.sequenceCanMatchEmpty <=> BranchWays(next)[0] > 0
  <2>1. BranchWays(next)[0] = frame.prefixWays[0] * ways[0]
    BY <1>7, LastAtomTyped
  <2>2. frame.prefixWays[0] \in Nat /\ ways[0] \in Nat
    BY <1>6, LastAtomTyped, ShapesTyped DEF W
  <2>3. BranchWays(next)[0] > 0 <=> frame.prefixWays[0] > 0 /\ r.min = 0
    BY <1>6, <2>1, <2>2, ZeroProduct
  <2>4. atom.prefixCanMatchEmpty <=> frame.prefixWays[0] > 0
    BY <1>4 DEF FrameHolds, atom
  <2> QED
    BY <1>7, <2>3, <2>4
<1>11. next.lastAtom.prefixCanMatchEmpty <=> next.prefixWays[0] > 0
  BY <1>4, <1>7 DEF FrameHolds, atom
<1> QED
  BY <1>2, <1>7, <1>9, <1>10, <1>11 DEF FrameHolds, next

(***************************************************************************)
(* Patterns: the stack of frames and the scanner                           *)
(***************************************************************************)

\* c[i] counts the bars of the frames from the i-th outwards; the innermost is the
\* first.
SharedOut(fs, b, c) ==
  /\ c \in [1 .. Len(fs) + 1 -> Nat] /\ c[1] <= b
  /\ \A i \in 1 .. Len(fs) : c[i + 1] <= c[i] /\ FrameHolds(fs[i], c[i] - c[i + 1])

\* The frames that are open have bars of their own, all of them counted.
Stacked(fs, b) ==
  /\ fs \in Seq(FrameType) /\ fs # <<>>
  /\ \E c : SharedOut(fs, b, c)

\* The three ways in which the stack of frames changes.
LEMMA SequenceOps ==
  ASSUME NEW X, NEW s \in Seq(X), s # <<>>, NEW x \in X
  PROVE  /\ LET t == <<x>> \o Tail(s) IN
            /\ t \in Seq(X) /\ t # <<>> /\ Len(t) = Len(s) /\ t[1] = x
            /\ \A i \in 2 .. Len(s) : t[i] = s[i]
         /\ LET t == <<x>> \o s IN
            /\ t \in Seq(X) /\ t # <<>> /\ Len(t) = Len(s) + 1 /\ t[1] = x
            /\ \A i \in 1 .. Len(s) : t[i + 1] = s[i]
         /\ Len(s) > 1 =>
            LET t == <<x>> \o SubSeq(s, 3, Len(s)) IN
            /\ t \in Seq(X) /\ t # <<>> /\ Len(t) = Len(s) - 1 /\ t[1] = x
            /\ \A i \in 2 .. Len(s) - 1 : t[i] = s[i + 1]
         /\ Len(s) \in Nat /\ Len(s) >= 1 /\ \A i \in 1 .. Len(s) : s[i] \in X
         /\ Head(s) = s[1]
<1>1. Len(s) \in Nat /\ Len(s) >= 1 /\ (\A i \in 1 .. Len(s) : s[i] \in X) /\ Head(s) = s[1]
  OBVIOUS
<1>2. /\ Tail(s) \in Seq(X) /\ Len(Tail(s)) = Len(s) - 1
      /\ \A i \in 1 .. Len(s) - 1 : Tail(s)[i] = s[i + 1]
  OBVIOUS
<1>3. /\ <<x>> \in Seq(X) /\ Len(<<x>>) = 1 /\ <<x>>[1] = x
  OBVIOUS
<1>4. \A r \in Seq(X) :
        /\ <<x>> \o r \in Seq(X) /\ Len(<<x>> \o r) = 1 + Len(r) /\ (<<x>> \o r)[1] = x
        /\ \A i \in 1 .. Len(r) : (<<x>> \o r)[i + 1] = r[i]
        /\ <<x>> \o r # <<>>
  <2> SUFFICES ASSUME NEW r \in Seq(X)
      PROVE /\ <<x>> \o r \in Seq(X) /\ Len(<<x>> \o r) = 1 + Len(r) /\ (<<x>> \o r)[1] = x
            /\ \A i \in 1 .. Len(r) : (<<x>> \o r)[i + 1] = r[i]
            /\ <<x>> \o r # <<>>
    OBVIOUS
  <2>1. <<x>> \o r \in Seq(X) /\ Len(<<x>> \o r) = 1 + Len(r) /\ (<<x>> \o r)[1] = x
    BY <1>3
  <2>2. \A i \in 1 .. Len(r) : (<<x>> \o r)[i + 1] = r[i]
    BY <1>3
  <2> QED
    BY <2>1, <2>2
<1>5. LET t == <<x>> \o Tail(s) IN
      /\ t \in Seq(X) /\ t # <<>> /\ Len(t) = Len(s) /\ t[1] = x
      /\ \A i \in 2 .. Len(s) : t[i] = s[i]
  <2> DEFINE t == <<x>> \o Tail(s)
  <2>1. /\ t \in Seq(X) /\ t # <<>> /\ Len(t) = 1 + (Len(s) - 1) /\ t[1] = x
        /\ \A i \in 1 .. Len(s) - 1 : t[i + 1] = s[i + 1]
    BY <1>2, <1>4
  <2>2. \A i \in 2 .. Len(s) : i - 1 \in 1 .. Len(s) - 1 /\ (i - 1) + 1 = i
    BY <1>1
  <2> HIDE DEF t
  <2>3. \A i \in 2 .. Len(s) : t[i] = s[i]
    BY <2>1, <2>2
  <2>4. Len(t) = Len(s)
    BY <1>1, <2>1
  <2> QED
    BY <2>1, <2>3, <2>4 DEF t
<1>6. ASSUME Len(s) > 1
      PROVE  LET t == <<x>> \o SubSeq(s, 3, Len(s)) IN
             /\ t \in Seq(X) /\ t # <<>> /\ Len(t) = Len(s) - 1 /\ t[1] = x
             /\ \A i \in 2 .. Len(s) - 1 : t[i] = s[i + 1]
  <2> DEFINE u == SubSeq(s, 3, Len(s))
             t == <<x>> \o u
  <2>1. /\ u \in Seq(X) /\ Len(u) = Len(s) - 2
        /\ \A i \in 1 .. Len(s) - 2 : u[i] = s[i + 2]
    <3>1. u \in Seq(X)
      BY <1>1, <1>6
    <3>2. Len(u) = Len(s) - 2
      <4>1. CASE Len(s) = 2
        <5>1. u = <<>>
          BY <4>1
        <5> HIDE DEF u
        <5> QED
          BY <4>1, <5>1
      <4>2. CASE Len(s) # 2
        <5>1. Len(s) >= 3 /\ Len(s) \in Nat
          <6>1. \A n \in Nat : n > 1 /\ n # 2 => n >= 3
            OBVIOUS
          <6> HIDE DEF u, t
          <6> QED
            BY <1>1, <1>6, <4>2, <6>1
        <5>2. Len(u) = Len(s) - 3 + 1
          BY <5>1
        <5> HIDE DEF u
        <5> QED
          BY <5>1, <5>2
      <4> QED
        BY <4>1, <4>2
    <3>3. ASSUME NEW i \in 1 .. Len(s) - 2 PROVE u[i] = s[i + 2]
      BY <1>1, <1>6
    <3> QED
      BY <3>1, <3>2, <3>3
  <2> HIDE DEF u
  <2>2. /\ t \in Seq(X) /\ t # <<>> /\ Len(t) = 1 + (Len(s) - 2) /\ t[1] = x
        /\ \A i \in 1 .. Len(s) - 2 : t[i + 1] = s[i + 2]
    BY <1>4, <2>1
  <2>3. \A i \in 2 .. Len(s) - 1 : i - 1 \in 1 .. Len(s) - 2 /\ (i - 1) + 1 = i /\ (i - 1) + 2 = i + 1
    BY <1>1
  <2> HIDE DEF t
  <2>4. \A i \in 2 .. Len(s) - 1 : t[i] = s[i + 1]
    <3> SUFFICES ASSUME NEW i \in 2 .. Len(s) - 1 PROVE t[i] = s[i + 1]
      OBVIOUS
    <3>1. t[(i - 1) + 1] = s[(i - 1) + 2]
      BY <2>2, <2>3
    <3> QED
      BY <2>3, <3>1
  <2>5. Len(t) = Len(s) - 1
    BY <1>1, <2>2
  <2> QED
    BY <2>2, <2>4, <2>5 DEF t, u
<1>7. LET t == <<x>> \o s IN
      /\ t \in Seq(X) /\ t # <<>> /\ Len(t) = Len(s) + 1 /\ t[1] = x
      /\ \A i \in 1 .. Len(s) : t[i + 1] = s[i]
  BY <1>1, <1>4
<1> QED
  BY <1>1, <1>5, <1>6, <1>7

\* Every open frame holds.
LEMMA StackedTop ==
  ASSUME NEW fs, NEW b \in Nat, Stacked(fs, b)
  PROVE  /\ Len(fs) \in Nat /\ Len(fs) >= 1 /\ Head(fs) = fs[1]
         /\ \A i \in 1 .. Len(fs) : fs[i] \in FrameType /\ \E own \in Nat : FrameHolds(fs[i], own)
<1>1. fs \in Seq(FrameType) /\ fs # <<>>
  BY DEF Stacked
<1>2. /\ Len(fs) \in Nat /\ Len(fs) >= 1 /\ Head(fs) = fs[1]
      /\ \A i \in 1 .. Len(fs) : fs[i] \in FrameType
  BY <1>1
<1>3. PICK c : SharedOut(fs, b, c)
  BY DEF Stacked
<1>4. ASSUME NEW i \in 1 .. Len(fs) PROVE \E own \in Nat : FrameHolds(fs[i], own)
  <2>3. i \in 1 .. Len(fs) + 1 /\ i + 1 \in 1 .. Len(fs) + 1
    BY <1>2
  <2>1. c[i] \in Nat /\ c[i + 1] \in Nat /\ c[i + 1] <= c[i]
    BY <1>3, <2>3 DEF SharedOut
  <2>2. c[i] - c[i + 1] \in Nat
    BY <2>1
  <2> QED
    BY <1>3, <2>2 DEF SharedOut
<1> QED
  BY <1>2, <1>4

\* One more bar may be counted before it is read.
LEMMA StackedMore ==
  ASSUME NEW fs, NEW b \in Nat, Stacked(fs, b) PROVE Stacked(fs, b + 1)
<1>1. PICK c : SharedOut(fs, b, c)
  BY DEF Stacked
<1>2. fs \in Seq(FrameType) /\ fs # <<>>
  BY DEF Stacked
<1>3. 1 \in 1 .. Len(fs) + 1
  BY <1>2
<1>4. c[1] \in Nat /\ c[1] <= b
  BY <1>1, <1>3 DEF SharedOut
<1>5. c[1] <= b + 1
  BY <1>4
<1> QED
  BY <1>1, <1>2, <1>5 DEF Stacked, SharedOut

\* The innermost frame is replaced by one that has d bars more.
LEMMA StackedReplace ==
  ASSUME NEW fs, NEW b \in Nat, Stacked(fs, b), NEW f \in FrameType, NEW d \in Nat,
         \A own \in Nat : FrameHolds(fs[1], own) => FrameHolds(f, own + d)
  PROVE  Stacked(<<f>> \o Tail(fs), b + d)
<1>1. PICK c : SharedOut(fs, b, c)
  BY DEF Stacked
<1>2. fs \in Seq(FrameType) /\ fs # <<>>
  BY DEF Stacked
<1> DEFINE t == <<f>> \o Tail(fs)
<1>3. /\ t \in Seq(FrameType) /\ t # <<>> /\ Len(t) = Len(fs) /\ t[1] = f
      /\ \A i \in 2 .. Len(fs) : t[i] = fs[i]
      /\ Len(fs) \in Nat /\ Len(fs) >= 1
  BY <1>2, SequenceOps
<1> HIDE DEF t
<1>4. /\ \A i \in 1 .. Len(fs) + 1 : c[i] \in Nat
      /\ c[1] <= b
      /\ \A i \in 1 .. Len(fs) : c[i + 1] <= c[i] /\ FrameHolds(fs[i], c[i] - c[i + 1])
  BY <1>1 DEF SharedOut
<1> DEFINE k == [i \in 1 .. Len(fs) + 1 |-> IF i = 1 THEN c[1] + d ELSE c[i]]
<1>5. k \in [1 .. Len(fs) + 1 -> Nat] /\ k[1] = c[1] + d /\ k[1] <= b + d
  <2>1. c[1] \in Nat /\ c[1] + d \in Nat /\ c[1] + d <= b + d
    BY <1>3, <1>4
  <2> QED
    BY <1>3, <1>4, <2>1
<1>6. \A i \in 2 .. Len(fs) + 1 : k[i] = c[i]
  OBVIOUS
<1> HIDE DEF k
<1>7. ASSUME NEW i \in 1 .. Len(fs)
      PROVE  k[i + 1] <= k[i] /\ FrameHolds(t[i], k[i] - k[i + 1])
  <2>1. CASE i = 1
    <3>1. k[2] = c[2] /\ c[2] \in Nat /\ c[1] \in Nat /\ c[2] <= c[1]
      BY <1>3, <1>4, <1>6
    <3>2. c[1] - c[2] \in Nat /\ FrameHolds(fs[1], c[1] - c[2])
      BY <1>3, <1>4, <3>1
    <3>3. FrameHolds(f, (c[1] - c[2]) + d)
      BY <3>2
    <3>4. k[1] - k[2] = (c[1] - c[2]) + d /\ k[2] <= k[1]
      BY <1>5, <3>1
    <3>5. FrameHolds(t[1], k[1] - k[2])
      BY <1>3, <3>3, <3>4
    <3> QED
      BY <2>1, <3>4, <3>5
  <2>2. CASE i # 1
    <3>1. i \in 2 .. Len(fs) /\ i \in 2 .. Len(fs) + 1 /\ i + 1 \in 2 .. Len(fs) + 1
      BY <1>3, <2>2
    <3>2. k[i] = c[i] /\ k[i + 1] = c[i + 1] /\ t[i] = fs[i]
      BY <1>3, <1>6, <3>1
    <3> QED
      BY <1>4, <3>2
  <2> QED
    BY <2>1, <2>2
<1>8. SharedOut(t, b + d, k)
  BY <1>3, <1>5, <1>7 DEF SharedOut
<1> QED
  BY <1>3, <1>8 DEF Stacked, t

\* A group is opened.
LEMMA StackedOpen ==
  ASSUME NEW fs, NEW b \in Nat, Stacked(fs, b)
  PROVE  Stacked(<<NewFrame>> \o fs, b)
<1>1. PICK c : SharedOut(fs, b, c)
  BY DEF Stacked
<1>2. fs \in Seq(FrameType) /\ fs # <<>>
  BY DEF Stacked
<1> DEFINE t == <<NewFrame>> \o fs
<1>3. /\ t \in Seq(FrameType) /\ t # <<>> /\ Len(t) = Len(fs) + 1 /\ t[1] = NewFrame
      /\ \A i \in 1 .. Len(fs) : t[i + 1] = fs[i]
      /\ Len(fs) \in Nat /\ Len(fs) >= 1
  BY <1>2, SequenceOps, NewFrameHolds
<1> HIDE DEF t
<1>4. /\ \A i \in 1 .. Len(fs) + 1 : c[i] \in Nat
      /\ c[1] <= b
      /\ \A i \in 1 .. Len(fs) : c[i + 1] <= c[i] /\ FrameHolds(fs[i], c[i] - c[i + 1])
  BY <1>1 DEF SharedOut
<1> DEFINE k == [i \in 1 .. Len(t) + 1 |-> IF i = 1 THEN c[1] ELSE c[i - 1]]
<1>5. k \in [1 .. Len(t) + 1 -> Nat] /\ k[1] = c[1] /\ k[1] <= b
  <2>1. \A i \in 1 .. Len(t) + 1 : i # 1 => i - 1 \in 1 .. Len(fs) + 1
    BY <1>3
  <2>2. 1 \in 1 .. Len(fs) + 1 /\ 1 \in 1 .. Len(t) + 1
    BY <1>3
  <2>3. \A i \in 1 .. Len(t) + 1 : k[i] \in Nat
    BY <1>4, <2>1, <2>2
  <2> QED
    BY <1>4, <2>2, <2>3
<1>6. \A i \in 2 .. Len(t) + 1 : k[i] = c[i - 1]
  OBVIOUS
<1> HIDE DEF k
<1>7. ASSUME NEW i \in 1 .. Len(t)
      PROVE  k[i + 1] <= k[i] /\ FrameHolds(t[i], k[i] - k[i + 1])
  <2>1. CASE i = 1
    <3>1. k[2] = c[2 - 1] /\ c[1] \in Nat
      BY <1>3, <1>4, <1>6
    <3>2. k[1] - k[2] = 0 /\ k[2] <= k[1]
      BY <1>5, <3>1
    <3>3. FrameHolds(t[1], k[1] - k[2])
      BY <1>3, <3>2, NewFrameHolds
    <3> QED
      BY <2>1, <3>2, <3>3
  <2>2. CASE i # 1
    <3>1. /\ i - 1 \in 1 .. Len(fs) /\ (i - 1) + 1 = i /\ (i + 1) - 1 = i
          /\ i \in 2 .. Len(t) + 1 /\ i + 1 \in 2 .. Len(t) + 1
      BY <1>3, <2>2
    <3>2. k[i] = c[i - 1] /\ k[i + 1] = c[(i + 1) - 1]
      BY <1>6, <3>1
    <3>3. t[(i - 1) + 1] = fs[i - 1]
      BY <1>3, <3>1
    <3>4. c[(i - 1) + 1] <= c[i - 1] /\ FrameHolds(fs[i - 1], c[i - 1] - c[(i - 1) + 1])
      BY <1>4, <3>1
    <3> QED
      BY <3>1, <3>2, <3>3, <3>4
  <2> QED
    BY <2>1, <2>2
<1>8. SharedOut(t, b, k)
  BY <1>3, <1>5, <1>7 DEF SharedOut
<1> QED
  BY <1>3, <1>8 DEF Stacked, t

\* The innermost frame is closed into the one around it, which takes its bars.
LEMMA StackedClose ==
  ASSUME NEW fs, NEW b \in Nat, Stacked(fs, b), Len(fs) > 1, NEW f \in FrameType,
         \A own, more \in Nat :
           FrameHolds(fs[2], own) /\ FrameHolds(fs[1], more) => FrameHolds(f, own + more)
  PROVE  Stacked(<<f>> \o SubSeq(fs, 3, Len(fs)), b)
<1>1. PICK c : SharedOut(fs, b, c)
  BY DEF Stacked
<1>2. fs \in Seq(FrameType) /\ fs # <<>>
  BY DEF Stacked
<1> DEFINE t == <<f>> \o SubSeq(fs, 3, Len(fs))
<1>3. /\ t \in Seq(FrameType) /\ t # <<>> /\ Len(t) = Len(fs) - 1 /\ t[1] = f
      /\ \A i \in 2 .. Len(fs) - 1 : t[i] = fs[i + 1]
      /\ Len(fs) \in Nat /\ Len(fs) > 1
  BY <1>2, SequenceOps
<1> HIDE DEF t
<1>4. /\ \A i \in 1 .. Len(fs) + 1 : c[i] \in Nat
      /\ c[1] <= b
      /\ \A i \in 1 .. Len(fs) : c[i + 1] <= c[i] /\ FrameHolds(fs[i], c[i] - c[i + 1])
  BY <1>1 DEF SharedOut
<1> DEFINE k == [i \in 1 .. Len(t) + 1 |-> IF i = 1 THEN c[1] ELSE c[i + 1]]
<1>5. k \in [1 .. Len(t) + 1 -> Nat] /\ k[1] = c[1] /\ k[1] <= b
  <2>1. \A i \in 1 .. Len(t) + 1 : i + 1 \in 1 .. Len(fs) + 1
    BY <1>3
  <2>2. 1 \in 1 .. Len(fs) + 1 /\ 1 \in 1 .. Len(t) + 1
    BY <1>3
  <2>3. \A i \in 1 .. Len(t) + 1 : k[i] \in Nat
    BY <1>4, <2>1, <2>2
  <2> QED
    BY <1>4, <2>2, <2>3
<1>6. \A i \in 2 .. Len(t) + 1 : k[i] = c[i + 1]
  OBVIOUS
<1> HIDE DEF k
<1>7. ASSUME NEW i \in 1 .. Len(t)
      PROVE  k[i + 1] <= k[i] /\ FrameHolds(t[i], k[i] - k[i + 1])
  <2>1. CASE i = 1
    <3>1. k[2] = c[2 + 1] /\ c[1] \in Nat /\ c[2] \in Nat /\ c[3] \in Nat
      BY <1>3, <1>4, <1>6
    <3>2. /\ c[1 + 1] <= c[1] /\ FrameHolds(fs[1], c[1] - c[1 + 1])
          /\ c[2 + 1] <= c[2] /\ FrameHolds(fs[2], c[2] - c[2 + 1])
      BY <1>3, <1>4
    <3>3. /\ c[1] - c[2] \in Nat /\ c[2] - c[3] \in Nat
          /\ (c[2] - c[3]) + (c[1] - c[2]) = c[1] - c[3] /\ c[3] <= c[1]
      BY <3>1, <3>2
    <3>4. FrameHolds(f, (c[2] - c[3]) + (c[1] - c[2]))
      BY <3>2, <3>3
    <3>5. k[2] <= k[1] /\ FrameHolds(t[1], k[1] - k[2])
      BY <1>3, <1>5, <3>1, <3>3, <3>4
    <3> QED
      BY <2>1, <3>5
  <2>2. CASE i # 1
    <3>1. /\ i + 1 \in 1 .. Len(fs) /\ i \in 2 .. Len(fs) - 1
          /\ i \in 2 .. Len(t) + 1 /\ i + 1 \in 2 .. Len(t) + 1
      BY <1>3, <2>2
    <3>2. k[i] = c[i + 1] /\ k[i + 1] = c[(i + 1) + 1]
      BY <1>6, <3>1
    <3>3. t[i] = fs[i + 1]
      BY <1>3, <3>1
    <3>4. c[(i + 1) + 1] <= c[i + 1] /\ FrameHolds(fs[i + 1], c[i + 1] - c[(i + 1) + 1])
      BY <1>4, <3>1
    <3> QED
      BY <3>2, <3>3, <3>4
  <2> QED
    BY <2>1, <2>2
<1>8. SharedOut(t, b, k)
  BY <1>3, <1>5, <1>7 DEF SharedOut
<1> QED
  BY <1>3, <1>8 DEF Stacked, t

\* What the scanner has read.
PatternInv ==
  /\ bars \in Nat /\ Stacked(frames, bars)
  /\ verdict = "accepted" =>
       /\ Len(frames) = 1
       /\ \/ anchored
          \/ /\ frames[1].lastAtom.isAtom
             /\ ~ frames[1].containsVariableRepetition
             /\ ~ frames[1].containsAlternation

\* The invariant of the scanner, initially and over every token.
LEMMA PatternStarts == PatternInit => PatternInv
<1> SUFFICES ASSUME PatternInit PROVE PatternInv
  OBVIOUS
<1>1. frames = <<NewFrame>> /\ bars = 0 /\ verdict = "reading"
  BY DEF PatternInit
<1>2. NewFrame \in FrameType /\ FrameHolds(NewFrame, 0)
  BY NewFrameHolds
<1>3. /\ <<NewFrame>> \in Seq(FrameType) /\ <<NewFrame>> # <<>> /\ Len(<<NewFrame>>) = 1
      /\ <<NewFrame>>[1] = NewFrame
  BY <1>2
<1> DEFINE c == [i \in 1 .. 1 + 1 |-> 0]
<1>4. SharedOut(<<NewFrame>>, 0, c)
  <2>1. c \in [1 .. 1 + 1 -> Nat] /\ c[1] = 0 /\ c[1] <= 0
    OBVIOUS
  <2>2. ASSUME NEW i \in 1 .. 1
        PROVE  c[i + 1] <= c[i] /\ FrameHolds(<<NewFrame>>[i], c[i] - c[i + 1])
    <3>1. i = 1 /\ c[i] = 0 /\ c[i + 1] = 0 /\ 0 - 0 = 0
      OBVIOUS
    <3> HIDE DEF c
    <3>2. c[i] - c[i + 1] = 0 /\ c[i + 1] <= c[i]
      BY <3>1
    <3> QED
      BY <1>2, <1>3, <3>1, <3>2
  <2> HIDE DEF c
  <2> QED
    BY <1>3, <2>1, <2>2 DEF SharedOut
<1>5. Stacked(<<NewFrame>>, 0)
  <2> HIDE DEF c
  <2> QED
    BY <1>3, <1>4 DEF Stacked
<1> QED
  BY <1>1, <1>5 DEF PatternInv

\* A token that leaves another frame innermost, or is refused.
LEMMA TakesHolds ==
  ASSUME PatternInv, verdict = "reading", NEW ok \in BOOLEAN, NEW f, Takes(ok, f),
         ok => f \in FrameType /\ \A own \in Nat : FrameHolds(Frame, own) => FrameHolds(f, own),
         UNCHANGED bars
  PROVE  PatternInv'
<1>1. bars \in Nat /\ Stacked(frames, bars) /\ bars' = bars /\ bars + 0 = bars
  BY DEF PatternInv
<1>2. Frame = frames[1]
  BY <1>1, StackedTop DEF Frame
<1>3. CASE ok
  <2>1. frames' = <<f>> \o Tail(frames) /\ verdict' = verdict
    BY <1>3 DEF Takes
  <2>2. \A own \in Nat : FrameHolds(frames[1], own) => FrameHolds(f, own + 0)
    BY <1>2, <1>3
  <2>3. Stacked(<<f>> \o Tail(frames), bars + 0)
    BY <1>1, <1>3, <2>2, StackedReplace
  <2> QED
    BY <1>1, <2>1, <2>3 DEF PatternInv
<1>4. CASE ~ ok
  <2>1. frames' = frames /\ verdict' = "rejected"
    BY <1>4 DEF Takes
  <2> QED
    BY <1>1, <2>1 DEF PatternInv
<1> QED
  BY <1>3, <1>4

LEMMA PatternPreserves ==
  ASSUME PatternInv, [PatternNext]_patternVars PROVE PatternInv'
<1>0. bars \in Nat /\ Stacked(frames, bars)
  BY DEF PatternInv
<1>1. /\ Frame = frames[1] /\ Frame \in FrameType /\ Len(frames) \in Nat /\ Len(frames) >= 1
      /\ \A i \in 1 .. Len(frames) : frames[i] \in FrameType
  <2>1. Len(frames) >= 1 /\ Len(frames) \in Nat /\ Head(frames) = frames[1]
    BY <1>0, StackedTop
  <2>2. \A i \in 1 .. Len(frames) : frames[i] \in FrameType
    BY <1>0, StackedTop
  <2>3. 1 \in 1 .. Len(frames)
    BY <2>1
  <2> QED
    BY <2>1, <2>2, <2>3 DEF Frame
<1>2. \A own \in Nat : own + 0 = own
  OBVIOUS
<1>3. CanPush(Frame, Literal) =>
        /\ Push(Frame, Literal) \in FrameType
        /\ \A own \in Nat : FrameHolds(Frame, own) => FrameHolds(Push(Frame, Literal), own)
  <2> SUFFICES ASSUME CanPush(Frame, Literal)
      PROVE  /\ Push(Frame, Literal) \in FrameType
             /\ \A own \in Nat : FrameHolds(Frame, own) => FrameHolds(Push(Frame, Literal), own)
    OBVIOUS
  <2>1. \A own \in Nat : FrameHolds(Frame, own) => FrameHolds(Push(Frame, Literal), own + 0)
    BY <1>1, LiteralHolds, PushHolds
  <2>2. Push(Frame, Literal) \in FrameType
    BY <1>1, LiteralHolds, PushDoes
  <2> QED
    BY <1>2, <2>1, <2>2
<1>4. CASE ReadLiteral
  <2>1. CanPush(Frame, Literal) \in BOOLEAN
    BY DEF CanPush
  <2>2. /\ Takes(CanPush(Frame, Literal), Push(Frame, Literal))
        /\ verdict = "reading" /\ bars' = bars
    BY <1>4 DEF ReadLiteral, Reading
  <2> QED
    BY <1>3, <2>1, <2>2, TakesHolds
<1>5. CASE OpenClass
  BY <1>5 DEF OpenClass, Reading, PatternInv
<1>6. CASE ReadInClass
  BY <1>6 DEF ReadInClass, Reading, PatternInv
<1>7. CASE CloseClass
  <2>1. (class = "filled" /\ CanPush(Frame, Literal)) \in BOOLEAN
    OBVIOUS
  <2> QED
    BY <1>3, <1>7, <2>1, TakesHolds DEF CloseClass, Reading
<1>8. CASE OpenGroup
  <2>1. frames' = <<NewFrame>> \o frames /\ bars' = bars /\ verdict' = "reading"
    BY <1>8 DEF OpenGroup, Reading
  <2> QED
    BY <1>0, <2>1, StackedOpen DEF PatternInv
<1>9. CASE CloseGroup
  <2>1. bars' = bars /\ verdict = "reading"
    BY <1>9 DEF CloseGroup, Reading
  <2>2. CASE Len(frames) > 1 /\ ~ CanMatchEmpty(Frame) /\ CanPush(frames[2], GroupAtom(Frame))
    <3> DEFINE f == Push(frames[2], GroupAtom(Frame))
    <3>1. frames' = <<f>> \o SubSeq(frames, 3, Len(frames)) /\ verdict' = "reading"
      BY <1>9, <2>1, <2>2 DEF CloseGroup
    <3>2. frames[2] \in FrameType
      BY <1>1, <2>2
    <3>3. ASSUME NEW own \in Nat, NEW more \in Nat,
                 FrameHolds(frames[2], own), FrameHolds(frames[1], more)
          PROVE  f \in FrameType /\ FrameHolds(f, own + more)
      <4>1. /\ GroupAtom(Frame) \in AtomType /\ AtomHolds(GroupAtom(Frame), more)
            /\ ~ GroupAtom(Frame).isQuantified
        BY <1>1, <2>2, <3>3, GroupAtomHolds
      <4> QED
        BY <2>2, <3>2, <3>3, <4>1, PushHolds
    <3>4. f \in FrameType
      <4>1. 1 \in 1 .. Len(frames) /\ 2 \in 1 .. Len(frames)
        BY <1>1, <2>2
      <4>2. /\ \E own \in Nat : FrameHolds(frames[2], own)
            /\ \E own \in Nat : FrameHolds(frames[1], own)
        BY <1>0, <4>1, StackedTop
      <4> QED
        BY <3>3, <4>2
    <3> HIDE DEF f
    <3>5. Stacked(<<f>> \o SubSeq(frames, 3, Len(frames)), bars)
      BY <1>0, <2>2, <3>3, <3>4, StackedClose
    <3> QED
      BY <1>0, <2>1, <3>1, <3>5 DEF PatternInv
  <2>3. CASE ~ (Len(frames) > 1 /\ ~ CanMatchEmpty(Frame) /\ CanPush(frames[2], GroupAtom(Frame)))
    <3>1. frames' = frames /\ verdict' = "rejected"
      BY <1>9, <2>3 DEF CloseGroup
    <3> QED
      BY <1>0, <2>1, <3>1 DEF PatternInv
  <2> QED
    BY <2>2, <2>3
<1>10. CASE ReadBar
  <2>1. bars' = bars + 1 /\ verdict = "reading" /\ Takes(Len(frames) > 1, NextBranch(Frame))
    BY <1>10 DEF ReadBar, Reading
  <2>2. CASE Len(frames) > 1
    <3>1. frames' = <<NextBranch(Frame)>> \o Tail(frames) /\ verdict' = "reading"
      BY <2>1, <2>2 DEF Takes
    <3>2. NextBranch(Frame) \in FrameType
      <4>1. \E own \in Nat : FrameHolds(frames[1], own)
        <5>1. 1 \in 1 .. Len(frames)
          BY <1>1
        <5> QED
          BY <1>0, <5>1, StackedTop
      <4> QED
        BY <1>1, <4>1, NextBranchHolds
    <3>3. \A own \in Nat : FrameHolds(frames[1], own) => FrameHolds(NextBranch(Frame), own + 1)
      BY <1>1, NextBranchHolds
    <3>4. Stacked(<<NextBranch(Frame)>> \o Tail(frames), bars + 1)
      BY <1>0, <3>2, <3>3, StackedReplace
    <3> QED
      BY <1>0, <2>1, <3>1, <3>4 DEF PatternInv
  <2>3. CASE ~ Len(frames) > 1
    <3>1. frames' = frames /\ verdict' = "rejected"
      BY <2>1, <2>3 DEF Takes
    <3> QED
      BY <1>0, <2>1, <3>1, StackedMore DEF PatternInv
  <2> QED
    BY <2>2, <2>3
<1>11. CASE ReadRepetition
  <2>1. PICK r \in Repetitions : Takes(CanRepeat(Frame, r), Repeat(Frame, r))
    BY <1>11 DEF ReadRepetition
  <2>2. verdict = "reading" /\ bars' = bars
    BY <1>11 DEF ReadRepetition, Reading
  <2>3. CanRepeat(Frame, r) \in BOOLEAN
    BY DEF CanRepeat
  <2>4. ASSUME CanRepeat(Frame, r)
        PROVE  /\ Repeat(Frame, r) \in FrameType
               /\ \A own \in Nat : FrameHolds(Frame, own) => FrameHolds(Repeat(Frame, r), own)
    <3>1. \E own \in Nat : FrameHolds(Frame, own)
      <4>1. 1 \in 1 .. Len(frames)
        BY <1>1
      <4> QED
        BY <1>0, <1>1, <4>1, StackedTop
    <3> QED
      BY <1>1, <2>4, <3>1, RepeatHolds
  <2> QED
    BY <2>1, <2>2, <2>3, <2>4, TakesHolds
<1>12. CASE ReadEndAnchor
  <2>1. Takes(TRUE, ForgetAtom(Frame)) /\ verdict = "reading" /\ bars' = bars
    BY <1>12 DEF ReadEndAnchor, Reading
  <2>2. /\ ForgetAtom(Frame) \in FrameType
        /\ \A own \in Nat : FrameHolds(Frame, own) => FrameHolds(ForgetAtom(Frame), own)
    <3>1. \E own \in Nat : FrameHolds(Frame, own)
      <4>1. 1 \in 1 .. Len(frames)
        BY <1>1
      <4> QED
        BY <1>0, <1>1, <4>1, StackedTop
    <3> QED
      BY <1>1, <3>1, ForgetAtomHolds
  <2> QED
    BY <2>1, <2>2, TakesHolds
<1>13. CASE ReadRefused
  BY <1>13 DEF ReadRefused, PatternInv
<1>14. CASE EndOfPattern
  BY <1>1, <1>14 DEF EndOfPattern, PatternInv
<1>15. CASE UNCHANGED patternVars
  BY <1>15 DEF patternVars, PatternInv
<1> QED
  BY <1>4, <1>5, <1>6, <1>7, <1>8, <1>9, <1>10, <1>11, <1>12, <1>13, <1>14, <1>15
    DEF PatternNext

\* It bounds the ways in which an accepted pattern matches a string.
LEMMA PatternMeans == PatternInv => PatternUnambiguous
<1> SUFFICES ASSUME PatternInv PROVE PatternUnambiguous
  OBVIOUS
<1>0. bars \in Nat /\ Stacked(frames, bars)
  BY DEF PatternInv
<1>1. /\ frames \in Seq(FrameType) /\ Len(frames) \in Nat /\ Len(frames) >= 1
      /\ Head(frames) = frames[1]
      /\ \A i \in 1 .. Len(frames) : frames[i] \in FrameType /\ \E own \in Nat : FrameHolds(frames[i], own)
  BY <1>0, StackedTop DEF Stacked
<1>2. EmptinessKnown
  <2> SUFFICES ASSUME NEW i \in DOMAIN frames
      PROVE  /\ frames[i].sequenceCanMatchEmpty <=> BranchWays(frames[i])[0] > 0
             /\ frames[i].earlierBranchCanMatchEmpty <=> frames[i].earlierWays[0] > 0
    BY DEF EmptinessKnown
  <2>1. i \in 1 .. Len(frames)
    BY <1>1
  <2> QED
    BY <1>1, <2>1 DEF FrameHolds
<1>3. Frame = frames[1] /\ Frame \in FrameType
  <2>1. 1 \in 1 .. Len(frames)
    BY <1>1
  <2> QED
    BY <1>1, <2>1 DEF Frame
<1>4. PrefixIsFixed
  <2> SUFFICES ASSUME verdict = "accepted", ~ anchored
      PROVE  /\ \A n \in Strings : FrameWays(Frame)[n] <= 1
             /\ \A m, n \in Strings : FrameWays(Frame)[m] > 0 /\ FrameWays(Frame)[n] > 0 => m = n
    BY DEF PrefixIsFixed
  <2>1. ~ Frame.containsVariableRepetition /\ ~ Frame.containsAlternation
    BY <1>3 DEF PatternInv
  <2>2. PICK own \in Nat : FrameHolds(Frame, own)
    <3>1. 1 \in 1 .. Len(frames)
      BY <1>1
    <3> QED
      BY <1>1, <1>3, <3>1
  <2>3. ~ Frame.branchHasVariableShape
    BY <2>1, <2>2 DEF FrameHolds
  <2>4. PICK p \in Nat : At(FrameWays(Frame), p)
    BY <1>3, <2>1, <2>2, <2>3, BranchFixed DEF Fixed
  <2> QED
    BY <2>4 DEF At
<1>5. ASSUME verdict = "accepted" PROVE \A n \in Strings : FrameWays(Frame)[n] <= 1 + bars
  <2>1. Len(frames) = 1
    BY <1>5 DEF PatternInv
  <2>2. PICK c : SharedOut(frames, bars, c)
    BY <1>0 DEF Stacked
  <2>3. c[1] \in Nat /\ c[2] \in Nat /\ c[2] <= c[1] /\ c[1] <= bars /\ FrameHolds(frames[1], c[1] - c[2])
    <3>1. c \in [1 .. 1 + 1 -> Nat]
      BY <2>1, <2>2 DEF SharedOut
    <3>2. c[1 + 1] <= c[1] /\ FrameHolds(frames[1], c[1] - c[1 + 1])
      BY <2>1, <2>2 DEF SharedOut
    <3>3. c[1] <= bars
      BY <2>2 DEF SharedOut
    <3> QED
      BY <3>1, <3>2, <3>3
  <2>4. c[1] - c[2] \in Nat /\ c[1] - c[2] <= bars
    BY <1>0, <2>3
  <2>5. AtMost(FrameWays(Frame), 1 + (c[1] - c[2]))
    BY <1>3, <2>3, <2>4, FrameBounded DEF FrameHolds
  <2>6. FrameWays(Frame) \in W
    BY <1>3, LastAtomTyped
  <2>7. AtMost(FrameWays(Frame), 1 + bars)
    <3>1. 1 + (c[1] - c[2]) \in Nat /\ 1 + bars \in Nat /\ 1 + (c[1] - c[2]) <= 1 + bars
      BY <1>0, <2>4
    <3> QED
      BY <2>5, <2>6, <3>1, AtMostMore
  <2> QED
    BY <2>7 DEF AtMost
<1> QED
  BY <1>2, <1>4, <1>5 DEF PatternUnambiguous

(***************************************************************************)
(* Messages: cutting texts                                                 *)
(***************************************************************************)

\* Bytes is a sum over a text, ...
LEMMA BytesUnfold ==
  ASSUME NEW w \in Seq(Nat)
  PROVE  \E u \in [0 .. Len(w) -> Nat] :
           /\ u[0] = 0 /\ \A n \in 1 .. Len(w) : u[n] = u[n - 1] + w[n]
           /\ Bytes(w) = u[Len(w)]
<1> DEFINE m == Len(w)
           step == [p \in Nat \X (1 .. m) |-> p[1] + w[p[2]]]
           Unfolds(u) == u = [n \in 0 .. m |-> IF n = 0 THEN 0 ELSE u[n - 1] + w[n]]
           u == CHOOSE x : Unfolds(x)
<1>1. m \in Nat /\ \A n \in 1 .. m : w[n] \in Nat
  OBVIOUS
<1>2. Bytes(w) = u[m]
  BY DEF Bytes
<1> HIDE DEF m
<1>3. step \in [Nat \X (1 .. m) -> Nat]
  BY <1>1
<1>4. \E h : Unfolds(h)
  <2>1. PICK h : Unrolls(h, Nat, 0, m, step)
    <3> HIDE DEF step, Unfolds
    <3> QED
      BY <1>1, <1>3, Unrolled
  <2>4. h \in [0 .. m -> Nat] /\ h[0] = 0 /\ \A n \in 1 .. m : h[n] = step[<<h[n - 1], n>>]
    <3> HIDE DEF step
    <3> QED
      BY <2>1 DEF Unrolls
  <2>2. ASSUME NEW n \in 1 .. m PROVE h[n] = h[n - 1] + w[n]
    <3>1. n - 1 \in 0 .. m /\ h[n - 1] \in Nat
      BY <1>1, <2>4
    <3>2. <<h[n - 1], n>> \in Nat \X (1 .. m)
      BY <3>1
    <3>3. step[<<h[n - 1], n>>] = h[n - 1] + w[n]
      BY <3>2
    <3> QED
      BY <2>4, <3>3
  <2>3. Unfolds(h)
    BY <1>1, <2>2, <2>4
  <2> QED
    BY <2>3
<1>5. Unfolds(u)
  <2> HIDE DEF Unfolds
  <2> QED
    BY <1>4
<1> HIDE DEF u
<1>6. /\ u = [n \in 0 .. m |-> u[n]] /\ u[0] = 0
      /\ \A n \in 1 .. m : u[n] = u[n - 1] + w[n]
  <2> DEFINE R == [n \in 0 .. m |-> IF n = 0 THEN 0 ELSE u[n - 1] + w[n]]
  <2>1. u = R
    BY <1>5
  <2>2. /\ R = [n \in 0 .. m |-> R[n]]
        /\ \A n \in 0 .. m : R[n] = IF n = 0 THEN 0 ELSE u[n - 1] + w[n]
    OBVIOUS
  <2> HIDE DEF R, Unfolds
  <2> QED
    BY <1>1, <2>1, <2>2
<1> HIDE DEF Unfolds, step
<1>7. \A n \in 1 .. m : u[n - 1] \in Nat => u[n] \in Nat
  BY <1>1, <1>6
<1>8. \A n \in 0 .. m : u[n] \in Nat
  BY <1>1, <1>6, <1>7, Stays
<1> QED
  BY <1>2, <1>6, <1>8 DEF m

\* ... and grows by the width of a character that is appended.
LEMMA BytesOfMore ==
  /\ Bytes(<<>>) = 0
  /\ \A w \in Seq(Nat) : Bytes(w) \in Nat
  /\ \A w \in Seq(Nat), x \in Nat : Bytes(Append(w, x)) = Bytes(w) + x
<1>1. Bytes(<<>>) = 0
  <2>1. <<>> \in Seq(Nat) /\ Len(<<>>) = 0
    OBVIOUS
  <2> QED
    BY <2>1, BytesUnfold
<1>2. ASSUME NEW w \in Seq(Nat) PROVE Bytes(w) \in Nat
  <2>1. PICK u \in [0 .. Len(w) -> Nat] : Bytes(w) = u[Len(w)]
    BY BytesUnfold
  <2>2. Len(w) \in 0 .. Len(w)
    OBVIOUS
  <2> QED
    BY <2>1, <2>2
<1>3. ASSUME NEW w \in Seq(Nat), NEW x \in Nat PROVE Bytes(Append(w, x)) = Bytes(w) + x
  <2> DEFINE v == Append(w, x)
             m == Len(w)
  <2>1. /\ m \in Nat /\ v \in Seq(Nat) /\ Len(v) = m + 1 /\ v[m + 1] = x
        /\ \A n \in 1 .. m : v[n] = w[n] /\ w[n] \in Nat
    OBVIOUS
  <2>2. PICK u \in [0 .. m -> Nat] :
          /\ u[0] = 0 /\ \A n \in 1 .. m : u[n] = u[n - 1] + w[n]
          /\ Bytes(w) = u[m]
    BY BytesUnfold
  <2>3. PICK t \in [0 .. Len(v) -> Nat] :
          /\ t[0] = 0 /\ \A n \in 1 .. Len(v) : t[n] = t[n - 1] + v[n]
          /\ Bytes(v) = t[Len(v)]
    <3> HIDE DEF v
    <3> QED
      BY <2>1, BytesUnfold
  <2> HIDE DEF v, m
  <2>4. \A n \in 1 .. m + 1 : t[n] = t[n - 1] + v[n]
    BY <2>1, <2>3
  <2>5. StaySame(t, u, m)
    BY <2>1, <2>2, <2>3, <2>4 DEF StaySame
  <2>6. t[m] = u[m]
    BY <2>1, <2>5, Agree
  <2>7. m + 1 \in 1 .. m + 1 /\ (m + 1) - 1 = m
    BY <2>1
  <2>8. t[m + 1] = t[(m + 1) - 1] + v[m + 1]
    BY <2>4, <2>7
  <2> QED
    BY <2>1, <2>2, <2>3, <2>6, <2>7, <2>8 DEF v
<1> QED
  BY <1>1, <1>2, <1>3

\* A set of numbers up to m has a greatest one.
LEMMA Greatest ==
  ASSUME NEW m \in Nat, NEW T \in SUBSET (0 .. m), T # {}
  PROVE  \E n \in T : \A k \in T : k <= n
<1> DEFINE Tops(j) == \A R \in SUBSET (0 .. j) : R # {} => \E n \in R : \A k \in R : k <= n
           S == {j \in Nat : Tops(j)}
<1>1. 0 \in S
  <2> SUFFICES ASSUME NEW R \in SUBSET (0 .. 0), R # {} PROVE \E n \in R : \A k \in R : k <= n
    OBVIOUS
  <2>1. \A k \in R : k = 0
    OBVIOUS
  <2>2. PICK r \in R : TRUE
    OBVIOUS
  <2>3. r = 0 /\ \A k \in R : k <= r
    BY <2>1
  <2> QED
    BY <2>3
<1>2. ASSUME NEW j \in S PROVE j + 1 \in S
  <2> SUFFICES ASSUME NEW R \in SUBSET (0 .. j + 1), R # {} PROVE \E n \in R : \A k \in R : k <= n
    OBVIOUS
  <2>1. CASE j + 1 \in R
    BY <2>1
  <2>2. CASE j + 1 \notin R
    <3>1. R \in SUBSET (0 .. j)
      BY <2>2
    <3> QED
      BY <3>1
  <2> QED
    BY <2>1, <2>2
<1>3. S \subseteq Nat
  OBVIOUS
<1>4. S = Nat
  <2> HIDE DEF S
  <2> QED
    BY <1>1, <1>2, <1>3, Induction
<1> QED
  BY <1>4

\* The widths of the characters of a text in UTF-8.
Widths == Seq(1 .. 4)

\* The beginnings of a text, one character after the other.
LEMMA PrefixesTyped ==
  ASSUME NEW w \in Widths
  PROVE  /\ Len(w) \in Nat /\ SubSeq(w, 1, 0) = <<>> /\ SubSeq(w, 1, Len(w)) = w
         /\ Bytes(w) \in Nat /\ (w # <<>> => Bytes(w) >= 1)
         /\ \A n \in 0 .. Len(w) :
              /\ SubSeq(w, 1, n) \in Widths /\ Len(SubSeq(w, 1, n)) = n
              /\ Bytes(SubSeq(w, 1, n)) \in Nat
<1>1. w \in Seq(1 .. 4) /\ Len(w) \in Nat
  BY DEF Widths
<1>2. \A v \in Seq(1 .. 4) : v \in Seq(Nat)
  OBVIOUS
<1>3. SubSeq(w, 1, 0) = <<>> /\ SubSeq(w, 1, Len(w)) = w
  BY <1>1
<1>4. ASSUME NEW n \in 0 .. Len(w)
      PROVE  SubSeq(w, 1, n) \in Seq(1 .. 4) /\ Len(SubSeq(w, 1, n)) = n
  BY <1>1
<1>5. ASSUME w # <<>> PROVE Bytes(w) >= 1
  <2> DEFINE m == Len(w) - 1
             v == SubSeq(w, 1, m)
  <2>1. m \in 0 .. Len(w) /\ m + 1 = Len(w) /\ w[m + 1] \in 1 .. 4
    BY <1>1, <1>5
  <2>2. w = Append(v, w[m + 1])
    BY <1>1, <2>1
  <2>3. v \in Seq(Nat)
    BY <1>2, <1>4, <2>1
  <2>4. w[m + 1] \in Nat /\ w[m + 1] >= 1
    BY <2>1
  <2> DEFINE x == w[m + 1]
  <2>5. w = Append(v, x) /\ x \in Nat /\ x >= 1
    BY <2>2, <2>4
  <2> HIDE DEF v, m, x
  <2>6. Bytes(Append(v, x)) = Bytes(v) + x /\ Bytes(v) \in Nat
    BY <2>3, <2>5, BytesOfMore
  <2>7. Bytes(Append(v, x)) >= 1
    BY <2>5, <2>6
  <2> QED
    BY <2>5, <2>7
<1>6. Bytes(w) \in Nat
  BY <1>1, <1>2, BytesOfMore
<1>7. \A n \in 0 .. Len(w) : Bytes(SubSeq(w, 1, n)) \in Nat
  BY <1>2, <1>4, BytesOfMore
<1>8. \A n \in 0 .. Len(w) : SubSeq(w, 1, n) \in Widths /\ Len(SubSeq(w, 1, n)) = n
  BY <1>4 DEF Widths
<1>9. \A n \in 0 .. Len(w) :
        /\ SubSeq(w, 1, n) \in Widths /\ Len(SubSeq(w, 1, n)) = n
        /\ Bytes(SubSeq(w, 1, n)) \in Nat
  BY <1>7, <1>8
<1>10. w # <<>> => Bytes(w) >= 1
  BY <1>5
<1>11. Len(w) \in Nat /\ SubSeq(w, 1, 0) = <<>> /\ SubSeq(w, 1, Len(w)) = w
  BY <1>1, <1>3
<1>12. Bytes(w) \in Nat /\ (w # <<>> => Bytes(w) >= 1)
  BY <1>6, <1>10
<1> QED
  BY <1>11, <1>12, <1>9

\* A text is cut to its longest beginning that fits.
LEMMA CutBeforeDoes ==
  ASSUME NEW w \in Widths
  PROVE  \E n \in 0 .. Len(w) :
           /\ CutBefore(w) = SubSeq(w, 1, n)
           /\ Bytes(SubSeq(w, 1, n)) <= DetailLimit
           /\ \A m \in 0 .. Len(w) : Bytes(SubSeq(w, 1, m)) <= DetailLimit => m <= n
<1> DEFINE whole == {n \in 0 .. Len(w) : Bytes(SubSeq(w, 1, n)) <= DetailLimit}
           last == CHOOSE n \in whole : \A m \in whole : m <= n
<1>1. Len(w) \in Nat /\ Bytes(SubSeq(w, 1, 0)) = 0
  BY PrefixesTyped, BytesOfMore
<1>2. 0 \in whole
  BY <1>1, WireAssumption
<1>3. whole \in SUBSET (0 .. Len(w)) /\ whole # {}
  BY <1>2
<1>4. CutBefore(w) = SubSeq(w, 1, last)
  BY DEF CutBefore
<1> HIDE DEF whole
<1>5. last \in whole /\ \A m \in whole : m <= last
  <2>1. \E n \in whole : \A m \in whole : m <= n
    BY <1>1, <1>3, Greatest
  <2> QED
    BY <2>1
<1> HIDE DEF last
<1> QED
  BY <1>4, <1>5 DEF whole

\* A text that is not too long is left as it is.  One that is gets as long as the
\* limit or shorter, unless the limit lies in a character near it.
LEMMA CutBytesDoes ==
  ASSUME NEW w \in Widths, w # <<>>
  PROVE  /\ CutBytes(w) \in Widths
         /\ Bytes(CutBytes(w)) \in 1 .. DetailLimit \/ CutTooLate(w)
         /\ Bytes(w) <= DetailLimit => Bytes(CutBytes(w)) \in 1 .. DetailLimit
<1> DEFINE kept == CutBefore(w)
<1>0. PICK size \in Nat : size = Len(w)
  BY PrefixesTyped
<1>1. PICK n \in 0 .. size :
           /\ kept = SubSeq(w, 1, n)
           /\ Bytes(SubSeq(w, 1, n)) <= DetailLimit
           /\ \A m \in 0 .. size : Bytes(SubSeq(w, 1, m)) <= DetailLimit => m <= n
  BY <1>0, CutBeforeDoes
<1>2. /\ SubSeq(w, 1, size) = w
      /\ Bytes(w) \in Nat /\ Bytes(w) >= 1
      /\ kept \in Widths /\ Len(kept) = n /\ Bytes(kept) \in Nat /\ n \in Nat
      /\ DetailLimit \in Nat /\ DetailLimit >= 1
  BY <1>0, <1>1, PrefixesTyped, WireAssumption
<1>3. CutBytes(w) = IF kept # w /\ Bytes(kept) < DetailLimit THEN Append(kept, 3) ELSE kept
  BY DEF CutBytes
<1> HIDE DEF kept
<1>4. CASE n = size
  <2>1. kept = w
    BY <1>1, <1>2, <1>4
  <2>2. CutBytes(w) = w
    BY <1>3, <2>1
  <2>3. Bytes(w) \in 1 .. DetailLimit
    <3>1. Bytes(w) <= DetailLimit
      <4>1. Bytes(SubSeq(w, 1, n)) = Bytes(w)
        BY <1>2, <1>4
      <4> QED
        BY <1>1, <4>1
    <3>2. Bytes(w) \in Nat /\ Bytes(w) >= 1 /\ DetailLimit \in Nat
      BY <1>2
    <3> QED
      BY <3>1, <3>2
  <2> QED
    BY <2>2, <2>3
<1>5. CASE n # size
  <2>1. kept # w /\ n + 1 \in 1 .. size /\ n + 1 \in 0 .. size /\ (n + 1) - 1 = n
        /\ ~ n + 1 <= n
    <3>1. kept # w
      BY <1>0, <1>2, <1>5
    <3> QED
      BY <1>5, <3>1
  <2>2. Bytes(SubSeq(w, 1, n + 1)) > DetailLimit /\ ~ Bytes(w) <= DetailLimit
    <3>1. ~ Bytes(SubSeq(w, 1, n + 1)) <= DetailLimit
      BY <1>1, <2>1
    <3>2. Bytes(SubSeq(w, 1, n + 1)) \in Nat
      BY <1>0, <2>1, PrefixesTyped
    <3>3. ~ Bytes(SubSeq(w, 1, size)) <= DetailLimit
      <4>1. size \in 0 .. size /\ ~ size <= n
        BY <1>5
      <4> QED
        BY <1>1, <4>1
    <3>4. Bytes(SubSeq(w, 1, n + 1)) > DetailLimit
      BY <1>2, <3>1, <3>2
    <3>5. Bytes(SubSeq(w, 1, size)) = Bytes(w)
      BY <1>2
    <3> QED
      BY <3>3, <3>4, <3>5
  <2>3. CASE Bytes(kept) < DetailLimit
    <3>1. CutBytes(w) = Append(kept, 3)
      BY <1>3, <2>1, <2>3
    <3>2. Append(kept, 3) \in Widths
      <4>1. 3 \in 1 .. 4
        OBVIOUS
      <4> QED
        BY <1>2, <4>1 DEF Widths
    <3>3. Bytes(Append(kept, 3)) = Bytes(kept) + 3
      <4>1. kept \in Seq(Nat) /\ 3 \in Nat
        BY <1>2 DEF Widths
      <4> QED
        BY <4>1, BytesOfMore
    <3>4. CASE Bytes(kept) + 3 <= DetailLimit
      <4>1. Bytes(kept) + 3 \in 1 .. DetailLimit
        BY <1>2, <3>4
      <4> QED
        BY <2>2, <3>1, <3>2, <3>3, <4>1
    <3>5. CASE ~ Bytes(kept) + 3 <= DetailLimit
      <4>1. Bytes(kept) \in DetailLimit - 2 .. DetailLimit - 1
        BY <1>2, <2>3, <3>5
      <4>2. Bytes(SubSeq(w, 1, (n + 1) - 1)) \in DetailLimit - 2 .. DetailLimit - 1
        BY <1>1, <2>1, <4>1
      <4>3. CutTooLate(w)
        BY <1>0, <2>1, <2>2, <4>2 DEF CutTooLate
      <4> QED
        BY <2>2, <3>1, <3>2, <4>3
    <3> QED
      BY <3>4, <3>5
  <2>4. CASE ~ Bytes(kept) < DetailLimit
    <3>1. CutBytes(w) = kept
      BY <1>3, <2>4
    <3>2. Bytes(kept) \in 1 .. DetailLimit
      BY <1>1, <1>2, <2>4
    <3> QED
      BY <1>2, <3>1, <3>2
  <2> QED
    BY <2>3, <2>4
<1> QED
  BY <1>4, <1>5

(***************************************************************************)
(* Messages: which of them are refused                                     *)
(***************************************************************************)

\* The texts every server has.
LEMMA OneByte == <<1>> \in Widths /\ <<1>> # <<>> /\ Bytes(<<1>>) = 1
<1>1. <<1>> = Append(<<>>, 1) /\ <<>> \in Seq(Nat) /\ 1 \in Nat /\ 0 + 1 = 1
  OBVIOUS
<1>2. Bytes(Append(<<>>, 1)) = 1
  BY <1>1, BytesOfMore
<1>3. 1 \in 1 .. 4
  OBVIOUS
<1> QED
  BY <1>1, <1>2, <1>3 DEF Widths

\* A detail with a text has widths of characters.
TextTyped(cause) == "says" \in DOMAIN cause => cause.widths \in Widths

\* A bounded error is a detail, or its text was cut too late.
LEMMA BoundedErrorFits ==
  ASSUME NEW cause, TextTyped(cause)
  PROVE  LET b == boundedError(cause) IN
         /\ b.widths \in Widths
         /\ Detail(b) \/ ("says" \in DOMAIN cause /\ CutTooLate(cause.widths))
         /\ "says" \in DOMAIN cause /\ Bytes(cause.widths) <= DetailLimit => Detail(b)
<1> DEFINE text == IF "says" \in DOMAIN cause THEN cause ELSE ObjectText
           full == IF text.widths = <<>> THEN EmptyText ELSE text
           b == boundedError(cause)
<1>1. EmptyText.widths = <<1>> /\ ObjectText.widths = <<1>>
  BY DEF EmptyText, ObjectText, Text
<1>2. b.widths = CutBytes(full.widths)
  BY DEF boundedError, Text
<1>3. \/ full.widths = <<1>>
      \/ "says" \in DOMAIN cause /\ full.widths = cause.widths /\ cause.widths # <<>>
  BY <1>1
<1> HIDE DEF full, b
<1>4. CASE full.widths = <<1>>
  <2>1. Bytes(<<1>>) <= DetailLimit
    BY OneByte, WireAssumption
  <2>2. CutBytes(<<1>>) \in Widths /\ Bytes(CutBytes(<<1>>)) \in 1 .. DetailLimit
    BY <2>1, OneByte, CutBytesDoes
  <2> QED
    BY <1>2, <1>4, <2>2 DEF Detail, b
<1>5. CASE "says" \in DOMAIN cause /\ full.widths = cause.widths /\ cause.widths # <<>>
  <2>1. cause.widths \in Widths
    BY <1>5 DEF TextTyped
  <2>2. /\ CutBytes(cause.widths) \in Widths
        /\ Bytes(CutBytes(cause.widths)) \in 1 .. DetailLimit \/ CutTooLate(cause.widths)
        /\ Bytes(cause.widths) <= DetailLimit => Bytes(CutBytes(cause.widths)) \in 1 .. DetailLimit
    BY <1>5, <2>1, CutBytesDoes
  <2> QED
    BY <1>2, <1>5, <2>2 DEF Detail, b
<1> QED
  BY <1>3, <1>4, <1>5

\* The detail of a failure of a plugin, if it has one.
DetailTyped(f) == "detail" \in DOMAIN f => TextTyped(f.detail)

\* A failure no server cuts: it has no text of its own, or a short one.
Short(f) ==
  f.kind \notin Passed /\ "detail" \in DOMAIN f /\ "says" \in DOMAIN f.detail =>
    f.detail.widths \in Widths /\ Bytes(f.detail.widths) <= DetailLimit

\* A normalized failure is accepted, or the text of its detail was cut too late.
LEMMA NormalizeFits ==
  ASSUME NEW f, f.kind \in Passed \/ DetailTyped(f)
  PROVE  LET n == normalizeRuntimeFailure(f) IN
         /\ "detail" \in DOMAIN n => n.detail.widths \in Widths
         /\ \/ FailureAccepted(n)
            \/ /\ f.kind \notin Passed /\ "detail" \in DOMAIN f
               /\ "says" \in DOMAIN f.detail /\ CutTooLate(f.detail.widths)
         /\ Short(f) => FailureAccepted(n)
<1> DEFINE detail == IF "detail" \in DOMAIN f THEN f.detail ELSE KindText
           n == normalizeRuntimeFailure(f)
<1>1. CASE f.kind \in Passed
  <2>1. n = FailureOf(f.kind, KindText) /\ f.kind \in Kinds
    BY <1>1, PassedHaveNoDetail DEF normalizeRuntimeFailure
  <2>2. n.kind = f.kind /\ DOMAIN n = {"kind"} \cup FailureFields[f.kind]
    BY <2>1, FailureOfDoes
  <2>3. "detail" \notin DOMAIN n
    BY <1>1, <2>2, PassedHaveNoDetail
  <2> HIDE DEF n
  <2> QED
    BY <2>1, <2>2, <2>3 DEF FailureAccepted, n
<1>2. CASE f.kind \notin Passed
  <2> DEFINE text == boundedError(detail)
  <2>1. n = FailureOf("plugin_failure", text)
    BY <1>2 DEF normalizeRuntimeFailure
  <2>2. KindText.widths = <<1>> /\ "says" \in DOMAIN KindText
    BY DEF KindText, Text
  <2>3. TextTyped(detail)
    BY <1>2, <2>2, OneByte DEF DetailTyped, TextTyped
  <2>4. "detail" \notin DOMAIN f => detail = KindText
    OBVIOUS
  <2>5. "detail" \in DOMAIN f => detail = f.detail
    OBVIOUS
  <2> HIDE DEF detail
  <2>6. /\ text.widths \in Widths
        /\ Detail(text) \/ ("says" \in DOMAIN detail /\ CutTooLate(detail.widths))
        /\ "says" \in DOMAIN detail /\ Bytes(detail.widths) <= DetailLimit => Detail(text)
    BY <2>3, BoundedErrorFits
  <2>11. "says" \notin DOMAIN detail => Detail(text)
    BY <2>6
  <2> HIDE DEF text, n
  <2>7. n.kind = "plugin_failure" /\ DOMAIN n = {"kind", "detail"} /\ n.detail = text
    <3>1. {"kind"} \cup FailureFields["plugin_failure"] = {"kind", "detail"}
      BY PassedHaveNoDetail
    <3> QED
      BY <2>1, <3>1, PassedHaveNoDetail, FailureOfDoes
  <2>8. Detail(text) => FailureAccepted(n)
    BY <2>7, PassedHaveNoDetail DEF FailureAccepted
  <2>9. "detail" \notin DOMAIN f => Detail(text)
    <3>1. Bytes(<<1>>) <= DetailLimit
      BY OneByte, WireAssumption
    <3> QED
      BY <2>2, <2>4, <2>6, <3>1
  <2>10. Short(f) => Detail(text)
    BY <1>2, <2>5, <2>6, <2>9, <2>11 DEF Short
  <2> QED
    BY <1>2, <2>5, <2>6, <2>7, <2>8, <2>9, <2>10 DEF n
<1> QED
  BY <1>1, <1>2

\* The fields of a result.
LEMMA ResultOf ==
  ASSUME NEW outcome
  PROVE  LET message == Result(outcome) IN
         message.outcome = outcome
           /\ DOMAIN message = {"session", "correlation_id", "outcome"}
  BY DEF Result

\* The outcomes a host reads as answers of an interaction.
Allowed(outcome, how) == Plain(outcome, CallOutcomes[how]) \/ Failed(outcome)

\* What is on its way up is accepted, or was a text cut too late; what a client
\* returned is relayed without a cut.
WireFits ==
  /\ phase = "result" =>
       /\ DOMAIN sent = {"session", "correlation_id", "outcome"}
       /\ Allowed(sent.outcome, entry) \/ CutTooLate(origin.text)
       /\ sent.outcome.kind = "runtime" /\ "detail" \in DOMAIN sent.outcome.failure =>
            sent.outcome.failure.detail.widths \in Widths
  /\ phase = "answered" =>
       IF answer.kind = "runtime" THEN Short(answer.failure)
                                  ELSE Plain(answer, CallOutcomes[entry])
  /\ phase = "refused" =>
       \/ origin.kind = "request" /\ ChainIsDeep
       \/ CutTooLate(origin.text)
       \/ entry = "session" /\ sent.kind = "cancel_ack" /\ ~ sent.message.accepted

\* A failure that is accepted is one of them.
LEMMA NormalAccepted ==
  ASSUME NEW f, FailureAccepted(f)
  PROVE  Failed(Failing(f))
  BY DEF Failed, Failing

\* The kind of an outcome tells whether it is a failure.
LEMMA RuntimeIsFailed ==
  ASSUME NEW outcome, NEW how \in Interactions, Allowed(outcome, how)
  PROVE  IF outcome.kind = "runtime" THEN FailureAccepted(outcome.failure)
                                     ELSE Plain(outcome, CallOutcomes[how])
  BY DEF Allowed, Plain, Failed, CallOutcomes, Interactions

\* The outcomes that are no failures are accepted.
LEMMA GoodAreOutcomes ==
  ASSUME entry \in Interactions, NEW outcome \in GoodOutcomes
  PROVE  Plain(outcome, CallOutcomes[entry]) /\ outcome.kind # "runtime"
<1>1. CASE entry = "invoke"
  BY <1>1 DEF GoodOutcomes, Plain, CallOutcomes
<1>2. CASE entry = "event_publish"
  BY <1>2 DEF GoodOutcomes, Plain, CallOutcomes
<1>3. CASE entry = "stream_open"
  BY <1>3 DEF GoodOutcomes, Plain, CallOutcomes
<1> QED
  BY <1>1, <1>2, <1>3 DEF Interactions

\* What a server makes of a failure its plugin returned, or of an error it threw.
LEMMA PluginFailureFits ==
  ASSUME NEW cause \in Causes, NEW f \in PluginFailures(Text("cause", cause))
  PROVE  LET n == normalizeRuntimeFailure(f) IN
         /\ "detail" \in DOMAIN n => n.detail.widths \in Widths
         /\ FailureAccepted(n) \/ ("detail" \in DOMAIN f /\ CutTooLate(cause))
<1> DEFINE text == Text("cause", cause)
<1>1. cause \in Widths /\ text.widths = cause /\ "says" \in DOMAIN text
  BY WireAssumption DEF Widths, Text
<1> HIDE DEF text
<1>2. \/ \E k \in Kinds : f = [kind |-> k, detail |-> text]
      \/ \E k \in Kinds : f = [kind |-> k]
  BY DEF PluginFailures, text
<1>3. "detail" \in DOMAIN f => f.detail = text
  BY <1>2
<1>4. DetailTyped(f)
  BY <1>1, <1>3 DEF DetailTyped, TextTyped
<1> QED
  BY <1>1, <1>3, <1>4, NormalizeFits

\* What a server makes of an error its plugin threw.
LEMMA AbandonedFits ==
  ASSUME NEW cause \in Causes
  PROVE  LET n == Abandoned(Text("cause", cause)) IN
         /\ "detail" \in DOMAIN n => n.detail.widths \in Widths
         /\ FailureAccepted(n) \/ CutTooLate(cause)
<1> DEFINE text == Text("cause", cause)
           f == [kind |-> "plugin_failure", detail |-> text]
<1>1. f \in PluginFailures(text)
  BY PassedHaveNoDetail DEF PluginFailures
<1>2. /\ "detail" \in DOMAIN normalizeRuntimeFailure(f) =>
            normalizeRuntimeFailure(f).detail.widths \in Widths
      /\ FailureAccepted(normalizeRuntimeFailure(f)) \/ CutTooLate(cause)
  BY <1>1, PluginFailureFits
<1>3. normalizeRuntimeFailure(f) = Abandoned(text)
  <2>1. f.kind \notin Passed /\ "detail" \in DOMAIN f /\ f.detail = text
    BY PassedHaveNoDetail
  <2> HIDE DEF f
  <2> QED
    BY <2>1 DEF normalizeRuntimeFailure, Abandoned
<1> QED
  BY <1>2, <1>3

\* Every message of a session but a late acknowledgement is accepted, unless its
\* text was cut too late.
LEMMA BuiltFits ==
  ASSUME NEW cause \in Causes, NEW built \in Built(Text("cause", cause)), ~ Accepted(built),
         ~ CutTooLate(cause)
  PROVE  built.kind = "cancel_ack" /\ ~ built.message.accepted
<1> DEFINE text == Text("cause", cause)
<1>1. cause \in Widths /\ text.widths = cause /\ "says" \in DOMAIN text
  BY WireAssumption DEF Widths, Text
<1>2. Detail(boundedError(text))
  BY <1>1, BoundedErrorFits DEF TextTyped
<1>3. ASSUME NEW f \in PluginFailures(text) PROVE FailureAccepted(normalizeRuntimeFailure(f))
  BY <1>3, PluginFailureFits
<1>4. FailureAccepted(FailureOf("protocol_violation", text))
  <2> DEFINE n == FailureOf("protocol_violation", text)
  <2>1. "protocol_violation" \in Kinds /\ "protocol_violation" \in Passed
    BY DEF Kinds, FailureFields, Passed
  <2>2. n.kind = "protocol_violation"
        /\ DOMAIN n = {"kind"} \cup FailureFields["protocol_violation"]
    BY <2>1, FailureOfDoes
  <2>3. "detail" \notin DOMAIN n
    BY <2>1, <2>2, PassedHaveNoDetail
  <2> HIDE DEF n
  <2> QED
    BY <2>1, <2>2, <2>3 DEF FailureAccepted, n
<1> DEFINE failures == {Failing(normalizeRuntimeFailure(f)) : f \in PluginFailures(text)}
                         \cup {Failing(FailureOf("protocol_violation", text))}
           wraps(kind, outcome) ==
             [kind |-> kind,
              message |-> [session |-> "token", correlation_id |-> "token",
                           stream_id |-> "token", outcome |-> outcome]]
           received == {[kind |-> "message", sequence |-> "token", message |-> "payload"],
                        [kind |-> "peer_half_closed"],
                        [kind |-> "terminal", outcome |-> [kind |-> "success"]],
                        [kind |-> "terminal",
                         outcome |-> [kind |-> "domain", error |-> "payload"]]}
<1>5. \A outcome \in failures : Failed(outcome) /\ outcome.kind = "runtime"
  BY <1>3, <1>4 DEF Failed, Failing
<1>6. CASE built \in StreamResults(text)
  <2>1. \/ \E outcome \in {[kind |-> "accepted"]} \cup failures :
             built = wraps("stream_action_result", outcome)
        \/ \E outcome \in received \cup failures :
             built = wraps("stream_receive_result", outcome)
    BY <1>6 DEF StreamResults
  <2> HIDE DEF failures, text
  <2>2. ASSUME NEW outcome \in {[kind |-> "accepted"]} \cup failures,
               built = wraps("stream_action_result", outcome)
        PROVE  Accepted(built)
    <3>1. Plain(outcome, ActionOutcomes) \/ Failed(outcome)
      BY <1>5, <2>2 DEF Plain, ActionOutcomes
    <3>2. outcome.kind # "terminal"
      BY <1>5, <2>2
    <3>3. /\ built.kind = "stream_action_result" /\ built.message.outcome = outcome
          /\ DOMAIN built.message = {"session", "correlation_id", "stream_id", "outcome"}
      BY <2>2
    <3> QED
      BY <3>1, <3>2, <3>3 DEF Accepted, StreamResultAccepted
  <2>3. ASSUME NEW outcome \in received \cup failures,
               built = wraps("stream_receive_result", outcome)
        PROVE  Accepted(built)
    <3>1. Plain(outcome, ReceiveOutcomes) \/ Failed(outcome)
      <4>1. CASE outcome \in received
        BY <4>1 DEF Plain, ReceiveOutcomes
      <4>2. CASE outcome \in failures
        BY <1>5, <4>2
      <4> QED
        BY <2>3, <4>1, <4>2
    <3>2. outcome.kind = "terminal" => Plain(outcome.outcome, TerminalOutcomes)
      <4>1. CASE outcome \in received
        BY <4>1 DEF Plain, TerminalOutcomes
      <4>2. CASE outcome \in failures
        BY <1>5, <4>2
      <4> QED
        BY <2>3, <4>1, <4>2
    <3>3. /\ built.kind = "stream_receive_result" /\ built.message.outcome = outcome
          /\ DOMAIN built.message = {"session", "correlation_id", "stream_id", "outcome"}
      BY <2>3
    <3> HIDE DEF received
    <3> QED
      BY <3>1, <3>2, <3>3 DEF Accepted, StreamResultAccepted
  <2> QED
    BY <2>1, <2>2, <2>3
<1> DEFINE shown == boundedError(text)
<1>11. Detail(shown)
  BY <1>2
<1> HIDE DEF failures, wraps, received, shown
<1>7. CASE built \in Constructed(text)
  <2>1. PICK outcome \in {[kind |-> "constructed"], [kind |-> "failed", detail |-> shown]} :
          built = As("constructed",
                     [session |-> "token", lifecycle_scope_id |-> "token", outcome |-> outcome])
    BY <1>7 DEF Constructed, shown
  <2>2. /\ built.kind = "constructed"
        /\ DOMAIN built.message = {"session", "lifecycle_scope_id", "outcome"}
        /\ built.message.outcome = outcome
    BY <2>1 DEF As
  <2>3. \/ outcome = [kind |-> "constructed"]
        \/ /\ DOMAIN outcome = {"kind", "detail"} /\ outcome.kind = "failed"
           /\ Detail(outcome.detail)
    BY <1>11, <2>1
  <2>4. NoticeAccepted("constructed", built.message)
    BY <2>2, <2>3 DEF NoticeAccepted, Notices
  <2> QED
    BY <2>2, <2>4 DEF Accepted
<1>8. CASE built \in CancelAcks
  <2>1. PICK active \in BOOLEAN :
          built = As("cancel_ack",
                     [session |-> "token", scope_id |-> "token", correlation_id |-> "token",
                      accepted |-> active])
    BY <1>8 DEF CancelAcks
  <2>2. /\ built.kind = "cancel_ack"
        /\ DOMAIN built.message = {"session", "scope_id", "correlation_id", "accepted"}
        /\ built.message.accepted = active
    BY <2>1 DEF As
  <2>3. built.message.accepted => NoticeAccepted("cancel_ack", built.message)
    BY <2>2 DEF NoticeAccepted, Notices
  <2> QED
    BY <2>2, <2>3 DEF Accepted
<1>9. CASE built \in Settlements
  <2>1. PICK state \in {"completed", "cancelled", "abandoned"} :
          built = As("settlement",
                     [session |-> "token", scope_id |-> "token", correlation_id |-> "token",
                      state |-> state])
    BY <1>9 DEF Settlements
  <2>2. /\ built.kind = "settlement"
        /\ DOMAIN built.message = {"session", "scope_id", "correlation_id", "state"}
        /\ built.message.state = state
    BY <2>1 DEF As
  <2>3. NoticeAccepted("settlement", built.message)
    BY <2>2 DEF NoticeAccepted, Notices
  <2> QED
    BY <2>2, <2>3 DEF Accepted
<1>10. CASE built \in Stopped(text)
  <2>1. PICK hook \in {"not_declared", "completed", "failed"} :
          built = As("stopped",
                     [session |-> "token", cleanup_scope_id |-> "token", hook |-> hook,
                      diagnostics |->
                        IF hook = "failed" THEN <<[code |-> "plugin_stop_failed",
                                                   detail |-> shown]>>
                                           ELSE <<>>])
    BY <1>10 DEF Stopped, shown
  <2>2. /\ built.kind = "stopped"
        /\ DOMAIN built.message = {"session", "cleanup_scope_id", "hook", "diagnostics"}
        /\ built.message.hook = hook
    BY <2>1 DEF As
  <2>3. \A i \in DOMAIN built.message.diagnostics :
          /\ DOMAIN built.message.diagnostics[i] = {"code", "detail"}
          /\ Detail(built.message.diagnostics[i].detail)
    <3>1. built.message.diagnostics =
            IF hook = "failed" THEN <<[code |-> "plugin_stop_failed", detail |-> shown]>>
                               ELSE <<>>
      BY <2>1 DEF As
    <3>2. CASE hook = "failed"
      <4>1. DOMAIN built.message.diagnostics = {1}
            /\ built.message.diagnostics[1] = [code |-> "plugin_stop_failed", detail |-> shown]
        BY <3>1, <3>2
      <4> QED
        BY <1>11, <4>1
    <3>3. CASE hook # "failed"
      <4>1. DOMAIN built.message.diagnostics = {}
        BY <3>1, <3>3
      <4> QED
        BY <4>1
    <3> QED
      BY <3>2, <3>3
  <2>4. NoticeAccepted("stopped", built.message)
    BY <2>2, <2>3 DEF NoticeAccepted, Notices
  <2> QED
    BY <2>2, <2>4 DEF Accepted
<1> QED
  BY <1>6, <1>7, <1>8, <1>9, <1>10 DEF Built

(***************************************************************************)
(* A chain of calls: the ids of scopes                                     *)
(***************************************************************************)

\* The id of a scope of the chain was accepted, and is as long as the first one
\* and at most the longest part for each call above it; that of a scope on its way
\* was not read yet.
IdsGrow ==
  /\ \A i \in 1 .. Hop :
       /\ Token(scopes[i].scope_id)
       /\ Bytes(scopes[i].scope_id)
            <= Bytes(scopes[1].scope_id) + (i - 1) * LongestPart
  /\ phase = "request" =>
       /\ Bytes(sent.scope.scope_id) \in Nat \ {0}
       /\ Bytes(sent.scope.scope_id) <= Bytes(scopes[1].scope_id) + Hop * LongestPart

\* The terms of a chain are numbers.
LEMMA IdsAreTyped ==
  ASSUME WireTyped
  PROVE  /\ Hop \in Nat /\ 1 \in 1 .. Hop /\ Hop \in 1 .. Hop /\ TokenLimit \in Nat
         /\ LongestPart \in Nat
         /\ \A i \in 1 .. Hop : /\ scopes[i] \in ScopeRecords
                                /\ Bytes(scopes[i].scope_id) \in Nat
<1>1. Hop \in Nat /\ \A i \in 1 .. Hop : scopes[i] \in ScopeRecords
  BY DEF WireTyped, Hop
<1>2. 1 \in 1 .. Hop /\ Hop \in 1 .. Hop
  BY DEF WireTyped
<1>3. \A i \in 1 .. Hop : scopes[i].scope_id \in Seq(Nat)
  BY <1>1 DEF ScopeRecords
<1> QED
  BY <1>1, <1>2, <1>3, BytesOfMore, WireAssumption

LEMMA IdsStart == WireInit => IdsGrow
<1> SUFFICES ASSUME WireInit PROVE IdsGrow
  OBVIOUS
<1>1. PICK budget \in 0 .. MaxBudget, length \in RootLengths :
        scopes = <<RootScope(budget, length)>>
  BY DEF WireInit
<1>2. Hop = 1 /\ scopes[1].scope_id = <<length>> /\ phase # "request"
  BY <1>1 DEF WireInit, Hop, RootScope
<1>3. length \in Nat /\ length \in 1 .. TokenLimit /\ LongestPart \in Nat
  BY WireAssumption
<1>4. <<length>> = Append(<<>>, length) /\ <<>> \in Seq(Nat)
  OBVIOUS
<1>5. Bytes(<<length>>) = length
  <2>1. Bytes(Append(<<>>, length)) = Bytes(<<>>) + length /\ Bytes(<<>>) = 0
    BY <1>3, <1>4, BytesOfMore
  <2>2. Bytes(<<length>>) = Bytes(Append(<<>>, length))
    BY <1>4, Zenon
  <2> QED
    BY <1>3, <2>1, <2>2
<1> QED
  BY <1>2, <1>3, <1>5 DEF IdsGrow, Token

LEMMA IdsKept ==
  ASSUME WireInv, IdsGrow, [WireNext]_wireVars PROVE IdsGrow'
<1>0. /\ WireTyped /\ ScopesNest /\ RequestNests
  BY DEF WireInv
<1>T. /\ Hop \in Nat /\ 1 \in 1 .. Hop /\ Hop \in 1 .. Hop /\ TokenLimit \in Nat
      /\ LongestPart \in Nat
      /\ \A i \in 1 .. Hop : /\ scopes[i] \in ScopeRecords
                             /\ Bytes(scopes[i].scope_id) \in Nat
  BY <1>0, IdsAreTyped
<1>1. CASE UNCHANGED scopes /\ (phase' = "request" => phase = "request" /\ sent' = sent)
  BY <1>1 DEF IdsGrow, Hop
<1>2. CASE PluginCalls
  <2>1. PICK added \in PartLengths : sent' = OutboundRequest(Hop, added)
    BY <1>2 DEF PluginCalls
  <2>2. /\ sent'.scope.scope_id = Append(scopes[Hop].scope_id, added)
        /\ scopes' = scopes /\ Hop' = Hop
    BY <1>2, <2>1 DEF PluginCalls, OutboundRequest, outboundScope, chainVars, Hop
  <2>3. added \in Nat /\ added >= 1 /\ added <= LongestPart
    <3>1. added \in 1 .. LongestPart
      BY WireAssumption
    <3> QED
      BY <1>T, <3>1
  <2>4. scopes[Hop].scope_id \in Seq(Nat)
    BY <1>T DEF ScopeRecords
  <2>5. Bytes(sent'.scope.scope_id) = Bytes(scopes[Hop].scope_id) + added
    BY <2>2, <2>3, <2>4, BytesOfMore
  <2>6. /\ Bytes(scopes[Hop].scope_id) \in Nat /\ Bytes(scopes[1].scope_id) \in Nat
        /\ Bytes(scopes[Hop].scope_id)
             <= Bytes(scopes[1].scope_id) + (Hop - 1) * LongestPart
    BY <1>T DEF IdsGrow
  <2>7. (Hop - 1) * LongestPart + LongestPart = Hop * LongestPart
        /\ (Hop - 1) * LongestPart \in Int
    BY <1>T
  <2>8. /\ Bytes(sent'.scope.scope_id) \in Nat \ {0}
        /\ Bytes(sent'.scope.scope_id) <= Bytes(scopes[1].scope_id) + Hop * LongestPart
    BY <1>T, <2>3, <2>5, <2>6, <2>7
  <2> QED
    BY <2>2, <2>8 DEF IdsGrow
<1>3. CASE HostForwards
  <2>1. /\ phase = "request" /\ OutboundAccepted(sent, scopes[Hop])
        /\ scopes' = Append(scopes, sent.scope) /\ phase' = "plugin"
    BY <1>3 DEF HostForwards
  <2>2. /\ Hop' = Hop + 1 /\ scopes'[Hop + 1] = sent.scope
        /\ \A i \in 1 .. Hop : scopes'[i] = scopes[i]
    BY <1>0, <1>T, <2>1 DEF WireTyped, Hop
  <2>3. Token(sent.scope.scope_id)
    BY <2>1 DEF OutboundAccepted, ChildAccepted, ScopeAccepted
  <2>4. Bytes(sent.scope.scope_id) <= Bytes(scopes[1].scope_id) + Hop * LongestPart
    BY <2>1 DEF IdsGrow
  <2>5. scopes'[1] = scopes[1] /\ (Hop + 1) - 1 = Hop
    BY <1>T, <2>2
  <2>6. ASSUME NEW i \in 1 .. Hop + 1
        PROVE  /\ Token(scopes'[i].scope_id)
               /\ Bytes(scopes'[i].scope_id)
                    <= Bytes(scopes'[1].scope_id) + (i - 1) * LongestPart
    <3>1. CASE i = Hop + 1
      BY <2>2, <2>3, <2>4, <2>5, <3>1
    <3>2. CASE i \in 1 .. Hop
      BY <2>2, <2>5, <3>2 DEF IdsGrow
    <3> QED
      BY <1>T, <3>1, <3>2
  <2> QED
    BY <2>1, <2>2, <2>6 DEF IdsGrow, Token
<1>4. CASE HostReads
  <2>1. CASE UNCHANGED chainVars
    BY <1>1, <1>4, <2>1 DEF HostReads, chainVars
  <2>2. CASE scopes' = Front(scopes) /\ Hop > 1 /\ phase' = "answered"
    <3>1. /\ Hop' = Hop - 1 /\ \A i \in 1 .. Hop - 1 : scopes'[i] = scopes[i]
      BY <1>0, <1>T, <2>2 DEF WireTyped, Hop, Front
    <3>2. 1 \in 1 .. Hop - 1 /\ \A i \in 1 .. Hop - 1 : i \in 1 .. Hop
      BY <1>T, <2>2
    <3> QED
      BY <2>2, <3>1, <3>2 DEF IdsGrow, Token
  <2> QED
    BY <1>4, <2>1, <2>2 DEF HostReads
<1>5. CASE UNCHANGED wireVars
  BY <1>1, <1>5 DEF wireVars
<1>6. CASE \/ CallFailsAtHome \/ HostRefuses \/ HostAnswers \/ PluginAnswers
           \/ PluginThrows \/ PluginRelays \/ ServerReports \/ Elapse
  BY <1>1, <1>6 DEF CallFailsAtHome, HostRefuses, HostAnswers, PluginAnswers, PluginThrows,
     PluginRelays, ServerReports, Elapse, chainVars
<1> QED
  BY <1>2, <1>3, <1>4, <1>5, <1>6 DEF WireNext

\* A request is accepted if the id of its scope is a token.
LEMMA RequestsReadExactly ==
  ASSUME WireInv, IdsGrow, phase = "request"
  PROVE  /\ OutboundAccepted(sent, scopes[Hop])
              <=> Bytes(sent.scope.scope_id) <= TokenLimit
         /\ ~ OutboundAccepted(sent, scopes[Hop]) => ChainIsDeep
<1>0. WireTyped /\ RequestNests
  BY DEF WireInv
<1>T. /\ Hop \in Nat /\ 1 \in 1 .. Hop /\ Hop \in 1 .. Hop /\ TokenLimit \in Nat
      /\ LongestPart \in Nat
      /\ \A i \in 1 .. Hop : /\ scopes[i] \in ScopeRecords
                             /\ Bytes(scopes[i].scope_id) \in Nat
  BY <1>0, IdsAreTyped
<1>1. /\ Bytes(sent.scope.scope_id) \in Nat \ {0} /\ Token(scopes[Hop].scope_id)
      /\ Bytes(sent.scope.scope_id) <= Bytes(scopes[1].scope_id) + Hop * LongestPart
  BY <1>T DEF IdsGrow
<1>2. Token(sent.scope.scope_id) <=> Bytes(sent.scope.scope_id) <= TokenLimit
  BY <1>T, <1>1 DEF Token
<1>3. /\ sent.scope \in ScopeRecords /\ scopes[Hop] \in ScopeRecords
      /\ sent.scope.parent_scope_id = scopes[Hop].scope_id
  BY <1>0, <1>T DEF RequestNests
<1>4. OutboundAccepted(sent, scopes[Hop]) <=> Token(sent.scope.scope_id)
  BY <1>0, <1>1, <1>3
     DEF RequestNests, OutboundAccepted, ChildAccepted, ScopeAccepted, ScopeRecords
<1>5. Hop * LongestPart \in Nat /\ Bytes(scopes[1].scope_id) \in Nat
  BY <1>T
<1>6. ~ Bytes(sent.scope.scope_id) <= TokenLimit => ChainIsDeep
  BY <1>T, <1>1, <1>5 DEF ChainIsDeep
<1> QED
  BY <1>2, <1>4, <1>6

\* The invariant of what is on its way, initially and over every step.
LEMMA FitsStart == WireInit => WireFits
  BY DEF WireInit, WireFits

LEMMA FitsKept ==
  ASSUME WireInv, IdsGrow, WireFits, [WireNext]_wireVars, WireInv' PROVE WireFits'
<1>0. WireTyped /\ OnTheWire /\ AtTheClient /\ AtTheClient' /\ OnTheWire'
  BY DEF WireInv
<1>1. CASE UNCHANGED wireVars
  BY <1>1 DEF wireVars, WireFits, ChainIsDeep, Hop
<1>2. CASE PluginCalls \/ HostForwards \/ Elapse
  BY <1>2 DEF PluginCalls, HostForwards, Elapse, WireFits
<1>3. CASE CallFailsAtHome
  <2>1. phase = "plugin" /\ entry \in Interactions /\ phase' = "answered" /\ entry' = entry
    BY <1>0, <1>3 DEF CallFailsAtHome, WireTyped, chainVars
  <2>2. PICK kind \in {"cancelled", "resource_exhausted"} :
          answer' = Failing(IF entry = "invoke" THEN [kind |-> kind, detail |-> KindText]
                                                ELSE FailureOf(kind, KindText))
    BY <1>3 DEF CallFailsAtHome
  <2>3. kind \in Passed
    BY DEF Passed
  <2>4. FailureOf(kind, KindText).kind = kind
    BY <2>3, FailureOfDoes, PassedHaveNoDetail
  <2>5. answer'.kind = "runtime" /\ answer'.failure.kind = kind
    BY <2>2, <2>4 DEF Failing
  <2> QED
    BY <2>1, <2>3, <2>5 DEF WireFits, Short
<1>4. CASE HostAnswers
  <2>1. phase' = "answered" /\ entry' = entry /\ entry \in Interactions
    BY <1>0, <1>4 DEF HostAnswers, WireTyped, chainVars
  <2>2. PICK kind \in Kinds, cause \in {c \in Causes : Detail(Text("cause", c))} :
          answer' = fromWireOutcome(Failing(FailureOf(kind, Text("cause", cause))))
          /\ origin' = Started(FALSE, Failing(FailureOf(kind, Text("cause", cause))), cause)
    BY <1>4 DEF HostAnswers
  <2> DEFINE f == FailureOf(kind, Text("cause", cause))
  <2>3. "detail" \in DOMAIN f => f.detail = Text("cause", cause)
    BY FailureOfDoes
  <2>4. Text("cause", cause).widths = cause /\ cause \in Widths /\ Bytes(cause) \in 1 .. DetailLimit
    BY WireAssumption DEF Widths, Detail, Text
  <2>5. answer'.kind = "runtime" /\ (entry # "invoke" => answer'.failure = f)
    BY <2>1, <2>2, FromWireDoes DEF Interactions
  <2>6. origin'.kind = "runtime"
    BY <2>2 DEF Started, Failing
  <2> HIDE DEF f
  <2>7. Bytes(cause) <= DetailLimit
    BY <2>4
  <2>8. CASE entry = "invoke"
    <3>1. answer'.failure.kind \notin Passed => "says" \notin DOMAIN answer'.failure.detail
      BY <1>0, <2>1, <2>6, <2>8 DEF AtTheClient
    <3> QED
      BY <2>1, <2>5, <3>1 DEF WireFits, Short
  <2>9. CASE entry # "invoke"
    <3>1. "detail" \in DOMAIN f => f.detail.widths \in Widths /\ Bytes(f.detail.widths) <= DetailLimit
      BY <2>3, <2>4, <2>7
    <3>2. Short(f)
      BY <3>1 DEF Short
    <3> QED
      BY <2>1, <2>5, <2>9, <3>2 DEF WireFits
  <2> QED
    BY <2>8, <2>9
<1>5. CASE PluginAnswers
  <2>1. phase' = "result" /\ entry' = entry /\ entry \in Interactions
    BY <1>0, <1>5 DEF PluginAnswers, WireTyped, chainVars
  <2>2. CASE \E outcome \in GoodOutcomes : sent' = Result(outcome)
    <3>1. PICK outcome \in GoodOutcomes : sent' = Result(outcome)
      BY <2>2
    <3> QED
      BY <2>1, <3>1, GoodAreOutcomes, ResultOf DEF WireFits, Allowed
  <2>3. CASE \E cause \in Causes : \E f \in PluginFailures(Text("cause", cause)) :
               /\ sent' = Result(toWireOutcome(Failing(f)))
               /\ origin' = Started(TRUE, Failing(f),
                              IF "detail" \in DOMAIN f THEN cause ELSE <<1>>)
    <3>0. PICK cause \in Causes : \E f \in PluginFailures(Text("cause", cause)) :
               /\ sent' = Result(toWireOutcome(Failing(f)))
               /\ origin' = Started(TRUE, Failing(f),
                              IF "detail" \in DOMAIN f THEN cause ELSE <<1>>)
      BY <2>3
    <3>1. PICK f \in PluginFailures(Text("cause", cause)) :
               /\ sent' = Result(toWireOutcome(Failing(f)))
               /\ origin' = Started(TRUE, Failing(f),
                              IF "detail" \in DOMAIN f THEN cause ELSE <<1>>)
      BY <3>0
    <3> DEFINE n == normalizeRuntimeFailure(f)
    <3>2. toWireOutcome(Failing(f)) = Failing(n)
      BY DEF toWireOutcome, Failing
    <3>3. /\ "detail" \in DOMAIN n => n.detail.widths \in Widths
          /\ FailureAccepted(n) \/ ("detail" \in DOMAIN f /\ CutTooLate(cause))
      BY PluginFailureFits
    <3>4. origin'.text = IF "detail" \in DOMAIN f THEN cause ELSE <<1>>
      BY <3>1 DEF Started
    <3> HIDE DEF n
    <3>5. /\ sent'.outcome = Failing(n) /\ DOMAIN sent' = {"session", "correlation_id", "outcome"}
          /\ sent'.outcome.failure = n
      BY <3>1, <3>2, ResultOf DEF Failing
    <3> QED
      BY <2>1, <3>3, <3>4, <3>5, NormalAccepted DEF WireFits, Allowed
  <2> QED
    BY <1>5, <2>2, <2>3 DEF PluginAnswers
<1>6. CASE PluginThrows
  <2>1. phase' = "result" /\ entry' = entry
    BY <1>6 DEF PluginThrows, chainVars
  <2>2. PICK cause \in Causes :
          /\ sent' = Result(Failing(Abandoned(Text("cause", cause))))
          /\ origin' = Started(TRUE, Failing(Abandoned(Text("cause", cause))), cause)
    BY <1>6 DEF PluginThrows
  <2> DEFINE n == Abandoned(Text("cause", cause))
  <2>3. /\ "detail" \in DOMAIN n => n.detail.widths \in Widths
        /\ FailureAccepted(n) \/ CutTooLate(cause)
    BY AbandonedFits
  <2>4. origin'.text = cause
    BY <2>2 DEF Started
  <2> HIDE DEF n
  <2>5. /\ sent'.outcome = Failing(n) /\ DOMAIN sent' = {"session", "correlation_id", "outcome"}
        /\ sent'.outcome.failure = n
    BY <2>2, ResultOf DEF Failing, n
  <2> QED
    BY <2>1, <2>3, <2>4, <2>5, NormalAccepted DEF WireFits, Allowed
<1>7. CASE PluginRelays
  <2>1. phase = "answered" /\ phase' = "result" /\ entry' = entry
        /\ sent' = Result(toWireOutcome(answer))
    BY <1>7 DEF PluginRelays, chainVars
  <2>2. sent'.outcome = toWireOutcome(answer)
        /\ DOMAIN sent' = {"session", "correlation_id", "outcome"}
    BY <2>1, ResultOf
  <2>3. CASE answer.kind # "runtime"
    <3>1. sent'.outcome = answer /\ Plain(answer, CallOutcomes[entry])
      BY <2>1, <2>2, <2>3 DEF toWireOutcome, WireFits
    <3> QED
      BY <2>1, <2>2, <2>3, <3>1 DEF WireFits, Allowed
  <2>4. CASE answer.kind = "runtime"
    <3> DEFINE f == answer.failure
               n == normalizeRuntimeFailure(f)
    <3>1. sent'.outcome = Failing(n) /\ sent'.outcome.failure = n
      BY <2>2, <2>4 DEF toWireOutcome, Failing
    <3>2. Short(f)
      BY <2>1, <2>4 DEF WireFits
    <3> HIDE DEF f
    <3>3. f.kind \in Passed \/ DetailTyped(f)
      BY <3>2 DEF Short, DetailTyped, TextTyped
    <3>4. /\ "detail" \in DOMAIN n => n.detail.widths \in Widths
          /\ FailureAccepted(n)
      BY <3>2, <3>3, NormalizeFits
    <3> HIDE DEF n
    <3> QED
      BY <2>1, <2>2, <3>1, <3>4, NormalAccepted DEF WireFits, Allowed
  <2> QED
    BY <2>3, <2>4
<1>8. CASE HostReads
  <2>1. phase = "result" /\ entry' = entry /\ entry \in Interactions /\ UNCHANGED <<sent, origin>>
    BY <1>0, <1>8 DEF HostReads, WireTyped, chainVars
  <2>2. CASE ~ ResultAccepted(sent) /\ phase' = "refused"
    <3>1. CutTooLate(origin.text)
      BY <2>1, <2>2 DEF WireFits, ResultAccepted, Allowed
    <3> QED
      BY <2>1, <2>2, <3>1 DEF WireFits
  <2>3. CASE phase' = "done"
    BY <2>3 DEF WireFits
  <2>4. CASE ResultAccepted(sent) /\ phase' = "answered" /\ answer' = fromWireOutcome(sent.outcome)
    <3>1. IF sent.outcome.kind = "runtime" THEN FailureAccepted(sent.outcome.failure)
                                         ELSE Plain(sent.outcome, CallOutcomes[entry])
      <4>1. Allowed(sent.outcome, entry)
        BY <2>4 DEF ResultAccepted, Allowed
      <4> QED
        BY <2>1, <4>1, RuntimeIsFailed
    <3>2. CASE sent.outcome.kind # "runtime"
      <4>1. answer' = sent.outcome
        BY <2>4, <3>2 DEF fromWireOutcome
      <4> QED
        BY <2>1, <2>4, <3>1, <3>2, <4>1 DEF WireFits
    <3>3. CASE sent.outcome.kind = "runtime" /\ entry = "invoke"
      <4>1. answer'.kind = "runtime"
        BY <2>4, <3>3 DEF fromWireOutcome, Failing
      <4>2. origin'.kind = "runtime"
        BY <1>0, <2>4, <4>1 DEF AtTheClient
      <4>3. answer'.failure.kind \notin Passed => "says" \notin DOMAIN answer'.failure.detail
        BY <1>0, <2>1, <2>4, <3>3, <4>2 DEF AtTheClient
      <4> QED
        BY <2>4, <4>1, <4>3 DEF WireFits, Short
    <3>4. CASE sent.outcome.kind = "runtime" /\ entry # "invoke"
      <4> DEFINE f == sent.outcome.failure
      <4>1. answer' = sent.outcome
        BY <2>4, <3>4 DEF fromWireOutcome
      <4>2. "detail" \in DOMAIN f => f.detail.widths \in Widths
        BY <2>1, <3>4 DEF WireFits
      <4>3. "detail" \in DOMAIN f => Bytes(f.detail.widths) <= DetailLimit
        <5>1. "detail" \in DOMAIN f => Bytes(f.detail.widths) \in 1 .. DetailLimit
          BY <3>1, <3>4 DEF FailureAccepted, Detail
        <5> QED
          BY <5>1
      <4>4. Short(f)
        BY <4>2, <4>3 DEF Short
      <4> QED
        BY <2>4, <3>4, <4>1, <4>4 DEF WireFits
    <3> QED
      BY <3>2, <3>3, <3>4
  <2> QED
    BY <1>8, <2>2, <2>3, <2>4 DEF HostReads
<1>9. CASE ServerReports
  <2>1. phase = "session" /\ entry' = entry /\ entry = "session" /\ phase' \in {"done", "refused"}
    BY <1>0, <1>9 DEF ServerReports, WireTyped, chainVars
  <2>2. PICK cause \in Causes : \E built \in Built(Text("cause", cause)) :
          /\ sent' = built /\ phase' = (IF Accepted(built) THEN "done" ELSE "refused")
          /\ origin' = [kind |-> built.kind, text |-> cause]
    BY <1>9 DEF ServerReports
  <2>3. PICK built \in Built(Text("cause", cause)) :
          /\ sent' = built /\ phase' = (IF Accepted(built) THEN "done" ELSE "refused")
          /\ origin' = [kind |-> built.kind, text |-> cause]
    BY <2>2
  <2>4. phase' = "refused" => ~ Accepted(built)
    BY <2>3
  <2>5. origin'.text = cause
    BY <2>3
  <2> QED
    BY <2>1, <2>3, <2>4, <2>5, BuiltFits DEF WireFits
<1>10. CASE HostRefuses
  <2>1. /\ phase = "request" /\ ~ OutboundAccepted(sent, scopes[Hop])
        /\ phase' = "refused" /\ origin'.kind = "request" /\ scopes' = scopes
    BY <1>10 DEF HostRefuses, chainVars
  <2>2. ChainIsDeep'
    BY <2>1, RequestsReadExactly DEF ChainIsDeep, Hop
  <2> QED
    BY <2>1, <2>2 DEF WireFits
<1> QED
  BY <1>1, <1>2, <1>3, <1>4, <1>5, <1>6, <1>7, <1>8, <1>9, <1>10 DEF WireNext

\* It says when a message is refused.
LEMMA FitsReads == WireInv /\ IdsGrow /\ WireFits => RefusedExactly
  BY RequestsReadExactly DEF RefusedExactly, WireFits

(***************************************************************************)
(* A binding: the routes of a requirement                                  *)
(***************************************************************************)

\* The routes of a list that serve a requirement, as RoutesOf has them.
Kept(list, id) ==
  LET kept[n \in 0 .. Len(list)] ==
        IF n = 0 THEN <<>> ELSE
        IF list[n].requirement = id THEN Append(kept[n - 1], list[n]) ELSE kept[n - 1]
  IN  kept[Len(list)]

\* RoutesOf, before and after a step.
LEMMA RoutesKept ==
  ASSUME NEW id PROVE RoutesOf(id) = Kept(routes, id) /\ RoutesOf(id)' = Kept(routes', id)
<1>1. RoutesOf(id) = Kept(routes, id)
  BY DEF RoutesOf, Kept
<1>2. RoutesOf(id)' = Kept(routes', id)
  BY DEF RoutesOf, Kept
<1> QED
  BY <1>1, <1>2

\* How the routes are kept, one after the other.
KeptBy(u, list, id) ==
  /\ u[0] = <<>>
  /\ \A n \in 1 .. Len(list) :
       u[n] = IF list[n].requirement = id THEN Append(u[n - 1], list[n]) ELSE u[n - 1]
  /\ Kept(list, id) = u[Len(list)]

LEMMA KeptUnfolds ==
  ASSUME NEW S, NEW list \in Seq(S), NEW id
  PROVE  \E u \in [0 .. Len(list) -> Seq(S)] :
           KeptBy(u, list, id)
<1> DEFINE m == Len(list)
           More(s, n) == IF list[n].requirement = id THEN Append(s, list[n]) ELSE s
           step == [p \in Seq(S) \X (1 .. m) |-> More(p[1], p[2])]
           Unfolds(u) == u = [n \in 0 .. m |-> IF n = 0 THEN <<>> ELSE More(u[n - 1], n)]
           u == CHOOSE x : Unfolds(x)
<1>1. m \in Nat /\ <<>> \in Seq(S) /\ \A n \in 1 .. m : list[n] \in S
  OBVIOUS
<1>2. Kept(list, id) = u[m]
  BY DEF Kept
<1>3. \A s \in Seq(S), n \in 1 .. m : More(s, n) \in Seq(S)
  <2> HIDE DEF m
  <2> QED
    BY <1>1, OneMore
<1>4. \A s, n : More(s, n) = IF list[n].requirement = id THEN Append(s, list[n]) ELSE s
  OBVIOUS
<1> HIDE DEF m, More
<1>5. step \in [Seq(S) \X (1 .. m) -> Seq(S)]
  <2>1. \A p \in Seq(S) \X (1 .. m) : More(p[1], p[2]) \in Seq(S)
    BY <1>3
  <2> QED
    BY <2>1
<1>6. \E h : Unfolds(h)
  <2>1. PICK h : Unrolls(h, Seq(S), <<>>, m, step)
    <3> HIDE DEF step, Unfolds
    <3> QED
      BY <1>1, <1>5, Unrolled
  <2>4. /\ h \in [0 .. m -> Seq(S)] /\ h[0] = <<>>
        /\ \A n \in 1 .. m : h[n] = step[<<h[n - 1], n>>]
    <3> HIDE DEF step
    <3> QED
      BY <2>1 DEF Unrolls
  <2>2. ASSUME NEW n \in 1 .. m PROVE h[n] = More(h[n - 1], n)
    <3>1. <<h[n - 1], n>> \in Seq(S) \X (1 .. m)
      <4>1. n - 1 \in 0 .. m
        BY <1>1
      <4> HIDE DEF Unfolds, step
      <4> QED
        BY <2>4, <4>1
    <3>2. step[<<h[n - 1], n>>] = More(h[n - 1], n)
      BY <3>1
    <3> QED
      BY <2>4, <3>2
  <2>3. Unfolds(h)
    <3>1. \A n \in 0 .. m : n # 0 => n \in 1 .. m
      BY <1>1
    <3>2. h = [n \in 0 .. m |-> h[n]]
      BY <2>4
    <3>3. \A n \in 0 .. m : h[n] = IF n = 0 THEN <<>> ELSE More(h[n - 1], n)
      BY <2>2, <2>4, <3>1
    <3> QED
      BY <3>2, <3>3
  <2> QED
    BY <2>3
<1>7. Unfolds(u)
  <2> HIDE DEF Unfolds
  <2> QED
    BY <1>6
<1> HIDE DEF u
<1>8. /\ u = [n \in 0 .. m |-> u[n]] /\ u[0] = <<>>
      /\ \A n \in 1 .. m : u[n] = More(u[n - 1], n)
  <2> DEFINE R == [n \in 0 .. m |-> IF n = 0 THEN <<>> ELSE More(u[n - 1], n)]
  <2>1. u = R
    BY <1>7
  <2>2. /\ R = [n \in 0 .. m |-> R[n]]
        /\ \A n \in 0 .. m : R[n] = IF n = 0 THEN <<>> ELSE More(u[n - 1], n)
    OBVIOUS
  <2> HIDE DEF R, Unfolds
  <2> QED
    BY <1>1, <2>1, <2>2
<1> HIDE DEF Unfolds, step
<1>9. \A n \in 1 .. m : u[n - 1] \in Seq(S) => u[n] \in Seq(S)
  BY <1>3, <1>8
<1>10. \A n \in 0 .. m : u[n] \in Seq(S)
  BY <1>1, <1>8, <1>9, Stays
<1> QED
  BY <1>2, <1>4, <1>8, <1>10 DEF m, KeptBy

\* A route that is appended is kept if it serves the requirement.
LEMMA KeptOfMore ==
  ASSUME NEW S, NEW id
  PROVE  /\ Kept(<<>>, id) = <<>>
         /\ \A list \in Seq(S) : Kept(list, id) \in Seq(S)
         /\ \A list \in Seq(S), e \in S :
              Kept(Append(list, e), id) =
                IF e.requirement = id THEN Append(Kept(list, id), e) ELSE Kept(list, id)
<1>1. Kept(<<>>, id) = <<>>
  <2>1. <<>> \in Seq(S) /\ Len(<<>>) = 0
    OBVIOUS
  <2>2. PICK u \in [0 .. Len(<<>>) -> Seq(S)] : KeptBy(u, <<>>, id)
    BY <2>1, KeptUnfolds
  <2> QED
    BY <2>1, <2>2 DEF KeptBy
<1>2. ASSUME NEW list \in Seq(S) PROVE Kept(list, id) \in Seq(S)
  <2>1. PICK u \in [0 .. Len(list) -> Seq(S)] : KeptBy(u, list, id)
    BY KeptUnfolds
  <2>2. Len(list) \in 0 .. Len(list)
    OBVIOUS
  <2> QED
    BY <2>1, <2>2 DEF KeptBy
<1>3. ASSUME NEW list \in Seq(S), NEW e \in S
      PROVE  Kept(Append(list, e), id) =
               IF e.requirement = id THEN Append(Kept(list, id), e) ELSE Kept(list, id)
  <2> DEFINE v == Append(list, e)
             m == Len(list)
             More(s, r) == IF r.requirement = id THEN Append(s, r) ELSE s
  <2>1. /\ m \in Nat /\ v \in Seq(S) /\ Len(v) = m + 1 /\ v[m + 1] = e
        /\ \A n \in 1 .. m : v[n] = list[n]
    OBVIOUS
  <2>11. PICK u \in [0 .. m -> Seq(S)] : KeptBy(u, list, id)
    BY KeptUnfolds
  <2>2. /\ u[0] = <<>> /\ \A n \in 1 .. m : u[n] = More(u[n - 1], list[n])
        /\ Kept(list, id) = u[m]
    BY <2>11 DEF KeptBy
  <2>12. PICK t \in [0 .. Len(v) -> Seq(S)] : KeptBy(t, v, id)
    <3> HIDE DEF v
    <3> QED
      BY <2>1, KeptUnfolds
  <2>3. /\ t[0] = <<>> /\ \A n \in 1 .. Len(v) : t[n] = More(t[n - 1], v[n])
        /\ Kept(v, id) = t[Len(v)]
    <3> HIDE DEF v
    <3> QED
      BY <2>12 DEF KeptBy
  <2>9. More(u[m], e) = IF e.requirement = id THEN Append(Kept(list, id), e) ELSE Kept(list, id)
    BY <2>2
  <2> HIDE DEF v, m, More
  <2>4. \A n \in 1 .. m + 1 : t[n] = More(t[n - 1], v[n])
    BY <2>1, <2>3
  <2>5. StaySame(t, u, m)
    BY <2>1, <2>2, <2>3, <2>4 DEF StaySame
  <2>6. t[m] = u[m]
    BY <2>1, <2>5, Agree
  <2>7. m + 1 \in 1 .. m + 1 /\ (m + 1) - 1 = m
    BY <2>1
  <2>8. t[m + 1] = More(t[(m + 1) - 1], v[m + 1])
    BY <2>4, <2>7
  <2>10. Kept(v, id) = More(u[m], e)
    BY <2>1, <2>3, <2>6, <2>7, <2>8
  <2> QED
    BY <2>9, <2>10 DEF v
<1> QED
  BY <1>1, <1>2, <1>3

(***************************************************************************)
(* A binding: what its lists say                                           *)
(***************************************************************************)

\* The declarations are in the order of their ids, so that no two share one.
Ordered(decl) == \A i, j \in DOMAIN decl : i < j => Before(CodeUnits, decl[i].id, decl[j].id)

\* The routes kept for a requirement are routes of the list that serve it, numbered
\* from 0, and every route is found at its number.
Numbered(list) ==
  \A id \in Ids : \A i \in DOMAIN Kept(list, id) :
    /\ Kept(list, id)[i].requirement = id
    /\ Kept(list, id)[i].order = i - 1
    /\ \E k \in DOMAIN list : list[k] = Kept(list, id)[i]
\* Every route of the list is kept for the requirement it serves.
Found(list) ==
  \A k \in DOMAIN list :
    \E i \in DOMAIN Kept(list, list[k].requirement) :
      Kept(list, list[k].requirement)[i] = list[k]

\* No two routes have one id, or serve a requirement by one provider.
Apart(list) ==
  \A k, l \in DOMAIN list :
    \/ list[k].route_id = list[l].route_id
    \/ list[k].requirement = list[l].requirement /\ list[k].provider = list[l].provider
    => k = l

\* Every route serves a declaration by its contract.
Promised(list, decl) ==
  \A k \in DOMAIN list : \E i \in DOMAIN decl :
    decl[i].id = list[k].requirement /\ decl[i].contract = list[k].contract

\* Every cardinality is kept.
Counted(decl, list) ==
  \A i \in DOMAIN decl :
    /\ decl[i].cardinality = "one" => Len(Kept(list, decl[i].id)) = 1
    /\ decl[i].cardinality = "optional" => Len(Kept(list, decl[i].id)) <= 1

\* The dependencies of a definition are the declarations, each under one name.
Matched(def, decl) ==
  LET dependencies == def.dependencies IN
  /\ \A n, k \in DOMAIN dependencies : dependencies[n].id = dependencies[k].id => n = k
  /\ \A i \in DOMAIN decl : \E n \in DOMAIN dependencies : dependencies[n].id = decl[i].id
  /\ \A n \in DOMAIN dependencies : \E i \in DOMAIN decl :
       /\ decl[i].id = dependencies[n].id
       /\ decl[i].cardinality = dependencies[n].cardinality
       /\ Same(dependencies[n].contract, decl[i].contract)
\* Every endpoint has a provider of its capability and version.
Provided(def, ends) ==
  \A i \in DOMAIN ends : Same(def.providers[ProviderOf(def, ends[i])], ends[i].contract)

\* What a construction made of the lists.
Connected(def, list, ends, made, bound) ==
  /\ DOMAIN made = DOMAIN def.dependencies
  /\ \A n \in DOMAIN made : made[n] = Kept(list, def.dependencies[n].id)
  /\ \A i \in DOMAIN ends : Same(bound[i], ends[i].contract)

\* Where a call went is where it was to go.
Right(where) ==
  /\ where.who # "lost"
  /\ where.who = "provider" => where.provider = where.called.provider
  /\ where.who = "plugin" => SameVersion(where.binding, where.contract)

\* What the stages of an initialization have checked, and what came of it.
BindingInv ==
  /\ Ordered(declared)
  /\ Numbered(routes) /\ Found(routes) /\ Apart(routes) /\ Promised(routes, declared)
  /\ stage \in {"endpoints", "valid", "initialized", "constructed"} => Counted(declared, routes)
  /\ stage \in {"initialized", "constructed"} =>
       Matched(definition, declared) /\ Provided(definition, endpoints)
  /\ stage = "constructed" => Connected(definition, routes, endpoints, clients, bindings)
  /\ stage # "constructed" => reached = Nowhere
  /\ Right(reached)

\* What is appended comes last.
LEMMA Added ==
  ASSUME NEW S, NEW list \in Seq(S), NEW e \in S
  PROVE  /\ Append(list, e) \in Seq(S) /\ Len(list) \in Nat
         /\ DOMAIN list = 1 .. Len(list) /\ DOMAIN Append(list, e) = 1 .. Len(list) + 1
         /\ Len(list) + 1 \in DOMAIN Append(list, e) /\ Append(list, e)[Len(list) + 1] = e
         /\ \A i \in DOMAIN list : i \in DOMAIN Append(list, e) /\ Append(list, e)[i] = list[i]
         /\ \A i \in DOMAIN Append(list, e) : i \in DOMAIN list \/ i = Len(list) + 1
  OBVIOUS

\* Requirement ids have places in their order.
LEMMA PlaceTyped ==
  ASSUME NEW id \in Ids PROVE Place(CodeUnits, id) \in Nat /\ CodeUnits[Place(CodeUnits, id)] = id
<1>1. CodeUnits \in Seq(ToSet(CodeUnits))
  BY InitAssumption
<1>2. DOMAIN CodeUnits \subseteq Nat
  <2> DEFINE S == ToSet(CodeUnits)
  <2> HIDE DEF S
  <2>1. CodeUnits \in Seq(S)
    BY <1>1 DEF S
  <2> QED
    BY <2>1
<1>3. \E i \in DOMAIN CodeUnits : CodeUnits[i] = id
  BY DEF Ids, ToSet
<1> QED
  BY <1>2, <1>3 DEF Place

\* No list says anything wrong before it is read.
LEMMA OrderedStarts == Ordered(<<>>) /\ Numbered(<<>>) /\ Found(<<>>) /\ Apart(<<>>)
                       /\ \A decl : Promised(<<>>, decl)
<1>1. DOMAIN <<>> = {}
  OBVIOUS
<1>2. \A id : Kept(<<>>, id) = <<>>
  BY KeptOfMore
<1> QED
  BY <1>1, <1>2 DEF Ordered, Numbered, Found, Apart, Promised

\* A declaration that fits keeps the order, ...
LEMMA OrderedMore ==
  ASSUME NEW decl \in Seq(Declarations), NEW e \in Declarations, Ordered(decl),
         decl # <<>> => Before(CodeUnits, Last(decl).id, e.id)
  PROVE  Ordered(Append(decl, e))
<1> DEFINE v == Append(decl, e)
           m == Len(decl)
<1>1. /\ m \in Nat /\ DOMAIN decl = 1 .. m /\ v[m + 1] = e
      /\ \A i \in DOMAIN decl : v[i] = decl[i]
      /\ \A i \in DOMAIN v : i \in 1 .. m \/ i = m + 1
  BY Added
<1>2. \A i \in 1 .. m : decl[i].id \in Ids
  <2>1. \A i \in 1 .. m : decl[i] \in Declarations
    OBVIOUS
  <2> QED
    BY <2>1 DEF Declarations
<1>3. e.id \in Ids
  BY DEF Declarations
<1>4. m > 0 => Last(decl) = decl[m] /\ decl # <<>>
  BY DEF Last
<1> HIDE DEF m, v
<1>5. ASSUME NEW i \in 1 .. m PROVE Before(CodeUnits, decl[i].id, e.id)
  <2>1. m > 0 /\ m \in 1 .. m /\ i <= m /\ i \in Nat
    BY <1>1
  <2>2. Place(CodeUnits, decl[m].id) < Place(CodeUnits, e.id)
    BY <1>4, <2>1 DEF Before
  <2>3. /\ Place(CodeUnits, decl[i].id) \in Nat /\ Place(CodeUnits, decl[m].id) \in Nat
        /\ Place(CodeUnits, e.id) \in Nat
    BY <1>2, <1>3, <2>1, PlaceTyped
  <2>4. i < m => Place(CodeUnits, decl[i].id) < Place(CodeUnits, decl[m].id)
    BY <1>1, <2>1 DEF Ordered, Before
  <2>5. i < m \/ i = m
    BY <1>1, <2>1
  <2>6. Place(CodeUnits, decl[i].id) < Place(CodeUnits, e.id)
    BY <2>2, <2>3, <2>4, <2>5
  <2> QED
    BY <2>6 DEF Before
<1>6. ASSUME NEW i \in DOMAIN v, NEW j \in DOMAIN v, i < j
      PROVE  Before(CodeUnits, v[i].id, v[j].id)
  <2>1. i \in 1 .. m
    BY <1>1, <1>6
  <2>2. CASE j \in 1 .. m
    BY <1>1, <1>6, <2>1, <2>2 DEF Ordered
  <2>3. CASE j = m + 1
    BY <1>1, <1>5, <2>1, <2>3
  <2> QED
    BY <1>1, <2>2, <2>3
<1> QED
  BY <1>6 DEF Ordered, v

\* ... and the order leaves no two of one id.
LEMMA OrderedOnce ==
  ASSUME NEW decl \in Seq(Declarations), Ordered(decl),
         NEW i \in DOMAIN decl, NEW j \in DOMAIN decl, decl[i].id = decl[j].id
  PROVE  i = j
<1>1. i \in Nat /\ j \in Nat /\ decl[i].id \in Ids
  <2>1. i \in Nat /\ j \in Nat /\ decl[i] \in Declarations
    OBVIOUS
  <2> QED
    BY <2>1 DEF Declarations
<1>2. Place(CodeUnits, decl[i].id) \in Nat
  BY <1>1, PlaceTyped
<1>3. ~ (i < j)
  BY <1>2 DEF Ordered, Before
<1>4. ~ (j < i)
  BY <1>2 DEF Ordered, Before
<1> QED
  BY <1>1, <1>3, <1>4

\* What a route adds to the routes kept for a requirement.
LEMMA KeptMore ==
  ASSUME NEW list \in Seq(Routes), NEW r \in Routes, NEW id
  PROVE  LET own == Kept(list, id) now == Kept(Append(list, r), id) IN
         /\ own \in Seq(Routes) /\ Len(own) \in Nat /\ now \in Seq(Routes)
         /\ \A i \in DOMAIN own : i \in DOMAIN now /\ now[i] = own[i]
         /\ r.requirement = id => Len(own) + 1 \in DOMAIN now /\ now[Len(own) + 1] = r
         /\ \A i \in DOMAIN now :
              i \in DOMAIN own \/ (r.requirement = id /\ i = Len(own) + 1)
<1> DEFINE own == Kept(list, id)
           now == Kept(Append(list, r), id)
<1>1. own \in Seq(Routes) /\ now = IF r.requirement = id THEN Append(own, r) ELSE own
  BY KeptOfMore
<1> HIDE DEF own, now
<1> DEFINE Does ==
             /\ own \in Seq(Routes) /\ Len(own) \in Nat /\ now \in Seq(Routes)
             /\ \A i \in DOMAIN own : i \in DOMAIN now /\ now[i] = own[i]
             /\ r.requirement = id => Len(own) + 1 \in DOMAIN now /\ now[Len(own) + 1] = r
             /\ \A i \in DOMAIN now :
                  i \in DOMAIN own \/ (r.requirement = id /\ i = Len(own) + 1)
<1>2. ASSUME r.requirement = id PROVE Does
  <2>1. now = Append(own, r)
    BY <1>1, <1>2
  <2> QED
    BY <1>1, <1>2, <2>1, Added
<1>3. ASSUME r.requirement # id PROVE Does
  <2>1. now = own /\ Len(own) \in Nat
    BY <1>1, <1>3
  <2> QED
    BY <1>1, <1>3, <2>1
<1>4. Does
  BY <1>2, <1>3
<1> QED
  BY <1>4 DEF own, now

\* What a route that fits keeps: numbers, ...
LEMMA NumberedMore ==
  ASSUME NEW list \in Seq(Routes), NEW r \in Routes, Numbered(list),
         r.order = Len(Kept(list, r.requirement))
  PROVE  Numbered(Append(list, r))
<1> DEFINE v == Append(list, r)
<1>1. /\ \A k \in DOMAIN list : k \in DOMAIN v /\ v[k] = list[k]
      /\ \E k \in DOMAIN v : v[k] = r
  BY Added
<1> SUFFICES ASSUME NEW id \in Ids, NEW i \in DOMAIN Kept(v, id)
             PROVE  /\ Kept(v, id)[i].requirement = id
                    /\ Kept(v, id)[i].order = i - 1
                    /\ \E k \in DOMAIN v : v[k] = Kept(v, id)[i]
  BY DEF Numbered
<1> DEFINE own == Kept(list, id)
           now == Kept(v, id)
<1>2. /\ Len(own) \in Nat
      /\ \A j \in DOMAIN own : j \in DOMAIN now /\ now[j] = own[j]
      /\ r.requirement = id => now[Len(own) + 1] = r
      /\ i \in DOMAIN own \/ (r.requirement = id /\ i = Len(own) + 1)
  BY KeptMore
<1>3. \A j \in DOMAIN own :
        /\ own[j].requirement = id /\ own[j].order = j - 1
        /\ \E k \in DOMAIN list : list[k] = own[j]
  BY DEF Numbered
<1>4. r.requirement = id => r.order = Len(own)
  OBVIOUS
<1> HIDE DEF own, now, v
<1>5. CASE i \in DOMAIN own
  <2>1. now[i] = own[i] /\ own[i].requirement = id /\ own[i].order = i - 1
    BY <1>2, <1>3, <1>5
  <2>2. PICK k \in DOMAIN list : list[k] = own[i]
    BY <1>3, <1>5
  <2>3. k \in DOMAIN v /\ v[k] = now[i]
    BY <1>1, <2>1, <2>2
  <2> QED
    BY <2>1, <2>3 DEF now
<1>6. CASE r.requirement = id /\ i = Len(own) + 1
  <2>1. now[i] = r /\ i - 1 = Len(own)
    BY <1>2, <1>6
  <2> QED
    BY <1>1, <1>4, <1>6, <2>1 DEF now
<1> QED
  BY <1>2, <1>5, <1>6

\* ... places, ...
LEMMA FoundMore ==
  ASSUME NEW list \in Seq(Routes), NEW r \in Routes, Found(list)
  PROVE  Found(Append(list, r))
<1> DEFINE v == Append(list, r)
<1>1. /\ \A k \in DOMAIN list : v[k] = list[k]
      /\ \A k \in DOMAIN v : k \in DOMAIN list \/ v[k] = r
  BY Added
<1> SUFFICES ASSUME NEW k \in DOMAIN v
             PROVE  \E i \in DOMAIN Kept(v, v[k].requirement) : Kept(v, v[k].requirement)[i] = v[k]
  BY DEF Found
<1>2. CASE k \in DOMAIN list
  <2> DEFINE own == Kept(list, list[k].requirement)
             now == Kept(v, list[k].requirement)
  <2>1. PICK i \in DOMAIN own : own[i] = list[k]
    BY <1>2 DEF Found
  <2>2. i \in DOMAIN now /\ now[i] = own[i]
    BY KeptMore
  <2>3. v[k] = list[k]
    BY <1>1, <1>2
  <2> HIDE DEF v, own
  <2> QED
    BY <2>1, <2>2, <2>3
<1>3. CASE v[k] = r
  <2> DEFINE own == Kept(list, r.requirement)
             now == Kept(v, r.requirement)
  <2>1. Len(own) + 1 \in DOMAIN now /\ now[Len(own) + 1] = r
    BY KeptMore
  <2> HIDE DEF v, own
  <2> QED
    BY <1>3, <2>1
<1> QED
  BY <1>1, <1>2, <1>3

\* ... differences, ...
LEMMA ApartMore ==
  ASSUME NEW list \in Seq(Routes), NEW r \in Routes, Apart(list),
         \A k \in DOMAIN list :
           /\ list[k].route_id # r.route_id
           /\ list[k].requirement = r.requirement => list[k].provider # r.provider
  PROVE  Apart(Append(list, r))
<1> DEFINE v == Append(list, r)
<1>1. /\ \A k \in DOMAIN list : v[k] = list[k]
      /\ v[Len(list) + 1] = r
      /\ \A k \in DOMAIN v : k \in DOMAIN list \/ k = Len(list) + 1
  BY Added
<1> DEFINE Alike(k, l) ==
             \/ v[k].route_id = v[l].route_id
             \/ v[k].requirement = v[l].requirement /\ v[k].provider = v[l].provider
<1> HIDE DEF v
<1>2. \A k, l \in DOMAIN list : Alike(k, l) => k = l
  BY <1>1 DEF Apart
<1>3. \A k \in DOMAIN list : ~ Alike(k, Len(list) + 1) /\ ~ Alike(Len(list) + 1, k)
  BY <1>1
<1> HIDE DEF Alike
<1>4. \A k, l \in DOMAIN v : Alike(k, l) => k = l
  BY <1>1, <1>2, <1>3
<1> QED
  BY <1>4 DEF Apart, Alike, v

\* ... and contracts.
LEMMA PromisedMore ==
  ASSUME NEW list \in Seq(Routes), NEW r \in Routes, NEW decl, Promised(list, decl),
         \E i \in DOMAIN decl : decl[i].id = r.requirement /\ decl[i].contract = r.contract
  PROVE  Promised(Append(list, r), decl)
<1> DEFINE v == Append(list, r)
<1>1. /\ \A k \in DOMAIN list : v[k] = list[k]
      /\ \A k \in DOMAIN v : k \in DOMAIN list \/ v[k] = r
  BY Added
<1> HIDE DEF v
<1>2. Promised(v, decl)
  BY <1>1 DEF Promised
<1> QED
  BY <1>2 DEF v

\* A declaration takes no promise back.
LEMMA PromisedDeclared ==
  ASSUME NEW list, NEW decl \in Seq(Declarations), NEW e \in Declarations, Promised(list, decl)
  PROVE  Promised(list, Append(decl, e))
<1> DEFINE v == Append(decl, e)
<1>1. \A i \in DOMAIN decl : i \in DOMAIN v /\ v[i] = decl[i]
  BY Added
<1> HIDE DEF v
<1>2. Promised(list, v)
  BY <1>1 DEF Promised
<1> QED
  BY <1>2 DEF v

(***************************************************************************)
(* A binding: the plugin that is constructed                               *)
(***************************************************************************)

\* A set of numbers has a least one.
LEMMA LeastIn ==
  ASSUME NEW I, I \subseteq Nat, I # {}
  PROVE  Min(I) \in I
<1>1. PICK m \in I : \A n \in I : ~ (<<n, m>> \in OpToRel(<, Nat))
  <2>1. IsWellFoundedOn(OpToRel(<, Nat), Nat)
    BY NatLessThanWellFounded
  <2> HIDE DEF IsWellFoundedOn, OpToRel
  <2> QED
    BY <2>1, WFMin
<1>2. \A n \in Nat : n < m => <<n, m>> \in OpToRel(<, Nat)
  <2>1. m \in Nat
    OBVIOUS
  <2> QED
    BY <2>1 DEF OpToRel
<1>3. ASSUME NEW n \in I PROVE m <= n
  <2>1. n \in Nat /\ m \in Nat
    OBVIOUS
  <2>2. ~ (n < m)
    BY <1>1, <1>2, <2>1
  <2> QED
    BY <2>1, <2>2
<1> QED
  BY <1>3 DEF Min

\* The names of a definition that fits are names of different requirements.
LEMMA NamesApart ==
  ASSUME NEW def \in Definitions, RequirementsFit(def), declared \in Seq(Declarations),
         Ordered(declared)
  PROVE  Matched(def, declared)
<1> DEFINE dependencies == def.dependencies
           names == DOMAIN dependencies
           m == Len(declared)
<1>1. /\ IsFiniteSet(names) /\ Cardinality(names) = m
      /\ {dependencies[n].id : n \in names} = {declared[i].id : i \in DOMAIN declared}
      /\ \A n \in names :
           /\ dependencies[n].cardinality = declared[Declaration(dependencies[n].id)].cardinality
           /\ Same(dependencies[n].contract, declared[Declaration(dependencies[n].id)].contract)
  BY InitAssumption DEF RequirementsFit
<1>2. m \in Nat /\ DOMAIN declared = 1 .. m
  OBVIOUS
<1> HIDE DEF dependencies, m
<1> DEFINE g == [n \in names |-> Declaration(dependencies[n].id)]
<1>3. ASSUME NEW n \in names
      PROVE  g[n] \in 1 .. m /\ declared[g[n]].id = dependencies[n].id
  <2>1. \E i \in DOMAIN declared : declared[i].id = dependencies[n].id
    BY <1>1
  <2>2. /\ Declaration(dependencies[n].id) \in DOMAIN declared
        /\ declared[Declaration(dependencies[n].id)].id = dependencies[n].id
    BY <2>1 DEF Declaration
  <2> QED
    BY <1>2, <2>2
<1>4. ASSUME NEW i \in 1 .. m PROVE \E n \in names : g[n] = i
  <2>1. PICK n \in names : dependencies[n].id = declared[i].id
    BY <1>1, <1>2
  <2>2. g[n] \in DOMAIN declared /\ declared[g[n]].id = declared[i].id /\ i \in DOMAIN declared
    BY <1>2, <1>3, <2>1
  <2> HIDE DEF g
  <2>3. g[n] = i
    BY <2>2, OrderedOnce
  <2> QED
    BY <2>3
<1>5. g \in Surjection(names, 1 .. m)
  <2>1. g \in [names -> 1 .. m]
    BY <1>3
  <2> HIDE DEF g
  <2> QED
    BY <1>4, <2>1 DEF Surjection
<1>6. Cardinality(1 .. m) = m
  BY <1>2, FS_Interval
<1>7. g \in Injection(names, 1 .. m)
  <2> HIDE DEF g, names
  <2> QED
    BY <1>1, <1>5, <1>6, FS_SurjSameCardinalityImpliesInj
<1>8. \A n, k \in names : dependencies[n].id = dependencies[k].id => n = k
  <2>1. \A n, k \in names : g[n] = g[k] => n = k
    <3> DOMAIN g = names
      OBVIOUS
    <3> HIDE DEF g
    <3> QED
      BY <1>7 DEF Injection, IsInjective
  <2> QED
    BY <2>1
<1>9. \A i \in DOMAIN declared : \E n \in names : dependencies[n].id = declared[i].id
  BY <1>1
<1>10. ASSUME NEW n \in names
       PROVE  \E i \in DOMAIN declared :
                /\ declared[i].id = dependencies[n].id
                /\ declared[i].cardinality = dependencies[n].cardinality
                /\ Same(dependencies[n].contract, declared[i].contract)
  <2>1. g[n] = Declaration(dependencies[n].id)
    OBVIOUS
  <2>2. g[n] \in DOMAIN declared /\ declared[g[n]].id = dependencies[n].id
    BY <1>2, <1>3
  <2> HIDE DEF g
  <2> QED
    BY <1>1, <2>1, <2>2
<1> QED
  BY <1>8, <1>9, <1>10 DEF Matched, dependencies

\* A call through a route of the list reaches the provider of that route.
LEMMA DeliversRight ==
  ASSUME routes \in Seq(Routes), Apart(routes), NEW k \in DOMAIN routes
  PROVE  Right(Delivered(routes[k]))
<1> DEFINE I == {i \in 1 .. Len(routes) : routes[i].route_id = routes[k].route_id}
           found == IF I # {} THEN Min(I) ELSE 0
<1>1. Delivered(routes[k]) =
        IF routes[found].requirement = routes[k].requirement
          THEN [who |-> "provider", called |-> routes[k], provider |-> routes[found].provider]
          ELSE [who |-> "lost"]
  BY DEF Delivered, SelectInSeq
<1>2. DOMAIN routes = 1 .. Len(routes) /\ k \in I /\ I \subseteq Nat
  OBVIOUS
<1>3. found \in I
  <2> HIDE DEF I
  <2> QED
    BY <1>2, LeastIn
<1> HIDE DEF found
<1>4. found = k
  BY <1>2, <1>3 DEF Apart
<1>5. Delivered(routes[k]) =
        [who |-> "provider", called |-> routes[k], provider |-> routes[k].provider]
  BY <1>1, <1>4
<1> QED
  BY <1>5 DEF Right

\* A call that is served enters a binding of its capability and version.
LEMMA ServesRight ==
  ASSUME NEW id, NEW wanted, endpoints \in Seq(Endpoints),
         \A i \in DOMAIN endpoints : Same(bindings[i], endpoints[i].contract)
  PROVE  Right(Served(id, wanted))
<1> DEFINE I == {i \in 1 .. Len(endpoints) : endpoints[i].id = id}
           found == IF I # {} THEN Min(I) ELSE 0
<1>1. Served(id, wanted) =
        IF found # 0 /\ endpoints[found].contract = wanted
          THEN [who |-> "plugin", contract |-> wanted, binding |-> bindings[found]]
          ELSE [who |-> "refused"]
  BY DEF Served, SelectInSeq
<1>2. DOMAIN endpoints = 1 .. Len(endpoints) /\ I \subseteq Nat
  OBVIOUS
<1>3. found # 0 => found \in I
  <2> HIDE DEF I
  <2> QED
    BY <1>2, LeastIn
<1>4. found # 0 => found \in DOMAIN endpoints
  BY <1>2, <1>3
<1> HIDE DEF found, I
<1>5. CASE found # 0 /\ endpoints[found].contract = wanted
  <2>1. Served(id, wanted) = [who |-> "plugin", contract |-> wanted, binding |-> bindings[found]]
    BY <1>1, <1>5
  <2>2. SameVersion(bindings[found], wanted)
    BY <1>4, <1>5 DEF Same
  <2> QED
    BY <2>1, <2>2 DEF Right
<1>6. CASE ~ (found # 0 /\ endpoints[found].contract = wanted)
  BY <1>1, <1>6 DEF Right
<1> QED
  BY <1>5, <1>6

\* The invariant of a binding, initially and over every step.
LEMMA BindingStarts == InitInit => BindingInv
<1> SUFFICES ASSUME InitInit PROVE BindingInv
  OBVIOUS
<1>1. /\ stage = "declarations" /\ declared = <<>> /\ routes = <<>>
      /\ reached = Nowhere
  BY DEF InitInit
<1>2. Right(Nowhere)
  BY DEF Right, Nowhere
<1> QED
  BY <1>1, <1>2, OrderedStarts DEF BindingInv

LEMMA BindingPreserves == InitInv /\ BindingInv /\ [InitNext]_initVars => BindingInv'
<1> SUFFICES ASSUME InitInv, BindingInv, [InitNext]_initVars PROVE BindingInv'
  OBVIOUS
<1>0. /\ stage \in Stages /\ definition \in Definitions \cup {Undefined}
      /\ declared \in Seq(Declarations) /\ routes \in Seq(Routes) /\ endpoints \in Seq(Endpoints)
  BY DEF InitInv
<1>a. /\ Ordered(declared)
      /\ Numbered(routes) /\ Found(routes) /\ Apart(routes) /\ Promised(routes, declared)
      /\ stage # "constructed" => reached = Nowhere
      /\ Right(reached)
  BY DEF BindingInv
<1>b. /\ stage \in {"endpoints", "valid", "initialized", "constructed"} => Counted(declared, routes)
      /\ stage \in {"initialized", "constructed"} =>
           Matched(definition, declared) /\ Provided(definition, endpoints)
      /\ stage = "constructed" => Connected(definition, routes, endpoints, clients, bindings)
  BY DEF BindingInv
<1>1. CASE UNCHANGED initVars
  BY <1>a, <1>b, <1>1 DEF initVars, BindingInv
<1>2. CASE ReadDeclaration
  <2>1. stage = "declarations" /\ stage' \in {"declarations", "refused"}
        /\ UNCHANGED <<routes, endpoints, unbound>>
    BY <1>2 DEF ReadDeclaration
  <2>2. Ordered(declared') /\ Promised(routes, declared')
    <3>1. CASE UNCHANGED declared
      BY <1>a, <3>1
    <3>2. CASE \E requirement \in Declarations :
                 DeclarationFits(requirement) /\ declared' = Append(declared, requirement)
      <4>1. PICK requirement \in Declarations :
              DeclarationFits(requirement) /\ declared' = Append(declared, requirement)
        BY <3>2
      <4>2. declared # <<>> => Before(CodeUnits, Last(declared).id, requirement.id)
        BY <4>1 DEF DeclarationFits
      <4> QED
        BY <1>0, <1>a, <4>1, <4>2, OrderedMore, PromisedDeclared
    <3> QED
      BY <1>2, <3>1, <3>2 DEF ReadDeclaration
  <2> QED
    BY <1>a, <2>1, <2>2 DEF unbound, BindingInv
<1>3. CASE ReadRoute
  <2>1. stage = "routes" /\ stage' \in {"routes", "refused"}
        /\ UNCHANGED <<declared, endpoints, unbound>>
    BY <1>3 DEF ReadRoute
  <2>2. /\ Numbered(routes') /\ Found(routes') /\ Apart(routes')
        /\ Promised(routes', declared)
    <3>1. CASE UNCHANGED routes
      BY <1>a, <3>1
    <3>2. CASE \E route \in Routes : RouteFits(route) /\ routes' = Append(routes, route)
      <4>1. PICK route \in Routes : RouteFits(route) /\ routes' = Append(routes, route)
        BY <3>2
      <4>2. route.order = Len(Kept(routes, route.requirement))
        BY <4>1, RoutesKept DEF RouteFits, RouteFitsAnyId
      <4>3. \A k \in DOMAIN routes :
              /\ routes[k].route_id # route.route_id
              /\ routes[k].requirement = route.requirement => routes[k].provider # route.provider
        BY <4>1 DEF RouteFits, RouteFitsAnyId
      <4>4. \E i \in DOMAIN declared :
              declared[i].id = route.requirement /\ declared[i].contract = route.contract
        BY <4>1 DEF RouteFits, RouteFitsAnyId
      <4>5. Numbered(routes') /\ Found(routes')
        BY <1>0, <1>a, <4>1, <4>2, NumberedMore, FoundMore
      <4>6. Apart(routes')
        BY <1>0, <1>a, <4>1, <4>3, ApartMore
      <4>7. Promised(routes', declared)
        BY <1>0, <1>a, <4>1, <4>4, PromisedMore
      <4> QED
        BY <4>5, <4>6, <4>7
    <3> QED
      BY <1>3, <3>1, <3>2 DEF ReadRoute
  <2> QED
    BY <1>a, <2>1, <2>2 DEF unbound, BindingInv
<1>4. CASE ReadEndpoint
  <2>1. stage = "endpoints" /\ stage' \in {"endpoints", "refused"}
        /\ UNCHANGED <<declared, routes, unbound>>
    BY <1>4 DEF ReadEndpoint
  <2> QED
    BY <1>a, <1>b, <2>1 DEF unbound, BindingInv
<1>5. CASE EndOfList
  <2>1. UNCHANGED <<lists, unbound>> /\ stage # "constructed"
        /\ stage' \in {"routes", "endpoints", "refused", "valid"}
        /\ (stage' = "endpoints" => CountsFit) /\ (stage' = "valid" => stage = "endpoints")
    BY <1>5 DEF EndOfList
  <2>2. CountsFit => Counted(declared, routes)
    <3>1. \A id : RoutesOf(id) = Kept(routes, id)
      BY RoutesKept
    <3> QED
      BY <3>1 DEF CountsFit, Counted
  <2> QED
    BY <1>a, <1>b, <2>1, <2>2 DEF lists, unbound, BindingInv
<1>6. CASE Compare
  <2>1. stage = "valid" /\ UNCHANGED <<lists, clients, bindings, reached>>
    BY <1>6 DEF Compare
  <2>2. CASE stage' = "refused"
    BY <1>a, <1>b, <2>1, <2>2 DEF lists, BindingInv
  <2>3. CASE stage' = "initialized" /\ \E def \in Definitions :
               RequirementsFit(def) /\ ProvidersFit(def) /\ definition' = def
    <3>1. PICK def \in Definitions :
            RequirementsFit(def) /\ ProvidersFit(def) /\ definition' = def
      BY <2>3
    <3>2. Matched(def, declared)
      BY <1>0, <1>a, <3>1, NamesApart
    <3>3. Provided(def, endpoints)
      BY <3>1 DEF ProvidersFit, Provided
    <3> QED
      BY <1>a, <1>b, <2>1, <2>3, <3>1, <3>2, <3>3 DEF lists, BindingInv
  <2> QED
    BY <1>6, <2>2, <2>3 DEF Compare
<1>7. CASE Construct
  <2>1. stage = "initialized" /\ UNCHANGED <<lists, definition, reached>>
    BY <1>7 DEF Construct
  <2>2. CASE stage' = "failed"
    BY <1>a, <2>1, <2>2 DEF lists, BindingInv
  <2>3. CASE /\ stage' = "constructed"
             /\ clients' = [n \in DOMAIN definition.dependencies |->
                              RoutesOf(definition.dependencies[n].id)]
             /\ bindings' = [i \in DOMAIN endpoints |->
                   definition.providers[ProviderOf(definition, endpoints[i])]]
    <3>1. \A id : RoutesOf(id) = Kept(routes, id)
      BY RoutesKept
    <3>2. Provided(definition, endpoints)
      BY <1>b, <2>1
    <3>3. /\ DOMAIN clients' = DOMAIN definition.dependencies
          /\ \A n \in DOMAIN clients' : clients'[n] = Kept(routes, definition.dependencies[n].id)
      BY <2>3, <3>1
    <3>4. \A i \in DOMAIN endpoints : Same(bindings'[i], endpoints[i].contract)
      BY <2>3, <3>2 DEF Provided
    <3>5. Connected(definition, routes, endpoints, clients', bindings')
      BY <3>3, <3>4 DEF Connected
    <3> QED
      BY <1>a, <1>b, <2>1, <2>3, <3>5 DEF lists, BindingInv
  <2> QED
    BY <1>7, <2>2, <2>3 DEF Construct
<1>8. CASE CallOut
  <2>1. stage = "constructed" /\ UNCHANGED <<stage, lists, definition, clients, bindings>>
    BY <1>8 DEF CallOut
  <2>2. PICK n \in DOMAIN clients : \E i \in DOMAIN clients[n] : reached' = Delivered(clients[n][i])
    BY <1>8 DEF CallOut
  <2>3. PICK i \in DOMAIN clients[n] : reached' = Delivered(clients[n][i])
    BY <2>2
  <2>4. \E k \in DOMAIN routes : routes[k] = clients[n][i]
    <3>1. clients[n] = Kept(routes, definition.dependencies[n].id)
      BY <1>b, <2>1 DEF Connected
    <3>2. definition.dependencies[n].id \in Ids
      <4>1. \E j \in DOMAIN declared : declared[j].id = definition.dependencies[n].id
        BY <1>b, <2>1 DEF Connected, Matched
      <4>2. \A j \in DOMAIN declared : declared[j] \in Declarations
        BY <1>0
      <4> QED
        BY <4>1, <4>2 DEF Declarations
    <3> QED
      BY <1>a, <2>3, <3>1, <3>2 DEF Numbered
  <2>5. Right(reached')
    BY <1>0, <1>a, <2>3, <2>4, DeliversRight
  <2> QED
    BY <1>a, <1>b, <2>1, <2>5 DEF lists, BindingInv
<1>9. CASE ServeEndpoint
  <2>1. stage = "constructed" /\ UNCHANGED <<stage, lists, definition, clients, bindings>>
    BY <1>9 DEF ServeEndpoint
  <2>2. \E id, wanted : reached' = Served(id, wanted)
    BY <1>9 DEF ServeEndpoint
  <2>3. \A i \in DOMAIN endpoints : Same(bindings[i], endpoints[i].contract)
    BY <1>b, <2>1 DEF Connected
  <2>4. Right(reached')
    BY <1>0, <2>2, <2>3, ServesRight
  <2> QED
    BY <1>a, <1>b, <2>1, <2>4 DEF lists, BindingInv
<1> QED
  BY <1>1, <1>2, <1>3, <1>4, <1>5, <1>6, <1>7, <1>8, <1>9 DEF InitNext

\* It makes a constructed plugin bound as it declared.
LEMMA BindingReads == InitInv /\ BindingInv => BoundAsDeclared
<1> SUFFICES ASSUME InitInv, BindingInv, stage = "constructed" PROVE BoundAsDeclared
  BY DEF BoundAsDeclared
<1>0. declared \in Seq(Declarations) /\ routes \in Seq(Routes)
  BY DEF InitInv
<1>1. /\ Ordered(declared) /\ Numbered(routes) /\ Found(routes) /\ Apart(routes)
      /\ Promised(routes, declared) /\ Counted(declared, routes)
      /\ Matched(definition, declared)
      /\ Connected(definition, routes, endpoints, clients, bindings)
      /\ Right(reached)
  BY DEF BindingInv
<1> DEFINE dependencies == definition.dependencies
<1>2. /\ DOMAIN clients = DOMAIN dependencies
      /\ \A n \in DOMAIN clients : clients[n] = Kept(routes, dependencies[n].id)
  BY <1>1 DEF Connected
<1>3. /\ \A n, k \in DOMAIN dependencies : dependencies[n].id = dependencies[k].id => n = k
      /\ \A i \in DOMAIN declared : \E n \in DOMAIN dependencies : dependencies[n].id = declared[i].id
      /\ \A n \in DOMAIN dependencies : \E i \in DOMAIN declared :
           /\ declared[i].id = dependencies[n].id
           /\ declared[i].cardinality = dependencies[n].cardinality
           /\ Same(dependencies[n].contract, declared[i].contract)
  BY <1>1 DEF Matched
<1>4. \A i \in DOMAIN declared : declared[i].id \in Ids
  <2>1. \A i \in DOMAIN declared : declared[i] \in Declarations
    BY <1>0
  <2> QED
    BY <2>1 DEF Declarations
<1> HIDE DEF dependencies
<1>5. ASSUME NEW n \in DOMAIN clients
      PROVE  /\ dependencies[n].cardinality = "one" => Len(clients[n]) = 1
             /\ dependencies[n].cardinality = "optional" => Len(clients[n]) <= 1
             /\ \A i \in DOMAIN clients[n] :
                  /\ clients[n][i].order = i - 1
                  /\ Same(dependencies[n].contract, clients[n][i].contract)
                  /\ \A j \in DOMAIN clients[n] :
                       clients[n][i].provider = clients[n][j].provider => i = j
  <2>1. PICK d \in DOMAIN declared :
          /\ declared[d].id = dependencies[n].id
          /\ declared[d].cardinality = dependencies[n].cardinality
          /\ Same(dependencies[n].contract, declared[d].contract)
    BY <1>2, <1>3
  <2>2. clients[n] = Kept(routes, declared[d].id) /\ declared[d].id \in Ids
    BY <1>2, <1>4, <2>1
  <2>3. /\ dependencies[n].cardinality = "one" => Len(clients[n]) = 1
        /\ dependencies[n].cardinality = "optional" => Len(clients[n]) <= 1
    BY <1>1, <2>1, <2>2 DEF Counted
  <2>4. \A i \in DOMAIN clients[n] :
          /\ clients[n][i].requirement = declared[d].id /\ clients[n][i].order = i - 1
          /\ \E k \in DOMAIN routes : routes[k] = clients[n][i]
    BY <1>1, <2>2 DEF Numbered
  <2>5. ASSUME NEW i \in DOMAIN clients[n]
        PROVE  Same(dependencies[n].contract, clients[n][i].contract)
    <3>1. PICK k \in DOMAIN routes : routes[k] = clients[n][i]
      BY <2>4
    <3>2. PICK e \in DOMAIN declared :
            declared[e].id = routes[k].requirement /\ declared[e].contract = routes[k].contract
      BY <1>1 DEF Promised
    <3>3. declared[e].id = declared[d].id
      BY <2>4, <3>1, <3>2
    <3>4. e = d
      BY <1>0, <1>1, <3>3, OrderedOnce
    <3> QED
      BY <2>1, <3>1, <3>2, <3>4
  <2>6. ASSUME NEW i \in DOMAIN clients[n], NEW j \in DOMAIN clients[n],
               clients[n][i].provider = clients[n][j].provider
        PROVE  i = j
    <3>1. PICK k \in DOMAIN routes : routes[k] = clients[n][i]
      BY <2>4
    <3>2. PICK l \in DOMAIN routes : routes[l] = clients[n][j]
      BY <2>4
    <3>3. k = l
      BY <1>1, <2>4, <2>6, <3>1, <3>2 DEF Apart
    <3>4. clients[n][i].order = i - 1 /\ clients[n][j].order = j - 1
          /\ clients[n][i] = clients[n][j]
      BY <2>4, <3>1, <3>2, <3>3
    <3>5. i \in Nat /\ j \in Nat
      <4>1. clients[n] \in Seq(Routes)
        <5>1. Kept(routes, declared[d].id) \in Seq(Routes)
          BY <1>0, KeptOfMore
        <5> QED
          BY <2>2, <5>1
      <4> QED
        BY <4>1
    <3> QED
      BY <3>4, <3>5
  <2> QED
    BY <2>3, <2>4, <2>5, <2>6
<1>6. ASSUME NEW k \in DOMAIN routes
      PROVE  Cardinality({n \in DOMAIN clients : routes[k] \in ToSet(clients[n])}) = 1
  <2>1. PICK d \in DOMAIN declared : declared[d].id = routes[k].requirement
    BY <1>1 DEF Promised
  <2>2. PICK n \in DOMAIN clients : dependencies[n].id = routes[k].requirement
    BY <1>2, <1>3, <2>1
  <2>3. routes[k] \in ToSet(clients[n])
    <3>1. clients[n] = Kept(routes, routes[k].requirement)
      BY <1>2, <2>2
    <3> QED
      BY <1>1, <3>1 DEF Found, ToSet
  <2>4. ASSUME NEW q \in DOMAIN clients, routes[k] \in ToSet(clients[q])
        PROVE  q = n
    <3>1. PICK i \in DOMAIN clients[q] : clients[q][i] = routes[k]
      BY <2>4 DEF ToSet
    <3>2. clients[q] = Kept(routes, dependencies[q].id) /\ dependencies[q].id \in Ids
      BY <1>2, <1>3, <1>4
    <3>3. dependencies[q].id = routes[k].requirement
      BY <1>1, <3>1, <3>2 DEF Numbered
    <3> QED
      BY <1>2, <1>3, <2>2, <3>3
  <2>5. {q \in DOMAIN clients : routes[k] \in ToSet(clients[q])} = {n}
    BY <2>3, <2>4
  <2> QED
    BY <2>5, FS_Singleton
<1>7. /\ reached.who # "lost"
      /\ reached.who = "provider" => reached.provider = reached.called.provider
      /\ reached.who = "plugin" => SameVersion(reached.binding, reached.contract)
  BY <1>1 DEF Right
<1> QED
  BY <1>5, <1>6, <1>7 DEF BoundAsDeclared, dependencies

(***************************************************************************)
(* The parts together                                                      *)
(***************************************************************************)

LEMMA CallAlways == Spec => []CallInv
<1>1. Init => CallInv
  BY CallStarts DEF Init
<1>2. CallInv /\ [Next]_vars => CallInv'
  BY CallPreserves DEF Next, vars
<1> QED
  BY <1>1, <1>2, PTL DEF Spec

LEMMA InitAlways == Spec => []InitInv
<1>1. Init => InitInv
  BY InitStarts DEF Init
<1>2. InitInv /\ [Next]_vars => InitInv'
  BY InitPreserves DEF Next, vars
<1> QED
  BY <1>1, <1>2, PTL DEF Spec

LEMMA WireAlways == Spec => []WireInv
<1>1. Init => WireInv
  BY WireStarts DEF Init
<1>2. WireInv /\ [Next]_vars => WireInv'
  BY WirePreserves DEF Next, vars
<1> QED
  BY <1>1, <1>2, PTL DEF Spec

LEMMA PatternAlways == Spec => []PatternInv
<1>1. Init => PatternInv
  BY PatternStarts DEF Init
<1>2. PatternInv /\ [Next]_vars => PatternInv'
  <2> SUFFICES ASSUME PatternInv, [Next]_vars PROVE PatternInv'
    OBVIOUS
  <2>1. [PatternNext]_patternVars
    BY DEF Next, vars
  <2> QED
    BY <2>1, PatternPreserves
<1> QED
  BY <1>1, <1>2, PTL DEF Spec

LEMMA BindingAlways == Spec => []BindingInv
<1>1. Init => BindingInv
  BY BindingStarts DEF Init
<1>2. InitInv /\ BindingInv /\ [Next]_vars => BindingInv'
  BY BindingPreserves DEF Next, vars
<1> QED
  BY <1>1, <1>2, InitAlways, PTL DEF Spec

LEMMA IdsAlways == Spec => []IdsGrow
<1>1. Init => IdsGrow
  BY IdsStart DEF Init
<1>2. WireInv /\ IdsGrow /\ [Next]_vars => IdsGrow'
  <2> SUFFICES ASSUME WireInv, IdsGrow, [Next]_vars PROVE IdsGrow'
    OBVIOUS
  <2>1. [WireNext]_wireVars
    BY DEF Next, vars
  <2> QED
    BY <2>1, IdsKept
<1> QED
  BY <1>1, <1>2, WireAlways, PTL DEF Spec

LEMMA FitsAlways == Spec => []WireFits
<1>1. Init => WireFits
  BY FitsStart DEF Init
<1>2. WireInv /\ WireInv' /\ IdsGrow /\ WireFits /\ [Next]_vars => WireFits'
  <2> SUFFICES ASSUME WireInv, WireInv', IdsGrow, WireFits, [Next]_vars PROVE WireFits'
    OBVIOUS
  <2>1. [WireNext]_wireVars
    BY DEF Next, vars
  <2> QED
    BY <2>1, FitsKept
<1> QED
  BY <1>1, <1>2, WireAlways, IdsAlways, PTL DEF Spec

\* A call through any of the generated bindings, a binding being read and a chain
\* of calls keep their types.
THEOREM TypesAreKept == Spec => []TypesOK
<1>1. CallInv /\ InitInv /\ WireInv => TypesOK
  BY CallAnswers, InitReads, WireReads DEF TypesOK
<1> QED
  BY <1>1, CallAlways, InitAlways, WireAlways, PTL

\* Over every number of relays, whichever of them are old, a domain error reaches
\* the first caller with its code.
THEOREM DomainErrorsAreKept == Spec => []DomainErrorsSurvive
<1>1. CallInv => DomainErrorsSurvive
  BY CallAnswers
<1> QED
  BY <1>1, CallAlways, PTL

\* Every success was answered by the last provider, and no typed client meets an
\* operation its provider binding lacks: for all the generated bindings.
THEOREM AnswersAreReal == Spec => []AnswersAreGiven
<1>1. CallInv => AnswersAreGiven
  BY CallAnswers
<1> QED
  BY <1>1, CallAlways, PTL

\* However long a chain gets, no scope outlives the first one but for the time
\* requests were on their way, and no two scopes have one id.
THEOREM ScopesOnlyNarrow == Spec => []ScopesNarrow
<1>1. WireInv => ScopesNarrow
  BY WireReads
<1> QED
  BY <1>1, WireAlways, PTL

\* What is left of a failure depends on its kind, on who was its first reader and
\* on whether a plugin relayed it, over every number of relays.
THEOREM FailuresAreRelayed == Spec => []FailuresRelayed
<1>1. WireInv => FailuresRelayed
  BY WireReads
<1> QED
  BY <1>1, WireAlways, PTL

\* As long as a chain is not deep for its first id the host accepts every request
\* a server builds for its plugin; one that is gets as far as the ids of its scopes
\* are tokens.
THEOREM RequestsAreAccepted ==
  Spec => [](phase = "request" =>
               /\ ~ ChainIsDeep => OutboundAccepted(sent, scopes[Hop])
               /\ Bytes(sent.scope.scope_id) <= TokenLimit =>
                    OutboundAccepted(sent, scopes[Hop]))
<1>1. WireInv /\ IdsGrow =>
        (phase = "request" =>
           /\ ~ ChainIsDeep => OutboundAccepted(sent, scopes[Hop])
           /\ Bytes(sent.scope.scope_id) <= TokenLimit =>
                OutboundAccepted(sent, scopes[Hop]))
  BY RequestsReadExactly
<1> QED
  BY <1>1, WireAlways, IdsAlways, PTL

\* A message is refused only as a request whose scope has an id longer than a
\* token, in a chain deep enough for that, for a text the server cut inside of a
\* character, so that it got longer than the limit, or as the false
\* acknowledgement of a cancellation that came too late: for all limits, every
\* text of characters of one to four bytes and every length of a chain.
THEOREM RefusalsAreExact == Spec => []RefusedExactly
<1>1. WireInv /\ IdsGrow /\ WireFits => RefusedExactly
  BY FitsReads
<1> QED
  BY <1>1, WireAlways, IdsAlways, FitsAlways, PTL

\* Whatever pattern is accepted, it matches a string of any length in no more ways
\* than it has branches: no repetition multiplies them.
THEOREM PatternsStayUnambiguous == Spec => []PatternUnambiguous
<1>1. PatternInv => PatternUnambiguous
  BY PatternMeans
<1> QED
  BY <1>1, PatternAlways, PTL

\* Whatever a host admits and a plugin declares, a plugin that was constructed has
\* the clients it declared, its calls reach the providers they stand for, and what
\* it serves enters a binding of the contract that was asked for.
THEOREM BindingsAreAsDeclared == Spec => []BoundAsDeclared
<1>1. InitInv /\ BindingInv => BoundAsDeclared
  BY BindingReads
<1> QED
  BY <1>1, InitAlways, BindingAlways, PTL
=============================================================================
