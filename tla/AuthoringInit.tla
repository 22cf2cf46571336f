---------------------------- MODULE AuthoringInit ----------------------------
(***************************************************************************)
(* How a plugin is bound.  The host sends one initialization: the named    *)
(* requirements it admitted, the routes that serve them and the endpoints  *)
(* the plugin is to provide.  The validator reads it entry by entry, the   *)
(* server compares it with the plugin's definition, and construction makes *)
(* the clients the plugin is given and the bindings its endpoints call.    *)
(* Then the plugin calls through its clients and is called itself.         *)
(*                                                                         *)
(* Two orders of names occur: that of code units, by which declarations    *)
(* and endpoints are sorted, and that of localeCompare, by which routes    *)
(* are.  They are parameters.  The entries read are those that a host      *)
(* could write; what the entries contain beside identities and contracts   *)
(* is left out.                                                            *)
(***************************************************************************)
EXTENDS Naturals, FiniteSets, Sequences, SequencesExt

CONSTANTS
  CodeUnits,   \* the requirement ids in the order of their code units
  Collation,   \* the same ids in the order of localeCompare
  Contracts,   \* descriptors: [capability, version, digest]
  Instances,   \* instances of providers
  RouteIds,
  EndpointIds, \* a sequence in the order of code units
  Definitions, \* what plugins declare: [dependencies, providers]
  MaxDeclared, MaxRoutes, MaxEndpoints

ASSUME InitAssumption ==
  /\ ToSet(CodeUnits) = ToSet(Collation)
  /\ IsInjective(CodeUnits) /\ IsInjective(Collation) /\ IsInjective(EndpointIds)
  /\ CodeUnits \in Seq(ToSet(CodeUnits))
  /\ \A def \in Definitions : IsFiniteSet(DOMAIN def.dependencies)

VARIABLES
  stage,       \* how far the initialization got
  declared,    \* the requirements read
  routes,      \* the routes read
  endpoints,   \* the endpoints read
  definition,  \* the plugin's definition, once it is compared
  clients,     \* for each dependency, the routes its clients call
  bindings,    \* for each endpoint, the contract of the binding it calls
  reached      \* where the last call went

initVars == <<stage, declared, routes, endpoints, definition, clients, bindings,
              reached>>
lists == <<declared, routes, endpoints>>

Nowhere == [who |-> "nobody"]
Undefined == [dependencies |-> <<>>, providers |-> <<>>]
Ids == ToSet(CodeUnits)
Cardinalities == {"one", "optional", "many"}
Place(order, name) == CHOOSE i \in DOMAIN order : order[i] = name
Before(order, a, b) == Place(order, a) < Place(order, b)
-----------------------------------------------------------------------------
(***************************************************************************)
(* The pass of the validator                                               *)
(***************************************************************************)
Declaration(id) == CHOOSE i \in DOMAIN declared : declared[i].id = id
RoutesOf(id) ==
  LET kept[n \in 0 .. Len(routes)] ==
        IF n = 0 THEN <<>> ELSE
        IF routes[n].requirement = id THEN Append(kept[n - 1], routes[n]) ELSE kept[n - 1]
  IN  kept[Len(routes)]

DeclarationFits(entry) ==
  declared # <<>> => Before(CodeUnits, Last(declared).id, entry.id)

\* Routes follow each other by requirement; within one, the contiguous
\* provider_order leaves no two alike.
RouteFollows(route) ==
  routes # <<>> =>
    \/ Before(Collation, Last(routes).requirement, route.requirement)
    \/ /\ Last(routes).requirement = route.requirement
       /\ Last(routes).order < route.order

\* A route that may have the id of another one.
RouteFitsAnyId(route) ==
  /\ \E i \in DOMAIN declared : /\ declared[i].id = route.requirement
                                /\ declared[i].contract = route.contract
  /\ RouteFollows(route)
  /\ route.order = Len(RoutesOf(route.requirement))
  /\ \A i \in DOMAIN routes : routes[i].requirement = route.requirement
                              => routes[i].provider # route.provider

RouteFits(route) ==
  /\ \A i \in DOMAIN routes : routes[i].route_id # route.route_id
  /\ RouteFitsAnyId(route)

CountsFit ==
  \A i \in DOMAIN declared :
    LET count == Len(RoutesOf(declared[i].id))
    IN  /\ declared[i].cardinality = "one" => count = 1
        /\ declared[i].cardinality = "optional" => count <= 1

EndpointFits(endpoint) ==
  endpoints # <<>> => Before(EndpointIds, Last(endpoints).id, endpoint.id)

Declarations ==
  [id : Ids, contract : Contracts, cardinality : Cardinalities]
Routes ==
  [route_id : RouteIds, requirement : Ids, contract : Contracts,
   provider : Instances, order : 0 .. MaxRoutes - 1]
Endpoints == [id : ToSet(EndpointIds), contract : Contracts]

InitInit ==
  /\ stage = "declarations"
  /\ declared = <<>> /\ routes = <<>> /\ endpoints = <<>>
  /\ definition = Undefined /\ clients = <<>> /\ bindings = <<>>
  /\ reached = Nowhere

unbound == <<definition, clients, bindings, reached>>

ReadDeclaration ==
  /\ stage = "declarations"
  /\ \E entry \in Declarations :
       \/ /\ DeclarationFits(entry) /\ Len(declared) < MaxDeclared
          /\ declared' = Append(declared, entry)
          /\ UNCHANGED stage
       \/ /\ ~ DeclarationFits(entry)
          /\ stage' = "refused"
          /\ UNCHANGED declared
  /\ UNCHANGED <<routes, endpoints, unbound>>

ReadRoute ==
  /\ stage = "routes"
  /\ \E route \in Routes :
       \/ /\ RouteFits(route) /\ Len(routes) < MaxRoutes
          /\ routes' = Append(routes, route)
          /\ UNCHANGED stage
       \/ /\ ~ RouteFits(route)
          /\ stage' = "refused"
          /\ UNCHANGED routes
  /\ UNCHANGED <<declared, endpoints, unbound>>

ReadEndpoint ==
  /\ stage = "endpoints"
  /\ \E endpoint \in Endpoints :
       \/ /\ EndpointFits(endpoint) /\ Len(endpoints) < MaxEndpoints
          /\ endpoints' = Append(endpoints, endpoint)
          /\ UNCHANGED stage
       \/ /\ ~ EndpointFits(endpoint)
          /\ stage' = "refused"
          /\ UNCHANGED endpoints
  /\ UNCHANGED <<declared, routes, unbound>>

\* A list has ended; the cardinalities are checked after the routes.
EndOfList ==
  /\ \/ stage = "declarations" /\ stage' = "routes"
     \/ /\ stage = "routes"
        /\ stage' = IF CountsFit THEN "endpoints" ELSE "refused"
     \/ stage = "endpoints" /\ stage' = "valid"
  /\ UNCHANGED <<lists, unbound>>
-----------------------------------------------------------------------------
(***************************************************************************)
(* The definition                                                          *)
(***************************************************************************)

\* A contract of a definition may leave the digest open.
SameVersion(own, admitted) ==
  own.capability = admitted.capability /\ own.version = admitted.version
Same(own, admitted) ==
  /\ SameVersion(own, admitted)
  /\ own.digest \in {"any", admitted.digest}

\* Two names may stand for one id; then no initialization fits, since the ids
\* of an initialization are unique.
RequirementsFit(def) ==
  LET names == DOMAIN def.dependencies
  IN  /\ Cardinality(names) = Len(declared)
      /\ {def.dependencies[n].id : n \in names}
           = {declared[i].id : i \in DOMAIN declared}
      /\ \A n \in names :
           LET own == def.dependencies[n]
               admitted == declared[Declaration(own.id)]
           IN  /\ own.cardinality = admitted.cardinality
               /\ Same(own.contract, admitted.contract)

\* The first provider of the same capability.
ProviderOf(def, endpoint) ==
  SelectInSeq(def.providers,
              LAMBDA own : own.capability = endpoint.contract.capability)
ProvidersFit(def) ==
  /\ Len(def.providers) = Len(endpoints)
  /\ \A i \in DOMAIN endpoints :
       LET p == ProviderOf(def, endpoints[i])
       IN  p # 0 /\ Same(def.providers[p], endpoints[i].contract)

Compare ==
  /\ stage = "valid"
  /\ \E def \in Definitions :
       \/ /\ RequirementsFit(def) /\ ProvidersFit(def)
          /\ stage' = "initialized"
          /\ definition' = def
       \/ /\ ~ (RequirementsFit(def) /\ ProvidersFit(def))
          /\ stage' = "refused"
          /\ UNCHANGED definition
  /\ UNCHANGED <<lists, clients, bindings, reached>>

\* create() may throw or return no object.
Construct ==
  /\ stage = "initialized"
  /\ \/ /\ stage' = "constructed"
        /\ clients' = [n \in DOMAIN definition.dependencies |->
                         RoutesOf(definition.dependencies[n].id)]
        /\ bindings' = [i \in DOMAIN endpoints |->
              definition.providers[ProviderOf(definition, endpoints[i])]]
     \/ stage' = "failed" /\ UNCHANGED <<clients, bindings>>
  /\ UNCHANGED <<lists, definition, reached>>

\* The host knows the route by its id, and checks whose requirement it serves.
Delivered(route) ==
  LET found == SelectInSeq(routes,
                 LAMBDA other : other.route_id = route.route_id)
  IN  IF routes[found].requirement = route.requirement
        THEN [who |-> "provider", called |-> route,
              provider |-> routes[found].provider]
        ELSE [who |-> "lost"]

\* The server knows the endpoint by its id, and compares the contract.
Served(id, contract) ==
  LET found == SelectInSeq(endpoints, LAMBDA other : other.id = id)
  IN  IF found # 0 /\ endpoints[found].contract = contract
        THEN [who |-> "plugin", contract |-> contract,
              binding |-> bindings[found]]
        ELSE [who |-> "refused"]

\* The plugin calls through one of its clients.
CallOut ==
  /\ stage = "constructed"
  /\ \E n \in DOMAIN clients : \E i \in DOMAIN clients[n] :
       reached' = Delivered(clients[n][i])
  /\ UNCHANGED <<stage, lists, definition, clients, bindings>>

\* The host invokes an endpoint.
ServeEndpoint ==
  /\ stage = "constructed"
  /\ \E id \in ToSet(EndpointIds), contract \in Contracts :
       reached' = Served(id, contract)
  /\ UNCHANGED <<stage, lists, definition, clients, bindings>>

InitNext ==
  \/ ReadDeclaration \/ ReadRoute \/ ReadEndpoint \/ EndOfList
  \/ Compare \/ Construct \/ CallOut \/ ServeEndpoint

InitSpec == InitInit /\ [][InitNext]_initVars
-----------------------------------------------------------------------------
(***************************************************************************)
(* Properties                                                              *)
(***************************************************************************)
Stages == {"declarations", "routes", "endpoints", "valid", "initialized",
           "constructed", "failed", "refused"}

InitTypeOK ==
  /\ stage \in Stages
  /\ \A i \in DOMAIN declared : declared[i] \in Declarations
  /\ \A i \in DOMAIN routes : routes[i] \in Routes
  /\ \A i \in DOMAIN endpoints : endpoints[i] \in Endpoints
  /\ definition \in Definitions \cup {Undefined}

\* A constructed plugin has the clients it declared: exactly one, at most one,
\* or one for each provider in the order the host gave them, every client of
\* the declared contract; and every admitted route belongs to one dependency.
\* A call through a client reaches the provider the client stands for, and is
\* never refused; a call that is served enters a binding of its capability and
\* version.
BoundAsDeclared ==
  stage = "constructed" =>
    /\ \A n \in DOMAIN clients :
         LET own == definition.dependencies[n] IN
         /\ own.cardinality = "one" => Len(clients[n]) = 1
         /\ own.cardinality = "optional" => Len(clients[n]) <= 1
         /\ \A i \in DOMAIN clients[n] :
              /\ clients[n][i].order = i - 1
              /\ Same(own.contract, clients[n][i].contract)
              /\ \A j \in DOMAIN clients[n] :
                   clients[n][i].provider = clients[n][j].provider => i = j
    /\ \A i \in DOMAIN routes :
         Cardinality({n \in DOMAIN clients : routes[i] \in ToSet(clients[n])})
           = 1
    /\ reached.who # "lost"
    /\ reached.who = "provider" => reached.provider = reached.called.provider
    /\ reached.who = "plugin" => SameVersion(reached.binding, reached.contract)
=============================================================================
