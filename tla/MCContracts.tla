---------------------------- MODULE MCContracts ----------------------------
(***************************************************************************)
(* Four parts of the contracts between plugins that share nothing: a call  *)
(* through the capability bindings, the scanner of portable patterns, the  *)
(* binding of a plugin, and the messages of a chain of calls.  Each        *)
(* behaviour explores one of them, the others keep their first state.      *)
(***************************************************************************)
EXTENDS CapabilityCall, PortablePattern, AuthoringInit, AuthoringWire

\* *, ?, +, {2}, {1,2} and {0}.
Times(min, max) == [min |-> min, max |-> max]
SomeRepetitions ==
  {Times(0, Unbounded), Times(0, 1), Times(1, Unbounded), Times(2, 2),
   Times(1, 2), Times(0, 0)}

\* The two orders differ where a digit meets an underscore.
ByCodeUnits == <<"a1", "a_", "b">>
ByCollation == <<"a_", "a1", "b">>
SomeEndpoints == <<"e", "f">>
Descriptor(digest) == [capability |-> "x", version |-> 1, digest |-> digest]
SomeContracts == {Descriptor("old"), Descriptor("new")}
Needs(id, digest, cardinality) ==
  [id |-> id, contract |-> Descriptor(digest), cardinality |-> cardinality]

\* Two names of one id, contracts that leave their digest open, and two
\* providers of one capability among them.
SomeDefinitions ==
  {[dependencies |-> <<>>, providers |-> <<Descriptor("any")>>],
   [dependencies |-> [n |-> Needs("a_", "any", "one"),
                      m |-> Needs("a1", "old", "many")],
    providers |-> <<Descriptor("new")>>],
   [dependencies |-> [n |-> Needs("b", "new", "optional")],
    providers |-> <<Descriptor("any"), Descriptor("old")>>],
   [dependencies |-> [n |-> Needs("b", "new", "one"),
                      m |-> Needs("b", "new", "one")],
    providers |-> <<>>]}

\* Texts that are empty, fit, are cut between characters and inside of one.
SomeCauses ==
  {<<>>, <<1, 2>>, <<1, 1, 2>>, <<1, 1, 1, 2>>, <<1, 4>>, <<1, 1, 1, 1, 1>>}

VARIABLE part

vars == <<callVars, patternVars, initVars, wireVars, part>>

\* The call and the chain of a behaviour that explores another part are fixed.
SomeCall ==
  /\ contract = "secrets" /\ hops = 1 /\ old = {} /\ value = "portable"
  /\ verb = Entry
  /\ op = CHOOSE o \in DOMAIN Bindings["secrets"].client : TRUE
  /\ new = CHOOSE e \in Bindings["secrets"].errors[op] : TRUE
SomeChain ==
  /\ entry = "session"
  /\ scopes = <<RootScope(0, CHOOSE length \in RootLengths : TRUE)>>

Init ==
  /\ part \in {"call", "pattern", "binding", "wire"}
  /\ CallInit /\ PatternInit /\ InitInit /\ WireInit
  /\ part # "call" => SomeCall
  /\ part # "wire" => SomeChain

Next ==
  \/ /\ part = "call" /\ CallNext
     /\ UNCHANGED <<patternVars, initVars, wireVars, part>>
  \/ /\ part = "pattern" /\ PatternNext
     /\ UNCHANGED <<callVars, initVars, wireVars, part>>
  \/ /\ part = "binding" /\ InitNext
     /\ UNCHANGED <<callVars, patternVars, wireVars, part>>
  \/ /\ part = "wire" /\ WireNext
     /\ UNCHANGED <<callVars, patternVars, initVars, part>>

Spec == Init /\ [][Next]_vars

\* Every part keeps its types.
TypesOK == CallTypeOK /\ InitTypeOK /\ WireTypeOK
=============================================================================
