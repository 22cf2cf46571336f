----------------------------- MODULE MCWorkers -----------------------------
(***************************************************************************)
(* The parts of a Workers isolate that own resources without sharing any:  *)
(* a plugin instance with its streams, a web request, an outgoing request, *)
(* the timer domain.                                                       *)
(* Each behaviour explores one of them, the others keep their first state. *)
(***************************************************************************)
EXTENDS WorkersPlugin, WebIngress, HttpEgress, WorkersClock

VARIABLE part

vars == <<pluginVars, ingressVars, egressVars, clockVars, part>>

Init ==
  /\ PluginInit /\ IngressInit /\ EgressInit /\ ClockInit
  /\ part \in {"plugin", "ingress", "egress", "clock"}
  /\ part # "egress" => heeds

PluginStep == PluginNext /\ UNCHANGED <<ingressVars, egressVars, clockVars, part>>
IngressStep == IngressNext /\ UNCHANGED <<pluginVars, egressVars, clockVars, part>>
EgressStep == EgressNext /\ UNCHANGED <<pluginVars, ingressVars, clockVars, part>>
ClockStep == ClockNext /\ UNCHANGED <<pluginVars, ingressVars, egressVars, part>>

Next ==
  \/ part = "plugin" /\ PluginStep
  \/ part = "ingress" /\ IngressStep
  \/ part = "egress" /\ EgressStep
  \/ part = "clock" /\ ClockStep

Spec ==
  /\ Init /\ [][Next]_vars
  /\ part = "plugin" => PluginFairness
  /\ part = "ingress" => IngressFairness

\* Each part only takes the values its code can give it.
TypeOK == PluginTypeOK /\ IngressTypeOK /\ EgressTypeOK /\ ClockTypeOK

\* What is held is counted: no iterator is alive that the bound on open streams
\* misses, and no frame that the bounds of its socket miss.
Safety == TypeOK /\ AliveBounded /\ SocketBounded
=============================================================================
