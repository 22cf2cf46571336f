---------------------------- MODULE MCBunPlugins ----------------------------
(***************************************************************************)
(* Two parts of the Bun plugin host that share nothing: a stream between   *)
(* two plugins, and the server of a plugin of the protocol before V2.      *)
(* Each behaviour explores one of them, the other keeps its first state.   *)
(***************************************************************************)
EXTENDS BunStreams, LegacyPlugin

\* Two dependencies on one capability, and what the host may admit for them.
Descriptor(r, c) == [requirement |-> r, capability |-> c]
TwoDependencies == {Descriptor("r1", "c"), Descriptor("r2", "c")}
SomeImports == TwoDependencies \cup {Descriptor("r3", "c"), Descriptor("r2", "d")}

VARIABLE part

vars == <<streamVars, legacyVars, part>>

Init ==
  /\ StreamInit /\ LegacyInit /\ part \in {"streams", "legacy"}
  /\ part = "streams" => instance = "none"

Next ==
  \/ part = "streams" /\ StreamNext /\ UNCHANGED <<legacyVars, part>>
  \/ part = "legacy" /\ LegacyNext /\ UNCHANGED <<streamVars, part>>

Spec == Init /\ [][Next]_vars /\ (part = "streams" => StreamFairness)
=============================================================================
