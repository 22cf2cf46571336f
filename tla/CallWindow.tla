----------------------------- MODULE CallWindow -----------------------------
(***************************************************************************)
(* What a Plugin Instance promises the host about the calls it takes: each *)
(* call runs at most once, at most Width of them run together and at most  *)
(* Depth are open together, every one that was taken ends, and once the    *)
(* window is closed none is taken and none starts, while those that run    *)
(* still end.                                                              *)
(***************************************************************************)
EXTENDS Naturals, FiniteSets

CONSTANTS
  Calls,   \* the calls the host may make
  Width,   \* how many may run at once
  Depth    \* how many may be open at once, running or waiting

VARIABLES
  stage,     \* "new", "waiting", "running" or "done", for each call
  shut       \* the window is closed

vars == <<stage, shut>>

Waiting == {c \in Calls : stage[c] = "waiting"}
Running == {c \in Calls : stage[c] = "running"}

Init == stage = [c \in Calls |-> "new"] /\ shut = FALSE

Take(c) ==
  /\ ~shut
  /\ stage[c] = "new"
  /\ Cardinality(Waiting \cup Running) < Depth
  /\ stage' = [stage EXCEPT ![c] = "waiting"]
  /\ UNCHANGED shut

Begin(c) ==
  /\ ~shut
  /\ stage[c] = "waiting"
  /\ Cardinality(Running) < Width
  /\ stage' = [stage EXCEPT ![c] = "running"]
  /\ UNCHANGED shut

End(c) ==
  /\ stage[c] \in {"waiting", "running"}
  /\ stage' = [stage EXCEPT ![c] = "done"]
  /\ UNCHANGED shut

Shut == shut' = TRUE /\ UNCHANGED stage

Next == Shut \/ \E c \in Calls : Take(c) \/ Begin(c) \/ End(c)

Spec == Init /\ [][Next]_vars
=============================================================================
