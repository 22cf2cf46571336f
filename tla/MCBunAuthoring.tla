--------------------------- MODULE MCBunAuthoring ---------------------------
(***************************************************************************)
(* One Plugin Instance with a handful of messages.                         *)
(***************************************************************************)
EXTENDS BunAuthoring, TLC

Symmetric == Permutations(Opens)
=============================================================================
