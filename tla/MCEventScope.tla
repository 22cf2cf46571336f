---------------------------- MODULE MCEventScope ----------------------------
(***************************************************************************)
(* One scope, small sets of operations.                                    *)
(***************************************************************************)
EXTENDS EventScope, TLC

Symmetric == Permutations(Operations)
=============================================================================
