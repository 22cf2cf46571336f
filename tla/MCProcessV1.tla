----------------------------- MODULE MCProcessV1 -----------------------------
(***************************************************************************)
(* A child with two slots, one place in the queue and five ids.            *)
(***************************************************************************)
EXTENDS ProcessV1
=============================================================================
