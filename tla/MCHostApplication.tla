------------------------- MODULE MCHostApplication -------------------------
(***************************************************************************)
(* An application that is inspected by a few callers at once.              *)
(***************************************************************************)
EXTENDS HostApplication
=============================================================================
