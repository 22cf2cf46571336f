--------------------------- MODULE MCEventRunner ---------------------------
(***************************************************************************)
(* Small isolates: few events, a ceiling of two or three admissions.       *)
(***************************************************************************)
EXTENDS EventRunner, TLC

Symmetric == Permutations(Sessions) \cup Permutations(Events \ Sessions)
=============================================================================
