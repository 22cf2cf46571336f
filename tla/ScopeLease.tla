----------------------------- MODULE ScopeLease -----------------------------
(***************************************************************************)
(* What an event scope promises the owner of one request, whatever native  *)
(* work runs inside it: its life only moves forward, open -> closed ->     *)
(* fenced, and it issues one terminal cleanup receipt.  An uncertain       *)
(* receipt is only ever issued together with the fence, and a receipt is   *)
(* never taken back.  EventScope implements this module for its own        *)
(* bookkeeping, and EventRunner knows the scopes of its events by it.      *)
(***************************************************************************)
VARIABLES
  life,     \* "open" | "closed" | "fenced"
  receipt   \* "none" | "clean" | "uncertain"

vars == <<life, receipt>>

Init == life = "open" /\ receipt = "none"

\* abort() or settled() ends admission of application work.
Close ==
  /\ life = "open"
  /\ life' = "closed"
  /\ UNCHANGED receipt

\* invalidate() cuts every continuation off.
Fence ==
  /\ life # "fenced"
  /\ life' = "fenced"
  /\ UNCHANGED receipt

ReceiptClean ==
  /\ life # "open"
  /\ receipt = "none"
  /\ receipt' = "clean"
  /\ UNCHANGED life

ReceiptUncertain ==
  /\ life # "open"
  /\ receipt = "none"
  /\ receipt' = "uncertain"
  /\ life' = "fenced"

Next == Close \/ Fence \/ ReceiptClean \/ ReceiptUncertain

Spec == Init /\ [][Next]_vars
=============================================================================
