---------------------------- MODULE OwnedProcess ----------------------------
(***************************************************************************)
(* launchOwnedProcess of lenso-cli: the launcher's end of the pipe to the  *)
(* native owner of one application process.  What the owner sends, and     *)
(* when the pipe breaks, is arbitrary.                                     *)
(*                                                                         *)
(* A frame is one step: the frames of one chunk are handled without a      *)
(* promise reaction in between, and those of two chunks may be.  Frames    *)
(* that arrive after the outcome or after a breach change nothing.  The    *)
(* Process- names are composed by HostApplication.                         *)
(***************************************************************************)
EXTENDS Naturals

VARIABLES
  owned,       \* the promise of launchOwnedProcess
  stopping,    \* the pipe to the owner was ended or destroyed
  breached,    \* protocolFailed: what the owner sends is no longer read
  timer,       \* startupTimer or cleanupTimer; never both are armed
  ownership    \* the outcome `closed` is resolved with

processVars == <<owned, stopping, breached, timer, ownership>>

Terminal == ownership # "none"
Reading == ~breached /\ ~Terminal
Sendable == ~Terminal /\ ~stopping

ProcessInit ==
  /\ owned = "pending"
  /\ stopping = FALSE
  /\ breached = FALSE
  /\ timer = "startup"
  /\ ownership = "none"

\* finish(): the first outcome stays, and without a handshake the launch fails.
Finish(termination) ==
  /\ ~Terminal
  /\ ownership' = termination
  /\ timer' = "none"
  /\ owned' = IF owned = "pending" THEN "rejected" ELSE owned
  /\ UNCHANGED <<stopping, breached>>

\* What fail() and stop() share: from then on the owner has a bounded time.
EndPipeUntimed ==
  IF Sendable THEN stopping' = TRUE /\ timer' = "none"
  ELSE UNCHANGED <<stopping, timer>>
EndPipe ==
  IF Sendable THEN stopping' = TRUE /\ timer' = "cleanup"
  ELSE UNCHANGED <<stopping, timer>>

StopProcess == EndPipe /\ UNCHANGED <<owned, breached, ownership>>

\* The owner's handshake, accepted once and only before a stop.
OwnedFrame ==
  /\ Reading
  /\ owned = "pending" /\ ~stopping
  /\ owned' = "resolved"
  /\ timer' = "none"
  /\ UNCHANGED <<stopping, breached, ownership>>

\* The owner's last word counts only after its handshake.
TerminalFrame ==
  /\ Reading
  /\ owned = "resolved"
  /\ \E termination \in {"confirmed", "unconfirmed"} : Finish(termination)

\* Any other frame, or one that does not parse, ends the reading.
BadFrame ==
  /\ Reading
  /\ breached' = TRUE
  /\ EndPipe
  /\ UNCHANGED <<owned, ownership>>

TransportFails == Sendable /\ StopProcess

\* The child could not be spawned, or it closed without a last word.
OwnerGone == Finish("unconfirmed")

StartupTimeout == timer = "startup" /\ StopProcess

CleanupTimeout == timer = "cleanup" /\ Finish("unconfirmed")

ProcessNext ==
  \/ OwnedFrame \/ TerminalFrame \/ BadFrame \/ TransportFails \/ OwnerGone
  \/ StartupTimeout \/ CleanupTimeout

ProcessTypeOK ==
  /\ owned \in {"pending", "resolved", "rejected"}
  /\ {stopping, breached} \subseteq BOOLEAN
  /\ timer \in {"startup", "cleanup", "none"}
  /\ ownership \in {"none", "confirmed", "unconfirmed"}
=============================================================================
