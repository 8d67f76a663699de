---------------------------- MODULE MotionService ----------------------------
(***************************************************************************)
(* What ethercat_motion.h promises an application task, without            *)
(* trajectories: one motion at a time, one request at a time, every        *)
(* accepted request honoured in the phase it was accepted for.             *)
(***************************************************************************)

VARIABLES
  slot,      \* the accepted request not yet taken, or "none"
  phase,     \* "idle", "moving" or "paused"
  outcome    \* how the last motion ended: "done", "failed", or "none"

svars == <<slot, phase, outcome>>

ServiceInit == slot = "none" /\ phase = "idle" /\ outcome = "none"

-----------------------------------------------------------------------------
(* Requests.                                                               *)

Accept(request) ==
  /\ slot' = request
  /\ UNCHANGED <<phase, outcome>>

Submit == slot = "none" /\ phase # "moving" /\ Accept("START")
Stop == slot = "none" /\ phase = "moving" /\ Accept("PAUSE")
Resume == slot = "none" /\ phase = "paused" /\ Accept("CONTINUE")
Abort == (slot # "none" \/ phase # "idle") /\ Accept("ABORT")

-----------------------------------------------------------------------------
(* What a cycle of the PDO task makes of them.                             *)

Moves == phase' = "moving" /\ outcome' = "none"
Ends == phase' = "idle" /\ outcome' \in {"done", "failed"}

(* A new motion moves, or fails to start; it is never done at once.        *)
TakeStart ==
  /\ slot = "START" /\ phase # "moving" /\ slot' = "none"
  /\ Moves \/ (Ends /\ outcome' = "failed")

TakePause ==
  /\ slot = "PAUSE" /\ phase = "moving" /\ slot' = "none"
  /\ phase' = "paused" /\ outcome' = "none"

TakeContinue ==
  /\ slot = "CONTINUE" /\ phase = "paused" /\ slot' = "none"
  /\ Moves \/ Ends

TakeAbort ==
  /\ slot = "ABORT" /\ slot' = "none"
  /\ phase' = "idle" /\ outcome' = "done"

(* A motion ends by itself only while no request waits.                    *)
Finish == slot = "none" /\ phase = "moving" /\ Ends /\ UNCHANGED slot

ServiceNext ==
  \/ Submit \/ Stop \/ Resume \/ Abort
  \/ TakeStart \/ TakePause \/ TakeContinue \/ TakeAbort
  \/ Finish

ServiceSpec == ServiceInit /\ [][ServiceNext]_svars
=============================================================================
