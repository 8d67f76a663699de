--------------------------- MODULE MCCia402Enable ---------------------------
(* Cia402Enable with two kinds of drives, chosen at the start: those in    *)
(* `prompt' obey before the next cycle, do not fault once they run and     *)
(* stay where they are; the others are free to be slow, to fault and to be *)
(* moved.  Frames are lost and come back incomplete in either case.        *)
EXTENDS Cia402Enable

VARIABLE prompt

Settled == \A a \in prompt : Obeyed(drive[a]) = drive[a].state

FreeStep(a) ==
  \/ DriveFaults(a) \/ DriveTakesMode(a)
  \/ \E p \in Position : DriveMoves(a, p)

(* With op_mode 0, as the loop calls it, the mode is never looked at: it   *)
(* starts the same everywhere.                                             *)
DriveInit ==
  /\ Init /\ prompt \in {Axis, {}}
  /\ \A a \in Axis : ~drive[a].csp
  /\ \A i \in 1..Buffers : rxbuf[i] # Incomplete => \A a \in Axis : ~rxbuf[i][a].csp

DriveNext ==
  /\ \/ Settled /\ Cycle
     \/ \E a \in Axis : DriveObeys(a)
     \/ \E a \in Axis \ prompt : FreeStep(a)
  /\ UNCHANGED prompt

(* The loop runs in every GPT period; that complete cycles never stop for  *)
(* good is what the bus must provide.                                      *)
DriveSpec ==
  /\ DriveInit /\ [][DriveNext]_<<vars, prompt>>
  /\ \A a \in Axis : WF_vars(a \in prompt /\ DriveObeys(a))
  /\ WF_vars(Settled /\ PdoCycle(Axis, "complete"))

(* A prompt drive, started in fault or not, is enabled and stays enabled,  *)
(* or replayed images part it from the sequence again and again or for     *)
(* good: no limit of the sequence fires early, the fault reset is          *)
(* effective, and incomplete frames only delay it.                         *)
PromptDriveEnabled ==
  \A a \in Axis : a \in prompt =>
    \/ <>[](s_enable[a].state = "DONE")
    \/ []<>replayed[a]
=============================================================================
