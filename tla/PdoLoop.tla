------------------------------ MODULE PdoLoop ------------------------------
(***************************************************************************)
(* The cycle of ethercat_master_scan_task for axis 1: the enable sequence  *)
(* (Cia402Enable) and the motion scheduler (EthercatMotion) take turns on  *)
(* the same output image.  The sequence writes it first; while the drive   *)
(* reports Operation Enabled the scheduler then overwrites TargetPos.      *)
(* Here `output' is the image; the variable TargetPos of EthercatMotion is *)
(* the last target the scheduler wrote into it.  A lost frame replays an   *)
(* earlier image to both (see Cia402Enable).                               *)
(***************************************************************************)
EXTENDS EthercatMotion

CONSTANTS FAULT_CLEAR_CYCLES, STEP_CYCLES, CSP_PREPARE_CYCLES, Buffers, Incomplete

VARIABLES s_enable, output, drive, rxbuf, idx

loopvars == <<vars, s_enable, output, drive, rxbuf, idx>>

Axis1 == INSTANCE Cia402Enable WITH
  Axis <- {1}, Position <- Int32, OP_MODE <- 0,
  s_enable <- [a \in {1} |-> s_enable], output <- [a \in {1} |-> output],
  drive <- [a \in {1} |-> drive], reported <- [a \in {1} |-> {}],
  replayed <- [a \in {1} |-> FALSE]

ASSUME LoopAssumption ==
  Buffers \in Nat \ {0} /\ Incomplete \notin [{1} -> Axis1!InputImage]

(* The input image of axis 1 as the scheduler reads it.                    *)
Image(input) ==
  [CurrentPosition |-> input.position,
   csp_enabled |-> input.state = "OPERATION_ENABLED" /\ input.csp]

EnableStep(input) == Axis1!ethercat_servo_enable_process(s_enable, output, input)

(* Mutant: the sequence writes last.                                       *)
enable_writes_last(input, cmd, plan) ==
  /\ s_enable' = EnableStep(input).e
  /\ output' = EnableStep(input).o
  /\ \/ /\ input.state = "OPERATION_ENABLED"
        /\ ethercat_motion_process(Image(input), cmd, plan)
     \/ /\ input.state # "OPERATION_ENABLED"
        /\ InputRefreshed(Image(input))

(* Steps 3 and 4 of a cycle whose working counter is complete: the enable  *)
(* sequence, then the motion if axis 1 is enabled.                         *)
LoopBody(input, cmd, plan) ==
  /\ s_enable' = EnableStep(input).e
  /\ \/ /\ input.state = "OPERATION_ENABLED"
        /\ ethercat_motion_process(Image(input), cmd, plan)
        /\ output' = [EnableStep(input).o EXCEPT !.TargetPos = TargetPos']
     \/ /\ input.state # "OPERATION_ENABLED"
        /\ InputRefreshed(Image(input))
        /\ output' = EnableStep(input).o

(* Steps 1 and 2: the frame reaches the drive or not, and afterwards the   *)
(* buffer of its index holds frame.                                        *)
Exchange(reached, frame) ==
  /\ drive' = IF reached THEN Axis1!Received(drive, output) ELSE drive
  /\ rxbuf' = [rxbuf EXCEPT ![idx] = frame]
  /\ idx' = (idx % Buffers) + 1

GoodCycle(reached, outcome, cmd, plan) ==
  LET frame == Axis1!FrameAfter(outcome)
  IN /\ outcome = "complete" => reached
     /\ Axis1!pdo_ok(frame)
     /\ Exchange(reached, frame)
     /\ LoopBody(frame[1], cmd, plan)

(* The frame in the buffer is incomplete: the inputs it brings, if any,    *)
(* are copied, whatever they are, and the loop does nothing with them.     *)
BadCycle(reached, outcome) ==
  LET frame == Axis1!FrameAfter(outcome)
  IN /\ ~Axis1!pdo_ok(frame)
     /\ Exchange(reached, frame)
     /\ \E image \in InputImage : InputRefreshed(image)
     /\ UNCHANGED <<s_enable, output>>

-----------------------------------------------------------------------------
(* The drive of axis 1.                                                    *)

DriveChange(d) ==
  /\ drive' = d
  /\ UNCHANGED <<vars, s_enable, output, rxbuf, idx>>

DriveObeys ==
  /\ Axis1!Obeyed(drive) # drive.state
  /\ DriveChange([drive EXCEPT !.state = Axis1!Obeyed(drive), !.edge = FALSE])

DriveFaults ==
  /\ drive.state # "FAULT"
  /\ DriveChange([drive EXCEPT !.state = "FAULT", !.edge = FALSE])

(* An enabled drive goes to its target; a free one is moved by hand.       *)
DriveMoves(p) ==
  /\ drive.state = "OPERATION_ENABLED" => p = drive.target
  /\ DriveChange([drive EXCEPT !.position = p])

DriveTakesMode == DriveChange([drive EXCEPT !.csp = TRUE])

-----------------------------------------------------------------------------
LoopInit ==
  \E hold \in Int32 :
    /\ Init
    /\ s_enable = [state |-> "IDLE", wait_count |-> 0, hold_pos |-> hold, result |-> 0]
    /\ output = [ControlWord |-> "DISABLE_VOLTAGE", TargetPos |-> hold]
    /\ drive \in [state : {"SWITCH_ON_DISABLED", "FAULT"}, position : Int32, csp : BOOLEAN,
                  word : {"DISABLE_VOLTAGE"}, target : {hold}, edge : {FALSE}]
    /\ rxbuf \in [1..Buffers -> {Incomplete} \cup
                   [{1} -> [state : {"SWITCH_ON_DISABLED", "FAULT"}, position : Int32,
                            csp : BOOLEAN]]]
    /\ idx = 1

LoopNext ==
  \/ Application /\ UNCHANGED <<s_enable, output, drive, rxbuf, idx>>
  \/ \E reached \in BOOLEAN, outcome \in Axis1!Outcomes,
        cmd \in Int32, plan \in 0..MaxTotalCycles : GoodCycle(reached, outcome, cmd, plan)
  \/ \E reached \in BOOLEAN, outcome \in Axis1!Outcomes : BadCycle(reached, outcome)
  \/ DriveObeys \/ DriveFaults \/ DriveTakesMode
  \/ \E p \in Int32 : DriveMoves(p)

LoopSpec == LoopInit /\ [][LoopNext]_loopvars

-----------------------------------------------------------------------------
(* Properties.                                                             *)

(* Two writers, one winner: from the cycle in which the enable sequence    *)
(* is done, the position in the image is the scheduler's command and not   *)
(* the position the sequence holds, over faults, lost frames and renewed   *)
(* enabling.                                                               *)
CommandOwnsTarget ==
  s_enable.state = "DONE" => output.TargetPos = s_control.command_counts

(* The first time the drive is enabled with no request waiting, it is told *)
(* to stay where it is: no lost frame makes that an earlier position.      *)
FirstEnableHolds ==
  [][~s_motion_initialized /\ s_motion_initialized' /\ ~s_request.pending =>
       output'.TargetPos = drive.position]_loopvars

(* Whenever the loop finds the axis enabled, in an image that is not a     *)
(* replayed one, and nothing is to be moved, the axis is told to stay      *)
(* where it is, not to go to 0 or to an old trajectory value, as the       *)
(* comment in the loop says.                                               *)
EnableNeverJumps ==
  [][s_enable.state # "DONE" /\ s_enable'.state = "DONE"
       /\ ~s_request.pending /\ ~s_control.busy
       /\ rxbuf'[idx] = Axis1!FrameAfter("complete") =>
         output'.TargetPos = drive.position]_loopvars

=============================================================================
