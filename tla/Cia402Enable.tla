---------------------------- MODULE Cia402Enable ----------------------------
(***************************************************************************)
(* The CiA402 enable sequence of every axis (ethercat_servo_enable_process *)
(* of app/ethercat_master.c), against the drives.                          *)
(*                                                                         *)
(* In every 2 ms cycle the PDO loop sends the output images prepared in    *)
(* the cycle before and receives the inputs; only if the working counter   *)
(* is complete (pdo_ok) does it advance the sequence of each axis.  A      *)
(* frame may come back incomplete, having reached some of the drives; then *)
(* the same outputs are sent again.  Or it is lost, on its way out or on   *)
(* its way back.  That goes unnoticed: the receive buffer of its index     *)
(* still holds the frame that came back on that index last, and the loop   *)
(* takes the working counter and the inputs of that one (ecx_waitinframe,  *)
(* nicdrv.c:256, and ecx_receive_processdata_group).  The image is         *)
(* replayed.                                                               *)
(*                                                                         *)
(* The drives are external: a drive obeys the control word it holds when   *)
(* it gets to it, faults at any time, may be moved by hand while it is not *)
(* enabled, and takes up the mode of operation at some time.               *)
(***************************************************************************)
EXTENDS Integers

CONSTANTS
  Axis,                 \* 1..s_axis_count
  Position,             \* encoder positions
  FAULT_CLEAR_CYCLES,   \* 500: cycles to wait for the fault bit to clear
  STEP_CYCLES,          \* 1000: cycles to wait in each later step
  CSP_PREPARE_CYCLES,   \* 5: cycles of holding the position before 0x000F
  OP_MODE,              \* the argument op_mode: 0, "do not set the mode", or 8
  Buffers,              \* EC_MAXBUF - 1: receive buffers, used in turn
  Incomplete            \* a buffer without a complete process data frame

ASSUME EnableAssumption ==
  /\ Axis # {}
  /\ FAULT_CLEAR_CYCLES \in Nat /\ STEP_CYCLES \in Nat
  /\ FAULT_CLEAR_CYCLES <= STEP_CYCLES
  /\ CSP_PREPARE_CYCLES \in Nat \ {0} /\ CSP_PREPARE_CYCLES <= STEP_CYCLES
  /\ OP_MODE \in {0, 8}
  /\ Buffers \in Nat \ {0}

VARIABLES
  s_enable,   \* per axis: s_enable_state, _wait_count, hold position, result
  output,     \* per axis: the RxPDO image
  drive,      \* per axis: the external drive and the words it last received
  rxbuf,      \* per index: the process data frame received on it last
  idx,        \* the index of the next frame
  reported,   \* history: positions the axis reported since it is switched on
  replayed    \* history: sequence and drive may have parted over a replayed image

history == <<reported, replayed>>
vars == <<s_enable, output, drive, rxbuf, idx, history>>

-----------------------------------------------------------------------------
ControlWords ==
  {"DISABLE_VOLTAGE", "SHUTDOWN", "SWITCH_ON", "ENABLE_OPERATION", "FAULT_RESET"}

DriveStates ==
  {"SWITCH_ON_DISABLED", "READY_TO_SWITCH_ON", "SWITCHED_ON",
   "OPERATION_ENABLED", "FAULT"}

EnableStates ==
  {"IDLE", "FAULT_RESET_PULSE", "WAIT_FAULT_CLEAR", "SHUTDOWN", "SWITCH_ON",
   "CSP_PREPARE", "ENABLE_OPERATION", "DONE", "FAILED"}

Enable ==
  [state : EnableStates, wait_count : Nat, hold_pos : Position, result : {-1, 0, 1}]

Output == [ControlWord : ControlWords, TargetPos : Position]

(* The TxPDO image; csp: OpModeNow is 8.                                   *)
InputImage == [state : DriveStates, position : Position, csp : BOOLEAN]

(* edge: a rising fault-reset bit not yet acted upon.                      *)
Drive ==
  [state : DriveStates, position : Position, csp : BOOLEAN,
   word : ControlWords, target : Position, edge : BOOLEAN]

ASSUME IncompleteAssumption == Incomplete \notin [Axis -> InputImage]

-----------------------------------------------------------------------------
(* ethercat_servo_enable_process: from the sequence e and the output image *)
(* o of an axis, and the input image d, to the new sequence and image.     *)

Step(state, wait_count, hold_pos, result, word, target) ==
  [e |-> [state |-> state, wait_count |-> wait_count, hold_pos |-> hold_pos,
          result |-> result],
   o |-> [ControlWord |-> word, TargetPos |-> target]]

(* Mutants: the cycles are counted but never compared; never counted.      *)
await_unlimited(e, o, word, arrived, next, limit) ==
  IF arrived THEN Step(next, 0, e.hold_pos, 0, word, o.TargetPos)
  ELSE Step(e.state, e.wait_count + 1, e.hold_pos, 0, word, o.TargetPos)

await_uncounted(e, o, word, arrived, next, limit) ==
  IF arrived THEN Step(next, 0, e.hold_pos, 0, word, o.TargetPos)
  ELSE Step(e.state, e.wait_count, e.hold_pos, 0, word, o.TargetPos)

(* Wait in a step with its control word until the drive arrives, at most   *)
(* limit cycles.                                                           *)
Await(e, o, word, arrived, next, limit) ==
  IF arrived THEN Step(next, 0, e.hold_pos, 0, word, o.TargetPos)
  ELSE IF e.wait_count + 1 > limit
  THEN Step("FAILED", e.wait_count + 1, e.hold_pos, -1, word, o.TargetPos)
  ELSE Step(e.state, e.wait_count + 1, e.hold_pos, 0, word, o.TargetPos)

ModeConfirmed(d) == OP_MODE = 0 \/ d.csp

AlreadyEnabled(e, d) ==
  LET hold == IF e.state = "DONE" THEN e.hold_pos ELSE d.position
  IN IF ModeConfirmed(d)
     THEN Step("DONE", 0, hold, 1, "ENABLE_OPERATION", hold)
     ELSE Step(e.state, e.wait_count, hold, 0, "ENABLE_OPERATION", hold)

(* Mutant: a faulted drive is not told apart.                              *)
idle_ignores_fault(e, o, d) ==
  Step("SHUTDOWN", 0, e.hold_pos, 0, "DISABLE_VOLTAGE", o.TargetPos)

EnableIdle(e, o, d) ==
  Step(IF d.state = "FAULT" THEN "FAULT_RESET_PULSE" ELSE "SHUTDOWN",
       0, e.hold_pos, 0, "DISABLE_VOLTAGE", o.TargetPos)

EnableFaultResetPulse(e, o) ==
  Step("WAIT_FAULT_CLEAR", 0, e.hold_pos, 0, "FAULT_RESET", o.TargetPos)

(* Mutant: the sequence without its CSP_PREPARE step.                      *)
switch_on_unprepared(e, o, d) ==
  Await(e, o, "SWITCH_ON", d.state = "SWITCHED_ON", "ENABLE_OPERATION", STEP_CYCLES)

EnableSwitchOn(e, o, d) ==
  IF d.state = "SWITCHED_ON"
  THEN Step("CSP_PREPARE", 0, d.position, 0, "SWITCH_ON", d.position)
  ELSE Await(e, o, "SWITCH_ON", FALSE, "SWITCH_ON", STEP_CYCLES)

EnableCspPrepare(e, d) ==
  LET wait == e.wait_count + 1
  IN IF ModeConfirmed(d) /\ wait >= CSP_PREPARE_CYCLES
     THEN Step("ENABLE_OPERATION", 0, d.position, 0, "SWITCH_ON", d.position)
     ELSE IF wait > STEP_CYCLES
     THEN Step("FAILED", wait, d.position, -1, "SWITCH_ON", d.position)
     ELSE Step("CSP_PREPARE", wait, d.position, 0, "SWITCH_ON", d.position)

EnableOperation(e) ==
  LET o == [TargetPos |-> e.hold_pos]
  IN Await(e, o, "ENABLE_OPERATION", FALSE, "ENABLE_OPERATION", STEP_CYCLES)

ethercat_servo_enable_process(e, o, d) ==
  CASE d.state = "OPERATION_ENABLED" -> AlreadyEnabled(e, d)
    [] d.state # "OPERATION_ENABLED" /\ e.state = "IDLE" -> EnableIdle(e, o, d)
    [] d.state # "OPERATION_ENABLED" /\ e.state = "FAULT_RESET_PULSE" ->
         EnableFaultResetPulse(e, o)
    [] d.state # "OPERATION_ENABLED" /\ e.state = "WAIT_FAULT_CLEAR" ->
         Await(e, o, "DISABLE_VOLTAGE", d.state # "FAULT", "SHUTDOWN", FAULT_CLEAR_CYCLES)
    [] d.state # "OPERATION_ENABLED" /\ e.state = "SHUTDOWN" ->
         Await(e, o, "SHUTDOWN", d.state = "READY_TO_SWITCH_ON", "SWITCH_ON", STEP_CYCLES)
    [] d.state # "OPERATION_ENABLED" /\ e.state = "SWITCH_ON" -> EnableSwitchOn(e, o, d)
    [] d.state # "OPERATION_ENABLED" /\ e.state = "CSP_PREPARE" -> EnableCspPrepare(e, d)
    [] d.state # "OPERATION_ENABLED" /\ e.state = "ENABLE_OPERATION" -> EnableOperation(e)
    [] d.state # "OPERATION_ENABLED" /\ e.state = "DONE" ->
         Step("IDLE", 0, e.hold_pos, 0, "DISABLE_VOLTAGE", o.TargetPos)
    [] d.state # "OPERATION_ENABLED" /\ e.state = "FAILED" ->
         Step("FAILED", e.wait_count, e.hold_pos, -1, "DISABLE_VOLTAGE", o.TargetPos)

-----------------------------------------------------------------------------
(* The PDO loop.                                                           *)

(* ec_send_processdata as the drive sees it: it holds the words it got.    *)
Received(d, o) ==
  [d EXCEPT !.word = o.ControlWord, !.target = o.TargetPos,
            !.edge = d.edge \/ (o.ControlWord = "FAULT_RESET" /\ d.word # "FAULT_RESET")]

Inputs(d) == [state |-> d.state, position |-> d.position, csp |-> d.csp]

(* What the buffer of the cycle's index holds after ecx_waitinframe, for a *)
(* frame that came back complete, incomplete, or not at all.               *)
FrameAfter(outcome) ==
  CASE outcome = "complete" -> [a \in Axis |-> Inputs(drive[a])]
    [] outcome = "incomplete" -> Incomplete
    [] outcome = "lost" -> rxbuf[idx]

(* ethercat_master_pdo_process_check: the working counter is complete.     *)
pdo_ok(frame) == frame # Incomplete

(* Sequence and drive are in step again, whatever was replayed before: the *)
(* sequence begins anew with a drive that is off, or finds it enabled.     *)
InStep(a) ==
  \/ /\ s_enable[a].state = "IDLE" /\ output[a].ControlWord = "DISABLE_VOLTAGE"
     /\ drive[a].state \in {"SWITCH_ON_DISABLED", "FAULT"}
  \/ /\ output[a].ControlWord = "ENABLE_OPERATION"
     /\ drive[a].state = "OPERATION_ENABLED" /\ ModeConfirmed(drive[a])

ethercat_servo_all_axes_enable_process(image) ==
  LET step == [a \in Axis |-> ethercat_servo_enable_process(s_enable[a], output[a], image[a])]
  IN /\ s_enable' = [a \in Axis |-> step[a].e]
     /\ output' = [a \in Axis |-> step[a].o]

(* The histories, after a cycle the sequence was advanced in.              *)
Recorded(outcome) ==
  IF outcome = "lost"
  THEN replayed' = [a \in Axis |-> TRUE] /\ UNCHANGED reported
  ELSE /\ replayed' = [a \in Axis |-> replayed[a] /\ ~InStep(a)]
       /\ reported' = [a \in Axis |->
            IF drive[a].state \in {"SWITCHED_ON", "OPERATION_ENABLED"}
            THEN reported[a] \cup {drive[a].position} ELSE {}]

(* One cycle whose frame got to the axes in reached.                       *)
PdoCycle(reached, outcome) ==
  LET frame == FrameAfter(outcome)
  IN /\ outcome = "complete" => reached = Axis
     /\ drive' = [a \in Axis |-> IF a \in reached THEN Received(drive[a], output[a])
                                 ELSE drive[a]]
     /\ rxbuf' = [rxbuf EXCEPT ![idx] = frame]
     /\ idx' = (idx % Buffers) + 1
     /\ IF pdo_ok(frame)
        THEN ethercat_servo_all_axes_enable_process(frame) /\ Recorded(outcome)
        ELSE UNCHANGED <<s_enable, output, history>>

-----------------------------------------------------------------------------
(* The drives.                                                             *)

(* The transition of the CiA402 state diagram the held word asks for.      *)
Obeyed(d) ==
  CASE d.state = "FAULT" -> IF d.edge THEN "SWITCH_ON_DISABLED" ELSE "FAULT"
    [] d.state # "FAULT" /\ d.word \in {"DISABLE_VOLTAGE", "FAULT_RESET"} ->
         "SWITCH_ON_DISABLED"
    [] d.state # "FAULT" /\ d.word = "SHUTDOWN" -> "READY_TO_SWITCH_ON"
    [] d.word \in {"SWITCH_ON", "ENABLE_OPERATION"} /\ d.state = "READY_TO_SWITCH_ON" ->
         "SWITCHED_ON"
    [] d.word = "SWITCH_ON" /\ d.state = "OPERATION_ENABLED" -> "SWITCHED_ON"
    [] d.word = "ENABLE_OPERATION" /\ d.state = "SWITCHED_ON" -> "OPERATION_ENABLED"
    [] OTHER -> d.state

DriveChange(a, d) ==
  /\ drive' = [drive EXCEPT ![a] = d]
  /\ UNCHANGED <<s_enable, output, rxbuf, idx, history>>

DriveObeys(a) ==
  /\ Obeyed(drive[a]) # drive[a].state
  /\ DriveChange(a, [drive[a] EXCEPT !.state = Obeyed(drive[a]), !.edge = FALSE])

DriveFaults(a) ==
  /\ drive[a].state # "FAULT"
  /\ DriveChange(a, [drive[a] EXCEPT !.state = "FAULT", !.edge = FALSE])

DriveMoves(a, p) ==
  /\ drive[a].state = "OPERATION_ENABLED" => p = drive[a].target
  /\ DriveChange(a, [drive[a] EXCEPT !.position = p])

DriveTakesMode(a) == DriveChange(a, [drive[a] EXCEPT !.csp = TRUE])

-----------------------------------------------------------------------------
(* As axis_pdo_bind and the warm-up in SAFE_OP leave it: the position each *)
(* axis had then is its hold position and target and has been received.    *)
(* Since then the axis may have been moved; the drive cannot be enabled.   *)
(* The buffers hold frames of the warm-up, or of the services before it.   *)
Init ==
  \E hold \in [Axis -> Position] :
    /\ s_enable = [a \in Axis |-> [state |-> "IDLE", wait_count |-> 0,
                                   hold_pos |-> hold[a], result |-> 0]]
    /\ output = [a \in Axis |-> [ControlWord |-> "DISABLE_VOLTAGE", TargetPos |-> hold[a]]]
    /\ drive \in [Axis -> [state : {"SWITCH_ON_DISABLED", "FAULT"}, position : Position,
                           csp : BOOLEAN, word : {"DISABLE_VOLTAGE"},
                           target : Position, edge : {FALSE}]]
    /\ \A a \in Axis : drive[a].target = hold[a]
    /\ rxbuf \in [1..Buffers -> {Incomplete} \cup
                   [Axis -> [state : {"SWITCH_ON_DISABLED", "FAULT"},
                             position : Position, csp : BOOLEAN]]]
    /\ idx = 1
    /\ reported = [a \in Axis |-> {}] /\ replayed = [a \in Axis |-> FALSE]

Outcomes == {"complete", "incomplete", "lost"}

Cycle == \E reached \in SUBSET Axis, outcome \in Outcomes : PdoCycle(reached, outcome)

DriveStep ==
  \/ \E a \in Axis : DriveObeys(a) \/ DriveFaults(a) \/ DriveTakesMode(a)
  \/ \E a \in Axis, p \in Position : DriveMoves(a, p)

Next == Cycle \/ DriveStep

Spec == Init /\ [][Next]_vars

-----------------------------------------------------------------------------
(* Properties.                                                             *)

(* Every variable has the type the C declarations give it, and no step     *)
(* waits longer than its limit.                                            *)
TypeOK ==
  /\ s_enable \in [Axis -> Enable]
  /\ \A a \in Axis : s_enable[a].wait_count <= STEP_CYCLES + 1
  /\ output \in [Axis -> Output]
  /\ drive \in [Axis -> Drive]
  /\ rxbuf \in [1..Buffers -> [Axis -> InputImage] \cup {Incomplete}]
  /\ idx \in 1..Buffers
  /\ reported \in [Axis -> SUBSET Position]
  /\ replayed \in [Axis -> BOOLEAN]

(* Enabling never makes the axis jump: the target a drive holds when it    *)
(* becomes enabled is a position it reported after it was switched on,     *)
(* however slow the drive, whichever frames come back incomplete and       *)
(* whatever faults, restarts and failures came before.  Only a lost frame  *)
(* can break this, and only until sequence and drive are in step again: a  *)
(* frame lost later on, or in an enabling before, does no harm.            *)
EnabledAtReportedPosition ==
  [][\A a \in Axis :
       /\ drive[a].state # "OPERATION_ENABLED" /\ drive'[a].state = "OPERATION_ENABLED"
       /\ ~replayed[a]
       => drive[a].target \in reported[a]]_vars

(* Every enable sequence comes to an end: the axis is enabled or reported  *)
(* as failed, though the drive may never answer.                           *)
EnableSettles ==
  \A a \in Axis : s_enable[a].state \notin {"DONE", "FAILED"} ~>
                    s_enable[a].state \in {"DONE", "FAILED"}

=============================================================================
