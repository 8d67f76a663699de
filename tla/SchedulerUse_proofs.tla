------------------------- MODULE SchedulerUse_proofs -------------------------
(***************************************************************************)
(* Proofs about the two sides from which the motion scheduler is used, for *)
(* every value of the constants.                                           *)
(*                                                                         *)
(* PdoLoop runs it as EthercatMotion specifies it, so that all that is     *)
(* proved of the scheduler holds in the loop, and the scheduler wins over  *)
(* the enable sequence in the output image.  OperatorPanel calls it with a *)
(* status that may be stale, and the validity of what waits in the slot    *)
(* makes up for that.                                                      *)
(***************************************************************************)
EXTENDS PdoLoop, OperatorPanel, EthercatMotion_proofs

(* A frame in a receive buffer.                                            *)
Frame == [{1} -> Axis1!InputImage] \cup {Incomplete}

(* Enable sequence, output image, drive and buffers have their types.      *)
LoopTypeOK ==
  /\ s_enable \in Axis1!Enable
  /\ output \in Axis1!Output
  /\ drive \in Axis1!Drive
  /\ rxbuf \in [1..Buffers -> Frame]
  /\ idx \in 1..Buffers

(* An enabled drive in a buffered image was seen by the scheduler before.  *)
SeenBefore(frame) ==
  frame # Incomplete /\ frame[1].state = "OPERATION_ENABLED" => s_motion_initialized

BuffersSeen == \A b \in 1..Buffers : SeenBefore(rxbuf[b])

(* The inductive invariant.                                                *)
LoopIInv == IInv /\ LoopTypeOK /\ CommandOwnsTarget /\ BuffersSeen

-----------------------------------------------------------------------------
(* What a drive holds after it received an output image.                   *)
LEMMA ReceivedType ==
  ASSUME NEW d \in Axis1!Drive, NEW o \in Axis1!Output
  PROVE  Axis1!Received(d, o) \in Axis1!Drive
<1> DEFINE edge == d.edge \/ (o.ControlWord = "FAULT_RESET" /\ d.word # "FAULT_RESET")
<1>1. edge \in BOOLEAN
  BY DEF Axis1!Drive
<1>2. Axis1!Received(d, o) = [d EXCEPT !.word = o.ControlWord, !.target = o.TargetPos,
                                       !.edge = edge]
  BY DEF Axis1!Received
<1>3. o.ControlWord \in Axis1!ControlWords /\ o.TargetPos \in Int32
  BY DEF Axis1!Output
<1> HIDE DEF edge
<1> QED BY <1>1, <1>2, <1>3 DEF Axis1!Drive

(* A step of the enable sequence yields a sequence and an image; it is     *)
(* done only with a drive that is enabled.                                 *)
LEMMA EnableProcessType ==
  ASSUME NEW e \in Axis1!Enable, NEW o \in Axis1!Output, NEW d \in Axis1!InputImage
  PROVE  LET s == Axis1!ethercat_servo_enable_process(e, o, d)
         IN /\ s.e \in Axis1!Enable /\ s.o \in Axis1!Output
            /\ s.e.state = "DONE" => d.state = "OPERATION_ENABLED"
<1> DEFINE s == Axis1!ethercat_servo_enable_process(e, o, d)
           enabled == d.state = "OPERATION_ENABLED"
           Outcome(state, wait, hold, result, word, target) ==
             /\ state \in Axis1!EnableStates /\ wait \in Nat /\ hold \in Int32
             /\ result \in {-1, 0, 1} /\ word \in Axis1!ControlWords /\ target \in Int32
             /\ state = "DONE" => enabled
             /\ s = Axis1!Step(state, wait, hold, result, word, target)
           Goal == /\ s.e \in Axis1!Enable /\ s.o \in Axis1!Output
                   /\ s.e.state = "DONE" => enabled
<1>1. ASSUME NEW state, NEW wait, NEW hold, NEW result, NEW word, NEW target,
             Outcome(state, wait, hold, result, word, target)
      PROVE  Goal
  BY <1>1 DEF Axis1!Step, Axis1!Enable, Axis1!Output
<1>2. /\ e.state \in Axis1!EnableStates /\ e.wait_count \in Nat /\ e.hold_pos \in Int32
      /\ o.TargetPos \in Int32 /\ d.position \in Int32
      /\ e.wait_count + 1 \in Nat
  BY DEF Axis1!Enable, Axis1!Output, Axis1!InputImage
<1>3. /\ {"DISABLE_VOLTAGE", "SHUTDOWN", "SWITCH_ON", "ENABLE_OPERATION", "FAULT_RESET"}
           = Axis1!ControlWords
      /\ {"IDLE", "FAULT_RESET_PULSE", "WAIT_FAULT_CLEAR", "SHUTDOWN", "SWITCH_ON",
          "CSP_PREPARE", "ENABLE_OPERATION", "DONE", "FAILED"} = Axis1!EnableStates
  BY DEF Axis1!ControlWords, Axis1!EnableStates
<1> SUFFICES Goal
  OBVIOUS
<1> HIDE DEF Outcome, s, Goal
<1>4. ASSUME NEW word \in Axis1!ControlWords, NEW target \in Int32, e.state # "DONE",
             NEW limit,
             s = IF e.wait_count + 1 > limit
                 THEN Axis1!Step("FAILED", e.wait_count + 1, e.hold_pos, -1, word, target)
                 ELSE Axis1!Step(e.state, e.wait_count + 1, e.hold_pos, 0, word, target)
      PROVE  Goal
  <2>1. \/ Outcome("FAILED", e.wait_count + 1, e.hold_pos, -1, word, target)
        \/ Outcome(e.state, e.wait_count + 1, e.hold_pos, 0, word, target)
    BY <1>2, <1>3, <1>4 DEF Outcome
  <2> QED BY <1>1, <2>1
<1>5. CASE enabled
  <2> DEFINE hold == IF e.state = "DONE" THEN e.hold_pos ELSE d.position
  <2>1. s = Axis1!Step("DONE", 0, hold, 1, "ENABLE_OPERATION", hold)
    BY <1>5 DEF s, Axis1!ethercat_servo_enable_process, Axis1!AlreadyEnabled,
                Axis1!ModeConfirmed
  <2>2. Outcome("DONE", 0, hold, 1, "ENABLE_OPERATION", hold)
    BY <1>2, <1>3, <1>5, <2>1 DEF Outcome
  <2> QED BY <1>1, <2>2
<1>6. CASE ~enabled /\ e.state = "IDLE"
  <2> DEFINE next == IF d.state = "FAULT" THEN "FAULT_RESET_PULSE" ELSE "SHUTDOWN"
  <2>1. s = Axis1!Step(next, 0, e.hold_pos, 0, "DISABLE_VOLTAGE", o.TargetPos)
    BY <1>6 DEF s, Axis1!ethercat_servo_enable_process, Axis1!EnableIdle
  <2>2. Outcome(next, 0, e.hold_pos, 0, "DISABLE_VOLTAGE", o.TargetPos)
    BY <1>2, <1>3, <2>1 DEF Outcome
  <2> QED BY <1>1, <2>2
<1>7. CASE ~enabled /\ e.state = "FAULT_RESET_PULSE"
  <2>1. s = Axis1!Step("WAIT_FAULT_CLEAR", 0, e.hold_pos, 0, "FAULT_RESET", o.TargetPos)
    BY <1>7 DEF s, Axis1!ethercat_servo_enable_process, Axis1!EnableFaultResetPulse
  <2>2. Outcome("WAIT_FAULT_CLEAR", 0, e.hold_pos, 0, "FAULT_RESET", o.TargetPos)
    BY <1>2, <1>3, <2>1 DEF Outcome
  <2> QED BY <1>1, <2>2
<1>8. CASE ~enabled /\ e.state = "WAIT_FAULT_CLEAR"
  <2>1. s = Axis1!Await(e, o, "DISABLE_VOLTAGE", d.state # "FAULT", "SHUTDOWN",
                        FAULT_CLEAR_CYCLES)
    BY <1>8 DEF s, Axis1!ethercat_servo_enable_process
  <2>2. CASE d.state # "FAULT"
    <3>1. Outcome("SHUTDOWN", 0, e.hold_pos, 0, "DISABLE_VOLTAGE", o.TargetPos)
      BY <1>2, <1>3, <2>1, <2>2 DEF Outcome, Axis1!Await
    <3> QED BY <1>1, <3>1
  <2>3. CASE d.state = "FAULT"
    <3>1. "DISABLE_VOLTAGE" \in Axis1!ControlWords /\ e.state # "DONE"
      BY <1>3, <1>8
    <3> QED BY <1>2, <1>4, <2>1, <2>3, <3>1 DEF Axis1!Await
  <2> QED BY <2>2, <2>3
<1>9. CASE ~enabled /\ e.state = "SHUTDOWN"
  <2>1. s = Axis1!Await(e, o, "SHUTDOWN", d.state = "READY_TO_SWITCH_ON", "SWITCH_ON",
                        STEP_CYCLES)
    BY <1>9 DEF s, Axis1!ethercat_servo_enable_process
  <2>2. CASE d.state = "READY_TO_SWITCH_ON"
    <3>1. Outcome("SWITCH_ON", 0, e.hold_pos, 0, "SHUTDOWN", o.TargetPos)
      BY <1>2, <1>3, <2>1, <2>2 DEF Outcome, Axis1!Await
    <3> QED BY <1>1, <3>1
  <2>3. CASE d.state # "READY_TO_SWITCH_ON"
    <3>1. "SHUTDOWN" \in Axis1!ControlWords /\ e.state # "DONE"
      BY <1>3, <1>9
    <3> QED BY <1>2, <1>4, <2>1, <2>3, <3>1 DEF Axis1!Await
  <2> QED BY <2>2, <2>3
<1>10. CASE ~enabled /\ e.state = "SWITCH_ON"
  <2>1. s = Axis1!EnableSwitchOn(e, o, d)
    BY <1>10 DEF s, Axis1!ethercat_servo_enable_process
  <2>2. CASE d.state = "SWITCHED_ON"
    <3>1. Outcome("CSP_PREPARE", 0, d.position, 0, "SWITCH_ON", d.position)
      BY <1>2, <1>3, <2>1, <2>2 DEF Outcome, Axis1!EnableSwitchOn
    <3> QED BY <1>1, <3>1
  <2>3. CASE d.state # "SWITCHED_ON"
    <3>1. "SWITCH_ON" \in Axis1!ControlWords /\ e.state # "DONE"
      BY <1>3, <1>10
    <3> QED BY <1>2, <1>4, <2>1, <2>3, <3>1 DEF Axis1!EnableSwitchOn, Axis1!Await
  <2> QED BY <2>2, <2>3
<1>11. CASE ~enabled /\ e.state = "CSP_PREPARE"
  <2>1. s = Axis1!EnableCspPrepare(e, d)
    BY <1>11 DEF s, Axis1!ethercat_servo_enable_process
  <2>2. \/ Outcome("ENABLE_OPERATION", 0, d.position, 0, "SWITCH_ON", d.position)
        \/ Outcome("FAILED", e.wait_count + 1, d.position, -1, "SWITCH_ON", d.position)
        \/ Outcome("CSP_PREPARE", e.wait_count + 1, d.position, 0, "SWITCH_ON", d.position)
    BY <1>2, <1>3, <2>1 DEF Outcome, Axis1!EnableCspPrepare
  <2> QED BY <1>1, <2>2
<1>12. CASE ~enabled /\ e.state = "ENABLE_OPERATION"
  <2>1. s = Axis1!EnableOperation(e)
    BY <1>12 DEF s, Axis1!ethercat_servo_enable_process
  <2>2. "ENABLE_OPERATION" \in Axis1!ControlWords /\ e.state # "DONE"
    BY <1>3, <1>12
  <2> QED BY <1>2, <1>4, <2>1, <2>2 DEF Axis1!EnableOperation, Axis1!Await
<1>13. CASE ~enabled /\ e.state = "DONE"
  <2>1. s = Axis1!Step("IDLE", 0, e.hold_pos, 0, "DISABLE_VOLTAGE", o.TargetPos)
    BY <1>13 DEF s, Axis1!ethercat_servo_enable_process
  <2>2. Outcome("IDLE", 0, e.hold_pos, 0, "DISABLE_VOLTAGE", o.TargetPos)
    BY <1>2, <1>3, <2>1 DEF Outcome
  <2> QED BY <1>1, <2>2
<1>14. CASE ~enabled /\ e.state = "FAILED"
  <2>1. s = Axis1!Step("FAILED", e.wait_count, e.hold_pos, -1, "DISABLE_VOLTAGE", o.TargetPos)
    BY <1>14 DEF s, Axis1!ethercat_servo_enable_process
  <2>2. Outcome("FAILED", e.wait_count, e.hold_pos, -1, "DISABLE_VOLTAGE", o.TargetPos)
    BY <1>2, <1>3, <2>1 DEF Outcome
  <2> QED BY <1>1, <2>2
<1> QED
  BY <1>2, <1>3, <1>5, <1>6, <1>7, <1>8, <1>9, <1>10, <1>11, <1>12, <1>13, <1>14

-----------------------------------------------------------------------------
(* The scheduler in the loop.                                              *)

(* The input image of axis 1 is one the scheduler is specified for.        *)
LEMMA ImageType ==
  ASSUME NEW input \in Axis1!InputImage
  PROVE  Image(input) \in InputImage /\ Image(input).CurrentPosition = input.position
<1>1. input.position \in Int32
  BY DEF Axis1!InputImage
<1> QED BY <1>1 DEF Image, InputImage

(* What the buffer of a cycle's index holds after it.                      *)
LEMMA FrameType ==
  ASSUME LoopTypeOK, NEW outcome \in Axis1!Outcomes
  PROVE  /\ Axis1!FrameAfter(outcome) \in Frame
         /\ outcome = "complete" =>
              /\ Axis1!FrameAfter(outcome)[1].position = drive.position
              /\ Axis1!FrameAfter(outcome)[1].state = drive.state
         /\ outcome = "incomplete" => Axis1!FrameAfter(outcome) = Incomplete
         /\ outcome = "lost" => Axis1!FrameAfter(outcome) = rxbuf[idx]
<1> DEFINE fresh == [a \in {1} |-> Axis1!Inputs(drive)]
<1>1. /\ Axis1!Inputs(drive) \in Axis1!InputImage
      /\ Axis1!Inputs(drive).position = drive.position
      /\ Axis1!Inputs(drive).state = drive.state
  BY DEF LoopTypeOK, Axis1!Drive, Axis1!InputImage, Axis1!Inputs
<1>2. fresh \in [{1} -> Axis1!InputImage] /\ fresh[1] = Axis1!Inputs(drive)
  BY <1>1
<1>3. outcome = "complete" => Axis1!FrameAfter(outcome) = fresh
  BY DEF Axis1!FrameAfter
<1>4. rxbuf[idx] \in Frame
  BY DEF LoopTypeOK
<1>5. outcome = "incomplete" => Axis1!FrameAfter(outcome) = Incomplete
  BY DEF Axis1!FrameAfter
<1>6. outcome = "lost" => Axis1!FrameAfter(outcome) = rxbuf[idx]
  BY DEF Axis1!FrameAfter
<1> HIDE DEF fresh
<1> QED BY <1>1, <1>2, <1>3, <1>4, <1>5, <1>6 DEF Frame, Axis1!Outcomes

(* What an exchange leaves in the drive and in the buffers.                *)
LEMMA ExchangeType ==
  ASSUME LoopTypeOK, NEW reached \in BOOLEAN, NEW frame \in Frame, Exchange(reached, frame)
  PROVE  /\ drive' \in Axis1!Drive
         /\ rxbuf' \in [1..Buffers -> Frame] /\ idx' \in 1..Buffers
         /\ \A b \in 1..Buffers : rxbuf'[b] \in {rxbuf[b], frame}
<1> USE LoopAssumption DEF LoopAssumption
<1>1. drive' \in Axis1!Drive
  BY ReceivedType DEF Exchange, LoopTypeOK
<1>2. rxbuf' \in [1..Buffers -> Frame] /\ \A b \in 1..Buffers : rxbuf'[b] \in {rxbuf[b], frame}
  BY DEF Exchange, LoopTypeOK
<1>3. idx' \in 1..Buffers
  BY DEF Exchange, LoopTypeOK
<1> QED BY <1>1, <1>2, <1>3

(* An API call leaves the command and the initialisation alone.            *)
LEMMA ApplicationLeaves ==
  ASSUME Application
  PROVE  UNCHANGED <<s_control, s_motion_initialized>>
<1>1. ASSUME NEW request, motion_request_submit(request)
      PROVE  UNCHANGED <<s_control, s_motion_initialized>>
  BY <1>1 DEF motion_request_submit
<1>2. ASSUME NEW action, PostAction(action)
      PROVE  UNCHANGED <<s_control, s_motion_initialized>>
  BY <1>2 DEF PostAction
<1> QED BY <1>1, <1>2
  DEF Application, ethercat_motion_motor_params_set, ethercat_motion_command_set,
      ethercat_motion_mechanical_zero_return, ethercat_motion_software_zero_return,
      ethercat_motion_recip_start, ethercat_motion_software_zero_set,
      ethercat_motion_stop, ethercat_motion_continue, ethercat_motion_abort

(* Every step of the loop is a step of the scheduler or none.              *)
LEMMA LoopStepsScheduler ==
  ASSUME LoopTypeOK, [LoopNext]_loopvars
  PROVE  [Next]_vars
<1>2. ASSUME NEW reached \in BOOLEAN, NEW outcome \in Axis1!Outcomes,
             NEW cmd \in Int32, NEW plan \in 0..MaxTotalCycles,
             GoodCycle(reached, outcome, cmd, plan)
      PROVE  Next
  <2> DEFINE input == Axis1!FrameAfter(outcome)[1]
  <2>1. input \in Axis1!InputImage
    BY <1>2, FrameType DEF GoodCycle, Axis1!pdo_ok, Frame
  <2>2. LoopBody(input, cmd, plan)
    BY <1>2 DEF GoodCycle
  <2> HIDE DEF input
  <2>3. Image(input) \in InputImage
    BY <2>1, ImageType
  <2> QED BY <2>2, <2>3 DEF LoopBody, Next, PdoCycle
<1>3. ASSUME NEW reached \in BOOLEAN, NEW outcome \in Axis1!Outcomes,
             BadCycle(reached, outcome)
      PROVE  Next
  BY <1>3 DEF BadCycle, Next, PdoCycle
<1>4. ASSUME \/ DriveObeys \/ DriveFaults \/ DriveTakesMode
             \/ \E p \in Int32 : DriveMoves(p)
      PROVE  UNCHANGED vars
  BY <1>4 DEF DriveObeys, DriveFaults, DriveTakesMode, DriveMoves, DriveChange
<1> QED BY <1>2, <1>3, <1>4 DEF LoopNext, loopvars, Next

-----------------------------------------------------------------------------
(* The loop starts with everything typed and the sequence idle.            *)
LEMMA InitLoopIInv == LoopInit => LoopIInv
<1> SUFFICES ASSUME LoopInit PROVE LoopIInv
  OBVIOUS
<1>1. PICK hold \in Int32 :
        /\ Init
        /\ s_enable = [state |-> "IDLE", wait_count |-> 0, hold_pos |-> hold, result |-> 0]
        /\ output = [ControlWord |-> "DISABLE_VOLTAGE", TargetPos |-> hold]
        /\ drive \in [state : {"SWITCH_ON_DISABLED", "FAULT"}, position : Int32,
                      csp : BOOLEAN, word : {"DISABLE_VOLTAGE"}, target : {hold},
                      edge : {FALSE}]
        /\ rxbuf \in [1..Buffers -> {Incomplete} \cup
                       [{1} -> [state : {"SWITCH_ON_DISABLED", "FAULT"},
                                position : Int32, csp : BOOLEAN]]]
        /\ idx = 1
  BY DEF LoopInit
<1>2. s_enable \in Axis1!Enable /\ s_enable.state # "DONE"
  BY <1>1 DEF Axis1!Enable, Axis1!EnableStates
<1>3. output \in Axis1!Output
  BY <1>1 DEF Axis1!Output, Axis1!ControlWords
<1>4. drive \in Axis1!Drive
  BY <1>1 DEF Axis1!Drive, Axis1!DriveStates, Axis1!ControlWords
<1> DEFINE Off == [state : {"SWITCH_ON_DISABLED", "FAULT"}, position : Int32, csp : BOOLEAN]
<1>5. [{1} -> Off] \subseteq [{1} -> Axis1!InputImage]
  BY DEF Axis1!InputImage, Axis1!DriveStates
<1>6. rxbuf \in [1..Buffers -> Frame]
  BY <1>1, <1>5 DEF Frame
<1>7. ASSUME NEW b \in 1..Buffers PROVE SeenBefore(rxbuf[b])
  <2>1. rxbuf[b] = Incomplete \/ rxbuf[b] \in [{1} -> Off]
    BY <1>1
  <2>2. rxbuf[b] # Incomplete => rxbuf[b][1].state # "OPERATION_ENABLED"
    BY <2>1
  <2> QED BY <2>2 DEF SeenBefore
<1>8. idx \in 1..Buffers
  BY <1>1, LoopAssumption DEF LoopAssumption
<1> QED BY <1>1, <1>2, <1>3, <1>4, <1>6, <1>7, <1>8, InitIInv
        DEF LoopIInv, LoopTypeOK, CommandOwnsTarget, BuffersSeen

(* A change of the drive alone keeps the invariant.                        *)
LEMMA DriveChangeLoopIInv ==
  ASSUME LoopIInv, IInv', NEW d \in Axis1!Drive, DriveChange(d)
  PROVE  LoopIInv'
BY DEF LoopIInv, LoopTypeOK, CommandOwnsTarget, BuffersSeen, SeenBefore, DriveChange, vars

(* The state a drive obeys to is a state.                                  *)
LEMMA ObeyedType ==
  ASSUME NEW d \in Axis1!Drive
  PROVE  Axis1!Obeyed(d) \in Axis1!DriveStates
BY DEF Axis1!Obeyed, Axis1!DriveStates, Axis1!Drive

(* A cycle with a complete frame, new or old: the sequence writes the      *)
(* image, then the scheduler its command over it.                          *)
LEMMA GoodCycleLoopIInv ==
  ASSUME LoopIInv, IInv', NEW reached \in BOOLEAN, NEW outcome \in Axis1!Outcomes,
         NEW cmd \in Int32, NEW plan \in 0..MaxTotalCycles,
         GoodCycle(reached, outcome, cmd, plan)
  PROVE  LoopIInv'
<1> USE MotionAssumption DEF MotionAssumption
<1> DEFINE frame == Axis1!FrameAfter(outcome)
           input == frame[1]
           s == EnableStep(input)
<1>0. frame \in Frame /\ input \in Axis1!InputImage
  BY FrameType DEF LoopIInv, GoodCycle, Axis1!pdo_ok, Frame
<1>1. Exchange(reached, frame) /\ LoopBody(input, cmd, plan)
  BY DEF GoodCycle
<1> HIDE DEF frame
<1>2. /\ s.e \in Axis1!Enable /\ s.o \in Axis1!Output
      /\ s.e.state = "DONE" => input.state = "OPERATION_ENABLED"
  <2> HIDE DEF input
  <2> QED BY <1>0, EnableProcessType DEF LoopIInv, LoopTypeOK, EnableStep
<1>3. s_enable' = s.e
  BY <1>1 DEF LoopBody
<1> HIDE DEF s
<1>4. /\ drive' \in Axis1!Drive
      /\ rxbuf' \in [1..Buffers -> Frame] /\ idx' \in 1..Buffers
      /\ \A b \in 1..Buffers : rxbuf'[b] \in {rxbuf[b], frame}
  BY <1>0, <1>1, ExchangeType DEF LoopIInv
<1>5. CASE input.state = "OPERATION_ENABLED"
  <2>1. /\ ethercat_motion_process(Image(input), cmd, plan)
        /\ output' = [s.o EXCEPT !.TargetPos = TargetPos']
    BY <1>1, <1>5 DEF LoopBody, s
  <2>2. TargetPos' = Saturate(s_control'.command_counts) /\ s_motion_initialized'
    BY <2>1 DEF ethercat_motion_process, motion_target_output_write
  <2>3. s_control'.command_counts \in Int32 /\ TargetPos' \in Int32
    BY DEF IInv, TypeOK, Control
  <2>4. TargetPos' = s_control'.command_counts
    BY <2>2, <2>3 DEF Saturate, Int32
  <2>5. output' \in Axis1!Output /\ output'.TargetPos = TargetPos'
    BY <1>2, <2>1, <2>3 DEF Axis1!Output
  <2>6. BuffersSeen'
    BY <2>2 DEF BuffersSeen, SeenBefore
  <2> QED BY <1>2, <1>3, <1>4, <2>4, <2>5, <2>6 DEF LoopIInv, LoopTypeOK, CommandOwnsTarget
<1>6. CASE input.state # "OPERATION_ENABLED"
  <2>1. output' = s.o /\ s_motion_initialized' = s_motion_initialized
    BY <1>1, <1>6 DEF LoopBody, s, InputRefreshed
  <2>2. BuffersSeen'
    BY <1>4, <1>6, <2>1 DEF LoopIInv, BuffersSeen, SeenBefore
  <2> QED BY <1>2, <1>3, <1>4, <1>6, <2>1, <2>2 DEF LoopIInv, LoopTypeOK, CommandOwnsTarget
<1> QED BY <1>5, <1>6

(* Every step of the loop keeps the invariant.                             *)
LEMMA NextLoopIInv ==
  ASSUME LoopIInv, [LoopNext]_loopvars
  PROVE  LoopIInv'
<1>1. IInv'
  BY LoopStepsScheduler, NextIInv DEF LoopIInv
<1>2. drive \in Axis1!Drive /\ output \in Axis1!Output
  BY DEF LoopIInv, LoopTypeOK
<1>3. ASSUME Application, UNCHANGED <<s_enable, output, drive, rxbuf, idx>>
      PROVE  LoopIInv'
  BY <1>1, <1>3, ApplicationLeaves
     DEF LoopIInv, LoopTypeOK, CommandOwnsTarget, BuffersSeen, SeenBefore
<1>4. ASSUME NEW reached \in BOOLEAN, NEW outcome \in Axis1!Outcomes,
             BadCycle(reached, outcome)
      PROVE  LoopIInv'
  <2>1. Exchange(reached, Incomplete) /\ Incomplete \in Frame
    BY <1>4 DEF BadCycle, Axis1!pdo_ok, Frame
  <2>2. /\ drive' \in Axis1!Drive
        /\ rxbuf' \in [1..Buffers -> Frame] /\ idx' \in 1..Buffers
        /\ \A b \in 1..Buffers : rxbuf'[b] \in {rxbuf[b], Incomplete}
    BY <2>1, ExchangeType DEF LoopIInv
  <2>3. UNCHANGED <<s_enable, output, s_control, s_motion_initialized>>
    BY <1>4 DEF BadCycle, InputRefreshed
  <2>4. BuffersSeen'
    BY <2>2, <2>3 DEF LoopIInv, BuffersSeen, SeenBefore
  <2> QED BY <1>1, <2>2, <2>3, <2>4 DEF LoopIInv, LoopTypeOK, CommandOwnsTarget
<1>5. ASSUME DriveObeys PROVE LoopIInv'
  <2>1. [drive EXCEPT !.state = Axis1!Obeyed(drive), !.edge = FALSE] \in Axis1!Drive
    BY <1>2, ObeyedType DEF Axis1!Drive
  <2> QED BY <1>1, <1>5, <2>1, DriveChangeLoopIInv DEF DriveObeys
<1>6. ASSUME DriveFaults PROVE LoopIInv'
  <2>1. [drive EXCEPT !.state = "FAULT", !.edge = FALSE] \in Axis1!Drive
    BY <1>2 DEF Axis1!Drive, Axis1!DriveStates
  <2> QED BY <1>1, <1>6, <2>1, DriveChangeLoopIInv DEF DriveFaults
<1>7. ASSUME DriveTakesMode PROVE LoopIInv'
  <2>1. [drive EXCEPT !.csp = TRUE] \in Axis1!Drive
    BY <1>2 DEF Axis1!Drive
  <2> QED BY <1>1, <1>7, <2>1, DriveChangeLoopIInv DEF DriveTakesMode
<1>8. ASSUME NEW p \in Int32, DriveMoves(p) PROVE LoopIInv'
  <2>1. [drive EXCEPT !.position = p] \in Axis1!Drive
    BY <1>2 DEF Axis1!Drive
  <2> QED BY <1>1, <1>8, <2>1, DriveChangeLoopIInv DEF DriveMoves
<1>9. ASSUME UNCHANGED loopvars PROVE LoopIInv'
  BY <1>1, <1>9 DEF loopvars, vars, LoopIInv, LoopTypeOK, CommandOwnsTarget,
                    BuffersSeen, SeenBefore
<1> QED BY <1>1, <1>3, <1>4, <1>5, <1>6, <1>7, <1>8, <1>9, GoodCycleLoopIInv DEF LoopNext

-----------------------------------------------------------------------------
(* The theorems.                                                           *)

(* LoopIInv holds in every reachable state of the loop.                    *)
THEOREM LoopIInvariant == LoopSpec => []LoopIInv
<1>1. LoopInit => LoopIInv
  BY InitLoopIInv
<1>2. LoopIInv /\ [LoopNext]_loopvars => LoopIInv'
  BY NextLoopIInv
<1> QED BY <1>1, <1>2, PTL DEF LoopSpec

(* The loop of ethercat_master_scan_task calls the scheduler only as its   *)
(* own specification allows: whatever the enable sequence, the drive and   *)
(* the exchange do, the variables of ethercat_motion.c behave like         *)
(* EthercatMotion, and every theorem about it holds in the loop.           *)
THEOREM LoopRunsScheduler == LoopSpec => Spec
<1>1. LoopInit => Init
  BY DEF LoopInit
<1>2. LoopIInv /\ [LoopNext]_loopvars => [Next]_vars
  BY LoopStepsScheduler DEF LoopIInv
<1> QED BY <1>1, <1>2, LoopIInvariant, PTL DEF LoopSpec, Spec

(* So the service ethercat_motion.h promises is what the loop offers, over *)
(* faults, lost frames and renewed enabling.                               *)
THEOREM LoopOffersService == LoopSpec => ImplementsService
BY LoopRunsScheduler, SchedulerImplementsService, PTL

(* The scheduler's command wins in the output image: once the enable       *)
(* sequence is done, the position it holds is never what is sent.          *)
THEOREM SchedulerOwnsTarget == LoopSpec => []CommandOwnsTarget
<1>1. LoopIInv => CommandOwnsTarget
  BY DEF LoopIInv
<1> QED BY <1>1, LoopIInvariant, PTL

(* The first enabled cycle without a waiting request sends the position    *)
(* the drive reports: the initialisation of the scheduler aligns its       *)
(* command before anything is written, and a replayed image is never the   *)
(* first enabled one.                                                      *)
THEOREM FirstEnableIsStill == LoopSpec => FirstEnableHolds
<1>1. ASSUME LoopIInv, [LoopNext]_loopvars
      PROVE  [~s_motion_initialized /\ s_motion_initialized' /\ ~s_request.pending =>
                output'.TargetPos = drive.position]_loopvars
  <2> SUFFICES ASSUME LoopNext, ~s_motion_initialized, s_motion_initialized',
                      ~s_request.pending
               PROVE  output'.TargetPos = drive.position
    BY <1>1
  <2> USE MotionAssumption DEF MotionAssumption
  <2>1. ASSUME \/ DriveObeys \/ DriveFaults \/ DriveTakesMode
               \/ \E p \in Int32 : DriveMoves(p)
        PROVE  s_motion_initialized' = s_motion_initialized
    BY <2>1 DEF DriveObeys, DriveFaults, DriveTakesMode, DriveMoves, DriveChange, vars
  <2>2. ASSUME NEW reached \in BOOLEAN, NEW outcome \in Axis1!Outcomes,
               BadCycle(reached, outcome)
        PROVE  s_motion_initialized' = s_motion_initialized
    BY <2>2 DEF BadCycle, InputRefreshed
  <2>3. PICK reached \in BOOLEAN, outcome \in Axis1!Outcomes,
             cmd \in Int32, plan \in 0..MaxTotalCycles :
          GoodCycle(reached, outcome, cmd, plan)
    BY <2>1, <2>2, ApplicationLeaves DEF LoopNext
  <2> DEFINE frame == Axis1!FrameAfter(outcome)
             input == frame[1]
  <2>4. LoopBody(input, cmd, plan) /\ frame # Incomplete
    BY <2>3 DEF GoodCycle, Axis1!pdo_ok
  <2>5. input \in Axis1!InputImage
    BY <1>1, <2>4, FrameType DEF LoopIInv, Frame
  <2>6. input.state = "OPERATION_ENABLED"
    BY <2>4 DEF LoopBody, InputRefreshed
  <2>7. outcome # "lost"
    <3>1. outcome = "lost" => frame = rxbuf[idx]
      BY <1>1, FrameType DEF LoopIInv
    <3>2. SeenBefore(rxbuf[idx])
      BY <1>1 DEF LoopIInv, LoopTypeOK, BuffersSeen
    <3> HIDE DEF frame
    <3> QED BY <2>4, <2>6, <3>1, <3>2 DEF SeenBefore
  <2>8. input.position = drive.position
    BY <1>1, <2>4, <2>7, FrameType DEF LoopIInv, Axis1!Outcomes
  <2> HIDE DEF input, frame
  <2>9. /\ ethercat_motion_process(Image(input), cmd, plan)
        /\ output' = [EnableStep(input).o EXCEPT !.TargetPos = TargetPos']
    BY <2>4, <2>6 DEF LoopBody
  <2>10. Image(input).CurrentPosition = drive.position /\ drive.position \in Int32
    BY <1>1, <2>5, <2>8, ImageType DEF LoopIInv, LoopTypeOK, Axis1!Drive
  <2> DEFINE m == MotionAligned(drive.position)
  <2>11. m.control.busy = s_control.busy /\ m.control.command_counts = drive.position
    BY <1>1, <2>10 DEF MotionAligned, LoopIInv, IInv, TypeOK, Control
  <2>12. ~s_control.busy
    BY <1>1 DEF LoopIInv, IInv
  <2> HIDE DEF m
  <2>13. \A c, p : MotionAdvance(m, drive.position, c, p) = m
    BY <2>11, <2>12 DEF MotionAdvance
  <2>14. TargetPos' = Saturate(m.control.command_counts)
    BY <2>9, <2>10, <2>13 DEF ethercat_motion_process, motion_request_fetch,
                              motion_target_output_write, m
  <2>15. TargetPos' = drive.position
    BY <2>10, <2>11, <2>14 DEF Saturate, Int32
  <2>16. EnableStep(input).o \in Axis1!Output
    BY <1>1, <2>5, EnableProcessType DEF LoopIInv, LoopTypeOK, EnableStep
  <2> QED BY <2>9, <2>15, <2>16 DEF Axis1!Output
<1> QED BY <1>1, LoopIInvariant, PTL DEF LoopSpec, FirstEnableHolds

-----------------------------------------------------------------------------
(* OperatorPanel with every other caller and any drive: a step of the main *)
(* thread, or of the scheduler and whoever else calls it, the host         *)
(* commands included.                                                      *)
PanelNext == MainThread \/ (Next /\ UNCHANGED panel)

PanelSpec == PanelInit /\ [][PanelNext]_pvars

(* The calls of the main thread are calls of the scheduler, or refused.    *)
LEMMA MainThreadIInv ==
  ASSUME IInv, MainThread
  PROVE  IInv'
<1>1. CASE UNCHANGED vars
  BY <1>1, NextIInv
<1>2. CASE ethercat_motion_recip_start(KEY1_OFFSET_MM, KEY1_VELOCITY_MM_S,
                                       KEY1_FIRST_INTERVAL_MS, KEY1_SECOND_INTERVAL_MS,
                                       RECIP_FOREVER)
  <2> DEFINE request == [EmptyRequest EXCEPT !.mode = "RECIP",
                                             !.position_mm = KEY1_OFFSET_MM,
                                             !.velocity_mm_s = KEY1_VELOCITY_MM_S,
                                             !.first_interval_ms = KEY1_FIRST_INTERVAL_MS,
                                             !.second_interval_ms = KEY1_SECOND_INTERVAL_MS,
                                             !.repeat_count = RECIP_FOREVER]
  <2>1. RECIP_FOREVER \in 0..(UINT32_MODULUS - 1)
    BY MotionAssumption DEF MotionAssumption, RECIP_FOREVER
  <2>2. request \in Request
    BY <2>1, EmptyRequestType, PanelAssumption DEF PanelAssumption, Request, Modes
  <2>3. request.action = "START" /\ request.mode = "RECIP"
    BY DEF EmptyRequest
  <2>4. motion_request_submit(request) /\ s_motor_params # NoParams
    BY <1>2 DEF IInv, ethercat_motion_recip_start, motion_request_validate
  <2> HIDE DEF request
  <2> QED BY <2>2, <2>3, <2>4, SubmitIInv
<1>3. CASE ethercat_motion_stop \/ ethercat_motion_continue
  BY <1>3, ApplicationIInv DEF Application
<1> QED BY <1>1, <1>2, <1>3
        DEF MainThread, ScanKey1, ScanKey2, Key2Call, CallStop, CallContinue,
            CallRecipStart, Refused

(* The keys leave the scheduler's invariant intact.                        *)
LEMMA PanelIInvariant == PanelSpec => []IInv
<1>1. PanelInit => IInv
  BY InitIInv DEF PanelInit
<1>2. ASSUME IInv, [PanelNext]_pvars PROVE IInv'
  <2>1. CASE MainThread
    BY <1>2, <2>1, MainThreadIInv
  <2>2. CASE Next \/ UNCHANGED vars
    BY <1>2, <2>2, NextIInv
  <2> QED BY <1>2, <2>1, <2>2 DEF PanelNext, pvars
<1> QED BY <1>1, <1>2, PTL DEF PanelSpec

(* KEY2's stop is refused only for a request that stops the axis too: the  *)
(* slot never holds a START or a CONTINUE while the axis moves.            *)
THEOREM StaleStopTakesEffect == PanelSpec => Key2StopTakesEffect
<1> DEFINE Stops == s_request'.pending /\ s_request'.action \in {"PAUSE", "ABORT"}
<1>1. ASSUME IInv, [PanelNext]_pvars, main_at = "STOP", main_at' # "STOP",
             s_control'.busy, ~s_control'.paused
      PROVE  Stops
  <2>1. Key2Call
    BY <1>1 DEF PanelNext, pvars, panel, MainThread, ScanKey1, ScanKey2
  <2>2. CallStop
    BY <1>1, <2>1 DEF Key2Call
  <2>3. CASE ethercat_motion_stop
    BY <2>3 DEF ethercat_motion_stop, PostAction, EmptyRequest
  <2>4. CASE Refused(SlotFree /\ s_control.busy /\ ~s_control.paused)
    <3>1. /\ s_request' = s_request /\ s_control' = s_control
          /\ ~(SlotFree /\ s_control.busy /\ ~s_control.paused)
      BY <2>4 DEF Refused, vars
    <3>2. s_request.pending
      BY <1>1, <3>1 DEF SlotFree
    <3>3. s_request.action \in {"START", "PAUSE", "CONTINUE", "ABORT"}
      BY <1>1 DEF IInv, TypeOK, Request
    <3>4. s_request.action # "START" /\ s_request.action # "CONTINUE"
      BY <1>1, <3>1, <3>2 DEF IInv, RequestStillValid
    <3> QED BY <3>1, <3>2, <3>3, <3>4
  <2> QED BY <2>2, <2>3, <2>4 DEF CallStop
<1>2. IInv /\ [PanelNext]_pvars =>
        [main_at = "STOP" /\ main_at' # "STOP"
           /\ s_control'.busy /\ ~s_control'.paused => Stops]_pvars
  BY <1>1
<1> QED BY <1>2, PanelIInvariant, PTL DEF PanelSpec, Key2StopTakesEffect

=============================================================================
