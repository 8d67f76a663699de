------------------------ MODULE Cia402Enable_proofs -------------------------
(***************************************************************************)
(* Proofs about Cia402Enable, for every number of axes, every set of       *)
(* positions, every value of the limits and both modes of operation.       *)
(***************************************************************************)
EXTENDS Cia402Enable, TLAPS

(* The drive is not switched on and no control word the sequence then      *)
(* sends will change that but SHUTDOWN.                                    *)
Off == {"SWITCH_ON_DISABLED", "FAULT"}

(* How far the drive can be, and which words can be in the output image    *)
(* and in the drive, in each state of the sequence.                        *)
Stage(e, o, d) ==
  /\ e.state \in {"IDLE", "FAULT_RESET_PULSE", "WAIT_FAULT_CLEAR"} =>
       /\ d.state \in Off
       /\ o.ControlWord \in {"DISABLE_VOLTAGE", "FAULT_RESET"}
       /\ d.word \in {"DISABLE_VOLTAGE", "FAULT_RESET", "ENABLE_OPERATION"}
  /\ e.state = "SHUTDOWN" =>
       /\ d.state \in Off \cup {"READY_TO_SWITCH_ON"}
       /\ o.ControlWord \in {"DISABLE_VOLTAGE", "SHUTDOWN"}
       /\ d.word \in {"DISABLE_VOLTAGE", "FAULT_RESET", "SHUTDOWN"}
       /\ d.state = "READY_TO_SWITCH_ON" => d.word = "SHUTDOWN"
       /\ d.word = "SHUTDOWN" => o.ControlWord = "SHUTDOWN"
  /\ e.state = "SWITCH_ON" =>
       /\ d.state \in Off \cup {"READY_TO_SWITCH_ON", "SWITCHED_ON"}
       /\ o.ControlWord \in {"SHUTDOWN", "SWITCH_ON"}
       /\ d.word \in {"SHUTDOWN", "SWITCH_ON"}
       /\ d.state = "SWITCHED_ON" => d.word = "SWITCH_ON"
       /\ d.word = "SWITCH_ON" => o.ControlWord = "SWITCH_ON"
  /\ e.state = "CSP_PREPARE" =>
       /\ d.state \in Off \cup {"SWITCHED_ON"}
       /\ o.ControlWord = "SWITCH_ON" /\ d.word = "SWITCH_ON"
  /\ e.state = "ENABLE_OPERATION" =>
       /\ d.state \in Off \cup {"SWITCHED_ON", "OPERATION_ENABLED"}
       /\ o.ControlWord \in {"SWITCH_ON", "ENABLE_OPERATION"}
       /\ d.word \in {"SWITCH_ON", "ENABLE_OPERATION"}
       /\ d.state = "OPERATION_ENABLED" => d.word = "ENABLE_OPERATION"
       /\ d.word = "ENABLE_OPERATION" => o.ControlWord = "ENABLE_OPERATION"
  /\ e.state = "DONE" =>
       /\ d.state \in Off \cup {"OPERATION_ENABLED"}
       /\ o.ControlWord = "ENABLE_OPERATION"
       /\ d.word \in {"DISABLE_VOLTAGE", "ENABLE_OPERATION"}
  /\ e.state = "FAILED" =>
       /\ o.ControlWord # "FAULT_RESET"
       /\ d.state = "READY_TO_SWITCH_ON" =>
            o.ControlWord # "ENABLE_OPERATION" /\ d.word # "ENABLE_OPERATION"
       /\ d.word = "SHUTDOWN" => o.ControlWord # "ENABLE_OPERATION"
       /\ d.word = "ENABLE_OPERATION" =>
            o.ControlWord \in {"DISABLE_VOLTAGE", "ENABLE_OPERATION"}
       /\ d.state = "OPERATION_ENABLED" =>
            /\ o.ControlWord \in {"DISABLE_VOLTAGE", "ENABLE_OPERATION"}
            /\ d.word \in {"DISABLE_VOLTAGE", "ENABLE_OPERATION"}

(* What must be among the positions R reported by a drive that is switched *)
(* on, because it may become the target it is enabled with: the target it  *)
(* holds or will be sent with ENABLE_OPERATION, and the position the       *)
(* sequence is about to send with it.                                      *)
TargetsReported(e, o, d, R) ==
  d.state = "SWITCHED_ON" =>
    /\ d.word = "ENABLE_OPERATION" => d.target \in R
    /\ o.ControlWord = "ENABLE_OPERATION" => o.TargetPos \in R
    /\ e.state = "ENABLE_OPERATION" => e.hold_pos \in R

(* The cycles an axis has waited: the step that passes the limit fails.    *)
WaitBounded(e) ==
  e.wait_count <= IF e.state = "FAILED" THEN STEP_CYCLES + 1 ELSE STEP_CYCLES

(* Sequence and drive of an axis are in step.                              *)
AxisInv(e, o, d, R) == Stage(e, o, d) /\ TargetsReported(e, o, d, R)

(* The inductive invariant: an axis is in step unless an image was         *)
(* replayed.                                                               *)
IInv ==
  /\ TypeOK
  /\ \A a \in Axis :
       /\ WaitBounded(s_enable[a])
       /\ ~replayed[a] => AxisInv(s_enable[a], output[a], drive[a], reported[a])

-----------------------------------------------------------------------------
(* The operators of one axis.                                              *)

(* What a drive holds after it received an output image.                   *)
LEMMA ReceivedType ==
  ASSUME NEW d \in Drive, NEW o \in Output
  PROVE  /\ Received(d, o) \in Drive
         /\ Received(d, o).state = d.state
         /\ Received(d, o).position = d.position
         /\ Received(d, o).word = o.ControlWord
         /\ Received(d, o).target = o.TargetPos
<1> DEFINE edge == d.edge \/ (o.ControlWord = "FAULT_RESET" /\ d.word # "FAULT_RESET")
<1>1. edge \in BOOLEAN
  BY DEF Drive
<1>2. Received(d, o) = [d EXCEPT !.word = o.ControlWord, !.target = o.TargetPos,
                                 !.edge = edge]
  BY DEF Received
<1>3. o.ControlWord \in ControlWords /\ o.TargetPos \in Position
  BY DEF Output
<1> HIDE DEF edge
<1> QED BY <1>1, <1>2, <1>3 DEF Drive

(* Waiting once more: the axis waits or fails, its count bounded by the    *)
(* limit, the position it holds and its target untouched.                  *)
LEMMA WaitsOrFails ==
  ASSUME NEW e \in Enable, NEW target \in Position, NEW word \in ControlWords,
         NEW limit \in Nat, limit <= STEP_CYCLES, WaitBounded(e), e.state # "FAILED",
         NEW s, s = IF e.wait_count + 1 > limit
                    THEN Step("FAILED", e.wait_count + 1, e.hold_pos, -1, word, target)
                    ELSE Step(e.state, e.wait_count + 1, e.hold_pos, 0, word, target)
  PROVE  /\ s.e \in Enable /\ s.o \in Output /\ WaitBounded(s.e)
         /\ s.e.state \in {e.state, "FAILED"} /\ s.e.hold_pos = e.hold_pos
         /\ s.o.ControlWord = word /\ s.o.TargetPos = target
<1> USE EnableAssumption DEF EnableAssumption
<1> DEFINE wait == e.wait_count + 1
           Outcome(state) ==
             /\ s.e \in Enable /\ s.o \in Output
             /\ s.e.state = state /\ s.e.wait_count = wait /\ s.e.hold_pos = e.hold_pos
             /\ s.o.ControlWord = word /\ s.o.TargetPos = target
<1>1. /\ e.hold_pos \in Position /\ e.state \in EnableStates
      /\ wait \in Nat /\ "FAILED" \in EnableStates /\ wait <= STEP_CYCLES + 1
  BY DEF Enable, EnableStates, WaitBounded
<1>2. \/ s = Step("FAILED", wait, e.hold_pos, -1, word, target)
      \/ s = Step(e.state, wait, e.hold_pos, 0, word, target) /\ ~(wait > limit)
  OBVIOUS
<1> HIDE DEF wait
<1>3. CASE s = Step("FAILED", wait, e.hold_pos, -1, word, target)
  <2>1. Outcome("FAILED")
    BY <1>1, <1>3 DEF Step, Enable, Output
  <2> QED BY <1>1, <2>1 DEF WaitBounded
<1>4. CASE s = Step(e.state, wait, e.hold_pos, 0, word, target) /\ ~(wait > limit)
  <2>1. Outcome(e.state)
    BY <1>1, <1>4 DEF Step, Enable, Output
  <2>2. wait <= STEP_CYCLES
    BY <1>1, <1>4
  <2> QED BY <1>1, <2>1, <2>2 DEF WaitBounded
<1> QED BY <1>2, <1>3, <1>4

(* The positions reported after a complete cycle that saw d.               *)
Seen(d, R) ==
  IF d.state \in {"SWITCHED_ON", "OPERATION_ENABLED"} THEN R \cup {d.position} ELSE {}

(* The sequence of an axis in a cycle that saw d: it keeps its types and   *)
(* its bounds whatever d is, and if d is what the drive really is, and the *)
(* drive receives the image of the cycle before, they stay in step.        *)
LEMMA ProcessInv ==
  ASSUME NEW e \in Enable, NEW o \in Output, NEW d \in Drive, NEW R \in SUBSET Position,
         WaitBounded(e)
  PROVE  LET s == ethercat_servo_enable_process(e, o, d)
         IN /\ s.e \in Enable /\ s.o \in Output /\ WaitBounded(s.e)
            /\ AxisInv(e, o, d, R) => AxisInv(s.e, s.o, Received(d, o), Seen(d, R))
<1> USE EnableAssumption DEF EnableAssumption
<1> DEFINE s == ethercat_servo_enable_process(e, o, d)
           d2 == Received(d, o)
           R2 == Seen(d, R)
           Before == AxisInv(e, o, d, R)
           Outcome(state, hold, word, target) ==
             /\ s.e \in Enable /\ s.o \in Output /\ WaitBounded(s.e)
             /\ s.e.state = state /\ s.e.hold_pos = hold
             /\ s.o.ControlWord = word /\ s.o.TargetPos = target
<1>0. /\ \A state \in {"IDLE", "FAULT_RESET_PULSE", "WAIT_FAULT_CLEAR", "SHUTDOWN",
                        "SWITCH_ON", "CSP_PREPARE", "ENABLE_OPERATION", "DONE", "FAILED"} :
           state \in EnableStates
      /\ \A word \in {"DISABLE_VOLTAGE", "SHUTDOWN", "SWITCH_ON", "ENABLE_OPERATION",
                       "FAULT_RESET"} : word \in ControlWords
      /\ 0 \in Nat /\ 0 \in {-1, 0, 1} /\ 1 \in {-1, 0, 1} /\ -1 \in {-1, 0, 1}
  BY DEF EnableStates, ControlWords
<1>1. /\ d2 \in Drive /\ d2.state = d.state /\ d2.position = d.position
      /\ d2.word = o.ControlWord /\ d2.target = o.TargetPos
  BY ReceivedType
<1>2. /\ d.position \in Position /\ e.hold_pos \in Position /\ o.TargetPos \in Position
      /\ e.state \in EnableStates /\ e.wait_count \in Nat /\ d.state \in DriveStates
      /\ o.ControlWord \in ControlWords /\ d.word \in ControlWords
  BY DEF Enable, Output, Drive
<1>3. /\ d.state = "SWITCHED_ON" => R2 = R \cup {d.position}
      /\ d.state = "OPERATION_ENABLED" => R2 = R \cup {d.position}
  BY DEF Seen
<1>4. /\ WaitBounded(e)
      /\ Before => Stage(e, o, d) /\ TargetsReported(e, o, d, R)
  BY DEF AxisInv
<1> HIDE DEF s, d2, R2, Before
<1> SUFFICES /\ s.e \in Enable /\ s.o \in Output /\ WaitBounded(s.e)
             /\ Before => Stage(s.e, s.o, d2) /\ TargetsReported(s.e, s.o, d2, R2)
  BY DEF AxisInv, s, d2, R2, Before
<1>5. CASE d.state = "OPERATION_ENABLED"
  <2> DEFINE hold == IF e.state = "DONE" THEN e.hold_pos ELSE d.position
  <2>1. hold \in Position
    BY <1>2
  <2>2. s = AlreadyEnabled(e, d)
    BY <1>5 DEF s, ethercat_servo_enable_process
  <2>3. s = IF ModeConfirmed(d) THEN Step("DONE", 0, hold, 1, "ENABLE_OPERATION", hold)
            ELSE Step(e.state, e.wait_count, hold, 0, "ENABLE_OPERATION", hold)
    BY <2>2 DEF AlreadyEnabled
  <2> HIDE DEF hold
  <2>4. Outcome("DONE", hold, "ENABLE_OPERATION", hold)
          \/ Outcome(e.state, hold, "ENABLE_OPERATION", hold)
    <3>1. CASE ModeConfirmed(d)
      <4>1. /\ s.e \in Enable /\ s.o \in Output /\ s.e.state = "DONE"
            /\ s.e.wait_count = 0 /\ s.e.hold_pos = hold
            /\ s.o.ControlWord = "ENABLE_OPERATION" /\ s.o.TargetPos = hold
        BY <1>0, <2>1, <2>3, <3>1 DEF Step, Enable, Output
      <4> QED BY <4>1 DEF WaitBounded
    <3>2. CASE ~ModeConfirmed(d)
      <4>1. /\ s.e \in Enable /\ s.o \in Output /\ s.e.state = e.state
            /\ s.e.wait_count = e.wait_count /\ s.e.hold_pos = hold
            /\ s.o.ControlWord = "ENABLE_OPERATION" /\ s.o.TargetPos = hold
        BY <1>0, <1>2, <2>1, <2>3, <3>2 DEF Step, Enable, Output
      <4> QED BY <1>4, <4>1 DEF WaitBounded
    <3> QED BY <3>1, <3>2
  <2>5. Before => e.state \in {"ENABLE_OPERATION", "DONE", "FAILED"}
    BY <1>2, <1>4, <1>5 DEF Stage, EnableStates, Off
  <2>6. Before => Stage(s.e, s.o, d2)
    BY <1>1, <1>4, <1>5, <2>4, <2>5 DEF Stage
  <2>7. Before => TargetsReported(s.e, s.o, d2, R2)
    BY <1>1, <1>5 DEF TargetsReported
  <2> QED BY <2>4, <2>6, <2>7
<1>6. CASE d.state # "OPERATION_ENABLED" /\ e.state = "IDLE"
  <2> DEFINE next == IF d.state = "FAULT" THEN "FAULT_RESET_PULSE" ELSE "SHUTDOWN"
  <2>1. next \in EnableStates /\ next \in {"FAULT_RESET_PULSE", "SHUTDOWN"}
    BY DEF EnableStates
  <2>2. s = EnableIdle(e, o, d)
    BY <1>6 DEF s, ethercat_servo_enable_process
  <2>3. s = Step(next, 0, e.hold_pos, 0, "DISABLE_VOLTAGE", o.TargetPos)
    BY <2>2 DEF EnableIdle
  <2> HIDE DEF next
  <2>4. s.e.wait_count = 0 /\ Outcome(next, e.hold_pos, "DISABLE_VOLTAGE", o.TargetPos)
    <3>1. /\ s.e \in Enable /\ s.o \in Output /\ s.e.state = next
          /\ s.e.wait_count = 0 /\ s.e.hold_pos = e.hold_pos
          /\ s.o.ControlWord = "DISABLE_VOLTAGE" /\ s.o.TargetPos = o.TargetPos
      BY <1>0, <1>2, <2>1, <2>3 DEF Step, Enable, Output
    <3> QED BY <3>1 DEF WaitBounded
  <2>5. Before => Stage(s.e, s.o, d2)
    BY <1>1, <1>4, <1>6, <2>1, <2>4 DEF Stage, Off
  <2>6. Before => TargetsReported(s.e, s.o, d2, R2)
    BY <1>1, <1>4, <1>6, <2>1, <2>4 DEF TargetsReported, Stage, Off
  <2> QED BY <2>4, <2>5, <2>6
<1>7. CASE d.state # "OPERATION_ENABLED" /\ e.state = "FAULT_RESET_PULSE"
  <2>1. s = Step("WAIT_FAULT_CLEAR", 0, e.hold_pos, 0, "FAULT_RESET", o.TargetPos)
    BY <1>7 DEF s, ethercat_servo_enable_process, EnableFaultResetPulse
  <2>2. Outcome("WAIT_FAULT_CLEAR", e.hold_pos, "FAULT_RESET", o.TargetPos)
    <3>1. /\ s.e \in Enable /\ s.o \in Output /\ s.e.state = "WAIT_FAULT_CLEAR"
          /\ s.e.wait_count = 0 /\ s.e.hold_pos = e.hold_pos
          /\ s.o.ControlWord = "FAULT_RESET" /\ s.o.TargetPos = o.TargetPos
      BY <1>0, <1>2, <2>1 DEF Step, Enable, Output
    <3> QED BY <3>1 DEF WaitBounded
  <2>3. Before => Stage(s.e, s.o, d2) /\ TargetsReported(s.e, s.o, d2, R2)
    BY <1>1, <1>4, <1>7, <2>2 DEF Stage, Off, TargetsReported
  <2> QED BY <2>2, <2>3
<1>8. CASE d.state # "OPERATION_ENABLED" /\ e.state = "WAIT_FAULT_CLEAR"
  <2>1. s = Await(e, o, "DISABLE_VOLTAGE", d.state # "FAULT", "SHUTDOWN", FAULT_CLEAR_CYCLES)
    BY <1>8 DEF s, ethercat_servo_enable_process
  <2>2. \/ Outcome("SHUTDOWN", e.hold_pos, "DISABLE_VOLTAGE", o.TargetPos)
        \/ Outcome("WAIT_FAULT_CLEAR", e.hold_pos, "DISABLE_VOLTAGE", o.TargetPos)
        \/ Outcome("FAILED", e.hold_pos, "DISABLE_VOLTAGE", o.TargetPos)
    <3>1. CASE d.state # "FAULT"
      <4>1. s = Step("SHUTDOWN", 0, e.hold_pos, 0, "DISABLE_VOLTAGE", o.TargetPos)
        BY <2>1, <3>1 DEF Await
      <4>2. s.e.wait_count = 0 /\ s.e \in Enable /\ s.o \in Output
            /\ s.e.state = "SHUTDOWN" /\ s.e.hold_pos = e.hold_pos
            /\ s.o.ControlWord = "DISABLE_VOLTAGE" /\ s.o.TargetPos = o.TargetPos
        BY <1>0, <1>2, <4>1 DEF Step, Enable, Output
      <4> QED BY <4>2 DEF WaitBounded
    <3>2. CASE d.state = "FAULT"
      BY <1>0, <1>2, <1>4, <1>8, <2>1, <3>2, WaitsOrFails DEF Await
    <3> QED BY <3>1, <3>2
  <2>3. Before => Stage(s.e, s.o, d2) /\ TargetsReported(s.e, s.o, d2, R2)
    BY <1>1, <1>4, <1>8, <2>2 DEF Stage, Off, TargetsReported
  <2> QED BY <2>2, <2>3
<1>9. CASE d.state # "OPERATION_ENABLED" /\ e.state = "SHUTDOWN"
  <2>1. s = Await(e, o, "SHUTDOWN", d.state = "READY_TO_SWITCH_ON", "SWITCH_ON", STEP_CYCLES)
    BY <1>9 DEF s, ethercat_servo_enable_process
  <2>2. \/ /\ Outcome("SWITCH_ON", e.hold_pos, "SHUTDOWN", o.TargetPos)
           /\ d.state = "READY_TO_SWITCH_ON"
        \/ Outcome("SHUTDOWN", e.hold_pos, "SHUTDOWN", o.TargetPos)
        \/ Outcome("FAILED", e.hold_pos, "SHUTDOWN", o.TargetPos)
    <3>1. CASE d.state = "READY_TO_SWITCH_ON"
      <4>1. s = Step("SWITCH_ON", 0, e.hold_pos, 0, "SHUTDOWN", o.TargetPos)
        BY <2>1, <3>1 DEF Await
      <4>2. s.e.wait_count = 0 /\ s.e \in Enable /\ s.o \in Output
            /\ s.e.state = "SWITCH_ON" /\ s.e.hold_pos = e.hold_pos
            /\ s.o.ControlWord = "SHUTDOWN" /\ s.o.TargetPos = o.TargetPos
        BY <1>0, <1>2, <4>1 DEF Step, Enable, Output
      <4> QED BY <3>1, <4>2 DEF WaitBounded
    <3>2. CASE d.state # "READY_TO_SWITCH_ON"
      BY <1>0, <1>2, <1>4, <1>9, <2>1, <3>2, WaitsOrFails DEF Await
    <3> QED BY <3>1, <3>2
  <2>3. Before => Stage(s.e, s.o, d2) /\ TargetsReported(s.e, s.o, d2, R2)
    BY <1>1, <1>4, <1>9, <2>2 DEF Stage, Off, TargetsReported
  <2> QED BY <2>2, <2>3
<1>10. CASE d.state # "OPERATION_ENABLED" /\ e.state = "SWITCH_ON"
  <2>1. s = EnableSwitchOn(e, o, d)
    BY <1>10 DEF s, ethercat_servo_enable_process
  <2>2. CASE d.state = "SWITCHED_ON"
    <3>1. s = Step("CSP_PREPARE", 0, d.position, 0, "SWITCH_ON", d.position)
      BY <2>1, <2>2 DEF EnableSwitchOn
    <3>2. Outcome("CSP_PREPARE", d.position, "SWITCH_ON", d.position)
      <4>1. /\ s.e \in Enable /\ s.o \in Output /\ s.e.state = "CSP_PREPARE"
            /\ s.e.wait_count = 0 /\ s.e.hold_pos = d.position
            /\ s.o.ControlWord = "SWITCH_ON" /\ s.o.TargetPos = d.position
        BY <1>0, <1>2, <3>1 DEF Step, Enable, Output
      <4> QED BY <4>1 DEF WaitBounded
    <3>3. Before => Stage(s.e, s.o, d2) /\ TargetsReported(s.e, s.o, d2, R2)
      BY <1>1, <1>4, <1>10, <2>2, <3>2 DEF Stage, Off, TargetsReported
    <3> QED BY <3>2, <3>3
  <2>3. CASE d.state # "SWITCHED_ON"
    <3>1. s = Await(e, o, "SWITCH_ON", FALSE, "SWITCH_ON", STEP_CYCLES)
      BY <2>1, <2>3 DEF EnableSwitchOn
    <3>2. \/ Outcome("SWITCH_ON", e.hold_pos, "SWITCH_ON", o.TargetPos)
          \/ Outcome("FAILED", e.hold_pos, "SWITCH_ON", o.TargetPos)
      BY <1>0, <1>2, <1>4, <1>10, <3>1, WaitsOrFails DEF Await
    <3>3. Before => Stage(s.e, s.o, d2) /\ TargetsReported(s.e, s.o, d2, R2)
      BY <1>1, <1>4, <1>10, <2>3, <3>2 DEF Stage, Off, TargetsReported
    <3> QED BY <3>2, <3>3
  <2> QED BY <2>2, <2>3
<1>11. CASE d.state # "OPERATION_ENABLED" /\ e.state = "CSP_PREPARE"
  <2> DEFINE wait == e.wait_count + 1
  <2>1. s = EnableCspPrepare(e, d)
    BY <1>11 DEF s, ethercat_servo_enable_process
  <2>2. wait \in Nat /\ wait <= STEP_CYCLES + 1
    BY <1>2, <1>4, <1>11 DEF WaitBounded
  <2>3. \/ s = Step("ENABLE_OPERATION", 0, d.position, 0, "SWITCH_ON", d.position)
        \/ s = Step("FAILED", wait, d.position, -1, "SWITCH_ON", d.position)
        \/ /\ s = Step("CSP_PREPARE", wait, d.position, 0, "SWITCH_ON", d.position)
           /\ wait <= STEP_CYCLES
    BY <2>1, <2>2 DEF EnableCspPrepare
  <2> HIDE DEF wait
  <2>4. /\ s.e.state \in {"ENABLE_OPERATION", "FAILED", "CSP_PREPARE"}
        /\ Outcome(s.e.state, d.position, "SWITCH_ON", d.position)
    <3>1. /\ s.e \in Enable /\ s.o \in Output
          /\ \/ s.e.state = "ENABLE_OPERATION" /\ s.e.wait_count = 0
             \/ s.e.state = "FAILED" /\ s.e.wait_count = wait
             \/ s.e.state = "CSP_PREPARE" /\ s.e.wait_count = wait /\ wait <= STEP_CYCLES
          /\ s.e.hold_pos = d.position
          /\ s.o.ControlWord = "SWITCH_ON" /\ s.o.TargetPos = d.position
      BY <1>0, <1>2, <2>2, <2>3 DEF Step, Enable, Output
    <3> QED BY <2>2, <3>1 DEF WaitBounded
  <2>5. Before => Stage(s.e, s.o, d2)
    BY <1>1, <1>4, <1>11, <2>4 DEF Stage, Off
  <2>6. Before => TargetsReported(s.e, s.o, d2, R2)
    BY <1>1, <1>3, <1>4, <1>11, <2>4 DEF Stage, TargetsReported
  <2> QED BY <2>4, <2>5, <2>6
<1>12. CASE d.state # "OPERATION_ENABLED" /\ e.state = "ENABLE_OPERATION"
  <2> DEFINE held == [TargetPos |-> e.hold_pos]
  <2>1. s = Await(e, held, "ENABLE_OPERATION", FALSE, "ENABLE_OPERATION", STEP_CYCLES)
    BY <1>12 DEF s, ethercat_servo_enable_process, EnableOperation
  <2>2. held.TargetPos = e.hold_pos
    OBVIOUS
  <2> HIDE DEF held
  <2>3. \/ Outcome("ENABLE_OPERATION", e.hold_pos, "ENABLE_OPERATION", e.hold_pos)
        \/ Outcome("FAILED", e.hold_pos, "ENABLE_OPERATION", e.hold_pos)
    BY <1>0, <1>2, <1>4, <1>12, <2>1, <2>2, WaitsOrFails, SMTT(30) DEF Await
  <2>4. Before => Stage(s.e, s.o, d2)
    BY <1>1, <1>4, <1>12, <2>3 DEF Stage, Off
  <2>5. Before => TargetsReported(s.e, s.o, d2, R2)
    BY <1>1, <1>3, <1>4, <1>12, <2>3 DEF TargetsReported
  <2> QED BY <2>3, <2>4, <2>5
<1>13. CASE d.state # "OPERATION_ENABLED" /\ e.state = "DONE"
  <2>1. s = Step("IDLE", 0, e.hold_pos, 0, "DISABLE_VOLTAGE", o.TargetPos)
    BY <1>13 DEF s, ethercat_servo_enable_process
  <2>2. Outcome("IDLE", e.hold_pos, "DISABLE_VOLTAGE", o.TargetPos)
    <3>1. /\ s.e \in Enable /\ s.o \in Output /\ s.e.state = "IDLE"
          /\ s.e.wait_count = 0 /\ s.e.hold_pos = e.hold_pos
          /\ s.o.ControlWord = "DISABLE_VOLTAGE" /\ s.o.TargetPos = o.TargetPos
      BY <1>0, <1>2, <2>1 DEF Step, Enable, Output
    <3> QED BY <3>1 DEF WaitBounded
  <2>3. Before => Stage(s.e, s.o, d2) /\ TargetsReported(s.e, s.o, d2, R2)
    BY <1>1, <1>4, <1>13, <2>2 DEF Stage, Off, TargetsReported
  <2> QED BY <2>2, <2>3
<1>14. CASE d.state # "OPERATION_ENABLED" /\ e.state = "FAILED"
  <2>1. s = Step("FAILED", e.wait_count, e.hold_pos, -1, "DISABLE_VOLTAGE", o.TargetPos)
    BY <1>14 DEF s, ethercat_servo_enable_process
  <2>2. Outcome("FAILED", e.hold_pos, "DISABLE_VOLTAGE", o.TargetPos)
    <3>1. /\ s.e \in Enable /\ s.o \in Output /\ s.e.state = "FAILED"
          /\ s.e.wait_count = e.wait_count /\ s.e.hold_pos = e.hold_pos
          /\ s.o.ControlWord = "DISABLE_VOLTAGE" /\ s.o.TargetPos = o.TargetPos
      BY <1>0, <1>2, <2>1 DEF Step, Enable, Output
    <3> QED BY <1>4, <1>14, <3>1 DEF WaitBounded
  <2>3. Before => Stage(s.e, s.o, d2)
    BY <1>1, <1>4, <1>14, <2>2 DEF Stage
  <2>4. Before => TargetsReported(s.e, s.o, d2, R2)
    BY <1>1, <1>3, <1>4, <1>14, <2>2 DEF TargetsReported
  <2> QED BY <2>2, <2>3, <2>4
<1> QED
  BY <1>2, <1>5, <1>6, <1>7, <1>8, <1>9, <1>10, <1>11, <1>12, <1>13, <1>14
     DEF EnableStates

(* The transitions of the drive by where they end.                         *)
LEMMA ObeyedCases ==
  ASSUME NEW d \in Drive
  PROVE  /\ Obeyed(d) \in DriveStates
         /\ Obeyed(d) = "READY_TO_SWITCH_ON" =>
              d.word = "SHUTDOWN" \/ d.state = "READY_TO_SWITCH_ON"
         /\ Obeyed(d) = "SWITCHED_ON" =>
              \/ d.state = "SWITCHED_ON"
              \/ /\ d.state = "READY_TO_SWITCH_ON"
                 /\ d.word \in {"SWITCH_ON", "ENABLE_OPERATION"}
              \/ d.state = "OPERATION_ENABLED" /\ d.word = "SWITCH_ON"
         /\ Obeyed(d) = "OPERATION_ENABLED" =>
              \/ d.state = "OPERATION_ENABLED"
              \/ d.state = "SWITCHED_ON" /\ d.word = "ENABLE_OPERATION"
<1>1. d.state \in DriveStates /\ d.word \in ControlWords
  BY DEF Drive
<1>2. CASE d.state = "FAULT"
  BY <1>2 DEF Obeyed, DriveStates
<1>3. CASE d.state # "FAULT" /\ d.word \in {"DISABLE_VOLTAGE", "FAULT_RESET", "SHUTDOWN"}
  BY <1>3 DEF Obeyed, DriveStates
<1>4. CASE d.state # "FAULT" /\ d.word = "SWITCH_ON"
  BY <1>1, <1>4 DEF Obeyed, DriveStates
<1>5. CASE d.state # "FAULT" /\ d.word = "ENABLE_OPERATION"
  BY <1>1, <1>5 DEF Obeyed, DriveStates
<1> QED BY <1>1, <1>2, <1>3, <1>4, <1>5 DEF ControlWords

(* A change of the drive that keeps its words preserves the invariant of   *)
(* the axis if the drive obeyed, faulted, or stayed in its state.          *)
LEMMA DriveInv ==
  ASSUME NEW e \in Enable, NEW o \in Output, NEW d \in Drive, NEW R,
         AxisInv(e, o, d, R), NEW d2, d2.word = d.word, d2.target = d.target,
         d2.state \in {d.state, Obeyed(d), "FAULT"}
  PROVE  AxisInv(e, o, d2, R)
<1>1. Stage(e, o, d) /\ TargetsReported(e, o, d, R)
  BY DEF AxisInv
<1>2. e.state \in EnableStates /\ o.ControlWord \in ControlWords /\ d.word \in ControlWords
      /\ d.state \in DriveStates
  BY DEF Enable, Output, Drive
<1>3. CASE d2.state = d.state
  BY <1>1, <1>3 DEF AxisInv, Stage, TargetsReported
<1>4. CASE d2.state \in Off
  BY <1>1, <1>4 DEF AxisInv, Stage, TargetsReported, Off
<1>5. CASE d2.state = "READY_TO_SWITCH_ON" /\ d.word = "SHUTDOWN"
  <2>1. e.state \in {"SHUTDOWN", "SWITCH_ON", "FAILED"}
    BY <1>1, <1>2, <1>5 DEF Stage, EnableStates
  <2> QED BY <1>1, <1>5, <2>1 DEF AxisInv, Stage, TargetsReported, Off
<1>6. CASE /\ d2.state = "SWITCHED_ON" /\ d.state = "READY_TO_SWITCH_ON"
           /\ d.word \in {"SWITCH_ON", "ENABLE_OPERATION"}
  <2>1. e.state \in {"SWITCH_ON", "FAILED"}
    BY <1>1, <1>2, <1>6 DEF Stage, EnableStates, Off
  <2> QED BY <1>1, <1>6, <2>1 DEF AxisInv, Stage, TargetsReported, Off
<1>7. CASE /\ d2.state = "OPERATION_ENABLED" /\ d.state = "SWITCHED_ON"
           /\ d.word = "ENABLE_OPERATION"
  <2>1. e.state \in {"ENABLE_OPERATION", "FAILED"}
    BY <1>1, <1>2, <1>7 DEF Stage, EnableStates, Off
  <2> QED BY <1>1, <1>7, <2>1 DEF AxisInv, Stage, TargetsReported, Off
<1>8. ~(d.state = "OPERATION_ENABLED" /\ d.word = "SWITCH_ON")
  BY <1>1, <1>2 DEF Stage, EnableStates, Off
<1> QED
  BY <1>2, <1>3, <1>4, <1>5, <1>6, <1>7, <1>8, ObeyedCases DEF DriveStates, Off

(* A frame that reaches the drive without coming back.                     *)
LEMMA ResentInv ==
  ASSUME NEW e \in Enable, NEW o \in Output, NEW d \in Drive, NEW R,
         AxisInv(e, o, d, R)
  PROVE  AxisInv(e, o, Received(d, o), R)
<1> DEFINE d2 == Received(d, o)
<1>1. d2.state = d.state /\ d2.word = o.ControlWord /\ d2.target = o.TargetPos
  BY ReceivedType
<1>2. Stage(e, o, d) /\ TargetsReported(e, o, d, R)
  BY DEF AxisInv
<1>3. e.state \in EnableStates
  BY DEF Enable
<1> HIDE DEF d2
<1>4. Stage(e, o, d2)
  BY <1>1, <1>2, <1>3 DEF Stage, EnableStates
<1>5. TargetsReported(e, o, d2, R)
  BY <1>1, <1>2 DEF TargetsReported
<1> QED BY <1>2, <1>4, <1>5 DEF AxisInv, d2

(* The sequence looks only at the inputs of a drive.                       *)
LEMMA LooksAtInputs ==
  ASSUME NEW e, NEW o, NEW d
  PROVE  ethercat_servo_enable_process(e, o, Inputs(d)) =
           ethercat_servo_enable_process(e, o, d)
<1> DEFINE i == Inputs(d)
<1>1. i.state = d.state /\ i.position = d.position /\ i.csp = d.csp
  BY DEF Inputs
<1> HIDE DEF i
<1>2. ModeConfirmed(i) <=> ModeConfirmed(d)
  BY <1>1 DEF ModeConfirmed
<1>3. /\ AlreadyEnabled(e, i) = AlreadyEnabled(e, d)
      /\ EnableIdle(e, o, i) = EnableIdle(e, o, d)
      /\ EnableSwitchOn(e, o, i) = EnableSwitchOn(e, o, d)
      /\ EnableCspPrepare(e, i) = EnableCspPrepare(e, d)
  BY <1>1, <1>2 DEF AlreadyEnabled, EnableIdle, EnableSwitchOn, EnableCspPrepare
<1> QED BY <1>1, <1>3 DEF ethercat_servo_enable_process, i

(* Whatever image the sequence is given, it keeps its types and bounds.    *)
LEMMA ProcessType ==
  ASSUME NEW e \in Enable, NEW o \in Output, NEW i \in InputImage, WaitBounded(e)
  PROVE  LET s == ethercat_servo_enable_process(e, o, i)
         IN s.e \in Enable /\ s.o \in Output /\ WaitBounded(s.e)
<1> DEFINE d == [state |-> i.state, position |-> i.position, csp |-> i.csp,
                 word |-> o.ControlWord, target |-> o.TargetPos, edge |-> FALSE]
<1>1. d \in Drive
  BY DEF Drive, Output, InputImage
<1>2. Inputs(d) = i
  BY DEF Inputs, InputImage
<1>3. {} \in SUBSET Position
  OBVIOUS
<1> HIDE DEF d
<1> QED BY <1>1, <1>2, <1>3, ProcessInv, LooksAtInputs

(* An axis in step with its drive when it begins anew, or finds the drive  *)
(* enabled, is in step after a complete cycle.                             *)
LEMMA InStepInv ==
  ASSUME NEW e \in Enable, NEW o \in Output, NEW d \in Drive, NEW R \in SUBSET Position,
         WaitBounded(e),
         \/ e.state = "IDLE" /\ o.ControlWord = "DISABLE_VOLTAGE" /\ d.state \in Off
         \/ /\ o.ControlWord = "ENABLE_OPERATION"
            /\ d.state = "OPERATION_ENABLED" /\ ModeConfirmed(d)
  PROVE  LET s == ethercat_servo_enable_process(e, o, d)
         IN AxisInv(s.e, s.o, Received(d, o), Seen(d, R))
<1> DEFINE s == ethercat_servo_enable_process(e, o, d)
           d2 == Received(d, o)
<1>1. /\ d2.state = d.state /\ d2.word = o.ControlWord
  BY ReceivedType
<1>2. CASE e.state = "IDLE" /\ o.ControlWord = "DISABLE_VOLTAGE" /\ d.state \in Off
  <2>1. s = EnableIdle(e, o, d)
    BY <1>2 DEF ethercat_servo_enable_process, Off
  <2> HIDE DEF s, d2
  <2>2. s.e.state \in {"FAULT_RESET_PULSE", "SHUTDOWN"} /\ s.o.ControlWord = "DISABLE_VOLTAGE"
    BY <2>1 DEF EnableIdle, Step
  <2> QED BY <1>1, <1>2, <2>2 DEF AxisInv, Stage, TargetsReported, Off, s, d2
<1>3. CASE /\ o.ControlWord = "ENABLE_OPERATION"
           /\ d.state = "OPERATION_ENABLED" /\ ModeConfirmed(d)
  <2>1. s = AlreadyEnabled(e, d)
    BY <1>3 DEF ethercat_servo_enable_process
  <2> HIDE DEF s, d2
  <2>2. s.e.state = "DONE" /\ s.o.ControlWord = "ENABLE_OPERATION"
    BY <1>3, <2>1 DEF AlreadyEnabled, Step
  <2> QED BY <1>1, <1>3, <2>2 DEF AxisInv, Stage, TargetsReported, Off, s, d2
<1> QED BY <1>2, <1>3

-----------------------------------------------------------------------------
(* The invariant holds after the warm-up.                                  *)
LEMMA InitIInv == Init => IInv
<1> SUFFICES ASSUME Init PROVE IInv
  OBVIOUS
<1> USE EnableAssumption DEF EnableAssumption
<1>1. PICK hold \in [Axis -> Position] :
        /\ s_enable = [a \in Axis |-> [state |-> "IDLE", wait_count |-> 0,
                                       hold_pos |-> hold[a], result |-> 0]]
        /\ output = [a \in Axis |-> [ControlWord |-> "DISABLE_VOLTAGE",
                                     TargetPos |-> hold[a]]]
        /\ drive \in [Axis -> [state : {"SWITCH_ON_DISABLED", "FAULT"}, position : Position,
                               csp : BOOLEAN, word : {"DISABLE_VOLTAGE"},
                               target : Position, edge : {FALSE}]]
        /\ reported = [a \in Axis |-> {}]
        /\ rxbuf \in [1..Buffers -> {Incomplete} \cup
                       [Axis -> [state : {"SWITCH_ON_DISABLED", "FAULT"},
                                 position : Position, csp : BOOLEAN]]]
        /\ idx = 1 /\ replayed = [a \in Axis |-> FALSE]
  BY DEF Init
<1>2. s_enable \in [Axis -> Enable]
  BY <1>1 DEF Enable, EnableStates
<1>3. output \in [Axis -> Output]
  BY <1>1 DEF Output, ControlWords
<1>4. drive \in [Axis -> Drive]
  BY <1>1 DEF Drive, DriveStates, ControlWords
<1>5. reported \in [Axis -> SUBSET Position]
  BY <1>1
<1>6. ASSUME NEW a \in Axis
      PROVE  /\ s_enable[a].state = "IDLE" /\ s_enable[a].wait_count = 0
             /\ output[a].ControlWord = "DISABLE_VOLTAGE"
             /\ drive[a].state \in Off /\ drive[a].word = "DISABLE_VOLTAGE"
  BY <1>1 DEF Off
<1>7. \A a \in Axis : s_enable[a].wait_count <= STEP_CYCLES + 1
  <2> TAKE a \in Axis
  <2>1. s_enable[a].wait_count = 0
    BY <1>6
  <2> QED BY <2>1
<1>8. ASSUME NEW a \in Axis
      PROVE  /\ WaitBounded(s_enable[a])
             /\ AxisInv(s_enable[a], output[a], drive[a], reported[a])
  BY <1>6 DEF AxisInv, WaitBounded, Stage, TargetsReported, Off
<1>9. [Axis -> [state : {"SWITCH_ON_DISABLED", "FAULT"}, position : Position,
                csp : BOOLEAN]] \subseteq [Axis -> InputImage]
  BY DEF InputImage, DriveStates
<1>10. rxbuf \in [1..Buffers -> [Axis -> InputImage] \cup {Incomplete}]
  BY <1>1, <1>9
<1>11. idx \in 1..Buffers /\ replayed \in [Axis -> BOOLEAN]
  BY <1>1
<1> QED BY <1>2, <1>3, <1>4, <1>5, <1>7, <1>8, <1>10, <1>11 DEF IInv, TypeOK

(* The receive buffers after a cycle.                                      *)
LEMMA BuffersType ==
  ASSUME IInv, NEW reached \in SUBSET Axis, NEW outcome \in Outcomes,
         PdoCycle(reached, outcome)
  PROVE  /\ FrameAfter(outcome) \in [Axis -> InputImage] \cup {Incomplete}
         /\ rxbuf' \in [1..Buffers -> [Axis -> InputImage] \cup {Incomplete}]
         /\ idx' \in 1..Buffers
<1> USE EnableAssumption DEF EnableAssumption
<1>0. /\ idx \in 1..Buffers /\ drive \in [Axis -> Drive]
      /\ rxbuf \in [1..Buffers -> [Axis -> InputImage] \cup {Incomplete}]
  BY DEF IInv, TypeOK
<1>1. ASSUME NEW a \in Axis PROVE Inputs(drive[a]) \in InputImage
  <2>1. drive[a] \in Drive
    BY <1>0
  <2> QED BY <2>1 DEF Drive, InputImage, Inputs
<1>2. [a \in Axis |-> Inputs(drive[a])] \in [Axis -> InputImage]
  BY <1>1
<1>3. FrameAfter(outcome) \in [Axis -> InputImage] \cup {Incomplete}
  BY <1>0, <1>2 DEF FrameAfter, Outcomes
<1>4. rxbuf' = [rxbuf EXCEPT ![idx] = FrameAfter(outcome)] /\ idx' = (idx % Buffers) + 1
  BY DEF PdoCycle
<1>5. idx' \in 1..Buffers
  BY <1>0, <1>4
<1> QED BY <1>0, <1>3, <1>4, <1>5

(* The drives after a cycle.                                               *)
LEMMA DrivesType ==
  ASSUME IInv, NEW reached \in SUBSET Axis, NEW outcome \in Outcomes,
         PdoCycle(reached, outcome)
  PROVE  drive' \in [Axis -> Drive]
<1>1. ASSUME NEW a \in Axis
      PROVE  drive[a] \in Drive /\ Received(drive[a], output[a]) \in Drive
  BY ReceivedType DEF IInv, TypeOK
<1>2. drive' = [a \in Axis |-> IF a \in reached THEN Received(drive[a], output[a])
                               ELSE drive[a]]
  BY DEF PdoCycle
<1> QED BY <1>1, <1>2

(* A cycle the sequence is advanced in, fresh or replayed.                 *)
LEMMA AdvancedIInv ==
  ASSUME IInv, NEW reached \in SUBSET Axis, NEW outcome \in Outcomes,
         PdoCycle(reached, outcome), pdo_ok(FrameAfter(outcome))
  PROVE  IInv'
<1> USE EnableAssumption DEF EnableAssumption
<1> DEFINE image == FrameAfter(outcome)
           s(a) == ethercat_servo_enable_process(s_enable[a], output[a], image[a])
<1>0. ethercat_servo_all_axes_enable_process(image) /\ Recorded(outcome)
  BY DEF PdoCycle
<1>1. /\ s_enable' = [a \in Axis |-> s(a).e]
      /\ output' = [a \in Axis |-> s(a).o]
  BY <1>0 DEF ethercat_servo_all_axes_enable_process
<1>2. image \in [Axis -> InputImage]
  BY BuffersType DEF pdo_ok
<1>3. ASSUME NEW a \in Axis
      PROVE  /\ s_enable[a] \in Enable /\ output[a] \in Output /\ drive[a] \in Drive
             /\ reported[a] \in SUBSET Position /\ drive[a].position \in Position
             /\ WaitBounded(s_enable[a])
             /\ ~replayed[a] => AxisInv(s_enable[a], output[a], drive[a], reported[a])
  BY DEF IInv, TypeOK, Drive
<1>4. ASSUME NEW a \in Axis
      PROVE  s(a).e \in Enable /\ s(a).o \in Output /\ WaitBounded(s(a).e)
  <2>1. image[a] \in InputImage
    BY <1>2
  <2> HIDE DEF image
  <2> QED BY <1>3, <2>1, ProcessType
<1>5. /\ s_enable' \in [Axis -> Enable] /\ output' \in [Axis -> Output]
      /\ \A a \in Axis : WaitBounded(s_enable'[a])
  <2> HIDE DEF s
  <2> QED BY <1>1, <1>4
<1>6. /\ reported' \in [Axis -> SUBSET Position] /\ replayed' \in [Axis -> BOOLEAN]
      /\ \A a \in Axis : ~replayed'[a] => AxisInv(s_enable'[a], output'[a], drive'[a], reported'[a])
  <2>1. CASE outcome = "lost"
    <3>1. replayed' = [a \in Axis |-> TRUE] /\ reported' = reported
      BY <1>0, <2>1 DEF Recorded
    <3> QED BY <3>1 DEF IInv, TypeOK
  <2>2. CASE outcome # "lost"
    <3>0. outcome = "complete"
      BY <2>2 DEF Outcomes, FrameAfter, pdo_ok
    <3>1. /\ replayed' = [a \in Axis |-> replayed[a] /\ ~InStep(a)]
          /\ reported' = [a \in Axis |-> Seen(drive[a], reported[a])]
      BY <1>0, <2>2 DEF Recorded, Seen
    <3>2. drive' = [a \in Axis |-> Received(drive[a], output[a])]
      BY <3>0 DEF PdoCycle
    <3>3. \A a \in Axis : image[a] = Inputs(drive[a])
      BY <3>0 DEF FrameAfter
    <3>4. ASSUME NEW a \in Axis
          PROVE  s(a) = ethercat_servo_enable_process(s_enable[a], output[a], drive[a])
      BY <3>3, LooksAtInputs
    <3>5. ASSUME NEW a \in Axis PROVE Seen(drive[a], reported[a]) \in SUBSET Position
      BY <1>3 DEF Seen
    <3>6. ASSUME NEW a \in Axis, ~replayed[a] \/ InStep(a)
          PROVE  AxisInv(s(a).e, s(a).o, Received(drive[a], output[a]),
                         Seen(drive[a], reported[a]))
      <4> HIDE DEF s
      <4>1. CASE ~replayed[a]
        BY <1>3, <3>4, <4>1, ProcessInv
      <4>2. CASE InStep(a)
        BY <1>3, <3>4, <4>2, InStepInv DEF InStep, Off
      <4> QED BY <3>6, <4>1, <4>2
    <3> HIDE DEF s
    <3>7. ASSUME NEW a \in Axis, ~replayed'[a]
          PROVE  AxisInv(s_enable'[a], output'[a], drive'[a], reported'[a])
      <4>1. ~replayed[a] \/ InStep(a)
        BY <3>1, <3>7
      <4> QED BY <1>1, <3>1, <3>2, <3>6, <4>1
    <3>8. reported' \in [Axis -> SUBSET Position]
      BY <3>1, <3>5
    <3>9. replayed' \in [Axis -> BOOLEAN]
      BY <3>1
    <3> QED BY <3>7, <3>8, <3>9
  <2> QED BY <2>1, <2>2
<1>7. \A a \in Axis : s_enable'[a].wait_count <= STEP_CYCLES + 1
  <2> TAKE a \in Axis
  <2>1. WaitBounded(s_enable'[a]) /\ s_enable'[a].wait_count \in Nat
    BY <1>5 DEF Enable
  <2> QED BY <2>1 DEF WaitBounded
<1> QED BY <1>5, <1>6, <1>7, BuffersType, DrivesType DEF IInv, TypeOK

(* A step that leaves sequence, image and histories alone.                 *)
LEMMA DrivesChangeIInv ==
  ASSUME IInv, UNCHANGED <<s_enable, output, history>>, drive' \in [Axis -> Drive],
         rxbuf' \in [1..Buffers -> [Axis -> InputImage] \cup {Incomplete}],
         idx' \in 1..Buffers,
         \A a \in Axis : AxisInv(s_enable[a], output[a], drive[a], reported[a]) =>
                           AxisInv(s_enable[a], output[a], drive'[a], reported[a])
  PROVE  IInv'
  BY DEF IInv, TypeOK, history

(* Any cycle, whatever axes its frame reached.                             *)
LEMMA CycleIInv ==
  ASSUME IInv, NEW reached \in SUBSET Axis, NEW outcome \in Outcomes,
         PdoCycle(reached, outcome)
  PROVE  IInv'
<1>1. CASE pdo_ok(FrameAfter(outcome))
  BY <1>1, AdvancedIInv
<1>2. CASE ~pdo_ok(FrameAfter(outcome))
  <2>1. UNCHANGED <<s_enable, output, history>>
    BY <1>2 DEF PdoCycle
  <2>2. ASSUME NEW a \in Axis
        PROVE  s_enable[a] \in Enable /\ output[a] \in Output /\ drive[a] \in Drive
    BY DEF IInv, TypeOK
  <2>3. drive' = [a \in Axis |-> IF a \in reached THEN Received(drive[a], output[a])
                                 ELSE drive[a]]
    BY DEF PdoCycle
  <2>4. ASSUME NEW a \in Axis, AxisInv(s_enable[a], output[a], drive[a], reported[a])
        PROVE  AxisInv(s_enable[a], output[a], drive'[a], reported[a])
    <3>1. CASE a \in reached
      BY <2>2, <2>3, <2>4, <3>1, ResentInv
    <3>2. CASE a \notin reached
      BY <2>3, <2>4, <3>2
    <3> QED BY <3>1, <3>2
  <2> QED BY <2>1, <2>4, BuffersType, DrivesType, DrivesChangeIInv
<1> QED BY <1>1, <1>2

(* What the drive of one axis may become by itself.                        *)
LEMMA DriveChangeIInv ==
  ASSUME IInv, NEW a \in Axis, NEW d2 \in Drive, DriveChange(a, d2),
         d2.word = drive[a].word, d2.target = drive[a].target,
         d2.state \in {drive[a].state, Obeyed(drive[a]), "FAULT"}
  PROVE  IInv'
<1>1. ASSUME NEW b \in Axis
      PROVE  s_enable[b] \in Enable /\ output[b] \in Output /\ drive[b] \in Drive
  BY DEF IInv, TypeOK
<1>2. /\ drive' = [drive EXCEPT ![a] = d2]
      /\ UNCHANGED <<s_enable, output, rxbuf, idx, history>>
  BY DEF DriveChange
<1>3. /\ drive \in [Axis -> Drive] /\ idx \in 1..Buffers
      /\ rxbuf \in [1..Buffers -> [Axis -> InputImage] \cup {Incomplete}]
  BY DEF IInv, TypeOK
<1>4. drive' \in [Axis -> Drive]
  BY <1>2, <1>3
<1>5. ASSUME AxisInv(s_enable[a], output[a], drive[a], reported[a])
      PROVE  AxisInv(s_enable[a], output[a], d2, reported[a])
  BY <1>1, <1>5, DriveInv
<1>6. ASSUME NEW b \in Axis, AxisInv(s_enable[b], output[b], drive[b], reported[b])
      PROVE  AxisInv(s_enable[b], output[b], drive'[b], reported[b])
  <2>1. CASE b = a
    BY <1>2, <1>3, <1>5, <1>6, <2>1
  <2>2. CASE b # a
    BY <1>2, <1>3, <1>6, <2>2
  <2> QED BY <2>1, <2>2
<1> QED BY <1>2, <1>3, <1>4, <1>6, DrivesChangeIInv

(* Every step of the specification preserves the invariant.                *)
LEMMA NextIInv ==
  ASSUME IInv, [Next]_vars
  PROVE  IInv'
<1>0. ASSUME NEW a \in Axis PROVE drive[a] \in Drive
  BY DEF IInv, TypeOK
<1>1. CASE Cycle
  BY <1>1, CycleIInv DEF Cycle
<1>2. ASSUME NEW a \in Axis, DriveObeys(a) PROVE IInv'
  <2> DEFINE d2 == [drive[a] EXCEPT !.state = Obeyed(drive[a]), !.edge = FALSE]
  <2>1. Obeyed(drive[a]) \in DriveStates
    BY <1>0, ObeyedCases
  <2>2. /\ d2 \in Drive /\ d2.word = drive[a].word /\ d2.target = drive[a].target
        /\ d2.state = Obeyed(drive[a])
    BY <1>0, <2>1 DEF Drive
  <2>3. DriveChange(a, d2)
    BY <1>2 DEF DriveObeys
  <2> HIDE DEF d2
  <2> QED BY <2>2, <2>3, DriveChangeIInv
<1>3. ASSUME NEW a \in Axis, DriveFaults(a) PROVE IInv'
  <2> DEFINE d2 == [drive[a] EXCEPT !.state = "FAULT", !.edge = FALSE]
  <2>1. /\ d2 \in Drive /\ d2.word = drive[a].word /\ d2.target = drive[a].target
        /\ d2.state = "FAULT"
    BY <1>0 DEF Drive, DriveStates
  <2>2. DriveChange(a, d2)
    BY <1>3 DEF DriveFaults
  <2> HIDE DEF d2
  <2> QED BY <2>1, <2>2, DriveChangeIInv
<1>4. ASSUME NEW a \in Axis, DriveTakesMode(a) PROVE IInv'
  <2> DEFINE d2 == [drive[a] EXCEPT !.csp = TRUE]
  <2>1. /\ d2 \in Drive /\ d2.word = drive[a].word /\ d2.target = drive[a].target
        /\ d2.state = drive[a].state
    BY <1>0 DEF Drive
  <2>2. DriveChange(a, d2)
    BY <1>4 DEF DriveTakesMode
  <2> HIDE DEF d2
  <2> QED BY <2>1, <2>2, DriveChangeIInv
<1>5. ASSUME NEW a \in Axis, NEW p \in Position, DriveMoves(a, p) PROVE IInv'
  <2> DEFINE d2 == [drive[a] EXCEPT !.position = p]
  <2>1. /\ d2 \in Drive /\ d2.word = drive[a].word /\ d2.target = drive[a].target
        /\ d2.state = drive[a].state
    BY <1>0 DEF Drive
  <2>2. DriveChange(a, d2)
    BY <1>5 DEF DriveMoves
  <2> HIDE DEF d2
  <2> QED BY <2>1, <2>2, DriveChangeIInv
<1>6. CASE UNCHANGED vars
  BY <1>6 DEF vars, history, IInv, TypeOK
<1> QED BY <1>1, <1>2, <1>3, <1>4, <1>5, <1>6 DEF Next, DriveStep

(* The inductive invariant holds in every reachable state.                 *)
THEOREM IInvariant == Spec => []IInv
  BY InitIInv, NextIInv, PTL DEF Spec

(* Types, and no axis waits in a step beyond its limit, whatever drives    *)
(* and frames do.                                                          *)
THEOREM TypeCorrect == Spec => []TypeOK
<1>1. IInv => TypeOK
  BY DEF IInv
<1> QED BY <1>1, IInvariant, PTL

(* Enabling never makes an axis jump: a drive that becomes enabled holds   *)
(* as target a position it reported since it was switched on, unless an    *)
(* image was replayed since sequence and drive were in step last.          *)
THEOREM EnableAtReported == Spec => EnabledAtReportedPosition
<1>1. ASSUME IInv, [Next]_vars
      PROVE  \A a \in Axis :
               /\ drive[a].state # "OPERATION_ENABLED" /\ drive'[a].state = "OPERATION_ENABLED"
               /\ ~replayed[a]
               => drive[a].target \in reported[a]
  <2> SUFFICES ASSUME NEW a \in Axis, drive[a].state # "OPERATION_ENABLED",
                      drive'[a].state = "OPERATION_ENABLED", ~replayed[a]
               PROVE  drive[a].target \in reported[a]
    BY <1>1
  <2>0. /\ drive \in [Axis -> Drive] /\ output \in [Axis -> Output]
        /\ drive[a] \in Drive /\ output[a] \in Output
    BY <1>1 DEF IInv, TypeOK
  <2>1. ~Cycle
    <3> SUFFICES ASSUME NEW reached \in SUBSET Axis, NEW outcome \in Outcomes,
                        PdoCycle(reached, outcome)
                 PROVE  FALSE
      BY DEF Cycle
    <3>1. drive'[a] = IF a \in reached THEN Received(drive[a], output[a]) ELSE drive[a]
      BY DEF PdoCycle
    <3> QED BY <2>0, <3>1, ReceivedType
  <2>2. ~\E b \in Axis : DriveFaults(b)
    BY <2>0 DEF DriveFaults, DriveChange, Drive
  <2>3. ~\E b \in Axis : DriveTakesMode(b)
    <3> SUFFICES ASSUME NEW b \in Axis, DriveTakesMode(b) PROVE FALSE
      OBVIOUS
    <3> DEFINE d2 == [drive[b] EXCEPT !.csp = TRUE]
    <3>1. d2.state = drive[b].state
      BY <2>0 DEF Drive
    <3>2. drive' = [drive EXCEPT ![b] = d2]
      BY DEF DriveTakesMode, DriveChange
    <3> HIDE DEF d2
    <3> QED BY <2>0, <3>1, <3>2
  <2>4. ~\E b \in Axis, p \in Position : DriveMoves(b, p)
    BY <2>0 DEF DriveMoves, DriveChange, Drive
  <2>5. drive' # drive
    OBVIOUS
  <2>6. PICK b \in Axis : DriveObeys(b)
    BY <1>1, <2>1, <2>2, <2>3, <2>4, <2>5 DEF Next, DriveStep, vars
  <2>7. b = a /\ Obeyed(drive[a]) = "OPERATION_ENABLED"
    BY <2>0, <2>6 DEF DriveObeys, DriveChange, Drive
  <2>8. drive[a].state = "SWITCHED_ON" /\ drive[a].word = "ENABLE_OPERATION"
    BY <2>0, <2>7, ObeyedCases
  <2> QED BY <1>1, <2>8 DEF IInv, AxisInv, TargetsReported
<1> QED BY <1>1, IInvariant, PTL DEF Spec, EnabledAtReportedPosition
=============================================================================
