--------------------------- MODULE EthercatMotion ---------------------------
(***************************************************************************)
(* The motion scheduler of axis 1 (app/ethercat_motion.c).                 *)
(*                                                                         *)
(* Application tasks (the TCP host task, the key task) hand a request to   *)
(* the PDO task through the single-slot mailbox s_request; the PDO task    *)
(* takes it in ethercat_motion_process, once per 2 ms cycle, advances the  *)
(* S-curve segment or the reciprocating state machine and writes the CSP   *)
(* target position into the output image.                                  *)
(*                                                                         *)
(* Atomicity.  Every API call writes the shared state in one critical      *)
(* section, together with what it reads of it, the motor parameters it     *)
(* checked the velocity against excepted.  The PDO task has a higher       *)
(* priority than every API caller and does not block inside                *)
(* ethercat_motion_process, on a single core.  So an API call is one       *)
(* action, whose velocity check may be stale, and a PDO cycle is one.      *)
(*                                                                         *)
(* Abstraction.  Velocities, positions and intervals of a request come     *)
(* from small sets.  The S-curve arithmetic is an oracle: `plan' is the    *)
(* number of cycles the planner computes (0: it refuses the segment) and   *)
(* `cmd' the interpolated command, any value the clamp lets through.       *)
(* Acceleration and jerk reach only the planner; a request whose           *)
(* acceleration or jerk is not positive is refused like one whose velocity *)
(* is not, so velocity 0 stands for the three.                             *)
(***************************************************************************)
EXTENDS Integers

CONSTANTS
  INT32_MIN, INT32_MAX,              \* range of an encoder position
  UINT32_MODULUS,                    \* 2^32: where completed_count wraps
  FloatExact,                        \* 2^24: integers up to it are exact floats
  MOTION_POSITION_TOLERANCE_COUNTS,  \* in-position window
  MOTION_POSITION_STABLE_CYCLES,     \* cycles in the window before DONE
  MaxTotalCycles,                    \* bound: longest segment the planner returns
  PositionMm,                        \* positions a caller passes, in 1/MmDivisor mm
  MmDivisor,
  NotFinite,                         \* a NaN or infinite position
  VelocityMmS,                       \* velocities a caller passes; 0: not positive
  ZERO_RETURN_VELOCITY_MM_S,         \* ETHERCAT_MOTION_ZERO_RETURN_VELOCITY_MM_S
  IntervalMs, RepeatCount,           \* dwell times and repeat counts a caller passes
  MotorParams,                       \* motor settings: counts per mm, largest velocity
  NoParams                           \* s_motor_params_ready = 0

ASSUME MotionAssumption ==
  /\ INT32_MIN \in Int /\ INT32_MAX \in Int /\ INT32_MIN <= 0 /\ 0 <= INT32_MAX
  /\ UINT32_MODULUS \in Nat \ {0}
  /\ FloatExact \in Nat \ {0}
  /\ INT32_MAX <= 256 * FloatExact /\ -INT32_MIN <= 256 * FloatExact
  /\ MOTION_POSITION_TOLERANCE_COUNTS \in Nat
  /\ MOTION_POSITION_STABLE_CYCLES \in Nat /\ MOTION_POSITION_STABLE_CYCLES >= 2
  /\ MaxTotalCycles \in Nat \ {0}
  /\ PositionMm \subseteq Int \cup {NotFinite} /\ NotFinite \notin Int
  /\ MmDivisor \in Nat \ {0}
  /\ VelocityMmS \subseteq Nat /\ ZERO_RETURN_VELOCITY_MM_S \in Nat \ {0}
  /\ IntervalMs \subseteq Nat
  /\ RepeatCount \subseteq 0..(UINT32_MODULUS - 1)
  /\ MotorParams \subseteq [counts_per_mm : Nat \ {0}, max_velocity : Nat \ {0}]
  /\ NoParams \notin MotorParams

VARIABLES
  s_request,               \* the single-slot mailbox
  s_control,               \* scheduling state and the current command
  s_trajectory,            \* the running S-curve segment
  s_recip,                 \* the reciprocating state machine
  s_software_zero_counts,
  s_motor_params,
  params_seen,             \* the values s_motor_params has had: see
                           \* motion_request_validate
  s_motion_initialized,
  input1s,                 \* TxPDO image of axis 1
  TargetPos                \* output1s->TargetPos, 0x607A of axis 1

vars == <<s_request, s_control, s_trajectory, s_recip, s_software_zero_counts,
          s_motor_params, params_seen, s_motion_initialized, input1s, TargetPos>>

-----------------------------------------------------------------------------
(* Types.                                                                  *)

Int32 == INT32_MIN..INT32_MAX
SingleModes == {"MOVE_ABS", "MOVE_REL", "JOG"}
Modes == SingleModes \cup {"IDLE", "RECIP", "STOP"}
RECIP_FOREVER == 0

Request ==
  [pending : BOOLEAN,
   action : {"START", "PAUSE", "CONTINUE", "ABORT"},
   mode : Modes,
   absolute_reference : {"SOFTWARE_ZERO", "ENCODER_ZERO"},
   position_mm : Int \cup {NotFinite},
   velocity_mm_s : Nat,
   first_interval_ms : Nat,
   second_interval_ms : Nat,
   repeat_count : 0..(UINT32_MODULUS - 1)]

Control ==
  [mode : Modes, busy : BOOLEAN, done : BOOLEAN, error : BOOLEAN,
   paused : BOOLEAN, command_counts : Int32, target_counts : Int32]

(* command_counts of the trajectory is always copied to s_control in the   *)
(* same step, so s_control.command_counts stands for both.                 *)
Trajectory ==
  [running : BOOLEAN, waiting_actual : BOOLEAN,
   cycle_index : 0..MaxTotalCycles, total_cycles : 0..MaxTotalCycles,
   actual_stable_cycles : 0..MOTION_POSITION_STABLE_CYCLES,
   start_counts : Int32, target_counts : Int32]

Stages == {"IDLE", "MOVE_OUT", "WAIT_FIRST", "MOVE_BACK", "WAIT_SECOND"}

Recip ==
  [active : BOOLEAN, stage : Stages,
   start_counts : Int32, end_counts : Int32, velocity_mm_s : Nat,
   first_interval_cycles : Nat, second_interval_cycles : Nat,
   wait_cycles : Nat,
   repeat_count : 0..(UINT32_MODULUS - 1),
   completed_count : 0..(UINT32_MODULUS - 1)]

(* csp_enabled: StatusWord & MASK = OPERATION_ENABLED and OpModeNow = 8.   *)
InputImage == [CurrentPosition : Int32, csp_enabled : BOOLEAN]

(* What the PDO task may change besides the mailbox, as one value, so that *)
(* each function of the scheduler is an operator from state to state.      *)
MotionState == [control : Control, trajectory : Trajectory, recip : Recip]

EmptyRequest ==
  [pending |-> FALSE, action |-> "START", mode |-> "IDLE",
   absolute_reference |-> "SOFTWARE_ZERO", position_mm |-> 0,
   velocity_mm_s |-> 0, first_interval_ms |-> 0, second_interval_ms |-> 0,
   repeat_count |-> 0]

-----------------------------------------------------------------------------
(* Single-precision arithmetic on counts.                                  *)

Abs(x) == IF x < 0 THEN -x ELSE x

Saturate(x) == IF x > INT32_MAX THEN INT32_MAX
               ELSE IF x < INT32_MIN THEN INT32_MIN ELSE x

(* The spacing of floats at |c|: it doubles with every binade above        *)
(* FloatExact, 2^31 being 2^7 * 2^24.                                      *)
Spacings == {1, 2, 4, 8, 16, 32, 64, 128, 256}

Spacing(c) ==
  CHOOSE q \in Spacings :
    /\ q = 256 \/ Abs(c) <= FloatExact * q
    /\ \A p \in Spacings : Abs(c) <= FloatExact * p => q <= p

(* (float) c: the nearest multiple of the spacing; ties go to even.        *)
Float32(c) ==
  LET q == Spacing(c)
      n == Abs(c) \div q
      r == Abs(c) % q
      up == 2 * r > q \/ (2 * r = q /\ n % 2 = 1)
      v == q * (IF up THEN n + 1 ELSE n)
  IN IF c < 0 THEN -v ELSE v

(* (int32_t) (f +/- 0.5f) of an integral float: in the last exact binade   *)
(* the sum is a tie that rounds an odd value away; the cast saturates.     *)
FloatToCounts(f) ==
  LET tie == FloatExact <= 2 * Abs(f) /\ Abs(f) < FloatExact /\ f % 2 = 1
  IN Saturate(IF ~tie THEN f ELSE IF f < 0 THEN f - 1 ELSE f + 1)

(* Round half away from zero of a / b, for b > 0.                          *)
RoundHalfAway(a, b) ==
  LET n == (2 * Abs(a) + b) \div (2 * b) IN IF a < 0 THEN -n ELSE n

(* motion_mm_to_counts: accepted positions, and what they convert to.      *)
MmConvertible(position_mm) ==
  /\ position_mm # NotFinite
  /\ LET scaled == position_mm * s_motor_params.counts_per_mm
     IN /\ scaled <= Float32(INT32_MAX) * MmDivisor
        /\ scaled >= Float32(INT32_MIN) * MmDivisor

motion_mm_to_counts(position_mm) ==
  LET scaled == position_mm * s_motor_params.counts_per_mm
  IN FloatToCounts(Float32(RoundHalfAway(scaled, MmDivisor)))

(* motion_position_target_get: the absolute target of a single move; a     *)
(* value outside Int32 is the code's ERR_LIMIT.                            *)
motion_position_target_get(req, actual) ==
  motion_mm_to_counts(req.position_mm)
    + CASE req.mode # "MOVE_ABS" -> actual
        [] req.mode = "MOVE_ABS" /\ req.absolute_reference = "SOFTWARE_ZERO" ->
             s_software_zero_counts
        [] OTHER -> 0

MOTION_MS_TO_CYCLES(ms) == (ms \div 2) + (ms % 2)

-----------------------------------------------------------------------------
(* Ends of a motion.                                                       *)

(* Mutants: the reciprocating stage survives; the command becomes the      *)
(* target instead of the actual position.                                  *)
hold_keeps_recip(m, actual, done) ==
  [control |-> [mode |-> "STOP", busy |-> FALSE, done |-> done, error |-> ~done,
                paused |-> FALSE, command_counts |-> actual,
                target_counts |-> actual],
   trajectory |-> [m.trajectory EXCEPT !.running = FALSE, !.waiting_actual = FALSE],
   recip |-> m.recip]

hold_at_target(m, actual, done) ==
  [control |-> [mode |-> "STOP", busy |-> FALSE, done |-> done, error |-> ~done,
                paused |-> FALSE, command_counts |-> m.control.target_counts,
                target_counts |-> m.control.target_counts],
   trajectory |-> [m.trajectory EXCEPT !.running = FALSE, !.waiting_actual = FALSE],
   recip |-> [m.recip EXCEPT !.active = FALSE, !.stage = "IDLE"]]

(* Common to abort and error: the trajectory is dropped and the command    *)
(* becomes the actual position.                                            *)
HoldActual(m, actual, done) ==
  [control |-> [mode |-> "STOP", busy |-> FALSE, done |-> done, error |-> ~done,
                paused |-> FALSE, command_counts |-> actual,
                target_counts |-> actual],
   trajectory |-> [m.trajectory EXCEPT !.running = FALSE, !.waiting_actual = FALSE],
   recip |-> [m.recip EXCEPT !.active = FALSE, !.stage = "IDLE"]]

(* Mutant: an abort is reported as an error.                               *)
abort_as_error(m, actual) == HoldActual(m, actual, FALSE)

motion_abort_apply(m, actual) == HoldActual(m, actual, TRUE)

motion_finish_error(m, actual) == HoldActual(m, actual, FALSE)

motion_finish_success(m) ==
  [m EXCEPT !.control = [@ EXCEPT !.mode = "IDLE", !.busy = FALSE, !.done = TRUE,
                                  !.error = FALSE, !.paused = FALSE]]

-----------------------------------------------------------------------------
(* One S-curve segment.                                                    *)

(* motion_trajectory_start from the current command to target.  The        *)
(* planner may refuse (plan = 0) unless the two coincide.                  *)
Plannable(m, target, plan) == target = m.control.command_counts \/ plan > 0

motion_trajectory_start(m, target, plan) ==
  LET start == m.control.command_counts
      segment ==
        IF target = start
        THEN [m.trajectory EXCEPT !.running = FALSE, !.waiting_actual = TRUE,
                                  !.actual_stable_cycles = 0,
                                  !.start_counts = start, !.target_counts = target]
        ELSE [running |-> TRUE, waiting_actual |-> FALSE,
              cycle_index |-> 0, total_cycles |-> plan,
              actual_stable_cycles |-> 0,
              start_counts |-> start, target_counts |-> target]
  IN [m EXCEPT !.trajectory = segment,
               !.control = [@ EXCEPT !.target_counts = target]]

(* The interpolated commands the clamp and the rounding of                 *)
(* motion_segment_process let through on the way from start to target.     *)
ClampedCommands(t) ==
  LET a == Float32(t.start_counts)
      b == Float32(t.target_counts)
  IN {FloatToCounts(c) : c \in (IF a <= b THEN a..b ELSE b..a)}

(* Mutant: the last cycle is never reached (> for >=).                     *)
advance_past_end(m, cmd) ==
  LET t == m.trajectory
      index == IF t.cycle_index < t.total_cycles THEN t.cycle_index + 1
               ELSE t.cycle_index
  IN IF ~t.running THEN m
     ELSE IF index > t.total_cycles
     THEN [m EXCEPT !.trajectory = [t EXCEPT !.running = FALSE, !.waiting_actual = TRUE],
                    !.control = [@ EXCEPT !.command_counts = t.target_counts]]
     ELSE [m EXCEPT !.trajectory = [t EXCEPT !.cycle_index = index],
                    !.control = [@ EXCEPT !.command_counts = cmd]]

(* First half of motion_segment_process: the next command, `cmd' except in *)
(* the last cycle, which outputs the exact target.                         *)
SegmentAdvance(m, cmd) ==
  LET t == m.trajectory
      index == IF t.cycle_index < t.total_cycles THEN t.cycle_index + 1
               ELSE t.cycle_index
  IN IF ~t.running THEN m
     ELSE IF index >= t.total_cycles
     THEN [m EXCEPT
             !.trajectory = [t EXCEPT !.cycle_index = index, !.running = FALSE,
                                      !.waiting_actual = TRUE,
                                      !.actual_stable_cycles = 0],
             !.control = [@ EXCEPT !.command_counts = t.target_counts]]
     ELSE [m EXCEPT
             !.trajectory = [t EXCEPT !.cycle_index = index],
             !.control = [@ EXCEPT !.command_counts = cmd]]

InWindow(t, actual) ==
  Abs(actual - t.target_counts) <= MOTION_POSITION_TOLERANCE_COUNTS

(* Mutant: the cycles are counted without looking at the actual position.  *)
settle_unchecked(m, actual, cmd) ==
  LET n == SegmentAdvance(m, cmd)
      t == n.trajectory
      stable == t.actual_stable_cycles + 1
  IN IF ~t.waiting_actual THEN n
     ELSE [n EXCEPT !.trajectory =
             [t EXCEPT !.actual_stable_cycles = stable,
                       !.waiting_actual = stable < MOTION_POSITION_STABLE_CYCLES]]

(* motion_segment_process: the new state, and whether it returned DONE.    *)
motion_segment_process(m, actual, cmd) ==
  LET n == SegmentAdvance(m, cmd)
      t == n.trajectory
      stable == IF InWindow(t, actual) THEN t.actual_stable_cycles + 1 ELSE 0
  IN IF ~t.waiting_actual THEN n
     ELSE IF stable < MOTION_POSITION_STABLE_CYCLES
     THEN [n EXCEPT !.trajectory = [t EXCEPT !.actual_stable_cycles = stable]]
     ELSE [n EXCEPT !.trajectory = [t EXCEPT !.actual_stable_cycles = stable,
                                             !.waiting_actual = FALSE]]

SegmentDone(m, actual, cmd) ==
  LET n == SegmentAdvance(m, cmd)
  IN /\ n.trajectory.waiting_actual
     /\ ~motion_segment_process(m, actual, cmd).trajectory.waiting_actual

-----------------------------------------------------------------------------
(* Starting a motion, and the reciprocating state machine.                 *)

Started(m, mode) ==
  [m EXCEPT !.control = [@ EXCEPT !.mode = mode, !.busy = TRUE, !.done = FALSE,
                                  !.error = FALSE, !.paused = FALSE]]

(* Mutant: the target is not checked against the range of an int32.        *)
single_start_unlimited(m, req, actual, plan) ==
  LET target == motion_position_target_get(req, actual)
  IN IF MmConvertible(req.position_mm) /\ Plannable(m, target, plan)
     THEN Started(motion_trajectory_start(m, target, plan), req.mode)
     ELSE motion_finish_error(m, actual)

motion_single_start(m, req, actual, plan) ==
  LET target == motion_position_target_get(req, actual)
  IN IF /\ MmConvertible(req.position_mm)
        /\ target \in Int32
        /\ Plannable(m, target, plan)
     THEN Started(motion_trajectory_start(m, target, plan), req.mode)
     ELSE motion_finish_error(m, actual)

motion_recip_start_internal(m, req, actual, plan) ==
  LET offset == motion_mm_to_counts(req.position_mm)
      end == actual + offset
      begun == [m EXCEPT !.recip =
                  [active |-> TRUE, stage |-> "MOVE_OUT",
                   start_counts |-> actual, end_counts |-> end,
                   velocity_mm_s |-> req.velocity_mm_s,
                   first_interval_cycles |-> MOTION_MS_TO_CYCLES(req.first_interval_ms),
                   second_interval_cycles |-> MOTION_MS_TO_CYCLES(req.second_interval_ms),
                   wait_cycles |-> 0,
                   repeat_count |-> req.repeat_count,
                   completed_count |-> 0]]
  IN IF ~MmConvertible(req.position_mm) THEN motion_finish_error(m, actual)
     ELSE IF offset = 0 \/ end \notin Int32 THEN motion_finish_error(m, actual)
     ELSE IF ~Plannable(m, end, plan) THEN motion_finish_error(begun, actual)
     ELSE Started(motion_trajectory_start(begun, end, plan), "RECIP")

(* motion_recip_move_start and the stage change after it, or the error.    *)
motion_recip_move_start(m, target, stage, actual, plan) ==
  IF Plannable(m, target, plan)
  THEN [motion_trajectory_start(m, target, plan) EXCEPT !.recip.stage = stage]
  ELSE motion_finish_error(m, actual)

Dwell(m, stage, cycles) ==
  [m EXCEPT !.recip = [@ EXCEPT !.stage = stage, !.wait_cycles = cycles]]

(* The last round trip is over.                                            *)
RecipFinished(m) ==
  LET over == [m.recip EXCEPT !.active = FALSE, !.stage = "IDLE"]
  IN motion_finish_success([m EXCEPT !.recip = over])

(* A leg of the reciprocating motion has arrived.                          *)
RecipArrived(m, actual, plan) ==
  LET r == m.recip
      completed == (r.completed_count + 1) % UINT32_MODULUS
      last == r.repeat_count # RECIP_FOREVER /\ completed >= r.repeat_count
      counted == [m EXCEPT !.recip.completed_count = completed]
  IN CASE r.stage = "MOVE_OUT" /\ r.first_interval_cycles > 0 ->
            Dwell(m, "WAIT_FIRST", r.first_interval_cycles)
       [] r.stage = "MOVE_OUT" /\ r.first_interval_cycles = 0 ->
            motion_recip_move_start(m, r.start_counts, "MOVE_BACK", actual, plan)
       [] r.stage = "MOVE_BACK" /\ last ->
            RecipFinished(counted)
       [] r.stage = "MOVE_BACK" /\ ~last /\ r.second_interval_cycles > 0 ->
            Dwell(counted, "WAIT_SECOND", r.second_interval_cycles)
       [] OTHER ->
            motion_recip_move_start(counted, r.end_counts, "MOVE_OUT", actual, plan)

(* Mutants: the leg back starts towards the wrong end; the dwell counter   *)
(* never runs down.                                                        *)
wait_wrong_end(m, actual, plan) ==
  LET r == m.recip
      left == IF r.wait_cycles > 0 THEN r.wait_cycles - 1 ELSE 0
      n == [m EXCEPT !.recip.wait_cycles = left]
  IN IF left > 0 THEN n
     ELSE motion_recip_move_start(n, r.end_counts,
            IF r.stage = "WAIT_FIRST" THEN "MOVE_BACK" ELSE "MOVE_OUT", actual, plan)

wait_forever(m, actual, plan) == m

(* A cycle of a dwell: the counter runs down and the next leg starts.      *)
RecipWait(m, actual, plan) ==
  LET r == m.recip
      left == IF r.wait_cycles > 0 THEN r.wait_cycles - 1 ELSE 0
      n == [m EXCEPT !.recip.wait_cycles = left]
  IN CASE left > 0 -> n
       [] left = 0 /\ r.stage = "WAIT_FIRST" ->
            motion_recip_move_start(n, r.start_counts, "MOVE_BACK", actual, plan)
       [] OTHER ->
            motion_recip_move_start(n, r.end_counts, "MOVE_OUT", actual, plan)

motion_recip_process(m, actual, cmd, plan) ==
  LET seg == motion_segment_process(m, actual, cmd)
  IN CASE m.recip.stage = "IDLE" -> motion_finish_error(m, actual)
       [] m.recip.stage \in {"WAIT_FIRST", "WAIT_SECOND"} -> RecipWait(m, actual, plan)
       [] m.recip.stage \in {"MOVE_OUT", "MOVE_BACK"} ->
            IF SegmentDone(m, actual, cmd) THEN RecipArrived(seg, actual, plan)
            ELSE seg

-----------------------------------------------------------------------------
(* Requests, taken by the PDO task.                                        *)

(* A START during a pause gives up the held trajectory first.              *)
DropPaused(m) ==
  IF ~m.control.paused THEN m
  ELSE [m EXCEPT
          !.trajectory = [@ EXCEPT !.running = FALSE, !.waiting_actual = FALSE],
          !.recip = [@ EXCEPT !.active = FALSE, !.stage = "IDLE"],
          !.control = [@ EXCEPT !.paused = FALSE]]

Paused(m, flag) ==
  [m EXCEPT !.control = [@ EXCEPT !.busy = TRUE, !.paused = flag,
                                  !.done = FALSE, !.error = FALSE]]

motion_request_apply(m, req, actual, plan) ==
  CASE req.action = "PAUSE" /\ m.control.busy -> Paused(m, TRUE)
    [] req.action = "PAUSE" /\ ~m.control.busy -> motion_abort_apply(m, actual)
    [] req.action = "CONTINUE" ->
         IF m.control.busy /\ m.control.paused THEN Paused(m, FALSE) ELSE m
    [] req.action = "ABORT" -> motion_abort_apply(m, actual)
    [] req.action = "START" /\ req.mode = "RECIP" ->
         motion_recip_start_internal(DropPaused(m), req, actual, plan)
    [] req.action = "START" /\ req.mode # "RECIP" ->
         motion_single_start(DropPaused(m), req, actual, plan)

(* Mutant: a paused motion is advanced.                                    *)
advance_when_paused(m, actual, cmd, plan) ==
  IF ~m.control.busy THEN m
  ELSE IF m.control.mode = "RECIP" THEN motion_recip_process(m, actual, cmd, plan)
  ELSE LET seg == motion_segment_process(m, actual, cmd)
       IN IF SegmentDone(m, actual, cmd) THEN motion_finish_success(seg) ELSE seg

(* The second half of ethercat_motion_process: advance what is running.    *)
MotionAdvance(m, actual, cmd, plan) ==
  IF ~m.control.busy \/ m.control.paused THEN m
  ELSE IF m.control.mode = "RECIP" THEN motion_recip_process(m, actual, cmd, plan)
  ELSE LET seg == motion_segment_process(m, actual, cmd)
       IN IF SegmentDone(m, actual, cmd) THEN motion_finish_success(seg) ELSE seg

(* Mutant: the command is never aligned with the axis.                     *)
never_aligned(actual) ==
  [control |-> s_control, trajectory |-> s_trajectory, recip |-> s_recip]

(* The first cycle aligns the command with the actual position.            *)
MotionAligned(actual) ==
  [control |-> IF s_motion_initialized THEN s_control
               ELSE [s_control EXCEPT !.command_counts = actual,
                                      !.target_counts = actual],
   trajectory |-> s_trajectory,
   recip |-> s_recip]

-----------------------------------------------------------------------------
(* Actions of the application tasks: an accepted API call.  A refused one  *)
(* returns an error code and changes nothing.                              *)

(* Velocity positive and below the motor's limit, once there is one.       *)
VelocityAllowed(params, velocity) ==
  params # NoParams /\ velocity > 0 /\ velocity <= params.max_velocity

(* motion_request_validate reads s_motor_params before, and outside, the   *)
(* critical section of motion_request_submit, and the calling task may be  *)
(* preempted between the two for any time.  When the request is submitted  *)
(* the check may have been against any parameters there have been.         *)
motion_request_validate(velocity) ==
  \E params \in params_seen : VelocityAllowed(params, velocity)

(* Mutants: a request is accepted while a motion runs; over a waiting one. *)
submit_while_busy(request) ==
  /\ ~s_request.pending
  /\ s_request' = [request EXCEPT !.pending = TRUE]
  /\ UNCHANGED <<s_control, s_trajectory, s_recip, s_software_zero_counts,
                 s_motor_params, params_seen, s_motion_initialized, input1s, TargetPos>>

submit_over_pending(request) ==
  /\ ~s_control.busy \/ s_control.paused
  /\ s_request' = [request EXCEPT !.pending = TRUE]
  /\ UNCHANGED <<s_control, s_trajectory, s_recip, s_software_zero_counts,
                 s_motor_params, params_seen, s_motion_initialized, input1s, TargetPos>>

motion_request_submit(request) ==
  /\ ~s_request.pending
  /\ ~s_control.busy \/ s_control.paused
  /\ s_request' = [request EXCEPT !.pending = TRUE]
  /\ UNCHANGED <<s_control, s_trajectory, s_recip, s_software_zero_counts,
                 s_motor_params, params_seen, s_motion_initialized, input1s, TargetPos>>

ethercat_motion_motor_params_set(params) ==
  /\ ~s_control.busy /\ ~s_request.pending
  /\ s_motor_params' = params
  /\ params_seen' = params_seen \cup {params}
  /\ UNCHANGED <<s_request, s_control, s_trajectory, s_recip,
                 s_software_zero_counts, s_motion_initialized, input1s, TargetPos>>

ethercat_motion_command_set(mode, position_mm, velocity) ==
  /\ motion_request_validate(velocity)
  /\ motion_request_submit([EmptyRequest EXCEPT !.mode = mode,
                                                !.position_mm = position_mm,
                                                !.velocity_mm_s = velocity])

ethercat_motion_mechanical_zero_return ==
  /\ motion_request_validate(ZERO_RETURN_VELOCITY_MM_S)
  /\ motion_request_submit([EmptyRequest EXCEPT !.mode = "MOVE_ABS",
                                                !.absolute_reference = "ENCODER_ZERO",
                                                !.velocity_mm_s = ZERO_RETURN_VELOCITY_MM_S])

ethercat_motion_software_zero_return ==
  ethercat_motion_command_set("MOVE_ABS", 0, ZERO_RETURN_VELOCITY_MM_S)

ethercat_motion_recip_start(offset_mm, velocity, first_ms, second_ms, repeat) ==
  /\ motion_request_validate(velocity)
  /\ motion_request_submit([EmptyRequest EXCEPT !.mode = "RECIP",
                                                !.position_mm = offset_mm,
                                                !.velocity_mm_s = velocity,
                                                !.first_interval_ms = first_ms,
                                                !.second_interval_ms = second_ms,
                                                !.repeat_count = repeat])

ethercat_motion_software_zero_set ==
  /\ s_motion_initialized /\ input1s.csp_enabled
  /\ ~s_request.pending /\ ~s_control.busy
  /\ s_software_zero_counts' = input1s.CurrentPosition
  /\ UNCHANGED <<s_request, s_control, s_trajectory, s_recip, s_motor_params,
                 params_seen, s_motion_initialized, input1s, TargetPos>>

(* stop, continue and abort overwrite action, mode and pending of the slot *)
(* only.  What the other fields still hold is never read for these actions *)
(* and a START writes every field, so the model clears them.               *)
PostAction(action) ==
  /\ s_request' = [EmptyRequest EXCEPT !.action = action, !.mode = "STOP",
                                       !.pending = TRUE]
  /\ UNCHANGED <<s_control, s_trajectory, s_recip, s_software_zero_counts,
                 s_motor_params, params_seen, s_motion_initialized, input1s, TargetPos>>

ethercat_motion_stop ==
  /\ ~s_request.pending
  /\ s_control.busy /\ ~s_control.paused
  /\ PostAction("PAUSE")

ethercat_motion_continue ==
  /\ ~s_request.pending
  /\ s_control.busy /\ s_control.paused
  /\ PostAction("CONTINUE")

ethercat_motion_abort ==
  /\ s_request.pending \/ s_control.busy
  /\ PostAction("ABORT")

-----------------------------------------------------------------------------
(* The PDO task: one cycle with the input image just received.  The taken  *)
(* slot is emptied; its fields are dead until the next request.            *)

motion_target_output_write(command) == TargetPos' = Saturate(command)

(* motion_request_fetch: a request is taken in a cycle with CSP enabled.   *)
motion_request_fetch(image) == image.csp_enabled /\ s_request.pending

ethercat_motion_process(image, cmd, plan) ==
  LET actual == image.CurrentPosition
      aligned == MotionAligned(actual)
      applied == IF motion_request_fetch(image)
                 THEN motion_request_apply(aligned, s_request, actual, plan)
                 ELSE aligned
      next == IF image.csp_enabled THEN MotionAdvance(applied, actual, cmd, plan)
              ELSE applied
  IN /\ cmd \in IF applied.trajectory.running
               THEN ClampedCommands(applied.trajectory)
               ELSE {applied.control.command_counts}
     /\ input1s' = image
     /\ s_motion_initialized' = TRUE
     /\ s_request' = IF motion_request_fetch(image) THEN EmptyRequest ELSE s_request
     /\ s_control' = next.control
     /\ s_trajectory' = next.trajectory
     /\ s_recip' = next.recip
     /\ motion_target_output_write(next.control.command_counts)
     /\ UNCHANGED <<s_software_zero_counts, s_motor_params, params_seen>>

(* A cycle in which the loop does not call ethercat_motion_process (axis 1 *)
(* is not enabled, or the exchange was incomplete) still refreshes the     *)
(* input image.  The enable sequence may write the target word in such a   *)
(* cycle; here TargetPos is the scheduler's own last word, and PdoLoop has *)
(* the two writers together.                                               *)
InputRefreshed(image) ==
  /\ input1s' = image
  /\ UNCHANGED <<s_request, s_control, s_trajectory, s_recip, s_software_zero_counts,
                 s_motor_params, params_seen, s_motion_initialized, TargetPos>>

-----------------------------------------------------------------------------
Init ==
  /\ s_request = EmptyRequest
  /\ s_control = [mode |-> "IDLE", busy |-> FALSE, done |-> FALSE, error |-> FALSE,
                  paused |-> FALSE, command_counts |-> 0, target_counts |-> 0]
  /\ s_trajectory = [running |-> FALSE, waiting_actual |-> FALSE,
                     cycle_index |-> 0, total_cycles |-> 0,
                     actual_stable_cycles |-> 0,
                     start_counts |-> 0, target_counts |-> 0]
  /\ s_recip = [active |-> FALSE, stage |-> "IDLE", start_counts |-> 0,
                end_counts |-> 0, velocity_mm_s |-> 0,
                first_interval_cycles |-> 0, second_interval_cycles |-> 0,
                wait_cycles |-> 0, repeat_count |-> 0, completed_count |-> 0]
  /\ s_software_zero_counts = 0
  /\ s_motor_params = NoParams /\ params_seen = {}
  /\ s_motion_initialized = FALSE
  /\ input1s = [CurrentPosition |-> 0, csp_enabled |-> FALSE]
  /\ TargetPos = 0

Application ==
  \/ \E params \in MotorParams : ethercat_motion_motor_params_set(params)
  \/ \E mode \in SingleModes, p \in PositionMm, v \in VelocityMmS :
       ethercat_motion_command_set(mode, p, v)
  \/ ethercat_motion_mechanical_zero_return
  \/ ethercat_motion_software_zero_return
  \/ \E p \in PositionMm, v \in VelocityMmS, f \in IntervalMs, s \in IntervalMs,
        n \in RepeatCount : ethercat_motion_recip_start(p, v, f, s, n)
  \/ ethercat_motion_software_zero_set
  \/ ethercat_motion_stop
  \/ ethercat_motion_continue
  \/ ethercat_motion_abort

PdoCycle ==
  \/ \E image \in InputImage, cmd \in Int32, plan \in 0..MaxTotalCycles :
       ethercat_motion_process(image, cmd, plan)
  \/ \E image \in InputImage : InputRefreshed(image)

Next == Application \/ PdoCycle

Spec == Init /\ [][Next]_vars

-----------------------------------------------------------------------------
(* Properties.                                                             *)

(* Every variable has the type the C declarations give it.                 *)
TypeOK ==
  /\ s_request \in Request
  /\ s_control \in Control
  /\ s_trajectory \in Trajectory
  /\ s_recip \in Recip
  /\ s_software_zero_counts \in Int32
  /\ s_motor_params \in MotorParams \cup {NoParams}
  /\ params_seen \subseteq MotorParams
  /\ s_motion_initialized \in BOOLEAN
  /\ input1s \in InputImage
  /\ TargetPos \in Int32

Motion == [control |-> s_control, trajectory |-> s_trajectory, recip |-> s_recip]

Moving(t) == t.running \/ t.waiting_actual

(* The flags of s_control agree with each other.                           *)
ControlCoherent(c) ==
  /\ c.paused => c.busy
  /\ c.busy => ~c.done /\ ~c.error
  /\ c.busy <=> c.mode \notin {"IDLE", "STOP"}
  /\ ~(c.done /\ c.error)

(* A segment is generated, or awaited at its target, never both.           *)
TrajectoryCoherent(m) ==
  /\ ~(m.trajectory.running /\ m.trajectory.waiting_actual)
  /\ m.trajectory.running =>
       m.trajectory.cycle_index < m.trajectory.total_cycles
  /\ m.trajectory.waiting_actual =>
       /\ m.control.command_counts = m.trajectory.target_counts
       /\ m.trajectory.actual_stable_cycles < MOTION_POSITION_STABLE_CYCLES
  /\ Moving(m.trajectory) => m.control.target_counts = m.trajectory.target_counts

(* Exactly a busy motion has a segment or a dwell that the PDO cycle will  *)
(* advance: it is never left busy with nothing to run, nor idle with a     *)
(* segment or a reciprocating stage still alive.                           *)
SomethingToAdvance(m) ==
  /\ m.recip.active <=> m.recip.stage # "IDLE"
  /\ m.recip.active <=> m.control.busy /\ m.control.mode = "RECIP"
  /\ Moving(m.trajectory) <=> /\ m.control.busy
                              /\ m.recip.stage \notin {"WAIT_FIRST", "WAIT_SECOND"}
  /\ m.recip.stage \in {"WAIT_FIRST", "WAIT_SECOND"} => m.recip.wait_cycles > 0

(* The handlers of ethercat_motion.c keep control flags, trajectory and    *)
(* reciprocating stage consistent over every sequence of requests, pauses, *)
(* aborts and planner errors.                                              *)
SchedulerCoherent ==
  /\ ControlCoherent(s_control)
  /\ TrajectoryCoherent(Motion)
  /\ SomethingToAdvance(Motion)

(* A pending request is still acceptable when the PDO task takes it: what  *)
(* the API call checked (not busy, or paused; running for a pause; paused  *)
(* for a continue) cannot be undone before motion_request_apply uses it.   *)
RequestStillValid ==
  s_request.pending =>
    /\ s_request.action = "START" => ~s_control.busy \/ s_control.paused
    /\ s_request.action = "PAUSE" => s_control.busy /\ ~s_control.paused
    /\ s_request.action = "CONTINUE" => s_control.busy /\ s_control.paused

(* A reciprocating motion shuttles between exactly its two ends, dwells at *)
(* the right one, and never makes more round trips than asked for.         *)
RecipItinerary(m) ==
  m.recip.active =>
    /\ m.recip.start_counts # m.recip.end_counts
    /\ m.recip.stage = "MOVE_OUT" =>
         /\ m.trajectory.target_counts = m.recip.end_counts
         /\ m.recip.completed_count > 0 =>
              m.trajectory.start_counts = m.recip.start_counts
    /\ m.recip.stage = "WAIT_FIRST" => m.control.command_counts = m.recip.end_counts
    /\ m.recip.stage = "MOVE_BACK" =>
         /\ m.trajectory.start_counts = m.recip.end_counts
         /\ m.trajectory.target_counts = m.recip.start_counts
    /\ m.recip.stage = "WAIT_SECOND" => m.control.command_counts = m.recip.start_counts
    /\ m.recip.repeat_count # RECIP_FOREVER =>
         m.recip.completed_count < m.recip.repeat_count

RecipLegs == RecipItinerary(Motion)

(* While a motion stays paused nothing of it advances: the trajectory, the *)
(* dwell counter, the round trips and the position sent to the drive hold. *)
PauseHolds ==
  [][s_control.paused /\ s_control'.paused =>
       UNCHANGED <<s_trajectory, s_recip, s_control, TargetPos>>]_vars

(* The position sent to the drive never jumps: it moves along a segment    *)
(* that began at the position sent before (in the very first cycle, at the *)
(* actual position), or drops to the actual position (first cycle, abort,  *)
(* error).                                                                 *)
TargetNeverJumps ==
  [][TargetPos' # TargetPos =>
       \/ TargetPos' = input1s'.CurrentPosition
       \/ /\ TargetPos' \in ClampedCommands(s_trajectory')
                              \cup {s_trajectory'.target_counts}
          /\ s_trajectory'.cycle_index <= 1 =>
               s_trajectory'.start_counts =
                 IF s_motion_initialized THEN TargetPos
                 ELSE input1s'.CurrentPosition]_vars

(* An accepted abort cannot be overtaken: it stays in the slot until the   *)
(* PDO task takes it, and taking it stops the motion.                      *)
AbortNotLost ==
  [][s_request.pending /\ s_request.action = "ABORT" =>
       \/ s_request' = s_request
       \/ ~s_request'.pending /\ ~s_control'.busy /\ s_control'.mode = "STOP"]_vars

(* A motion reported done ended at its commanded target with the actual    *)
(* position inside the window, a reciprocating one after exactly           *)
(* repeat_count round trips.                                               *)
DoneMeansArrived ==
  [][s_control.busy /\ ~s_control'.busy /\ s_control'.mode = "IDLE" =>
       /\ TargetPos' = s_control'.target_counts
       /\ InWindow(s_trajectory', input1s'.CurrentPosition)
       /\ s_control.mode = "RECIP" =>
            s_recip'.completed_count = s_recip'.repeat_count]_vars

-----------------------------------------------------------------------------
(* Refinement: the scheduler implements the service its header promises.   *)

Service == INSTANCE MotionService WITH
  slot <- IF s_request.pending THEN s_request.action ELSE "none",
  phase <- IF ~s_control.busy THEN "idle"
           ELSE IF s_control.paused THEN "paused" ELSE "moving",
  outcome <- IF s_control.done THEN "done"
             ELSE IF s_control.error THEN "failed" ELSE "none"

(* Seen through its mailbox and its busy, paused, done and error flags,    *)
(* ethercat_motion.c behaves like MotionService: one motion at a time and  *)
(* every accepted request honoured in the phase it was accepted for.       *)
ImplementsService == Service!ServiceSpec

=============================================================================
