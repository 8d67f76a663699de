------------------------ MODULE EthercatMotion_proofs ------------------------
(***************************************************************************)
(* Proofs about EthercatMotion, for every value of its constants.          *)
(*                                                                         *)
(* Every function of the scheduler maps a motion state to a motion state.  *)
(* MotionInv is the invariant of such a state; one lemma per function says *)
(* that it preserves MotionInv, and the step of the PDO task follows by    *)
(* composing them.  The mailbox is added on top: RequestStillValid needs   *)
(* only how a step changes busy and paused.                                *)
(***************************************************************************)
EXTENDS EthercatMotion, TLAPS

(* The part of the inductive invariant that the scheduler's functions      *)
(* maintain.                                                               *)
MotionInv(m) ==
  /\ m \in MotionState
  /\ ControlCoherent(m.control)
  /\ TrajectoryCoherent(m)
  /\ SomethingToAdvance(m)
  /\ RecipItinerary(m)

(* A motion state with nothing left to advance, from which a new motion    *)
(* may be started: what DropPaused leaves.                                 *)
Startable(m) ==
  /\ m \in MotionState
  /\ ~Moving(m.trajectory)
  /\ ~m.recip.active /\ m.recip.stage = "IDLE"
  /\ ~m.control.paused

-----------------------------------------------------------------------------
(* HoldActual (abort, error) yields a coherent idle state.                 *)
LEMMA HoldActualInv ==
  ASSUME NEW m \in MotionState, NEW actual \in Int32, NEW done \in BOOLEAN
  PROVE  /\ MotionInv(HoldActual(m, actual, done))
         /\ ~HoldActual(m, actual, done).control.busy
<1> DEFINE h == HoldActual(m, actual, done)
<1>1. h \in MotionState
  BY DEF HoldActual, MotionState, Control, Trajectory, Recip, Modes, SingleModes, Stages
<1>2. ControlCoherent(h.control) /\ ~h.control.busy
  BY DEF HoldActual, ControlCoherent, Modes
<1>3. TrajectoryCoherent(h) /\ SomethingToAdvance(h) /\ RecipItinerary(h)
  BY DEF HoldActual, TrajectoryCoherent, SomethingToAdvance, RecipItinerary, Moving,
         MotionState, Trajectory, Recip
<1> QED BY <1>1, <1>2, <1>3 DEF MotionInv

(* motion_finish_success on a state whose segment is over and whose        *)
(* reciprocation, if any, was closed.                                      *)
LEMMA FinishSuccessInv ==
  ASSUME NEW m \in MotionState, ~Moving(m.trajectory),
         ~m.recip.active, m.recip.stage = "IDLE"
  PROVE  /\ MotionInv(motion_finish_success(m))
         /\ ~motion_finish_success(m).control.busy
<1> DEFINE h == motion_finish_success(m)
<1>1. h \in MotionState
  BY DEF motion_finish_success, MotionState, Control, Modes, SingleModes
<1>2. ControlCoherent(h.control) /\ ~h.control.busy
  BY DEF motion_finish_success, ControlCoherent, MotionState, Control
<1>3. TrajectoryCoherent(h) /\ SomethingToAdvance(h) /\ RecipItinerary(h)
  BY DEF motion_finish_success, TrajectoryCoherent, SomethingToAdvance,
         RecipItinerary, Moving, MotionState, Trajectory, Recip, Control
<1> QED BY <1>1, <1>2, <1>3 DEF MotionInv

(* What motion_trajectory_start does to the segment.                       *)
LEMMA TrajectoryStart ==
  ASSUME NEW m \in MotionState, NEW target \in Int32,
         NEW plan \in 0..MaxTotalCycles, Plannable(m, target, plan)
  PROVE  LET n == motion_trajectory_start(m, target, plan)
         IN /\ n \in MotionState
            /\ TrajectoryCoherent(n)
            /\ Moving(n.trajectory)
            /\ n.trajectory.target_counts = target
            /\ n.trajectory.start_counts = m.control.command_counts
<1> DEFINE n == motion_trajectory_start(m, target, plan)
           c == [m.control EXCEPT !.target_counts = target]
<1> USE MotionAssumption DEF MotionAssumption
<1>0. m.trajectory \in Trajectory /\ m.control \in Control /\ m.recip \in Recip
  BY DEF MotionState
<1>1. /\ c \in Control /\ c.target_counts = target
      /\ c.command_counts = m.control.command_counts
  BY <1>0 DEF Control
<1>2. CASE target = m.control.command_counts
  <2> DEFINE t == [m.trajectory EXCEPT !.running = FALSE, !.waiting_actual = TRUE,
                                       !.actual_stable_cycles = 0,
                                       !.start_counts = m.control.command_counts,
                                       !.target_counts = target]
  <2>1. m.control.command_counts \in Int32 /\ 0 \in 0..MOTION_POSITION_STABLE_CYCLES
    BY <1>0 DEF Control
  <2>a. /\ ~t.running /\ t.waiting_actual /\ t.actual_stable_cycles = 0
        /\ t.start_counts = m.control.command_counts /\ t.target_counts = target
    BY <1>0 DEF Trajectory
  <2>b. t \in Trajectory
    BY <1>0, <2>1 DEF Trajectory
  <2>2. n = [m EXCEPT !.trajectory = t, !.control = c]
    BY <1>2 DEF motion_trajectory_start
  <2> HIDE DEF t, c
  <2>3. n \in MotionState /\ n.trajectory = t /\ n.control = c /\ n.recip = m.recip
    BY <1>0, <1>1, <2>b, <2>2 DEF MotionState
  <2>4. TrajectoryCoherent(n) /\ Moving(n.trajectory)
    BY <1>1, <1>2, <2>a, <2>3 DEF TrajectoryCoherent, Moving
  <2> QED BY <2>a, <2>3, <2>4 DEF c
<1>3. CASE target # m.control.command_counts
  <2> DEFINE t == [running |-> TRUE, waiting_actual |-> FALSE,
                   cycle_index |-> 0, total_cycles |-> plan,
                   actual_stable_cycles |-> 0,
                   start_counts |-> m.control.command_counts,
                   target_counts |-> target]
  <2>1. /\ t \in Trajectory /\ t.running /\ ~t.waiting_actual
        /\ t.cycle_index = 0 /\ t.total_cycles = plan
        /\ t.start_counts = m.control.command_counts /\ t.target_counts = target
    BY <1>0 DEF Trajectory, Control
  <2>2. n = [m EXCEPT !.trajectory = t, !.control = c]
    BY <1>3 DEF motion_trajectory_start
  <2>3. plan > 0
    BY <1>3 DEF Plannable
  <2> HIDE DEF t, c
  <2>4. n \in MotionState /\ n.trajectory = t /\ n.control = c /\ n.recip = m.recip
    BY <1>0, <1>1, <2>1, <2>2 DEF MotionState
  <2>5. TrajectoryCoherent(n) /\ Moving(n.trajectory)
    BY <1>1, <2>1, <2>3, <2>4 DEF TrajectoryCoherent, Moving
  <2> QED BY <2>1, <2>4, <2>5 DEF c
<1> QED BY <1>2, <1>3

-----------------------------------------------------------------------------
(* One cycle of a segment keeps the motion coherent, leaves recip alone,   *)
(* and ends the segment exactly when it reports DONE, at the target.       *)
LEMMA SegmentAdvanceStep ==
  ASSUME NEW m, MotionInv(m), Moving(m.trajectory), NEW cmd \in Int32
  PROVE  LET n == SegmentAdvance(m, cmd)
         IN /\ n \in MotionState
            /\ TrajectoryCoherent(n)
            /\ Moving(n.trajectory)
            /\ n.trajectory.start_counts = m.trajectory.start_counts
            /\ n.trajectory.target_counts = m.trajectory.target_counts
            /\ n.recip = m.recip
            /\ n.control = [m.control EXCEPT !.command_counts = n.control.command_counts]
<1> DEFINE n == SegmentAdvance(m, cmd)
<1> USE MotionAssumption DEF MotionAssumption
<1>0. m \in MotionState /\ TrajectoryCoherent(m)
  BY DEF MotionInv
<1>1. CASE ~m.trajectory.running
  <2>1. n = m BY <1>1 DEF SegmentAdvance
  <2> QED BY <1>0, <2>1 DEF MotionState, Control
<1>2. CASE m.trajectory.running
  <2> DEFINE t == m.trajectory
             index == t.cycle_index + 1
  <2>0. /\ t \in Trajectory /\ m.control \in Control /\ m.recip \in Recip
        /\ t.cycle_index < t.total_cycles /\ ~t.waiting_actual
        /\ m.control.target_counts = t.target_counts
    BY <1>0, <1>2 DEF MotionState, TrajectoryCoherent, Moving
  <2>1. index \in 0..MaxTotalCycles
    BY <2>0 DEF Trajectory
  <2>2. CASE index >= t.total_cycles
    <3> DEFINE u == [t EXCEPT !.cycle_index = index, !.running = FALSE,
                              !.waiting_actual = TRUE, !.actual_stable_cycles = 0]
               c == [m.control EXCEPT !.command_counts = t.target_counts]
    <3>1. n = [m EXCEPT !.trajectory = u, !.control = c]
      BY <1>2, <2>0, <2>2 DEF SegmentAdvance
    <3> HIDE DEF index
    <3>a. u \in Trajectory
      <4>1. 0 \in 0..MOTION_POSITION_STABLE_CYCLES
        OBVIOUS
      <4> HIDE DEF t
      <4> QED BY <2>0, <2>1, <4>1 DEF Trajectory
    <3>b. /\ ~u.running /\ u.waiting_actual /\ u.actual_stable_cycles = 0
          /\ u.start_counts = t.start_counts /\ u.target_counts = t.target_counts
      BY <2>0 DEF Trajectory
    <3>2. /\ u \in Trajectory /\ ~u.running /\ u.waiting_actual
          /\ u.actual_stable_cycles = 0
          /\ u.start_counts = t.start_counts /\ u.target_counts = t.target_counts
      BY <3>a, <3>b
    <3>3. /\ c \in Control /\ c.command_counts = t.target_counts
          /\ c.target_counts = t.target_counts
          /\ c = [m.control EXCEPT !.command_counts = c.command_counts]
      BY <2>0 DEF Control, Trajectory
    <3> HIDE DEF u, c
    <3>4. n \in MotionState /\ n.trajectory = u /\ n.control = c /\ n.recip = m.recip
      BY <1>0, <2>0, <3>1, <3>2, <3>3 DEF MotionState
    <3>5. TrajectoryCoherent(n) /\ Moving(n.trajectory)
      BY <3>2, <3>3, <3>4 DEF TrajectoryCoherent, Moving
    <3> QED BY <3>2, <3>3, <3>4, <3>5
  <2>3. CASE ~(index >= t.total_cycles)
    <3> DEFINE u == [t EXCEPT !.cycle_index = index]
               c == [m.control EXCEPT !.command_counts = cmd]
    <3>1. n = [m EXCEPT !.trajectory = u, !.control = c]
      BY <1>2, <2>0, <2>3 DEF SegmentAdvance
    <3>2. index < t.total_cycles
      BY <2>0, <2>3 DEF Trajectory
    <3> HIDE DEF index
    <3>3. /\ u \in Trajectory /\ u.running /\ ~u.waiting_actual
          /\ u.cycle_index < u.total_cycles
          /\ u.start_counts = t.start_counts /\ u.target_counts = t.target_counts
      BY <1>2, <2>0, <2>1, <3>2 DEF Trajectory
    <3>4. /\ c \in Control /\ c.target_counts = t.target_counts
          /\ c = [m.control EXCEPT !.command_counts = c.command_counts]
      BY <2>0 DEF Control
    <3> HIDE DEF u, c
    <3>5. n \in MotionState /\ n.trajectory = u /\ n.control = c /\ n.recip = m.recip
      BY <1>0, <2>0, <3>1, <3>3, <3>4 DEF MotionState
    <3>6. TrajectoryCoherent(n) /\ Moving(n.trajectory)
      BY <3>3, <3>4, <3>5 DEF TrajectoryCoherent, Moving
    <3> QED BY <3>3, <3>4, <3>5, <3>6
  <2> QED BY <2>2, <2>3
<1> QED BY <1>1, <1>2

(* The same for the whole cycle, the check of the window included.        *)
LEMMA SegmentStep ==
  ASSUME NEW m, MotionInv(m), Moving(m.trajectory),
         NEW cmd \in Int32, NEW actual \in Int32
  PROVE  LET n == motion_segment_process(m, actual, cmd)
         IN /\ n \in MotionState
            /\ TrajectoryCoherent(n)
            /\ Moving(n.trajectory) <=> ~SegmentDone(m, actual, cmd)
            /\ SegmentDone(m, actual, cmd) =>
                 n.control.command_counts = n.trajectory.target_counts
            /\ n.trajectory.start_counts = m.trajectory.start_counts
            /\ n.trajectory.target_counts = m.trajectory.target_counts
            /\ n.recip = m.recip
            /\ n.control = [m.control EXCEPT !.command_counts = n.control.command_counts]
<1> DEFINE a == SegmentAdvance(m, cmd)
           n == motion_segment_process(m, actual, cmd)
           stable == IF InWindow(a.trajectory, actual)
                     THEN a.trajectory.actual_stable_cycles + 1 ELSE 0
<1> USE MotionAssumption DEF MotionAssumption
<1>1. /\ a \in MotionState /\ TrajectoryCoherent(a) /\ Moving(a.trajectory)
      /\ a.trajectory.start_counts = m.trajectory.start_counts
      /\ a.trajectory.target_counts = m.trajectory.target_counts
      /\ a.recip = m.recip
      /\ a.control = [m.control EXCEPT !.command_counts = a.control.command_counts]
  BY SegmentAdvanceStep
<1>2. CASE ~a.trajectory.waiting_actual
  <2>1. n = a /\ ~SegmentDone(m, actual, cmd)
    BY <1>2 DEF motion_segment_process, SegmentDone
  <2> QED BY <1>1, <2>1
<1>3. CASE a.trajectory.waiting_actual
  <2>0. /\ a.trajectory \in Trajectory /\ ~a.trajectory.running
        /\ a.control.command_counts = a.trajectory.target_counts
        /\ a.control.target_counts = a.trajectory.target_counts
        /\ a.trajectory.actual_stable_cycles < MOTION_POSITION_STABLE_CYCLES
    BY <1>1, <1>3 DEF MotionState, TrajectoryCoherent, Moving
  <2>1. stable \in 0..MOTION_POSITION_STABLE_CYCLES
    BY <2>0 DEF Trajectory
  <2>2. CASE stable < MOTION_POSITION_STABLE_CYCLES
    <3>1. n = [a EXCEPT !.trajectory =
                 [a.trajectory EXCEPT !.actual_stable_cycles = stable]]
      BY <1>3, <2>2 DEF motion_segment_process
    <3> HIDE DEF stable
    <3>2. /\ n \in MotionState /\ TrajectoryCoherent(n)
          /\ n.trajectory.waiting_actual /\ Moving(n.trajectory)
          /\ n.recip = a.recip /\ n.control = a.control
          /\ n.trajectory.start_counts = a.trajectory.start_counts
          /\ n.trajectory.target_counts = a.trajectory.target_counts
      BY <1>1, <1>3, <2>0, <2>1, <2>2, <3>1
         DEF MotionState, Trajectory, TrajectoryCoherent, Moving
    <3>3. ~SegmentDone(m, actual, cmd)
      BY <3>2 DEF SegmentDone
    <3> QED BY <1>1, <3>2, <3>3
  <2>3. CASE ~(stable < MOTION_POSITION_STABLE_CYCLES)
    <3> DEFINE u == [a.trajectory EXCEPT !.actual_stable_cycles = stable,
                                         !.waiting_actual = FALSE]
    <3>1. n = [a EXCEPT !.trajectory = u]
      BY <1>3, <2>3 DEF motion_segment_process
    <3> HIDE DEF stable
    <3>2. /\ u \in Trajectory /\ ~u.waiting_actual /\ ~u.running
          /\ u.start_counts = a.trajectory.start_counts
          /\ u.target_counts = a.trajectory.target_counts
      BY <2>0, <2>1 DEF Trajectory
    <3> HIDE DEF u
    <3>3. n \in MotionState /\ n.trajectory = u /\ n.control = a.control /\ n.recip = a.recip
      BY <1>1, <3>1, <3>2 DEF MotionState
    <3>4. TrajectoryCoherent(n) /\ ~Moving(n.trajectory)
      BY <3>2, <3>3 DEF TrajectoryCoherent, Moving
    <3>5. SegmentDone(m, actual, cmd)
      BY <1>3, <3>2, <3>3 DEF SegmentDone
    <3> QED BY <1>1, <2>0, <3>2, <3>3, <3>4, <3>5
  <2> QED BY <2>2, <2>3
<1> QED BY <1>2, <1>3

-----------------------------------------------------------------------------
(* Conversions yield integers: the spacing of floats is well defined.      *)
LEMMA SpacingType ==
  ASSUME NEW c \in Int
  PROVE  Spacing(c) \in Spacings
<1> USE MotionAssumption DEF MotionAssumption
<1> DEFINE Fits(q) == Abs(c) <= FloatExact * q
           Least(q) == /\ q = 256 \/ Fits(q)
                       /\ \A p \in Spacings : Fits(p) => q <= p
<1>1. Abs(c) \in Nat
  BY DEF Abs
<1>2. \A p, q \in Spacings : p <= q /\ Fits(p) => Fits(q)
  BY <1>1 DEF Spacings
<1> HIDE DEF Fits
<1>3. \E q \in Spacings : Least(q)
  BY <1>2 DEF Spacings
<1> QED BY <1>3 DEF Spacing, Fits

(* motion_mm_to_counts yields an integer for a finite position.           *)
LEMMA MmToCountsInt ==
  ASSUME NEW position_mm \in Int, s_motor_params \in MotorParams
  PROVE  motion_mm_to_counts(position_mm) \in Int
<1> USE MotionAssumption DEF MotionAssumption
<1> DEFINE scaled == position_mm * s_motor_params.counts_per_mm
           c == RoundHalfAway(scaled, MmDivisor)
           q == Spacing(c)
           f == Float32(c)
<1>1. scaled \in Int
  <2>1. s_motor_params.counts_per_mm \in Nat
    OBVIOUS
  <2> QED BY <2>1
<1>2. c \in Int
  <2> DEFINE a == 2 * Abs(scaled) + MmDivisor
             b == 2 * MmDivisor
  <2>1. a \in Nat /\ b \in Nat \ {0}
    BY <1>1 DEF Abs
  <2> HIDE DEF a, b, scaled
  <2>2. a \div b \in Int
    BY <2>1
  <2> QED BY <2>2 DEF RoundHalfAway, a, b
<1> HIDE DEF c, scaled
<1>3. q \in Nat \ {0}
  BY <1>2, SpacingType DEF Spacings
<1>4. f \in Int
  <2> DEFINE n == Abs(c) \div q
  <2>1. Abs(c) \in Nat
    BY <1>2 DEF Abs
  <2> HIDE DEF q
  <2>2. n \in Int
    BY <1>3, <2>1
  <2> HIDE DEF n
  <2>3. q * n \in Int /\ q * (n + 1) \in Int
    BY <1>3, <2>2
  <2>4. f \in {q * n, q * (n + 1), -(q * n), -(q * (n + 1))}
    BY DEF Float32, n, q
  <2> HIDE DEF f
  <2> QED BY <2>3, <2>4
<1> HIDE DEF f
<1>5. FloatToCounts(f) \in Int
  BY <1>4 DEF FloatToCounts, Saturate
<1> QED BY <1>5 DEF motion_mm_to_counts, f, c, scaled

-----------------------------------------------------------------------------
(* Starting a motion from a state with nothing left to advance.            *)
LEMMA StartedInv ==
  ASSUME NEW m \in MotionState, NEW mode \in SingleModes \cup {"RECIP"},
         TrajectoryCoherent(m), Moving(m.trajectory), RecipItinerary(m),
         IF mode = "RECIP"
         THEN m.recip.active /\ m.recip.stage \in {"MOVE_OUT", "MOVE_BACK"}
         ELSE ~m.recip.active /\ m.recip.stage = "IDLE"
  PROVE  MotionInv(Started(m, mode))
<1> DEFINE c == [m.control EXCEPT !.mode = mode, !.busy = TRUE, !.done = FALSE,
                                  !.error = FALSE, !.paused = FALSE]
           n == Started(m, mode)
<1>1. m.control \in Control
  BY DEF MotionState
<1>2. c \in Control
  BY <1>1 DEF Control, Modes
<1>3. /\ c.mode = mode /\ c.busy /\ ~c.done /\ ~c.error /\ ~c.paused
      /\ c.command_counts = m.control.command_counts
      /\ c.target_counts = m.control.target_counts
  BY <1>1 DEF Control
<1>4. n = [m EXCEPT !.control = c]
  BY DEF Started
<1> HIDE DEF c
<1>5. n \in MotionState /\ n.control = c /\ n.trajectory = m.trajectory /\ n.recip = m.recip
  BY <1>2, <1>4 DEF MotionState
<1> HIDE DEF n
<1>6. ControlCoherent(n.control)
  BY <1>3, <1>5 DEF ControlCoherent, SingleModes
<1>7. TrajectoryCoherent(n)
  BY <1>3, <1>5 DEF TrajectoryCoherent
<1>8. SomethingToAdvance(n)
  BY <1>3, <1>5 DEF SomethingToAdvance, SingleModes
<1>9. RecipItinerary(n)
  BY <1>3, <1>5 DEF RecipItinerary
<1> QED BY <1>5, <1>6, <1>7, <1>8, <1>9 DEF MotionInv, n

(* A single move starts coherently or fails.                              *)
LEMMA SingleStartInv ==
  ASSUME NEW m, Startable(m), NEW req \in Request, req.mode \in SingleModes,
         NEW actual \in Int32, NEW plan \in 0..MaxTotalCycles
  PROVE  MotionInv(motion_single_start(m, req, actual, plan))
<1> DEFINE target == motion_position_target_get(req, actual)
           started == /\ MmConvertible(req.position_mm)
                      /\ target \in Int32
                      /\ Plannable(m, target, plan)
<1>0. m \in MotionState
  BY DEF Startable
<1>1. CASE ~started
  <2>1. motion_single_start(m, req, actual, plan) = HoldActual(m, actual, FALSE)
    BY <1>1 DEF motion_single_start, motion_finish_error
  <2> QED BY <1>0, <2>1, HoldActualInv
<1>2. CASE started
  <2>0. target \in Int32 /\ Plannable(m, target, plan)
    BY <1>2
  <2> HIDE DEF target
  <2>1. PICK tg \in Int32 : tg = target
    BY <2>0
  <2> DEFINE t == motion_trajectory_start(m, tg, plan)
  <2>a. Plannable(m, tg, plan)
    BY <2>0, <2>1
  <2>b. t \in MotionState /\ TrajectoryCoherent(t) /\ Moving(t.trajectory)
    BY ONLY <1>0, <2>a, tg \in Int32, plan \in 0..MaxTotalCycles, TrajectoryStart
  <2>2. t.recip = m.recip
    BY <1>0 DEF motion_trajectory_start, MotionState
  <2>3. motion_single_start(m, req, actual, plan) = Started(t, req.mode)
    BY <1>2, <2>1 DEF motion_single_start, target
  <2> HIDE DEF t
  <2>4. RecipItinerary(t) /\ ~t.recip.active /\ t.recip.stage = "IDLE"
    BY <2>2 DEF RecipItinerary, Startable
  <2>5. req.mode # "RECIP"
    BY DEF SingleModes
  <2>6. MotionInv(Started(t, req.mode))
    BY <2>b, <2>4, <2>5, StartedInv
  <2> QED BY <2>3, <2>6
<1> QED BY <1>1, <1>2

(* Starting a reciprocation: its two ends differ and the first leg runs.   *)
LEMMA RecipStartInv ==
  ASSUME NEW m, Startable(m), NEW req \in Request, s_motor_params \in MotorParams,
         NEW actual \in Int32, NEW plan \in 0..MaxTotalCycles
  PROVE  MotionInv(motion_recip_start_internal(m, req, actual, plan))
<1> USE MotionAssumption DEF MotionAssumption
<1> DEFINE result == motion_recip_start_internal(m, req, actual, plan)
<1>0. m \in MotionState
  BY DEF Startable
<1>1. CASE ~MmConvertible(req.position_mm)
  <2>1. result = HoldActual(m, actual, FALSE)
    BY <1>1 DEF motion_recip_start_internal, motion_finish_error
  <2> QED BY <1>0, <2>1, HoldActualInv
<1>2. CASE MmConvertible(req.position_mm)
  <2>1. motion_mm_to_counts(req.position_mm) \in Int
    <3>1. req.position_mm \in Int
      BY <1>2 DEF MmConvertible, Request
    <3>2. PICK p \in Int : p = req.position_mm
      BY <3>1
    <3> QED BY <3>2, MmToCountsInt
  <2>2. PICK offset \in Int : offset = motion_mm_to_counts(req.position_mm)
    BY <2>1
  <2>3. CASE offset = 0 \/ actual + offset \notin Int32
    <3>1. result = HoldActual(m, actual, FALSE)
      BY <1>2, <2>2, <2>3 DEF motion_recip_start_internal, motion_finish_error
    <3> QED BY <1>0, <3>1, HoldActualInv
  <2>4. CASE ~(offset = 0 \/ actual + offset \notin Int32)
    <3> DEFINE end == actual + offset
               r == [active |-> TRUE, stage |-> "MOVE_OUT",
                     start_counts |-> actual, end_counts |-> end,
                     velocity_mm_s |-> req.velocity_mm_s,
                     first_interval_cycles |-> MOTION_MS_TO_CYCLES(req.first_interval_ms),
                     second_interval_cycles |-> MOTION_MS_TO_CYCLES(req.second_interval_ms),
                     wait_cycles |-> 0,
                     repeat_count |-> req.repeat_count,
                     completed_count |-> 0]
               begun == [m EXCEPT !.recip = r]
    <3>1. end \in Int32 /\ end # actual
      BY <2>4 DEF Int32
    <3>2. result = IF ~Plannable(m, end, plan) THEN HoldActual(begun, actual, FALSE)
                   ELSE Started(motion_trajectory_start(begun, end, plan), "RECIP")
      BY <1>2, <2>2, <2>4 DEF motion_recip_start_internal, motion_finish_error
    <3> HIDE DEF end, result
    <3>3. r \in Recip
      <4>1. /\ req.velocity_mm_s \in Nat /\ req.repeat_count \in 0..(UINT32_MODULUS - 1)
            /\ req.first_interval_ms \in Nat /\ req.second_interval_ms \in Nat
        BY DEF Request
      <4>2. \A ms \in Nat : MOTION_MS_TO_CYCLES(ms) \in Nat
        BY DEF MOTION_MS_TO_CYCLES
      <4>3. 0 \in 0..(UINT32_MODULUS - 1)
        OBVIOUS
      <4> QED BY <3>1, <4>1, <4>2, <4>3 DEF Recip, Stages
    <3>4. /\ r.active /\ r.stage = "MOVE_OUT" /\ r.start_counts # r.end_counts
          /\ r.end_counts = end /\ r.completed_count = 0
          /\ r.repeat_count \in 0..(UINT32_MODULUS - 1)
      BY <3>1 DEF Request
    <3> HIDE DEF r
    <3>5. /\ begun \in MotionState /\ begun.recip = r
          /\ begun.control = m.control
      BY <1>0, <3>3 DEF MotionState
    <3>6. CASE ~Plannable(m, end, plan)
      <4>1. result = HoldActual(begun, actual, FALSE)
        BY <3>2, <3>6
      <4> HIDE DEF begun
      <4>2. MotionInv(HoldActual(begun, actual, FALSE))
        BY <3>5, HoldActualInv
      <4> QED BY <4>1, <4>2 DEF result
    <3>7. CASE Plannable(m, end, plan)
      <4> DEFINE t == motion_trajectory_start(begun, end, plan)
      <4>1. Plannable(begun, end, plan)
        BY <3>5, <3>7 DEF Plannable
      <4>2. t.recip = r
        BY <3>5 DEF motion_trajectory_start, MotionState
      <4> HIDE DEF begun
      <4>3. /\ t \in MotionState /\ TrajectoryCoherent(t) /\ Moving(t.trajectory)
            /\ t.trajectory.target_counts = end
        BY ONLY <3>1, <3>5, <4>1, plan \in 0..MaxTotalCycles, TrajectoryStart
      <4> HIDE DEF t
      <4>4. RecipItinerary(t)
        BY <3>4, <4>2, <4>3 DEF RecipItinerary, RECIP_FOREVER
      <4>5. MotionInv(Started(t, "RECIP"))
        BY <3>4, <4>2, <4>3, <4>4, StartedInv
      <4>6. result = Started(t, "RECIP")
        BY <3>2, <3>7 DEF t, begun
      <4> QED BY <4>5, <4>6 DEF result
    <3> QED BY <3>6, <3>7
  <2> QED BY <2>3, <2>4
<1> QED BY <1>1, <1>2

-----------------------------------------------------------------------------
(* A reciprocation between two legs: the segment is over, the next one is  *)
(* not started.                                                            *)
LegOver(m) ==
  /\ m \in MotionState
  /\ ControlCoherent(m.control)
  /\ m.control.busy /\ m.control.mode = "RECIP"
  /\ ~Moving(m.trajectory)
  /\ m.recip.active
  /\ m.recip.start_counts # m.recip.end_counts
  /\ m.recip.repeat_count # RECIP_FOREVER =>
       m.recip.completed_count < m.recip.repeat_count

(* The next leg starts from the end the command is at, or fails.           *)
LEMMA RecipMoveStartInv ==
  ASSUME NEW m, LegOver(m), NEW actual \in Int32, NEW plan \in 0..MaxTotalCycles,
         NEW target, NEW stage,
         \/ /\ stage = "MOVE_OUT" /\ target = m.recip.end_counts
            /\ m.control.command_counts = m.recip.start_counts
         \/ /\ stage = "MOVE_BACK" /\ target = m.recip.start_counts
            /\ m.control.command_counts = m.recip.end_counts
  PROVE  MotionInv(motion_recip_move_start(m, target, stage, actual, plan))
<1> USE MotionAssumption DEF MotionAssumption
<1> DEFINE result == motion_recip_move_start(m, target, stage, actual, plan)
<1>0. m \in MotionState /\ m.recip \in Recip /\ m.control \in Control
  BY DEF LegOver, MotionState
<1>1. target \in Int32
  BY <1>0 DEF Recip
<1>2. CASE ~Plannable(m, target, plan)
  <2>1. result = HoldActual(m, actual, FALSE)
    BY <1>2 DEF motion_recip_move_start, motion_finish_error
  <2> QED BY <1>0, <2>1, HoldActualInv
<1>3. CASE Plannable(m, target, plan)
  <2> DEFINE t == motion_trajectory_start(m, target, plan)
             r == [m.recip EXCEPT !.stage = stage]
  <2>1. /\ t \in MotionState /\ TrajectoryCoherent(t) /\ Moving(t.trajectory)
        /\ t.trajectory.target_counts = target
        /\ t.trajectory.start_counts = m.control.command_counts
    BY ONLY <1>0, <1>1, <1>3, plan \in 0..MaxTotalCycles, TrajectoryStart
  <2>2. t.recip = m.recip /\ t.control = [m.control EXCEPT !.target_counts = target]
    BY <1>0 DEF motion_trajectory_start, MotionState
  <2>3. result = [t EXCEPT !.recip.stage = stage]
    BY <1>3 DEF motion_recip_move_start
  <2> HIDE DEF t, result
  <2>4. /\ t.control.busy /\ t.control.mode = "RECIP" /\ ~t.control.done
        /\ ~t.control.error
    BY <1>0, <2>2 DEF LegOver, Control, ControlCoherent
  <2>5. result = [t EXCEPT !.recip = r]
    BY <2>1, <2>2, <2>3 DEF MotionState
  <2>6. r \in Recip
    BY <1>0 DEF Recip, Stages
  <2>7. /\ r.stage = stage /\ r.active
        /\ r.start_counts = m.recip.start_counts
        /\ r.end_counts = m.recip.end_counts /\ r.start_counts # r.end_counts
        /\ r.repeat_count = m.recip.repeat_count
        /\ r.completed_count = m.recip.completed_count
    BY <1>0 DEF Recip, LegOver
  <2> HIDE DEF r
  <2>8. /\ result \in MotionState /\ result.recip = r
        /\ result.trajectory = t.trajectory /\ result.control = t.control
    BY <2>1, <2>5, <2>6 DEF MotionState
  <2>9. ControlCoherent(result.control)
    BY <2>4, <2>8 DEF ControlCoherent
  <2>10. TrajectoryCoherent(result)
    BY <2>1, <2>8 DEF TrajectoryCoherent
  <2>11. SomethingToAdvance(result)
    BY <2>1, <2>4, <2>7, <2>8 DEF SomethingToAdvance
  <2>12. RecipItinerary(result)
    BY <2>1, <2>7, <2>8 DEF RecipItinerary, LegOver
  <2> QED BY <2>8, <2>9, <2>10, <2>11, <2>12 DEF MotionInv, result
<1> QED BY <1>2, <1>3

(* A dwell at the end the command is at.                                   *)
LEMMA DwellInv ==
  ASSUME NEW m, LegOver(m), NEW stage, NEW cycles \in Nat \ {0},
         \/ /\ stage = "WAIT_FIRST"
            /\ m.control.command_counts = m.recip.end_counts
         \/ /\ stage = "WAIT_SECOND"
            /\ m.control.command_counts = m.recip.start_counts
  PROVE  MotionInv(Dwell(m, stage, cycles))
<1> DEFINE r == [m.recip EXCEPT !.stage = stage, !.wait_cycles = cycles]
           n == Dwell(m, stage, cycles)
<1>0. m \in MotionState /\ m.recip \in Recip
  BY DEF LegOver, MotionState
<1>1. r \in Recip
  BY <1>0 DEF Recip, Stages
<1>2. /\ r.stage = stage /\ r.active /\ r.wait_cycles > 0
      /\ r.start_counts = m.recip.start_counts
      /\ r.end_counts = m.recip.end_counts
      /\ r.repeat_count = m.recip.repeat_count
      /\ r.completed_count = m.recip.completed_count
  BY <1>0 DEF Recip, LegOver
<1>3. n = [m EXCEPT !.recip = r]
  BY DEF Dwell
<1> HIDE DEF r, n
<1>4. /\ n \in MotionState /\ n.recip = r
      /\ n.trajectory = m.trajectory /\ n.control = m.control
  BY <1>0, <1>1, <1>3 DEF MotionState
<1>5. ControlCoherent(n.control) /\ TrajectoryCoherent(n)
  BY <1>4 DEF LegOver, TrajectoryCoherent, Moving
<1>6. SomethingToAdvance(n)
  BY <1>2, <1>4 DEF SomethingToAdvance, LegOver
<1>7. RecipItinerary(n)
  BY <1>2, <1>4 DEF RecipItinerary, LegOver
<1> QED BY <1>4, <1>5, <1>6, <1>7 DEF MotionInv, n

(* The last round trip: the reciprocation is closed and the motion done.   *)
LEMMA RecipFinishedInv ==
  ASSUME NEW m \in MotionState, ~Moving(m.trajectory)
  PROVE  MotionInv(RecipFinished(m))
<1> DEFINE q == [m.recip EXCEPT !.active = FALSE, !.stage = "IDLE"]
           closed == [m EXCEPT !.recip = q]
<1>0. m.recip \in Recip
  BY DEF MotionState
<1>1. q \in Recip /\ ~q.active /\ q.stage = "IDLE"
  BY <1>0 DEF Recip, Stages
<1>2. RecipFinished(m) = motion_finish_success(closed)
  BY DEF RecipFinished
<1> HIDE DEF q
<1>3. closed \in MotionState /\ closed.recip = q /\ closed.trajectory = m.trajectory
  BY <1>1 DEF MotionState
<1> HIDE DEF closed
<1> QED BY <1>1, <1>2, <1>3, FinishSuccessInv

(* The end of a leg: a dwell, the next leg, the end of the motion, or an   *)
(* error.  repeat_count bounds completed_count, so the count that is       *)
(* compared does not wrap.                                                 *)
LEMMA RecipArrivedInv ==
  ASSUME NEW m, LegOver(m), NEW actual \in Int32, NEW plan \in 0..MaxTotalCycles,
         \/ /\ m.recip.stage = "MOVE_OUT"
            /\ m.control.command_counts = m.recip.end_counts
         \/ /\ m.recip.stage = "MOVE_BACK"
            /\ m.control.command_counts = m.recip.start_counts
  PROVE  MotionInv(RecipArrived(m, actual, plan))
<1> USE MotionAssumption DEF MotionAssumption
<1> DEFINE result == RecipArrived(m, actual, plan)
           completed == (m.recip.completed_count + 1) % UINT32_MODULUS
           counted == [m EXCEPT !.recip.completed_count = completed]
           r == [m.recip EXCEPT !.completed_count = completed]
<1>0. m \in MotionState /\ m.recip \in Recip /\ m.control \in Control
  BY DEF LegOver, MotionState
<1>1. CASE m.recip.stage = "MOVE_OUT" /\ m.recip.first_interval_cycles > 0
  <2>1. result = Dwell(m, "WAIT_FIRST", m.recip.first_interval_cycles)
    BY <1>1 DEF RecipArrived
  <2>2. m.recip.first_interval_cycles \in Nat \ {0}
    BY <1>0, <1>1 DEF Recip
  <2> QED BY <1>1, <2>1, <2>2, DwellInv
<1>2. CASE m.recip.stage = "MOVE_OUT" /\ ~(m.recip.first_interval_cycles > 0)
  <2>1. m.recip.first_interval_cycles = 0
    BY <1>0, <1>2 DEF Recip
  <2>2. result = motion_recip_move_start(m, m.recip.start_counts, "MOVE_BACK", actual, plan)
    BY <1>2, <2>1 DEF RecipArrived
  <2> QED BY <1>2, <2>2, RecipMoveStartInv
<1>3. CASE m.recip.stage = "MOVE_BACK"
  <2>1. /\ completed \in 0..(UINT32_MODULUS - 1)
        /\ m.recip.repeat_count # RECIP_FOREVER =>
             completed = m.recip.completed_count + 1
    <3>1. /\ m.recip.completed_count \in Nat
          /\ m.recip.repeat_count # RECIP_FOREVER =>
               m.recip.completed_count + 1 < UINT32_MODULUS
      BY <1>0 DEF Recip, LegOver
    <3> QED BY <3>1
  <2> HIDE DEF completed
  <2>2. counted = [m EXCEPT !.recip = r]
    BY <1>0 DEF MotionState
  <2>3. r \in Recip
    BY <1>0, <2>1 DEF Recip
  <2>4. /\ r.stage = "MOVE_BACK" /\ r.active
        /\ r.start_counts = m.recip.start_counts
        /\ r.end_counts = m.recip.end_counts
        /\ r.repeat_count = m.recip.repeat_count
        /\ r.completed_count = completed
        /\ r.second_interval_cycles = m.recip.second_interval_cycles
    BY <1>0, <1>3 DEF Recip, LegOver
  <2> DEFINE last == m.recip.repeat_count # RECIP_FOREVER /\ completed >= m.recip.repeat_count
  <2>a. last => result = RecipFinished(counted)
    BY <1>3 DEF RecipArrived, completed
  <2>b. ~last /\ m.recip.second_interval_cycles > 0 =>
          result = Dwell(counted, "WAIT_SECOND", m.recip.second_interval_cycles)
    BY <1>3 DEF RecipArrived, completed
  <2>c. ~last /\ ~(m.recip.second_interval_cycles > 0) =>
          result = motion_recip_move_start(counted, m.recip.end_counts, "MOVE_OUT",
                                           actual, plan)
    BY <1>3 DEF RecipArrived, completed
  <2> HIDE DEF counted, r, result
  <2>6. /\ counted \in MotionState /\ counted.recip = r
        /\ counted.trajectory = m.trajectory /\ counted.control = m.control
    BY <1>0, <2>2, <2>3 DEF MotionState
  <2>7. CASE last
    <3>1. MotionInv(RecipFinished(counted))
      BY <2>4, <2>6, RecipFinishedInv DEF LegOver
    <3> QED BY <2>a, <2>7, <3>1 DEF result
  <2>8. CASE ~last
    <3>1. r.repeat_count # RECIP_FOREVER => r.completed_count < r.repeat_count
      BY <1>0, <2>1, <2>4, <2>8 DEF Recip
    <3>2. LegOver(counted)
      BY <2>4, <2>6, <3>1 DEF LegOver
    <3>3. counted.control.command_counts = counted.recip.start_counts
      BY <1>3, <2>4, <2>6
    <3>4. CASE m.recip.second_interval_cycles > 0
      <4>1. m.recip.second_interval_cycles \in Nat \ {0}
        BY <1>0, <3>4 DEF Recip
      <4>2. result = Dwell(counted, "WAIT_SECOND", m.recip.second_interval_cycles)
        BY <2>b, <2>8, <3>4
      <4>3. MotionInv(Dwell(counted, "WAIT_SECOND", m.recip.second_interval_cycles))
        BY <3>2, <3>3, <4>1, DwellInv
      <4> QED BY <4>2, <4>3 DEF result
    <3>5. CASE ~(m.recip.second_interval_cycles > 0)
      <4>1. result = motion_recip_move_start(counted, m.recip.end_counts, "MOVE_OUT",
                                             actual, plan)
        BY <2>c, <2>8, <3>5
      <4>2. m.recip.end_counts = counted.recip.end_counts
        BY <2>4, <2>6
      <4>3. MotionInv(motion_recip_move_start(counted, m.recip.end_counts, "MOVE_OUT",
                                              actual, plan))
        BY <3>2, <3>3, <4>2, RecipMoveStartInv
      <4> QED BY <4>1, <4>3 DEF result
    <3> QED BY <3>4, <3>5
  <2> QED BY <2>7, <2>8
<1> QED BY <1>1, <1>2, <1>3

(* A cycle of a dwell.                                                     *)
LEMMA RecipWaitInv ==
  ASSUME NEW m, MotionInv(m), m.control.busy, m.control.mode = "RECIP",
         m.recip.stage \in {"WAIT_FIRST", "WAIT_SECOND"},
         NEW actual \in Int32, NEW plan \in 0..MaxTotalCycles
  PROVE  MotionInv(RecipWait(m, actual, plan))
<1> DEFINE result == RecipWait(m, actual, plan)
           left == m.recip.wait_cycles - 1
           n == [m EXCEPT !.recip.wait_cycles = left]
           r == [m.recip EXCEPT !.wait_cycles = left]
<1>0. /\ m \in MotionState /\ m.recip \in Recip /\ m.recip.wait_cycles > 0
      /\ m.recip.active /\ ~Moving(m.trajectory)
      /\ ControlCoherent(m.control) /\ TrajectoryCoherent(m)
      /\ RecipItinerary(m)
  BY DEF MotionInv, SomethingToAdvance, MotionState
<1>1. m.recip.wait_cycles \in Nat /\ left \in Nat
  BY <1>0 DEF Recip
<1>2. result = IF left > 0 THEN n
               ELSE IF m.recip.stage = "WAIT_FIRST"
               THEN motion_recip_move_start(n, m.recip.start_counts, "MOVE_BACK", actual, plan)
               ELSE motion_recip_move_start(n, m.recip.end_counts, "MOVE_OUT", actual, plan)
  BY <1>0, <1>1 DEF RecipWait
<1> HIDE DEF left, result
<1>3. n = [m EXCEPT !.recip = r]
  BY <1>0 DEF MotionState
<1>4. r \in Recip
  BY <1>0, <1>1 DEF Recip
<1>5. /\ r.stage = m.recip.stage /\ r.active /\ r.wait_cycles = left
      /\ r.start_counts = m.recip.start_counts
      /\ r.end_counts = m.recip.end_counts
      /\ r.repeat_count = m.recip.repeat_count
      /\ r.completed_count = m.recip.completed_count
  BY <1>0 DEF Recip
<1> HIDE DEF n, r
<1>6. /\ n \in MotionState /\ n.recip = r
      /\ n.trajectory = m.trajectory /\ n.control = m.control
  BY <1>0, <1>3, <1>4 DEF MotionState
<1>7. RecipItinerary(n)
  BY <1>0, <1>5, <1>6 DEF RecipItinerary
<1>8. CASE left > 0
  <2>1. SomethingToAdvance(n)
    BY <1>5, <1>6, <1>8 DEF SomethingToAdvance, MotionInv
  <2>2. TrajectoryCoherent(n)
    BY <1>0, <1>6 DEF TrajectoryCoherent
  <2> QED BY <1>0, <1>2, <1>6, <1>7, <1>8, <2>1, <2>2 DEF MotionInv, result
<1>9. CASE ~(left > 0)
  <2>1. LegOver(n)
    BY <1>0, <1>5, <1>6 DEF LegOver, RecipItinerary
  <2>2. CASE m.recip.stage = "WAIT_FIRST"
    <3>1. n.control.command_counts = n.recip.end_counts
      BY <1>0, <1>5, <1>6, <2>2 DEF RecipItinerary
    <3>2. m.recip.start_counts = n.recip.start_counts
      BY <1>5, <1>6
    <3>3. MotionInv(motion_recip_move_start(n, m.recip.start_counts, "MOVE_BACK", actual, plan))
      BY <2>1, <3>1, <3>2, RecipMoveStartInv
    <3> QED BY <1>2, <1>9, <2>2, <3>3 DEF result
  <2>3. CASE m.recip.stage = "WAIT_SECOND"
    <3>1. n.control.command_counts = n.recip.start_counts
      BY <1>0, <1>5, <1>6, <2>3 DEF RecipItinerary
    <3>2. m.recip.end_counts = n.recip.end_counts
      BY <1>5, <1>6
    <3>3. MotionInv(motion_recip_move_start(n, m.recip.end_counts, "MOVE_OUT", actual, plan))
      BY <2>1, <3>1, <3>2, RecipMoveStartInv
    <3> QED BY <1>2, <1>9, <2>3, <3>3 DEF result
  <2> QED BY <2>2, <2>3
<1> QED BY <1>8, <1>9

(* One cycle of a segment, seen from the whole motion state: until DONE    *)
(* the invariant holds again; at DONE only the segment is over.            *)
LEMMA SegmentRunInv ==
  ASSUME NEW m, MotionInv(m), Moving(m.trajectory), NEW cmd \in Int32,
         NEW actual \in Int32, ~SegmentDone(m, actual, cmd)
  PROVE  MotionInv(motion_segment_process(m, actual, cmd))
<1> DEFINE n == motion_segment_process(m, actual, cmd)
<1>1. /\ n \in MotionState /\ TrajectoryCoherent(n) /\ Moving(n.trajectory)
      /\ n.trajectory.start_counts = m.trajectory.start_counts
      /\ n.trajectory.target_counts = m.trajectory.target_counts
      /\ n.recip = m.recip
      /\ n.control = [m.control EXCEPT !.command_counts = n.control.command_counts]
  BY SegmentStep
<1> HIDE DEF n
<1>2. /\ n.control.busy = m.control.busy /\ n.control.paused = m.control.paused
      /\ n.control.done = m.control.done /\ n.control.error = m.control.error
      /\ n.control.mode = m.control.mode
  BY <1>1 DEF MotionInv, MotionState, Control
<1>3. ControlCoherent(n.control)
  BY <1>2 DEF ControlCoherent, MotionInv
<1>4. SomethingToAdvance(n)
  BY <1>1, <1>2 DEF SomethingToAdvance, MotionInv
<1>5. RecipItinerary(n)
  <2>1. m.recip.stage \notin {"WAIT_FIRST", "WAIT_SECOND"}
    BY DEF MotionInv, SomethingToAdvance
  <2> QED BY <1>1, <2>1 DEF RecipItinerary, MotionInv
<1> QED BY <1>1, <1>3, <1>4, <1>5 DEF MotionInv, n

(* One cycle of a reciprocation keeps the motion coherent.                *)
LEMMA RecipProcessInv ==
  ASSUME NEW m, MotionInv(m), m.control.busy, m.control.mode = "RECIP",
         NEW cmd \in Int32, NEW actual \in Int32, NEW plan \in 0..MaxTotalCycles
  PROVE  MotionInv(motion_recip_process(m, actual, cmd, plan))
<1> DEFINE seg == motion_segment_process(m, actual, cmd)
<1>0. /\ m \in MotionState /\ m.recip.stage \in Stages \ {"IDLE"} /\ m.recip.active
      /\ ControlCoherent(m.control) /\ RecipItinerary(m)
  BY DEF MotionInv, SomethingToAdvance, MotionState, Recip
<1>1. CASE m.recip.stage \in {"WAIT_FIRST", "WAIT_SECOND"}
  <2>1. motion_recip_process(m, actual, cmd, plan) = RecipWait(m, actual, plan)
    BY <1>1 DEF motion_recip_process
  <2> QED BY <1>1, <2>1, RecipWaitInv
<1>2. CASE m.recip.stage \in {"MOVE_OUT", "MOVE_BACK"}
  <2>1. motion_recip_process(m, actual, cmd, plan) =
          IF SegmentDone(m, actual, cmd) THEN RecipArrived(seg, actual, plan) ELSE seg
    BY <1>2 DEF motion_recip_process
  <2>2. Moving(m.trajectory)
    BY <1>2 DEF MotionInv, SomethingToAdvance
  <2>3. CASE ~SegmentDone(m, actual, cmd)
    BY <2>1, <2>2, <2>3, SegmentRunInv
  <2>4. CASE SegmentDone(m, actual, cmd)
    <3>1. /\ seg \in MotionState /\ ~Moving(seg.trajectory)
          /\ seg.control.command_counts = seg.trajectory.target_counts
          /\ seg.trajectory.target_counts = m.trajectory.target_counts
          /\ seg.recip = m.recip
          /\ seg.control = [m.control EXCEPT !.command_counts = seg.control.command_counts]
      BY <2>2, <2>4, SegmentStep
    <3>2. motion_recip_process(m, actual, cmd, plan) = RecipArrived(seg, actual, plan)
      BY <2>1, <2>4
    <3> HIDE DEF seg
    <3>3. /\ seg.control.busy = m.control.busy /\ seg.control.paused = m.control.paused
          /\ seg.control.done = m.control.done /\ seg.control.error = m.control.error
          /\ seg.control.mode = m.control.mode
      BY <1>0, <3>1 DEF MotionState, Control
    <3>4. ControlCoherent(seg.control)
      BY <1>0, <3>3 DEF ControlCoherent
    <3>5. LegOver(seg)
      BY <1>0, <3>1, <3>3, <3>4 DEF LegOver, RecipItinerary
    <3>6. \/ /\ seg.recip.stage = "MOVE_OUT"
             /\ seg.control.command_counts = seg.recip.end_counts
          \/ /\ seg.recip.stage = "MOVE_BACK"
             /\ seg.control.command_counts = seg.recip.start_counts
      BY <1>0, <1>2, <3>1 DEF RecipItinerary
    <3>7. MotionInv(RecipArrived(seg, actual, plan))
      BY <3>5, <3>6, RecipArrivedInv
    <3> QED BY <3>2, <3>7
  <2> QED BY <2>3, <2>4
<1> QED BY <1>0, <1>1, <1>2 DEF Stages

(* So does the second half of ethercat_motion_process.                    *)
LEMMA AdvanceInv ==
  ASSUME NEW m, MotionInv(m), NEW cmd \in Int32, NEW actual \in Int32,
         NEW plan \in 0..MaxTotalCycles
  PROVE  MotionInv(MotionAdvance(m, actual, cmd, plan))
<1>1. CASE ~m.control.busy \/ m.control.paused
  BY <1>1 DEF MotionAdvance
<1>2. CASE m.control.busy /\ ~m.control.paused /\ m.control.mode = "RECIP"
  <2>1. MotionAdvance(m, actual, cmd, plan) = motion_recip_process(m, actual, cmd, plan)
    BY <1>2 DEF MotionAdvance
  <2> QED BY <1>2, <2>1, RecipProcessInv
<1>3. CASE m.control.busy /\ ~m.control.paused /\ m.control.mode # "RECIP"
  <2> DEFINE seg == motion_segment_process(m, actual, cmd)
  <2>1. MotionAdvance(m, actual, cmd, plan) =
          IF SegmentDone(m, actual, cmd) THEN motion_finish_success(seg) ELSE seg
    BY <1>3 DEF MotionAdvance
  <2>2. ~m.recip.active /\ m.recip.stage = "IDLE" /\ Moving(m.trajectory)
    BY <1>3 DEF MotionInv, SomethingToAdvance, MotionState, Recip
  <2>3. CASE ~SegmentDone(m, actual, cmd)
    BY <2>1, <2>2, <2>3, SegmentRunInv
  <2>4. CASE SegmentDone(m, actual, cmd)
    <3>1. seg \in MotionState /\ ~Moving(seg.trajectory) /\ seg.recip = m.recip
      BY <2>2, <2>4, SegmentStep
    <3>2. MotionAdvance(m, actual, cmd, plan) = motion_finish_success(seg)
      BY <2>1, <2>4
    <3> HIDE DEF seg
    <3>3. MotionInv(motion_finish_success(seg))
      BY <2>2, <3>1, FinishSuccessInv
    <3> QED BY <3>2, <3>3
  <2> QED BY <2>3, <2>4
<1> QED BY <1>1, <1>2, <1>3

-----------------------------------------------------------------------------
(* Requests.  Giving up a paused motion leaves nothing to advance.         *)
LEMMA DropPausedStartable ==
  ASSUME NEW m, MotionInv(m), ~m.control.busy \/ m.control.paused
  PROVE  Startable(DropPaused(m))
<1>0. /\ m \in MotionState /\ ControlCoherent(m.control)
      /\ m.trajectory \in Trajectory /\ m.recip \in Recip /\ m.control \in Control
  BY DEF MotionInv, MotionState
<1>1. CASE ~m.control.paused
  <2>1. DropPaused(m) = m
    BY <1>1 DEF DropPaused
  <2>2. ~m.control.busy
    BY <1>1
  <2> QED BY <1>0, <1>1, <2>1, <2>2 DEF Startable, MotionInv, SomethingToAdvance
<1>2. CASE m.control.paused
  <2> DEFINE t == [m.trajectory EXCEPT !.running = FALSE, !.waiting_actual = FALSE]
             r == [m.recip EXCEPT !.active = FALSE, !.stage = "IDLE"]
             c == [m.control EXCEPT !.paused = FALSE]
             n == DropPaused(m)
  <2>1. t \in Trajectory /\ ~t.running /\ ~t.waiting_actual
    BY <1>0 DEF Trajectory
  <2>2. r \in Recip /\ ~r.active /\ r.stage = "IDLE"
    BY <1>0 DEF Recip, Stages
  <2>3. c \in Control /\ ~c.paused
    BY <1>0 DEF Control
  <2>4. n = [m EXCEPT !.trajectory = t, !.recip = r, !.control = c]
    BY <1>2 DEF DropPaused
  <2> HIDE DEF t, r, c, n
  <2>5. n \in MotionState /\ n.trajectory = t /\ n.recip = r /\ n.control = c
    BY <1>0, <2>1, <2>2, <2>3, <2>4 DEF MotionState
  <2> QED BY <2>1, <2>2, <2>3, <2>5 DEF Startable, Moving, n
<1> QED BY <1>1, <1>2

(* Pausing and continuing change the flags only.                          *)
LEMMA PausedInv ==
  ASSUME NEW m, MotionInv(m), m.control.busy, NEW flag \in BOOLEAN
  PROVE  MotionInv(Paused(m, flag))
<1> DEFINE c == [m.control EXCEPT !.busy = TRUE, !.paused = flag,
                                  !.done = FALSE, !.error = FALSE]
           n == Paused(m, flag)
<1>0. m \in MotionState /\ m.control \in Control
  BY DEF MotionInv, MotionState
<1>1. c \in Control
  BY <1>0 DEF Control
<1>2. /\ c.mode = m.control.mode /\ c.busy /\ ~c.done /\ ~c.error
      /\ c.command_counts = m.control.command_counts
      /\ c.target_counts = m.control.target_counts
  BY <1>0 DEF Control
<1>3. n = [m EXCEPT !.control = c]
  BY DEF Paused
<1> HIDE DEF c, n
<1>4. n \in MotionState /\ n.control = c /\ n.trajectory = m.trajectory /\ n.recip = m.recip
  BY <1>0, <1>1, <1>3 DEF MotionState
<1>5. ControlCoherent(n.control)
  BY <1>2, <1>4 DEF ControlCoherent, MotionInv
<1>6. TrajectoryCoherent(n)
  BY <1>2, <1>4 DEF TrajectoryCoherent, MotionInv
<1>7. SomethingToAdvance(n)
  BY <1>2, <1>4 DEF SomethingToAdvance, MotionInv
<1>8. RecipItinerary(n)
  BY <1>2, <1>4 DEF RecipItinerary, MotionInv
<1> QED BY <1>4, <1>5, <1>6, <1>7, <1>8 DEF MotionInv, n

(* A request as the API accepted it, applied to a coherent motion state.   *)
LEMMA RequestApplyInv ==
  ASSUME NEW m, MotionInv(m), NEW req \in Request, NEW actual \in Int32,
         NEW plan \in 0..MaxTotalCycles,
         req.action = "START" =>
           /\ req.mode \in SingleModes \cup {"RECIP"}
           /\ s_motor_params \in MotorParams
           /\ ~m.control.busy \/ m.control.paused
  PROVE  MotionInv(motion_request_apply(m, req, actual, plan))
<1> DEFINE result == motion_request_apply(m, req, actual, plan)
<1>0. m \in MotionState
  BY DEF MotionInv
<1>1. CASE req.action = "PAUSE" /\ m.control.busy
  <2>1. result = Paused(m, TRUE)
    BY <1>1 DEF motion_request_apply
  <2> QED BY <1>1, <2>1, PausedInv
<1>2. CASE req.action = "ABORT" \/ (req.action = "PAUSE" /\ ~m.control.busy)
  <2>1. result = HoldActual(m, actual, TRUE)
    BY <1>2 DEF motion_request_apply, motion_abort_apply
  <2> QED BY <1>0, <2>1, HoldActualInv
<1>3. CASE req.action = "CONTINUE"
  <2>1. result = IF m.control.busy /\ m.control.paused THEN Paused(m, FALSE) ELSE m
    BY <1>3 DEF motion_request_apply
  <2> QED BY <2>1, PausedInv
<1>4. CASE req.action = "START" /\ req.mode = "RECIP"
  <2>1. result = motion_recip_start_internal(DropPaused(m), req, actual, plan)
    BY <1>4 DEF motion_request_apply
  <2>2. Startable(DropPaused(m)) /\ s_motor_params \in MotorParams
    BY <1>4, DropPausedStartable
  <2>3. MotionInv(motion_recip_start_internal(DropPaused(m), req, actual, plan))
    BY <2>2, RecipStartInv
  <2> QED BY <2>1, <2>3
<1>5. CASE req.action = "START" /\ req.mode # "RECIP"
  <2>1. result = motion_single_start(DropPaused(m), req, actual, plan)
    BY <1>5 DEF motion_request_apply
  <2>2. Startable(DropPaused(m)) /\ req.mode \in SingleModes
    BY <1>5, DropPausedStartable
  <2>3. MotionInv(motion_single_start(DropPaused(m), req, actual, plan))
    BY <2>2, SingleStartInv
  <2> QED BY <2>1, <2>3
<1>6. req.action \in {"START", "PAUSE", "CONTINUE", "ABORT"}
  BY DEF Request
<1> QED BY <1>1, <1>2, <1>3, <1>4, <1>5, <1>6

-----------------------------------------------------------------------------
(* The inductive invariant.  Beyond the properties themselves it says what *)
(* a waiting START looks like, that parameters are never taken back, and   *)
(* that nothing moves before the first cycle has aligned the command.      *)
IInv ==
  /\ TypeOK
  /\ MotionInv(Motion)
  /\ RequestStillValid
  /\ s_request.pending /\ s_request.action = "START" =>
       s_request.mode \in SingleModes \cup {"RECIP"} /\ s_motor_params # NoParams
  /\ params_seen # {} => s_motor_params # NoParams
  /\ ~s_motion_initialized => ~s_control.busy

(* The invariant holds initially.                                         *)
LEMMA InitIInv == Init => IInv
<1> SUFFICES ASSUME Init PROVE IInv
  OBVIOUS
<1> USE MotionAssumption DEF MotionAssumption
<1>0. 0 \in Int32 /\ 0 \in 0..(UINT32_MODULUS - 1) /\ 0 \in 0..MaxTotalCycles
      /\ 0 \in 0..MOTION_POSITION_STABLE_CYCLES
  BY DEF Int32
<1>1. s_request \in Request
  BY <1>0 DEF Init, EmptyRequest, Request, Modes
<1>2. s_control \in Control
  BY <1>0 DEF Init, Control, Modes
<1>3. s_trajectory \in Trajectory
  BY <1>0 DEF Init, Trajectory
<1>4. s_recip \in Recip
  BY <1>0 DEF Init, Recip, Stages
<1>5. input1s \in InputImage /\ TargetPos \in Int32 /\ s_software_zero_counts \in Int32
      /\ s_motor_params \in MotorParams \cup {NoParams} /\ s_motion_initialized \in BOOLEAN
      /\ params_seen = {}
  BY <1>0 DEF Init, InputImage
<1>6. TypeOK
  BY <1>1, <1>2, <1>3, <1>4, <1>5 DEF TypeOK
<1>7. Motion \in MotionState
  BY <1>2, <1>3, <1>4 DEF Motion, MotionState
<1>8. /\ ~s_control.busy /\ ~s_control.paused /\ ~s_control.done /\ ~s_control.error
      /\ s_control.mode = "IDLE"
      /\ ~s_trajectory.running /\ ~s_trajectory.waiting_actual
      /\ ~s_recip.active /\ s_recip.stage = "IDLE" /\ ~s_request.pending
  BY DEF Init, EmptyRequest
<1>9. Motion.control = s_control /\ Motion.trajectory = s_trajectory /\ Motion.recip = s_recip
  BY DEF Motion
<1>10. /\ ControlCoherent(Motion.control) /\ TrajectoryCoherent(Motion)
       /\ SomethingToAdvance(Motion) /\ RecipItinerary(Motion)
  BY <1>8, <1>9 DEF ControlCoherent, TrajectoryCoherent, SomethingToAdvance,
                    RecipItinerary, Moving
<1> QED BY <1>5, <1>6, <1>7, <1>8, <1>10 DEF IInv, MotionInv, RequestStillValid

-----------------------------------------------------------------------------
(* The application tasks.                                                  *)

(* The cleared request is a request.                                      *)
LEMMA EmptyRequestType == EmptyRequest \in Request
<1> USE MotionAssumption DEF MotionAssumption
<1>1. 0 \in 0..(UINT32_MODULUS - 1)
  OBVIOUS
<1> QED BY <1>1 DEF EmptyRequest, Request, Modes

(* A submitted request leaves the motion alone and is a well-formed START. *)
LEMMA SubmitIInv ==
  ASSUME IInv, NEW request \in Request, request.action = "START",
         request.mode \in SingleModes \cup {"RECIP"}, s_motor_params # NoParams,
         motion_request_submit(request)
  PROVE  IInv'
<1>1. /\ s_request' = [request EXCEPT !.pending = TRUE]
      /\ ~s_control.busy \/ s_control.paused
      /\ UNCHANGED <<s_control, s_trajectory, s_recip, s_software_zero_counts,
                     s_motor_params, params_seen, s_motion_initialized, input1s, TargetPos>>
  BY DEF motion_request_submit
<1>2. /\ s_request' \in Request /\ s_request'.action = "START"
      /\ s_request'.mode = request.mode
  BY <1>1 DEF Request
<1>3. TypeOK'
  BY <1>1, <1>2 DEF IInv, TypeOK
<1>4. MotionInv(Motion)'
  BY <1>1 DEF IInv, Motion
<1>5. RequestStillValid'
  BY <1>1, <1>2 DEF RequestStillValid
<1> QED BY <1>1, <1>2, <1>3, <1>4, <1>5 DEF IInv

(* stop, continue and abort.                                               *)
LEMMA PostActionIInv ==
  ASSUME IInv, NEW action \in {"PAUSE", "CONTINUE", "ABORT"}, PostAction(action),
         action = "PAUSE" => s_control.busy /\ ~s_control.paused,
         action = "CONTINUE" => s_control.busy /\ s_control.paused
  PROVE  IInv'
<1>1. /\ s_request' = [EmptyRequest EXCEPT !.action = action, !.mode = "STOP",
                                           !.pending = TRUE]
      /\ UNCHANGED <<s_control, s_trajectory, s_recip, s_software_zero_counts,
                     s_motor_params, params_seen, s_motion_initialized, input1s, TargetPos>>
  BY DEF PostAction
<1>2. s_request' \in Request /\ s_request'.action = action
  BY <1>1, EmptyRequestType DEF Request, Modes
<1>3. TypeOK'
  BY <1>1, <1>2 DEF IInv, TypeOK
<1>4. MotionInv(Motion)'
  BY <1>1 DEF IInv, Motion
<1>5. RequestStillValid'
  BY <1>1, <1>2 DEF RequestStillValid
<1> QED BY <1>1, <1>2, <1>3, <1>4, <1>5 DEF IInv

(* Every API call preserves the invariant.                                *)
LEMMA ApplicationIInv ==
  ASSUME IInv, Application
  PROVE  IInv'
<1> USE MotionAssumption DEF MotionAssumption
<1>1. ASSUME NEW params \in MotorParams, ethercat_motion_motor_params_set(params)
      PROVE  IInv'
  <2>1. /\ s_motor_params' = params /\ ~s_request.pending
        /\ params_seen' = params_seen \cup {params}
        /\ UNCHANGED <<s_request, s_control, s_trajectory, s_recip,
                       s_software_zero_counts, s_motion_initialized, input1s, TargetPos>>
    BY <1>1 DEF ethercat_motion_motor_params_set
  <2>2. TypeOK' /\ RequestStillValid'
    BY <2>1 DEF IInv, TypeOK, RequestStillValid
  <2>3. MotionInv(Motion)'
    BY <2>1 DEF IInv, Motion
  <2> QED BY <2>1, <2>2, <2>3 DEF IInv
<1>2. ASSUME NEW mode \in SingleModes, NEW p \in Int \cup {NotFinite}, NEW v \in Nat,
             ethercat_motion_command_set(mode, p, v)
      PROVE  IInv'
  <2> DEFINE request == [EmptyRequest EXCEPT !.mode = mode, !.position_mm = p,
                                             !.velocity_mm_s = v]
  <2>1. request \in Request
    BY EmptyRequestType DEF Request, Modes
  <2>2. request.action = "START" /\ request.mode = mode
    BY DEF EmptyRequest
  <2>3. motion_request_submit(request) /\ s_motor_params # NoParams
    BY <1>2 DEF IInv, ethercat_motion_command_set, motion_request_validate
  <2> HIDE DEF request
  <2> QED BY <2>1, <2>2, <2>3, SubmitIInv
<1>3. ASSUME ethercat_motion_mechanical_zero_return
      PROVE  IInv'
  <2> DEFINE request == [EmptyRequest EXCEPT !.mode = "MOVE_ABS",
                                             !.absolute_reference = "ENCODER_ZERO",
                                             !.velocity_mm_s = ZERO_RETURN_VELOCITY_MM_S]
  <2>1. request \in Request
    BY EmptyRequestType DEF Request, Modes, SingleModes
  <2>2. request.action = "START" /\ request.mode \in SingleModes
    BY DEF EmptyRequest, SingleModes
  <2>3. motion_request_submit(request) /\ s_motor_params # NoParams
    BY <1>3 DEF IInv, ethercat_motion_mechanical_zero_return, motion_request_validate
  <2> HIDE DEF request
  <2> QED BY <2>1, <2>2, <2>3, SubmitIInv
<1>4. ASSUME ethercat_motion_software_zero_return
      PROVE  IInv'
  BY <1>2, <1>4 DEF ethercat_motion_software_zero_return, SingleModes
<1>5. ASSUME NEW p \in PositionMm, NEW v \in VelocityMmS, NEW f \in IntervalMs,
             NEW t \in IntervalMs, NEW n \in RepeatCount,
             ethercat_motion_recip_start(p, v, f, t, n)
      PROVE  IInv'
  <2> DEFINE request == [EmptyRequest EXCEPT !.mode = "RECIP", !.position_mm = p,
                                             !.velocity_mm_s = v,
                                             !.first_interval_ms = f,
                                             !.second_interval_ms = t,
                                             !.repeat_count = n]
  <2>0. /\ p \in Int \cup {NotFinite} /\ v \in Nat /\ f \in Nat /\ t \in Nat
        /\ n \in 0..(UINT32_MODULUS - 1)
    OBVIOUS
  <2>1. request \in Request
    BY <2>0, EmptyRequestType DEF Request, Modes
  <2>2. request.action = "START" /\ request.mode = "RECIP"
    BY DEF EmptyRequest
  <2>3. motion_request_submit(request) /\ s_motor_params # NoParams
    BY <1>5 DEF IInv, ethercat_motion_recip_start, motion_request_validate
  <2> HIDE DEF request
  <2> QED BY <2>1, <2>2, <2>3, SubmitIInv
<1>6. ASSUME ethercat_motion_software_zero_set
      PROVE  IInv'
  <2>1. /\ s_software_zero_counts' = input1s.CurrentPosition
        /\ UNCHANGED <<s_request, s_control, s_trajectory, s_recip, s_motor_params,
                       params_seen, s_motion_initialized, input1s, TargetPos>>
    BY <1>6 DEF ethercat_motion_software_zero_set
  <2>2. TypeOK' /\ RequestStillValid'
    BY <2>1 DEF IInv, TypeOK, RequestStillValid, InputImage
  <2>3. MotionInv(Motion)'
    BY <2>1 DEF IInv, Motion
  <2> QED BY <2>1, <2>2, <2>3 DEF IInv
<1>7. ASSUME ethercat_motion_stop \/ ethercat_motion_continue \/ ethercat_motion_abort
      PROVE  IInv'
  BY <1>7, PostActionIInv
     DEF ethercat_motion_stop, ethercat_motion_continue, ethercat_motion_abort
<1>8. PositionMm \subseteq Int \cup {NotFinite} /\ VelocityMmS \subseteq Nat
  OBVIOUS
<1> QED BY <1>1, <1>2, <1>3, <1>4, <1>5, <1>6, <1>7, <1>8 DEF Application

-----------------------------------------------------------------------------
(* The PDO task.                                                           *)

(* Aligning the command keeps the motion coherent and its flags.          *)
LEMMA AlignedInv ==
  ASSUME IInv, NEW actual \in Int32
  PROVE  /\ MotionInv(MotionAligned(actual))
         /\ MotionAligned(actual).control.busy = s_control.busy
         /\ MotionAligned(actual).control.paused = s_control.paused
<1> DEFINE n == MotionAligned(actual)
<1>0. /\ s_control \in Control /\ s_trajectory \in Trajectory /\ s_recip \in Recip
      /\ MotionInv(Motion)
  BY DEF IInv, TypeOK
<1>1. CASE s_motion_initialized
  <2>1. n = Motion
    BY <1>1 DEF MotionAligned, Motion
  <2> QED BY <1>0, <2>1 DEF Motion
<1>2. CASE ~s_motion_initialized
  <2> DEFINE c == [s_control EXCEPT !.command_counts = actual, !.target_counts = actual]
  <2>1. c \in Control
    BY <1>0 DEF Control
  <2>2. /\ c.mode = s_control.mode /\ c.busy = s_control.busy
        /\ c.paused = s_control.paused /\ c.done = s_control.done
        /\ c.error = s_control.error
    BY <1>0 DEF Control
  <2>3. n = [control |-> c, trajectory |-> s_trajectory, recip |-> s_recip]
    BY <1>2 DEF MotionAligned
  <2> HIDE DEF c, n
  <2>4. /\ n \in MotionState /\ n.control = c /\ n.trajectory = s_trajectory
        /\ n.recip = s_recip
    BY <1>0, <2>1, <2>3 DEF MotionState
  <2>5. /\ ~s_control.busy
        /\ Motion.control = s_control /\ Motion.trajectory = s_trajectory
        /\ Motion.recip = s_recip
    BY <1>2 DEF IInv, Motion
  <2>6. ControlCoherent(s_control) /\ SomethingToAdvance(Motion)
    BY <1>0, <2>5 DEF MotionInv
  <2>7. ControlCoherent(n.control)
    BY <2>2, <2>4, <2>6 DEF ControlCoherent
  <2>8. ~Moving(s_trajectory) /\ ~s_recip.active /\ s_recip.stage = "IDLE"
    BY <1>0, <2>5, <2>6 DEF SomethingToAdvance, Recip
  <2>9. TrajectoryCoherent(n) /\ SomethingToAdvance(n) /\ RecipItinerary(n)
    BY <2>2, <2>4, <2>5, <2>8
       DEF TrajectoryCoherent, SomethingToAdvance, RecipItinerary, Moving
  <2> QED BY <2>2, <2>4, <2>7, <2>9 DEF MotionInv, n
<1> QED BY <1>1, <1>2

(* A cycle of ethercat_motion_process preserves the invariant.            *)
LEMMA ProcessIInv ==
  ASSUME IInv, NEW image \in InputImage, NEW cmd \in Int32,
         NEW plan \in 0..MaxTotalCycles, ethercat_motion_process(image, cmd, plan)
  PROVE  IInv'
<1> USE MotionAssumption DEF MotionAssumption
<1> DEFINE actual == image.CurrentPosition
           aligned == MotionAligned(actual)
           taken == image.csp_enabled /\ s_request.pending
           applied == IF taken THEN motion_request_apply(aligned, s_request, actual, plan)
                      ELSE aligned
           next == IF image.csp_enabled THEN MotionAdvance(applied, actual, cmd, plan)
                   ELSE applied
<1>2. /\ input1s' = image /\ s_motion_initialized' = TRUE
      /\ s_request' = IF taken THEN EmptyRequest ELSE s_request
      /\ s_control' = next.control /\ s_trajectory' = next.trajectory
      /\ s_recip' = next.recip
      /\ TargetPos' = Saturate(next.control.command_counts)
      /\ UNCHANGED <<s_software_zero_counts, s_motor_params, params_seen>>
  BY DEF ethercat_motion_process, motion_request_fetch, motion_target_output_write
<1>3. actual \in Int32
  BY DEF InputImage
<1> HIDE DEF actual
<1>4. /\ MotionInv(aligned) /\ aligned.control.busy = s_control.busy
      /\ aligned.control.paused = s_control.paused
  BY <1>3, AlignedInv
<1> HIDE DEF aligned
<1>5. MotionInv(applied)
  <2>1. ASSUME taken
        PROVE  MotionInv(motion_request_apply(aligned, s_request, actual, plan))
    <3>1. s_request \in Request
      BY DEF IInv, TypeOK
    <3>2. s_request.action = "START" =>
            /\ s_request.mode \in SingleModes \cup {"RECIP"}
            /\ s_motor_params \in MotorParams
            /\ ~aligned.control.busy \/ aligned.control.paused
      BY <1>4, <2>1 DEF IInv, TypeOK, RequestStillValid
    <3> QED BY <1>3, <1>4, <3>1, <3>2, RequestApplyInv
  <2> QED BY <1>4, <2>1
<1> HIDE DEF applied
<1>6. MotionInv(next)
  BY <1>3, <1>5, AdvanceInv
<1>7. ~image.csp_enabled => /\ next.control.busy = s_control.busy
                            /\ next.control.paused = s_control.paused
  BY <1>4 DEF applied
<1> HIDE DEF next
<1>8. next \in MotionState
  BY <1>6 DEF MotionInv
<1>9. Motion' = next
  BY <1>2, <1>8 DEF Motion, MotionState
<1>10. MotionInv(Motion)'
  BY <1>6, <1>9
<1>11. s_request' \in Request /\ (s_request'.pending => ~image.csp_enabled /\ s_request' = s_request)
  BY <1>2, EmptyRequestType DEF IInv, TypeOK, EmptyRequest
<1>12. TypeOK'
  <2>1. s_control' \in Control /\ s_trajectory' \in Trajectory /\ s_recip' \in Recip
    BY <1>2, <1>8 DEF MotionState
  <2>2. TargetPos' \in Int32
    <3>1. next.control.command_counts \in Int
      BY <1>8 DEF MotionState, Control, Int32
    <3> QED BY <1>2, <3>1 DEF Int32, Saturate
  <2> QED BY <1>2, <1>11, <2>1, <2>2 DEF IInv, TypeOK
<1>13. RequestStillValid'
  BY <1>2, <1>7, <1>11 DEF IInv, RequestStillValid
<1> QED BY <1>2, <1>10, <1>11, <1>12, <1>13 DEF IInv

(* So does a cycle that only refreshes the input image.                   *)
LEMMA RefreshIInv ==
  ASSUME IInv, NEW image \in InputImage, InputRefreshed(image)
  PROVE  IInv'
<1>1. /\ input1s' = image
      /\ UNCHANGED <<s_request, s_control, s_trajectory, s_recip, s_software_zero_counts,
                     s_motor_params, params_seen, s_motion_initialized, TargetPos>>
  BY DEF InputRefreshed
<1>2. TypeOK' /\ RequestStillValid'
  BY <1>1 DEF IInv, TypeOK, RequestStillValid
<1>3. MotionInv(Motion)'
  BY <1>1 DEF IInv, Motion
<1> QED BY <1>1, <1>2, <1>3 DEF IInv

(* Every step preserves the invariant.                                    *)
LEMMA NextIInv ==
  ASSUME IInv, [Next]_vars
  PROVE  IInv'
<1>1. CASE Next
  BY <1>1, ApplicationIInv, ProcessIInv, RefreshIInv DEF Next, PdoCycle
<1>2. CASE UNCHANGED vars
  <2>1. TypeOK' /\ RequestStillValid'
    BY <1>2 DEF IInv, TypeOK, RequestStillValid, vars
  <2>2. MotionInv(Motion)'
    BY <1>2 DEF IInv, Motion, vars
  <2> QED BY <1>2, <2>1, <2>2 DEF IInv, vars
<1> QED BY <1>1, <1>2

-----------------------------------------------------------------------------
(* The theorems.                                                           *)

(* IInv holds in every reachable state.                                    *)
THEOREM IInvariant == Spec => []IInv
<1>1. Init => IInv
  BY InitIInv
<1>2. IInv /\ [Next]_vars => IInv'
  BY NextIInv
<1> QED BY <1>1, <1>2, PTL DEF Spec

(* Every variable of ethercat_motion.c keeps its type, for any motor       *)
(* parameters, any positions and any oracle of the planner.                *)
THEOREM TypeCorrect == Spec => []TypeOK
<1>1. IInv => TypeOK
  BY DEF IInv
<1> QED BY <1>1, IInvariant, PTL

(* The flags, the trajectory and the reciprocating stage stay consistent:  *)
(* a busy motion always has something the next PDO cycle advances.         *)
THEOREM SchedulerIsCoherent == Spec => []SchedulerCoherent
<1>1. IInv => SchedulerCoherent
  BY DEF IInv, MotionInv, SchedulerCoherent, Motion
<1> QED BY <1>1, IInvariant, PTL

(* What an API call checked before it filled the slot still holds when the *)
(* PDO task empties it.                                                    *)
THEOREM RequestsStayValid == Spec => []RequestStillValid
<1>1. IInv => RequestStillValid
  BY DEF IInv
<1> QED BY <1>1, IInvariant, PTL

(* A reciprocating motion keeps to its two ends and its repeat count.      *)
THEOREM RecipKeepsItinerary == Spec => []RecipLegs
<1>1. IInv => RecipLegs
  BY DEF IInv, MotionInv, RecipLegs
<1> QED BY <1>1, IInvariant, PTL

-----------------------------------------------------------------------------
(* What a cycle does to the command, the flags and the velocity: needed    *)
(* for the action properties and for the refinement.                       *)

(* A segment that has not produced a command yet starts at the command.    *)
FreshStart(m) ==
  m.trajectory.running /\ m.trajectory.cycle_index = 0 =>
    m.trajectory.start_counts = m.control.command_counts

(* The three things a cycle can make of a motion.  It fails and holds the  *)
(* actual position;                                                        *)
FailsAt(n, actual) ==
  /\ n.control = [mode |-> "STOP", busy |-> FALSE, done |-> FALSE, error |-> TRUE,
                  paused |-> FALSE, command_counts |-> actual,
                  target_counts |-> actual]
  /\ ~n.trajectory.running /\ ~n.recip.active

(* it is done where it was commanded to, after at least one earlier cycle  *)
(* in the window;                                                          *)
Completes(m, n, actual) ==
  /\ n.control = [m.control EXCEPT !.mode = "IDLE", !.busy = FALSE, !.done = TRUE,
                                   !.error = FALSE, !.paused = FALSE]
  /\ n.control.command_counts = n.control.target_counts
  /\ InWindow(n.trajectory, actual)
  /\ m.control.mode = "RECIP" => n.recip.completed_count = n.recip.repeat_count
  /\ m.trajectory.actual_stable_cycles >= 1
  /\ ~n.trajectory.running /\ ~n.recip.active

(* or it goes on, with the same command or the next one of its segment.    *)
SegmentCommand(m, n, cmd) ==
  /\ m.trajectory.running
  /\ n.trajectory.start_counts = m.trajectory.start_counts
  /\ n.trajectory.target_counts = m.trajectory.target_counts
  /\ n.trajectory.cycle_index = m.trajectory.cycle_index + 1
  /\ n.control.command_counts \in {cmd, m.trajectory.target_counts}

SameFlags(c, d) ==
  /\ d.mode = c.mode /\ d.busy = c.busy /\ d.paused = c.paused
  /\ d.done = c.done /\ d.error = c.error

GoesOn(m, n, cmd) ==
  /\ SameFlags(m.control, n.control)
  /\ n.recip.active => /\ m.recip.active
                       /\ n.recip.velocity_mm_s = m.recip.velocity_mm_s
  /\ \/ n.control.command_counts = m.control.command_counts
     \/ SegmentCommand(m, n, cmd)
  /\ FreshStart(n)

(* What SegmentAdvance does to the command and the counters.               *)
LEMMA SegmentAdvanceCommand ==
  ASSUME NEW m, MotionInv(m), Moving(m.trajectory), NEW cmd \in Int32
  PROVE  LET n == SegmentAdvance(m, cmd)
         IN /\ ~m.trajectory.running => n = m
            /\ m.trajectory.running =>
                 /\ n.trajectory.cycle_index = m.trajectory.cycle_index + 1
                 /\ n.control.command_counts \in {cmd, m.trajectory.target_counts}
                 /\ n.trajectory.waiting_actual => n.trajectory.actual_stable_cycles = 0
<1> DEFINE n == SegmentAdvance(m, cmd)
           t == m.trajectory
           index == t.cycle_index + 1
<1>1. CASE ~t.running
  BY <1>1 DEF SegmentAdvance
<1>2. CASE t.running
  <2>1. /\ m \in MotionState /\ t \in Trajectory /\ m.control \in Control
        /\ t.cycle_index < t.total_cycles /\ ~t.waiting_actual
    BY <1>2 DEF MotionInv, MotionState, TrajectoryCoherent
  <2>2. CASE index >= t.total_cycles
    <3> DEFINE u == [t EXCEPT !.cycle_index = index, !.running = FALSE,
                              !.waiting_actual = TRUE, !.actual_stable_cycles = 0]
               c == [m.control EXCEPT !.command_counts = t.target_counts]
    <3>1. n = [m EXCEPT !.trajectory = u, !.control = c]
      BY <1>2, <2>1, <2>2 DEF SegmentAdvance
    <3> HIDE DEF index
    <3>2. /\ u.cycle_index = index /\ u.actual_stable_cycles = 0
          /\ c.command_counts = t.target_counts
      BY <2>1 DEF Trajectory, Control
    <3> HIDE DEF u, c
    <3>3. n.trajectory = u /\ n.control = c
      BY <2>1, <3>1 DEF MotionState
    <3> QED BY <1>2, <3>2, <3>3 DEF index
  <2>3. CASE ~(index >= t.total_cycles)
    <3> DEFINE u == [t EXCEPT !.cycle_index = index]
               c == [m.control EXCEPT !.command_counts = cmd]
    <3>1. n = [m EXCEPT !.trajectory = u, !.control = c]
      BY <1>2, <2>1, <2>3 DEF SegmentAdvance
    <3> HIDE DEF index
    <3>2. u.cycle_index = index /\ ~u.waiting_actual /\ c.command_counts = cmd
      BY <2>1 DEF Trajectory, Control
    <3> HIDE DEF u, c
    <3>3. n.trajectory = u /\ n.control = c
      BY <2>1, <3>1 DEF MotionState
    <3> QED BY <1>2, <3>2, <3>3 DEF index
  <2> QED BY <2>2, <2>3
<1> QED BY <1>1, <1>2

(* DONE takes at least two cycles in the window, so a segment is not done  *)
(* in the cycle that generates its last command.                           *)
LEMMA SegmentCommands ==
  ASSUME NEW m, MotionInv(m), Moving(m.trajectory),
         NEW cmd \in Int32, NEW actual \in Int32
  PROVE  LET n == motion_segment_process(m, actual, cmd)
         IN /\ ~m.trajectory.running => n.control = m.control
            /\ m.trajectory.running => SegmentCommand(m, n, cmd)
            /\ SegmentDone(m, actual, cmd) =>
                 /\ ~m.trajectory.running
                 /\ InWindow(n.trajectory, actual)
                 /\ m.trajectory.actual_stable_cycles >= 1
            /\ ~m.trajectory.running => ~n.trajectory.running
<1> DEFINE a == SegmentAdvance(m, cmd)
           n == motion_segment_process(m, actual, cmd)
           stable == IF InWindow(a.trajectory, actual)
                     THEN a.trajectory.actual_stable_cycles + 1 ELSE 0
<1> USE MotionAssumption DEF MotionAssumption
<1>1. /\ a \in MotionState /\ a.trajectory \in Trajectory
      /\ a.trajectory.start_counts = m.trajectory.start_counts
      /\ a.trajectory.target_counts = m.trajectory.target_counts
  BY SegmentAdvanceStep DEF MotionState
<1>2. /\ ~m.trajectory.running => a = m
      /\ m.trajectory.running =>
           /\ a.trajectory.cycle_index = m.trajectory.cycle_index + 1
           /\ a.control.command_counts \in {cmd, m.trajectory.target_counts}
           /\ a.trajectory.waiting_actual => a.trajectory.actual_stable_cycles = 0
  BY SegmentAdvanceCommand
<1>3. /\ a.trajectory.actual_stable_cycles \in Nat
      /\ stable \in Nat
  BY <1>1 DEF Trajectory
<1>4. SegmentDone(m, actual, cmd) =>
        /\ a.trajectory.waiting_actual /\ ~n.trajectory.waiting_actual
  BY DEF SegmentDone
<1>5. \/ n = a
      \/ /\ a.trajectory.waiting_actual /\ stable < MOTION_POSITION_STABLE_CYCLES
         /\ n = [a EXCEPT !.trajectory =
                   [a.trajectory EXCEPT !.actual_stable_cycles = stable]]
      \/ /\ a.trajectory.waiting_actual /\ ~(stable < MOTION_POSITION_STABLE_CYCLES)
         /\ n = [a EXCEPT !.trajectory =
                   [a.trajectory EXCEPT !.actual_stable_cycles = stable,
                                        !.waiting_actual = FALSE]]
  BY DEF motion_segment_process
<1>6. stable >= 2 => /\ InWindow(a.trajectory, actual)
                     /\ a.trajectory.actual_stable_cycles >= 1
  BY <1>3
<1> HIDE DEF a, n, stable
<1>7. /\ n.control = a.control
      /\ n.trajectory.start_counts = a.trajectory.start_counts
      /\ n.trajectory.target_counts = a.trajectory.target_counts
      /\ n.trajectory.cycle_index = a.trajectory.cycle_index
      /\ n.trajectory.running = a.trajectory.running
  <2> DEFINE t == a.trajectory
             u == [t EXCEPT !.actual_stable_cycles = stable]
             w == [t EXCEPT !.actual_stable_cycles = stable, !.waiting_actual = FALSE]
  <2>1. \A x \in {t, u, w} : /\ x.start_counts = t.start_counts
                            /\ x.target_counts = t.target_counts
                            /\ x.cycle_index = t.cycle_index
                            /\ x.running = t.running
    BY <1>1 DEF Trajectory
  <2>2. n = a \/ n = [a EXCEPT !.trajectory = u] \/ n = [a EXCEPT !.trajectory = w]
    BY <1>5
  <2> HIDE DEF u, w
  <2>3. n.control = a.control /\ n.trajectory \in {t, u, w}
    BY <1>1, <2>2 DEF MotionState
  <2> QED BY <2>1, <2>3
<1>8. SegmentDone(m, actual, cmd) => ~(stable < MOTION_POSITION_STABLE_CYCLES)
  BY <1>1, <1>4, <1>5 DEF MotionState, Trajectory
<1>9. SegmentDone(m, actual, cmd) => stable >= 2
  BY <1>3, <1>8
<1>10. InWindow(a.trajectory, actual) <=> InWindow(n.trajectory, actual)
  BY <1>7 DEF InWindow
<1>11. SegmentDone(m, actual, cmd) => ~m.trajectory.running
  BY <1>2, <1>4, <1>6, <1>9
<1>12. m.trajectory.running => SegmentCommand(m, n, cmd)
  BY <1>1, <1>2, <1>7 DEF SegmentCommand
<1> QED BY <1>2, <1>6, <1>7, <1>9, <1>10, <1>11, <1>12 DEF n

(* motion_finish_error in these terms.                                     *)
LEMMA HoldActualFails ==
  ASSUME NEW m \in MotionState, NEW actual \in Int32
  PROVE  FailsAt(motion_finish_error(m, actual), actual)
BY DEF FailsAt, motion_finish_error, HoldActual, MotionState, Trajectory, Recip

(* A segment started by motion_trajectory_start is fresh.                  *)
LEMMA TrajectoryStartFresh ==
  ASSUME NEW m \in MotionState, NEW target \in Int32,
         NEW plan \in 0..MaxTotalCycles, Plannable(m, target, plan)
  PROVE  LET n == motion_trajectory_start(m, target, plan)
         IN /\ FreshStart(n)
            /\ n.control = [m.control EXCEPT !.target_counts = target]
            /\ n.control.command_counts = m.control.command_counts
            /\ n.recip = m.recip
            /\ n.trajectory.actual_stable_cycles = 0
<1> DEFINE n == motion_trajectory_start(m, target, plan)
<1>1. /\ n.control = [m.control EXCEPT !.target_counts = target] /\ n.recip = m.recip
      /\ n.trajectory.actual_stable_cycles = 0
  BY DEF motion_trajectory_start, MotionState, Trajectory
<1>2. n.trajectory.start_counts = m.control.command_counts
  BY TrajectoryStart
<1>3. n.control.command_counts = m.control.command_counts
  BY <1>1 DEF MotionState, Control
<1> QED BY <1>1, <1>2, <1>3 DEF FreshStart

(* The reciprocation goes on with a dwell or the next leg: the command     *)
(* stays, and so does the velocity.                                        *)
NextLeg(m, n) ==
  /\ SameFlags(m.control, n.control)
  /\ n.control.command_counts = m.control.command_counts
  /\ m.recip.active
  /\ n.recip.velocity_mm_s = m.recip.velocity_mm_s
  /\ FreshStart(n)

(* It ends with the last of its round trips.                               *)
LastLeg(m, n) ==
  /\ n.control = [m.control EXCEPT !.mode = "IDLE", !.busy = FALSE, !.done = TRUE,
                                   !.error = FALSE, !.paused = FALSE]
  /\ n.trajectory = m.trajectory
  /\ ~n.recip.active
  /\ n.recip.completed_count = n.recip.repeat_count

(* The next leg of a reciprocation, or its failure.                        *)
LEMMA RecipMoveStartOutcome ==
  ASSUME NEW m, LegOver(m), NEW actual \in Int32, NEW plan \in 0..MaxTotalCycles,
         NEW target \in Int32, NEW stage \in Stages
  PROVE  LET n == motion_recip_move_start(m, target, stage, actual, plan)
         IN FailsAt(n, actual) \/ NextLeg(m, n)
<1> DEFINE n == motion_recip_move_start(m, target, stage, actual, plan)
<1>0. m \in MotionState /\ m.control \in Control /\ m.recip \in Recip /\ m.recip.active
  BY DEF LegOver, MotionState
<1>1. CASE ~Plannable(m, target, plan)
  <2>1. n = motion_finish_error(m, actual)
    BY <1>1 DEF motion_recip_move_start
  <2> QED BY <1>0, <2>1, HoldActualFails
<1>2. CASE Plannable(m, target, plan)
  <2> DEFINE t == motion_trajectory_start(m, target, plan)
             r == [m.recip EXCEPT !.stage = stage]
  <2>1. t \in MotionState
    BY <1>0, <1>2, TrajectoryStart
  <2>2. /\ FreshStart(t) /\ t.recip = m.recip
        /\ t.control = [m.control EXCEPT !.target_counts = target]
    BY <1>0, <1>2, TrajectoryStartFresh
  <2>3. n = [t EXCEPT !.recip.stage = stage]
    BY <1>2 DEF motion_recip_move_start
  <2> HIDE DEF t, n
  <2>4. n = [t EXCEPT !.recip = r]
    BY <2>1, <2>2, <2>3 DEF MotionState
  <2>5. r.velocity_mm_s = m.recip.velocity_mm_s
    BY <1>0 DEF Recip
  <2> HIDE DEF r
  <2>6. n.control = t.control /\ n.trajectory = t.trajectory /\ n.recip = r
    BY <2>1, <2>4 DEF MotionState
  <2>7. SameFlags(m.control, t.control) /\ t.control.command_counts = m.control.command_counts
    BY <1>0, <2>2 DEF SameFlags, Control
  <2>8. NextLeg(m, n)
    BY <1>0, <2>2, <2>5, <2>6, <2>7 DEF NextLeg, FreshStart
  <2> QED BY <2>8 DEF n
<1> QED BY <1>1, <1>2

(* A dwell is such a continuation.                                         *)
LEMMA DwellOutcome ==
  ASSUME NEW m, LegOver(m), NEW stage \in Stages, NEW cycles \in Nat
  PROVE  NextLeg(m, Dwell(m, stage, cycles))
<1> DEFINE r == [m.recip EXCEPT !.stage = stage, !.wait_cycles = cycles]
           n == Dwell(m, stage, cycles)
<1>0. m \in MotionState /\ m.recip \in Recip /\ m.recip.active /\ ~m.trajectory.running
  BY DEF LegOver, MotionState, Moving
<1>1. n = [m EXCEPT !.recip = r]
  BY DEF Dwell
<1>2. r.velocity_mm_s = m.recip.velocity_mm_s
  BY <1>0 DEF Recip
<1> HIDE DEF r, n
<1>3. n.control = m.control /\ n.trajectory = m.trajectory /\ n.recip = r
  BY <1>0, <1>1 DEF MotionState
<1>4. NextLeg(m, n)
  BY <1>0, <1>2, <1>3 DEF NextLeg, FreshStart, SameFlags
<1> QED BY <1>4 DEF n

(* A reciprocation that arrived at the end of a leg.                       *)
LEMMA RecipArrivedOutcome ==
  ASSUME NEW m, LegOver(m), NEW actual \in Int32, NEW plan \in 0..MaxTotalCycles,
         m.recip.stage \in {"MOVE_OUT", "MOVE_BACK"}
  PROVE  LET n == RecipArrived(m, actual, plan)
         IN \/ FailsAt(n, actual)
            \/ NextLeg(m, n)
            \/ LastLeg(m, n)
<1> USE MotionAssumption DEF MotionAssumption
<1> DEFINE n == RecipArrived(m, actual, plan)
           completed == (m.recip.completed_count + 1) % UINT32_MODULUS
           r == [m.recip EXCEPT !.completed_count = completed]
           counted == [m EXCEPT !.recip.completed_count = completed]
           last == m.recip.repeat_count # RECIP_FOREVER /\ completed >= m.recip.repeat_count
<1>0. /\ m \in MotionState /\ m.recip \in Recip /\ m.control \in Control
      /\ m.recip.start_counts \in Int32 /\ m.recip.end_counts \in Int32
      /\ m.recip.first_interval_cycles \in Nat /\ m.recip.second_interval_cycles \in Nat
      /\ m.recip.completed_count \in Nat /\ m.recip.repeat_count \in Nat
      /\ m.recip.repeat_count < UINT32_MODULUS
  BY DEF LegOver, MotionState, Recip
<1>1. CASE m.recip.stage = "MOVE_OUT"
  <2>1. \/ n = Dwell(m, "WAIT_FIRST", m.recip.first_interval_cycles)
        \/ n = motion_recip_move_start(m, m.recip.start_counts, "MOVE_BACK", actual, plan)
    BY <1>0, <1>1 DEF RecipArrived
  <2> HIDE DEF n
  <2>2. "WAIT_FIRST" \in Stages /\ "MOVE_BACK" \in Stages
    BY DEF Stages
  <2>3. NextLeg(m, n) \/ FailsAt(n, actual)
    BY ONLY <1>0, <2>1, <2>2, LegOver(m), actual \in Int32, plan \in 0..MaxTotalCycles,
            DwellOutcome, RecipMoveStartOutcome
  <2> QED BY <2>3 DEF n
<1>2. CASE m.recip.stage = "MOVE_BACK"
  <2>1. /\ completed \in 0..(UINT32_MODULUS - 1)
        /\ m.recip.repeat_count # RECIP_FOREVER =>
             completed = m.recip.completed_count + 1 /\ completed <= m.recip.repeat_count
    <3>1. m.recip.repeat_count # RECIP_FOREVER =>
            m.recip.completed_count < m.recip.repeat_count
      BY DEF LegOver
    <3> QED BY <1>0, <3>1
  <2>2. \/ last /\ n = RecipFinished(counted)
        \/ ~last /\ n = Dwell(counted, "WAIT_SECOND", m.recip.second_interval_cycles)
        \/ ~last /\ n = motion_recip_move_start(counted, m.recip.end_counts, "MOVE_OUT",
                                                actual, plan)
    BY <1>0, <1>2 DEF RecipArrived
  <2>3. last => completed = m.recip.repeat_count
    BY <1>0, <2>1
  <2>4. ~last => (m.recip.repeat_count # RECIP_FOREVER => completed < m.recip.repeat_count)
    BY <1>0, <2>1
  <2> HIDE DEF completed, last
  <2>5. counted = [m EXCEPT !.recip = r]
    BY <1>0 DEF MotionState
  <2>6. r \in Recip
    BY <1>0, <2>1 DEF Recip
  <2>7. /\ r.active /\ r.start_counts = m.recip.start_counts
        /\ r.end_counts = m.recip.end_counts /\ r.repeat_count = m.recip.repeat_count
        /\ r.completed_count = completed /\ r.velocity_mm_s = m.recip.velocity_mm_s
    BY <1>0 DEF Recip, LegOver
  <2> HIDE DEF counted, r, n
  <2>8. /\ counted \in MotionState /\ counted.recip = r
        /\ counted.trajectory = m.trajectory /\ counted.control = m.control
    BY <1>0, <2>5, <2>6 DEF MotionState
  <2>9. CASE last
    <3> DEFINE q == [r EXCEPT !.active = FALSE, !.stage = "IDLE"]
               closed == [counted EXCEPT !.recip = q]
               c == [m.control EXCEPT !.mode = "IDLE", !.busy = FALSE, !.done = TRUE,
                                      !.error = FALSE, !.paused = FALSE]
    <3>1. n = motion_finish_success(closed)
      BY <2>2, <2>8, <2>9 DEF RecipFinished
    <3>2. ~q.active /\ q.completed_count = q.repeat_count
      BY <2>3, <2>6, <2>7, <2>9 DEF Recip
    <3> HIDE DEF q
    <3>3. /\ closed.control = m.control /\ closed.trajectory = m.trajectory
          /\ closed.recip = q
          /\ closed = [control |-> m.control, trajectory |-> m.trajectory, recip |-> q]
      BY <2>8 DEF MotionState
    <3> HIDE DEF closed
    <3>4. n.control = c /\ n.trajectory = m.trajectory /\ n.recip = q
      BY <3>1, <3>3 DEF motion_finish_success
    <3> QED BY <3>2, <3>4 DEF LastLeg, n
  <2>10. CASE ~last
    <3>1. LegOver(counted)
      BY <2>4, <2>7, <2>8, <2>10 DEF LegOver
    <3>2. "WAIT_SECOND" \in Stages /\ "MOVE_OUT" \in Stages
      BY DEF Stages
    <3>3. NextLeg(counted, n) \/ FailsAt(n, actual)
      BY ONLY <1>0, <2>2, <2>10, <3>1, <3>2, actual \in Int32, plan \in 0..MaxTotalCycles,
              DwellOutcome, RecipMoveStartOutcome
    <3>4. NextLeg(counted, n) => NextLeg(m, n)
      BY <2>7, <2>8 DEF NextLeg, LegOver
    <3> QED BY <3>3, <3>4 DEF n
  <2> QED BY <2>9, <2>10
<1> QED BY <1>1, <1>2

(* A cycle of a dwell.                                                     *)
LEMMA RecipWaitOutcome ==
  ASSUME NEW m, MotionInv(m), m.control.busy, m.control.mode = "RECIP",
         m.recip.stage \in {"WAIT_FIRST", "WAIT_SECOND"},
         NEW actual \in Int32, NEW plan \in 0..MaxTotalCycles
  PROVE  LET n == RecipWait(m, actual, plan)
         IN FailsAt(n, actual) \/ NextLeg(m, n)
<1> DEFINE result == RecipWait(m, actual, plan)
           left == m.recip.wait_cycles - 1
           n == [m EXCEPT !.recip.wait_cycles = left]
           r == [m.recip EXCEPT !.wait_cycles = left]
<1>0. /\ m \in MotionState /\ m.recip \in Recip /\ m.recip.wait_cycles > 0
      /\ m.recip.active /\ ~Moving(m.trajectory)
      /\ ControlCoherent(m.control) /\ RecipItinerary(m)
      /\ m.recip.start_counts \in Int32 /\ m.recip.end_counts \in Int32
  BY DEF MotionInv, SomethingToAdvance, MotionState, Recip
<1>1. m.recip.wait_cycles \in Nat /\ left \in Nat
  BY <1>0 DEF Recip
<1>2. \/ result = n
      \/ result = motion_recip_move_start(n, m.recip.start_counts, "MOVE_BACK", actual, plan)
      \/ result = motion_recip_move_start(n, m.recip.end_counts, "MOVE_OUT", actual, plan)
  BY <1>0, <1>1 DEF RecipWait
<1> HIDE DEF left, result
<1>3. n = [m EXCEPT !.recip = r]
  BY <1>0 DEF MotionState
<1>4. r \in Recip
  BY <1>0, <1>1 DEF Recip
<1>5. /\ r.active /\ r.velocity_mm_s = m.recip.velocity_mm_s
      /\ r.start_counts = m.recip.start_counts
      /\ r.end_counts = m.recip.end_counts
      /\ r.repeat_count = m.recip.repeat_count
      /\ r.completed_count = m.recip.completed_count
  BY <1>0 DEF Recip
<1> HIDE DEF n, r
<1>6. /\ n \in MotionState /\ n.recip = r
      /\ n.trajectory = m.trajectory /\ n.control = m.control
  BY <1>0, <1>3, <1>4 DEF MotionState
<1>7. LegOver(n)
  BY <1>0, <1>5, <1>6 DEF LegOver, RecipItinerary
<1>8. NextLeg(m, n)
  BY <1>0, <1>5, <1>6 DEF NextLeg, SameFlags, FreshStart, Moving
<1>9. "MOVE_BACK" \in Stages /\ "MOVE_OUT" \in Stages
  BY DEF Stages
<1>10. FailsAt(result, actual) \/ NextLeg(n, result) \/ result = n
  BY ONLY <1>0, <1>2, <1>7, <1>9, actual \in Int32, plan \in 0..MaxTotalCycles,
          RecipMoveStartOutcome
<1>11. NextLeg(n, result) => NextLeg(m, result)
  BY <1>0, <1>5, <1>6 DEF NextLeg
<1> QED BY <1>8, <1>10, <1>11 DEF result

(* A segment that is not done yet goes on.                                 *)
LEMMA SegmentGoesOn ==
  ASSUME NEW m, MotionInv(m), Moving(m.trajectory), FreshStart(m),
         NEW cmd \in Int32, NEW actual \in Int32
  PROVE  LET n == motion_segment_process(m, actual, cmd)
         IN GoesOn(m, n, cmd) /\ n \in MotionState
<1> DEFINE n == motion_segment_process(m, actual, cmd)
<1>1. /\ n \in MotionState /\ n.recip = m.recip
      /\ n.control = [m.control EXCEPT !.command_counts = n.control.command_counts]
  BY SegmentStep
<1>2. /\ ~m.trajectory.running => n.control = m.control /\ ~n.trajectory.running
      /\ m.trajectory.running => SegmentCommand(m, n, cmd)
  BY SegmentCommands
<1> HIDE DEF n
<1>3. m.control \in Control /\ m.trajectory \in Trajectory
  BY DEF MotionInv, MotionState
<1>4. SameFlags(m.control, n.control)
  BY <1>1, <1>3 DEF SameFlags, Control
<1>5. FreshStart(n)
  BY <1>2, <1>3 DEF FreshStart, SegmentCommand, Trajectory
<1>6. GoesOn(m, n, cmd)
  BY <1>1, <1>2, <1>4, <1>5 DEF GoesOn
<1> QED BY <1>1, <1>6 DEF n

(* What a PDO cycle makes of a running motion.                             *)
LEMMA AdvanceOutcome ==
  ASSUME NEW m, MotionInv(m), FreshStart(m), m.control.busy, ~m.control.paused,
         NEW cmd \in Int32, NEW actual \in Int32, NEW plan \in 0..MaxTotalCycles
  PROVE  LET n == MotionAdvance(m, actual, cmd, plan)
         IN FailsAt(n, actual) \/ Completes(m, n, actual) \/ GoesOn(m, n, cmd)
<1> DEFINE n == MotionAdvance(m, actual, cmd, plan)
           seg == motion_segment_process(m, actual, cmd)
<1>0. /\ m \in MotionState /\ m.control \in Control /\ m.recip \in Recip
      /\ ControlCoherent(m.control) /\ RecipItinerary(m) /\ TrajectoryCoherent(m)
      /\ m.recip.stage \in Stages
      /\ m.recip.active <=> m.recip.stage # "IDLE"
      /\ m.recip.active <=> m.control.mode = "RECIP"
      /\ Moving(m.trajectory) <=> m.recip.stage \notin {"WAIT_FIRST", "WAIT_SECOND"}
  BY DEF MotionInv, SomethingToAdvance, MotionState, Recip
<1>a. ASSUME NextLeg(m, n) PROVE GoesOn(m, n, cmd)
  BY <1>a DEF NextLeg, GoesOn
<1>1. CASE m.recip.stage \in {"WAIT_FIRST", "WAIT_SECOND"}
  <2>1. m.control.mode = "RECIP"
    BY <1>0, <1>1
  <2>2. n = RecipWait(m, actual, plan)
    BY <1>1, <2>1 DEF MotionAdvance, motion_recip_process
  <2>3. FailsAt(n, actual) \/ NextLeg(m, n)
    BY <1>1, <2>1, <2>2, RecipWaitOutcome
  <2> QED BY <1>a, <2>3
<1>2. CASE Moving(m.trajectory)
  <2>1. GoesOn(m, seg, cmd) /\ seg \in MotionState
    BY <1>2, SegmentGoesOn
  <2>2. CASE ~SegmentDone(m, actual, cmd)
    <3>1. n = seg
      BY <1>0, <1>2, <2>2 DEF MotionAdvance, motion_recip_process, Stages
    <3> QED BY <2>1, <3>1
  <2>3. CASE SegmentDone(m, actual, cmd)
    <3>1. /\ ~m.trajectory.running /\ seg.control = m.control
          /\ ~seg.trajectory.running
          /\ InWindow(seg.trajectory, actual)
          /\ m.trajectory.actual_stable_cycles >= 1
      BY <1>2, <2>3, SegmentCommands
    <3>2. /\ seg.recip = m.recip /\ ~Moving(seg.trajectory)
      BY <1>2, <2>3, SegmentStep
    <3>3. m.control.command_counts = m.control.target_counts
      BY <1>0, <1>2, <3>1 DEF TrajectoryCoherent, Moving
    <3> DEFINE c == [m.control EXCEPT !.mode = "IDLE", !.busy = FALSE, !.done = TRUE,
                                      !.error = FALSE, !.paused = FALSE]
    <3>4. c.command_counts = c.target_counts
      BY <1>0, <3>3 DEF Control
    <3> HIDE DEF c
    <3>5. CASE m.control.mode # "RECIP"
      <4>1. n = motion_finish_success(seg)
        BY <2>3, <3>5 DEF MotionAdvance
      <4> HIDE DEF seg, n
      <4>2. n.control = c /\ n.trajectory = seg.trajectory /\ n.recip = seg.recip
        BY <2>1, <3>1, <4>1 DEF motion_finish_success, MotionState, c
      <4>3. ~m.recip.active
        BY <1>0, <3>5
      <4>4. Completes(m, n, actual)
        <5>1. InWindow(n.trajectory, actual)
          BY <3>1, <4>2
        <5> QED BY <3>1, <3>2, <3>4, <3>5, <4>2, <4>3, <5>1 DEF Completes, c
      <4> QED BY <4>4 DEF n
    <3>6. CASE m.control.mode = "RECIP"
      <4>1. m.recip.stage \in {"MOVE_OUT", "MOVE_BACK"} /\ m.recip.active
        BY <1>0, <1>2, <3>6 DEF Stages
      <4>2. n = RecipArrived(seg, actual, plan)
        BY <2>3, <3>6, <4>1 DEF MotionAdvance, motion_recip_process
      <4> HIDE DEF seg, n
      <4>3. LegOver(seg)
        BY <1>0, <2>1, <3>1, <3>2, <3>6, <4>1 DEF LegOver, RecipItinerary
      <4>4. FailsAt(n, actual) \/ NextLeg(seg, n) \/ LastLeg(seg, n)
        <5>1. seg.recip.stage \in {"MOVE_OUT", "MOVE_BACK"}
          BY <3>2, <4>1
        <5> QED BY ONLY <4>2, <4>3, <5>1, actual \in Int32, plan \in 0..MaxTotalCycles,
                        RecipArrivedOutcome
      <4>5. ASSUME NextLeg(seg, n) PROVE GoesOn(m, n, cmd)
        BY <3>1, <3>2, <4>5 DEF NextLeg, GoesOn
      <4>6. ASSUME LastLeg(seg, n) PROVE Completes(m, n, actual)
        <5>1. InWindow(n.trajectory, actual)
          BY <3>1, <4>6 DEF LastLeg
        <5> QED BY <3>1, <3>4, <4>6, <5>1 DEF Completes, LastLeg, c
      <4> QED BY <4>4, <4>5, <4>6 DEF n
    <3> QED BY <3>5, <3>6
  <2> QED BY <2>2, <2>3
<1> QED BY <1>0, <1>1, <1>2

-----------------------------------------------------------------------------
(* What taking a request does to them.                                     *)

(* A new motion begins at the current command, with the velocity asked for *)
(* and no cycle in the window yet.                                         *)
Begins(m, n, req) ==
  /\ n.control.busy /\ ~n.control.paused
  /\ n.control.command_counts = m.control.command_counts
  /\ n.trajectory.actual_stable_cycles = 0
  /\ FreshStart(n)
  /\ n.recip.active => n.recip.velocity_mm_s = req.velocity_mm_s

(* Giving up a paused motion keeps the command.                            *)
LEMMA DropPausedCommand ==
  ASSUME NEW m \in MotionState
  PROVE  DropPaused(m).control.command_counts = m.control.command_counts
BY DEF DropPaused, MotionState, Control

(* Started sets the flags only.                                            *)
LEMMA StartedBegins ==
  ASSUME NEW m \in MotionState, FreshStart(m), NEW mode \in Modes, NEW req, NEW m0,
         m.control.command_counts = m0.control.command_counts,
         m.trajectory.actual_stable_cycles = 0,
         m.recip.active => m.recip.velocity_mm_s = req.velocity_mm_s
  PROVE  Begins(m0, Started(m, mode), req)
<1> DEFINE n == Started(m, mode)
           c == [m.control EXCEPT !.mode = mode, !.busy = TRUE, !.done = FALSE,
                                  !.error = FALSE, !.paused = FALSE]
<1>1. c.busy /\ ~c.paused /\ c.command_counts = m.control.command_counts
  BY DEF MotionState, Control
<1>2. n = [m EXCEPT !.control = c]
  BY DEF Started
<1> HIDE DEF c, n
<1>3. n.control = c /\ n.trajectory = m.trajectory /\ n.recip = m.recip
  BY <1>2 DEF MotionState
<1>4. Begins(m0, n, req)
  BY <1>1, <1>3 DEF Begins, FreshStart
<1> QED BY <1>4 DEF n

(* A single move begins or fails.                                          *)
LEMMA SingleStartOutcome ==
  ASSUME NEW m, Startable(m), NEW req \in Request, req.mode \in SingleModes,
         NEW actual \in Int32, NEW plan \in 0..MaxTotalCycles
  PROVE  LET n == motion_single_start(m, req, actual, plan)
         IN FailsAt(n, actual) \/ Begins(m, n, req)
<1> DEFINE n == motion_single_start(m, req, actual, plan)
           target == motion_position_target_get(req, actual)
           started == /\ MmConvertible(req.position_mm)
                      /\ target \in Int32
                      /\ Plannable(m, target, plan)
<1>0. m \in MotionState /\ ~m.recip.active
  BY DEF Startable
<1>1. CASE ~started
  <2>1. n = motion_finish_error(m, actual)
    BY <1>1 DEF motion_single_start
  <2> QED BY <1>0, <2>1, HoldActualFails
<1>2. CASE started
  <2> HIDE DEF target
  <2>1. PICK tg \in Int32 : tg = target
    BY <1>2
  <2> DEFINE t == motion_trajectory_start(m, tg, plan)
  <2>2. Plannable(m, tg, plan)
    BY <1>2, <2>1
  <2>3. t \in MotionState
    BY ONLY <1>0, <2>2, tg \in Int32, plan \in 0..MaxTotalCycles, TrajectoryStart
  <2>4. /\ FreshStart(t) /\ t.control.command_counts = m.control.command_counts
        /\ t.recip = m.recip /\ t.trajectory.actual_stable_cycles = 0
    BY ONLY <1>0, <2>2, tg \in Int32, plan \in 0..MaxTotalCycles, TrajectoryStartFresh
  <2>5. n = Started(t, req.mode)
    BY <1>2, <2>1 DEF motion_single_start, target
  <2>6. req.mode \in Modes
    BY DEF Modes
  <2> HIDE DEF t, n
  <2>7. Begins(m, n, req)
    BY <1>0, <2>3, <2>4, <2>5, <2>6, StartedBegins
  <2> QED BY <2>7 DEF n
<1> QED BY <1>1, <1>2

(* So does a reciprocation.                                                *)
LEMMA RecipStartOutcome ==
  ASSUME NEW m, Startable(m), NEW req \in Request, s_motor_params \in MotorParams,
         NEW actual \in Int32, NEW plan \in 0..MaxTotalCycles
  PROVE  LET n == motion_recip_start_internal(m, req, actual, plan)
         IN FailsAt(n, actual) \/ Begins(m, n, req)
<1> USE MotionAssumption DEF MotionAssumption
<1> DEFINE n == motion_recip_start_internal(m, req, actual, plan)
<1>0. m \in MotionState
  BY DEF Startable
<1>1. CASE ~MmConvertible(req.position_mm)
  <2>1. n = motion_finish_error(m, actual)
    BY <1>1 DEF motion_recip_start_internal
  <2> QED BY <1>0, <2>1, HoldActualFails
<1>2. CASE MmConvertible(req.position_mm)
  <2>1. motion_mm_to_counts(req.position_mm) \in Int
    <3>1. req.position_mm \in Int
      BY <1>2 DEF MmConvertible, Request
    <3>2. PICK p \in Int : p = req.position_mm
      BY <3>1
    <3> QED BY <3>2, MmToCountsInt
  <2>2. PICK offset \in Int : offset = motion_mm_to_counts(req.position_mm)
    BY <2>1
  <2>3. CASE offset = 0 \/ actual + offset \notin Int32
    <3>1. n = motion_finish_error(m, actual)
      BY <1>2, <2>2, <2>3 DEF motion_recip_start_internal
    <3> QED BY <1>0, <3>1, HoldActualFails
  <2>4. CASE ~(offset = 0 \/ actual + offset \notin Int32)
    <3> DEFINE end == actual + offset
               first == MOTION_MS_TO_CYCLES(req.first_interval_ms)
               second == MOTION_MS_TO_CYCLES(req.second_interval_ms)
               r == [active |-> TRUE, stage |-> "MOVE_OUT",
                     start_counts |-> actual, end_counts |-> end,
                     velocity_mm_s |-> req.velocity_mm_s,
                     first_interval_cycles |-> first,
                     second_interval_cycles |-> second,
                     wait_cycles |-> 0,
                     repeat_count |-> req.repeat_count,
                     completed_count |-> 0]
               begun == [m EXCEPT !.recip = r]
    <3>1. end \in Int32
      BY <2>4
    <3>2. n = IF ~Plannable(m, end, plan) THEN motion_finish_error(begun, actual)
              ELSE Started(motion_trajectory_start(begun, end, plan), "RECIP")
      BY <1>2, <2>2, <2>4 DEF motion_recip_start_internal
    <3>3. r \in Recip /\ r.velocity_mm_s = req.velocity_mm_s
      <4>1. /\ req.velocity_mm_s \in Nat /\ req.repeat_count \in 0..(UINT32_MODULUS - 1)
            /\ req.first_interval_ms \in Nat /\ req.second_interval_ms \in Nat
        BY DEF Request
      <4>2. first \in Nat /\ second \in Nat
        BY <4>1 DEF MOTION_MS_TO_CYCLES
      <4>3. 0 \in 0..(UINT32_MODULUS - 1)
        OBVIOUS
      <4> HIDE DEF end, first, second
      <4> QED BY <3>1, <4>1, <4>2, <4>3 DEF Recip, Stages
    <3> HIDE DEF end, r, n
    <3>4. begun \in MotionState /\ begun.recip = r /\ begun.control = m.control
      BY <1>0, <3>3 DEF MotionState
    <3> HIDE DEF begun
    <3>5. CASE ~Plannable(m, end, plan)
      <4>1. FailsAt(n, actual)
        BY <3>2, <3>4, <3>5, HoldActualFails
      <4> QED BY <4>1 DEF n
    <3>6. CASE Plannable(m, end, plan)
      <4> DEFINE t == motion_trajectory_start(begun, end, plan)
      <4>1. Plannable(begun, end, plan)
        BY <3>4, <3>6 DEF Plannable
      <4>2. t \in MotionState
        BY ONLY <3>1, <3>4, <4>1, plan \in 0..MaxTotalCycles, TrajectoryStart
      <4>3. /\ FreshStart(t) /\ t.control.command_counts = begun.control.command_counts
            /\ t.recip = begun.recip /\ t.trajectory.actual_stable_cycles = 0
        BY ONLY <3>1, <3>4, <4>1, plan \in 0..MaxTotalCycles, TrajectoryStartFresh
      <4>4. n = Started(t, "RECIP") /\ "RECIP" \in Modes
        BY <3>2, <3>6 DEF Modes
      <4> HIDE DEF t
      <4>5. Begins(m, n, req)
        BY <3>3, <3>4, <4>2, <4>3, <4>4, StartedBegins
      <4> QED BY <4>5 DEF n
    <3> QED BY <3>5, <3>6
  <2> QED BY <2>3, <2>4
<1> QED BY <1>1, <1>2

(* An abort drops everything and holds the actual position.                *)
AbortsAt(n, actual) ==
  /\ n.control = [mode |-> "STOP", busy |-> FALSE, done |-> TRUE, error |-> FALSE,
                  paused |-> FALSE, command_counts |-> actual,
                  target_counts |-> actual]
  /\ ~n.trajectory.running /\ ~n.recip.active

(* What a request makes of the motion it finds.                            *)
Applies(m, n, req, actual) ==
  /\ req.action = "START" => FailsAt(n, actual) \/ Begins(m, n, req)
  /\ req.action = "PAUSE" => n = Paused(m, TRUE)
  /\ req.action = "CONTINUE" => n = Paused(m, FALSE)
  /\ req.action = "ABORT" => AbortsAt(n, actual)

(* motion_request_apply, for a request as the API accepted it.            *)
LEMMA RequestApplyOutcome ==
  ASSUME NEW m, MotionInv(m), NEW req \in Request, NEW actual \in Int32,
         NEW plan \in 0..MaxTotalCycles,
         req.action = "START" =>
           /\ req.mode \in SingleModes \cup {"RECIP"}
           /\ s_motor_params \in MotorParams
           /\ ~m.control.busy \/ m.control.paused,
         req.action = "PAUSE" => m.control.busy,
         req.action = "CONTINUE" => m.control.busy /\ m.control.paused
  PROVE  Applies(m, motion_request_apply(m, req, actual, plan), req, actual)
<1> DEFINE n == motion_request_apply(m, req, actual, plan)
<1>0. m \in MotionState /\ m.trajectory \in Trajectory /\ m.recip \in Recip
  BY DEF MotionInv, MotionState
<1>1. CASE req.action = "PAUSE"
  BY <1>1 DEF motion_request_apply, Applies
<1>2. CASE req.action = "CONTINUE"
  BY <1>2 DEF motion_request_apply, Applies
<1>3. CASE req.action = "ABORT"
  <2>1. n = HoldActual(m, actual, TRUE)
    BY <1>3 DEF motion_request_apply, motion_abort_apply
  <2>2. AbortsAt(HoldActual(m, actual, TRUE), actual)
    BY <1>0 DEF HoldActual, AbortsAt, Trajectory, Recip
  <2> QED BY <1>3, <2>1, <2>2 DEF Applies
<1>4. CASE req.action = "START"
  <2> DEFINE d == DropPaused(m)
  <2>1. Startable(d)
    BY <1>4, DropPausedStartable
  <2>2. d.control.command_counts = m.control.command_counts
    BY <1>0, DropPausedCommand
  <2>3. \/ req.mode = "RECIP" /\ n = motion_recip_start_internal(d, req, actual, plan)
        \/ req.mode \in SingleModes /\ n = motion_single_start(d, req, actual, plan)
    BY <1>4 DEF motion_request_apply
  <2> HIDE DEF d, n
  <2>4. FailsAt(n, actual) \/ Begins(d, n, req)
    BY <1>4, <2>1, <2>3, RecipStartOutcome, SingleStartOutcome
  <2>5. Begins(d, n, req) => Begins(m, n, req)
    BY <2>2 DEF Begins
  <2> QED BY <1>4, <2>4, <2>5 DEF Applies, n
<1>5. req.action \in {"START", "PAUSE", "CONTINUE", "ABORT"}
  BY DEF Request
<1> QED BY <1>1, <1>2, <1>3, <1>4, <1>5

-----------------------------------------------------------------------------

(* What an abort leaves in the slot.                                       *)
AbortRequest ==
  [EmptyRequest EXCEPT !.action = "ABORT", !.mode = "STOP", !.pending = TRUE]

(* IInv with what relates the motion to the position sent to the drive and *)
(* to the contents of the slot.                                            *)
StepInv ==
  /\ IInv
  /\ FreshStart(Motion)
  /\ s_motion_initialized => TargetPos = s_control.command_counts
  /\ s_request.pending /\ s_request.action = "ABORT" => s_request = AbortRequest

(* A step of an application task, or of nobody: the motion stays, and what *)
(* enters the slot was checked against it.                                 *)
ApiStep ==
  /\ UNCHANGED <<s_control, s_trajectory, s_recip, s_motion_initialized, TargetPos>>
  /\ \/ s_request' = s_request
     \/ /\ ~s_request.pending /\ (~s_control.busy \/ s_control.paused)
        /\ s_request'.pending /\ s_request'.action = "START"
     \/ /\ s_request'.pending
        /\ \/ /\ s_request'.action = "PAUSE" /\ ~s_request.pending
              /\ s_control.busy /\ ~s_control.paused
           \/ /\ s_request'.action = "CONTINUE" /\ ~s_request.pending
              /\ s_control.busy /\ s_control.paused
           \/ /\ s_request' = AbortRequest
              /\ s_request.pending \/ s_control.busy

(* A cycle of the PDO task: a is the motion after the request, if one was  *)
(* taken, and n the motion after the advance.                              *)
CycleStep(actual, cmd, a, n) ==
  /\ actual \in Int32
  /\ MotionInv(a) /\ FreshStart(a) /\ MotionInv(n)
  /\ s_control' = n.control /\ s_trajectory' = n.trajectory /\ s_recip' = n.recip
  /\ TargetPos' = n.control.command_counts
  /\ input1s'.CurrentPosition = actual
  /\ s_motion_initialized'
  /\ a.trajectory.running => cmd \in ClampedCommands(a.trajectory)
  /\ \/ /\ s_request' = s_request
        /\ a = MotionAligned(actual)
        /\ s_request.pending => n = a
     \/ /\ s_request.pending /\ s_request' = EmptyRequest
        /\ Applies(MotionAligned(actual), a, s_request, actual)
  /\ \/ n = a
     \/ /\ a.control.busy /\ ~a.control.paused
        /\ FailsAt(n, actual) \/ Completes(a, n, actual) \/ GoesOn(a, n, cmd)

-----------------------------------------------------------------------------
(* What Paused changes.                                                    *)
LEMMA PausedFacts ==
  ASSUME NEW m \in MotionState, NEW flag \in BOOLEAN
  PROVE  LET n == Paused(m, flag)
         IN /\ n.control.mode = m.control.mode /\ n.control.busy
            /\ n.control.paused = flag
            /\ n.control.command_counts = m.control.command_counts
            /\ n.trajectory = m.trajectory /\ n.recip = m.recip
BY DEF Paused, MotionState, Control

(* A submitted START is an ApiStep.                                        *)
LEMMA SubmitIsApiStep ==
  ASSUME IInv, NEW request \in Request, request.action = "START",
         motion_request_submit(request)
  PROVE  ApiStep
<1>1. /\ s_request' = [request EXCEPT !.pending = TRUE]
      /\ ~s_request.pending /\ (~s_control.busy \/ s_control.paused)
      /\ UNCHANGED <<s_control, s_trajectory, s_recip, s_software_zero_counts,
                     s_motor_params, params_seen, s_motion_initialized, input1s, TargetPos>>
  BY DEF motion_request_submit
<1>2. s_request'.pending /\ s_request'.action = "START"
  BY <1>1 DEF Request
<1> QED BY <1>1, <1>2 DEF ApiStep

(* So are stop, continue and abort.                                        *)
LEMMA PostActionIsApiStep ==
  ASSUME IInv, ethercat_motion_stop \/ ethercat_motion_continue \/ ethercat_motion_abort
  PROVE  ApiStep
<1>1. ASSUME NEW action \in {"PAUSE", "CONTINUE", "ABORT"}, PostAction(action)
      PROVE  /\ s_request'.pending /\ s_request'.action = action
             /\ action = "ABORT" => s_request' = AbortRequest
             /\ UNCHANGED <<s_control, s_trajectory, s_recip, s_software_zero_counts,
                            s_motor_params, params_seen, s_motion_initialized, input1s, TargetPos>>
  BY <1>1 DEF PostAction, EmptyRequest, AbortRequest
<1> QED BY <1>1 DEF ethercat_motion_stop, ethercat_motion_continue,
                    ethercat_motion_abort, ApiStep

(* Every call an application task makes is an ApiStep.                     *)
LEMMA ApplicationIsApiStep ==
  ASSUME IInv, Application
  PROVE  ApiStep
<1> USE MotionAssumption DEF MotionAssumption
<1>1. ASSUME NEW params \in MotorParams, ethercat_motion_motor_params_set(params)
      PROVE  ApiStep
  BY <1>1 DEF ethercat_motion_motor_params_set, ApiStep
<1>2. ASSUME NEW mode \in SingleModes, NEW p \in Int \cup {NotFinite}, NEW v \in Nat,
             ethercat_motion_command_set(mode, p, v)
      PROVE  ApiStep
  <2> DEFINE request == [EmptyRequest EXCEPT !.mode = mode, !.position_mm = p,
                                             !.velocity_mm_s = v]
  <2>1. request \in Request
    BY EmptyRequestType DEF Request, Modes
  <2>2. request.action = "START"
    BY DEF EmptyRequest
  <2>3. motion_request_submit(request)
    BY <1>2 DEF ethercat_motion_command_set
  <2> HIDE DEF request
  <2> QED BY <2>1, <2>2, <2>3, SubmitIsApiStep
<1>3. ASSUME ethercat_motion_mechanical_zero_return
      PROVE  ApiStep
  <2> DEFINE v == ZERO_RETURN_VELOCITY_MM_S
             request == [EmptyRequest EXCEPT !.mode = "MOVE_ABS",
                                             !.absolute_reference = "ENCODER_ZERO",
                                             !.velocity_mm_s = v]
  <2>1. request \in Request
    BY EmptyRequestType DEF Request, Modes, SingleModes
  <2>2. request.action = "START"
    BY DEF EmptyRequest
  <2>3. motion_request_submit(request)
    BY <1>3 DEF ethercat_motion_mechanical_zero_return
  <2> HIDE DEF request
  <2> QED BY <2>1, <2>2, <2>3, SubmitIsApiStep
<1>4. ASSUME ethercat_motion_software_zero_return
      PROVE  ApiStep
  BY <1>2, <1>4 DEF ethercat_motion_software_zero_return, SingleModes
<1>5. ASSUME NEW p \in PositionMm, NEW v \in VelocityMmS, NEW f \in IntervalMs,
             NEW t \in IntervalMs, NEW n \in RepeatCount,
             ethercat_motion_recip_start(p, v, f, t, n)
      PROVE  ApiStep
  <2> DEFINE request == [EmptyRequest EXCEPT !.mode = "RECIP", !.position_mm = p,
                                             !.velocity_mm_s = v,
                                             !.first_interval_ms = f,
                                             !.second_interval_ms = t,
                                             !.repeat_count = n]
  <2>1. /\ p \in Int \cup {NotFinite} /\ v \in Nat /\ f \in Nat /\ t \in Nat
        /\ n \in 0..(UINT32_MODULUS - 1)
    OBVIOUS
  <2>2. request \in Request
    BY <2>1, EmptyRequestType DEF Request, Modes
  <2>3. request.action = "START"
    BY DEF EmptyRequest
  <2>4. motion_request_submit(request)
    BY <1>5 DEF ethercat_motion_recip_start
  <2> HIDE DEF request
  <2> QED BY <2>2, <2>3, <2>4, SubmitIsApiStep
<1>6. ASSUME ethercat_motion_software_zero_set
      PROVE  ApiStep
  BY <1>6 DEF ethercat_motion_software_zero_set, ApiStep
<1>7. PositionMm \subseteq Int \cup {NotFinite} /\ VelocityMmS \subseteq Nat
  OBVIOUS
<1> QED BY <1>1, <1>2, <1>3, <1>4, <1>5, <1>6, <1>7, PostActionIsApiStep DEF Application

-----------------------------------------------------------------------------
(* Before the request is applied, the command is what was sent last, or in *)
(* the first cycle the actual position.                                    *)
LEMMA AlignedFacts ==
  ASSUME StepInv, NEW actual \in Int32
  PROVE  LET n == MotionAligned(actual)
         IN /\ FreshStart(n)
            /\ n.trajectory = s_trajectory /\ n.recip = s_recip
            /\ s_motion_initialized =>
                 n.control = s_control /\ n.control.command_counts = TargetPos
            /\ ~s_motion_initialized => n.control.command_counts = actual
            /\ SameFlags(s_control, n.control)
<1> DEFINE n == MotionAligned(actual)
<1>1. s_control \in Control /\ s_recip \in Recip
  BY DEF StepInv, IInv, TypeOK
<1>2. n.trajectory = s_trajectory /\ n.recip = s_recip
  BY DEF MotionAligned
<1>3. CASE s_motion_initialized
  <2>1. n.control = s_control
    BY <1>3 DEF MotionAligned
  <2>2. FreshStart(n)
    BY <1>2, <2>1 DEF StepInv, FreshStart, Motion
  <2> QED BY <1>2, <1>3, <2>1, <2>2 DEF StepInv, SameFlags
<1>4. CASE ~s_motion_initialized
  <2>1. n.control = [s_control EXCEPT !.command_counts = actual, !.target_counts = actual]
    BY <1>4 DEF MotionAligned
  <2>2. n.control.command_counts = actual /\ SameFlags(s_control, n.control)
    BY <1>1, <2>1 DEF Control, SameFlags
  <2>3. ~Moving(s_trajectory)
    BY <1>4 DEF StepInv, IInv, MotionInv, SomethingToAdvance, Motion
  <2>4. FreshStart(n)
    BY <1>2, <2>3 DEF FreshStart, Moving
  <2> QED BY <1>2, <1>4, <2>2, <2>4
<1> QED BY <1>3, <1>4

(* A cycle of ethercat_motion_process is a CycleStep.                      *)
LEMMA ProcessIsCycleStep ==
  ASSUME StepInv, NEW image \in InputImage, NEW cmd \in Int32,
         NEW plan \in 0..MaxTotalCycles, ethercat_motion_process(image, cmd, plan)
  PROVE  \E actual, a, n : CycleStep(actual, cmd, a, n)
<1> USE MotionAssumption DEF MotionAssumption
<1> DEFINE actual == image.CurrentPosition
           aligned == MotionAligned(actual)
           taken == image.csp_enabled /\ s_request.pending
           a == IF taken THEN motion_request_apply(aligned, s_request, actual, plan)
                ELSE aligned
           n == IF image.csp_enabled THEN MotionAdvance(a, actual, cmd, plan) ELSE a
<1>1. /\ input1s' = image /\ s_motion_initialized' = TRUE
      /\ s_request' = IF taken THEN EmptyRequest ELSE s_request
      /\ s_control' = n.control /\ s_trajectory' = n.trajectory /\ s_recip' = n.recip
      /\ TargetPos' = Saturate(n.control.command_counts)
      /\ UNCHANGED <<s_software_zero_counts, s_motor_params, params_seen>>
      /\ a.trajectory.running => cmd \in ClampedCommands(a.trajectory)
  BY DEF ethercat_motion_process, motion_request_fetch, motion_target_output_write
<1>2. actual \in Int32 /\ input1s'.CurrentPosition = actual
  BY <1>1 DEF InputImage
<1> HIDE DEF actual
<1>3. /\ MotionInv(aligned) /\ aligned.control.busy = s_control.busy
      /\ aligned.control.paused = s_control.paused
  BY <1>2, AlignedInv DEF StepInv
<1>4. FreshStart(aligned)
  BY <1>2, AlignedFacts
<1> HIDE DEF aligned
<1>5. ASSUME taken
      PROVE  /\ MotionInv(motion_request_apply(aligned, s_request, actual, plan))
             /\ Applies(aligned, motion_request_apply(aligned, s_request, actual, plan),
                        s_request, actual)
  <2>1. s_request \in Request
    BY DEF StepInv, IInv, TypeOK
  <2>2. /\ s_request.action = "START" =>
             /\ s_request.mode \in SingleModes \cup {"RECIP"}
             /\ s_motor_params \in MotorParams
             /\ ~aligned.control.busy \/ aligned.control.paused
        /\ s_request.action = "PAUSE" => aligned.control.busy
        /\ s_request.action = "CONTINUE" =>
             aligned.control.busy /\ aligned.control.paused
    BY <1>3, <1>5 DEF StepInv, IInv, TypeOK, RequestStillValid
  <2> QED BY <1>2, <1>3, <2>1, <2>2, RequestApplyInv, RequestApplyOutcome
<1>6. MotionInv(a) /\ (taken => Applies(aligned, a, s_request, actual))
      /\ (~taken => a = aligned)
  BY <1>3, <1>5
<1> HIDE DEF a
<1>7. FreshStart(a)
  <2>1. CASE ~taken
    BY <1>4, <1>6, <2>1
  <2>2. CASE taken
    <3>1. s_request.action \in {"START", "PAUSE", "CONTINUE", "ABORT"}
      BY DEF StepInv, IInv, TypeOK, Request
    <3>2. aligned \in MotionState
      BY <1>3 DEF MotionInv
    <3>3. \A flag \in BOOLEAN : FreshStart(Paused(aligned, flag))
      BY <1>4, <3>2, PausedFacts DEF FreshStart
    <3> QED BY <1>6, <2>2, <3>1, <3>3
            DEF Applies, Begins, FailsAt, AbortsAt, FreshStart
  <2> QED BY <2>1, <2>2
<1>8. MotionInv(n)
  BY <1>2, <1>6, AdvanceInv
<1>9. \/ n = a
      \/ /\ a.control.busy /\ ~a.control.paused
         /\ FailsAt(n, actual) \/ Completes(a, n, actual) \/ GoesOn(a, n, cmd)
  <2>1. CASE a.control.busy /\ ~a.control.paused /\ image.csp_enabled
    BY <1>2, <1>6, <1>7, <2>1, AdvanceOutcome
  <2>2. CASE ~(a.control.busy /\ ~a.control.paused /\ image.csp_enabled)
    BY <2>2 DEF MotionAdvance
  <2> QED BY <2>1, <2>2
<1>10. ~taken /\ s_request.pending => n = a
  OBVIOUS
<1> HIDE DEF n
<1>11. TargetPos' = n.control.command_counts
  <2>1. n.control.command_counts \in Int32
    BY <1>8 DEF MotionInv, MotionState, Control
  <2> QED BY <1>1, <2>1 DEF Saturate, Int32
<1>12. CycleStep(actual, cmd, a, n)
  BY <1>1, <1>2, <1>6, <1>7, <1>8, <1>9, <1>10, <1>11 DEF CycleStep, aligned
<1> QED BY <1>12

(* Every step is one or the other.                                         *)
LEMMA StepCases ==
  ASSUME StepInv, [Next]_vars
  PROVE  ApiStep \/ \E actual, cmd, a, n : CycleStep(actual, cmd, a, n)
<1>1. ASSUME NEW image \in InputImage, InputRefreshed(image)
      PROVE  ApiStep
  BY <1>1 DEF InputRefreshed, ApiStep
<1>2. CASE UNCHANGED vars
  BY <1>2 DEF vars, ApiStep
<1>3. CASE Next
  BY <1>1, <1>3, ApplicationIsApiStep, ProcessIsCycleStep DEF Next, PdoCycle, StepInv
<1> QED BY <1>2, <1>3

-----------------------------------------------------------------------------

(* An error and an abort both stop at the actual position.                 *)
LEMMA HeldFacts ==
  ASSUME NEW n, NEW actual, FailsAt(n, actual) \/ AbortsAt(n, actual)
  PROVE  /\ ~n.control.busy /\ ~n.control.paused /\ n.control.mode = "STOP"
         /\ n.control.command_counts = actual
         /\ ~n.trajectory.running /\ ~n.recip.active
<1>1. CASE FailsAt(n, actual)
  BY <1>1 DEF FailsAt
<1>2. CASE AbortsAt(n, actual)
  BY <1>2 DEF AbortsAt
<1> QED BY <1>1, <1>2

(* StepInv is inductive.                                                   *)
LEMMA NextStepInv ==
  ASSUME StepInv, [Next]_vars
  PROVE  StepInv'
<1>0. IInv'
  BY NextIInv DEF StepInv
<1>1. CASE ApiStep
  <2>1. FreshStart(Motion)'
    BY <1>1 DEF ApiStep, StepInv, FreshStart, Motion
  <2>2. (s_motion_initialized => TargetPos = s_control.command_counts)'
    BY <1>1 DEF ApiStep, StepInv
  <2>7. (s_request.pending /\ s_request.action = "ABORT" => s_request = AbortRequest)'
    BY <1>1 DEF ApiStep, StepInv, AbortRequest, EmptyRequest
  <2> QED BY <1>0, <2>1, <2>2, <2>7 DEF StepInv
<1>2. ASSUME NEW actual, NEW cmd, NEW a, NEW n, CycleStep(actual, cmd, a, n)
      PROVE  StepInv'
  <2>1. FreshStart(n)
    BY <1>2 DEF CycleStep, FailsAt, Completes, GoesOn, FreshStart
  <2>2. FreshStart(Motion)'
    BY <1>2, <2>1 DEF CycleStep, FreshStart, Motion
  <2>3. (s_motion_initialized => TargetPos = s_control.command_counts)'
    BY <1>2 DEF CycleStep
  <2>6. s_request' = s_request \/ ~s_request'.pending
    BY <1>2 DEF CycleStep, EmptyRequest
  <2>8. (s_request.pending /\ s_request.action = "ABORT" => s_request = AbortRequest)'
    BY <2>6 DEF StepInv, AbortRequest, EmptyRequest
  <2> QED BY <1>0, <2>2, <2>3, <2>8 DEF StepInv
<1> QED BY <1>1, <1>2, StepCases

(* StepInv holds in every reachable state.                                 *)
THEOREM StepInvariant == Spec => []StepInv
<1>1. Init => StepInv
  BY InitIInv DEF Init, StepInv, FreshStart, Motion, EmptyRequest
<1>2. StepInv /\ [Next]_vars => StepInv'
  BY NextStepInv
<1> QED BY <1>1, <1>2, PTL DEF Spec

(* How a cycle treats the flags when a motion was busy before it.          *)
LEMMA BusyCycle ==
  ASSUME StepInv, s_control.busy,
         NEW actual, NEW cmd, NEW a, NEW n, CycleStep(actual, cmd, a, n)
  PROVE  /\ s_motion_initialized
         /\ \/ s_request' = s_request /\ a = Motion
            \/ /\ s_request.pending /\ s_request' = EmptyRequest
               /\ Applies(Motion, a, s_request, actual)
<1>1. s_motion_initialized
  BY DEF StepInv, IInv
<1>2. MotionAligned(actual) = Motion
  BY <1>1 DEF MotionAligned, Motion
<1> QED BY <1>1, <1>2 DEF CycleStep

(* While a motion stays paused nothing of it moves.                        *)
THEOREM PausedMotionHolds == Spec => PauseHolds
<1>1. ASSUME StepInv, [Next]_vars, s_control.paused, s_control'.paused
      PROVE  UNCHANGED <<s_trajectory, s_recip, s_control, TargetPos>>
  <2>1. s_control.busy /\ Motion \in MotionState
    BY <1>1 DEF StepInv, IInv, MotionInv, ControlCoherent, Motion
  <2>2. CASE ApiStep
    BY <2>2 DEF ApiStep
  <2>3. ASSUME NEW actual, NEW cmd, NEW a, NEW n, CycleStep(actual, cmd, a, n)
        PROVE  UNCHANGED <<s_trajectory, s_recip, s_control, TargetPos>>
    <3>1. n.control.paused /\ s_control' = n.control
      BY <1>1, <2>3 DEF CycleStep
    <3>2. n = a
      <4>1. CASE FailsAt(n, actual)
        BY <3>1, <4>1 DEF FailsAt
      <4>2. CASE Completes(a, n, actual)
        <5>1. a.control \in Control
          BY <2>3 DEF CycleStep, MotionInv, MotionState
        <5> QED BY <3>1, <4>2, <5>1 DEF Completes, Control
      <4>3. CASE GoesOn(a, n, cmd) /\ ~a.control.paused
        BY <3>1, <4>3 DEF GoesOn, SameFlags
      <4> QED BY <2>3, <4>1, <4>2, <4>3 DEF CycleStep
    <3>3. a = Motion
      <4>1. s_request.action \in {"START", "PAUSE", "CONTINUE", "ABORT"}
        BY <1>1 DEF StepInv, IInv, TypeOK, Request
      <4>2. ASSUME s_request.pending, Applies(Motion, a, s_request, actual)
            PROVE  FALSE
        <5>1. s_request.action # "PAUSE"
          BY <1>1, <4>2 DEF StepInv, IInv, RequestStillValid
        <5>2. ~Paused(Motion, FALSE).control.paused
          BY <2>1, PausedFacts
        <5>3. FailsAt(a, actual) \/ Begins(Motion, a, s_request)
              \/ a = Paused(Motion, FALSE) \/ AbortsAt(a, actual)
          BY <4>1, <4>2, <5>1 DEF Applies
        <5>4. ~a.control.paused
          BY <5>2, <5>3, HeldFacts DEF Begins
        <5> QED BY <3>1, <3>2, <5>4
      <4> QED BY <1>1, <2>1, <2>3, <4>2, BusyCycle
    <3>4. TargetPos' = s_control.command_counts /\ TargetPos = s_control.command_counts
      BY <1>1, <2>1, <2>3, <3>2, <3>3, BusyCycle DEF CycleStep, StepInv, Motion
    <3> QED BY <2>3, <3>2, <3>3, <3>4 DEF CycleStep, Motion
  <2> QED BY <1>1, <2>2, <2>3, StepCases
<1>2. StepInv /\ [Next]_vars =>
        [s_control.paused /\ s_control'.paused =>
           UNCHANGED <<s_trajectory, s_recip, s_control, TargetPos>>]_vars
  BY <1>1
<1> QED BY <1>2, StepInvariant, PTL DEF Spec, PauseHolds

(* An accepted abort stays in the slot until it stops the motion.          *)
THEOREM AbortIsNotLost == Spec => AbortNotLost
<1>1. ASSUME StepInv, [Next]_vars, s_request.pending, s_request.action = "ABORT"
      PROVE  \/ s_request' = s_request
             \/ ~s_request'.pending /\ ~s_control'.busy /\ s_control'.mode = "STOP"
  <2>1. CASE ApiStep
    BY <1>1, <2>1 DEF ApiStep, StepInv
  <2>2. ASSUME NEW actual, NEW cmd, NEW a, NEW n, CycleStep(actual, cmd, a, n),
               s_request' # s_request
        PROVE  ~s_request'.pending /\ ~s_control'.busy /\ s_control'.mode = "STOP"
    <3>1. s_request' = EmptyRequest /\ AbortsAt(a, actual)
      BY <1>1, <2>2 DEF CycleStep, Applies
    <3>2. n = a
      BY <2>2, <3>1 DEF CycleStep, AbortsAt
    <3> QED BY <2>2, <3>1, <3>2 DEF CycleStep, AbortsAt, EmptyRequest
  <2> QED BY <1>1, <2>1, <2>2, StepCases
<1>2. StepInv /\ [Next]_vars =>
        [s_request.pending /\ s_request.action = "ABORT" =>
           \/ s_request' = s_request
           \/ ~s_request'.pending /\ ~s_control'.busy /\ s_control'.mode = "STOP"]_vars
  BY <1>1
<1> QED BY <1>2, StepInvariant, PTL DEF Spec, AbortNotLost

(* A motion reported done has arrived, after all of its round trips.       *)
THEOREM DoneHasArrived == Spec => DoneMeansArrived
<1> DEFINE Arrived == /\ TargetPos' = s_control'.target_counts
                      /\ InWindow(s_trajectory', input1s'.CurrentPosition)
                      /\ s_control.mode = "RECIP" =>
                           s_recip'.completed_count = s_recip'.repeat_count
<1>1. ASSUME StepInv, [Next]_vars,
             s_control.busy, ~s_control'.busy, s_control'.mode = "IDLE"
      PROVE  Arrived
  <2>1. ~ApiStep
    BY <1>1 DEF ApiStep
  <2>2. ASSUME NEW actual, NEW cmd, NEW a, NEW n, CycleStep(actual, cmd, a, n)
        PROVE  Arrived
    <3>1. /\ s_control' = n.control /\ s_trajectory' = n.trajectory /\ s_recip' = n.recip
          /\ TargetPos' = n.control.command_counts /\ input1s'.CurrentPosition = actual
          /\ a \in MotionState
      BY <2>2 DEF CycleStep, MotionInv
    <3>2. s_request.action \in {"START", "PAUSE", "CONTINUE", "ABORT"} /\ Motion \in MotionState
      BY <1>1 DEF StepInv, IInv, TypeOK, Request, MotionInv
    <3>3. \A flag \in BOOLEAN : /\ Paused(Motion, flag).control.mode = s_control.mode
                                /\ Paused(Motion, flag).control.busy
      BY <3>2, PausedFacts DEF Motion
    <3>4. \/ a.control.mode = s_control.mode /\ a.control.busy
          \/ FailsAt(a, actual) \/ AbortsAt(a, actual)
          \/ a.control.busy /\ a.trajectory.actual_stable_cycles = 0
      <4>1. a = Motion \/ Applies(Motion, a, s_request, actual)
        BY <1>1, <2>2, BusyCycle
      <4>2. \/ a = Motion \/ FailsAt(a, actual) \/ Begins(Motion, a, s_request)
            \/ a = Paused(Motion, TRUE) \/ a = Paused(Motion, FALSE)
            \/ AbortsAt(a, actual)
        BY <3>2, <4>1 DEF Applies
      <4>3. Motion.control = s_control
        BY DEF Motion
      <4> QED BY <1>1, <3>3, <4>2, <4>3 DEF Begins
    <3>5. n # a
      BY <1>1, <3>1, <3>4 DEF FailsAt, AbortsAt
    <3>6. Completes(a, n, actual)
      BY <1>1, <2>2, <3>1, <3>5 DEF CycleStep, FailsAt, GoesOn, SameFlags
    <3>7. a.control.mode = s_control.mode
      BY <3>4, <3>5, <3>6, <2>2 DEF Completes, FailsAt, AbortsAt, CycleStep
    <3>8. InWindow(n.trajectory, actual)
      BY <3>6 DEF Completes
    <3> QED BY <3>1, <3>6, <3>7, <3>8 DEF Completes
  <2> QED BY <1>1, <2>1, <2>2, StepCases
<1>2. StepInv /\ [Next]_vars =>
        [s_control.busy /\ ~s_control'.busy /\ s_control'.mode = "IDLE" => Arrived]_vars
  BY <1>1
<1> QED BY <1>2, StepInvariant, PTL DEF Spec, DoneMeansArrived

(* The position sent to the drive never jumps.                             *)
THEOREM TargetMovesAlongSegments == Spec => TargetNeverJumps
<1> DEFINE Smooth ==
      \/ TargetPos' = input1s'.CurrentPosition
      \/ /\ TargetPos' \in ClampedCommands(s_trajectory') \cup {s_trajectory'.target_counts}
         /\ s_trajectory'.cycle_index <= 1 =>
              s_trajectory'.start_counts =
                IF s_motion_initialized THEN TargetPos ELSE input1s'.CurrentPosition
<1>1. ASSUME StepInv, [Next]_vars, TargetPos' # TargetPos
      PROVE  Smooth
  <2>1. ~ApiStep
    BY <1>1 DEF ApiStep
  <2>2. ASSUME NEW actual, NEW cmd, NEW a, NEW n, CycleStep(actual, cmd, a, n)
        PROVE  Smooth
    <3> DEFINE before == IF s_motion_initialized THEN TargetPos ELSE actual
               m == MotionAligned(actual)
    <3>1. /\ s_control' = n.control /\ s_trajectory' = n.trajectory
          /\ TargetPos' = n.control.command_counts /\ input1s'.CurrentPosition = actual
          /\ a \in MotionState /\ actual \in Int32
          /\ a.trajectory.running => cmd \in ClampedCommands(a.trajectory)
          /\ FreshStart(a)
      BY <2>2 DEF CycleStep, MotionInv
    <3>2. m.control.command_counts = before /\ m \in MotionState
      BY <1>1, <3>1, AlignedFacts, AlignedInv DEF StepInv, MotionInv
    <3> HIDE DEF m, before
    <3>3. \/ a.control.command_counts = before
          \/ a.control.command_counts = actual /\ ~a.trajectory.running
      <4>1. s_request.action \in {"START", "PAUSE", "CONTINUE", "ABORT"}
        BY <1>1 DEF StepInv, IInv, TypeOK, Request
      <4>2. \A flag \in BOOLEAN : Paused(m, flag).control.command_counts = before
        BY <3>2, PausedFacts
      <4>3. a = m \/ Applies(m, a, s_request, actual)
        BY <2>2 DEF CycleStep, m
      <4>4. \/ a = m \/ FailsAt(a, actual) \/ Begins(m, a, s_request)
            \/ a = Paused(m, TRUE) \/ a = Paused(m, FALSE) \/ AbortsAt(a, actual)
        BY <4>1, <4>3 DEF Applies
      <4> QED BY <3>2, <4>2, <4>4, HeldFacts DEF Begins
    <3>4. \/ n.control.command_counts = actual
          \/ n.control.command_counts = a.control.command_counts
          \/ SegmentCommand(a, n, cmd)
      <4>1. a.control \in Control
        BY <3>1 DEF MotionState
      <4>2. CASE FailsAt(n, actual)
        BY <4>2 DEF FailsAt
      <4>3. CASE Completes(a, n, actual)
        BY <4>1, <4>3 DEF Completes, Control
      <4>4. CASE GoesOn(a, n, cmd)
        BY <4>4 DEF GoesOn
      <4> QED BY <2>2, <4>2, <4>3, <4>4 DEF CycleStep
    <3>5. before \in {TargetPos, actual}
      BY DEF before
    <3>6. CASE SegmentCommand(a, n, cmd)
      <4>1. /\ a.trajectory.running
            /\ n.trajectory.start_counts = a.trajectory.start_counts
            /\ n.trajectory.target_counts = a.trajectory.target_counts
            /\ n.trajectory.cycle_index = a.trajectory.cycle_index + 1
            /\ n.control.command_counts \in {cmd, a.trajectory.target_counts}
        BY <3>6 DEF SegmentCommand
      <4>2. ClampedCommands(n.trajectory) = ClampedCommands(a.trajectory)
        BY <4>1 DEF ClampedCommands
      <4>3. n.trajectory.cycle_index <= 1 => a.trajectory.cycle_index = 0
        BY <3>1, <4>1 DEF MotionState, Trajectory
      <4>4. n.trajectory.cycle_index <= 1 => n.trajectory.start_counts = before
        BY <3>1, <3>3, <4>1, <4>3 DEF FreshStart
      <4>5. TargetPos' \in ClampedCommands(n.trajectory) \cup {n.trajectory.target_counts}
        BY <3>1, <4>1, <4>2
      <4> QED BY <3>1, <4>4, <4>5 DEF before
    <3> QED BY <1>1, <3>1, <3>3, <3>4, <3>5, <3>6
  <2> QED BY <1>1, <2>1, <2>2, StepCases
<1>2. StepInv /\ [Next]_vars => [TargetPos' # TargetPos => Smooth]_vars
  BY <1>1
<1> QED BY <1>2, StepInvariant, PTL DEF Spec, TargetNeverJumps

-----------------------------------------------------------------------------
(* Refinement of MotionService: the abstract slot, phase and outcome.      *)
ServiceSlot == IF s_request.pending THEN s_request.action ELSE "none"
ServicePhase(c) == IF ~c.busy THEN "idle" ELSE IF c.paused THEN "paused" ELSE "moving"
ServiceOutcome(c) == IF c.done THEN "done" ELSE IF c.error THEN "failed" ELSE "none"

(* What the service sees of the ends of a motion and of a running one.     *)
LEMMA ServiceView ==
  ASSUME NEW n, MotionInv(n), NEW actual
  PROVE  /\ n.control.busy => ServiceOutcome(n.control) = "none"
         /\ FailsAt(n, actual) =>
              ServicePhase(n.control) = "idle" /\ ServiceOutcome(n.control) = "failed"
         /\ AbortsAt(n, actual) =>
              ServicePhase(n.control) = "idle" /\ ServiceOutcome(n.control) = "done"
         /\ \A a : a.control \in Control /\ Completes(a, n, actual) =>
              ServicePhase(n.control) = "idle" /\ ServiceOutcome(n.control) = "done"
<1>1. n.control.busy => ~n.control.done /\ ~n.control.error
  BY DEF MotionInv, ControlCoherent
<1>2. FailsAt(n, actual) => ~n.control.busy /\ ~n.control.done /\ n.control.error
  BY DEF FailsAt
<1>3. AbortsAt(n, actual) => ~n.control.busy /\ n.control.done
  BY DEF AbortsAt
<1>4. ASSUME NEW a, a.control \in Control, Completes(a, n, actual)
      PROVE  ~n.control.busy /\ n.control.done
  BY <1>4 DEF Completes, Control
<1> QED BY <1>1, <1>2, <1>3, <1>4 DEF ServicePhase, ServiceOutcome

(* The steps of the service, in terms of the abstract state.               *)
LEMMA ServiceSteps ==
  ASSUME NEW phase, phase = ServicePhase(s_control),
         NEW outcome, outcome = ServiceOutcome(s_control),
         NEW next, next = ServicePhase(s_control)',
         NEW result, result = ServiceOutcome(s_control)',
         NEW slot, slot = ServiceSlot, NEW left, left = ServiceSlot',
         \/ left = slot /\ next = phase /\ result = outcome
         \/ /\ next = phase /\ result = outcome
            /\ \/ slot = "none" /\ phase # "moving" /\ left = "START"
               \/ slot = "none" /\ phase = "moving" /\ left = "PAUSE"
               \/ slot = "none" /\ phase = "paused" /\ left = "CONTINUE"
               \/ (slot # "none" \/ phase # "idle") /\ left = "ABORT"
         \/ /\ left = "none"
            /\ \/ /\ slot = "START" /\ phase # "moving"
                  /\ \/ next = "moving" /\ result = "none"
                     \/ next = "idle" /\ result = "failed"
               \/ /\ slot = "PAUSE" /\ phase = "moving"
                  /\ next = "paused" /\ result = "none"
               \/ /\ slot = "CONTINUE" /\ phase = "paused"
                  /\ \/ next = "moving" /\ result = "none"
                     \/ next = "idle" /\ result \in {"done", "failed"}
               \/ slot = "ABORT" /\ next = "idle" /\ result = "done"
               \/ /\ slot = "none" /\ phase = "moving"
                  /\ next = "idle" /\ result \in {"done", "failed"}
  PROVE  [Service!ServiceNext]_(Service!svars)
BY DEF Service!ServiceNext, Service!svars, Service!Submit, Service!Stop, Service!Resume,
       Service!Abort, Service!Accept, Service!TakeStart, Service!TakePause,
       Service!TakeContinue, Service!TakeAbort, Service!Finish, Service!Moves,
       Service!Ends, ServiceSlot, ServicePhase, ServiceOutcome

(* A call of an application task is a request to the service.              *)
LEMMA ApiStepServes ==
  ASSUME StepInv, ApiStep
  PROVE  [Service!ServiceNext]_(Service!svars)
<1>1. s_control' = s_control
  BY DEF ApiStep
<1>2. /\ ServicePhase(s_control)' = ServicePhase(s_control)
      /\ ServiceOutcome(s_control)' = ServiceOutcome(s_control)
  BY <1>1 DEF ServicePhase, ServiceOutcome
<1>3. AbortRequest.pending /\ AbortRequest.action = "ABORT"
  BY DEF AbortRequest, EmptyRequest
<1>4. \/ s_request' = s_request
      \/ /\ s_request'.pending
         /\ \/ /\ s_request'.action = "START" /\ ~s_request.pending
               /\ ~s_control.busy \/ s_control.paused
            \/ /\ s_request'.action = "PAUSE" /\ ~s_request.pending
               /\ s_control.busy /\ ~s_control.paused
            \/ /\ s_request'.action = "CONTINUE" /\ ~s_request.pending
               /\ s_control.busy /\ s_control.paused
            \/ /\ s_request'.action = "ABORT"
               /\ s_request.pending \/ s_control.busy
  BY <1>3 DEF ApiStep
<1>5. s_request.pending => s_request.action # "none"
  BY DEF StepInv, IInv, TypeOK, Request
<1>6. \/ ServiceSlot' = ServiceSlot
      \/ ServiceSlot = "none" /\ ServicePhase(s_control) # "moving" /\ ServiceSlot' = "START"
      \/ ServiceSlot = "none" /\ ServicePhase(s_control) = "moving" /\ ServiceSlot' = "PAUSE"
      \/ ServiceSlot = "none" /\ ServicePhase(s_control) = "paused" /\ ServiceSlot' = "CONTINUE"
      \/ (ServiceSlot # "none" \/ ServicePhase(s_control) # "idle") /\ ServiceSlot' = "ABORT"
  BY <1>4, <1>5 DEF ServiceSlot, ServicePhase
<1> QED BY <1>2, <1>6, ServiceSteps

(* A cycle of the PDO task takes a request, ends the motion, or does not   *)
(* show.                                                                   *)
LEMMA CycleServes ==
  ASSUME StepInv, NEW actual, NEW cmd, NEW a, NEW n, CycleStep(actual, cmd, a, n)
  PROVE  [Service!ServiceNext]_(Service!svars)
<1> DEFINE m == MotionAligned(actual)
           Steps == FailsAt(n, actual) \/ Completes(a, n, actual) \/ GoesOn(a, n, cmd)
<1>1. /\ actual \in Int32 /\ MotionInv(a) /\ MotionInv(n)
      /\ a.control \in Control /\ s_control' = n.control
      /\ \/ n = a
         \/ a.control.busy /\ ~a.control.paused /\ Steps
  BY DEF CycleStep, MotionInv, MotionState
<1>2. m \in MotionState /\ SameFlags(s_control, m.control)
  BY <1>1, AlignedInv, AlignedFacts DEF StepInv, MotionInv
<1>3. /\ ServicePhase(s_control)' = ServicePhase(n.control)
      /\ ServiceOutcome(s_control)' = ServiceOutcome(n.control)
  BY <1>1 DEF ServicePhase, ServiceOutcome
<1>4. /\ ServicePhase(s_control) = ServicePhase(m.control)
      /\ ServiceOutcome(s_control) = ServiceOutcome(m.control)
  BY <1>2 DEF ServicePhase, ServiceOutcome, SameFlags
<1> HIDE DEF m
<1>5. CASE n = a /\ s_request' = s_request /\ a = m
  <2>1. ServiceSlot' = ServiceSlot /\ ServicePhase(s_control)' = ServicePhase(s_control)
        /\ ServiceOutcome(s_control)' = ServiceOutcome(s_control)
    BY <1>3, <1>4, <1>5 DEF ServiceSlot
  <2> QED BY <2>1, ServiceSteps
(* A motion that was advanced from a running one.                          *)
<1>6. ASSUME a.control.busy, ~a.control.paused
      PROVE  \/ ServicePhase(n.control) = "moving" /\ ServiceOutcome(n.control) = "none"
             \/ ServicePhase(n.control) = "idle" /\ ServiceOutcome(n.control) \in {"done", "failed"}
  <2>1. CASE n = a
    BY <1>1, <1>6, <2>1, ServiceView DEF ServicePhase
  <2>2. CASE FailsAt(n, actual)
    BY <1>1, <2>2, ServiceView
  <2>3. CASE Completes(a, n, actual)
    BY <1>1, <2>3, ServiceView
  <2>4. CASE GoesOn(a, n, cmd)
    <3>1. n.control.busy /\ ~n.control.paused
      BY <1>6, <2>4 DEF GoesOn, SameFlags
    <3> QED BY <1>1, <3>1, ServiceView DEF ServicePhase
  <2> QED BY <1>1, <2>1, <2>2, <2>3, <2>4
<1>7. CASE s_request' = s_request /\ a = m /\ n # a
  <2>1. ~s_request.pending /\ a.control.busy /\ ~a.control.paused /\ Steps
    BY <1>1, <1>7 DEF CycleStep, EmptyRequest
  <2>2. ServiceSlot = "none" /\ ServiceSlot' = "none" /\ ServicePhase(s_control) = "moving"
    BY <1>4, <1>7, <2>1 DEF ServiceSlot, ServicePhase
  <2>3. ServiceOutcome(s_control) = "none"
    BY <1>1, <1>4, <1>7, <2>1, ServiceView
  <2> QED BY <1>3, <1>6, <2>1, <2>2, <2>3, ServiceSteps
<1>8. CASE /\ s_request.pending /\ s_request' = EmptyRequest
           /\ Applies(m, a, s_request, actual)
  <2>1. ServiceSlot' = "none" /\ ServiceSlot = s_request.action
    BY <1>8 DEF ServiceSlot, EmptyRequest
  <2>2. s_request.action \in {"START", "PAUSE", "CONTINUE", "ABORT"}
    BY DEF StepInv, IInv, TypeOK, Request
  <2>3. /\ s_request.action = "START" => ServicePhase(s_control) # "moving"
        /\ s_request.action = "PAUSE" => ServicePhase(s_control) = "moving"
        /\ s_request.action = "CONTINUE" => ServicePhase(s_control) = "paused"
    BY <1>8 DEF StepInv, IInv, RequestStillValid, ServicePhase
  <2>4. CASE s_request.action = "START"
    <3>1. CASE FailsAt(a, actual)
      <4>1. n = a
        BY <1>1, <3>1, HeldFacts
      <4>2. ServicePhase(n.control) = "idle" /\ ServiceOutcome(n.control) = "failed"
        BY <1>1, <3>1, <4>1, ServiceView
      <4> QED BY <1>3, <2>1, <2>3, <2>4, <4>2, ServiceSteps
    <3>2. CASE Begins(m, a, s_request)
      <4>1. a.control.busy /\ ~a.control.paused /\ a.trajectory.actual_stable_cycles = 0
        BY <3>2 DEF Begins
      <4>2. ~Completes(a, n, actual)
        BY <4>1 DEF Completes
      <4>3. \/ ServicePhase(n.control) = "moving" /\ ServiceOutcome(n.control) = "none"
            \/ ServicePhase(n.control) = "idle" /\ ServiceOutcome(n.control) = "failed"
        <5>1. CASE n = a \/ GoesOn(a, n, cmd)
          <6>1. n.control.busy /\ ~n.control.paused
            BY <4>1, <5>1 DEF GoesOn, SameFlags
          <6> QED BY <1>1, <6>1, ServiceView DEF ServicePhase
        <5>2. CASE FailsAt(n, actual)
          BY <1>1, <5>2, ServiceView
        <5> QED BY <1>1, <4>2, <5>1, <5>2
      <4> QED BY <1>3, <2>1, <2>3, <2>4, <4>3, ServiceSteps
    <3> QED BY <1>8, <2>4, <3>1, <3>2 DEF Applies
  <2>5. CASE s_request.action = "PAUSE"
    <3>1. a = Paused(m, TRUE)
      BY <1>8, <2>5 DEF Applies
    <3>2. a.control.busy /\ a.control.paused
      BY <1>2, <3>1, PausedFacts
    <3>3. n = a
      BY <1>1, <3>2
    <3>4. ServicePhase(n.control) = "paused" /\ ServiceOutcome(n.control) = "none"
      BY <1>1, <3>2, <3>3, ServiceView DEF ServicePhase
    <3> QED BY <1>3, <2>1, <2>3, <2>5, <3>4, ServiceSteps
  <2>6. CASE s_request.action = "CONTINUE"
    <3>1. a = Paused(m, FALSE)
      BY <1>8, <2>6 DEF Applies
    <3>2. a.control.busy /\ ~a.control.paused
      BY <1>2, <3>1, PausedFacts
    <3> QED BY <1>3, <1>6, <2>1, <2>3, <2>6, <3>2, ServiceSteps
  <2>7. CASE s_request.action = "ABORT"
    <3>1. AbortsAt(a, actual)
      BY <1>8, <2>7 DEF Applies
    <3>2. n = a
      BY <1>1, <3>1, HeldFacts
    <3>3. ServicePhase(n.control) = "idle" /\ ServiceOutcome(n.control) = "done"
      BY <1>1, <3>1, <3>2, ServiceView
    <3> QED BY <1>3, <2>1, <2>7, <3>3, ServiceSteps
  <2> QED BY <2>2, <2>4, <2>5, <2>6, <2>7
<1> QED BY <1>5, <1>7, <1>8 DEF CycleStep, m

(* Through its mailbox and its flags, ethercat_motion.c behaves like the   *)
(* service of its header: Init maps to ServiceInit, every step to a step   *)
(* of the service or to a stutter.                                         *)
THEOREM SchedulerImplementsService == Spec => ImplementsService
<1>1. Init => Service!ServiceInit
  BY DEF Init, EmptyRequest, Service!ServiceInit
<1>2. StepInv /\ [Next]_vars => [Service!ServiceNext]_(Service!svars)
  BY StepCases, ApiStepServes, CycleServes
<1> QED BY <1>1, <1>2, StepInvariant, PTL DEF Spec, ImplementsService, Service!ServiceSpec

=============================================================================
