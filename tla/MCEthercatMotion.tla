-------------------------- MODULE MCEthercatMotion --------------------------
(* Values for the constants of EthercatMotion that a .cfg cannot write,    *)
(* and a view of its state.                                                *)
EXTENDS EthercatMotion

MCInt32Min == -1
MCPositionMm == {-1, 0, 3, NotFinite}
MCMotorParams == {[counts_per_mm |-> 1, max_velocity |-> 1], [counts_per_mm |-> 2, max_velocity |-> 1]}

(* States that differ only in dead fields are one state: the fields of an  *)
(* empty slot, of a finished segment and of an inactive reciprocation; the *)
(* cycles of a segment that is only awaited; the input image while         *)
(* software_zero_set, its only reader between two cycles, is refused; the  *)
(* parameters there have been, which all allow the same velocities; and    *)
(* the segment and the reciprocation that the pending START or ABORT will  *)
(* discard.  Each is written before it is read again.  The invariants read *)
(* only the last of these, and they held of the same values when the       *)
(* request was submitted, since nothing changes them while it waits.       *)
Discarded == s_request.pending /\ s_request.action \in {"START", "ABORT"}

LiveSegment(t) ==
  IF t.running THEN t
  ELSE IF t.waiting_actual
  THEN <<t.start_counts, t.target_counts, t.actual_stable_cycles>>
  ELSE <<>>

LiveState ==
  <<IF s_request.pending THEN s_request ELSE EmptyRequest,
    s_control,
    IF Discarded THEN <<>> ELSE LiveSegment(s_trajectory),
    IF s_recip.active /\ ~Discarded THEN s_recip ELSE <<>>,
    IF s_control.busy \/ s_request.pending THEN <<>> ELSE input1s,
    s_software_zero_counts, s_motor_params, s_motion_initialized, TargetPos>>
=============================================================================
