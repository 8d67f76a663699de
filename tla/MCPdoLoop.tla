----------------------------- MODULE MCPdoLoop -----------------------------
(* Values for the constants of PdoLoop that a .cfg cannot write, and a     *)
(* view of its state.                                                      *)
EXTENDS PdoLoop

MCMotorParams == {[counts_per_mm |-> 1, max_velocity |-> 1]}

(* States that differ only in fields that are written before they are read *)
(* again are one state: those of a finished segment and of an inactive     *)
(* reciprocation, the cycles of a segment that is only awaited, the input  *)
(* image, which only software_zero_set reads between two cycles, only at   *)
(* rest and in CSP, the result word, the held position before CSP_PREPARE, and of  *)
(* a buffered image what nothing reads in its state of the drive.          *)
LiveSegment(t) ==
  IF t.running THEN t
  ELSE IF t.waiting_actual
  THEN <<t.start_counts, t.target_counts, t.actual_stable_cycles>>
  ELSE <<>>

LiveFrame(frame) ==
  IF frame = Incomplete THEN <<>>
  ELSE CASE frame[1].state = "OPERATION_ENABLED" -> <<frame[1]>>
         [] frame[1].state = "SWITCHED_ON" -> <<"SWITCHED_ON", frame[1].position>>
         [] OTHER -> <<frame[1].state>>

LiveState ==
  <<s_request, s_control,
    LiveSegment(s_trajectory),
    IF s_recip.active THEN s_recip ELSE <<>>,
    IF s_control.busy \/ s_request.pending \/ ~input1s.csp_enabled THEN <<>> ELSE input1s,
    s_software_zero_counts, s_motor_params, s_motion_initialized, TargetPos,
    s_enable.state, s_enable.wait_count,
    IF s_enable.state \in {"CSP_PREPARE", "ENABLE_OPERATION", "DONE"}
    THEN s_enable.hold_pos ELSE 0,
    output, drive, [b \in 1..Buffers |-> LiveFrame(rxbuf[b])], idx>>
=============================================================================
