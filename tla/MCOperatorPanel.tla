--------------------------- MODULE MCOperatorPanel ---------------------------
(* The keys, the host and the scheduler with a drive that follows: CSP     *)
(* stays enabled and every cycle reports the position sent in the cycle    *)
(* before.  The master task sets the motor parameters and then runs a      *)
(* cycle in every GPT period; the main loop comes round every 10 ms.  Both *)
(* are weakly fair, the host and the operator are not.                     *)
EXTENDS OperatorPanel

MCInt32Min == 0
MCMotorParams == {[counts_per_mm |-> 1, max_velocity |-> 1]}

FollowingImage == [CurrentPosition |-> TargetPos, csp_enabled |-> TRUE]

VARIABLE cycle   \* parity of the PDO cycle counter

lvars == <<pvars, cycle>>

MotorParamsSet ==
  /\ s_motor_params = NoParams
  /\ \E params \in MotorParams : ethercat_motion_motor_params_set(params)
  /\ UNCHANGED <<panel, cycle>>

NextCycle == s_motor_params # NoParams /\ cycle' = 1 - cycle

FollowingCycle ==
  /\ \E cmd \in Int32, plan \in {0, MaxTotalCycles} :
       ethercat_motion_process(FollowingImage, cmd, plan)
  /\ NextCycle
  /\ UNCHANGED panel

(* A call the interface offers and neither the keys nor the host make: a   *)
(* reciprocating motion that ends.                                         *)
OtherCaller ==
  /\ \E p \in PositionMm, v \in VelocityMmS, f, s \in IntervalMs,
        n \in RepeatCount : ethercat_motion_recip_start(p, v, f, s, n)
  /\ UNCHANGED <<panel, cycle>>

LiveInit == PanelInit /\ cycle = 0

LiveNext ==
  \/ MotorParamsSet
  \/ FollowingCycle
  \/ MainThread /\ UNCHANGED cycle
  \/ host_command_execute /\ UNCHANGED cycle
  \/ OtherCaller

(* Every step of the main loop changes its place, and no other step does.  *)
MainTurn == main_at' \in MainPlaces \ {main_at}

(* Once the parameters are set a cycle is always possible, so weak         *)
(* fairness of NextCycle says that there is always another FollowingCycle. *)
LiveSpec ==
  /\ LiveInit
  /\ [][LiveNext]_lvars
  /\ WF_cycle(NextCycle)
  /\ WF_main_at(MainTurn)

Endless == s_control.mode = "RECIP" /\ s_recip.repeat_count = RECIP_FOREVER

(* Whatever keys and commands arrive, a motion that is neither paused nor  *)
(* endless settles, fails, is aborted or is paused, and every leg and      *)
(* every dwell of a reciprocating motion, endless or not, is followed by   *)
(* the next stage (motion_segment_process, motion_recip_process).          *)
MotionProgresses ==
  /\ s_control.busy /\ ~s_control.paused /\ ~Endless
       ~> ~s_control.busy \/ s_control.paused
  /\ \A stage \in Stages \ {"IDLE"} :
       s_recip.stage = stage /\ ~s_control.paused
         ~> s_recip.stage # stage \/ s_control.paused
=============================================================================
