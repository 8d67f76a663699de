---------------------------- MODULE OperatorPanel ----------------------------
(***************************************************************************)
(* Who calls the motion scheduler: the main thread with its two keys       *)
(* (main_thread_entry.c) and the TCP host (application/host_command.c).    *)
(*                                                                         *)
(* The main thread (priority 3) samples KEY1 and KEY2 every 10 ms.  KEY1   *)
(* starts an endless reciprocating motion.  KEY2 reads the motion status   *)
(* and then, in a second critical section, pauses or continues.  Between   *)
(* the two the TCP task (priority 4) may execute host commands and the PDO *)
(* task (priority 7) may run cycles.                                       *)
(*                                                                         *)
(* The sampled level of a pin is an input; a failed R_IOPORT_PinRead reads *)
(* as released.                                                            *)
(***************************************************************************)
EXTENDS EthercatMotion

CONSTANTS
  KEY1_OFFSET_MM, KEY1_VELOCITY_MM_S,             \* arguments of KEY1's
  KEY1_FIRST_INTERVAL_MS, KEY1_SECOND_INTERVAL_MS, \* reciprocating motion
  KEY_SAMPLES                        \* low samples that confirm a press: 3

ASSUME PanelAssumption ==
  /\ KEY1_OFFSET_MM \in Int /\ KEY1_VELOCITY_MM_S \in Nat
  /\ KEY1_FIRST_INTERVAL_MS \in Nat /\ KEY1_SECOND_INTERVAL_MS \in Nat
  /\ KEY_SAMPLES \in Nat \ {0}

VARIABLES
  main_at,       \* where the main loop is; at STOP and CONTINUE it has read
                 \* the status and has not made the call yet
  key1_filter,
  key2_filter

panel == <<main_at, key1_filter, key2_filter>>
pvars == <<vars, panel>>

MainPlaces == {"KEY1", "KEY2", "STOP", "CONTINUE"}

-----------------------------------------------------------------------------
(* The key filter.                                                         *)

Released == [pressed_count |-> 0, latched |-> FALSE]

Filtered(filter, pressed) ==
  LET count == IF filter.pressed_count < KEY_SAMPLES
               THEN filter.pressed_count + 1 ELSE filter.pressed_count
  IN IF ~pressed THEN Released
     ELSE [pressed_count |-> count,
           latched |-> filter.latched \/ count >= KEY_SAMPLES]

(* The sample that confirms a press, once per press.                       *)
key_press_event(filter, pressed) ==
  ~filter.latched /\ Filtered(filter, pressed).latched

-----------------------------------------------------------------------------
(* A call of the scheduler: accepted, or refused without effect.           *)

SlotFree == ~s_request.pending
Submittable(velocity) ==
  /\ VelocityAllowed(s_motor_params, velocity)
  /\ SlotFree /\ (~s_control.busy \/ s_control.paused)

Refused(accepted) == ~accepted /\ UNCHANGED vars

CallStop ==
  ethercat_motion_stop \/ Refused(SlotFree /\ s_control.busy /\ ~s_control.paused)

CallContinue ==
  ethercat_motion_continue \/ Refused(SlotFree /\ s_control.busy /\ s_control.paused)

CallRecipStart ==
  \/ ethercat_motion_recip_start(KEY1_OFFSET_MM, KEY1_VELOCITY_MM_S,
                                 KEY1_FIRST_INTERVAL_MS, KEY1_SECOND_INTERVAL_MS,
                                 RECIP_FOREVER)
  \/ Refused(Submittable(KEY1_VELOCITY_MM_S))

-----------------------------------------------------------------------------
(* The main loop.                                                          *)

ScanKey1 ==
  /\ main_at = "KEY1"
  /\ \E pressed \in BOOLEAN :
       /\ key1_filter' = Filtered(key1_filter, pressed)
       /\ IF key_press_event(key1_filter, pressed) THEN CallRecipStart
          ELSE UNCHANGED vars
  /\ main_at' = "KEY2"
  /\ UNCHANGED key2_filter

(* What KEY2 does with the status it has read: pause a running motion,     *)
(* continue a paused one, nothing when idle.                               *)
Key2Decision(status) ==
  IF ~status.busy THEN "KEY1" ELSE IF status.paused THEN "CONTINUE" ELSE "STOP"

(* KEY2 confirmed: ethercat_motion_status_get.                             *)
ScanKey2 ==
  /\ main_at = "KEY2"
  /\ \E pressed \in BOOLEAN :
       /\ key2_filter' = Filtered(key2_filter, pressed)
       /\ main_at' = IF key_press_event(key2_filter, pressed)
                     THEN Key2Decision(s_control) ELSE "KEY1"
  /\ UNCHANGED <<vars, key1_filter>>

(* Mutant: the two calls are swapped.                                      *)
key2_calls_swapped ==
  /\ \/ main_at = "STOP" /\ CallContinue
     \/ main_at = "CONTINUE" /\ CallStop
  /\ main_at' = "KEY1"
  /\ UNCHANGED <<key1_filter, key2_filter>>

(* The call KEY2 decided on; its result is logged and otherwise ignored.   *)
Key2Call ==
  /\ \/ main_at = "STOP" /\ CallStop
     \/ main_at = "CONTINUE" /\ CallContinue
  /\ main_at' = "KEY1"
  /\ UNCHANGED <<key1_filter, key2_filter>>

MainThread == ScanKey1 \/ ScanKey2 \/ Key2Call

-----------------------------------------------------------------------------
(* The host: a one-byte command executed by the TCP task.  An unknown      *)
(* command, or a refused one, changes nothing but the answer.              *)

host_command_execute ==
  /\ \/ ethercat_motion_software_zero_set
     \/ ethercat_motion_mechanical_zero_return
     \/ ethercat_motion_software_zero_return
     \/ ethercat_motion_stop
     \/ ethercat_motion_continue
     \/ ethercat_motion_abort
  /\ UNCHANGED panel

-----------------------------------------------------------------------------
PanelInit ==
  /\ Init
  /\ main_at = "KEY1"
  /\ key1_filter = Released
  /\ key2_filter = Released

-----------------------------------------------------------------------------
(* Properties.                                                             *)

(* The status KEY2 decided on may be stale when main_thread_entry.c stops  *)
(* the motion, and the result of ethercat_motion_stop is ignored.  Still,  *)
(* if the axis moves after the call, a pause or an abort is in the slot:   *)
(* no request that keeps it moving can make the scheduler refuse the stop. *)
Key2StopTakesEffect ==
  [][main_at = "STOP" /\ main_at' # "STOP"
        /\ s_control'.busy /\ ~s_control'.paused =>
       s_request'.pending /\ s_request'.action \in {"PAUSE", "ABORT"}]_pvars

(* KEY2 toggles, as its comment in main_thread_entry.c says: pressed while *)
(* the axis moves it leads to a pause or the end of the motion, endless or *)
(* not; pressed during a pause it leads out of the pause.  No interleaving *)
(* of host commands between the status it reads and its call prevents it.  *)
Key2Toggles ==
  /\ main_at = "STOP" ~> s_control.paused \/ ~s_control.busy
  /\ main_at = "CONTINUE" ~> ~s_control.paused
=============================================================================
