---------------------------- MODULE MasterStartup ----------------------------
(***************************************************************************)
(* Bringing the EtherCAT master up: the port monitor task waits for a      *)
(* stable link on port 1 and starts the SOEM task (ethercat_master_scan_   *)
(* start); that task scans the bus, binds the process data, starts the GPT *)
(* and takes the slaves to OP one by one (ecat_init) before it enters the  *)
(* PDO loop.  Status is published in g_ethercat_app_notify.                *)
(*                                                                         *)
(* The SOEM task has the higher priority and gives way only where it       *)
(* blocks: in the bus services of ec_init, ec_config_init and the state    *)
(* checks, and for the GPT semaphore.  The code between two such points is *)
(* one action.                                                             *)
(*                                                                         *)
(* External: the link, which may go up and down at any time; the slaves,   *)
(* which take up OP some time after the request and may drop out of it;    *)
(* the services of SOEM, FreeRTOS and the GPT driver, which may fail where *)
(* the code looks at their result.                                         *)
(***************************************************************************)
EXTENDS Naturals

CONSTANTS
  AxisCount,                        \* slaves on the bus
  ETHERCAT_LINK_STABLE_POLLS,       \* 500 ms in polls of 100 ms
  ETHERCAT_SAFE_OP_WARMUP_CYCLES,
  ETHERCAT_AXIS_OP_TIMEOUT_CYCLES,
  ETHERCAT_AXIS_OP_STABLE_CYCLES,
  ETHERCAT_STATE_CHECK_INTERVAL,
  ETHERCAT_ZERO_WKC_LIMIT

ASSUME StartupAssumption ==
  /\ AxisCount \in Nat \ {0}
  /\ ETHERCAT_LINK_STABLE_POLLS \in Nat \ {0}
  /\ ETHERCAT_SAFE_OP_WARMUP_CYCLES \in Nat \ {0}
  /\ ETHERCAT_AXIS_OP_TIMEOUT_CYCLES \in Nat \ {0}
  /\ ETHERCAT_AXIS_OP_STABLE_CYCLES \in Nat \ {0}
  /\ ETHERCAT_STATE_CHECK_INTERVAL \in Nat \ {0}
  /\ ETHERCAT_ZERO_WKC_LIMIT \in Nat

Axis == 1..AxisCount

VARIABLES
  link,      \* port 1 is linked
  monitor,   \* the port monitor task: polls since link-up, and whether reported
  notify,    \* g_ethercat_app_notify
  gpt,       \* s_gpt_opened and s_gpt_started
  task,      \* the SOEM task: where it is, and the locals of its loops
  al,        \* the slaves' own AL states
  ec_slave,  \* what the master believes of them: ec_slave[].state
  polls_up   \* history: polls in a row that saw the link

vars == <<link, monitor, notify, gpt, task, al, ec_slave, polls_up>>

-----------------------------------------------------------------------------
ScanStates == {"IDLE", "RUNNING", "DONE", "FAILED"}
RunStates == {"IDLE", "SCANNING", "SAFE_OP", "OP_REQUESTING", "OPERATIONAL",
              "PDO_RUNNING", "FAILED"}

(* sem: master_scan_done_sem does not exist, is empty or has been given.   *)
Notify ==
  [master_scan_task : BOOLEAN, sem : {"none", "empty", "given"},
   scan_state : ScanStates, slave_count : 0..AxisCount, run_state : RunStates]

Places == {"none", "ec_init", "config_init", "map", "bind", "warmup", "request_op",
           "op_check", "final_check", "pdo", "ended"}

(* What ethercat_master_startup_pdo_exchange returns: -1 (no GPT tick, or  *)
(* no frame ever), 0 (nobody answered), some slaves, or all expected ones. *)
Wkcs == {"no_tick", "zero", "partial", "full"}

Task ==
  [pc : Places, slave : Axis, cycle : Nat, wkc : Wkcs, zero_wkc_count : Nat,
   stable_count : Nat, state_confirmed : BOOLEAN,
   full_seen : BOOLEAN]

ALStates == {"SAFE_OP", "OP", "ERROR"}

(* A state read that got no answer leaves 0 in ec_slave[].state.           *)
NO_STATE == "NONE"

-----------------------------------------------------------------------------
(* ethercat_app_common.c                                                   *)

(* ethercat_app_common_open: g_ethercat_app_common_opened is tested but    *)
(* never set, so every call creates the semaphore and resets the state.    *)
ethercat_app_common_open(n) == [n EXCEPT !.sem = "empty", !.run_state = "IDLE"]

ethercat_app_master_scan_set_state(n, state, slave_count) ==
  [n EXCEPT !.scan_state = state, !.slave_count = slave_count,
            !.sem = IF state \in {"DONE", "FAILED"} /\ n.sem # "none" THEN "given"
                    ELSE n.sem]

ethercat_app_master_run_set_state(n, state) == [n EXCEPT !.run_state = state]

Report(scan, slave_count, run) ==
  notify' = ethercat_app_master_run_set_state(
              ethercat_app_master_scan_set_state(notify, scan, slave_count), run)

-----------------------------------------------------------------------------
(* The port monitor task.                                                  *)

Created == [pc |-> "ec_init", slave |-> 1, cycle |-> 0, wkc |-> "zero",
            zero_wkc_count |-> 0, stable_count |-> 0, state_confirmed |-> FALSE,
            full_seen |-> FALSE]

(* Mutant: the task handle is not looked at.                               *)
scan_starts_again ==
  LET begun == ethercat_app_master_run_set_state(
                 ethercat_app_master_scan_set_state(
                   ethercat_app_common_open(notify), "RUNNING", 0), "SCANNING")
  IN {[n |-> [begun EXCEPT !.master_scan_task = TRUE], t |-> Created]}

(* Outcomes of ethercat_master_scan_start: the notification object and     *)
(* the SOEM task afterwards.                                               *)
ScanStarts ==
  LET opened == ethercat_app_common_open(notify)
      begun == ethercat_app_master_run_set_state(
                 ethercat_app_master_scan_set_state(opened, "RUNNING", 0), "SCANNING")
  IN {[n |-> [notify EXCEPT !.sem = "none"], t |-> task]} \cup
     IF opened.master_scan_task THEN {[n |-> opened, t |-> task]}
     ELSE {[n |-> [begun EXCEPT !.master_scan_task = TRUE], t |-> Created],
           [n |-> ethercat_app_master_scan_set_state(begun, "FAILED", 0), t |-> task]}

ethercat_master_scan_start ==
  \E outcome \in ScanStarts : notify' = outcome.n /\ task' = outcome.t

(* One round of ethercat_port_monitor_task for port 1.  A linkStatusGet    *)
(* that fails counts as a link that is down.                               *)
PortMonitorPoll(up) ==
  LET since == monitor.polls + 1
      stable == since - 1 >= ETHERCAT_LINK_STABLE_POLLS
  IN /\ up => link
     /\ polls_up' = IF ~up THEN 0
                    ELSE IF polls_up > ETHERCAT_LINK_STABLE_POLLS THEN polls_up
                    ELSE polls_up + 1
     /\ \/ /\ ~up
           /\ monitor' = [polls |-> 0, reported |-> FALSE]
           /\ UNCHANGED <<notify, task>>
        \/ /\ up /\ ~monitor.reported /\ stable
           /\ monitor' = [polls |-> monitor.polls, reported |-> TRUE]
           /\ ethercat_master_scan_start
        \/ /\ up /\ ~monitor.reported /\ ~stable
           /\ monitor' = [monitor EXCEPT !.polls = since]
           /\ UNCHANGED <<notify, task>>
        \/ /\ up /\ monitor.reported
           /\ UNCHANGED <<monitor, notify, task>>
     /\ UNCHANGED <<link, gpt, al, ec_slave>>

-----------------------------------------------------------------------------
(* The SOEM task: ecat_init up to the GPT.                                 *)

At(pc) == task.pc = pc
Goto(pc) == task' = [task EXCEPT !.pc = pc]

(* ecat_init returned without PDO_RUNNING: the task deletes itself.        *)
ScanFails ==
  /\ Report("FAILED", 0, "FAILED")
  /\ Goto("ended")
  /\ UNCHANGED <<link, monitor, gpt, al, ec_slave, polls_up>>

EcInit ==
  /\ At("ec_init")
  /\ Goto("config_init")
  /\ UNCHANGED <<link, monitor, notify, gpt, al, ec_slave, polls_up>>

EcInitFails == At("ec_init") /\ ScanFails

EcConfigInit ==
  /\ At("config_init")
  /\ Goto("map")
  /\ UNCHANGED <<link, monitor, notify, gpt, al, ec_slave, polls_up>>

NoAxesFound == At("config_init") /\ ScanFails

(* What ecx_statecheck and ecx_readstate store of a slave: its AL state,   *)
(* or nothing when the frame is lost (these services notice it).           *)
ReadState(a) == {al[a], NO_STATE}

(* ec_config_map, the first state check and ec_readstate.                  *)
MapAndReadState ==
  /\ At("map")
  /\ notify' = ethercat_app_master_run_set_state(notify, "SAFE_OP")
  /\ ec_slave' \in [Axis -> ALStates \cup {NO_STATE}]
  /\ \A a \in Axis : ec_slave'[a] \in ReadState(a)
  /\ Goto("bind")
  /\ UNCHANGED <<link, monitor, gpt, al, polls_up>>

BindFails == At("bind") /\ ScanFails

(* gpt_init: the timer is opened once, and started unless it runs.         *)
BindAndStartGpt ==
  /\ At("bind")
  /\ notify' = ethercat_app_master_run_set_state(notify, "OP_REQUESTING")
  /\ gpt' = [opened |-> TRUE, started |-> TRUE]
  /\ Goto("warmup")
  /\ UNCHANGED <<link, monitor, al, ec_slave, polls_up>>

(* The semaphore, R_GPT_Open or R_GPT_Start fails: only the run state      *)
(* tells.                                                                  *)
GptInitFails ==
  /\ At("bind")
  /\ notify' = ethercat_app_master_run_set_state(notify, "FAILED")
  /\ gpt' \in {gpt, [gpt EXCEPT !.opened = TRUE]}
  /\ Goto("ended")
  /\ UNCHANGED <<link, monitor, al, ec_slave, polls_up>>

-----------------------------------------------------------------------------
(* The SOEM task: cycles of the GPT before OP.                             *)

(* The full working counter takes every slave to be in OP, or the counter  *)
(* that an earlier answer left in a buffer: a frame that is lost is not    *)
(* noticed (CompleteMeansFresh of NicDrv).                                 *)
Wkc == {"no_tick", "zero", "partial"}
         \cup {w \in {"full"} : task.full_seen \/ \A a \in Axis : al[a] = "OP"}

ZeroCount(wkc) == IF wkc = "zero" THEN task.zero_wkc_count + 1 ELSE 0

(* Mutant: a silent bus is tolerated without limit.                        *)
exchange_unlimited(wkc) == wkc = "no_tick"

ExchangeFails(wkc) ==
  wkc = "no_tick" \/ ZeroCount(wkc) > ETHERCAT_ZERO_WKC_LIMIT

(* Mutant: the timer goes on running.                                      *)
op_fails_timer_on ==
  /\ ec_slave' \in [Axis -> ALStates \cup {NO_STATE}]
  /\ \A a \in Axis : ec_slave'[a] \in ReadState(a)
  /\ Report("DONE", AxisCount, "FAILED")
  /\ Goto("ended")
  /\ UNCHANGED gpt

(* Stopped short of OP: gpt_stop, ec_readstate, and the reports.           *)
OpFails ==
  /\ gpt' = [gpt EXCEPT !.started = FALSE]
  /\ ec_slave' \in [Axis -> ALStates \cup {NO_STATE}]
  /\ \A a \in Axis : ec_slave'[a] \in ReadState(a)
  /\ Report("DONE", AxisCount, "FAILED")
  /\ Goto("ended")

RequestOp(slave) ==
  task' = [pc |-> "request_op", slave |-> slave, cycle |-> 0, wkc |-> "zero",
           zero_wkc_count |-> 0, stable_count |-> 0, state_confirmed |-> FALSE,
           full_seen |-> task.full_seen]

(* ethercat_master_safe_op_warmup, one cycle; the last one goes on to the  *)
(* request for slave 1, which marks it OP before the slave is.             *)
WarmupCycle ==
  /\ At("warmup")
  /\ \E wkc \in Wkc :
       \/ ExchangeFails(wkc) /\ OpFails
       \/ /\ ~ExchangeFails(wkc)
          /\ task.cycle + 1 < ETHERCAT_SAFE_OP_WARMUP_CYCLES
          /\ task' = [task EXCEPT !.cycle = task.cycle + 1,
                                  !.zero_wkc_count = ZeroCount(wkc)]
          /\ UNCHANGED <<notify, gpt, ec_slave>>
       \/ /\ ~ExchangeFails(wkc)
          /\ task.cycle + 1 >= ETHERCAT_SAFE_OP_WARMUP_CYCLES
          /\ RequestOp(1)
          /\ ec_slave' = [ec_slave EXCEPT ![1] = "OP"]
          /\ UNCHANGED <<notify, gpt>>
  /\ UNCHANGED <<link, monitor, al, polls_up>>

(* One cycle of ethercat_master_slave_request_op begins with an exchange.  *)
OpExchange ==
  /\ At("request_op")
  /\ \E wkc \in Wkc :
       \/ ExchangeFails(wkc) /\ OpFails
       \/ /\ ~ExchangeFails(wkc)
          /\ task' = [task EXCEPT !.pc = "op_check", !.wkc = wkc,
                                  !.zero_wkc_count = ZeroCount(wkc),
                                  !.full_seen = task.full_seen \/ wkc = "full"]
          /\ UNCHANGED <<notify, gpt, ec_slave>>
  /\ UNCHANGED <<link, monitor, al, polls_up>>

StateCheckDue == task.cycle % ETHERCAT_STATE_CHECK_INTERVAL = 0

WkcReady == IF task.slave = AxisCount THEN task.wkc = "full"
            ELSE task.wkc \in {"partial", "full"}

(* The slave has been stable long enough and still reads OP.               *)
SlaveInOp(states) ==
  /\ \/ /\ task.slave < AxisCount
        /\ RequestOp(task.slave + 1)
        /\ ec_slave' = [states EXCEPT ![task.slave + 1] = "OP"]
     \/ /\ task.slave = AxisCount
        /\ Goto("final_check")
        /\ ec_slave' = states
  /\ UNCHANGED <<notify, gpt>>

(* Mutant: a cycle of waiting is not counted.                              *)
op_cycle_uncounted(stable, confirmed) ==
  [task EXCEPT !.pc = "request_op", !.stable_count = stable,
               !.state_confirmed = confirmed]

NextOpCycle(stable, confirmed) ==
  [task EXCEPT !.pc = "request_op", !.cycle = task.cycle + 1,
               !.stable_count = stable, !.state_confirmed = confirmed]

(* The rest of the cycle: the state read in every ETHERCAT_STATE_CHECK_    *)
(* INTERVAL-th one, the counter, and the confirming read when it is full.  *)
OpCheck ==
  /\ At("op_check")
  /\ \E read \in ReadState(task.slave), reread \in ReadState(task.slave) :
       LET states == IF StateCheckDue THEN [ec_slave EXCEPT ![task.slave] = read]
                     ELSE ec_slave
           confirmed == IF StateCheckDue THEN read = "OP" ELSE task.state_confirmed
           stable == IF confirmed /\ WkcReady THEN task.stable_count + 1 ELSE 0
           full == stable >= ETHERCAT_AXIS_OP_STABLE_CYCLES
           checked == IF full THEN [states EXCEPT ![task.slave] = reread] ELSE states
           fails == StateCheckDue /\ read = "ERROR"
           goes_on == ~fails /\ ~(full /\ reread = "OP")
           last == task.cycle + 1 >= ETHERCAT_AXIS_OP_TIMEOUT_CYCLES
       IN \/ (fails \/ (goes_on /\ last)) /\ OpFails
          \/ ~fails /\ full /\ reread = "OP" /\ SlaveInOp(checked)
          \/ /\ goes_on /\ ~last
             /\ task' = NextOpCycle(IF full THEN 0 ELSE stable, ~full /\ confirmed)
             /\ ec_slave' = checked
             /\ UNCHANGED <<notify, gpt>>
  /\ UNCHANGED <<link, monitor, al, polls_up>>

AllInOp(states) == \A a \in Axis : states[a] = "OP"

(* Mutant: the states noted along the way are believed.                    *)
final_check_cached ==
  /\ At("final_check")
  /\ \/ /\ AllInOp(ec_slave)
        /\ Report("DONE", AxisCount, "PDO_RUNNING")
        /\ Goto("pdo")
        /\ UNCHANGED <<gpt, ec_slave>>
     \/ ~AllInOp(ec_slave) /\ OpFails
  /\ UNCHANGED <<link, monitor, al, polls_up>>

(* After the last slave: ec_readstate and the check of all slaves.         *)
FinalCheck ==
  /\ At("final_check")
  /\ \/ /\ ec_slave' \in [Axis -> ALStates \cup {NO_STATE}]
        /\ \A a \in Axis : ec_slave'[a] \in ReadState(a)
        /\ AllInOp(ec_slave')
        /\ Report("DONE", AxisCount, "PDO_RUNNING")
        /\ Goto("pdo")
        /\ UNCHANGED gpt
     \/ /\ \E a \in Axis : \E s \in ReadState(a) : s # "OP"
        /\ OpFails
  /\ UNCHANGED <<link, monitor, al, polls_up>>

-----------------------------------------------------------------------------
(* The link and the slaves.                                                *)

LinkChanges ==
  /\ link' = ~link
  /\ UNCHANGED <<monitor, notify, gpt, task, al, ec_slave, polls_up>>

(* A slave obeys a pending request for OP, or drops out with an error.     *)
Requested(a) ==
  task.pc \in {"request_op", "op_check", "final_check"} /\ a <= task.slave

SlaveChanges(a) ==
  /\ \/ al[a] = "SAFE_OP" /\ Requested(a) /\ al' = [al EXCEPT ![a] = "OP"]
     \/ al[a] # "ERROR" /\ al' = [al EXCEPT ![a] = "ERROR"]
  /\ UNCHANGED <<link, monitor, notify, gpt, task, ec_slave, polls_up>>

-----------------------------------------------------------------------------
(* ethercat_port_monitor_start has called ethercat_app_common_open once.   *)
Init ==
  /\ link = FALSE
  /\ monitor = [polls |-> 0, reported |-> FALSE]
  /\ notify = [master_scan_task |-> FALSE, sem |-> "empty", scan_state |-> "IDLE",
               slave_count |-> 0, run_state |-> "IDLE"]
  /\ gpt = [opened |-> FALSE, started |-> FALSE]
  /\ task = [Created EXCEPT !.pc = "none"]
  /\ al = [a \in Axis |-> "SAFE_OP"]
  /\ ec_slave = [a \in Axis |-> NO_STATE]
  /\ polls_up = 0

MasterTask ==
  \/ EcInit \/ EcInitFails \/ EcConfigInit \/ NoAxesFound \/ MapAndReadState
  \/ BindFails \/ BindAndStartGpt \/ GptInitFails \/ WarmupCycle
  \/ OpExchange \/ OpCheck \/ FinalCheck

Next ==
  \/ \E up \in BOOLEAN : PortMonitorPoll(up)
  \/ MasterTask
  \/ LinkChanges
  \/ \E a \in Axis : SlaveChanges(a)

(* Bus services time out and the GPT wait is bounded, so the SOEM task     *)
(* never blocks for good during the startup.                               *)
Spec == Init /\ [][Next]_vars /\ WF_vars(MasterTask)

-----------------------------------------------------------------------------
(* Properties.                                                             *)

(* Every variable has the type the C declarations give it.                 *)
TypeOK ==
  /\ link \in BOOLEAN
  /\ monitor \in [polls : 0..ETHERCAT_LINK_STABLE_POLLS, reported : BOOLEAN]
  /\ notify \in Notify
  /\ gpt \in [opened : BOOLEAN, started : BOOLEAN]
  /\ task \in Task
  /\ task.cycle < ETHERCAT_AXIS_OP_TIMEOUT_CYCLES + ETHERCAT_SAFE_OP_WARMUP_CYCLES
  /\ task.zero_wkc_count <= ETHERCAT_ZERO_WKC_LIMIT
  /\ task.stable_count < ETHERCAT_AXIS_OP_STABLE_CYCLES
  /\ al \in [Axis -> ALStates]
  /\ ec_slave \in [Axis -> ALStates \cup {NO_STATE}]
  /\ polls_up \in 0..(ETHERCAT_LINK_STABLE_POLLS + 1)

(* The PDO loop is entered only with every slave in OP at that moment,     *)
(* although the master marked each slave OP when it asked for it, reads    *)
(* the states rarely and moves on to the next slave.                       *)
LoopStartsInOp ==
  [][task.pc # "pdo" /\ task'.pc = "pdo" => \A a \in Axis : al[a] = "OP"]_vars

(* The timer that drives the process data runs exactly while someone       *)
(* exchanges it: never after a failed startup, always in the PDO loop.     *)
TimerWhileExchanging ==
  gpt.started <=>
    task.pc \in {"warmup", "request_op", "op_check", "final_check", "pdo"}

(* A bouncing link starts the master once: the SOEM task is created only   *)
(* after the link was seen for the whole stable time, and never again.     *)
StartedOnceOnStableLink ==
  [][task'.pc = "ec_init" /\ task.pc # "ec_init" =>
       task.pc = "none" /\ polls_up' > ETHERCAT_LINK_STABLE_POLLS]_vars

(* The startup ends, in the PDO loop or with the task gone, whatever the   *)
(* slaves, the wire and the timer do.                                      *)
StartupEnds == task.pc \notin {"none", "pdo", "ended"} ~> task.pc \in {"pdo", "ended"}

==============================================================================
