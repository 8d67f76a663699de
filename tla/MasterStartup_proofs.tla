------------------------ MODULE MasterStartup_proofs -------------------------
(***************************************************************************)
(* Proofs about MasterStartup, for every number of slaves and every value  *)
(* of the time limits.                                                     *)
(***************************************************************************)
EXTENDS MasterStartup, TLAPS

(* The inductive invariant.  Beyond the two properties it ties the handle  *)
(* ethercat_master_scan_start looks at to the existence of the task, and   *)
(* the port monitor's count to the polls that really saw the link.         *)
IInv ==
  /\ TypeOK
  /\ TimerWhileExchanging
  /\ notify.master_scan_task <=> task.pc # "none"
  /\ monitor.polls <= polls_up

Exchanging == {"warmup", "request_op", "op_check", "final_check", "pdo"}

-----------------------------------------------------------------------------
(* The notification object keeps its type, and neither kind of report      *)
(* touches the task handle.                                                *)
LEMMA NotifyType ==
  ASSUME NEW n \in Notify, NEW scan \in ScanStates, NEW count \in 0..AxisCount,
         NEW run \in RunStates
  PROVE  /\ ethercat_app_common_open(n) \in Notify
         /\ ethercat_app_common_open(n).master_scan_task = n.master_scan_task
         /\ ethercat_app_master_scan_set_state(n, scan, count) \in Notify
         /\ ethercat_app_master_scan_set_state(n, scan, count).master_scan_task
              = n.master_scan_task
         /\ ethercat_app_master_run_set_state(n, run) \in Notify
         /\ ethercat_app_master_run_set_state(n, run).master_scan_task
              = n.master_scan_task
<1>1. /\ ethercat_app_common_open(n) \in Notify
      /\ ethercat_app_common_open(n).master_scan_task = n.master_scan_task
  BY DEF ethercat_app_common_open, Notify, RunStates
<1>2. /\ ethercat_app_master_scan_set_state(n, scan, count) \in Notify
      /\ ethercat_app_master_scan_set_state(n, scan, count).master_scan_task
           = n.master_scan_task
  <2> DEFINE sem == IF scan \in {"DONE", "FAILED"} /\ n.sem # "none" THEN "given"
                    ELSE n.sem
  <2>1. sem \in {"none", "empty", "given"}
    BY DEF Notify
  <2>2. ethercat_app_master_scan_set_state(n, scan, count)
          = [n EXCEPT !.scan_state = scan, !.slave_count = count, !.sem = sem]
    BY DEF ethercat_app_master_scan_set_state
  <2> HIDE DEF sem
  <2> QED BY <2>1, <2>2 DEF Notify
<1>3. /\ ethercat_app_master_run_set_state(n, run) \in Notify
      /\ ethercat_app_master_run_set_state(n, run).master_scan_task = n.master_scan_task
  BY DEF ethercat_app_master_run_set_state, Notify
<1> QED BY <1>1, <1>2, <1>3

(* A report of the startup status keeps the notification object typed and  *)
(* the task handle.                                                        *)
LEMMA ReportType ==
  ASSUME notify \in Notify, NEW scan \in ScanStates, NEW count \in 0..AxisCount,
         NEW run \in RunStates, Report(scan, count, run)
  PROVE  /\ notify' \in Notify
         /\ notify'.master_scan_task = notify.master_scan_task
<1> DEFINE n == ethercat_app_master_scan_set_state(notify, scan, count)
<1>1. n \in Notify /\ n.master_scan_task = notify.master_scan_task
  BY NotifyType
<1>2. notify' = ethercat_app_master_run_set_state(n, run)
  BY DEF Report
<1> HIDE DEF n
<1> QED BY <1>1, <1>2, NotifyType

-----------------------------------------------------------------------------
(* The invariant holds when ethercat_port_monitor_start has run.           *)
LEMMA InitIInv == Init => IInv
<1> SUFFICES ASSUME Init PROVE IInv
  OBVIOUS
<1> USE StartupAssumption DEF StartupAssumption
<1>1. 1 \in Axis /\ 0 \in 0..AxisCount
  BY DEF Axis
<1>2. notify \in Notify
  BY <1>1 DEF Init, Notify, ScanStates, RunStates
<1>3. task = [pc |-> "none", slave |-> 1, cycle |-> 0, wkc |-> "zero",
              zero_wkc_count |-> 0, stable_count |-> 0, state_confirmed |-> FALSE,
              full_seen |-> FALSE]
  BY DEF Init, Created
<1>4. task \in Task
  BY <1>1, <1>3 DEF Task, Places, Wkcs
<1>5. al \in [Axis -> ALStates] /\ ec_slave \in [Axis -> ALStates \cup {NO_STATE}]
  BY DEF Init, ALStates
<1>6. TypeOK
  <2>1. /\ link \in BOOLEAN /\ gpt \in [opened : BOOLEAN, started : BOOLEAN]
        /\ monitor \in [polls : 0..ETHERCAT_LINK_STABLE_POLLS, reported : BOOLEAN]
        /\ polls_up \in 0..(ETHERCAT_LINK_STABLE_POLLS + 1)
    <3>1. /\ link = FALSE /\ gpt = [opened |-> FALSE, started |-> FALSE]
          /\ monitor = [polls |-> 0, reported |-> FALSE] /\ polls_up = 0
      BY Zenon DEF Init
    <3>2. link \in BOOLEAN
      BY <3>1
    <3>3. gpt \in [opened : BOOLEAN, started : BOOLEAN]
      BY <3>1
    <3>4. monitor \in [polls : 0..ETHERCAT_LINK_STABLE_POLLS, reported : BOOLEAN]
      BY <3>1
    <3>5. polls_up \in 0..(ETHERCAT_LINK_STABLE_POLLS + 1)
      BY <3>1
    <3> QED BY <3>2, <3>3, <3>4, <3>5
  <2>2. /\ task.cycle < ETHERCAT_AXIS_OP_TIMEOUT_CYCLES + ETHERCAT_SAFE_OP_WARMUP_CYCLES
        /\ task.zero_wkc_count <= ETHERCAT_ZERO_WKC_LIMIT
        /\ task.stable_count < ETHERCAT_AXIS_OP_STABLE_CYCLES
    BY <1>3
  <2> QED BY <1>2, <1>4, <1>5, <2>1, <2>2 DEF TypeOK
<1>7. TimerWhileExchanging
  BY <1>3 DEF Init, TimerWhileExchanging
<1> QED BY <1>3, <1>6, <1>7 DEF Init, IInv

(* What a step of the SOEM task has to show: the port monitor's part of    *)
(* the state is left alone, the handle stays set.                          *)
LEMMA TaskStepIInv ==
  ASSUME IInv, UNCHANGED <<link, monitor, al, polls_up>>,
         notify' \in Notify, notify'.master_scan_task = notify.master_scan_task,
         gpt' \in [opened : BOOLEAN, started : BOOLEAN],
         task' \in Task, task.pc # "none", task'.pc # "none",
         gpt'.started <=> task'.pc \in Exchanging,
         task'.cycle < ETHERCAT_AXIS_OP_TIMEOUT_CYCLES + ETHERCAT_SAFE_OP_WARMUP_CYCLES,
         task'.zero_wkc_count <= ETHERCAT_ZERO_WKC_LIMIT,
         task'.stable_count < ETHERCAT_AXIS_OP_STABLE_CYCLES,
         ec_slave' \in [Axis -> ALStates \cup {NO_STATE}]
  PROVE  IInv'
<1>1. TypeOK'
  BY DEF IInv, TypeOK
<1>2. TimerWhileExchanging'
  BY DEF TimerWhileExchanging, Exchanging
<1> QED BY <1>1, <1>2 DEF IInv

(* Goto moves the task and keeps the locals of its loops.                  *)
LEMMA GotoType ==
  ASSUME TypeOK, NEW pc \in Places, Goto(pc)
  PROVE  /\ task' \in Task /\ task'.pc = pc
         /\ task'.cycle = task.cycle /\ task'.zero_wkc_count = task.zero_wkc_count
         /\ task'.stable_count = task.stable_count
  BY DEF TypeOK, Goto, Task

(* An exit of the startup before the timer runs.                           *)
LEMMA ScanFailsIInv ==
  ASSUME IInv, ScanFails, task.pc \notin Exchanging \cup {"none"}
  PROVE  IInv'
<1> USE StartupAssumption DEF StartupAssumption
<1>1. task' \in Task /\ task'.pc = "ended"
      /\ task'.cycle = task.cycle /\ task'.zero_wkc_count = task.zero_wkc_count
      /\ task'.stable_count = task.stable_count
  BY GotoType DEF IInv, ScanFails, Places
<1>2. notify' \in Notify /\ notify'.master_scan_task = notify.master_scan_task
  <2>1. "FAILED" \in ScanStates /\ "FAILED" \in RunStates /\ 0 \in 0..AxisCount
        /\ notify \in Notify
    BY DEF IInv, TypeOK, ScanStates, RunStates
  <2> QED BY <2>1, ReportType DEF ScanFails
<1>3. UNCHANGED <<link, monitor, gpt, al, ec_slave, polls_up>>
  BY DEF ScanFails
<1> QED BY <1>1, <1>2, <1>3, TaskStepIInv
        DEF IInv, TypeOK, TimerWhileExchanging, Exchanging

(* An exit with the timer running: gpt_stop comes before the task ends.    *)
LEMMA OpFailsIInv ==
  ASSUME IInv, OpFails, task.pc # "none", UNCHANGED <<link, monitor, al, polls_up>>
  PROVE  IInv'
<1> USE StartupAssumption DEF StartupAssumption
<1>1. task' \in Task /\ task'.pc = "ended"
      /\ task'.cycle = task.cycle /\ task'.zero_wkc_count = task.zero_wkc_count
      /\ task'.stable_count = task.stable_count
  BY GotoType DEF IInv, OpFails, Places
<1>2. notify' \in Notify /\ notify'.master_scan_task = notify.master_scan_task
  <2>1. "DONE" \in ScanStates /\ "FAILED" \in RunStates /\ AxisCount \in 0..AxisCount
        /\ notify \in Notify
    BY DEF IInv, TypeOK, ScanStates, RunStates
  <2> QED BY <2>1, ReportType DEF OpFails
<1>3. gpt' \in [opened : BOOLEAN, started : BOOLEAN] /\ ~gpt'.started
  BY DEF OpFails, IInv, TypeOK
<1>4. ec_slave' \in [Axis -> ALStates \cup {NO_STATE}]
  BY DEF OpFails
<1> QED BY <1>1, <1>2, <1>3, <1>4, TaskStepIInv DEF IInv, TypeOK, Exchanging

(* The request for the next slave starts its loop afresh.                  *)
LEMMA RequestOpType ==
  ASSUME task \in Task, NEW slave \in Axis, RequestOp(slave)
  PROVE  /\ task' \in Task /\ task'.pc = "request_op"
         /\ task'.cycle = 0 /\ task'.zero_wkc_count = 0 /\ task'.stable_count = 0
  BY DEF RequestOp, Task, Places, Wkcs

(* A tolerated exchange keeps the count of silent cycles below its limit.  *)
LEMMA ZeroCountBound ==
  ASSUME TypeOK, NEW wkc \in Wkcs, ~ExchangeFails(wkc)
  PROVE  ZeroCount(wkc) \in Nat /\ ZeroCount(wkc) <= ETHERCAT_ZERO_WKC_LIMIT
<1> USE StartupAssumption DEF StartupAssumption
<1>1. ZeroCount(wkc) \in Nat
  BY DEF ZeroCount, TypeOK, Task
<1> QED BY <1>1 DEF ExchangeFails

-----------------------------------------------------------------------------
(* The steps of the SOEM task, one by one.                                 *)

(* The steps before the first exchange: the timer is started last.         *)
LEMMA SetupIInv ==
  ASSUME IInv,
         \/ EcInit \/ EcInitFails \/ EcConfigInit \/ NoAxesFound \/ MapAndReadState
         \/ BindFails \/ BindAndStartGpt \/ GptInitFails
  PROVE  IInv'
<1> USE StartupAssumption DEF StartupAssumption
<1>0. TypeOK /\ notify \in Notify /\ task \in Task
  BY DEF IInv, TypeOK
<1>1. CASE EcInit \/ EcConfigInit
  <2>1. PICK pc \in {"config_init", "map"} : Goto(pc)
    BY <1>1 DEF EcInit, EcConfigInit
  <2>2. /\ task.pc \in {"ec_init", "config_init"}
        /\ UNCHANGED <<link, monitor, notify, gpt, al, ec_slave, polls_up>>
    BY <1>1 DEF EcInit, EcConfigInit, At
  <2>3. /\ task' \in Task /\ task'.pc = pc
        /\ task'.cycle = task.cycle /\ task'.zero_wkc_count = task.zero_wkc_count
        /\ task'.stable_count = task.stable_count
    BY <1>0, <2>1, GotoType DEF Places
  <2> QED BY <2>2, <2>3, TaskStepIInv
          DEF IInv, TypeOK, TimerWhileExchanging, Exchanging
<1>2. CASE EcInitFails \/ NoAxesFound \/ BindFails
  BY <1>2, ScanFailsIInv DEF EcInitFails, NoAxesFound, BindFails, At, Exchanging
<1>3. CASE MapAndReadState
  <2>1. /\ task.pc = "map" /\ Goto("bind")
        /\ notify' = ethercat_app_master_run_set_state(notify, "SAFE_OP")
        /\ ec_slave' \in [Axis -> ALStates \cup {NO_STATE}]
        /\ UNCHANGED <<link, monitor, gpt, al, polls_up>>
    BY <1>3 DEF MapAndReadState, At
  <2>2. notify' \in Notify /\ notify'.master_scan_task = notify.master_scan_task
    <3>1. "SAFE_OP" \in RunStates /\ "IDLE" \in ScanStates /\ 0 \in 0..AxisCount
      BY DEF RunStates, ScanStates
    <3> QED BY <1>0, <2>1, <3>1, NotifyType
  <2>3. /\ task' \in Task /\ task'.pc = "bind"
        /\ task'.cycle = task.cycle /\ task'.zero_wkc_count = task.zero_wkc_count
        /\ task'.stable_count = task.stable_count
    BY <1>0, <2>1, GotoType DEF Places
  <2> QED BY <2>1, <2>2, <2>3, TaskStepIInv
          DEF IInv, TypeOK, TimerWhileExchanging, Exchanging
<1>4. CASE BindAndStartGpt
  <2>1. /\ task.pc = "bind" /\ Goto("warmup")
        /\ notify' = ethercat_app_master_run_set_state(notify, "OP_REQUESTING")
        /\ gpt' = [opened |-> TRUE, started |-> TRUE]
        /\ UNCHANGED <<link, monitor, al, ec_slave, polls_up>>
    BY <1>4 DEF BindAndStartGpt, At
  <2>2. notify' \in Notify /\ notify'.master_scan_task = notify.master_scan_task
    <3>1. "OP_REQUESTING" \in RunStates /\ "IDLE" \in ScanStates /\ 0 \in 0..AxisCount
      BY DEF RunStates, ScanStates
    <3> QED BY <1>0, <2>1, <3>1, NotifyType
  <2>3. /\ task' \in Task /\ task'.pc = "warmup"
        /\ task'.cycle = task.cycle /\ task'.zero_wkc_count = task.zero_wkc_count
        /\ task'.stable_count = task.stable_count
    BY <1>0, <2>1, GotoType DEF Places
  <2> QED BY <2>1, <2>2, <2>3, TaskStepIInv DEF IInv, TypeOK, Exchanging
<1>5. CASE GptInitFails
  <2>1. /\ task.pc = "bind" /\ Goto("ended")
        /\ notify' = ethercat_app_master_run_set_state(notify, "FAILED")
        /\ gpt' \in {gpt, [gpt EXCEPT !.opened = TRUE]}
        /\ UNCHANGED <<link, monitor, al, ec_slave, polls_up>>
    BY <1>5 DEF GptInitFails, At
  <2>2. notify' \in Notify /\ notify'.master_scan_task = notify.master_scan_task
    <3>1. "FAILED" \in RunStates /\ "IDLE" \in ScanStates /\ 0 \in 0..AxisCount
      BY DEF RunStates, ScanStates
    <3> QED BY <1>0, <2>1, <3>1, NotifyType
  <2>3. /\ task' \in Task /\ task'.pc = "ended"
        /\ task'.cycle = task.cycle /\ task'.zero_wkc_count = task.zero_wkc_count
        /\ task'.stable_count = task.stable_count
    BY <1>0, <2>1, GotoType DEF Places
  <2>4. /\ gpt' \in [opened : BOOLEAN, started : BOOLEAN]
        /\ ~gpt'.started
    BY <1>0, <2>1 DEF IInv, TypeOK, TimerWhileExchanging
  <2> QED BY <2>1, <2>2, <2>3, <2>4, TaskStepIInv DEF IInv, TypeOK, Exchanging
<1> QED BY <1>1, <1>2, <1>3, <1>4, <1>5

(* The warm-up exchanges; too many without an answer end it.               *)
LEMMA WarmupIInv ==
  ASSUME IInv, WarmupCycle
  PROVE  IInv'
<1> USE StartupAssumption DEF StartupAssumption
<1>0. TypeOK /\ task \in Task /\ task.pc = "warmup" /\ gpt.started
  BY DEF IInv, TypeOK, WarmupCycle, At, TimerWhileExchanging
<1>1. UNCHANGED <<link, monitor, al, polls_up>>
  BY DEF WarmupCycle
<1>2. PICK wkc \in Wkc :
        \/ ExchangeFails(wkc) /\ OpFails
        \/ /\ ~ExchangeFails(wkc)
           /\ task.cycle + 1 < ETHERCAT_SAFE_OP_WARMUP_CYCLES
           /\ task' = [task EXCEPT !.cycle = task.cycle + 1,
                                   !.zero_wkc_count = ZeroCount(wkc)]
           /\ UNCHANGED <<notify, gpt, ec_slave>>
        \/ /\ ~ExchangeFails(wkc)
           /\ task.cycle + 1 >= ETHERCAT_SAFE_OP_WARMUP_CYCLES
           /\ RequestOp(1)
           /\ ec_slave' = [ec_slave EXCEPT ![1] = "OP"]
           /\ UNCHANGED <<notify, gpt>>
  BY DEF WarmupCycle
<1>3. wkc \in Wkcs
  BY DEF Wkc, Wkcs
<1>4. CASE OpFails
  BY <1>0, <1>1, <1>4, OpFailsIInv
<1>5. CASE /\ ~ExchangeFails(wkc)
           /\ task.cycle + 1 < ETHERCAT_SAFE_OP_WARMUP_CYCLES
           /\ task' = [task EXCEPT !.cycle = task.cycle + 1,
                                   !.zero_wkc_count = ZeroCount(wkc)]
           /\ UNCHANGED <<notify, gpt, ec_slave>>
  <2>1. ZeroCount(wkc) \in Nat /\ ZeroCount(wkc) <= ETHERCAT_ZERO_WKC_LIMIT
    BY <1>0, <1>3, <1>5, ZeroCountBound
  <2>2. /\ task' \in Task /\ task'.pc = "warmup" /\ task'.cycle = task.cycle + 1
        /\ task'.zero_wkc_count = ZeroCount(wkc)
        /\ task'.stable_count = task.stable_count
    <3> DEFINE cycle == task.cycle + 1
               silent == ZeroCount(wkc)
    <3>1. cycle \in Nat /\ silent \in Nat
      BY <1>0, <2>1 DEF Task
    <3>2. task' = [task EXCEPT !.cycle = cycle, !.zero_wkc_count = silent]
      BY <1>5
    <3> HIDE DEF cycle, silent
    <3>3. /\ task' \in Task /\ task'.pc = "warmup" /\ task'.cycle = cycle
          /\ task'.zero_wkc_count = silent /\ task'.stable_count = task.stable_count
      BY <1>0, <3>1, <3>2 DEF Task
    <3> QED BY <3>3 DEF cycle, silent
  <2>3. task'.cycle < ETHERCAT_AXIS_OP_TIMEOUT_CYCLES + ETHERCAT_SAFE_OP_WARMUP_CYCLES
    BY <1>0, <1>5, <2>2 DEF Task
  <2> QED BY <1>0, <1>1, <1>5, <2>1, <2>2, <2>3, TaskStepIInv DEF IInv, TypeOK, Exchanging
<1>6. CASE /\ RequestOp(1)
           /\ ec_slave' = [ec_slave EXCEPT ![1] = "OP"]
           /\ UNCHANGED <<notify, gpt>>
  <2>1. 1 \in Axis
    BY DEF Axis
  <2>2. /\ task' \in Task /\ task'.pc = "request_op"
        /\ task'.cycle = 0 /\ task'.zero_wkc_count = 0 /\ task'.stable_count = 0
    BY <1>0, <1>6, <2>1, RequestOpType
  <2>3. ec_slave' \in [Axis -> ALStates \cup {NO_STATE}]
    BY <1>6, <2>1 DEF IInv, TypeOK, ALStates
  <2> QED BY <1>0, <1>1, <1>6, <2>2, <2>3, TaskStepIInv DEF IInv, TypeOK, Exchanging
<1> QED BY <1>2, <1>4, <1>5, <1>6

(* An exchange while slaves are brought to OP, one after the other.        *)
LEMMA OpExchangeIInv ==
  ASSUME IInv, OpExchange
  PROVE  IInv'
<1> USE StartupAssumption DEF StartupAssumption
<1>0. TypeOK /\ task \in Task /\ task.pc = "request_op" /\ gpt.started
  BY DEF IInv, TypeOK, OpExchange, At, TimerWhileExchanging
<1>1. UNCHANGED <<link, monitor, al, polls_up>>
  BY DEF OpExchange
<1>2. PICK wkc \in Wkc :
        \/ ExchangeFails(wkc) /\ OpFails
        \/ /\ ~ExchangeFails(wkc)
           /\ task' = [task EXCEPT !.pc = "op_check", !.wkc = wkc,
                                   !.zero_wkc_count = ZeroCount(wkc),
                                   !.full_seen = task.full_seen \/ wkc = "full"]
           /\ UNCHANGED <<notify, gpt, ec_slave>>
  BY DEF OpExchange
<1>3. wkc \in Wkcs
  BY DEF Wkc, Wkcs
<1>4. CASE OpFails
  BY <1>0, <1>1, <1>4, OpFailsIInv
<1>5. CASE /\ ~ExchangeFails(wkc)
           /\ task' = [task EXCEPT !.pc = "op_check", !.wkc = wkc,
                                   !.zero_wkc_count = ZeroCount(wkc),
                                   !.full_seen = task.full_seen \/ wkc = "full"]
           /\ UNCHANGED <<notify, gpt, ec_slave>>
  <2>1. ZeroCount(wkc) \in Nat /\ ZeroCount(wkc) <= ETHERCAT_ZERO_WKC_LIMIT
    BY <1>0, <1>3, <1>5, ZeroCountBound
  <2>2. /\ task' \in Task /\ task'.pc = "op_check" /\ task'.cycle = task.cycle
        /\ task'.zero_wkc_count = ZeroCount(wkc)
        /\ task'.stable_count = task.stable_count
    BY <1>0, <1>3, <1>5, <2>1 DEF Task, Places
  <2> QED BY <1>0, <1>1, <1>5, <2>1, <2>2, TaskStepIInv DEF IInv, TypeOK, Exchanging
<1> QED BY <1>2, <1>4, <1>5

(* The check of a slave that was asked for OP: confirmed, asked again or   *)
(* given up.                                                               *)
LEMMA OpCheckIInv ==
  ASSUME IInv, OpCheck
  PROVE  IInv'
<1> USE StartupAssumption DEF StartupAssumption
<1>0. /\ TypeOK /\ task \in Task /\ task.pc = "op_check" /\ gpt.started
      /\ task.slave \in Axis /\ ec_slave \in [Axis -> ALStates \cup {NO_STATE}]
  BY DEF IInv, TypeOK, OpCheck, At, TimerWhileExchanging, Task
<1>1. UNCHANGED <<link, monitor, al, polls_up>>
  BY DEF OpCheck
<1>2. PICK read \in ReadState(task.slave), reread \in ReadState(task.slave) :
        LET states == IF StateCheckDue THEN [ec_slave EXCEPT ![task.slave] = read]
                      ELSE ec_slave
            confirmed == IF StateCheckDue THEN read = "OP" ELSE task.state_confirmed
            stable == IF confirmed /\ WkcReady THEN task.stable_count + 1 ELSE 0
            full == stable >= ETHERCAT_AXIS_OP_STABLE_CYCLES
            checked == IF full THEN [states EXCEPT ![task.slave] = reread] ELSE states
            last == task.cycle + 1 >= ETHERCAT_AXIS_OP_TIMEOUT_CYCLES
        IN \/ OpFails
           \/ SlaveInOp(checked)
           \/ /\ ~last
              /\ task' = NextOpCycle(IF full THEN 0 ELSE stable, ~full /\ confirmed)
              /\ ec_slave' = checked
              /\ UNCHANGED <<notify, gpt>>
  BY DEF OpCheck
<1> DEFINE states == IF StateCheckDue THEN [ec_slave EXCEPT ![task.slave] = read]
                     ELSE ec_slave
           confirmed == IF StateCheckDue THEN read = "OP" ELSE task.state_confirmed
           stable == IF confirmed /\ WkcReady THEN task.stable_count + 1 ELSE 0
           full == stable >= ETHERCAT_AXIS_OP_STABLE_CYCLES
           checked == IF full THEN [states EXCEPT ![task.slave] = reread] ELSE states
           last == task.cycle + 1 >= ETHERCAT_AXIS_OP_TIMEOUT_CYCLES
<1>3. read \in ALStates \cup {NO_STATE} /\ reread \in ALStates \cup {NO_STATE}
  BY <1>0 DEF ReadState, TypeOK
<1>4. states \in [Axis -> ALStates \cup {NO_STATE}]
  BY <1>0, <1>3
<1> HIDE DEF states
<1>5. checked \in [Axis -> ALStates \cup {NO_STATE}]
  BY <1>0, <1>3, <1>4
<1>6. confirmed \in BOOLEAN
  BY <1>0 DEF Task
<1> HIDE DEF confirmed
<1>7. stable \in Nat
  BY <1>0 DEF Task
<1> HIDE DEF stable
<1>8. CASE OpFails
  BY <1>0, <1>1, <1>8, OpFailsIInv
<1>9. CASE SlaveInOp(checked)
  <2> HIDE DEF checked
  <2>1. CASE task.slave < AxisCount
    <3>1. task.slave + 1 \in Axis
      BY <1>0, <2>1 DEF Axis
    <3>2. /\ RequestOp(task.slave + 1)
          /\ ec_slave' = [checked EXCEPT ![task.slave + 1] = "OP"]
          /\ UNCHANGED <<notify, gpt>>
      BY <1>9, <2>1 DEF SlaveInOp
    <3>3. /\ task' \in Task /\ task'.pc = "request_op"
          /\ task'.cycle = 0 /\ task'.zero_wkc_count = 0 /\ task'.stable_count = 0
      BY <1>0, <3>1, <3>2, RequestOpType
    <3>4. ec_slave' \in [Axis -> ALStates \cup {NO_STATE}]
      BY <1>5, <3>1, <3>2 DEF ALStates
    <3> QED BY <1>0, <1>1, <3>2, <3>3, <3>4, TaskStepIInv DEF IInv, TypeOK, Exchanging
  <2>2. CASE ~(task.slave < AxisCount)
    <3>1. Goto("final_check") /\ ec_slave' = checked /\ UNCHANGED <<notify, gpt>>
      BY <1>9, <2>2 DEF SlaveInOp
    <3>2. /\ task' \in Task /\ task'.pc = "final_check"
          /\ task'.cycle = task.cycle /\ task'.zero_wkc_count = task.zero_wkc_count
          /\ task'.stable_count = task.stable_count
      BY <1>0, <3>1, GotoType DEF Places
    <3> QED BY <1>0, <1>1, <1>5, <3>1, <3>2, TaskStepIInv DEF IInv, TypeOK, Exchanging
  <2> QED BY <2>1, <2>2
<1>10. CASE /\ ~last
            /\ task' = NextOpCycle(IF full THEN 0 ELSE stable, ~full /\ confirmed)
            /\ ec_slave' = checked
            /\ UNCHANGED <<notify, gpt>>
  <2> DEFINE count == IF full THEN 0 ELSE stable
             now == ~full /\ confirmed
  <2>1. count \in Nat /\ count < ETHERCAT_AXIS_OP_STABLE_CYCLES /\ now \in BOOLEAN
    BY <1>7
  <2>2. task' = [task EXCEPT !.pc = "request_op", !.cycle = task.cycle + 1,
                             !.stable_count = count, !.state_confirmed = now]
    BY <1>10 DEF NextOpCycle
  <2> HIDE DEF count, now
  <2>3. /\ task' \in Task /\ task'.pc = "request_op" /\ task'.cycle = task.cycle + 1
        /\ task'.zero_wkc_count = task.zero_wkc_count /\ task'.stable_count = count
    <3> DEFINE cycle == task.cycle + 1
    <3>1. cycle \in Nat
      BY <1>0 DEF Task
    <3>2. task' = [task EXCEPT !.pc = "request_op", !.cycle = cycle,
                               !.stable_count = count, !.state_confirmed = now]
      BY <2>2
    <3> HIDE DEF cycle
    <3>3. /\ task' \in Task /\ task'.pc = "request_op" /\ task'.cycle = cycle
          /\ task'.zero_wkc_count = task.zero_wkc_count /\ task'.stable_count = count
      BY <1>0, <2>1, <3>1, <3>2 DEF Task, Places
    <3> QED BY <3>3 DEF cycle
  <2>4. task'.cycle < ETHERCAT_AXIS_OP_TIMEOUT_CYCLES + ETHERCAT_SAFE_OP_WARMUP_CYCLES
    BY <1>0, <1>10, <2>3 DEF Task
  <2>5. ec_slave' \in [Axis -> ALStates \cup {NO_STATE}]
    BY <1>5, <1>10
  <2> HIDE DEF checked, last
  <2> QED BY <1>0, <1>1, <1>10, <2>1, <2>3, <2>4, <2>5, TaskStepIInv
          DEF IInv, TypeOK, Exchanging
<1> QED BY <1>2, <1>8, <1>9, <1>10 DEF states, confirmed, stable

(* The last look at all slaves before the PDO loop.                        *)
LEMMA FinalCheckIInv ==
  ASSUME IInv, FinalCheck
  PROVE  IInv'
<1> USE StartupAssumption DEF StartupAssumption
<1>0. TypeOK /\ notify \in Notify /\ task.pc = "final_check" /\ gpt.started
  BY DEF IInv, TypeOK, FinalCheck, At, TimerWhileExchanging
<1>1. UNCHANGED <<link, monitor, al, polls_up>>
  BY DEF FinalCheck
<1>2. CASE OpFails
  BY <1>0, <1>1, <1>2, OpFailsIInv
<1>3. CASE /\ ec_slave' \in [Axis -> ALStates \cup {NO_STATE}]
           /\ Report("DONE", AxisCount, "PDO_RUNNING")
           /\ Goto("pdo")
           /\ UNCHANGED gpt
  <2>1. notify' \in Notify /\ notify'.master_scan_task = notify.master_scan_task
    <3>1. "DONE" \in ScanStates /\ "PDO_RUNNING" \in RunStates /\ AxisCount \in 0..AxisCount
      BY DEF ScanStates, RunStates
    <3> QED BY <1>0, <1>3, <3>1, ReportType
  <2>2. /\ task' \in Task /\ task'.pc = "pdo"
        /\ task'.cycle = task.cycle /\ task'.zero_wkc_count = task.zero_wkc_count
        /\ task'.stable_count = task.stable_count
    BY <1>0, <1>3, GotoType DEF Places
  <2> QED BY <1>0, <1>1, <1>3, <2>1, <2>2, TaskStepIInv DEF IInv, TypeOK, Exchanging
<1> QED BY <1>2, <1>3 DEF FinalCheck

-----------------------------------------------------------------------------
(* The other actors.                                                       *)

(* What ethercat_master_scan_start leaves behind: either the task is as it *)
(* was and so is its handle, or it has been created, which takes a handle  *)
(* that was not set.                                                       *)
LEMMA ScanStartsType ==
  ASSUME notify \in Notify, ethercat_master_scan_start
  PROVE  /\ notify' \in Notify
         /\ \/ task' = task /\ notify'.master_scan_task = notify.master_scan_task
            \/ /\ ~notify.master_scan_task /\ notify'.master_scan_task
               /\ task' = Created
<1> USE StartupAssumption DEF StartupAssumption
<1> DEFINE opened == ethercat_app_common_open(notify)
           running == ethercat_app_master_scan_set_state(opened, "RUNNING", 0)
           begun == ethercat_app_master_run_set_state(running, "SCANNING")
           failed == ethercat_app_master_scan_set_state(begun, "FAILED", 0)
           same == notify.master_scan_task
           no_sem == [notify EXCEPT !.sem = "none"]
           created == [begun EXCEPT !.master_scan_task = TRUE]
<1>1. PICK outcome \in {[n |-> no_sem, t |-> task]} \cup
        IF opened.master_scan_task THEN {[n |-> opened, t |-> task]}
        ELSE {[n |-> created, t |-> Created], [n |-> failed, t |-> task]} :
        notify' = outcome.n /\ task' = outcome.t
  BY DEF ethercat_master_scan_start, ScanStarts
<1>2. /\ "RUNNING" \in ScanStates /\ "FAILED" \in ScanStates /\ 0 \in 0..AxisCount
      /\ "SCANNING" \in RunStates
  BY DEF ScanStates, RunStates
<1>3. opened \in Notify /\ opened.master_scan_task = same
  BY <1>2, NotifyType
<1> HIDE DEF opened
<1>4. running \in Notify /\ running.master_scan_task = same
  BY <1>2, <1>3, NotifyType
<1> HIDE DEF running
<1>5. begun \in Notify /\ begun.master_scan_task = same
  BY <1>2, <1>4, NotifyType
<1> HIDE DEF begun
<1>6. failed \in Notify /\ failed.master_scan_task = same
  BY <1>2, <1>5, NotifyType
<1> HIDE DEF failed
<1>7. /\ created \in Notify /\ created.master_scan_task
      /\ no_sem \in Notify /\ no_sem.master_scan_task = same
  BY <1>5 DEF Notify
<1> HIDE DEF created, no_sem, same
<1>8. CASE notify' = no_sem /\ task' = task
  BY <1>7, <1>8 DEF same
<1>9. CASE notify' = opened /\ task' = task
  BY <1>3, <1>9 DEF same
<1>10. CASE ~opened.master_scan_task /\ notify' = created /\ task' = Created
  BY <1>3, <1>7, <1>10 DEF same
<1>11. CASE notify' = failed /\ task' = task
  BY <1>6, <1>11 DEF same
<1>12. \/ outcome = [n |-> no_sem, t |-> task]
       \/ outcome = [n |-> opened, t |-> task]
       \/ ~opened.master_scan_task /\ outcome = [n |-> created, t |-> Created]
       \/ outcome = [n |-> failed, t |-> task]
  BY <1>1, Zenon
<1>13. \/ notify' = no_sem /\ task' = task
       \/ notify' = opened /\ task' = task
       \/ ~opened.master_scan_task /\ notify' = created /\ task' = Created
       \/ notify' = failed /\ task' = task
  BY <1>1, <1>12
<1> QED BY <1>8, <1>9, <1>10, <1>11, <1>13

(* A freshly created task is in its first place with its locals at zero.   *)
LEMMA CreatedType ==
  /\ Created \in Task /\ Created.pc = "ec_init" /\ Created.cycle = 0
  /\ Created.zero_wkc_count = 0 /\ Created.stable_count = 0
<1>1. 1 \in Axis
  BY StartupAssumption DEF StartupAssumption, Axis
<1> QED BY <1>1 DEF Created, Task, Places, Wkcs

(* The port monitor's own count never passes the stable time, and never    *)
(* runs ahead of the polls that saw the link.                              *)
LEMMA MonitorCounts ==
  ASSUME IInv, NEW up \in BOOLEAN, PortMonitorPoll(up)
  PROVE  /\ monitor' \in [polls : 0..ETHERCAT_LINK_STABLE_POLLS, reported : BOOLEAN]
         /\ polls_up' \in 0..(ETHERCAT_LINK_STABLE_POLLS + 1)
         /\ monitor'.polls <= polls_up'
<1> USE StartupAssumption DEF StartupAssumption
<1> DEFINE P == ETHERCAT_LINK_STABLE_POLLS
           polls == monitor.polls
<1>1. /\ monitor \in [polls : 0..P, reported : BOOLEAN]
      /\ polls \in 0..P /\ polls_up \in 0..(P + 1) /\ polls <= polls_up
  BY DEF IInv, TypeOK
<1>2. polls_up' = IF ~up THEN 0 ELSE IF polls_up > P THEN polls_up ELSE polls_up + 1
  BY DEF PortMonitorPoll
<1>3. CASE ~up
  <2>1. monitor' = [polls |-> 0, reported |-> FALSE]
    BY <1>3 DEF PortMonitorPoll
  <2> QED BY <1>2, <1>3, <2>1
<1>4. CASE up
  <2>1. polls_up' \in 0..(P + 1) /\ polls_up <= polls_up'
        /\ (polls_up' > P \/ polls_up' = polls_up + 1)
    BY <1>1, <1>2, <1>4
  <2>2. CASE monitor' = [polls |-> polls, reported |-> TRUE]
    BY <1>1, <2>1, <2>2
  <2>3. CASE UNCHANGED monitor
    BY <1>1, <2>1, <2>3
  <2>4. CASE ~(polls + 1 - 1 >= P) /\ monitor' = [monitor EXCEPT !.polls = polls + 1]
    <3> DEFINE since == polls + 1
    <3>1. since \in 0..P /\ since <= polls_up'
      BY <1>1, <2>1, <2>4
    <3>2. monitor' = [monitor EXCEPT !.polls = since]
      BY <2>4
    <3> HIDE DEF since
    <3>3. monitor' \in [polls : 0..P, reported : BOOLEAN] /\ monitor'.polls = since
      BY <1>1, <3>1, <3>2
    <3> QED BY <2>1, <3>1, <3>3
  <2>5. \/ monitor' = [polls |-> polls, reported |-> TRUE]
        \/ UNCHANGED monitor
        \/ ~(polls + 1 - 1 >= P) /\ monitor' = [monitor EXCEPT !.polls = polls + 1]
    <3>1. CASE monitor.reported
      BY <1>1, <1>4, <3>1 DEF PortMonitorPoll
    <3>2. CASE ~monitor.reported /\ polls + 1 - 1 >= P
      BY <1>1, <1>4, <3>2 DEF PortMonitorPoll
    <3>3. CASE ~monitor.reported /\ ~(polls + 1 - 1 >= P)
      BY <1>1, <1>4, <3>3 DEF PortMonitorPoll
    <3> QED BY <3>1, <3>2, <3>3
  <2> QED BY <2>2, <2>3, <2>4, <2>5
<1> QED BY <1>3, <1>4

(* A round of the port monitor.                                            *)
LEMMA MonitorIInv ==
  ASSUME IInv, NEW up \in BOOLEAN, PortMonitorPoll(up)
  PROVE  IInv'
<1> USE StartupAssumption DEF StartupAssumption
<1>1. UNCHANGED <<link, gpt, al, ec_slave>>
  BY DEF PortMonitorPoll
<1>2. /\ monitor' \in [polls : 0..ETHERCAT_LINK_STABLE_POLLS, reported : BOOLEAN]
      /\ polls_up' \in 0..(ETHERCAT_LINK_STABLE_POLLS + 1)
      /\ monitor'.polls <= polls_up'
  BY MonitorCounts
<1>3. CASE UNCHANGED <<notify, task>>
  BY <1>1, <1>2, <1>3 DEF IInv, TypeOK, TimerWhileExchanging
<1>4. CASE ethercat_master_scan_start
  <2>1. notify \in Notify
    BY DEF IInv, TypeOK
  <2>2. /\ notify' \in Notify
        /\ \/ task' = task /\ notify'.master_scan_task = notify.master_scan_task
           \/ /\ ~notify.master_scan_task /\ notify'.master_scan_task
              /\ task' = Created
    BY <1>4, <2>1, ScanStartsType
  <2>3. CASE task' = task /\ notify'.master_scan_task = notify.master_scan_task
    BY <1>1, <1>2, <2>2, <2>3 DEF IInv, TypeOK, TimerWhileExchanging
  <2>4. CASE ~notify.master_scan_task /\ notify'.master_scan_task /\ task' = Created
    <3>1. /\ task' \in Task /\ task'.pc = "ec_init" /\ task'.cycle = 0
          /\ task'.zero_wkc_count = 0 /\ task'.stable_count = 0
      BY <2>4, CreatedType
    <3>2. task.pc = "none" /\ ~gpt.started
      BY <2>4 DEF IInv, TimerWhileExchanging
    <3>3. TypeOK'
      BY <1>1, <1>2, <2>2, <3>1 DEF IInv, TypeOK
    <3>4. TimerWhileExchanging'
      BY <1>1, <3>1, <3>2 DEF TimerWhileExchanging
    <3> QED BY <1>2, <2>4, <3>1, <3>3, <3>4 DEF IInv
  <2> QED BY <2>2, <2>3, <2>4
<1> QED BY <1>3, <1>4 DEF PortMonitorPoll

(* Every step of the specification preserves the invariant.                *)
LEMMA NextIInv ==
  ASSUME IInv, [Next]_vars
  PROVE  IInv'
<1>1. CASE \E up \in BOOLEAN : PortMonitorPoll(up)
  BY <1>1, MonitorIInv
<1>2. CASE MasterTask
  BY <1>2, SetupIInv, WarmupIInv, OpExchangeIInv, OpCheckIInv, FinalCheckIInv
     DEF MasterTask
<1>3. CASE LinkChanges
  BY <1>3 DEF LinkChanges, IInv, TypeOK, TimerWhileExchanging
<1>4. CASE \E a \in Axis : SlaveChanges(a)
  <2>1. PICK a \in Axis : SlaveChanges(a)
    BY <1>4
  <2>2. al' \in [Axis -> ALStates]
    BY <2>1 DEF SlaveChanges, IInv, TypeOK, ALStates
  <2>3. UNCHANGED <<link, monitor, notify, gpt, task, ec_slave, polls_up>>
    BY <2>1 DEF SlaveChanges
  <2> QED BY <2>2, <2>3 DEF IInv, TypeOK, TimerWhileExchanging
<1>5. CASE UNCHANGED vars
  BY <1>5 DEF vars, IInv, TypeOK, TimerWhileExchanging
<1> QED BY <1>1, <1>2, <1>3, <1>4, <1>5 DEF Next

(* The inductive invariant holds in every reachable state.                 *)
THEOREM IInvariant == Spec => []IInv
  BY InitIInv, NextIInv, PTL DEF Spec

(* Types: in particular the port monitor's count, the SOEM task's cycle,   *)
(* silent-bus and stable counts stay below the limits of their loops.      *)
THEOREM TypeCorrect == Spec => []TypeOK
<1>1. IInv => TypeOK
  BY DEF IInv
<1> QED BY <1>1, IInvariant, PTL

(* The GPT runs exactly while the SOEM task exchanges process data: no     *)
(* failure path of the startup leaves it running, none of the successful   *)
(* ones enters the PDO loop without it.                                    *)
THEOREM TimerFollowsTask == Spec => []TimerWhileExchanging
<1>1. IInv => TimerWhileExchanging
  BY DEF IInv
<1> QED BY <1>1, IInvariant, PTL

-----------------------------------------------------------------------------
(* Action properties.                                                      *)

(* Of all steps only the final check leads into the PDO loop.              *)
LEMMA OnlyFinalCheckEntersLoop ==
  ASSUME IInv, [Next]_vars, task.pc # "pdo", task'.pc = "pdo"
  PROVE  FinalCheck
<1> USE StartupAssumption DEF StartupAssumption
<1>1. task \in Task /\ notify \in Notify /\ TypeOK
  BY DEF IInv, TypeOK
<1>2. ~OpFails /\ ~ScanFails
  BY <1>1, GotoType DEF OpFails, ScanFails, Places
<1>3. ASSUME NEW pc \in Places, pc # "pdo" PROVE ~Goto(pc)
  BY <1>1, <1>3, GotoType
<1>4. ASSUME NEW slave PROVE ~RequestOp(slave)
  BY DEF RequestOp
<1>5. ~\E up \in BOOLEAN : PortMonitorPoll(up)
  <2> SUFFICES ASSUME NEW up \in BOOLEAN, PortMonitorPoll(up) PROVE FALSE
    OBVIOUS
  <2>1. CASE ethercat_master_scan_start
    BY <1>1, <2>1, ScanStartsType, CreatedType
  <2> QED BY <2>1 DEF PortMonitorPoll
<1>6. ~(EcInit \/ EcInitFails \/ EcConfigInit \/ NoAxesFound \/ MapAndReadState
        \/ BindFails \/ BindAndStartGpt \/ GptInitFails)
  BY <1>2, <1>3 DEF EcInit, EcInitFails, EcConfigInit, NoAxesFound, MapAndReadState,
                    BindFails, BindAndStartGpt, GptInitFails, Places
<1>7. ~WarmupCycle
  <2> SUFFICES ASSUME WarmupCycle PROVE FALSE
    OBVIOUS
  <2>1. PICK wkc \in Wkc :
          \/ OpFails \/ RequestOp(1)
          \/ task' = [task EXCEPT !.cycle = task.cycle + 1,
                                  !.zero_wkc_count = ZeroCount(wkc)]
    BY DEF WarmupCycle
  <2>2. CASE task' = [task EXCEPT !.cycle = task.cycle + 1,
                                  !.zero_wkc_count = ZeroCount(wkc)]
    BY <1>1, <2>2 DEF Task
  <2> QED BY <1>2, <1>4, <2>1, <2>2
<1>8. ~OpExchange
  <2> SUFFICES ASSUME OpExchange PROVE FALSE
    OBVIOUS
  <2>1. PICK wkc \in Wkc :
          \/ OpFails
          \/ task' = [task EXCEPT !.pc = "op_check", !.wkc = wkc,
                                  !.zero_wkc_count = ZeroCount(wkc),
                                  !.full_seen = task.full_seen \/ wkc = "full"]
    BY DEF OpExchange
  <2>2. CASE task' = [task EXCEPT !.pc = "op_check", !.wkc = wkc,
                                  !.zero_wkc_count = ZeroCount(wkc),
                                  !.full_seen = task.full_seen \/ wkc = "full"]
    BY <1>1, <2>2 DEF Task
  <2> QED BY <1>2, <2>1, <2>2
<1>9. ~OpCheck
  <2> SUFFICES ASSUME OpCheck PROVE FALSE
    OBVIOUS
  <2>1. \/ OpFails
        \/ \E states : SlaveInOp(states)
        \/ \E stable, confirmed : task' = NextOpCycle(stable, confirmed)
    BY DEF OpCheck
  <2>2. ASSUME NEW states PROVE ~SlaveInOp(states)
    BY <1>3, <1>4 DEF SlaveInOp, Places
  <2>3. ASSUME NEW stable, NEW confirmed PROVE task' # NextOpCycle(stable, confirmed)
    BY <1>1 DEF NextOpCycle, Task
  <2> QED BY <1>2, <2>1, <2>2, <2>3
<1>10. ~LinkChanges /\ ~(\E a \in Axis : SlaveChanges(a)) /\ ~UNCHANGED vars
  BY DEF LinkChanges, SlaveChanges, vars
<1> QED BY <1>5, <1>6, <1>7, <1>8, <1>9, <1>10 DEF Next, MasterTask

(* The PDO loop is entered only with every slave in OP at that moment: the *)
(* last ec_readstate stores what the slaves say or nothing, so a slave     *)
(* that the master had marked OP before it was cannot slip through.        *)
THEOREM LoopEntryInOp == Spec => LoopStartsInOp
<1>1. ASSUME IInv, [Next]_vars
      PROVE  task.pc # "pdo" /\ task'.pc = "pdo" => \A a \in Axis : al[a] = "OP"
  <2> SUFFICES ASSUME task.pc # "pdo", task'.pc = "pdo", NEW a \in Axis
               PROVE  al[a] = "OP"
    OBVIOUS
  <2>1. FinalCheck
    BY <1>1, OnlyFinalCheckEntersLoop
  <2>2. ~OpFails
    BY <1>1, GotoType DEF IInv, OpFails, Places
  <2>3. ec_slave'[a] \in ReadState(a) /\ ec_slave'[a] = "OP"
    BY <2>1, <2>2 DEF FinalCheck, AllInOp
  <2> QED BY <2>3 DEF ReadState, NO_STATE
<1> QED BY <1>1, IInvariant, PTL DEF Spec, LoopStartsInOp

(* Of all steps only the port monitor's creates the SOEM task, on a link   *)
(* it has counted for the stable time.                                     *)
LEMMA OnlyStableLinkCreates ==
  ASSUME IInv, [Next]_vars, task'.pc = "ec_init", task.pc # "ec_init"
  PROVE  task.pc = "none" /\ polls_up' > ETHERCAT_LINK_STABLE_POLLS
<1> USE StartupAssumption DEF StartupAssumption
<1>1. task \in Task /\ notify \in Notify /\ TypeOK
  BY DEF IInv, TypeOK
<1>2. ~OpFails /\ ~ScanFails
  BY <1>1, GotoType DEF OpFails, ScanFails, Places
<1>3. ASSUME NEW pc \in Places, pc # "ec_init" PROVE ~Goto(pc)
  BY <1>1, <1>3, GotoType
<1>4. ASSUME NEW slave PROVE ~RequestOp(slave)
  BY DEF RequestOp
<1>5. ~(EcInit \/ EcInitFails \/ EcConfigInit \/ NoAxesFound \/ MapAndReadState
        \/ BindFails \/ BindAndStartGpt \/ GptInitFails)
  BY <1>2, <1>3 DEF EcInit, EcInitFails, EcConfigInit, NoAxesFound, MapAndReadState,
                    BindFails, BindAndStartGpt, GptInitFails, Places
<1>6. ~WarmupCycle /\ ~OpExchange
  BY <1>1, <1>2, <1>4 DEF WarmupCycle, OpExchange, Task
<1>7. ~OpCheck
  <2> SUFFICES ASSUME OpCheck PROVE FALSE
    OBVIOUS
  <2>1. \/ OpFails
        \/ \E states : SlaveInOp(states)
        \/ \E stable, confirmed : task' = NextOpCycle(stable, confirmed)
    BY DEF OpCheck
  <2>2. ASSUME NEW states PROVE ~SlaveInOp(states)
    BY <1>3, <1>4 DEF SlaveInOp, Places
  <2>3. ASSUME NEW stable, NEW confirmed PROVE task' # NextOpCycle(stable, confirmed)
    BY <1>1 DEF NextOpCycle, Task
  <2> QED BY <1>2, <2>1, <2>2, <2>3
<1>8. ~FinalCheck
  BY <1>2, <1>3 DEF FinalCheck, Places
<1>9. ~LinkChanges /\ ~(\E a \in Axis : SlaveChanges(a)) /\ ~UNCHANGED vars
  BY DEF LinkChanges, SlaveChanges, vars
<1>10. PICK up \in BOOLEAN : PortMonitorPoll(up)
  BY <1>5, <1>6, <1>7, <1>8, <1>9 DEF Next, MasterTask
<1>11. /\ up /\ monitor.polls + 1 - 1 >= ETHERCAT_LINK_STABLE_POLLS
       /\ ethercat_master_scan_start
  BY <1>1, <1>10 DEF PortMonitorPoll, TypeOK
<1>12. task.pc = "none"
  BY <1>1, <1>11, ScanStartsType DEF IInv
<1>13. polls_up' = IF polls_up > ETHERCAT_LINK_STABLE_POLLS THEN polls_up
                   ELSE polls_up + 1
  BY <1>10, <1>11 DEF PortMonitorPoll
<1>14. /\ monitor.polls \in Nat /\ polls_up \in Nat /\ monitor.polls <= polls_up
  BY DEF IInv, TypeOK
<1> QED BY <1>11, <1>12, <1>13, <1>14

(* A bouncing link starts the master once, after the whole stable time.    *)
THEOREM OneStart == Spec => StartedOnceOnStableLink
<1>1. ASSUME IInv, [Next]_vars
      PROVE  task'.pc = "ec_init" /\ task.pc # "ec_init" =>
               task.pc = "none" /\ polls_up' > ETHERCAT_LINK_STABLE_POLLS
  BY <1>1, OnlyStableLinkCreates
<1> QED BY <1>1, IInvariant, PTL DEF Spec, StartedOnceOnStableLink
=============================================================================
