--------------------------- MODULE LwipLink_proofs ---------------------------
(***************************************************************************)
(* Proofs about LwipLink, for every queue length and any number of link    *)
(* changes: MaxChanges enters no argument.                                 *)
(*                                                                         *)
(* InterfaceAsReported speaks of an empty queue.  The invariant behind it  *)
(* says what a queue with requests in it will make of the interface: the   *)
(* last link event decides, or, without one, the request the launcher has  *)
(* in hand, or the interface as it is.  A callback whose request is not    *)
(* refused puts its event last; the launcher's own requests, which may     *)
(* come after it, are no link events; and taking and handling a request    *)
(* only moves what is to be expected one place on.                         *)
(***************************************************************************)
EXTENDS LwipLink, TLAPS

LinkEvents == {"LINK_UP", "LINK_DOWN"}
Events == LinkEvents \cup {"IP_UP", "IP_DOWN"}

(* Every variable has its type.                                            *)
LinkTypeOK ==
  /\ link_status \in SUBSET Ports
  /\ monitor \in [port : 0..Idle, event_prev : BOOLEAN]
  /\ port_monitor \in [notify : BOOLEAN, up : BOOLEAN, initialized : BOOLEAN,
                       previous : BOOLEAN, speed_configured : BOOLEAN]
  /\ queue \in Seq(Events)
  /\ request \in Events \cup {NoRequest}
  /\ netif_up \in BOOLEAN /\ netif_state \in {"UP", "DOWN"}
  /\ report \in [up : BOOLEAN, lost : BOOLEAN] /\ untold \in BOOLEAN

-----------------------------------------------------------------------------
(* What is on its way.                                                     *)

(* Once the launcher has emptied queue q, the interface that is now `now'  *)
(* will be `up': the last link event says so, or there is none and it is.  *)
Becomes(q, now, up) ==
  \/ /\ \A i \in 1..Len(q) : q[i] \notin LinkEvents
     /\ now = up
  \/ \E i \in 1..Len(q) :
       /\ q[i] = LinkEvent(up)
       /\ \A j \in 1..Len(q) : j > i => q[j] \notin LinkEvents

(* The interface when the request in hand is handled.                      *)
NetifNext ==
  IF request = "LINK_UP" THEN TRUE ELSE IF request = "LINK_DOWN" THEN FALSE ELSE netif_up

(* What the last callback read is what the interface will be.              *)
LastWord == boot = "done" /\ ~report.lost => Becomes(queue, NetifNext, report.up)

IInv == LinkTypeOK /\ LastWord

-----------------------------------------------------------------------------
(* A link event at the end of the queue has the last word.                 *)
LEMMA AppendDecides ==
  ASSUME NEW q \in Seq(Events), NEW now \in BOOLEAN, NEW up \in BOOLEAN
  PROVE  Becomes(Append(q, LinkEvent(up)), now, up)
<1> DEFINE r == Append(q, LinkEvent(up))
<1>1. Len(q) \in Nat /\ Len(r) = Len(q) + 1 /\ r[Len(q) + 1] = LinkEvent(up)
  BY DEF LinkEvent, Events, LinkEvents
<1>2. /\ r[Len(r)] = LinkEvent(up)
      /\ Len(r) \in 1..Len(r)
      /\ \A j \in 1..Len(r) : j > Len(r) => r[j] \notin LinkEvents
  BY <1>1
<1> HIDE DEF r
<1>3. Becomes(r, now, up)
  BY <1>2 DEF Becomes
<1> QED
  BY <1>3 DEF r

(* An event of the address is of no account.                               *)
LEMMA AppendOther ==
  ASSUME NEW q \in Seq(Events), NEW now \in BOOLEAN, NEW up \in BOOLEAN,
         NEW e \in Events \ LinkEvents, Becomes(q, now, up)
  PROVE  Becomes(Append(q, e), now, up)
<1> DEFINE r == Append(q, e)
<1>1. /\ Len(q) \in Nat /\ Len(r) = Len(q) + 1 /\ r[Len(q) + 1] = e
      /\ \A i \in 1..Len(q) : r[i] = q[i]
  OBVIOUS
<1> HIDE DEF r
<1>2. CASE (\A i \in 1..Len(q) : q[i] \notin LinkEvents) /\ now = up
  <2>1. \A i \in 1..Len(r) : r[i] \notin LinkEvents
    BY <1>1, <1>2
  <2> QED
    BY <2>1, <1>2 DEF Becomes, r
<1>3. CASE \E i \in 1..Len(q) :
             q[i] = LinkEvent(up) /\ \A j \in 1..Len(q) : j > i => q[j] \notin LinkEvents
  <2>1. PICK i \in 1..Len(q) :
          q[i] = LinkEvent(up) /\ \A j \in 1..Len(q) : j > i => q[j] \notin LinkEvents
    BY <1>3
  <2>2. i \in 1..Len(r) /\ r[i] = LinkEvent(up)
    BY <1>1, <2>1
  <2>3. \A j \in 1..Len(r) : j > i => r[j] \notin LinkEvents
    BY <1>1, <2>1
  <2>4. Becomes(r, now, up)
    BY <2>2, <2>3 DEF Becomes
  <2> QED
    BY <2>4 DEF r
<1> QED
  BY <1>2, <1>3 DEF Becomes

(* Taking the head and doing what it says changes nothing.                 *)
LEMMA TailBecomes ==
  ASSUME NEW q \in Seq(Events), q # <<>>, NEW now \in BOOLEAN, NEW up \in BOOLEAN,
         NEW after \in BOOLEAN, Becomes(q, now, up),
         \/ Head(q) = LinkEvent(after)
         \/ Head(q) \notin LinkEvents /\ after = now
  PROVE  Becomes(Tail(q), after, up)
<1> DEFINE r == Tail(q)
<1>1. /\ Len(q) \in Nat /\ Len(q) >= 1 /\ Len(r) = Len(q) - 1 /\ Head(q) = q[1]
      /\ \A i \in 1..Len(r) : r[i] = q[i + 1]
  OBVIOUS
<1> HIDE DEF r
<1>2. CASE (\A i \in 1..Len(q) : q[i] \notin LinkEvents) /\ now = up
  <2>1. \A i \in 1..Len(r) : r[i] \notin LinkEvents
    BY <1>1, <1>2
  <2>2. after = up
    BY <1>1, <1>2 DEF LinkEvent, LinkEvents
  <2> QED
    BY <2>1, <2>2 DEF Becomes, r
<1>3. CASE \E i \in 1..Len(q) :
             q[i] = LinkEvent(up) /\ \A j \in 1..Len(q) : j > i => q[j] \notin LinkEvents
  <2>1. PICK i \in 1..Len(q) :
          q[i] = LinkEvent(up) /\ \A j \in 1..Len(q) : j > i => q[j] \notin LinkEvents
    BY <1>3
  <2>2. CASE i = 1
    <3>1. LinkEvent(after) = LinkEvent(up)
      BY <1>1, <2>1, <2>2 DEF LinkEvent, LinkEvents
    <3>2. after = up
      BY <3>1 DEF LinkEvent
    <3>3. \A j \in 1..Len(r) : r[j] \notin LinkEvents
      BY <1>1, <2>1, <2>2
    <3> QED
      BY <3>2, <3>3 DEF Becomes, r
  <2>3. CASE i # 1
    <3>1. i - 1 \in 1..Len(r) /\ r[i - 1] = LinkEvent(up)
      BY <1>1, <2>1, <2>3
    <3>2. \A j \in 1..Len(r) : j > i - 1 => r[j] \notin LinkEvents
      BY <1>1, <2>1
    <3>3. Becomes(r, after, up)
      BY <3>1, <3>2 DEF Becomes
    <3> QED
      BY <3>3 DEF r
  <2> QED
    BY <2>2, <2>3
<1> QED
  BY <1>2, <1>3 DEF Becomes

(* An empty queue leaves the interface as it is.                           *)
LEMMA EmptyBecomes ==
  ASSUME NEW now \in BOOLEAN, NEW up \in BOOLEAN, Becomes(<<>>, now, up)
  PROVE  now = up
BY DEF Becomes

-----------------------------------------------------------------------------
(* The steps.                                                              *)

(* The callback, called by three tasks, none of them the launcher: its     *)
(* event is the last of the queue, or is lost.                             *)
LEMMA CallbackIInv ==
  ASSUME LinkTypeOK, NEW any, lwip_ether_netif_callback(any), UNCHANGED launcher
  PROVE  /\ queue' \in Seq(Events)
         /\ report' \in [up : BOOLEAN, lost : BOOLEAN]
         /\ LastWord'
<1> DEFINE up == LwipPort \in link_status
<1>1. queue \in Seq(Events) /\ NetifNext \in BOOLEAN /\ NetifNext' = NetifNext
  BY DEF LinkTypeOK, NetifNext, launcher
<1>2. /\ queue' = IF Refused(queue) THEN queue ELSE Append(queue, LinkEvent(up))
      /\ report' = [up |-> up, lost |-> Refused(queue)]
      /\ up \in BOOLEAN /\ LinkEvent(up) \in Events /\ Refused(queue) \in BOOLEAN
  BY DEF lwip_ether_netif_callback, um_lwip_port_task_launcher_request, LinkEvent, Events,
         LinkEvents, Refused
<1> HIDE DEF up
<1>3. Becomes(Append(queue, LinkEvent(up)), NetifNext, up)
  BY <1>1, <1>2, AppendDecides
<1>4. report'.up = up /\ report'.lost = Refused(queue)
  BY <1>2
<1>5. ~Refused(queue) => Becomes(queue', NetifNext', report'.up)
  BY <1>1, <1>2, <1>3, <1>4
<1>6. queue' \in Seq(Events) /\ report' \in [up : BOOLEAN, lost : BOOLEAN]
  BY <1>1, <1>2
<1> QED
  BY <1>4, <1>5, <1>6 DEF LastWord

(* Nothing has been reported at first.                                     *)
LEMMA InitIInv == Init => IInv
<1> SUFFICES ASSUME Init PROVE IInv
  OBVIOUS
<1>1. queue \in Seq(Events)
  BY DEF Init
<1>2. /\ monitor \in [port : 0..Idle, event_prev : BOOLEAN]
      /\ port_monitor \in [notify : BOOLEAN, up : BOOLEAN, initialized : BOOLEAN,
                           previous : BOOLEAN, speed_configured : BOOLEAN]
      /\ report \in [up : BOOLEAN, lost : BOOLEAN]
  BY DEF Init, Idle
<1>3. /\ link_status \in SUBSET Ports /\ request \in Events \cup {NoRequest}
      /\ netif_up \in BOOLEAN /\ netif_state \in {"UP", "DOWN"} /\ untold \in BOOLEAN
  BY DEF Init
<1> QED
  BY <1>1, <1>2, <1>3 DEF IInv, LinkTypeOK, LastWord, Init

(* The Ethernet monitor, between its reports: no queue, no callback.       *)
LEMMA MonitorIInv == IInv /\ (MonitorClear \/ MonitorPort) => IInv'
<1> SUFFICES ASSUME IInv, MonitorClear \/ MonitorPort PROVE IInv'
  OBVIOUS
<1>1. UNCHANGED <<port_monitor, boot, queue, report, request, netif_up, netif_state, untold>>
  BY DEF MonitorClear, MonitorPort, launcher
<1>2. monitor' \in [port : 0..Idle, event_prev : BOOLEAN]
  BY DEF IInv, LinkTypeOK, MonitorClear, MonitorPort, Idle, Ports
<1>3. link_status' \in SUBSET Ports
  BY DEF IInv, LinkTypeOK, MonitorClear, MonitorPort, Ports
<1> QED
  BY <1>1, <1>2, <1>3 DEF IInv, LinkTypeOK, LastWord, NetifNext

(* Its report.                                                             *)
LEMMA MonitorReportIInv == IInv /\ MonitorReport => IInv'
<1> SUFFICES ASSUME IInv, MonitorReport PROVE IInv'
  OBVIOUS
<1>t. LinkTypeOK
  BY DEF IInv
<1>u. UNCHANGED <<link_status, port_monitor, boot, request, netif_up, netif_state, untold>>
  BY DEF MonitorReport, launcher
<1>m. monitor' \in [port : 0..Idle, event_prev : BOOLEAN]
  BY DEF MonitorReport, Idle, AnyLink
<1>1. CASE AnyLink # monitor.event_prev
  <2>1. lwip_ether_netif_callback(AnyLink) /\ UNCHANGED launcher
    BY <1>1 DEF MonitorReport
  <2>2. queue' \in Seq(Events) /\ report' \in [up : BOOLEAN, lost : BOOLEAN] /\ LastWord'
    BY <1>t, <2>1, CallbackIInv
  <2> QED
    BY <1>t, <1>u, <1>m, <2>2 DEF IInv, LinkTypeOK
<1>2. CASE AnyLink = monitor.event_prev
  <2>1. UNCHANGED <<queue, report>>
    BY <1>2 DEF MonitorReport
  <2> QED
    BY <1>u, <1>m, <2>1 DEF IInv, LinkTypeOK, LastWord, NetifNext
<1> QED
  BY <1>1, <1>2

(* The port monitor's look.                                                *)
LEMMA PollIInv == IInv /\ ethercat_port_monitor_task => IInv'
<1> SUFFICES ASSUME IInv, ethercat_port_monitor_task PROVE IInv'
  OBVIOUS
<1>1. UNCHANGED <<link_status, monitor, boot, queue, report, request, netif_up, netif_state,
                  untold>>
  BY DEF ethercat_port_monitor_task, launcher
<1>2. port_monitor' \in [notify : BOOLEAN, up : BOOLEAN, initialized : BOOLEAN,
                         previous : BOOLEAN, speed_configured : BOOLEAN]
  <2> DEFINE up == LwipPort \in link_status
  <2>1. PICK speed \in SpeedAfter(up) :
          port_monitor' = [port_monitor EXCEPT !.up = up, !.speed_configured = speed,
                                               !.notify = NotifyDue(up)]
    BY DEF ethercat_port_monitor_task
  <2>2. up \in BOOLEAN /\ speed \in BOOLEAN /\ NotifyDue(up) \in BOOLEAN
    <3>1. SpeedAfter(up) \subseteq BOOLEAN
      BY DEF SpeedAfter
    <3>2. speed \in BOOLEAN
      BY <2>1, <3>1
    <3>3. NotifyDue(up) \in BOOLEAN
      BY DEF NotifyDue
    <3> QED
      BY <3>2, <3>3
  <2>3. port_monitor \in [notify : BOOLEAN, up : BOOLEAN, initialized : BOOLEAN,
                          previous : BOOLEAN, speed_configured : BOOLEAN]
    BY DEF IInv, LinkTypeOK
  <2> HIDE DEF up
  <2> QED
    BY <2>1, <2>2, <2>3
<1> QED
  BY <1>1, <1>2 DEF IInv, LinkTypeOK, LastWord, NetifNext

(* Its forced callback.                                                    *)
LEMMA NotifyIInv == IInv /\ PortMonitorNotify => IInv'
<1> SUFFICES ASSUME IInv, PortMonitorNotify PROVE IInv'
  OBVIOUS
<1>t. LinkTypeOK
  BY DEF IInv
<1>u. UNCHANGED <<link_status, monitor, request, netif_up, netif_state, untold>>
  BY DEF PortMonitorNotify, launcher
<1>1. queue' \in Seq(Events) /\ report' \in [up : BOOLEAN, lost : BOOLEAN] /\ LastWord'
  BY <1>t, CallbackIInv DEF PortMonitorNotify
<1>2. port_monitor' \in [notify : BOOLEAN, up : BOOLEAN, initialized : BOOLEAN,
                         previous : BOOLEAN, speed_configured : BOOLEAN]
  BY <1>t DEF LinkTypeOK, PortMonitorNotify
<1> QED
  BY <1>t, <1>u, <1>1, <1>2 DEF IInv, LinkTypeOK

(* The steps of boot before its report.                                    *)
LEMMA BootStepIInv ==
  ASSUME IInv, NEW from, NEW to, to # "done", BootStep(from, to), UNCHANGED <<queue, report>>
  PROVE  IInv'
BY DEF BootStep, launcher, IInv, LinkTypeOK, LastWord

(* Its report: from here on the last word is kept.                         *)
LEMMA StackStartIInv == IInv /\ app_lwip_stack_start => IInv'
<1> SUFFICES ASSUME IInv, app_lwip_stack_start PROVE IInv'
  OBVIOUS
<1>t. LinkTypeOK
  BY DEF IInv
<1>u. UNCHANGED <<link_status, monitor, port_monitor, request, netif_up, netif_state, untold>>
  BY DEF app_lwip_stack_start, BootStep, launcher
<1>1. queue' \in Seq(Events) /\ report' \in [up : BOOLEAN, lost : BOOLEAN] /\ LastWord'
  BY <1>t, CallbackIInv DEF app_lwip_stack_start, BootStep
<1> QED
  BY <1>t, <1>u, <1>1 DEF IInv, LinkTypeOK

(* The launcher takes a request.                                           *)
LEMMA ReceiveIInv == IInv /\ LauncherReceive => IInv'
<1> SUFFICES ASSUME IInv, LauncherReceive PROVE IInv'
  OBVIOUS
<1>t. LinkTypeOK
  BY DEF IInv
<1>u. UNCHANGED <<link_status, monitor, port_monitor, boot, netif_up, netif_state, report, untold>>
  BY DEF LauncherReceive
<1>1. /\ queue \in Seq(Events) /\ queue # <<>> /\ request = NoRequest
      /\ request' = Head(queue) /\ queue' = Tail(queue) /\ netif_up \in BOOLEAN
  BY <1>t DEF LauncherReceive, LinkTypeOK
<1>2. Head(queue) \in Events /\ queue' \in Seq(Events)
  BY <1>1
<1>3. LinkTypeOK'
  BY <1>t, <1>u, <1>1, <1>2 DEF LinkTypeOK
<1>4. ASSUME boot = "done", ~report.lost
      PROVE  Becomes(queue', NetifNext', report.up)
  <2>1. Becomes(queue, netif_up, report.up)
    BY <1>4, <1>1 DEF IInv, LastWord, NetifNext, NoRequest
  <2>2. /\ NetifNext' \in BOOLEAN /\ report.up \in BOOLEAN
        /\ \/ Head(queue) = LinkEvent(NetifNext')
           \/ Head(queue) \notin LinkEvents /\ NetifNext' = netif_up
    BY <1>t, <1>u, <1>1, <1>2 DEF NetifNext, LinkEvent, LinkEvents, Events, LinkTypeOK
  <2> QED
    BY <1>1, <2>1, <2>2, TailBecomes
<1> QED
  BY <1>3, <1>4, <1>u DEF IInv, LastWord

(* And handles it.                                                         *)
LEMMA HandleIInv == IInv /\ LauncherHandle => IInv'
<1> SUFFICES ASSUME IInv, LauncherHandle PROVE IInv'
  OBVIOUS
<1>t. LinkTypeOK
  BY DEF IInv
<1>u. /\ UNCHANGED <<link_status, monitor, port_monitor, boot, report>>
      /\ request' = NoRequest
  BY DEF LauncherHandle
<1>q. queue \in Seq(Events) /\ netif_up \in BOOLEAN /\ report.up \in BOOLEAN
  BY <1>t DEF LinkTypeOK
<1>1. ASSUME NEW v \in BOOLEAN, request = LinkEvent(v), NetifSet(v) PROVE IInv'
  <2> DEFINE e == IF v THEN "IP_UP" ELSE "IP_DOWN"
  <2>1. e \in Events \ LinkEvents
    BY DEF Events, LinkEvents
  <2>2. /\ queue' = queue \/ queue' = Append(queue, e)
        /\ netif_up' = netif_up \/ netif_up' = v
        /\ boot = "done" => netif_up' = v
        /\ netif_state' = netif_state
        /\ untold' \in BOOLEAN
    BY <1>1, <1>t DEF NetifSet, um_lwip_port_task_launcher_request, Refused, LinkTypeOK
  <2> HIDE DEF e
  <2>3. LinkTypeOK'
    <3>1. queue' \in Seq(Events)
      BY <2>1, <2>2, <1>q
    <3> QED
      BY <1>t, <1>u, <1>1, <2>2, <3>1 DEF LinkTypeOK
  <2>4. ASSUME boot = "done", ~report.lost
        PROVE  Becomes(queue', NetifNext', report.up)
    <3>1. NetifNext = v /\ NetifNext' = v
      BY <1>1, <1>u, <2>2, <2>4 DEF NetifNext, LinkEvent, NoRequest
    <3>2. Becomes(queue, v, report.up)
      BY <2>4, <3>1 DEF IInv, LastWord
    <3>3. Becomes(Append(queue, e), v, report.up)
      BY <1>q, <2>1, <3>2, AppendOther
    <3> QED
      BY <2>2, <3>1, <3>2, <3>3
  <2> QED
    BY <2>3, <2>4, <1>u DEF IInv, LastWord
<1>2. ASSUME NEW s \in {"UP", "DOWN"}, request \notin LinkEvents,
             um_lwip_port_netif_set_netif_state(s)
      PROVE  IInv'
  <2>1. queue' = queue /\ netif_up' = netif_up /\ netif_state' = s /\ untold' = untold
    BY <1>2 DEF um_lwip_port_netif_set_netif_state
  <2>2. NetifNext' = NetifNext
    BY <1>2, <1>u, <2>1 DEF NetifNext, LinkEvents, NoRequest
  <2> QED
    BY <1>u, <2>1, <2>2 DEF IInv, LinkTypeOK, LastWord
<1>3. CASE request = "LINK_UP" /\ NetifSet(TRUE)
  BY <1>3, <1>1 DEF LinkEvent
<1>4. CASE request = "LINK_DOWN" /\ NetifSet(FALSE)
  BY <1>4, <1>1 DEF LinkEvent
<1>5. CASE request = "IP_UP" /\ um_lwip_port_netif_set_netif_state("UP")
  BY <1>5, <1>2 DEF LinkEvents
<1>6. CASE request = "IP_DOWN" /\ um_lwip_port_netif_set_netif_state("DOWN")
  BY <1>6, <1>2 DEF LinkEvents
<1> QED
  BY <1>3, <1>4, <1>5, <1>6 DEF LauncherHandle

(* A cable, or nothing.                                                    *)
LEMMA OtherIInv == IInv /\ ((\E port \in Ports : PhyChange(port)) \/ UNCHANGED vars) => IInv'
<1> SUFFICES ASSUME IInv, (\E port \in Ports : PhyChange(port)) \/ UNCHANGED vars PROVE IInv'
  OBVIOUS
<1>1. UNCHANGED <<link_status, monitor, port_monitor, boot, queue, report, request, netif_up,
                  netif_state, untold>>
  BY DEF PhyChange, vars, launcher
<1> QED
  BY <1>1 DEF IInv, LinkTypeOK, LastWord, NetifNext

-----------------------------------------------------------------------------
(* The inductive invariant: once boot is over, what the last callback read *)
(* is what the queue will make of the interface.                           *)
THEOREM IInvariant == Spec => []IInv
<1>1. IInv /\ [Next]_vars => IInv'
  <2> SUFFICES ASSUME IInv, [Next]_vars PROVE IInv'
    OBVIOUS
  <2>1. CASE EtherMonitor
    BY <2>1, MonitorIInv, MonitorReportIInv DEF EtherMonitor
  <2>2. CASE PortMonitor
    BY <2>2, PollIInv, NotifyIInv DEF PortMonitor
  <2>3. CASE um_lwip_port_ether_netif_open
    BY <2>3, BootStepIInv DEF um_lwip_port_ether_netif_open
  <2>4. CASE um_lwip_port_task_launcher_open
    BY <2>4, BootStepIInv DEF um_lwip_port_task_launcher_open
  <2>5. CASE UM_LWIP_PORT_Open
    BY <2>5, BootStepIInv DEF UM_LWIP_PORT_Open
  <2>6. CASE UM_LWIP_PORT_Start
    BY <2>6, BootStepIInv DEF UM_LWIP_PORT_Start
  <2>7. CASE app_lwip_stack_start
    BY <2>7, StackStartIInv
  <2>8. CASE Launcher
    BY <2>8, ReceiveIInv, HandleIInv DEF Launcher
  <2>9. CASE (\E port \in Ports : PhyChange(port)) \/ UNCHANGED vars
    BY <2>9, OtherIInv
  <2> QED
    BY <2>1, <2>2, <2>3, <2>4, <2>5, <2>6, <2>7, <2>8, <2>9 DEF Next, Boot
<1> QED
  BY <1>1, InitIInv, PTL DEF Spec

(* When boot is over and the launcher has nothing left to do, lwIP's       *)
(* interface is as the last callback read port 2, unless its request was   *)
(* refused: requests of three tasks, posted without waiting and handled    *)
(* later, never leave an older report standing.                            *)
THEOREM InterfaceFollowsReports == Spec => []InterfaceAsReported
<1>1. IInv => InterfaceAsReported
  <2> SUFFICES ASSUME IInv, boot = "done", queue = <<>>, request = NoRequest, ~report.lost
               PROVE  netif_up = report.up
    BY DEF InterfaceAsReported
  <2>1. netif_up \in BOOLEAN /\ report.up \in BOOLEAN
    BY DEF IInv, LinkTypeOK
  <2>2. Becomes(<<>>, netif_up, report.up)
    BY DEF IInv, LastWord, NetifNext, NoRequest
  <2> QED
    BY <2>1, <2>2, EmptyBecomes
<1> QED
  BY <1>1, IInvariant, PTL

=============================================================================
