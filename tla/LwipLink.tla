------------------------------ MODULE LwipLink -------------------------------
(***************************************************************************)
(* How the link state of port 2 reaches the TCP server: the monitor task   *)
(* of the Ethernet network interface (um_ether_netif), the port monitor    *)
(* (ethercat_port_monitor.c), the callback of the lwIP port and its        *)
(* launcher task (um_lwip_port), and the boot sequence that puts them      *)
(* together while the first two already run.                               *)
(*                                                                         *)
(* The Ethernet monitor knows one state for all ports, so port 2 going up  *)
(* after port 1 is no event to it; the port monitor watches port 2 alone   *)
(* and forces a callback.  Whatever the event, the callback reads the      *)
(* cached link state of port 2 again and posts what it finds, without      *)
(* waiting, to the launcher's queue.                                       *)
(*                                                                         *)
(* The port monitor (priority 2) looks only when the Ethernet monitor      *)
(* (priority 3) is not rebuilding the cached state.  Inside the callback   *)
(* it holds a mutex the reader task (priority 8) takes for every frame: by *)
(* priority inheritance it may then read the state in the middle of a      *)
(* rebuild.  So may the main thread (priority 3), which boots the lwIP     *)
(* port.                                                                   *)
(***************************************************************************)
EXTENDS Naturals, Sequences

CONSTANTS
  QueueLength,      \* UM_LWIP_PORT_CFG_LAUNCHER_QUEUE_LENGTH
  MaxChanges        \* bound: how often a port's link changes

ASSUME LinkAssumption == QueueLength \in Nat \ {0} /\ MaxChanges \in Nat

Ports == 0..2
LwipPort == 2

VARIABLES
  phy, changes,     \* the ports that are linked (the cables)
  link_status,      \* the cached bit map
  monitor,          \* the Ethernet monitor: where it is, the event it last reported
  port_monitor,     \* the port monitor: what it found, and what it knows of port 2
  boot,             \* how far app_lwip_stack_start is
  queue,            \* the launcher's queue
  request,          \* the launcher: the request it has taken, or NoRequest
  netif_up,         \* lwIP: the interface is up
  netif_state,      \* what the application has been told
  report,           \* history: what the last callback read, and whether it was lost
  untold            \* history: the last change of the interface was not queued

launcher == <<request, netif_up, netif_state, untold>>
vars == <<phy, changes, link_status, monitor, port_monitor, boot, queue, report, launcher>>

NoRequest == "none"

-----------------------------------------------------------------------------
(* um_lwip_port_task_launcher_request: refused before the queue exists and *)
(* when it is full; nobody tries again.                                    *)
Refused(q) == boot \in {"closed", "added"} \/ Len(q) = QueueLength

um_lwip_port_task_launcher_request(q, event) == IF Refused(q) THEN q ELSE Append(q, event)

LinkEvent(up) == IF up THEN "LINK_UP" ELSE "LINK_DOWN"

(* Mutant: the callback posts the event it is called with.                 *)
PostEvent(up) ==
  /\ queue' = um_lwip_port_task_launcher_request(queue, LinkEvent(up))
  /\ report' = [up |-> LwipPort \in link_status, lost |-> Refused(queue)]

(* lwip_ether_netif_callback, called with the state of all ports: it reads *)
(* the state of port 2 again.  Requests are posted under the mutex of      *)
(* um_ether_netif_callback_request, so their order is that of the reads.   *)
lwip_ether_netif_callback(up) ==
  /\ queue' = um_lwip_port_task_launcher_request(queue, LinkEvent(LwipPort \in link_status))
  /\ report' = [up |-> LwipPort \in link_status, lost |-> Refused(queue)]

AnyLink == link_status # {}

-----------------------------------------------------------------------------
(* The Ethernet monitor task: every second it clears the bit map and sets  *)
(* it again port by port, and reports a change of the state of all ports.  *)

(* Where the task is after the last port, and in its sleep.                *)
Reporting == 3
Idle == 4

Rebuilding == monitor.port # Idle

MonitorClear ==
  /\ monitor.port = Idle
  /\ link_status' = {}
  /\ monitor' = [monitor EXCEPT !.port = 0]
  /\ UNCHANGED <<phy, changes, port_monitor, boot, queue, report, launcher>>

MonitorPort ==
  /\ monitor.port \in Ports
  /\ link_status' = IF monitor.port \in phy THEN link_status \cup {monitor.port}
                    ELSE link_status \ {monitor.port}
  /\ monitor' = [monitor EXCEPT !.port = @ + 1]
  /\ UNCHANGED <<phy, changes, port_monitor, boot, queue, report, launcher>>

MonitorReport ==
  /\ monitor.port = Reporting
  /\ monitor' = [port |-> Idle, event_prev |-> AnyLink]
  /\ IF AnyLink # monitor.event_prev THEN lwip_ether_netif_callback(AnyLink)
     ELSE UNCHANGED <<queue, report>>
  /\ UNCHANGED <<phy, changes, link_status, port_monitor, boot, launcher>>

-----------------------------------------------------------------------------
(* The port monitor task, port 2.                                          *)

(* Mutant: port 2 is reported once only.                                   *)
FirstTimeOnly(up) == ~port_monitor.initialized

(* What it takes for a notification.                                       *)
NotifyDue(up) == ~port_monitor.initialized \/ up # port_monitor.previous

(* lwip_port2_configure_ethsw_speed fails until the PHY has a result.      *)
SpeedAfter(up) ==
  IF ~up THEN {FALSE} ELSE IF port_monitor.speed_configured THEN {TRUE} ELSE BOOLEAN

ethercat_port_monitor_task ==
  LET up == LwipPort \in link_status
  IN /\ ~Rebuilding /\ ~port_monitor.notify
     /\ \E speed \in SpeedAfter(up) :
          port_monitor' = [port_monitor EXCEPT !.up = up, !.speed_configured = speed,
                                               !.notify = NotifyDue(up)]
     /\ UNCHANGED <<phy, changes, link_status, monitor, boot, queue, report, launcher>>

(* The forced callback.  What was found counts as reported whatever the    *)
(* callback read and whatever became of its request.                       *)
PortMonitorNotify ==
  /\ port_monitor.notify
  /\ lwip_ether_netif_callback(AnyLink)
  /\ port_monitor' = [port_monitor EXCEPT !.notify = FALSE, !.initialized = TRUE,
                                          !.previous = port_monitor.up]
  /\ UNCHANGED <<phy, changes, link_status, monitor, boot, launcher>>

-----------------------------------------------------------------------------
(* app_lwip_stack_start in the main thread.                                *)

BootStep(from, to) ==
  /\ boot = from /\ boot' = to
  /\ UNCHANGED <<phy, changes, link_status, monitor, port_monitor, launcher>>

(* um_lwip_port_ether_netif_open registers the callback;                   *)
(* um_lwip_port_ether_netif_start calls it, but there is no queue yet.     *)
um_lwip_port_ether_netif_open == BootStep("closed", "added") /\ UNCHANGED <<queue, report>>

(* The queue and the task, which runs until it is suspended, and finds no  *)
(* network interface in the list.                                          *)
um_lwip_port_task_launcher_open == BootStep("added", "launching") /\ UNCHANGED <<queue, report>>

UM_LWIP_PORT_Open == BootStep("launching", "opened") /\ UNCHANGED <<queue, report>>

UM_LWIP_PORT_Start == BootStep("opened", "started") /\ UNCHANGED <<queue, report>>

(* The link state is sent once more, for events lost early.                *)
app_lwip_stack_start ==
  /\ BootStep("started", "done")
  /\ lwip_ether_netif_callback(AnyLink)

-----------------------------------------------------------------------------
(* The launcher task (priority 3).  Between the receipt of a request and   *)
(* what follows from it, other tasks may post.                             *)

LauncherRuns == boot \in {"launching", "started", "done"}

LauncherReceive ==
  /\ LauncherRuns /\ request = NoRequest /\ queue # <<>>
  /\ request' = Head(queue) /\ queue' = Tail(queue)
  /\ UNCHANGED <<phy, changes, link_status, monitor, port_monitor, boot, netif_up, netif_state,
                 report, untold>>

(* netif_set_up and netif_set_down call _status_changed, which posts to    *)
(* the same queue.                                                         *)
NetifSet(up) ==
  IF boot \in {"started", "done"} /\ netif_up # up
  THEN /\ netif_up' = up
       /\ queue' = um_lwip_port_task_launcher_request(queue, IF up THEN "IP_UP" ELSE "IP_DOWN")
       /\ untold' = Refused(queue)
       /\ UNCHANGED netif_state
  ELSE UNCHANGED <<queue, netif_up, netif_state, untold>>

um_lwip_port_netif_set_netif_state(state) ==
  /\ netif_state' = state
  /\ UNCHANGED <<queue, netif_up, untold>>

LauncherHandle ==
  /\ LauncherRuns /\ request # NoRequest
  /\ \/ request = "LINK_UP" /\ NetifSet(TRUE)
     \/ request = "LINK_DOWN" /\ NetifSet(FALSE)
     \/ request = "IP_UP" /\ um_lwip_port_netif_set_netif_state("UP")
     \/ request = "IP_DOWN" /\ um_lwip_port_netif_set_netif_state("DOWN")
  /\ request' = NoRequest
  /\ UNCHANGED <<phy, changes, link_status, monitor, port_monitor, boot, report>>

-----------------------------------------------------------------------------
(* A cable is plugged in or pulled out.                                    *)
PhyChange(port) ==
  /\ changes < MaxChanges /\ changes' = changes + 1
  /\ phy' = IF port \in phy THEN phy \ {port} ELSE phy \cup {port}
  /\ UNCHANGED <<link_status, monitor, port_monitor, boot, queue, report, launcher>>

Init ==
  /\ phy \in SUBSET Ports /\ changes = 0
  /\ link_status = {}
  /\ monitor = [port |-> Idle, event_prev |-> FALSE]
  /\ port_monitor = [notify |-> FALSE, up |-> FALSE, initialized |-> FALSE,
                     previous |-> FALSE, speed_configured |-> FALSE]
  /\ boot = "closed"
  /\ queue = <<>> /\ request = NoRequest
  /\ netif_up = FALSE /\ netif_state = "DOWN"
  /\ report = [up |-> FALSE, lost |-> TRUE] /\ untold = FALSE

EtherMonitor == MonitorClear \/ MonitorPort \/ MonitorReport
PortMonitor == ethercat_port_monitor_task \/ PortMonitorNotify
Boot ==
  \/ um_lwip_port_ether_netif_open \/ um_lwip_port_task_launcher_open
  \/ UM_LWIP_PORT_Open \/ UM_LWIP_PORT_Start \/ app_lwip_stack_start
Launcher == LauncherReceive \/ LauncherHandle

Next == EtherMonitor \/ PortMonitor \/ Boot \/ Launcher \/ \E port \in Ports : PhyChange(port)

(* Every task gets its turn: they all wait or sleep between steps, and the *)
(* Ethernet monitor sleeps a second between its rounds, in which the port  *)
(* monitor looks again.  That no task of a higher priority spins for ever  *)
(* is assumed.                                                             *)
Spec ==
  /\ Init /\ [][Next]_vars
  /\ WF_vars(EtherMonitor) /\ SF_vars(PortMonitor) /\ WF_vars(Boot) /\ WF_vars(Launcher)

-----------------------------------------------------------------------------
(* What the application is told follows the cable in port 2 (comment at    *)
(* ethercat_port_monitor.c:154-162), whatever the other ports do and       *)
(* however the changes fall between the two monitors, boot and launcher,   *)
(* provided that nothing is missing at the end: the last callback read the *)
(* state the port monitor takes for reported, and neither its request nor  *)
(* the news of the interface found the queue full.  The port monitor never *)
(* repeats a report.                                                       *)
NetifFollowsLink ==
  <>[](report.up = port_monitor.previous /\ ~report.lost /\ ~untold)
    => <>[](netif_state = IF LwipPort \in phy THEN "UP" ELSE "DOWN")

(* The last callback has the last word, whichever of the three tasks made  *)
(* it and whatever was posted before: when boot is over and the launcher   *)
(* has emptied its queue, lwIP's interface is as that callback read port   *)
(* 2, unless its own request was refused.                                  *)
InterfaceAsReported ==
  boot = "done" /\ queue = <<>> /\ request = NoRequest /\ ~report.lost
  => netif_up = report.up
=============================================================================
