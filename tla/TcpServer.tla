------------------------------ MODULE TcpServer ------------------------------
(***************************************************************************)
(* The TCP command server (application/lwip_port_main.c) on lwIP's BSD     *)
(* sockets.                                                                *)
(*                                                                         *)
(* Two sides work on one socket table without a lock: the TCP task         *)
(* (priority 4) selects, accepts, receives and closes; the netif callback  *)
(* adds and removes the listener in the task that reports the network      *)
(* state, the lwIP launcher or the application task (both priority 3, one  *)
(* at a time under the mutex of um_lwip_port_callback_request).            *)
(*                                                                         *)
(* Atomicity.  A callback begins only while the TCP task waits.  From then *)
(* on the TCP task can interrupt it anywhere.  Inside an lwIP call the     *)
(* callback inherits the priority of the TCP task and keeps it until it    *)
(* releases its mutex; tasks of the same priority take turns at every      *)
(* switch a third one causes, so it may as well interrupt the TCP task.    *)
(* Hence on both sides every lwIP call is a step, and so is every read of  *)
(* a shared word and every write that depends on it.                       *)
(*                                                                         *)
(* Abstraction.  The network interface has one static address, which       *)
(* every listening or connected socket reports as its local address.  A    *)
(* received chunk is the first or the last part of a command frame; the    *)
(* parser slot of a socket is the set of connections whose bytes it holds  *)
(* (HostProtocol is the parser itself).                                    *)
(***************************************************************************)
EXTENDS Integers, FiniteSets, FiniteSetsExt

CONSTANTS
  MEMP_NUM_NETCONN,     \* sockets, and parser slots
  Conn,                 \* connections clients make
  CountValues,          \* values of num_of_socket, which wraps (2^32 in the code)
  MaxNetifChanges       \* bound: changes of the network interface

ASSUME TcpAssumption ==
  /\ MEMP_NUM_NETCONN \in Nat \ {0} /\ MaxNetifChanges \in Nat
  /\ CountValues \in Nat /\ CountValues > MEMP_NUM_NETCONN
  /\ Conn \cap {"free", "listener", "deleting", "closed"} = {}
  /\ IsFiniteSet(Conn)

TCP_SERVER_INVALID_SOCKET == -1

Fd == 0..(MEMP_NUM_NETCONN - 1)
Callers == {"launcher", "main"}

VARIABLES
  sockets,          \* lwIP: what each descriptor is
  conn,             \* the client's side of each connection
  inbox,            \* the chunk that waits to be received on a connection
  netif_state, changes,
  fdset_listners, fdset_clients, fdset_all, max_fd, num_of_socket,
  protocol_parser,
  tcp,              \* the TCP task: where it is, the descriptors it works on
  want,             \* the event each caller is about to report
  callback          \* the callback in progress

table == <<fdset_listners, fdset_clients, fdset_all, max_fd, num_of_socket>>
network == <<sockets, conn, inbox>>
vars == <<network, netif_state, changes, table, protocol_parser, tcp, want, callback>>

-----------------------------------------------------------------------------
(* lwIP sockets.  A socket is free, a listener, a connection, being        *)
(* deleted (netconn_prepare_delete is done: every call on it fails and it  *)
(* selects with an error) or closed (free_socket is done, but select still *)
(* holds a reference, so the descriptor is not given out again).           *)

SocketStates == Conn \cup {"free", "listener", "deleting", "closed"}

Valid(fd) == sockets[fd] \notin {"free", "closed"}

(* A listening or connected socket has the address of the interface; one   *)
(* whose connection is gone has none.                                      *)
HasLocalAddress(fd) ==
  \/ sockets[fd] = "listener"
  \/ sockets[fd] \in Conn /\ conn[sockets[fd]] \in {"open", "finished"}

Backlog == {c \in Conn : conn[c] = "waiting"}

(* lwip_selscan: what select reports of a descriptor.                      *)
Ready(fd) ==
  \/ sockets[fd] = "deleting"
  \/ sockets[fd] = "listener" /\ Backlog # {}
  \/ /\ sockets[fd] \in Conn
     /\ inbox[sockets[fd]] # "none" \/ conn[sockets[fd]] # "open"

FreeFds == {fd \in Fd : sockets[fd] = "free"}

(* alloc_socket takes the lowest free descriptor.                          *)
Allocated == Min(FreeFds)

(* What free_socket leaves of a descriptor.                                *)
Freed(fd) == IF tcp.at = "select" /\ fd \in tcp.fds THEN "closed" ELSE "free"

(* A closed listener takes the connections it has not handed out with it,  *)
(* a closed socket its own.                                                *)
ConnAfterClose(fd) ==
  [c \in Conn |-> IF \/ sockets[fd] = c
                     \/ sockets[fd] = "listener" /\ conn[c] = "waiting"
                  THEN "gone" ELSE conn[c]]

-----------------------------------------------------------------------------
(* tcp_server_task.                                                        *)

TaskAt(at, fds) == tcp' = [at |-> at, fds |-> fds, fd |-> 0, add |-> FALSE, old |-> {}, num |-> 0]

(* Without sockets the task sleeps and looks again; otherwise it copies    *)
(* fdset_all and selects.                                                  *)
tcp_server_task ==
  /\ \/ tcp.at = "sleep" /\ TaskAt("top", {})
     \/ tcp.at = "top" /\ num_of_socket = 0 /\ TaskAt("sleep", {})
     \/ /\ tcp.at = "top" /\ num_of_socket # 0
        /\ TaskAt("select", {fd \in fdset_all : fd <= max_fd})
  /\ UNCHANGED <<network, netif_state, changes, table, protocol_parser, want, callback>>

(* What leaving select does to the descriptors closed meanwhile.           *)
Released == [fd \in Fd |-> IF sockets[fd] = "closed" THEN "free" ELSE sockets[fd]]

(* lwip_select without a timeout: it fails if a descriptor of the set is   *)
(* not valid, else it waits until one is ready.                            *)
lwip_select ==
  LET ready == {fd \in tcp.fds : Ready(fd)}
  IN /\ tcp.at = "select"
     /\ \/ (\E fd \in tcp.fds : ~Valid(fd)) /\ TaskAt("top", {})
        \/ /\ \A fd \in tcp.fds : Valid(fd)
           /\ ready # {}
           /\ TaskAt("check", ready)
     /\ sockets' = Released
     /\ UNCHANGED <<conn, inbox, netif_state, changes, table, protocol_parser,
                    want, callback>>

(* The loop over 0..max_fd: the next descriptor with an event.             *)
Selected(fd) ==
  tcp.at = "check" /\ fd \in tcp.fds /\ fd <= max_fd /\ \A other \in tcp.fds : fd <= other
Checked(fd) == TaskAt("check", tcp.fds \ {fd})

CheckDone ==
  /\ tcp.at = "check"
  /\ \A fd \in tcp.fds : fd > max_fd
  /\ TaskAt("top", {})
  /\ UNCHANGED <<network, netif_state, changes, table, protocol_parser, want, callback>>

(* The listeners are looked up first: fdset_clients may still hold the     *)
(* descriptor of a client that the callback has closed.                    *)
IsListener(fd) == fd \in fdset_listners

IsClient(fd) == fd \in fdset_clients /\ ~IsListener(fd)

(* A descriptor in neither set any more is skipped.                        *)
CheckSkipped(fd) ==
  /\ Selected(fd) /\ ~IsListener(fd) /\ ~IsClient(fd)
  /\ Checked(fd)
  /\ UNCHANGED <<network, netif_state, changes, table, protocol_parser, want, callback>>

(* The task is about to put the socket of a client into the table, or to   *)
(* take it out; the descriptor it has looked at is done with.              *)
Updating(fd, add) ==
  LET seen == Min(tcp.fds)
  IN tcp' = [at |-> "update", fds |-> tcp.fds \ {seen}, fd |-> fd, add |-> add, old |-> {},
             num |-> 0]

-----------------------------------------------------------------------------
(* tcp_server_handle_listner_socket.                                       *)

(* lwip_accept gives the connection the lowest free descriptor.            *)
Accept(c) ==
  /\ FreeFds # {}
  /\ sockets' = [sockets EXCEPT ![Allocated] = c]
  /\ conn' = [conn EXCEPT ![c] = "open"]
  /\ UNCHANGED inbox
  /\ Updating(Allocated, TRUE)

(* Mutant: the listener is closed when accept fails, as a client is when   *)
(* receive fails.                                                          *)
AcceptFailureCloses(c) ==
  /\ sockets' = [fd \in Fd |-> IF sockets[fd] = "listener" THEN "free" ELSE sockets[fd]]
  /\ conn' = [conn EXCEPT ![c] = "gone"]
  /\ UNCHANGED inbox

(* No descriptor is left, or the connection is reset before its peer can   *)
(* be asked for: lwip_accept deletes it and fails, and the listener stays. *)
AcceptRefused(c) ==
  /\ conn' = [conn EXCEPT ![c] = "gone"]
  /\ UNCHANGED <<sockets, inbox>>

(* lwip_accept waits on a listener that has no connection to hand out, and *)
(* fails on anything else.                                                 *)
tcp_server_handle_listner_socket(fd) ==
  /\ Selected(fd) /\ IsListener(fd)
  /\ \/ sockets[fd] = "listener" /\ \E c \in Backlog : Accept(c)
     \/ sockets[fd] = "listener" /\ (\E c \in Backlog : AcceptRefused(c)) /\ Checked(fd)
     \/ sockets[fd] # "listener" /\ UNCHANGED network /\ Checked(fd)
  /\ UNCHANGED <<netif_state, changes, table, protocol_parser, want, callback>>

-----------------------------------------------------------------------------
(* tcp_server_handle_connected_socket.                                     *)

(* The bytes of a chunk go through the parser slot of the descriptor; the  *)
(* last part of a frame completes it, and the slot is empty again.         *)
ParserAfter(fd, chunk) ==
  IF chunk = "first" THEN protocol_parser[fd] \cup {sockets[fd]} ELSE {}

Receive(fd) ==
  /\ protocol_parser' = [protocol_parser EXCEPT ![fd] = ParserAfter(fd, inbox[sockets[fd]])]
  /\ inbox' = [inbox EXCEPT ![sockets[fd]] = "none"]
  /\ UNCHANGED <<sockets, conn, table>>

(* The connection is closed or broken, or the descriptor is no connection: *)
(* the socket is closed, whatever it is.                                   *)
CloseClient(fd) ==
  /\ sockets' = [sockets EXCEPT ![fd] = IF @ = "deleting" THEN "deleting" ELSE "free"]
  /\ conn' = ConnAfterClose(fd)
  /\ UNCHANGED <<inbox, protocol_parser>>
  /\ Updating(fd, FALSE)

(* lwip_recv waits on an open connection without data.  On a descriptor    *)
(* that is not valid it fails, and so does lwip_close: nothing changes.    *)
tcp_server_handle_connected_socket(fd) ==
  /\ Selected(fd) /\ IsClient(fd)
  /\ \/ /\ sockets[fd] \in Conn /\ inbox[sockets[fd]] # "none"
        /\ Receive(fd) /\ Checked(fd)
     \/ /\ sockets[fd] \in Conn /\ inbox[sockets[fd]] = "none"
        /\ conn[sockets[fd]] # "open"
        /\ CloseClient(fd)
     \/ sockets[fd] \in {"listener", "deleting"} /\ CloseClient(fd)
     \/ ~Valid(fd) /\ Checked(fd) /\ UNCHANGED <<network, protocol_parser>>
  /\ UNCHANGED <<netif_state, changes, table, want, callback>>

-----------------------------------------------------------------------------
(* Both functions then update the table: fdset_clients, which no one else  *)
(* writes, fdset_all, max_fd when a client is added, num_of_socket, and    *)
(* the parser slot of the socket.                                          *)

TaskStep(from, to) == tcp.at = from /\ tcp' = [tcp EXCEPT !.at = to]

Updated(set) == IF tcp.add THEN set \cup {tcp.fd} ELSE set \ {tcp.fd}

TaskLoadAll ==
  /\ tcp.at = "update"
  /\ fdset_clients' = Updated(fdset_clients)
  /\ tcp' = [tcp EXCEPT !.at = "store_all", !.old = fdset_all]
  /\ UNCHANGED <<network, netif_state, changes, fdset_listners, fdset_all, max_fd, num_of_socket,
                 protocol_parser, want, callback>>

TaskStoreAll ==
  /\ TaskStep("store_all", IF tcp.add /\ tcp.fd > max_fd THEN "store_max" ELSE "load_num")
  /\ fdset_all' = Updated(tcp.old)
  /\ UNCHANGED <<network, netif_state, changes, fdset_listners, fdset_clients, max_fd,
                 num_of_socket, protocol_parser, want, callback>>

TaskStoreMax ==
  /\ TaskStep("store_max", "load_num")
  /\ max_fd' = tcp.fd
  /\ UNCHANGED <<network, netif_state, changes, fdset_listners, fdset_clients, fdset_all,
                 num_of_socket, protocol_parser, want, callback>>

TaskLoadNum ==
  /\ tcp.at = "load_num"
  /\ tcp' = [tcp EXCEPT !.at = "store_num", !.num = num_of_socket]
  /\ UNCHANGED <<network, netif_state, changes, table, protocol_parser, want, callback>>

(* Mutant: the slot is left as the last connection on it left it.          *)
ParserKept(fd) == protocol_parser

(* An accepted connection starts with an empty slot, a closed one leaves   *)
(* one behind.                                                             *)
ParserReset(fd) == [protocol_parser EXCEPT ![fd] = {}]

TaskStoreNum ==
  /\ tcp.at = "store_num"
  /\ num_of_socket' = IF tcp.add THEN (tcp.num + 1) % CountValues
                      ELSE IF tcp.num > 0 THEN tcp.num - 1 ELSE 0
  /\ protocol_parser' = ParserReset(tcp.fd)
  /\ TaskAt("check", tcp.fds)
  /\ UNCHANGED <<network, netif_state, changes, fdset_listners, fdset_clients, fdset_all, max_fd,
                 want, callback>>

-----------------------------------------------------------------------------
(* The callback, in the task `who'.                                        *)

NoCallback == [at |-> "idle", who |-> "none", event |-> "DOWN", fd |-> 0, old |-> {},
               num |-> 0, seen |-> FALSE]

CallbackAt(at) == callback' = [callback EXCEPT !.at = at]

(* um_lwip_port_netif_set_netif_state in the launcher: a change of state   *)
(* is reported once.                                                       *)
um_lwip_port_netif_set_netif_state ==
  /\ changes < MaxNetifChanges /\ changes' = changes + 1
  /\ want["launcher"] = "none" /\ callback.who # "launcher"
  /\ netif_state' = IF netif_state = "UP" THEN "DOWN" ELSE "UP"
  /\ want' = [want EXCEPT !["launcher"] = netif_state']
  /\ UNCHANGED <<network, table, protocol_parser, tcp, callback>>

(* lwip_port_user_main polls the state, reporting it each time, until it   *)
(* has reported UP.  The state is read before the mutex is taken.          *)
lwip_port_user_main ==
  /\ want["main"] = "none" /\ callback.who # "main"
  /\ want' = [want EXCEPT !["main"] = netif_state]
  /\ UNCHANGED <<network, netif_state, changes, table, protocol_parser, tcp, callback>>

(* The TCP task waits: it sleeps, it is in select, accept or send, or it   *)
(* waits for the lock of the core at the end of accept or close.           *)
TcpWaits ==
  \/ tcp.at \in {"sleep", "update"}
  \/ tcp.at = "select" /\ \A fd \in tcp.fds : Valid(fd) /\ ~Ready(fd)
  \/ \E fd \in Fd : /\ Selected(fd)
                    /\ \/ fd \in fdset_listners /\ sockets[fd] = "listener" /\ Backlog = {}
                       \/ fd \in fdset_clients /\ sockets[fd] \in Conn

(* um_lwip_port_callback_request takes the mutex; the look-up by address   *)
(* begins, with the value max_fd has now.  Its socket_addr_len is not      *)
(* initialised: when it happens to be too small lwip_getsockname copies no *)
(* address, and none is seen.                                              *)
tcp_server_lwip_port_callback(who) ==
  /\ callback = NoCallback /\ TcpWaits
  /\ want[who] \in {"UP", "DOWN"}
  /\ \E seen \in BOOLEAN :
       callback' = [at |-> "lookup", who |-> who, event |-> want[who], fd |-> 0, old |-> {},
                    num |-> max_fd, seen |-> seen]
  /\ UNCHANGED <<network, netif_state, changes, table, protocol_parser, tcp, want>>

CallbackDone ==
  /\ callback' = NoCallback
  /\ want' = [want EXCEPT ![callback.who] =
                IF callback.who = "main" /\ callback.event = "UP" THEN "done" ELSE "none"]

(* The next descriptor up to max_fd: one with the address of the interface *)
(* is taken for the listener.                                              *)
LookAt(fd) ==
  /\ callback.at = "lookup" /\ fd = callback.fd /\ fd <= callback.num
  /\ IF callback.seen /\ HasLocalAddress(fd)
     THEN IF callback.event = "DOWN" THEN CallbackAt("close") /\ UNCHANGED want
          ELSE CallbackDone
     ELSE callback' = [callback EXCEPT !.fd = fd + 1] /\ UNCHANGED want

LookupEnds ==
  /\ callback.at = "lookup" /\ callback.fd > callback.num
  /\ IF callback.event = "UP" THEN CallbackAt("create") /\ UNCHANGED want ELSE CallbackDone

tcp_server_get_socket_by_ip_address ==
  /\ LookupEnds \/ \E fd \in Fd : LookAt(fd)
  /\ UNCHANGED <<network, netif_state, changes, table, protocol_parser, tcp>>

(* Socket, bind and listen.  Bind fails while a socket or a connection     *)
(* still has the port; each of the three may fail for want of memory.      *)
tcp_server_create_new_listner_socket ==
  /\ callback.at = "create"
  /\ \/ /\ FreeFds # {} /\ ~(\E fd \in Fd : HasLocalAddress(fd))
        /\ sockets' = [sockets EXCEPT ![Allocated] = "listener"]
        /\ callback' = [callback EXCEPT !.at = "listed", !.fd = Allocated]
        /\ UNCHANGED want
     \/ CallbackDone /\ UNCHANGED sockets
  /\ UNCHANGED <<conn, inbox, netif_state, changes, table, protocol_parser, tcp>>

(* lwip_close in tcp_server_remove_listener_socket: first the connection   *)
(* is deleted, which wakes select, then the descriptor is freed.           *)
DeleteSocket ==
  /\ callback.at = "close"
  /\ IF Valid(callback.fd)
     THEN /\ sockets' = [sockets EXCEPT ![callback.fd] = "deleting"]
          /\ conn' = ConnAfterClose(callback.fd)
          /\ CallbackAt("free") /\ UNCHANGED want
     ELSE CallbackDone /\ UNCHANGED <<sockets, conn>>
  /\ UNCHANGED <<inbox, netif_state, changes, table, protocol_parser, tcp>>

FreeSocket ==
  /\ callback.at = "free"
  /\ sockets' = [sockets EXCEPT ![callback.fd] = Freed(callback.fd)]
  /\ CallbackAt("listed")
  /\ UNCHANGED <<conn, inbox, netif_state, changes, table, protocol_parser, tcp, want>>

(* The table is updated: fdset_listners, which only the callback writes,   *)
(* then fdset_all, max_fd and num_of_socket, each read and written back.   *)
Listed(set) == IF callback.event = "UP" THEN set \cup {callback.fd}
               ELSE set \ {callback.fd}

UpdateListeners ==
  /\ callback.at = "listed"
  /\ fdset_listners' = Listed(fdset_listners)
  /\ callback' = [callback EXCEPT !.at = "store_all", !.old = fdset_all]
  /\ UNCHANGED <<network, netif_state, changes, fdset_clients, fdset_all, max_fd,
                 num_of_socket, protocol_parser, tcp, want>>

StoreAll ==
  /\ callback.at = "store_all"
  /\ fdset_all' = Listed(callback.old)
  /\ CallbackAt(IF callback.event = "UP" /\ callback.fd > max_fd THEN "store_max"
                ELSE "load_num")
  /\ UNCHANGED <<network, netif_state, changes, fdset_listners, fdset_clients, max_fd,
                 num_of_socket, protocol_parser, tcp, want>>

StoreMax ==
  /\ callback.at = "store_max"
  /\ max_fd' = callback.fd
  /\ CallbackAt("load_num")
  /\ UNCHANGED <<network, netif_state, changes, fdset_listners, fdset_clients, fdset_all,
                 num_of_socket, protocol_parser, tcp, want>>

LoadNum ==
  /\ callback.at = "load_num"
  /\ callback' = [callback EXCEPT !.at = "store_num", !.num = num_of_socket]
  /\ UNCHANGED <<network, netif_state, changes, table, protocol_parser, tcp, want>>

StoreNum ==
  /\ callback.at = "store_num"
  /\ num_of_socket' = (callback.num + IF callback.event = "UP" THEN 1 ELSE CountValues - 1)
                      % CountValues
  /\ CallbackDone
  /\ UNCHANGED <<network, netif_state, changes, fdset_listners, fdset_clients, fdset_all,
                 max_fd, protocol_parser, tcp>>

-----------------------------------------------------------------------------
(* The clients.                                                            *)

Connect(c) ==
  /\ conn[c] = "none" /\ netif_state = "UP"
  /\ \E fd \in Fd : sockets[fd] = "listener"
  /\ conn' = [conn EXCEPT ![c] = "waiting"]
  /\ UNCHANGED <<sockets, inbox, netif_state, changes, table, protocol_parser, tcp,
                 want, callback>>

Send(c, chunk) ==
  /\ conn[c] = "open" /\ netif_state = "UP" /\ inbox[c] = "none"
  /\ inbox' = [inbox EXCEPT ![c] = chunk]
  /\ UNCHANGED <<sockets, conn, netif_state, changes, table, protocol_parser, tcp,
                 want, callback>>

(* The client closes its side, or the connection breaks.                   *)
Disconnect(c) ==
  /\ conn[c] = "open"
  /\ \E how \in {"finished", "gone"} : conn' = [conn EXCEPT ![c] = how]
  /\ UNCHANGED <<sockets, inbox, netif_state, changes, table, protocol_parser, tcp,
                 want, callback>>

-----------------------------------------------------------------------------
Init ==
  /\ sockets = [fd \in Fd |-> "free"]
  /\ conn = [c \in Conn |-> "none"]
  /\ inbox = [c \in Conn |-> "none"]
  /\ netif_state = "DOWN" /\ changes = 0
  /\ fdset_listners = {} /\ fdset_clients = {} /\ fdset_all = {}
  /\ max_fd = TCP_SERVER_INVALID_SOCKET /\ num_of_socket = 0
  /\ protocol_parser = [fd \in Fd |-> {}]
  /\ tcp = [at |-> "sleep", fds |-> {}, fd |-> 0, add |-> FALSE, old |-> {}, num |-> 0]
  /\ want = [who \in Callers |-> "none"]
  /\ callback = NoCallback

TcpTask ==
  \/ tcp_server_task
  \/ lwip_select
  \/ CheckDone
  \/ \E fd \in Fd : \/ CheckSkipped(fd)
                    \/ tcp_server_handle_listner_socket(fd)
                    \/ tcp_server_handle_connected_socket(fd)
  \/ TaskLoadAll \/ TaskStoreAll \/ TaskStoreMax \/ TaskLoadNum \/ TaskStoreNum

Callback ==
  \/ um_lwip_port_netif_set_netif_state
  \/ lwip_port_user_main
  \/ \E who \in Callers : tcp_server_lwip_port_callback(who)
  \/ tcp_server_get_socket_by_ip_address
  \/ tcp_server_create_new_listner_socket
  \/ DeleteSocket \/ FreeSocket
  \/ UpdateListeners \/ StoreAll \/ StoreMax \/ LoadNum \/ StoreNum

Clients ==
  \E c \in Conn : \/ Connect(c)
                  \/ \E chunk \in {"first", "last"} : Send(c, chunk)
                  \/ Disconnect(c)

Next == TcpTask \/ Callback \/ Clients

Spec == Init /\ [][Next]_vars

-----------------------------------------------------------------------------
(* The new client the TCP task is just putting into the table.             *)
BeingAdded(fd) == tcp.add /\ tcp.fd = fd

(* The parser slot of a connection holds bytes of that connection only,    *)
(* although slots go with descriptors, descriptors are used again, and the *)
(* netif callback closes a client's socket without resetting its slot      *)
(* (lwip_port_main.c:441, every connection keeps its own parsing state):   *)
(* what an earlier one left is gone before the first byte is received.     *)
ParserOfOneConnection ==
  \A fd \in Fd : sockets[fd] \in Conn /\ ~BeingAdded(fd) =>
    protocol_parser[fd] \subseteq {sockets[fd]}

(* The TCP task never closes the listener, although it closes whatever it  *)
(* fails to receive from and fdset_clients keeps descriptors of closed     *)
(* clients, which the listener may be given: only the callback, when the   *)
(* network interface is down, closes it.                                   *)
ListenerClosedByCallbackOnly ==
  [][\A fd \in Fd : sockets[fd] = "listener" /\ sockets'[fd] # "listener" =>
        callback.at = "close" /\ callback.fd = fd]_vars
=============================================================================
