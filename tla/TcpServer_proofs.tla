-------------------------- MODULE TcpServer_proofs --------------------------
(***************************************************************************)
(* Proofs about TcpServer, for every number of sockets, every set of       *)
(* connections and every number of changes of the network interface.       *)
(*                                                                         *)
(* The socket table has no lock and its two writers lose each other's      *)
(* updates.  What is proved does not rest on the table but on lwIP's       *)
(* descriptors: the listener always has descriptor 0.  It is created       *)
(* first, lwIP gives out the lowest free descriptor, and a connection is   *)
(* accepted only while there is a listener, so no client ever gets         *)
(* descriptor 0 and fdset_clients, stale as it may be, never holds it.     *)
(***************************************************************************)
EXTENDS TcpServer, FiniteSetTheorems, TLAPS

CallbackSteps ==
  {"idle", "lookup", "create", "close", "free", "listed", "store_all", "store_max",
   "load_num", "store_num"}

CallbackRecord ==
  [at : CallbackSteps, who : Callers \cup {"none"}, event : {"UP", "DOWN"},
   fd : 0..MEMP_NUM_NETCONN, old : SUBSET Fd, num : Int, seen : BOOLEAN]

(* Where the TCP task waits and looks, and where it updates the table.     *)
LoopSteps == {"sleep", "top", "select", "check"}
UpdateSteps == {"update", "store_all", "store_max", "load_num", "store_num"}

TaskRecord ==
  [at : LoopSteps \cup UpdateSteps, fds : SUBSET Fd, fd : Fd, add : BOOLEAN,
   old : SUBSET Fd, num : Int]

(* The types of what the two sides share.                                  *)
TableTyped ==
  /\ fdset_listners \subseteq {0}
  /\ fdset_clients \subseteq Fd \ {0}
  /\ fdset_all \subseteq Fd
  /\ max_fd \in Fd \cup {-1}
  /\ num_of_socket \in Int

(* A client is added in the steps that update the table, and its           *)
(* descriptor is not the listener's.                                       *)
TaskTyped ==
  /\ tcp \in TaskRecord
  /\ tcp.add => tcp.at \in UpdateSteps /\ tcp.fd # 0

Typed ==
  /\ sockets \in [Fd -> SocketStates]
  /\ TableTyped
  /\ protocol_parser \in [Fd -> SUBSET Conn]
  /\ TaskTyped
  /\ callback \in CallbackRecord

(* Descriptor 0 is the listener's, and the listener has no other.          *)
ListenerAtZero ==
  /\ sockets[0] \notin Conn
  /\ \A fd \in Fd : sockets[fd] = "listener" => fd = 0

(* The states of descriptor 0 without a listener: it is deleted within one *)
(* callback, and kept closed only by the select that holds it.             *)
ZeroState ==
  /\ sockets[0] = "deleting" => callback.at = "free" /\ callback.fd = 0
  /\ sockets[0] = "closed" => tcp.at = "select" /\ 0 \in tcp.fds

(* What the callback may rely on at each of its steps.                     *)
CallbackInv ==
  /\ callback.at = "idle" => callback = NoCallback
  /\ callback.at \in {"close", "free"} => callback.event = "DOWN"
  /\ callback.at \in {"create", "store_max"} => callback.event = "UP"
  /\ callback.at \notin {"idle", "lookup", "create"} => callback.fd \in Fd
  /\ /\ callback.event = "UP" /\ callback.at \in {"lookup", "create"}
     /\ sockets[0] # "listener"
     => sockets[0] = "free"
  /\ /\ callback.event = "DOWN" /\ callback.fd > 0
     /\ (callback.at = "lookup" /\ callback.seen) \/ callback.at = "close"
     => sockets[0] # "listener"
  /\ callback.at = "free" => sockets[0] # "listener"
  /\ callback.event = "UP" /\ callback.at \in {"listed", "store_all", "store_max"} =>
       callback.fd = 0

(* The inductive invariant.                                                *)
IInv ==
  /\ Typed
  /\ ListenerAtZero
  /\ ZeroState
  /\ CallbackInv
  /\ ParserOfOneConnection

-----------------------------------------------------------------------------
(* Descriptors.                                                            *)

(* Descriptors are numbers from 0.                                         *)
LEMMA ZeroIsFd == 0 \in Fd /\ Fd \subseteq Nat /\ \A fd \in Fd : fd >= 0
BY TcpAssumption DEF TcpAssumption, Fd

(* A socket is a connection or has one of the other states, not both.      *)
LEMMA ConnIsNoState ==
  /\ "free" \notin Conn /\ "listener" \notin Conn
  /\ "deleting" \notin Conn /\ "closed" \notin Conn
BY TcpAssumption DEF TcpAssumption

(* A set of naturals that is not empty has its least element for Min.      *)
LEMMA MinOfNaturals ==
  ASSUME NEW S \in SUBSET Nat, S # {}
  PROVE  Min(S) \in S /\ \A y \in S : Min(S) <= y
<1> DEFINE R == StrictSubsetOrdering(Nat)
           T == {0..x : x \in S}
<1>1. IsWellFoundedOn(R, FiniteSubsetsOf(Nat))
  BY FS_StrictSubsetOrderingWellFounded
<1>2. \A x \in Nat : 0..x \in FiniteSubsetsOf(Nat)
  <2> TAKE x \in Nat
  <2>1. IsFiniteSet(0..x)
    BY FS_Interval
  <2> QED BY <2>1 DEF FiniteSubsetsOf
<1>3. T \subseteq FiniteSubsetsOf(Nat) /\ T # {}
  BY <1>2
<1>4. PICK t \in T : \A u \in T : ~(<<u, t>> \in R)
  <2> HIDE DEF R, T
  <2> QED BY <1>1, <1>3, WFMin
<1>5. PICK x \in S : t = 0..x
  BY <1>4
<1>6. \A y \in S : x <= y
  <2> SUFFICES ASSUME NEW y \in S, y < x PROVE FALSE
    OBVIOUS
  <2>1. 0..y \subseteq 0..x /\ x \in 0..x /\ x \notin 0..y
    OBVIOUS
  <2>2. 0..y \in SUBSET Nat /\ 0..x \in SUBSET Nat /\ 0..y # 0..x
    BY <2>1
  <2>3. <<0..y, 0..x>> \in R
    BY <2>1, <2>2 DEF StrictSubsetOrdering
  <2> QED BY <1>4, <1>5, <2>3
<1> QED BY <1>6 DEF Min

(* alloc_socket returns a free descriptor, and 0 if that is free.          *)
LEMMA AllocatedIsFree ==
  ASSUME FreeFds # {}
  PROVE  /\ Allocated \in Fd /\ sockets[Allocated] = "free"
         /\ sockets[0] = "free" => Allocated = 0
<1>1. FreeFds \in SUBSET Nat
  BY ZeroIsFd DEF FreeFds
<1>2. Allocated \in FreeFds /\ \A y \in FreeFds : Allocated <= y
  BY <1>1, MinOfNaturals DEF Allocated
<1>3. sockets[0] = "free" => Allocated <= 0
  BY <1>2, ZeroIsFd DEF FreeFds
<1> QED BY <1>2, <1>3, ZeroIsFd DEF FreeFds

-----------------------------------------------------------------------------
(* A callback that does not run.                                           *)
LEMMA NoCallbackType ==
  /\ NoCallback \in CallbackRecord
  /\ NoCallback.at = "idle"
<1>1. 0 \in 0..MEMP_NUM_NETCONN
  BY TcpAssumption DEF TcpAssumption
<1> QED BY <1>1 DEF NoCallback, CallbackRecord, CallbackSteps

(* The task in its loop, with nothing to put into the table.               *)
LEMMA LoopTyped ==
  ASSUME NEW at \in LoopSteps, NEW fds \in SUBSET Fd, TaskAt(at, fds)
  PROVE  TaskTyped' /\ ~tcp'.add /\ tcp'.at = at /\ tcp'.fds = fds
<1>1. tcp' \in TaskRecord /\ tcp'.add = FALSE /\ tcp'.at = at /\ tcp'.fds = fds
  BY ZeroIsFd DEF TaskAt, TaskRecord
<1> QED BY <1>1 DEF TaskTyped

(* The server starts with no sockets.                                      *)
LEMMA InitIInv == Init => IInv
<1> SUFFICES ASSUME Init PROVE IInv
  OBVIOUS
<1> USE ZeroIsFd, ConnIsNoState
<1>1. TaskTyped
  <2>1. tcp \in TaskRecord /\ tcp.add = FALSE
    BY DEF Init, TaskRecord, LoopSteps
  <2> QED BY <2>1 DEF TaskTyped
<1>2. Typed
  BY <1>1, NoCallbackType DEF Init, Typed, TableTyped, SocketStates, TCP_SERVER_INVALID_SOCKET
<1>3. ListenerAtZero /\ ParserOfOneConnection
  BY DEF Init, ListenerAtZero, ParserOfOneConnection
<1>4. callback = NoCallback /\ callback.at = "idle"
  BY DEF Init, NoCallback
<1>5. ZeroState /\ CallbackInv
  BY <1>4 DEF Init, ZeroState, CallbackInv
<1> QED BY <1>2, <1>3, <1>5 DEF IInv

(* Steps that change neither the sockets nor the table nor where the two   *)
(* sides are.                                                              *)
LEMMA FrameIInv ==
  ASSUME IInv, UNCHANGED <<sockets, table, protocol_parser, tcp, callback>>
  PROVE  IInv'
BY DEF IInv, Typed, TableTyped, TaskTyped, ListenerAtZero, ZeroState, CallbackInv,
       ParserOfOneConnection, BeingAdded, table

-----------------------------------------------------------------------------
(* The TCP task.                                                           *)

(* The TCP task moves on, at most writing the table, and not from a select *)
(* that holds descriptor 0 closed.                                         *)
LEMMA TaskMovesIInv ==
  ASSUME IInv, UNCHANGED <<sockets, protocol_parser, callback>>, TableTyped', TaskTyped',
         tcp.at # "select" \/ sockets[0] # "closed",
         tcp.add => tcp'.add /\ tcp'.fd = tcp.fd
  PROVE  IInv'
<1>1. Typed' /\ ListenerAtZero'
  BY DEF IInv, Typed, ListenerAtZero
<1>2. ParserOfOneConnection'
  BY DEF IInv, ParserOfOneConnection, BeingAdded
<1>3. ZeroState'
  BY DEF IInv, ZeroState
<1>4. CallbackInv'
  BY DEF IInv, CallbackInv
<1> QED BY <1>1, <1>2, <1>3, <1>4 DEF IInv

(* The loop of the task goes to sleep or into select.                      *)
LEMMA TaskIInv ==
  ASSUME IInv, tcp_server_task
  PROVE  IInv'
<1> DEFINE copy == {fd \in fdset_all : fd <= max_fd}
<1>1. UNCHANGED <<sockets, table, protocol_parser, callback>>
  BY DEF tcp_server_task, network
<1>2. TableTyped'
  BY <1>1 DEF IInv, Typed, TableTyped, table
<1>3. tcp.at # "select" /\ ~tcp.add
  BY DEF tcp_server_task, IInv, Typed, TaskTyped, UpdateSteps
<1>4. copy \in SUBSET Fd /\ {} \in SUBSET Fd
  BY DEF IInv, Typed, TableTyped
<1>5. TaskAt("top", {}) \/ TaskAt("sleep", {}) \/ TaskAt("select", copy)
  BY DEF tcp_server_task
<1> HIDE DEF copy
<1>6. TaskTyped'
  BY <1>4, <1>5, LoopTyped DEF LoopSteps
<1> QED BY <1>1, <1>2, <1>3, <1>6, TaskMovesIInv

(* The loop over the descriptors, where it changes nothing else.           *)
LEMMA CheckMovesIInv ==
  ASSUME IInv, UNCHANGED <<sockets, table, protocol_parser, callback>>,
         tcp.at = "check",
         TaskAt("top", {}) \/ \E fd \in Fd : Checked(fd)
  PROVE  IInv'
<1>1. TableTyped' /\ ~tcp.add
  BY DEF IInv, Typed, TableTyped, table, TaskTyped, UpdateSteps
<1>2. /\ {} \in SUBSET Fd
      /\ \A fd \in Fd : tcp.fds \ {fd} \in SUBSET Fd
  BY DEF IInv, Typed, TaskTyped, TaskRecord
<1>3. TaskTyped'
  BY <1>2, LoopTyped DEF LoopSteps, Checked
<1> QED BY <1>1, <1>3, TaskMovesIInv

(* Leaving select frees the descriptors it held closed.                    *)
LEMMA SelectIInv ==
  ASSUME IInv, lwip_select
  PROVE  IInv'
<1> USE ZeroIsFd, ConnIsNoState
<1>1. /\ UNCHANGED <<fdset_listners, fdset_clients, fdset_all, max_fd, num_of_socket,
                     protocol_parser, callback>>
      /\ sockets' = Released
  BY DEF lwip_select, table
<1>2. TaskTyped' /\ ~tcp'.add /\ ~tcp.add
  <2> DEFINE ready == {fd \in tcp.fds : Ready(fd)}
  <2>1. ready \in SUBSET Fd /\ {} \in SUBSET Fd
    BY DEF IInv, Typed, TaskTyped, TaskRecord
  <2>2. TaskAt("top", {}) \/ TaskAt("check", ready)
    BY DEF lwip_select
  <2>3. ~tcp.add
    BY DEF lwip_select, IInv, Typed, TaskTyped, UpdateSteps
  <2> HIDE DEF ready
  <2> QED BY <2>1, <2>2, <2>3, LoopTyped DEF LoopSteps
<1>3. \A fd \in Fd : sockets'[fd] = IF sockets[fd] = "closed" THEN "free" ELSE sockets[fd]
  BY <1>1 DEF Released
<1>4. \A fd \in Fd : /\ sockets'[fd] \in Conn <=> sockets[fd] \in Conn
                     /\ sockets'[fd] \in Conn => sockets'[fd] = sockets[fd]
                     /\ sockets'[fd] = "listener" <=> sockets[fd] = "listener"
                     /\ sockets'[fd] # "closed"
                     /\ sockets[fd] = "free" => sockets'[fd] = "free"
                     /\ sockets'[fd] = "deleting" => sockets[fd] = "deleting"
  BY <1>3
<1>5. Typed'
  <2>1. sockets' \in [Fd -> SocketStates]
    BY <1>1 DEF Released, SocketStates, IInv, Typed
  <2> QED BY <1>1, <1>2, <2>1 DEF IInv, Typed, TableTyped
<1>6. ListenerAtZero' /\ ParserOfOneConnection'
  BY <1>1, <1>2, <1>4 DEF IInv, ListenerAtZero, ParserOfOneConnection, BeingAdded
<1>7. ZeroState'
  BY <1>1, <1>4 DEF IInv, ZeroState
<1>8. CallbackInv'
  BY <1>1, <1>4 DEF IInv, CallbackInv
<1> QED BY <1>5, <1>6, <1>7, <1>8 DEF IInv

(* The task is about to update the table.                                  *)
LEMMA UpdatingTyped ==
  ASSUME IInv, NEW fd \in Fd, NEW add \in BOOLEAN, Updating(fd, add), add => fd # 0
  PROVE  TaskTyped' /\ tcp'.add = add /\ tcp'.fd = fd
<1> DEFINE rest == tcp.fds \ {Min(tcp.fds)}
<1>1. rest \in SUBSET Fd
  BY DEF IInv, Typed, TaskTyped, TaskRecord
<1>2. tcp' = [at |-> "update", fds |-> rest, fd |-> fd, add |-> add, old |-> {}, num |-> 0]
  BY DEF Updating
<1> HIDE DEF rest
<1>3. tcp' \in TaskRecord /\ tcp'.at = "update" /\ tcp'.fd = fd /\ tcp'.add = add
  BY <1>1, <1>2 DEF TaskRecord, UpdateSteps
<1> QED BY <1>3 DEF TaskTyped, UpdateSteps

(* A connection is accepted on the listener, so it gets another descriptor *)
(* than 0.                                                                 *)
LEMMA AcceptIInv ==
  ASSUME IInv, NEW fd \in Fd, NEW c \in Conn, Selected(fd), sockets[fd] = "listener",
         Accept(c), UNCHANGED <<table, protocol_parser, callback>>
  PROVE  IInv'
<1> USE ZeroIsFd, ConnIsNoState
<1> DEFINE new == Allocated
<1>1. fd = 0 /\ sockets[0] = "listener" /\ ~tcp.add
  BY DEF Selected, IInv, ListenerAtZero, Typed, TaskTyped, UpdateSteps
<1>2. new \in Fd /\ sockets[new] = "free" /\ new # 0
  BY <1>1, AllocatedIsFree DEF Accept
<1>3. sockets' = [sockets EXCEPT ![new] = c] /\ Updating(new, TRUE)
  BY DEF Accept
<1> HIDE DEF new
<1>4. TaskTyped' /\ tcp'.add /\ tcp'.fd = new
  BY <1>2, <1>3, UpdatingTyped
<1>5. /\ sockets'[new] = c
      /\ \A other \in Fd : other # new => sockets'[other] = sockets[other]
  BY <1>2, <1>3 DEF IInv, Typed
<1>6. Typed'
  <2>1. sockets' \in [Fd -> SocketStates]
    BY <1>3 DEF IInv, Typed, SocketStates
  <2> QED BY <1>4, <2>1 DEF IInv, Typed, TableTyped, table
<1>7. ListenerAtZero'
  BY <1>2, <1>5 DEF IInv, ListenerAtZero
<1>8. ZeroState'
  BY <1>1, <1>2, <1>5 DEF ZeroState
<1>9. ParserOfOneConnection'
  BY <1>1, <1>4, <1>5 DEF IInv, ParserOfOneConnection, BeingAdded
<1>10. CallbackInv'
  <2>1. UNCHANGED callback /\ sockets'[0] = sockets[0]
    BY <1>2, <1>5
  <2> QED BY <2>1 DEF IInv, CallbackInv
<1> QED BY <1>6, <1>7, <1>8, <1>9, <1>10 DEF IInv

(* Accept: the lowest free descriptor, never the listener's.               *)
LEMMA ListenerIInv ==
  ASSUME IInv, NEW fd \in Fd, tcp_server_handle_listner_socket(fd)
  PROVE  IInv'
<1>1. /\ Selected(fd) /\ tcp.at = "check"
      /\ UNCHANGED <<table, protocol_parser, callback>>
  BY DEF tcp_server_handle_listner_socket, Selected
<1>2. ASSUME NEW c \in Backlog, sockets[fd] = "listener", Accept(c)
      PROVE  IInv'
  BY <1>1, <1>2, AcceptIInv DEF Backlog
<1>3. ASSUME UNCHANGED sockets, Checked(fd)
      PROVE  IInv'
  BY <1>1, <1>3, CheckMovesIInv
<1>4. \/ \E c \in Backlog : sockets[fd] = "listener" /\ Accept(c)
      \/ UNCHANGED sockets /\ Checked(fd)
  BY DEF tcp_server_handle_listner_socket, AcceptRefused, network
<1> QED BY <1>2, <1>3, <1>4

(* A chunk of a connection goes to the slot of its own descriptor.         *)
LEMMA ReceiveIInv ==
  ASSUME IInv, NEW fd \in Fd, tcp.at = "check", sockets[fd] \in Conn, Receive(fd),
         Checked(fd), UNCHANGED callback
  PROVE  IInv'
<1> DEFINE new == ParserAfter(fd, inbox[sockets[fd]])
<1>1. /\ protocol_parser' = [protocol_parser EXCEPT ![fd] = new]
      /\ UNCHANGED <<sockets, fdset_listners, fdset_clients, fdset_all, max_fd,
                     num_of_socket, callback>>
  BY DEF Receive, table
<1>2. TaskTyped' /\ ~tcp'.add /\ ~tcp.add /\ tcp'.at = "check"
  <2>1. tcp.fds \ {fd} \in SUBSET Fd /\ ~tcp.add
    BY DEF IInv, Typed, TaskTyped, TaskRecord, UpdateSteps
  <2> QED BY <2>1, LoopTyped DEF Checked, LoopSteps
<1>3. new \subseteq {sockets[fd]} /\ new \in SUBSET Conn
  BY <1>2 DEF ParserAfter, IInv, ParserOfOneConnection, BeingAdded
<1> HIDE DEF new
<1>4. protocol_parser' \in [Fd -> SUBSET Conn]
  BY <1>1, <1>3 DEF IInv, Typed
<1>5. Typed' /\ ListenerAtZero'
  BY <1>1, <1>2, <1>4 DEF IInv, Typed, TableTyped, ListenerAtZero
<1>6. ParserOfOneConnection'
  BY <1>1, <1>2, <1>3 DEF IInv, Typed, ParserOfOneConnection, BeingAdded
<1>7. ZeroState' /\ CallbackInv'
  BY <1>1 DEF IInv, ZeroState, CallbackInv
<1> QED BY <1>5, <1>6, <1>7 DEF IInv

(* Closing a client's descriptor touches neither descriptor 0 nor what the *)
(* callback holds.                                                         *)
LEMMA CloseClientIInv ==
  ASSUME IInv, NEW fd \in Fd, tcp.at = "check", fd \in fdset_clients, CloseClient(fd),
         UNCHANGED <<table, callback>>
  PROVE  IInv'
<1> USE ZeroIsFd, ConnIsNoState
<1>1. /\ sockets' = [sockets EXCEPT ![fd] = IF @ = "deleting" THEN "deleting" ELSE "free"]
      /\ UNCHANGED protocol_parser
      /\ Updating(fd, FALSE)
  BY DEF CloseClient
<1>2. fd # 0 /\ ~tcp.add
  BY DEF IInv, Typed, TableTyped, TaskTyped, UpdateSteps
<1>3. TaskTyped' /\ ~tcp'.add
  BY <1>1, UpdatingTyped
<1>4. /\ sockets'[fd] \in {"deleting", "free"}
      /\ \A other \in Fd : other # fd => sockets'[other] = sockets[other]
      /\ sockets'[0] = sockets[0]
  BY <1>1, <1>2 DEF IInv, Typed
<1>5. Typed'
  <2>1. sockets' \in [Fd -> SocketStates]
    BY <1>1 DEF IInv, Typed, SocketStates
  <2> QED BY <1>1, <1>3, <2>1 DEF IInv, Typed, TableTyped, table
<1>6. ListenerAtZero' /\ ZeroState'
  BY <1>4 DEF IInv, ListenerAtZero, ZeroState
<1>7. ParserOfOneConnection'
  BY <1>1, <1>2, <1>4 DEF IInv, ParserOfOneConnection, BeingAdded
<1>8. CallbackInv'
  BY <1>4 DEF IInv, CallbackInv
<1> QED BY <1>5, <1>6, <1>7, <1>8 DEF IInv

(* A client that is ready: bytes for its parser, or its end.               *)
LEMMA ConnectedIInv ==
  ASSUME IInv, NEW fd \in Fd, tcp_server_handle_connected_socket(fd)
  PROVE  IInv'
<1>1. /\ UNCHANGED <<table, callback>> /\ tcp.at = "check" /\ fd \in fdset_clients
  BY DEF tcp_server_handle_connected_socket, Selected, IsClient
<1>2. \/ sockets[fd] \in Conn /\ Receive(fd) /\ Checked(fd)
      \/ CloseClient(fd)
      \/ UNCHANGED <<sockets, protocol_parser>> /\ Checked(fd)
  BY DEF tcp_server_handle_connected_socket, network
<1> QED BY <1>1, <1>2, ReceiveIInv, CloseClientIInv, CheckMovesIInv

(* The steps that write the table keep its types; only a client's          *)
(* descriptor enters fdset_clients.                                        *)
LEMMA UpdateStepIInv ==
  ASSUME IInv, TaskLoadAll \/ TaskStoreAll \/ TaskStoreMax \/ TaskLoadNum
  PROVE  IInv'
<1> USE ZeroIsFd
<1>1. /\ UNCHANGED <<sockets, protocol_parser, callback, fdset_listners, num_of_socket>>
      /\ tcp.at # "select"
  BY DEF TaskLoadAll, TaskStoreAll, TaskStoreMax, TaskLoadNum, TaskStep, network, table
<1>2. /\ tcp \in TaskRecord
      /\ tcp.add => tcp.fd # 0
      /\ tcp.fd \in Fd /\ tcp.old \in SUBSET Fd /\ fdset_all \in SUBSET Fd
      /\ num_of_socket \in Int
  BY DEF IInv, Typed, TaskTyped, TableTyped, TaskRecord
<1>3. \/ tcp' = [tcp EXCEPT !.at = "store_all", !.old = fdset_all]
      \/ tcp' = [tcp EXCEPT !.at = "store_max"]
      \/ tcp' = [tcp EXCEPT !.at = "load_num"]
      \/ tcp' = [tcp EXCEPT !.at = "store_num", !.num = num_of_socket]
  BY DEF TaskLoadAll, TaskStoreAll, TaskStoreMax, TaskLoadNum, TaskStep
<1>4. /\ tcp' \in TaskRecord /\ tcp'.at \in UpdateSteps
      /\ tcp'.add = tcp.add /\ tcp'.fd = tcp.fd
  BY <1>2, <1>3 DEF TaskRecord, UpdateSteps
<1>5. TaskTyped'
  BY <1>2, <1>4 DEF TaskTyped
<1>6. TableTyped'
  <2>1. fdset_clients' \subseteq Fd \ {0}
    BY <1>2 DEF TaskLoadAll, TaskStoreAll, TaskStoreMax, TaskLoadNum, Updated, table,
                IInv, Typed, TableTyped
  <2>2. fdset_all' \subseteq Fd
    BY <1>2 DEF TaskLoadAll, TaskStoreAll, TaskStoreMax, TaskLoadNum, Updated, table
  <2>3. max_fd' \in Fd \cup {-1}
    BY <1>2 DEF TaskLoadAll, TaskStoreAll, TaskStoreMax, TaskLoadNum, table, IInv, Typed,
                TableTyped
  <2> QED BY <1>1, <2>1, <2>2, <2>3 DEF IInv, Typed, TableTyped
<1> QED BY <1>1, <1>4, <1>5, <1>6, TaskMovesIInv

(* The last of them empties the slot of the socket.                        *)
LEMMA UpdateEndsIInv ==
  ASSUME IInv, TaskStoreNum
  PROVE  IInv'
<1>1. /\ UNCHANGED <<sockets, callback, fdset_listners, fdset_clients, fdset_all, max_fd>>
      /\ protocol_parser' = [protocol_parser EXCEPT ![tcp.fd] = {}]
      /\ TaskAt("check", tcp.fds) /\ tcp.at = "store_num"
  BY DEF TaskStoreNum, ParserReset, network
<1>2. tcp.fds \in SUBSET Fd /\ tcp.fd \in Fd /\ tcp.num \in Int /\ tcp.add \in BOOLEAN
  BY DEF IInv, Typed, TaskTyped, TaskRecord
<1>3. TaskTyped' /\ ~tcp'.add
  BY <1>1, <1>2, LoopTyped DEF LoopSteps
<1>4. num_of_socket' \in Int
  <2>1. (tcp.num + 1) % CountValues \in Int
    BY <1>2, TcpAssumption DEF TcpAssumption
  <2>2. CASE tcp.add
    BY <2>1, <2>2 DEF TaskStoreNum
  <2>3. CASE ~tcp.add
    BY <1>2, <2>3 DEF TaskStoreNum
  <2> QED BY <2>2, <2>3
<1>5. Typed'
  BY <1>1, <1>3, <1>4 DEF IInv, Typed, TableTyped
<1>6. ListenerAtZero' /\ CallbackInv'
  BY <1>1 DEF IInv, ListenerAtZero, CallbackInv
<1>7. ZeroState'
  BY <1>1 DEF IInv, ZeroState
<1>8. ParserOfOneConnection'
  BY <1>1, <1>2 DEF IInv, Typed, ParserOfOneConnection, BeingAdded
<1> QED BY <1>5, <1>6, <1>7, <1>8 DEF IInv

(* All steps of the TCP task.                                              *)
LEMMA TcpTaskIInv ==
  ASSUME IInv, TcpTask
  PROVE  IInv'
<1>1. ASSUME CheckDone PROVE IInv'
  BY <1>1, CheckMovesIInv DEF CheckDone, network
<1>2. ASSUME NEW fd \in Fd, CheckSkipped(fd) PROVE IInv'
  BY <1>2, CheckMovesIInv DEF CheckSkipped, Selected, network
<1> QED BY <1>1, <1>2, TaskIInv, SelectIInv, ListenerIInv, ConnectedIInv, UpdateStepIInv,
           UpdateEndsIInv DEF TcpTask

-----------------------------------------------------------------------------
(* The callback.                                                           *)

(* Steps in which only the callback moves on.                              *)
LEMMA CallbackMovesIInv ==
  ASSUME IInv, UNCHANGED <<sockets, table, protocol_parser, tcp>>,
         callback' \in CallbackRecord, CallbackInv', ZeroState'
  PROVE  IInv'
BY DEF IInv, Typed, ListenerAtZero, ParserOfOneConnection, BeingAdded,
       TableTyped, TaskTyped, table

(* The callback ends where it holds nothing of the table.                  *)
LEMMA CallbackDoneIInv ==
  ASSUME IInv, CallbackDone, callback.at # "free",
         UNCHANGED <<sockets, fdset_listners, fdset_clients, fdset_all, max_fd,
                     protocol_parser, tcp>>,
         num_of_socket' \in Int
  PROVE  IInv'
<1>1. callback' = NoCallback /\ callback'.at = "idle"
  BY NoCallbackType DEF CallbackDone
<1>2. Typed'
  BY <1>1, NoCallbackType DEF IInv, Typed, TableTyped, TaskTyped
<1>3. ListenerAtZero' /\ ParserOfOneConnection'
  BY DEF IInv, ListenerAtZero, ParserOfOneConnection, BeingAdded
<1>4. ZeroState'
  BY <1>1 DEF IInv, ZeroState
<1>5. CallbackInv'
  BY <1>1 DEF CallbackInv
<1> QED BY <1>2, <1>3, <1>4, <1>5 DEF IInv

(* The callback begins while the TCP task waits: without a listener,       *)
(* descriptor 0 is then free.                                              *)
LEMMA CallbackBeginsIInv ==
  ASSUME IInv, NEW who \in Callers, tcp_server_lwip_port_callback(who)
  PROVE  IInv'
<1> USE ZeroIsFd, ConnIsNoState
<1>1. /\ callback = NoCallback /\ callback.at = "idle" /\ TcpWaits
      /\ UNCHANGED <<sockets, table, protocol_parser, tcp>>
  BY NoCallbackType DEF tcp_server_lwip_port_callback, network
<1>2. PICK seen \in BOOLEAN :
        callback' = [at |-> "lookup", who |-> who, event |-> want[who], fd |-> 0,
                     old |-> {}, num |-> max_fd, seen |-> seen]
  BY DEF tcp_server_lwip_port_callback
<1>3. /\ callback' \in CallbackRecord
      /\ callback'.at = "lookup" /\ callback'.fd = 0
  <2>1. want[who] \in {"UP", "DOWN"} /\ max_fd \in Int /\ 0 \in 0..MEMP_NUM_NETCONN
    BY TcpAssumption DEF tcp_server_lwip_port_callback, IInv, Typed, TableTyped, TcpAssumption
  <2> QED BY <1>2, <2>1 DEF CallbackRecord, CallbackSteps
<1>4. ZeroState'
  BY <1>1 DEF IInv, ZeroState
<1>5. sockets[0] # "listener" => sockets[0] = "free"
  <2> SUFFICES ASSUME sockets[0] = "closed" PROVE FALSE
    BY <1>1 DEF IInv, Typed, SocketStates, ListenerAtZero, ZeroState
  <2>1. tcp.at = "select" /\ 0 \in tcp.fds /\ ~Valid(0)
    BY DEF IInv, ZeroState, Valid
  <2> QED BY <1>1, <2>1 DEF TcpWaits, Selected
<1>6. CallbackInv'
  BY <1>1, <1>3, <1>5 DEF CallbackInv
<1> QED BY <1>1, <1>3, <1>4, <1>6, CallbackMovesIInv

(* The look-up.                                                            *)
LEMMA LookupIInv ==
  ASSUME IInv, tcp_server_get_socket_by_ip_address
  PROVE  IInv'
<1> USE ZeroIsFd, ConnIsNoState
<1>1. /\ UNCHANGED <<sockets, table, protocol_parser, tcp>>
      /\ UNCHANGED <<sockets, fdset_listners, fdset_clients, fdset_all, max_fd,
                     protocol_parser, tcp, num_of_socket>>
  BY DEF tcp_server_get_socket_by_ip_address, network, table
<1>2. callback.at = "lookup" /\ callback \in CallbackRecord
  BY DEF tcp_server_get_socket_by_ip_address, LookupEnds, LookAt, IInv, Typed
<1>3. ASSUME CallbackDone PROVE IInv'
  <2>1. num_of_socket' \in Int
    BY <1>1 DEF IInv, Typed, TableTyped, TaskTyped
  <2> QED BY <1>1, <1>2, <1>3, <2>1, CallbackDoneIInv
<1>4. ASSUME callback' = [callback EXCEPT !.at = "create"], callback.event = "UP"
      PROVE  IInv'
  <2>1. /\ callback' \in CallbackRecord /\ callback'.at = "create"
        /\ callback'.event = "UP" /\ callback'.fd = callback.fd
    BY <1>2, <1>4 DEF CallbackRecord, CallbackSteps
  <2>2. ZeroState'
    BY <1>1, <1>2, <2>1 DEF IInv, ZeroState
  <2>3. CallbackInv'
    BY <1>1, <1>2, <1>4, <2>1 DEF IInv, CallbackInv
  <2> QED BY <1>1, <2>1, <2>2, <2>3, CallbackMovesIInv
<1>5. ASSUME NEW fd \in Fd, fd = callback.fd, callback.seen, HasLocalAddress(fd),
             callback.event = "DOWN", callback' = [callback EXCEPT !.at = "close"]
      PROVE  IInv'
  <2>1. /\ callback' \in CallbackRecord /\ callback'.at = "close"
        /\ callback'.event = "DOWN" /\ callback'.fd = callback.fd
    BY <1>2, <1>5 DEF CallbackRecord, CallbackSteps
  <2>2. ZeroState'
    BY <1>1, <1>2, <2>1 DEF IInv, ZeroState
  <2>3. CallbackInv'
    BY <1>1, <1>2, <1>5, <2>1 DEF IInv, CallbackInv
  <2> QED BY <1>1, <2>1, <2>2, <2>3, CallbackMovesIInv
<1>6. ASSUME NEW fd \in Fd, fd = callback.fd, ~(callback.seen /\ HasLocalAddress(fd)),
             callback' = [callback EXCEPT !.fd = fd + 1]
      PROVE  IInv'
  <2>0. fd + 1 \in 0..MEMP_NUM_NETCONN
    BY TcpAssumption DEF Fd, TcpAssumption
  <2>1. /\ callback' \in CallbackRecord /\ callback'.at = "lookup"
        /\ callback'.event = callback.event /\ callback'.seen = callback.seen
    BY <1>2, <1>6, <2>0 DEF CallbackRecord
  <2>2. ZeroState'
    BY <1>1, <1>2, <2>1 DEF IInv, ZeroState
  <2>3. callback.event = "DOWN" /\ callback.seen => sockets[0] # "listener"
    <3>1. CASE fd = 0
      BY <1>6, <3>1 DEF HasLocalAddress
    <3>2. CASE fd # 0
      BY <1>2, <1>6, <3>2 DEF IInv, CallbackInv
    <3> QED BY <3>1, <3>2
  <2>4. CallbackInv'
    BY <1>1, <1>2, <2>1, <2>3 DEF IInv, CallbackInv
  <2> QED BY <1>1, <2>1, <2>2, <2>4, CallbackMovesIInv
<1>7. CASE LookupEnds
  BY <1>3, <1>4, <1>7 DEF LookupEnds, CallbackAt
<1>8. ASSUME NEW fd \in Fd, LookAt(fd) PROVE IInv'
  BY <1>3, <1>5, <1>6, <1>8 DEF LookAt, CallbackAt
<1> QED BY <1>7, <1>8 DEF tcp_server_get_socket_by_ip_address

(* The listener is created, at descriptor 0.                               *)
LEMMA CreateIInv ==
  ASSUME IInv, tcp_server_create_new_listner_socket
  PROVE  IInv'
<1> USE ZeroIsFd, ConnIsNoState
<1>1. /\ UNCHANGED <<fdset_listners, fdset_clients, fdset_all, max_fd, num_of_socket,
                     protocol_parser, tcp>>
      /\ callback.at = "create"
  BY DEF tcp_server_create_new_listner_socket, table
<1>2. CASE CallbackDone /\ UNCHANGED sockets
  <2>1. num_of_socket' \in Int
    BY <1>1 DEF IInv, Typed, TableTyped, TaskTyped
  <2> QED BY <1>1, <1>2, <2>1, CallbackDoneIInv
<1>3. ASSUME FreeFds # {}, ~(\E fd \in Fd : HasLocalAddress(fd)),
             sockets' = [sockets EXCEPT ![Allocated] = "listener"],
             callback' = [callback EXCEPT !.at = "listed", !.fd = Allocated]
      PROVE  IInv'
  <2>1. sockets[0] # "listener"
    BY <1>3 DEF HasLocalAddress
  <2>2. sockets[0] = "free" /\ callback.event = "UP"
    BY <1>1, <2>1 DEF IInv, CallbackInv
  <2>3. Allocated = 0
    BY <1>3, <2>2, AllocatedIsFree
  <2>4. /\ callback' \in CallbackRecord /\ callback'.at = "listed"
        /\ callback'.event = "UP" /\ callback'.fd = 0
    <3>1. 0 \in 0..MEMP_NUM_NETCONN
      BY TcpAssumption DEF TcpAssumption
    <3> QED BY <1>3, <2>2, <2>3, <3>1 DEF IInv, Typed, CallbackRecord, CallbackSteps
  <2>5. /\ sockets'[0] = "listener"
        /\ \A other \in Fd : other # 0 => sockets'[other] = sockets[other]
    BY <1>3, <2>3 DEF IInv, Typed, TableTyped, TaskTyped
  <2>6. Typed'
    <3>1. sockets' \in [Fd -> SocketStates]
      BY <1>3 DEF IInv, Typed, SocketStates
    <3> QED BY <1>1, <2>4, <3>1 DEF IInv, Typed, TableTyped, TaskTyped
  <2>7. ListenerAtZero' /\ ParserOfOneConnection'
    BY <1>1, <2>5 DEF IInv, ListenerAtZero, ParserOfOneConnection, BeingAdded
  <2>8. ZeroState'
    BY <2>5 DEF ZeroState
  <2>9. CallbackInv'
    BY <1>1, <2>2, <2>4, <2>5 DEF CallbackInv
  <2> QED BY <2>6, <2>7, <2>8, <2>9 DEF IInv
<1> QED BY <1>2, <1>3 DEF tcp_server_create_new_listner_socket

(* The connection is deleted: from here to the end of the callback there   *)
(* is no listener.                                                         *)
LEMMA DeleteIInv ==
  ASSUME IInv, DeleteSocket
  PROVE  IInv'
<1> USE ZeroIsFd, ConnIsNoState
<1>1. /\ UNCHANGED <<fdset_listners, fdset_clients, fdset_all, max_fd, num_of_socket,
                     protocol_parser, tcp>>
      /\ callback.at = "close"
  BY DEF DeleteSocket, table
<1>2. callback.event = "DOWN" /\ callback.fd \in Fd /\ callback \in CallbackRecord
  BY <1>1 DEF IInv, CallbackInv, Typed
<1>3. CASE CallbackDone /\ UNCHANGED sockets
  <2>1. num_of_socket' \in Int
    BY <1>1 DEF IInv, Typed, TableTyped, TaskTyped
  <2> QED BY <1>1, <1>3, <2>1, CallbackDoneIInv
<1>4. ASSUME sockets' = [sockets EXCEPT ![callback.fd] = "deleting"],
             callback' = [callback EXCEPT !.at = "free"]
      PROVE  IInv'
  <2>1. /\ callback' \in CallbackRecord /\ callback'.at = "free"
        /\ callback'.event = "DOWN" /\ callback'.fd = callback.fd
    BY <1>2, <1>4 DEF CallbackRecord, CallbackSteps
  <2>2. /\ sockets'[callback.fd] = "deleting"
        /\ \A other \in Fd : other # callback.fd => sockets'[other] = sockets[other]
    BY <1>2, <1>4 DEF IInv, Typed, TableTyped, TaskTyped
  <2>3. Typed'
    <3>1. sockets' \in [Fd -> SocketStates]
      BY <1>4 DEF IInv, Typed, SocketStates
    <3> QED BY <1>1, <2>1, <3>1 DEF IInv, Typed, TableTyped, TaskTyped
  <2>4. ListenerAtZero' /\ ParserOfOneConnection'
    BY <1>1, <1>2, <2>2 DEF IInv, ListenerAtZero, ParserOfOneConnection, BeingAdded
  <2>5. callback.fd # 0 => sockets[0] # "listener" /\ sockets[0] # "deleting"
    <3>1. callback.fd # 0 => callback.fd > 0
      BY <1>2, TcpAssumption DEF Fd, TcpAssumption
    <3> QED BY <1>1, <1>2, <3>1 DEF IInv, CallbackInv, ZeroState
  <2>6. ZeroState'
    <3>1. CASE callback.fd = 0
      BY <2>1, <2>2, <3>1 DEF ZeroState
    <3>2. CASE callback.fd # 0
      BY <1>1, <2>2, <2>5, <3>2 DEF IInv, ZeroState
    <3> QED BY <3>1, <3>2
  <2>7. CallbackInv'
    BY <1>1, <1>2, <2>1, <2>2, <2>5 DEF CallbackInv
  <2> QED BY <2>3, <2>4, <2>6, <2>7 DEF IInv
<1> QED BY <1>3, <1>4 DEF DeleteSocket, CallbackAt

(* The descriptor is freed, or kept closed by the select that holds it.    *)
LEMMA FreeIInv ==
  ASSUME IInv, FreeSocket
  PROVE  IInv'
<1> USE ZeroIsFd, ConnIsNoState
<1>1. /\ UNCHANGED <<fdset_listners, fdset_clients, fdset_all, max_fd, num_of_socket,
                     protocol_parser, tcp>>
      /\ callback.at = "free"
      /\ sockets' = [sockets EXCEPT ![callback.fd] = Freed(callback.fd)]
      /\ callback' = [callback EXCEPT !.at = "listed"]
  BY DEF FreeSocket, table, CallbackAt
<1>2. /\ callback.event = "DOWN" /\ callback.fd \in Fd /\ callback \in CallbackRecord
  BY <1>1 DEF IInv, CallbackInv, Typed
<1>3. /\ callback' \in CallbackRecord /\ callback'.at = "listed"
      /\ callback'.event = "DOWN" /\ callback'.fd = callback.fd
  BY <1>1, <1>2 DEF CallbackRecord, CallbackSteps
<1>4. /\ sockets'[callback.fd] \in {"free", "closed"}
      /\ sockets'[callback.fd] = "closed" => tcp.at = "select" /\ callback.fd \in tcp.fds
      /\ \A other \in Fd : other # callback.fd => sockets'[other] = sockets[other]
  BY <1>1, <1>2 DEF IInv, Typed, Freed
<1>5. Typed'
  <2>1. sockets' \in [Fd -> SocketStates]
    BY <1>1 DEF IInv, Typed, SocketStates, Freed
  <2> QED BY <1>1, <1>3, <2>1 DEF IInv, Typed, TableTyped, TaskTyped
<1>6. ListenerAtZero' /\ ParserOfOneConnection'
  BY <1>1, <1>2, <1>4 DEF IInv, ListenerAtZero, ParserOfOneConnection, BeingAdded
<1>7. sockets[0] # "listener" /\ sockets'[0] # "listener"
  BY <1>1, <1>2, <1>4 DEF IInv, CallbackInv
<1>8. ZeroState'
  BY <1>1, <1>2, <1>3, <1>4, <1>7 DEF IInv, ZeroState
<1>9. CallbackInv'
  BY <1>1, <1>2, <1>3, <1>4, <1>7 DEF CallbackInv
<1> QED BY <1>5, <1>6, <1>8, <1>9 DEF IInv

(* The listener's set is updated and fdset_all loaded.                     *)
LEMMA UpdateIInv ==
  ASSUME IInv, UpdateListeners
  PROVE  IInv'
<1> USE ZeroIsFd, ConnIsNoState
<1>1. /\ UNCHANGED <<sockets, fdset_clients, fdset_all, max_fd, num_of_socket,
                     protocol_parser, tcp>>
      /\ callback.at = "listed"
      /\ fdset_listners' = Listed(fdset_listners)
      /\ callback' = [callback EXCEPT !.at = "store_all", !.old = fdset_all]
  BY DEF UpdateListeners, network
<1>2. callback.fd \in Fd /\ callback \in CallbackRecord
  BY <1>1 DEF IInv, CallbackInv, Typed
<1>3. /\ callback' \in CallbackRecord /\ callback'.at = "store_all"
      /\ callback'.event = callback.event /\ callback'.fd = callback.fd
      /\ callback'.old = fdset_all
  <2>1. fdset_all \in SUBSET Fd
    BY DEF IInv, Typed, TableTyped, TaskTyped
  <2> QED BY <1>1, <1>2, <2>1 DEF CallbackRecord, CallbackSteps
<1>4. Typed'
  <2>1. fdset_listners' \subseteq {0}
    BY <1>1 DEF Listed, IInv, Typed, TableTyped, CallbackInv
  <2> QED BY <1>1, <1>3, <2>1 DEF IInv, Typed, TableTyped, TaskTyped
<1>5. ListenerAtZero' /\ ParserOfOneConnection'
  BY <1>1 DEF IInv, ListenerAtZero, ParserOfOneConnection, BeingAdded
<1>6. ZeroState'
  BY <1>1, <1>3 DEF IInv, ZeroState
<1>7. CallbackInv'
  BY <1>1, <1>2, <1>3 DEF IInv, CallbackInv
<1> QED BY <1>4, <1>5, <1>6, <1>7 DEF IInv

(* fdset_all is stored back.                                               *)
LEMMA StoreAllIInv ==
  ASSUME IInv, StoreAll
  PROVE  IInv'
<1> USE ZeroIsFd, ConnIsNoState
<1> DEFINE next == IF callback.event = "UP" /\ callback.fd > max_fd THEN "store_max"
                   ELSE "load_num"
<1>1. /\ UNCHANGED <<sockets, fdset_listners, fdset_clients, max_fd, num_of_socket,
                     protocol_parser, tcp>>
      /\ callback.at = "store_all"
      /\ fdset_all' = Listed(callback.old)
      /\ callback' = [callback EXCEPT !.at = next]
  BY DEF StoreAll, network, CallbackAt
<1>2. /\ callback.fd \in Fd /\ callback \in CallbackRecord /\ callback.old \subseteq Fd
      /\ callback.event \in {"UP", "DOWN"}
  BY <1>1 DEF IInv, CallbackInv, Typed, CallbackRecord
<1>3. /\ next = "store_max" => callback.event = "UP" /\ callback.fd > max_fd
      /\ next \in {"store_max", "load_num"}
  OBVIOUS
<1> HIDE DEF next
<1>4. /\ callback' \in CallbackRecord /\ callback'.at = next
      /\ callback'.event = callback.event /\ callback'.fd = callback.fd
  BY <1>1, <1>2, <1>3 DEF CallbackRecord, CallbackSteps
<1>5. Typed'
  <2>1. fdset_all' \subseteq Fd
    BY <1>1, <1>2 DEF Listed
  <2> QED BY <1>1, <1>4, <2>1 DEF IInv, Typed, TableTyped, TaskTyped
<1>6. ListenerAtZero' /\ ParserOfOneConnection'
  BY <1>1 DEF IInv, ListenerAtZero, ParserOfOneConnection, BeingAdded
<1>7. ZeroState'
  BY <1>1, <1>3, <1>4 DEF IInv, ZeroState
<1>8. CallbackInv'
  BY <1>1, <1>2, <1>3, <1>4 DEF IInv, CallbackInv
<1> QED BY <1>5, <1>6, <1>7, <1>8 DEF IInv

(* max_fd is stored: the listener's descriptor.                            *)
LEMMA StoreMaxIInv ==
  ASSUME IInv, StoreMax
  PROVE  IInv'
<1> USE ZeroIsFd, ConnIsNoState
<1>1. /\ UNCHANGED <<sockets, fdset_listners, fdset_clients, fdset_all, num_of_socket,
                     protocol_parser, tcp>>
      /\ callback.at = "store_max" /\ max_fd' = callback.fd
      /\ callback' = [callback EXCEPT !.at = "load_num"]
  BY DEF StoreMax, network, CallbackAt
<1>2. /\ callback.fd = 0 /\ callback.event = "UP" /\ callback \in CallbackRecord
  BY <1>1 DEF IInv, CallbackInv, Typed
<1>3. /\ callback' \in CallbackRecord /\ callback'.at = "load_num"
      /\ callback'.event = "UP" /\ callback'.fd = 0
  BY <1>1, <1>2 DEF CallbackRecord, CallbackSteps
<1>4. Typed'
  BY <1>1, <1>2, <1>3 DEF IInv, Typed, TableTyped, TaskTyped
<1>5. ListenerAtZero' /\ ParserOfOneConnection'
  BY <1>1 DEF IInv, ListenerAtZero, ParserOfOneConnection, BeingAdded
<1>6. ZeroState'
  BY <1>1, <1>3 DEF IInv, ZeroState
<1>7. CallbackInv'
  BY <1>3, ZeroIsFd DEF CallbackInv
<1> QED BY <1>4, <1>5, <1>6, <1>7 DEF IInv

(* The callback reads the count of sockets.                                *)
LEMMA LoadNumIInv ==
  ASSUME IInv, LoadNum
  PROVE  IInv'
<1>1. /\ UNCHANGED <<sockets, table, protocol_parser, tcp>> /\ callback.at = "load_num"
      /\ UNCHANGED <<sockets, fdset_all, tcp>>
      /\ callback' = [callback EXCEPT !.at = "store_num", !.num = num_of_socket]
  BY DEF LoadNum, network, table
<1>2. /\ callback' \in CallbackRecord /\ callback'.at = "store_num"
      /\ callback'.fd = callback.fd /\ callback.fd \in Fd
  <2>1. num_of_socket \in Int /\ callback \in CallbackRecord /\ callback.fd \in Fd
    BY <1>1 DEF IInv, Typed, TableTyped, CallbackInv
  <2> QED BY <1>1, <2>1 DEF CallbackRecord, CallbackSteps
<1>3. ZeroState' /\ CallbackInv'
  BY <1>1, <1>2 DEF IInv, ZeroState, CallbackInv
<1> QED BY <1>1, <1>2, <1>3, CallbackMovesIInv

(* The callback writes the count back and is done.                         *)
LEMMA StoreNumIInv ==
  ASSUME IInv, StoreNum
  PROVE  IInv'
<1>1. num_of_socket' \in Int
  <2>1. /\ CountValues \in Nat /\ CountValues > 0
        /\ (callback.num + IF callback.event = "UP" THEN 1 ELSE CountValues - 1) \in Int
    BY TcpAssumption DEF IInv, Typed, CallbackRecord, TcpAssumption
  <2> QED BY <2>1 DEF StoreNum
<1> QED BY <1>1, CallbackDoneIInv DEF StoreNum, network

(* All steps of the netif callback.                                        *)
LEMMA CallbackIInv ==
  ASSUME IInv, Callback
  PROVE  IInv'
<1>1. um_lwip_port_netif_set_netif_state \/ lwip_port_user_main => IInv'
  BY FrameIInv DEF um_lwip_port_netif_set_netif_state, lwip_port_user_main, network
<1> QED BY <1>1, CallbackBeginsIInv, LookupIInv, CreateIInv, DeleteIInv, FreeIInv,
           UpdateIInv, StoreAllIInv, StoreMaxIInv, LoadNumIInv, StoreNumIInv DEF Callback

(* Every step of the server and of its clients keeps the invariant.        *)
LEMMA NextIInv ==
  ASSUME IInv, [Next]_vars
  PROVE  IInv'
<1>1. Clients => IInv'
  BY FrameIInv DEF Clients, Connect, Send, Disconnect
<1>2. UNCHANGED vars => IInv'
  BY FrameIInv DEF vars, network
<1> QED BY <1>1, <1>2, TcpTaskIInv, CallbackIInv DEF Next

-----------------------------------------------------------------------------
(* The theorems.                                                           *)

(* IInv holds in every reachable state.                                    *)
THEOREM IInvariant == Spec => []IInv
<1>1. Init => IInv
  BY InitIInv
<1>2. IInv /\ [Next]_vars => IInv'
  BY NextIInv
<1> QED BY <1>1, <1>2, PTL DEF Spec

(* What keeps the TCP task from the listener although the table it works   *)
(* from may be stale: the listener of lwip_port_main.c always gets         *)
(* descriptor 0 and no client ever does, over every order of accepts,      *)
(* closes and callbacks.                                                   *)
THEOREM ListenerGetsZero == Spec => []ListenerAtZero
<1>1. IInv => ListenerAtZero
  BY DEF IInv
<1> QED BY <1>1, IInvariant, PTL

(* A parser slot holds bytes of the connection on its descriptor only.     *)
THEOREM OneConnectionPerParser == Spec => []ParserOfOneConnection
<1>1. IInv => ParserOfOneConnection
  BY DEF IInv
<1> QED BY <1>1, IInvariant, PTL

(* Only the callback closes the listener.                                  *)
THEOREM ListenerSurvivesTask == Spec => ListenerClosedByCallbackOnly
<1>1. ASSUME IInv, [Next]_vars
      PROVE  [\A fd \in Fd : sockets[fd] = "listener" /\ sockets'[fd] # "listener" =>
                callback.at = "close" /\ callback.fd = fd]_vars
  <2> USE ZeroIsFd, ConnIsNoState
  <2> SUFFICES ASSUME Next, NEW fd \in Fd, sockets[fd] = "listener",
                      sockets'[fd] # "listener"
               PROVE  callback.at = "close" /\ callback.fd = fd
    BY <1>1
  <2>0. fd = 0 /\ sockets \in [Fd -> SocketStates]
    BY <1>1 DEF IInv, ListenerAtZero, Typed
  <2>1. ASSUME NEW g \in Fd, tcp_server_handle_listner_socket(g)
        PROVE  FALSE
    <3>1. ASSUME NEW d, Accept(d) PROVE FALSE
      <4>1. Allocated \in Fd /\ Allocated # fd
        BY <3>1, AllocatedIsFree DEF Accept
      <4> QED BY <2>0, <3>1, <4>1 DEF Accept
    <3> QED BY <2>1, <3>1 DEF tcp_server_handle_listner_socket, AcceptRefused, network
  <2>2. ASSUME NEW g \in Fd, tcp_server_handle_connected_socket(g)
        PROVE  FALSE
    <3>1. g # 0
      BY <1>1, <2>2 DEF tcp_server_handle_connected_socket, IsClient, IInv, Typed, TableTyped
    <3> QED BY <2>0, <2>2, <3>1
      DEF tcp_server_handle_connected_socket, Receive, CloseClient, network
  <2>3. ~lwip_select
    BY <2>0 DEF lwip_select, Released
  <2>4. ~TcpTask
    BY <2>1, <2>2, <2>3 DEF TcpTask, tcp_server_task, CheckDone, CheckSkipped,
        TaskLoadAll, TaskStoreAll, TaskStoreMax, TaskLoadNum, TaskStoreNum, network
  <2>5. ~tcp_server_create_new_listner_socket
    <3>1. FreeFds # {} => Allocated \in Fd /\ Allocated # fd
      BY AllocatedIsFree
    <3> QED BY <2>0, <3>1 DEF tcp_server_create_new_listner_socket
  <2>6. ~FreeSocket
    BY <1>1, <2>0 DEF FreeSocket, IInv, CallbackInv
  <2>7. ASSUME DeleteSocket
        PROVE  callback.at = "close" /\ callback.fd = fd
    BY <2>0, <2>7 DEF DeleteSocket
  <2>8. ~Clients
    BY DEF Clients, Connect, Send, Disconnect
  <2> QED BY <2>4, <2>5, <2>6, <2>7, <2>8
    DEF Next, Callback, um_lwip_port_netif_set_netif_state, lwip_port_user_main,
        tcp_server_lwip_port_callback, tcp_server_get_socket_by_ip_address,
        UpdateListeners, StoreAll, StoreMax, LoadNum, StoreNum, network
<1> QED BY <1>1, IInvariant, PTL DEF Spec, ListenerClosedByCallbackOnly

=============================================================================
