------------------------------- MODULE NicDrv -------------------------------
(***************************************************************************)
(* The port layer under SOEM (nicdrv.c) and the two ways the SOEM task     *)
(* uses it: a blocking service (ecx_BRD and its kin: index, send,          *)
(* ecx_srconfirm, release) and the cyclic exchange of process data         *)
(* (ecx_main_send_processdata, ecx_receive_processdata_group).             *)
(*                                                                         *)
(* Three actors: the SOEM task; the bus, which loses and delays frames but *)
(* keeps their order; and the Ethernet reader task, which runs             *)
(* ethercat_netif_callback and puts frames into the ring s_rx_queue under  *)
(* a mutex, at any time.                                                   *)
(*                                                                         *)
(* A frame is its datagram index, its command and its working counter;     *)
(* `serial', which the program does not have, tells which request it       *)
(* answers.  The SOEM task is the only one that takes frames out, so a     *)
(* wait is one step: it takes the frame there is, or times out because     *)
(* there is none.                                                          *)
(***************************************************************************)
EXTENDS Integers, Sequences

CONSTANTS
  EC_MAXBUF,               \* indices 0..EC_MAXBUF-1, 0 standing for "none free"
  ETHERCAT_RX_QUEUE_SIZE,
  Segments,                \* frames the process data of one cycle takes
  Wkcs,                    \* working counters the slaves may answer with
  ExpectedWkc,             \* of a cycle all slaves took part in
  WireDelay,               \* requests a frame may be late by and still arrive
  MaxRequests              \* bound on the requests sent

(* The last conjunct: an index comes round again only after every late     *)
(* frame with it is gone.  EC_MAXBUF is 16, and the process data of an     *)
(* axis takes 30 of the 1486 bytes of a frame.                             *)
ASSUME NicAssumption ==
  /\ EC_MAXBUF \in Nat /\ EC_MAXBUF > 1
  /\ ETHERCAT_RX_QUEUE_SIZE \in Nat \ {0}
  /\ Segments \in 1..(EC_MAXBUF - 1)
  /\ Wkcs \subseteq Nat
  /\ ExpectedWkc \in Nat
  /\ WireDelay \in Nat
  /\ MaxRequests \in Nat
  /\ Segments + WireDelay < EC_MAXBUF - 1

VARIABLES
  port,    \* ecx_port: rxbufstat, rxbuf and lastidx
  rx,      \* s_rx_queue, s_rx_head, s_rx_tail, s_rx_count
  wire,    \* frames under way, oldest first
  soem,    \* what the SOEM task is doing, and its idxstack
  image,   \* serials of the frames the inputs were copied from, by segment
  wkc,     \* what the last receive returned
  sent     \* serial of the last request

vars == <<port, rx, wire, soem, image, wkc, sent>>

Indices == 0..(EC_MAXBUF - 1)
EC_NOFRAME == -1
NoFrame == [idx |-> 0, cmd |-> "NOP", serial |-> 0, wkc |-> 0]

-----------------------------------------------------------------------------
(* The ring of received frames.                                            *)

Step(i) == (i + 1) % ETHERCAT_RX_QUEUE_SIZE

(* Mutant: a full ring forgets to give up its oldest frame.                *)
push_keeps_tail(q, frame) ==
  [queue |-> [q.queue EXCEPT ![q.head] = frame], head |-> Step(q.head),
   tail |-> q.tail,
   count |-> IF q.count >= ETHERCAT_RX_QUEUE_SIZE THEN q.count ELSE q.count + 1]

(* A full ring drops its oldest frame.                                     *)
ethercat_rx_queue_push(q, frame) ==
  LET full == q.count >= ETHERCAT_RX_QUEUE_SIZE
  IN [queue |-> [q.queue EXCEPT ![q.head] = frame], head |-> Step(q.head),
      tail |-> IF full THEN Step(q.tail) ELSE q.tail,
      count |-> IF full THEN q.count ELSE q.count + 1]

ethercat_rx_queue_pop(q) == [q EXCEPT !.tail = Step(q.tail), !.count = q.count - 1]

-----------------------------------------------------------------------------
(* Indices and frames: ecx_getindex, ecx_outframe, ecx_waitinframe.        *)

(* The k-th index tried after lastidx; 0 is never tried.                   *)
Candidate(p, k) == ((p.lastidx + k - 1) % (EC_MAXBUF - 1)) + 1
Free(p, k) == p.rxbufstat[Candidate(p, k)] = "EMPTY"

(* Mutant: the search always begins at index 1.                            *)
getindex_lowest(p) ==
  LET free == {i \in 1..(EC_MAXBUF - 1) : p.rxbufstat[i] = "EMPTY"}
  IN IF free = {} THEN 0 ELSE CHOOSE i \in free : \A j \in free : i <= j

ecx_getindex(p) ==
  LET tries == {k \in 1..(EC_MAXBUF - 1) : Free(p, k)}
  IN IF tries = {} THEN 0
     ELSE Candidate(p, CHOOSE k \in tries : \A j \in tries : k <= j)

(* Taking the index, and sending the frame: the buffer is marked TX        *)
(* whether the driver accepted the frame or not.                           *)
ecx_outframe(p, idx) ==
  [p EXCEPT !.rxbufstat[idx] = "TX", !.lastidx = IF idx = 0 THEN p.lastidx ELSE idx]

ecx_setbufstat(p, idx, bufstat) == [p EXCEPT !.rxbufstat[idx] = bufstat]

(* Port and ring after ecx_waitinframe: one frame at most is taken, the    *)
(* one that came first, and is kept if its index is being waited for,      *)
(* whichever index that is.                                                *)
Matches(p, frame) == frame.idx > 0 /\ p.rxbufstat[frame.idx] \in {"TX", "ALLOC"}

ecx_waitinframe(p, q, idx) ==
  LET frame == q.queue[q.tail]
  IN IF p.rxbufstat[idx] = "RCVD" \/ q.count = 0 THEN [port |-> p, rx |-> q]
     ELSE [port |-> IF Matches(p, frame)
                    THEN [p EXCEPT !.rxbuf[frame.idx] = frame,
                                   !.rxbufstat[frame.idx] = "RCVD"]
                    ELSE p,
           rx |-> ethercat_rx_queue_pop(q)]

-----------------------------------------------------------------------------
(* The bus and the reader task.                                            *)

(* A frame leaves, or is lost at once when the driver refuses it; the k    *)
(* oldest frames, under way for too long, will never come.                 *)
Leaves(frame) ==
  \E k \in 0..Len(wire) :
    LET young == SubSeq(wire, k + 1, Len(wire))
    IN /\ \A n \in 1..Len(wire) : wire[n].serial + WireDelay >= frame.serial <=> n > k
       /\ wire' \in {young, Append(young, frame)}

Loses ==
  /\ wire # <<>>
  /\ wire' = Tail(wire)
  /\ UNCHANGED <<port, rx, soem, image, wkc, sent>>

(* ethercat_netif_callback for an EtherCAT frame of the master's port.     *)
ethercat_netif_callback ==
  /\ wire # <<>>
  /\ rx' = ethercat_rx_queue_push(rx, Head(wire))
  /\ wire' = Tail(wire)
  /\ UNCHANGED <<port, soem, image, wkc, sent>>

-----------------------------------------------------------------------------
(* A blocking service of ethercatbase.c.                                   *)

Idle == [pc |-> "idle", waited |-> FALSE, idxstack |-> <<>>]

(* The request with index idx, answered with one of the Wkcs.              *)
Sends(idx, cmd) ==
  /\ sent < MaxRequests
  /\ sent' = sent + 1
  /\ port' = ecx_outframe(port, idx)
  /\ \E w \in Wkcs : Leaves([idx |-> idx, cmd |-> cmd, serial |-> sent + 1, wkc |-> w])

ServiceSends ==
  /\ soem.pc = "idle"
  /\ LET idx == ecx_getindex(port)
     IN /\ Sends(idx, "service")
        /\ soem' = [pc |-> "srconfirm", waited |-> FALSE, idxstack |-> <<idx>>]
  /\ UNCHANGED <<rx, image, wkc>>

(* One wait of ecx_srconfirm.                                              *)
ServiceWaits ==
  /\ soem.pc = "srconfirm"
  /\ port.rxbufstat[soem.idxstack[1]] # "RCVD"
  /\ LET after == ecx_waitinframe(port, rx, soem.idxstack[1])
     IN port' = after.port /\ rx' = after.rx
  /\ soem' = [soem EXCEPT !.waited = TRUE]
  /\ UNCHANGED <<wire, image, wkc, sent>>

Releases(idx) == port' = ecx_setbufstat(port, idx, "EMPTY")

(* The answer is there and is returned.                                    *)
ServiceConfirmed ==
  /\ soem.pc = "srconfirm"
  /\ port.rxbufstat[soem.idxstack[1]] = "RCVD"
  /\ Releases(soem.idxstack[1])
  /\ soem' = Idle
  /\ UNCHANGED <<rx, wire, image, wkc, sent>>

(* The timer, looked at after a wait, has run out: 0 is returned, although *)
(* that last wait may have brought the answer.                             *)
ServiceTimesOut ==
  /\ soem.pc = "srconfirm"
  /\ soem.waited
  /\ Releases(soem.idxstack[1])
  /\ soem' = Idle
  /\ UNCHANGED <<rx, wire, image, wkc, sent>>

-----------------------------------------------------------------------------
(* A cycle of process data.                                                *)

(* One frame of ecx_main_send_processdata and its ecx_pushindex; the last  *)
(* one goes on to the receive, which begins with a working counter of 0    *)
(* and no valid frame.                                                     *)
SendProcessdata ==
  /\ soem.pc \in {"idle", "sending"}
  /\ LET idx == ecx_getindex(port)
         stack == Append(soem.idxstack, idx)
     IN /\ Sends(idx, "LRW")
        /\ soem' = [pc |-> IF Len(stack) < Segments THEN "sending" ELSE "receiving",
                    waited |-> FALSE, idxstack |-> stack]
        /\ wkc' = IF Len(stack) < Segments THEN wkc ELSE EC_NOFRAME
  /\ UNCHANGED <<rx, image>>

(* The value ecx_waitinframe returns, EC_BUF_TX or EC_BUF_RCVD: never      *)
(* EC_NOFRAME, so the test in the caller always succeeds.                  *)
BufValue(bufstat) == IF bufstat = "RCVD" THEN 3 ELSE 2

(* Mutant: the buffer of a frame that did not arrive is not released.      *)
release_received(p, idx) ==
  IF p.rxbufstat[idx] = "RCVD" THEN ecx_setbufstat(p, idx, "EMPTY") ELSE p

ReleaseBuffer(p, idx) == ecx_setbufstat(p, idx, "EMPTY")

(* Mutant: the position on the stack does not advance.                     *)
pull_same(s) == s

(* ecx_pullindex, and ecx_clearindex after the last one.                   *)
PullNext(s) ==
  IF Len(s.idxstack) = 1 THEN Idle ELSE [s EXCEPT !.idxstack = Tail(s.idxstack)]

(* One round of ecx_receive_processdata_group: one wait, then whatever the *)
(* buffer of the index holds is copied if it is process data, and the      *)
(* buffer is released.  The first frame taken gives the working counter    *)
(* (and the DC time); later ones add the buffer state.  The segments are   *)
(* of one length, so a frame's counter is found where the first one's is.  *)
ReceiveProcessdata ==
  /\ soem.pc = "receiving"
  /\ LET idx == Head(soem.idxstack)
         segment == Segments - Len(soem.idxstack) + 1
         after == ecx_waitinframe(port, rx, idx)
         frame == after.port.rxbuf[idx]
         first == wkc = EC_NOFRAME
     IN /\ port' = ReleaseBuffer(after.port, idx)
        /\ rx' = after.rx
        /\ \/ /\ frame.cmd = "LRW"
              /\ image' = [image EXCEPT ![segment] = frame.serial]
              /\ wkc' = IF first THEN frame.wkc
                        ELSE wkc + BufValue(after.port.rxbufstat[idx])
           \/ frame.cmd # "LRW" /\ UNCHANGED <<image, wkc>>
  /\ soem' = PullNext(soem)
  /\ UNCHANGED <<wire, sent>>

-----------------------------------------------------------------------------
(* After ecx_setupnic.                                                     *)
Init ==
  /\ port = [rxbufstat |-> [i \in Indices |-> "EMPTY"],
             rxbuf |-> [i \in Indices |-> NoFrame], lastidx |-> 0]
  /\ rx = [queue |-> [i \in 0..(ETHERCAT_RX_QUEUE_SIZE - 1) |-> NoFrame],
           head |-> 0, tail |-> 0, count |-> 0]
  /\ wire = <<>>
  /\ soem = Idle
  /\ image = [s \in 1..Segments |-> 0]
  /\ wkc = EC_NOFRAME
  /\ sent = 0

Soem ==
  \/ ServiceSends \/ ServiceWaits \/ ServiceConfirmed \/ ServiceTimesOut
  \/ SendProcessdata \/ ReceiveProcessdata

Next == Soem \/ ethercat_netif_callback \/ Loses

(* The SOEM task runs at the second highest priority, every wait is        *)
(* bounded, and time passes while it waits.                                *)
Spec ==
  Init /\ [][Next]_vars
    /\ WF_vars(ServiceWaits \/ ServiceConfirmed) /\ WF_vars(ServiceTimesOut)
    /\ WF_vars(soem.pc = "sending" /\ SendProcessdata) /\ WF_vars(ReceiveProcessdata)

-----------------------------------------------------------------------------
(* Properties.                                                             *)

(* The request on position j of the index stack.                           *)
Serial(j) == sent - Len(soem.idxstack) + j

(* No buffer is lost: whatever was lost or late on the bus, the buffers in *)
(* use are those of the requests being waited for, all different and none  *)
(* of them index 0, so ecx_getindex never runs out.                        *)
BuffersInUse ==
  /\ {i \in Indices : port.rxbufstat[i] # "EMPTY"}
       = {soem.idxstack[j] : j \in 1..Len(soem.idxstack)}
  /\ \A j, k \in 1..Len(soem.idxstack) :
       soem.idxstack[j] = soem.idxstack[k] => j = k
  /\ \A j \in 1..Len(soem.idxstack) : soem.idxstack[j] # 0

(* A buffer marked RCVD holds the answer to the request sent with its      *)
(* index this time, not a late one to an earlier request with that index.  *)
AnswerIsForRequest ==
  \A j \in 1..Len(soem.idxstack) :
    port.rxbufstat[soem.idxstack[j]] = "RCVD" =>
      port.rxbuf[soem.idxstack[j]].serial = Serial(j)

(* The ring holds the frames that arrived last, in the order in which they *)
(* were sent, and its two positions agree with its counter                 *)
(* (ethercat_rx_queue_push and _pop).                                      *)
RingInOrder ==
  LET at(n) == rx.queue[(rx.tail + n) % ETHERCAT_RX_QUEUE_SIZE].serial
  IN /\ rx.head = (rx.tail + rx.count) % ETHERCAT_RX_QUEUE_SIZE
     /\ \A k \in 1..(rx.count - 1) : at(k - 1) < at(k)

(* Every service and every cycle returns to the SOEM task, however many    *)
(* frames are lost.                                                        *)
CallsReturn == soem.pc # "idle" ~> (soem.pc = "idle" \/ sent = MaxRequests)

(* A cycle that reports the expected working counter has brought the       *)
(* inputs of this cycle: a smaller one means they cannot be trusted.       *)
CompleteMeansFresh ==
  [][soem.pc = "receiving" /\ soem'.pc = "idle" /\ wkc' >= ExpectedWkc =>
       \A s \in 1..Segments : image'[s] > sent - Segments]_vars
=============================================================================
