---------------------------- MODULE NicDrv_proofs ----------------------------
(***************************************************************************)
(* Proofs about NicDrv, for every number of buffers, every size of the     *)
(* ring, every number of frames per cycle and every delay on the bus for   *)
(* which Segments + WireDelay < EC_MAXBUF - 1.                             *)
(*                                                                         *)
(* ecx_getindex goes round the indices 1..EC_MAXBUF-1 one by one, because  *)
(* the buffers in use are always those of the last requests.  So the index *)
(* of a frame follows from how many requests were sent after its own, and  *)
(* two frames less than a whole round apart never share an index.  That    *)
(* the frames in the ring stay that young needs the order in the ring:     *)
(* every request that ends has taken a frame out, had found none, or had   *)
(* its own answer, behind which there are only younger ones.               *)
(***************************************************************************)
EXTENDS NicDrv, TLAPS

Round == EC_MAXBUF - 1
Size == ETHERCAT_RX_QUEUE_SIZE
Waiting == Len(soem.idxstack)

Frame == [idx : Indices, cmd : {"NOP", "service", "LRW"}, serial : Nat, wkc : Nat]
Port == [rxbufstat : [Indices -> {"EMPTY", "TX", "RCVD"}],
         rxbuf : [Indices -> Frame], lastidx : 0..Round]
Ring == [queue : [0..(Size - 1) -> Frame], head : 0..(Size - 1), tail : 0..(Size - 1),
         count : 0..Size]

(* The index taken d requests before index i.                              *)
Back(i, d) == IF d < i THEN i - d ELSE i - d + Round

(* The n-th oldest frame of a ring.                                        *)
At(q, n) == IF q.tail + n < Size THEN q.tail + n ELSE q.tail + n - Size
Nth(q, n) == q.queue[At(q, n)]

(* The types of port, ring, bus and task.                                  *)
Typed ==
  /\ port \in Port
  /\ rx \in Ring
  /\ wire \in Seq(Frame)
  /\ soem \in [pc : {"idle", "sending", "receiving", "srconfirm"}, waited : BOOLEAN,
               idxstack : Seq(1..Round)]
  /\ sent \in Nat

(* The requests being waited for are the last ones sent, and their indices *)
(* the last ones taken.                                                    *)
Stack ==
  /\ soem.pc = "idle" <=> soem.idxstack = <<>>
  /\ soem.pc = "sending" => Waiting < Segments
  /\ soem.pc = "srconfirm" => Waiting = 1
  /\ Waiting <= Segments /\ Waiting <= sent
  /\ sent > 0 => port.lastidx > 0
  /\ \A j \in 1..Waiting : soem.idxstack[j] = Back(port.lastidx, Waiting - j)

(* A frame carries the index its request took.                             *)
Indexed(f) ==
  f.serial > 0 /\ f.serial <= sent /\ f.idx = Back(port.lastidx, sent - f.serial)

(* The frames under way are young and in order.                            *)
WireInv ==
  /\ \A n \in 1..Len(wire) : Indexed(wire[n]) /\ wire[n].serial + WireDelay >= sent
  /\ \A m, n \in 1..Len(wire) : m < n => wire[m].serial < wire[n].serial

(* The frames of a ring q are in order, and a request that has ended has   *)
(* moved each of them one place on: the n-th is that much younger than the *)
(* oldest request that is still waited for, number base + 1.               *)
Aged(q, base) == \A n \in 0..(q.count - 1) : Nth(q, n).serial + WireDelay - n >= base

InRing(q) ==
  /\ q.head = At(q, q.count)
  /\ \A n \in 0..(q.count - 1) : Indexed(Nth(q, n))
  /\ \A m, n \in 0..(q.count - 1) :
       m <= n => Nth(q, m).serial + n - m <= Nth(q, n).serial
  /\ \A n \in 0..(q.count - 1), w \in 1..Len(wire) : Nth(q, n).serial < wire[w].serial

RingInv ==
  /\ InRing(rx)
  /\ Aged(rx, sent - Waiting)
  /\ soem.pc = "srconfirm" /\ soem.waited => Aged(rx, sent)

(* A received buffer of a port p holds the answer to its own request, and  *)
(* whatever is still to come, from a ring q or the bus, answers a later    *)
(* one.                                                                    *)
AnsweredIn(p, q) ==
  \A j \in 1..Waiting : p.rxbufstat[soem.idxstack[j]] = "RCVD" =>
    /\ p.rxbuf[soem.idxstack[j]].serial = Serial(j)
    /\ \A n \in 0..(q.count - 1) : Nth(q, n).serial > Serial(j)
    /\ \A w \in 1..Len(wire) : wire[w].serial > Serial(j)

Answered == AnsweredIn(port, rx)

(* The inductive invariant.                                                *)
IInv ==
  /\ Typed
  /\ Stack
  /\ BuffersInUse
  /\ WireInv
  /\ RingInv
  /\ Answered

-----------------------------------------------------------------------------
(* Arithmetic of the two rounds.                                           *)

(* The remainder of a number below twice the modulus.                      *)
LEMMA OneRound ==
  ASSUME NEW b \in Nat, NEW a \in Nat, a < b + b
  PROVE  a % b = IF a < b THEN a ELSE a - b
<1>1. CASE a < b
  BY <1>1
<1>2. CASE b <= a
  BY <1>2
<1> QED BY <1>1, <1>2

(* The parameters are positive.                                            *)
LEMMA SizeType == Size \in Nat \ {0} /\ Round \in Nat \ {0} /\ Segments \in Nat \ {0}
BY NicAssumption DEF NicAssumption, Size, Round

(* Different distances back lead to different indices.                     *)
LEMMA BackIsIndex ==
  ASSUME NEW i \in 1..Round
  PROVE  /\ \A d \in 0..(Round - 1) : Back(i, d) \in 1..Round
         /\ \A d, e \in 0..(Round - 1) : Back(i, d) = Back(i, e) => d = e
BY SizeType DEF Back

(* Positions of a ring, and what stepping does to them.                    *)
LEMMA RingPositions ==
  ASSUME NEW q \in Ring
  PROVE  /\ \A n \in 0..Size : At(q, n) \in 0..(Size - 1)
         /\ \A n \in 0..Size : At(q, n) = (q.tail + n) % Size
         /\ \A i \in 0..(Size - 1) : Step(i) = IF i + 1 < Size THEN i + 1 ELSE 0
         /\ \A m, n \in 0..(Size - 1) : At(q, m) = At(q, n) => m = n
<1> USE SizeType
<1>1. q.tail \in 0..(Size - 1)
  BY DEF Ring
<1>2. \A n \in 0..Size : At(q, n) \in 0..(Size - 1)
  BY <1>1 DEF At
<1>3. ASSUME NEW n \in 0..Size
      PROVE  At(q, n) = (q.tail + n) % Size
  <2> DEFINE a == q.tail + n
  <2>1. a \in Nat /\ a < Size + Size /\ Size \in Nat
    BY <1>1
  <2> HIDE DEF a
  <2>2. a % Size = IF a < Size THEN a ELSE a - Size
    BY ONLY <2>1, OneRound, Zenon
  <2>3. At(q, n) = IF a < Size THEN a ELSE a - Size
    BY <1>1 DEF At, a
  <2>4. At(q, n) = a % Size
    BY <2>2, <2>3
  <2> QED BY ONLY <2>4, Zenon DEF a
<1>4. ASSUME NEW i \in 0..(Size - 1)
      PROVE  Step(i) = IF i + 1 < Size THEN i + 1 ELSE 0
  <2> DEFINE a == i + 1
  <2>1. a \in Nat /\ a < Size + Size /\ Size \in Nat
    OBVIOUS
  <2> HIDE DEF a
  <2>2. a % Size = IF a < Size THEN a ELSE a - Size
    BY ONLY <2>1, OneRound, Zenon
  <2>3. (i + 1) % Size = IF i + 1 < Size THEN i + 1 ELSE 0
    BY <2>2 DEF a
  <2> QED BY <2>3 DEF Step, Size
<1>5. \A m, n \in 0..(Size - 1) : At(q, m) = At(q, n) => m = n
  BY <1>1 DEF At
<1> QED BY <1>2, <1>3, <1>4, <1>5

(* What a push does to the frames of a ring: they move by s places, the    *)
(* new one is the last.                                                    *)
Pushed(q, p, s, frame) ==
  /\ p.count = q.count + 1 - s
  /\ \A n \in 0..(p.count - 2) : n + s < q.count /\ Nth(p, n) = Nth(q, n + s)
  /\ Nth(p, p.count - 1) = frame

(* ethercat_rx_queue_push keeps the frames there are, or all but the       *)
(* oldest when the ring is full, and puts the new one behind them.         *)
LEMMA PushPositions ==
  ASSUME NEW q \in Ring, q.head = At(q, q.count), NEW frame \in Frame
  PROVE  LET p == ethercat_rx_queue_push(q, frame)
         IN /\ p \in Ring
            /\ p.head = At(p, p.count)
            /\ \E s \in {0, 1} : Pushed(q, p, s, frame)
<1> DEFINE p == ethercat_rx_queue_push(q, frame)
<1> USE SizeType
<1>1. /\ q.tail \in 0..(Size - 1) /\ q.head \in 0..(Size - 1) /\ q.count \in 0..Size
      /\ q.queue \in [0..(Size - 1) -> Frame]
  BY DEF Ring
<1>2. \A i \in 0..(Size - 1) : Step(i) = IF i + 1 < Size THEN i + 1 ELSE 0
  BY RingPositions
<1>3. /\ p.queue = [q.queue EXCEPT ![q.head] = frame]
      /\ p.head = Step(q.head)
      /\ p.tail = IF q.count >= Size THEN Step(q.tail) ELSE q.tail
      /\ p.count = IF q.count >= Size THEN q.count ELSE q.count + 1
  BY DEF ethercat_rx_queue_push, Size
<1>4. p = [queue |-> p.queue, head |-> p.head, tail |-> p.tail, count |-> p.count]
  BY DEF ethercat_rx_queue_push
<1> HIDE DEF p
<1>5. p.head \in 0..(Size - 1) /\ p.tail \in 0..(Size - 1) /\ p.count \in 1..Size
  BY <1>1, <1>2, <1>3, SMTT(30)
<1>6. p \in Ring
  BY <1>1, <1>3, <1>4, <1>5, SMTT(30) DEF Ring
<1>7. p.head = At(p, p.count)
  BY <1>1, <1>2, <1>3, SMTT(30) DEF At
<1>8. \A i \in 0..(Size - 1) : p.queue[i] = IF i = q.head THEN frame ELSE q.queue[i]
  BY <1>1, <1>3
<1>9. CASE q.count < Size
  <2>1. p.tail = q.tail /\ p.count = q.count + 1
    BY <1>1, <1>3, <1>9
  <2>2. \A n \in 0..(p.count - 2) : n + 0 < q.count /\ At(p, n) = At(q, n + 0) /\ At(q, n) # q.head
    BY <1>1, <1>9, <2>1, SMTT(30) DEF At
  <2>3. At(p, p.count - 1) = q.head
    BY <1>1, <1>9, <2>1 DEF At
  <2>4. \A n \in 0..Size : At(q, n) \in 0..(Size - 1)
    BY RingPositions
  <2>5. ASSUME NEW n \in 0..(p.count - 2)
        PROVE  p.queue[At(p, n)] = q.queue[At(q, n + 0)]
    <3>1. At(p, n) = At(q, n + 0) /\ At(q, n + 0) # q.head
      BY <2>2
    <3>2. n + 0 \in 0..Size
      BY <1>1, <1>5, <2>1, <2>2
    <3>3. At(q, n + 0) \in 0..(Size - 1)
      BY <2>4, <3>2, Zenon
    <3> QED BY <1>8, <3>1, <3>3
  <2>6. p.queue[At(p, p.count - 1)] = frame
    BY <1>1, <1>8, <2>3
  <2>7. p.count = q.count + 1 - 0
    BY <1>1, <2>1
  <2>8. Pushed(q, p, 0, frame)
    BY ONLY <2>2, <2>5, <2>6, <2>7, Zenon DEF Pushed, Nth
  <2> QED BY <1>6, <1>7, <2>8 DEF p
<1>10. CASE q.count = Size
  <2>1. p.tail = Step(q.tail) /\ p.count = q.count /\ q.head = q.tail
    BY <1>1, <1>3, <1>10 DEF At
  <2>2. \A n \in 0..(p.count - 2) : n + 1 < q.count /\ At(p, n) = At(q, n + 1) /\ At(q, n + 1) # q.head
    BY <1>1, <1>2, <1>10, <2>1 DEF At
  <2>3. At(p, p.count - 1) = q.head
    BY <1>1, <1>2, <1>10, <2>1 DEF At
  <2>4. \A n \in 0..Size : At(q, n) \in 0..(Size - 1)
    BY RingPositions
  <2>5. ASSUME NEW n \in 0..(p.count - 2)
        PROVE  p.queue[At(p, n)] = q.queue[At(q, n + 1)]
    <3>1. At(p, n) = At(q, n + 1) /\ At(q, n + 1) # q.head
      BY <2>2
    <3>2. n + 1 \in 0..Size
      BY <1>1, <1>5, <2>1, <2>2
    <3>3. At(q, n + 1) \in 0..(Size - 1)
      BY <2>4, <3>2, Zenon
    <3> QED BY <1>8, <3>1, <3>3
  <2>6. p.queue[At(p, p.count - 1)] = frame
    BY <1>1, <1>8, <2>3
  <2>7. p.count = q.count + 1 - 1
    BY <1>1, <2>1
  <2>8. Pushed(q, p, 1, frame)
    BY ONLY <2>2, <2>5, <2>6, <2>7, Zenon DEF Pushed, Nth
  <2> QED BY <1>6, <1>7, <2>8 DEF p
<1> QED BY <1>1, <1>9, <1>10

(* ethercat_rx_queue_pop takes the oldest frame; the others move up.       *)
LEMMA PopPositions ==
  ASSUME NEW q \in Ring, q.head = At(q, q.count), q.count > 0
  PROVE  LET p == ethercat_rx_queue_pop(q)
         IN /\ p \in Ring
            /\ p.head = At(p, p.count)
            /\ p.count = q.count - 1
            /\ \A n \in 0..(p.count - 1) : Nth(p, n) = Nth(q, n + 1)
<1> DEFINE p == ethercat_rx_queue_pop(q)
<1> USE SizeType
<1>1. /\ q.tail \in 0..(Size - 1) /\ q.head \in 0..(Size - 1) /\ q.count \in 0..Size
      /\ q.queue \in [0..(Size - 1) -> Frame]
  BY DEF Ring
<1>2. Step(q.tail) = IF q.tail + 1 < Size THEN q.tail + 1 ELSE 0
  BY <1>1, RingPositions
<1>3. Step(q.tail) \in 0..(Size - 1) /\ q.count - 1 \in 0..Size
  BY <1>1, <1>2
<1>4. p.queue = q.queue /\ p.head = q.head /\ p.tail = Step(q.tail) /\ p.count = q.count - 1
  BY <1>3 DEF Ring, ethercat_rx_queue_pop
<1>5. p \in Ring
  BY <1>3 DEF Ring, ethercat_rx_queue_pop
<1> HIDE DEF p
<1>6. p.head = At(p, p.count)
  <2>1. CASE q.tail + 1 < Size
    BY <1>1, <1>2, <1>4, <2>1, SMTT(30) DEF At
  <2>2. CASE q.tail + 1 = Size
    BY <1>1, <1>2, <1>4, <2>2 DEF At
  <2> QED BY <1>1, <2>1, <2>2
<1>7. ASSUME NEW n \in 0..(p.count - 1)
      PROVE  At(p, n) = At(q, n + 1)
  <2>1. n \in 0..(Size - 2) /\ q.tail + (n + 1) = q.tail + 1 + n
    BY <1>1, <1>4, SMTT(30)
  <2>2. CASE q.tail + 1 < Size
    <3>1. p.tail = q.tail + 1
      BY <1>2, <1>4, <2>2
    <3> QED BY <1>1, <2>1, <3>1 DEF At
  <2>3. CASE q.tail + 1 = Size
    <3>1. p.tail = 0
      BY <1>2, <1>4, <2>3
    <3> QED BY <1>1, <2>1, <2>3, <3>1, SMTT(30) DEF At
  <2> QED BY <1>1, <2>2, <2>3
<1>8. \A n \in 0..(p.count - 1) : Nth(p, n) = Nth(q, n + 1)
  BY ONLY <1>4, <1>7, Zenon DEF Nth
<1> QED BY <1>4, <1>5, <1>6, <1>8 DEF p

-----------------------------------------------------------------------------
(* The index of a request.                                                 *)

(* The index after lastidx, going round.                                   *)
Following(i) == IF i < Round THEN i + 1 ELSE 1

(* A request more lies between an index and the ones taken before it.      *)
LEMMA BackFollowing ==
  ASSUME NEW i \in 0..Round
  PROVE  /\ Following(i) \in 1..Round /\ Back(Following(i), 0) = Following(i)
         /\ i > 0 => \A d \in 0..(Round - 2) :
              /\ Back(Following(i), d + 1) = Back(i, d)
              /\ Back(i, d) # Following(i)
<1> USE SizeType
<1>1. Following(i) \in 1..Round /\ Back(Following(i), 0) = Following(i)
  BY DEF Following, Back
<1>2. ASSUME i > 0, NEW d \in 0..(Round - 2)
      PROVE  Back(Following(i), d + 1) = Back(i, d) /\ Back(i, d) # Following(i)
  <2>1. CASE i < Round
    BY <1>2, <2>1 DEF Following, Back
  <2>2. CASE i = Round
    BY <1>2, <2>2 DEF Following, Back
  <2> QED BY <2>1, <2>2
<1> QED BY <1>1, <1>2

(* A ring holds frames.                                                    *)
LEMMA RingFrames ==
  ASSUME NEW q \in Ring
  PROVE  \A n \in 0..(q.count - 1) : Nth(q, n) \in Frame /\ Nth(q, n).serial \in Nat
<1> TAKE n \in 0..(q.count - 1)
<1>1. q.queue \in [0..(Size - 1) -> Frame] /\ n \in 0..Size
  BY SizeType DEF Ring
<1>2. At(q, n) \in 0..(Size - 1)
  BY <1>1, RingPositions
<1>3. Nth(q, n) \in Frame
  BY <1>1, <1>2 DEF Nth
<1> QED BY <1>3 DEF Frame

(* The parts of the state the proofs keep using.                           *)
LEMMA Parts ==
  ASSUME Typed
  PROVE  /\ port.lastidx \in 0..Round
         /\ port.rxbufstat \in [Indices -> {"EMPTY", "TX", "RCVD"}]
         /\ port.rxbuf \in [Indices -> Frame]
         /\ rx.count \in 0..Size
         /\ soem.idxstack \in Seq(1..Round)
         /\ Waiting \in Nat
         /\ sent \in Nat
         /\ \A n \in 1..Len(wire) : wire[n] \in Frame /\ wire[n].serial \in Nat
         /\ \A n \in 0..(rx.count - 1) : Nth(rx, n) \in Frame /\ Nth(rx, n).serial \in Nat
<1>1. /\ port.lastidx \in 0..Round
      /\ port.rxbufstat \in [Indices -> {"EMPTY", "TX", "RCVD"}]
      /\ port.rxbuf \in [Indices -> Frame]
  BY DEF Typed, Port
<1>2. rx.count \in 0..Size /\ rx.queue \in [0..(Size - 1) -> Frame]
  BY DEF Typed, Ring
<1>3. soem.idxstack \in Seq(1..Round) /\ sent \in Nat /\ Waiting \in Nat
  BY DEF Typed, Waiting
<1>4. \A n \in 1..Len(wire) : wire[n] \in Frame /\ wire[n].serial \in Nat
  <2>1. \A n \in 1..Len(wire) : wire[n] \in Frame
    BY DEF Typed
  <2> QED BY <2>1 DEF Frame
<1>5. \A n \in 0..(rx.count - 1) : Nth(rx, n) \in Frame /\ Nth(rx, n).serial \in Nat
  BY RingFrames DEF Typed
<1> QED BY <1>1, <1>2, <1>3, <1>4, <1>5

(* The buffers of the last requests being in use, ecx_getindex gives the   *)
(* next index at its first try.                                            *)
LEMMA NextIndex ==
  ASSUME Typed, Stack, BuffersInUse, Waiting < Segments
  PROVE  /\ ecx_getindex(port) = Following(port.lastidx)
         /\ \A j \in 1..Waiting : soem.idxstack[j] # Following(port.lastidx)
<1> DEFINE l == port.lastidx
           i == Following(l)
<1>1. /\ l \in 0..Round /\ Waiting \in Nat
      /\ EC_MAXBUF \in Nat /\ EC_MAXBUF > 1 /\ Round = EC_MAXBUF - 1
  BY Parts, NicAssumption DEF Round, NicAssumption
<1>2. i \in 1..Round
  BY <1>1, BackFollowing
<1>3. ASSUME NEW j \in 1..Waiting
      PROVE  soem.idxstack[j] # i
  <2>1. l > 0 /\ Waiting - j \in 0..(Round - 2)
    BY <1>1, SizeType, NicAssumption, Parts DEF Stack, NicAssumption
  <2>2. soem.idxstack[j] = Back(l, Waiting - j)
    BY DEF Stack
  <2> QED BY <1>1, <2>1, <2>2, BackFollowing
<1>4. i \in Indices /\ port.rxbufstat[i] = "EMPTY"
  <2>1. i \in Indices
    BY <1>1, <1>2 DEF Indices
  <2>2. i \notin {soem.idxstack[j] : j \in 1..Len(soem.idxstack)}
    BY <1>3 DEF Waiting
  <2> QED BY <2>1, <2>2 DEF BuffersInUse
<1>5. Candidate(port, 1) = i
  <2>1. l \in Nat /\ Round \in Nat /\ l < Round + Round
    BY ONLY <1>1, SizeType
  <2>2. l % Round = IF l < Round THEN l ELSE l - Round
    BY ONLY <2>1, OneRound, Zenon
  <2>3. (l % Round) + 1 = i
    BY <1>1, <2>2, SizeType DEF Following
  <2>4. l + 1 - 1 = l
    BY <1>1
  <2> QED BY <1>1, <2>3, <2>4 DEF Candidate
<1> DEFINE tries == {k \in 1..(EC_MAXBUF - 1) : Free(port, k)}
           c == CHOOSE k \in tries : \A j \in tries : k <= j
<1>6. 1 \in tries
  <2>1. 1 \in 1..(EC_MAXBUF - 1) /\ Free(port, 1)
    BY <1>1, <1>4, <1>5 DEF Free
  <2> QED BY ONLY <2>1, Zenon
<1>7. \A j \in tries : j \in Nat /\ 1 <= j
  BY <1>1, SizeType
<1>8. c = 1
  <2> HIDE DEF tries
  <2>1. \E k \in tries : \A j \in tries : k <= j
    BY <1>6, <1>7
  <2>2. c \in tries /\ \A j \in tries : c <= j
    BY <2>1, Zenon
  <2> QED BY <1>6, <1>7, <2>2
<1>9. ecx_getindex(port) = IF tries = {} THEN 0 ELSE Candidate(port, c)
  BY DEF ecx_getindex
<1> QED BY <1>3, <1>5, <1>6, <1>8, <1>9

(* The frames under way after a request with this frame: those young       *)
(* enough, and the new one unless it was refused.                          *)
LEMMA LeavesFacts ==
  ASSUME NEW frame \in Frame, wire \in Seq(Frame), Leaves(frame)
  PROVE  /\ wire' \in Seq(Frame)
         /\ \E k \in 0..Len(wire) :
              /\ Len(wire') \in {Len(wire) - k, Len(wire) - k + 1}
              /\ \A n \in 1..(Len(wire) - k) :
                   wire'[n] = wire[n + k] /\ wire[n + k].serial + WireDelay >= frame.serial
              /\ Len(wire') = Len(wire) - k + 1 => wire'[Len(wire')] = frame
<1>1. PICK k \in 0..Len(wire) :
        /\ \A n \in 1..Len(wire) : wire[n].serial + WireDelay >= frame.serial <=> n > k
        /\ wire' \in {SubSeq(wire, k + 1, Len(wire)),
                      Append(SubSeq(wire, k + 1, Len(wire)), frame)}
  BY DEF Leaves
<1> DEFINE young == SubSeq(wire, k + 1, Len(wire))
<1>2. /\ young \in Seq(Frame) /\ Len(young) = Len(wire) - k
      /\ \A n \in 1..(Len(wire) - k) : young[n] = wire[n + k]
  OBVIOUS
<1>3. \A n \in 1..(Len(wire) - k) : wire[n + k].serial + WireDelay >= frame.serial
  BY <1>1
<1> HIDE DEF young
<1>4. CASE wire' = young
  BY <1>2, <1>3, <1>4, SMTT(30)
<1>5. CASE wire' = Append(young, frame)
  <2>1. /\ wire' \in Seq(Frame) /\ Len(wire') = Len(wire) - k + 1
        /\ wire'[Len(wire')] = frame
    <3>1. /\ Append(young, frame) \in Seq(Frame)
          /\ Len(Append(young, frame)) = Len(young) + 1
          /\ Append(young, frame)[Len(young) + 1] = frame
      BY <1>2
    <3> QED BY <1>2, <1>5, <3>1
  <2>2. \A n \in 1..(Len(wire) - k) : wire'[n] = young[n]
    BY <1>2, <1>5
  <2> QED BY <1>2, <1>3, <2>1, <2>2
<1> QED BY <1>1, <1>4, <1>5 DEF young

-----------------------------------------------------------------------------
(* The steps of the SOEM task, of the bus and of the reader task.          *)

(* A request is sent: it is the youngest, and every other frame and buffer *)
(* is one request older.                                                   *)
LEMMA SendsIInv ==
  ASSUME IInv, soem.pc \in {"idle", "sending"},
         NEW cmd \in {"service", "LRW"}, NEW pc \in {"sending", "receiving", "srconfirm"},
         Sends(ecx_getindex(port), cmd), rx' = rx,
         soem' = [pc |-> pc, waited |-> FALSE,
                  idxstack |-> Append(soem.idxstack, ecx_getindex(port))],
         pc = "sending" => Waiting + 1 < Segments,
         pc = "srconfirm" => Waiting = 0
  PROVE  IInv'
<1> DEFINE l == port.lastidx
           i == Following(l)
<1>1. /\ l \in 0..Round /\ Waiting \in Nat /\ sent \in Nat /\ rx.count \in 0..Size
      /\ port.rxbufstat \in [Indices -> {"EMPTY", "TX", "RCVD"}]
      /\ soem.idxstack \in Seq(1..Round)
      /\ \A n \in 1..Len(wire) : wire[n].serial \in Nat
      /\ \A n \in 0..(rx.count - 1) : Nth(rx, n).serial \in Nat
  BY Parts DEF IInv
<1>2. /\ Segments \in Nat /\ Round \in Nat /\ WireDelay \in Nat
      /\ Segments + WireDelay <= Round - 1 /\ Segments >= 1 /\ WireDelay <= Round - 2
      /\ EC_MAXBUF \in Nat /\ Round = EC_MAXBUF - 1
  BY NicAssumption DEF NicAssumption, Round
<1>3. Waiting < Segments
  <2>1. CASE soem.pc = "idle"
    <3>1. Waiting = 0
      BY <2>1 DEF IInv, Stack, Waiting
    <3> QED BY <1>2, <3>1
  <2>2. CASE soem.pc = "sending"
    BY <2>2 DEF IInv, Stack
  <2> QED BY <2>1, <2>2
<1>4. /\ ecx_getindex(port) = i
      /\ \A j \in 1..Waiting : soem.idxstack[j] # i
  BY <1>3, NextIndex DEF IInv
<1>5. /\ i \in 1..Round /\ Back(i, 0) = i
      /\ l > 0 => \A d \in 0..(Round - 2) : Back(i, d + 1) = Back(l, d)
  BY <1>1, BackFollowing
<1>6. i \in Indices /\ i # 0
  BY <1>2, <1>5 DEF Indices
<1> HIDE DEF i
<1>7. port' = ecx_outframe(port, i) /\ sent' = sent + 1
  BY <1>4 DEF Sends
<1>8. /\ port' \in Port /\ port'.lastidx = i /\ port'.rxbuf = port.rxbuf
      /\ \A x \in Indices :
           port'.rxbufstat[x] = IF x = i THEN "TX" ELSE port.rxbufstat[x]
  <2>1. port \in Port /\ i \in 0..Round
    BY <1>2, <1>5 DEF IInv, Typed
  <2> QED BY <1>6, <1>7, <2>1 DEF ecx_outframe, Port
<1>9. /\ soem'.idxstack = Append(soem.idxstack, i) /\ soem'.pc = pc
      /\ soem' \in [pc : {"idle", "sending", "receiving", "srconfirm"},
                    waited : BOOLEAN, idxstack : Seq(1..Round)]
      /\ soem'.waited = FALSE
  BY <1>1, <1>4, <1>5
<1>10. /\ Waiting' = Waiting + 1
       /\ \A j \in 1..Waiting : soem'.idxstack[j] = soem.idxstack[j]
       /\ soem'.idxstack[Waiting + 1] = i
       /\ Len(soem'.idxstack) = Waiting + 1
  BY <1>1, <1>5, <1>9 DEF Waiting
<1>11. PICK w \in Wkcs : Leaves([idx |-> i, cmd |-> cmd, serial |-> sent + 1, wkc |-> w])
  BY <1>4 DEF Sends
<1> DEFINE frame == [idx |-> i, cmd |-> cmd, serial |-> sent + 1, wkc |-> w]
<1>12. frame \in Frame /\ frame.serial = sent + 1 /\ frame.idx = i
  <2>1. w \in Nat /\ sent + 1 \in Nat
    BY <1>1, NicAssumption DEF NicAssumption
  <2> QED BY <1>6, <2>1 DEF Frame
<1>13. Leaves(frame)
  BY <1>11
<1> HIDE DEF frame
<1>14. wire \in Seq(Frame) /\ Len(wire) \in Nat
  BY DEF IInv, Typed
<1>15. wire' \in Seq(Frame)
  BY <1>12, <1>13, <1>14, LeavesFacts
<1>16. PICK k \in 0..Len(wire) :
         /\ Len(wire') \in {Len(wire) - k, Len(wire) - k + 1}
         /\ \A n \in 1..(Len(wire) - k) :
              wire'[n] = wire[n + k] /\ wire[n + k].serial + WireDelay >= frame.serial
         /\ Len(wire') = Len(wire) - k + 1 => wire'[Len(wire')] = frame
  BY <1>12, <1>13, <1>14, LeavesFacts
<1>17. \A n \in 1..Len(wire') :
         \/ /\ n \in 1..(Len(wire) - k) /\ n + k \in 1..Len(wire) /\ wire'[n] = wire[n + k]
            /\ wire'[n].serial + WireDelay >= sent + 1
         \/ n = Len(wire') /\ n = Len(wire) - k + 1 /\ wire'[n] = frame
  <2> TAKE n \in 1..Len(wire')
  <2>1. CASE n <= Len(wire) - k
    <3>1. n \in 1..(Len(wire) - k) /\ n + k \in 1..Len(wire)
      BY <1>14, <1>15, <2>1
    <3>2. wire'[n] = wire[n + k] /\ wire[n + k].serial + WireDelay >= sent + 1
      BY <1>12, <1>16, <3>1
    <3> QED BY <3>1, <3>2
  <2>2. CASE n > Len(wire) - k
    <3>1. Len(wire') = Len(wire) - k + 1 /\ n = Len(wire')
      BY <1>14, <1>15, <1>16, <2>2
    <3> QED BY <1>16, <3>1
  <2> QED BY <1>14, <2>1, <2>2
<1>18. Typed'
  BY <1>1, <1>7, <1>8, <1>9, <1>15 DEF Typed, IInv
<1>19. Stack'
  <2>1. soem'.idxstack # <<>>
    BY <1>1, <1>10, SMTT(30)
  <2>2. ASSUME NEW j \in 1..Waiting'
        PROVE  soem'.idxstack[j] = Back(i, Waiting' - j)
    <3>1. CASE j = Waiting + 1
      BY <1>1, <1>5, <1>10, <3>1
    <3>2. CASE j \in 1..Waiting
      <4>1. soem.idxstack[j] = Back(l, Waiting - j)
        BY <3>2 DEF IInv, Stack
      <4>2. l > 0
        BY <1>1, <3>2 DEF IInv, Stack
      <4>3. Waiting - j \in 0..(Round - 2) /\ Waiting' - j = (Waiting - j) + 1
        BY <1>1, <1>2, <1>3, <1>10, <3>2
      <4> QED BY <1>5, <1>10, <3>2, <4>1, <4>2, <4>3
    <3> QED BY <1>1, <1>10, <3>1, <3>2
  <2>3. /\ Waiting' <= Segments /\ Waiting' <= sent'
        /\ pc = "sending" => Waiting' < Segments
        /\ pc = "srconfirm" => Waiting' = 1
    BY <1>1, <1>2, <1>3, <1>7, <1>10 DEF IInv, Stack
  <2>4. port'.lastidx > 0
    BY <1>5, <1>8
  <2> QED BY <1>8, <1>9, <2>1, <2>2, <2>3, <2>4 DEF Stack
<1>20. BuffersInUse'
  <2>1. ASSUME NEW x \in Indices
        PROVE  port'.rxbufstat[x] # "EMPTY"
                 <=> \E j \in 1..Len(soem'.idxstack) : x = soem'.idxstack[j]
    <3>1. port.rxbufstat[x] # "EMPTY" <=> \E j \in 1..Waiting : x = soem.idxstack[j]
      BY DEF IInv, BuffersInUse, Waiting
    <3>2. CASE x = i
      <4>1. Waiting + 1 \in 1..Len(soem'.idxstack)
        BY <1>1, <1>10
      <4> QED BY <1>8, <1>10, <3>2, <4>1
    <3>3. CASE x # i
      <4>1. (\E j \in 1..Waiting : x = soem.idxstack[j])
              <=> \E j \in 1..Len(soem'.idxstack) : x = soem'.idxstack[j]
        <5>1. ASSUME NEW j \in 1..Waiting, x = soem.idxstack[j]
              PROVE  j \in 1..Len(soem'.idxstack) /\ x = soem'.idxstack[j]
          BY <1>1, <1>10, <5>1
        <5>2. ASSUME NEW j \in 1..Len(soem'.idxstack), x = soem'.idxstack[j]
              PROVE  j \in 1..Waiting /\ x = soem.idxstack[j]
          BY <1>1, <1>10, <3>3, <5>2
        <5> QED BY <5>1, <5>2, Zenon
      <4> QED BY <1>8, <3>1, <3>3, <4>1
    <3> QED BY <3>2, <3>3
  <2>2. \A j \in 1..Len(soem'.idxstack) : soem'.idxstack[j] \in Indices
    <3>1. \A j \in 1..Waiting : soem.idxstack[j] \in 1..Round
      BY <1>1, <1>2, SMTT(30) DEF Waiting
    <3>2. \A j \in 1..Len(soem'.idxstack) : soem'.idxstack[j] \in 1..Round
      BY <1>1, <1>5, <1>10, <3>1
    <3> QED BY <1>2, <3>2 DEF Indices
  <2>3. \A j, m \in 1..Len(soem'.idxstack) :
          soem'.idxstack[j] = soem'.idxstack[m] => j = m
    <3>1. \A j, m \in 1..Waiting : soem.idxstack[j] = soem.idxstack[m] => j = m
      BY DEF IInv, BuffersInUse, Waiting
    <3> QED BY <1>1, <1>4, <1>10, <3>1
  <2>4. \A j \in 1..Len(soem'.idxstack) : soem'.idxstack[j] # 0
    <3>1. \A j \in 1..Waiting : soem.idxstack[j] \in 1..Round
      BY <1>1, <1>2, SMTT(30) DEF Waiting
    <3>2. \A j \in 1..Len(soem'.idxstack) : soem'.idxstack[j] \in 1..Round
      BY <1>1, <1>5, <1>10, <3>1
    <3> QED BY <1>2, <3>2
  <2> QED BY <2>1, <2>2, <2>3, <2>4 DEF BuffersInUse
<1>21. ASSUME NEW f, f.serial \in Nat, Indexed(f), sent - f.serial <= Round - 2
       PROVE  /\ f.serial > 0 /\ f.serial <= sent /\ f.serial <= sent'
              /\ f.idx = Back(port'.lastidx, sent' - f.serial)
  <2>1. f.serial > 0 /\ f.serial <= sent /\ f.idx = Back(l, sent - f.serial)
    BY <1>21 DEF Indexed
  <2>2. l > 0
    BY <1>1, <1>21, <2>1 DEF IInv, Stack
  <2>3. sent - f.serial \in 0..(Round - 2) /\ sent' - f.serial = (sent - f.serial) + 1
    BY <1>1, <1>2, <1>7, <1>21, <2>1, SMTT(30)
  <2>4. f.idx = Back(i, sent' - f.serial)
    BY <1>5, <2>1, <2>2, <2>3
  <2> QED BY <1>1, <1>7, <1>8, <1>21, <2>1, <2>4
<1>22. ASSUME NEW n \in 1..Len(wire')
       PROVE  /\ wire'[n].serial \in Nat /\ wire'[n].serial + WireDelay >= sent'
              /\ wire'[n].serial > 0 /\ wire'[n].serial <= sent'
              /\ wire'[n].idx = Back(port'.lastidx, sent' - wire'[n].serial)
  <2>1. CASE /\ n + k \in 1..Len(wire) /\ wire'[n] = wire[n + k]
             /\ wire'[n].serial + WireDelay >= sent + 1
    <3>1. Indexed(wire[n + k]) /\ wire[n + k].serial + WireDelay >= sent
      BY <2>1 DEF IInv, WireInv
    <3>2. wire[n + k].serial \in Nat /\ wire[n + k].serial + WireDelay >= sent'
      BY <1>1, <1>7, <2>1
    <3>3. sent - wire[n + k].serial <= Round - 2
      <4>1. sent \in Nat /\ wire[n + k].serial \in Nat
        BY <1>1, <2>1
      <4>2. wire[n + k].serial + WireDelay >= sent
        BY <3>1
      <4> QED BY ONLY <1>2, <4>1, <4>2
    <3> QED BY <1>21, <2>1, <3>1, <3>2, <3>3
  <2>2. CASE wire'[n] = frame
    <3>1. sent' - frame.serial = 0
      BY <1>1, <1>7, <1>12
    <3> QED BY <1>1, <1>2, <1>5, <1>7, <1>8, <1>12, <2>2, <3>1
  <2> QED BY <1>17, <2>1, <2>2
<1>23. WireInv'
  <2>1. ASSUME NEW m \in 1..Len(wire'), NEW n \in 1..Len(wire'), m < n
        PROVE  wire'[m].serial < wire'[n].serial
    <3>1. m \in 1..(Len(wire) - k) /\ m + k \in 1..Len(wire) /\ wire'[m] = wire[m + k]
      BY <1>14, <1>15, <1>17, <2>1
    <3>2. CASE n \in 1..(Len(wire) - k) /\ n + k \in 1..Len(wire) /\ wire'[n] = wire[n + k]
      <4>1. m + k < n + k
        BY <2>1
      <4> QED BY <3>1, <3>2, <4>1 DEF IInv, WireInv
    <3>3. CASE wire'[n] = frame
      <4>1. wire[m + k].serial <= sent /\ wire[m + k].serial \in Nat
        BY <1>1, <3>1 DEF IInv, WireInv, Indexed
      <4> QED BY <1>1, <1>12, <3>1, <3>3, <4>1
    <3> QED BY <1>17, <3>2, <3>3
  <2> QED BY <1>22, <2>1 DEF WireInv, Indexed
<1>24. ASSUME NEW n \in 0..(rx.count - 1)
       PROVE  /\ Nth(rx, n).serial > 0 /\ Nth(rx, n).serial <= sent
              /\ Nth(rx, n).serial <= sent'
              /\ Nth(rx, n).idx = Back(port'.lastidx, sent' - Nth(rx, n).serial)
  <2>1. Indexed(Nth(rx, n)) /\ Nth(rx, n).serial \in Nat
    BY <1>1 DEF IInv, RingInv, InRing
  <2>2. Nth(rx, n).serial + WireDelay - n >= sent - Waiting
    BY DEF IInv, RingInv, Aged
  <2>3. sent - Nth(rx, n).serial <= Round - 2
    BY <1>1, <1>2, <1>3, <2>1, <2>2
  <2> QED BY <1>21, <2>1, <2>3
<1>25. RingInv'
  <2>1. \A n \in 0..(rx.count - 1), v \in 1..Len(wire') : Nth(rx, n).serial < wire'[v].serial
    <3> TAKE n \in 0..(rx.count - 1), v \in 1..Len(wire')
    <3>1. CASE v + k \in 1..Len(wire) /\ wire'[v] = wire[v + k]
      BY <3>1 DEF IInv, RingInv, InRing
    <3>2. CASE wire'[v] = frame
      BY <1>1, <1>12, <1>24, <3>2
    <3> QED BY <1>17, <3>1, <3>2
  <2>2. InRing(rx)'
    BY <1>24, <2>1 DEF IInv, RingInv, InRing, Indexed, Nth, At
  <2>3. sent' - Waiting' = sent - Waiting
    BY <1>1, <1>7, <1>10
  <2>4. Aged(rx, sent - Waiting)' 
    BY <2>3 DEF IInv, RingInv, Aged, Nth, At
  <2> QED BY <1>9, <2>2, <2>4 DEF RingInv
<1>26. Answered'
  <2> SUFFICES ASSUME NEW j \in 1..Waiting', port'.rxbufstat[soem'.idxstack[j]] = "RCVD"
               PROVE  /\ port'.rxbuf[soem'.idxstack[j]].serial = Serial(j)'
                      /\ \A n \in 0..(rx'.count - 1) : Nth(rx', n).serial > Serial(j)'
                      /\ \A v \in 1..Len(wire') : wire'[v].serial > Serial(j)'
    BY DEF Answered, AnsweredIn, Nth, At
  <2>1. j \in 1..Waiting
    BY <1>1, <1>6, <1>8, <1>10
  <2>2. soem'.idxstack[j] = soem.idxstack[j] /\ soem.idxstack[j] \in Indices
    BY <1>1, <1>2, <1>10, <2>1, SMTT(30) DEF Indices, Waiting
  <2>3. port.rxbufstat[soem.idxstack[j]] = "RCVD"
    BY <1>4, <1>8, <2>1, <2>2
  <2>4. Serial(j)' = Serial(j) /\ Serial(j) <= sent /\ Serial(j) \in Int
    <3>1. Len(soem'.idxstack) = Len(soem.idxstack) + 1 /\ Len(soem.idxstack) \in Nat
      BY <1>1, <1>10 DEF Waiting
    <3>2. j \in 1..Len(soem.idxstack)
      BY <2>1 DEF Waiting
    <3>3. Serial(j)' = sent' - Len(soem'.idxstack) + j
      BY DEF Serial
    <3>4. sent' = sent + 1 /\ sent \in Nat /\ Serial(j) = sent - Len(soem.idxstack) + j
      BY <1>1, <1>7 DEF Serial
    <3> QED BY ONLY <3>1, <3>2, <3>3, <3>4
  <2>5. /\ port.rxbuf[soem.idxstack[j]].serial = Serial(j)
        /\ \A n \in 0..(rx.count - 1) : Nth(rx, n).serial > Serial(j)
        /\ \A v \in 1..Len(wire) : wire[v].serial > Serial(j)
    BY <2>1, <2>3 DEF IInv, Answered, AnsweredIn
  <2>6. ASSUME NEW v \in 1..Len(wire')
        PROVE  wire'[v].serial > Serial(j)
    <3>1. CASE v + k \in 1..Len(wire) /\ wire'[v] = wire[v + k]
      BY <2>5, <3>1
    <3>2. CASE wire'[v] = frame
      BY <1>1, <1>12, <2>4, <3>2
    <3> QED BY <1>17, <3>1, <3>2
  <2> QED BY <1>8, <2>2, <2>4, <2>5, <2>6
<1> QED BY <1>18, <1>19, <1>20, <1>23, <1>25, <1>26 DEF IInv

(* The bus loses its oldest frame.                                         *)
LEMMA LosesIInv ==
  ASSUME IInv, Loses
  PROVE  IInv'
<1>1. /\ UNCHANGED <<port, rx, soem, sent>>
      /\ wire \in Seq(Frame) /\ wire # <<>> /\ wire' = Tail(wire)
  BY DEF IInv, Typed, Loses
<1>2. /\ wire' \in Seq(Frame) /\ Len(wire') = Len(wire) - 1 /\ Len(wire) \in Nat
      /\ \A n \in 1..Len(wire') : n + 1 \in 1..Len(wire) /\ wire'[n] = wire[n + 1]
  BY <1>1
<1>3. Typed' /\ Stack' /\ BuffersInUse'
  BY <1>1, <1>2 DEF IInv, Typed, Stack, BuffersInUse, Waiting
<1>4. WireInv'
  BY <1>1, <1>2 DEF IInv, WireInv, Indexed
<1>5. RingInv'
  <2>1. InRing(rx)'
    BY <1>1, <1>2 DEF IInv, RingInv, InRing, Indexed, Nth, At
  <2>2. Aged(rx, sent - Waiting)' /\ (soem.pc = "srconfirm" /\ soem.waited => Aged(rx, sent))'
    BY <1>1 DEF IInv, RingInv, Aged, Nth, At, Waiting
  <2> QED BY <2>1, <2>2 DEF RingInv
<1>6. Answered'
  BY <1>1, <1>2 DEF IInv, Answered, AnsweredIn, Serial, Nth, At, Waiting
<1> QED BY <1>3, <1>4, <1>5, <1>6 DEF IInv

(* ethercat_netif_callback moves a frame from the bus to the ring: it is   *)
(* younger than those already there by at least the places between.        *)
LEMMA CallbackIInv ==
  ASSUME IInv, ethercat_netif_callback
  PROVE  IInv'
<1> DEFINE frame == wire[1]
<1>1. /\ UNCHANGED <<port, soem, sent>>
      /\ wire \in Seq(Frame) /\ wire # <<>> /\ wire' = Tail(wire)
  BY DEF IInv, Typed, ethercat_netif_callback
<1>2. /\ wire' \in Seq(Frame) /\ Len(wire') = Len(wire) - 1 /\ Len(wire) \in Nat
      /\ 1 \in 1..Len(wire) /\ frame \in Frame
      /\ \A n \in 1..Len(wire') : n + 1 \in 1..Len(wire) /\ wire'[n] = wire[n + 1]
  BY <1>1
<1>3. rx' = ethercat_rx_queue_push(rx, frame)
  BY <1>1 DEF ethercat_netif_callback
<1>4. rx \in Ring /\ rx.head = At(rx, rx.count)
  BY DEF IInv, Typed, RingInv, InRing
<1>5. rx' \in Ring /\ rx'.head = At(rx', rx'.count)
  BY <1>2, <1>3, <1>4, PushPositions
<1>6. PICK s \in {0, 1} : Pushed(rx, rx', s, frame)
  BY <1>2, <1>3, <1>4, PushPositions
<1>7. /\ sent \in Nat /\ rx.count \in Nat /\ Waiting \in Nat
      /\ \A n \in 1..Len(wire) : wire[n].serial \in Nat
      /\ \A n \in 0..(rx.count - 1) : Nth(rx, n).serial \in Nat
      /\ WireDelay \in Nat
  BY Parts, SizeType, NicAssumption DEF IInv, NicAssumption
<1>8. /\ rx'.count = rx.count + 1 - s
      /\ \A n \in 0..(rx'.count - 2) : n + s \in 0..(rx.count - 1) /\ Nth(rx', n) = Nth(rx, n + s)
      /\ Nth(rx', rx'.count - 1) = frame
  BY <1>6, <1>7 DEF Pushed
<1>9. \A n \in 0..(rx'.count - 1) :
        \/ /\ n \in 0..(rx'.count - 2) /\ n + s \in 0..(rx.count - 1)
           /\ Nth(rx', n) = Nth(rx, n + s)
        \/ n = rx.count - s /\ n = rx'.count - 1 /\ Nth(rx', n) = frame
  <2> TAKE n \in 0..(rx'.count - 1)
  <2>1. CASE n = rx'.count - 1
    BY <1>7, <1>8, <2>1
  <2>2. CASE n \in 0..(rx'.count - 2)
    BY <1>8, <2>2
  <2> QED BY <1>7, <1>8, <2>1, <2>2
<1>10. /\ Indexed(frame) /\ frame.serial + WireDelay >= sent /\ frame.serial \in Nat
       /\ \A n \in 0..(rx.count - 1) : Nth(rx, n).serial < frame.serial
       /\ \A n \in 2..Len(wire) : frame.serial < wire[n].serial
  BY <1>2, <1>7 DEF IInv, WireInv, RingInv, InRing
<1> HIDE DEF frame
<1>11. Typed' /\ Stack' /\ BuffersInUse'
  BY <1>1, <1>2, <1>5 DEF IInv, Typed, Stack, BuffersInUse, Waiting
<1>12. WireInv'
  BY <1>1, <1>2 DEF IInv, WireInv, Indexed
(* The order in the ring, as a bound from each frame to the new one. *)
<1>13. \A n \in 0..(rx.count - 1) : Nth(rx, n).serial + rx.count - n <= frame.serial
  <2> TAKE n \in 0..(rx.count - 1)
  <2>1. rx.count - 1 \in 0..(rx.count - 1) /\ n <= rx.count - 1
    BY <1>7
  <2>2. Nth(rx, n).serial + (rx.count - 1) - n <= Nth(rx, rx.count - 1).serial
    BY <2>1 DEF IInv, RingInv, InRing
  <2>3. Nth(rx, rx.count - 1).serial < frame.serial
    BY <1>10, <2>1
  <2>4. /\ Nth(rx, n).serial \in Nat /\ Nth(rx, rx.count - 1).serial \in Nat
        /\ frame.serial \in Nat /\ rx.count \in Nat
    BY <1>7, <1>10, <2>1
  <2> QED BY ONLY <2>2, <2>3, <2>4
<1>14. ASSUME NEW b \in Int, b <= sent, Aged(rx, b)
       PROVE  \A n \in 0..(rx'.count - 1) : Nth(rx', n).serial + WireDelay - n >= b
  <2> TAKE n \in 0..(rx'.count - 1)
  <2>1. CASE n + s \in 0..(rx.count - 1) /\ Nth(rx', n) = Nth(rx, n + s)
    <3>1. Nth(rx, n + s).serial + WireDelay - (n + s) >= b
      BY <1>14, <2>1 DEF Aged
    <3> QED BY <1>7, <2>1, <3>1
  <2>2. CASE n = rx.count - s /\ Nth(rx', n) = frame
    <3>1. CASE rx.count = 0
      BY <1>7, <1>10, <1>14, <2>2, <3>1
    <3>2. CASE rx.count > 0
      <4>1. 0 \in 0..(rx.count - 1)
        BY <1>7, <3>2
      <4>2. Nth(rx, 0).serial + WireDelay - 0 >= b /\ Nth(rx, 0).serial + rx.count - 0 <= frame.serial
        BY <1>13, <1>14, <4>1 DEF Aged
      <4>3. Nth(rx, 0).serial \in Nat
        BY <1>7, <4>1
      <4>4. /\ frame.serial \in Nat /\ WireDelay \in Nat /\ rx.count \in Nat /\ s \in {0, 1}
            /\ n = rx.count - s /\ b \in Int
        BY <1>7, <1>10, <1>14, <2>2
      <4>5. frame.serial + WireDelay - n >= b
        BY ONLY <4>2, <4>3, <4>4
      <4> QED BY <2>2, <4>5
    <3> QED BY <1>7, <3>1, <3>2
  <2> QED BY <1>9, <2>1, <2>2
<1>15. RingInv'
  <2>1. \A n \in 0..(rx'.count - 1) :
          /\ Nth(rx', n).serial > 0 /\ Nth(rx', n).serial <= sent
          /\ Nth(rx', n).idx = Back(port.lastidx, sent - Nth(rx', n).serial)
    BY <1>9, <1>10 DEF IInv, RingInv, InRing, Indexed
  <2>2. ASSUME NEW m \in 0..(rx'.count - 1), NEW n \in 0..(rx'.count - 1), m <= n
        PROVE  Nth(rx', m).serial + n - m <= Nth(rx', n).serial
    <3>1. CASE m = n
      <4>1. Nth(rx', n).serial \in Nat
        BY <1>7, <1>9, <1>10
      <4> QED BY <3>1, <4>1
    <3>2. CASE m < n
      <4>1. m + s \in 0..(rx.count - 1) /\ Nth(rx', m) = Nth(rx, m + s)
        BY <1>7, <1>8, <3>2
      <4>2. CASE n + s \in 0..(rx.count - 1) /\ Nth(rx', n) = Nth(rx, n + s)
        <5>1. m + s <= n + s
          BY <3>2
        <5>2. Nth(rx, m + s).serial + (n + s) - (m + s) <= Nth(rx, n + s).serial
          BY <4>1, <4>2, <5>1 DEF IInv, RingInv, InRing
        <5> QED BY <1>7, <4>1, <4>2, <5>2
      <4>3. CASE n = rx.count - s /\ Nth(rx', n) = frame
        <5>1. Nth(rx, m + s).serial + rx.count - (m + s) <= frame.serial
          BY <1>13, <4>1
        <5> QED BY <1>7, <1>10, <4>1, <4>3, <5>1
      <4> QED BY <1>9, <4>2, <4>3
    <3> QED BY <2>2, <3>1, <3>2
  <2>3. \A n \in 0..(rx'.count - 1), w \in 1..Len(wire') : Nth(rx', n).serial < wire'[w].serial
    <3> TAKE n \in 0..(rx'.count - 1), w \in 1..Len(wire')
    <3>1. w + 1 \in 2..Len(wire) /\ w + 1 \in 1..Len(wire) /\ wire'[w] = wire[w + 1]
      BY <1>2
    <3>2. CASE n + s \in 0..(rx.count - 1) /\ Nth(rx', n) = Nth(rx, n + s)
      BY <3>1, <3>2 DEF IInv, RingInv, InRing
    <3>3. CASE Nth(rx', n) = frame
      BY <1>10, <3>1, <3>3
    <3> QED BY <1>9, <3>2, <3>3
  <2>4. InRing(rx)'
    BY <1>1, <1>5, <2>1, <2>2, <2>3 DEF InRing, Indexed, Nth, At
  <2>5. Aged(rx, sent - Waiting)'
    <3>1. Aged(rx, sent - Waiting) /\ sent - Waiting \in Int /\ sent - Waiting <= sent
      BY <1>7 DEF IInv, RingInv
    <3>2. \A n \in 0..(rx'.count - 1) : Nth(rx', n).serial + WireDelay - n >= sent - Waiting
      BY <1>14, <3>1
    <3> QED BY <1>1, <3>2 DEF Aged, Nth, At, Waiting
  <2>6. (soem.pc = "srconfirm" /\ soem.waited => Aged(rx, sent))'
    <3>1. sent \in Int /\ sent <= sent
      BY <1>7
    <3>2. Aged(rx, sent) => \A n \in 0..(rx'.count - 1) : Nth(rx', n).serial + WireDelay - n >= sent
      BY <1>14, <3>1
    <3> QED BY <1>1, <3>2 DEF IInv, RingInv, Aged, Nth, At
  <2> QED BY <2>4, <2>5, <2>6 DEF RingInv
<1>16. Answered'
  <2> SUFFICES ASSUME NEW j \in 1..Waiting, port.rxbufstat[soem.idxstack[j]] = "RCVD"
               PROVE  /\ port.rxbuf[soem.idxstack[j]].serial = Serial(j)
                      /\ \A n \in 0..(rx'.count - 1) : Nth(rx', n).serial > Serial(j)
                      /\ \A v \in 1..Len(wire') : wire'[v].serial > Serial(j)
    BY <1>1 DEF Answered, AnsweredIn, Nth, At, Waiting, Serial
  <2>1. /\ port.rxbuf[soem.idxstack[j]].serial = Serial(j)
        /\ \A n \in 0..(rx.count - 1) : Nth(rx, n).serial > Serial(j)
        /\ \A v \in 1..Len(wire) : wire[v].serial > Serial(j)
    BY DEF IInv, Answered, AnsweredIn
  <2>2. frame.serial > Serial(j)
    BY <1>2, <2>1 DEF frame
  <2> QED BY <1>2, <1>9, <2>1, <2>2
<1> QED BY <1>11, <1>12, <1>15, <1>16 DEF IInv

-----------------------------------------------------------------------------
(* Waiting for an answer, and giving its buffer back.                      *)

(* What port p and ring q are when the oldest request may be given up: its *)
(* end costs the ring no age.                                              *)
Waited(p, q) ==
  /\ p \in Port /\ q \in Ring
  /\ p.lastidx = port.lastidx
  /\ \A i \in Indices : p.rxbufstat[i] = "EMPTY" <=> port.rxbufstat[i] = "EMPTY"
  /\ InRing(q)
  /\ AnsweredIn(p, q)
  /\ Aged(q, sent - Waiting + 1)

(* With the answer of the oldest request in its buffer the ring holds only *)
(* younger frames.                                                         *)
LEMMA AnsweredIsWaited ==
  ASSUME IInv, Waiting > 0,
         port.rxbufstat[soem.idxstack[1]] = "RCVD" \/ rx.count = 0
  PROVE  Waited(port, rx)
<1>1. /\ sent \in Nat /\ rx.count \in Nat /\ Waiting \in Nat /\ WireDelay \in Nat
      /\ \A n \in 0..(rx.count - 1) : Nth(rx, n).serial \in Nat
  BY Parts, SizeType, NicAssumption DEF IInv, NicAssumption
<1>2. ASSUME NEW n \in 0..(rx.count - 1)
      PROVE  Nth(rx, n).serial + WireDelay - n >= sent - Waiting + 1
  <2>1. 0 \in 0..(rx.count - 1) /\ 0 <= n /\ rx.count # 0 /\ 1 \in 1..Waiting
    BY <1>1
  <2>2. Nth(rx, 0).serial > Serial(1)
    BY <2>1 DEF IInv, Answered, AnsweredIn
  <2>3. Nth(rx, 0).serial + n - 0 <= Nth(rx, n).serial
    BY <2>1 DEF IInv, RingInv, InRing
  <2>4. Nth(rx, 0).serial \in Nat /\ Nth(rx, n).serial \in Nat /\ Serial(1) = sent - Waiting + 1
    BY <1>1, <2>1 DEF Serial, Waiting
  <2> QED BY <1>1, <2>2, <2>3, <2>4
<1> QED BY <1>2 DEF Waited, IInv, Typed, RingInv, Answered, Aged

(* A frame taken from the ring that matches a buffer in use answers the    *)
(* request whose buffer it is: a whole round lies between two requests     *)
(* with one index, and the ring holds nothing that old.                    *)
LEMMA MatchIsOwn ==
  ASSUME IInv, rx.count > 0, Matches(port, Nth(rx, 0))
  PROVE  \E j \in 1..Waiting :
           Nth(rx, 0).idx = soem.idxstack[j] /\ Nth(rx, 0).serial = Serial(j)
<1> DEFINE f == Nth(rx, 0)
           l == port.lastidx
<1>1. /\ l \in 0..Round /\ sent \in Nat /\ rx.count \in Nat /\ Waiting \in Nat
      /\ \A n \in 0..(rx.count - 1) : Nth(rx, n) \in Frame /\ Nth(rx, n).serial \in Nat
  BY Parts, SizeType DEF IInv
<1>2. /\ Segments \in Nat /\ Round \in Nat /\ WireDelay \in Nat
      /\ Segments + WireDelay <= Round - 1
  BY NicAssumption DEF NicAssumption, Round
<1>3. 0 \in 0..(rx.count - 1)
  BY <1>1
<1>4. f.serial \in Nat /\ f.idx \in Indices
  BY <1>1, <1>3 DEF Frame
<1>5. f.serial > 0 /\ f.serial <= sent /\ f.idx = Back(l, sent - f.serial)
  BY <1>3 DEF IInv, RingInv, InRing, Indexed
<1>6. f.serial + WireDelay - 0 >= sent - Waiting /\ Waiting <= Segments
  BY <1>3 DEF IInv, RingInv, Aged, Stack
<1>7. sent - f.serial \in 0..(Round - 1)
  BY <1>1, <1>2, <1>4, <1>5, <1>6
<1>8. port.rxbufstat[f.idx] # "EMPTY"
  BY DEF Matches
<1>9. PICK j \in 1..Waiting : f.idx = soem.idxstack[j]
  BY <1>4, <1>8 DEF IInv, BuffersInUse, Waiting
<1>10. f.idx = Back(l, Waiting - j) /\ Waiting - j \in 0..(Round - 1) /\ l \in 1..Round
  BY <1>1, <1>2, <1>4, <1>5, <1>6, <1>9 DEF IInv, Stack
<1> HIDE DEF f, l
<1>11. sent - f.serial = Waiting - j
  BY <1>5, <1>7, <1>10, BackIsIndex
<1>12. f.serial = Serial(j)
  <2>1. Serial(j) = sent - Waiting + j
    BY DEF Serial, Waiting
  <2> QED BY <1>1, <1>4, <1>11, <2>1
<1> QED BY <1>9, <1>12 DEF f

(* One wait of ecx_waitinframe for the oldest request.                     *)
LEMMA WaitIsWaited ==
  ASSUME IInv, Waiting > 0
  PROVE  LET after == ecx_waitinframe(port, rx, soem.idxstack[1])
         IN Waited(after.port, after.rx)
<1> DEFINE after == ecx_waitinframe(port, rx, soem.idxstack[1])
<1>1. CASE port.rxbufstat[soem.idxstack[1]] = "RCVD" \/ rx.count = 0
  <2>1. after.port = port /\ after.rx = rx
    BY <1>1 DEF ecx_waitinframe
  <2>2. Waited(port, rx)
    BY <1>1, AnsweredIsWaited
  <2> QED BY <2>1, <2>2
<1>2. CASE port.rxbufstat[soem.idxstack[1]] # "RCVD" /\ rx.count # 0
  <2> DEFINE f == Nth(rx, 0)
             q == ethercat_rx_queue_pop(rx)
             p == after.port
  <2>1. /\ rx \in Ring /\ rx.head = At(rx, rx.count) /\ rx.count > 0 /\ rx.count \in Nat
        /\ rx.tail \in 0..(Size - 1)
    BY <1>2, SizeType DEF IInv, Typed, RingInv, InRing, Ring
  <2>2. rx.queue[rx.tail] = f
    BY <2>1, SizeType DEF Nth, At
  <2>3. /\ p = IF Matches(port, f)
               THEN [port EXCEPT !.rxbuf[f.idx] = f, !.rxbufstat[f.idx] = "RCVD"]
               ELSE port
        /\ after.rx = q
    BY <1>2, <2>2 DEF ecx_waitinframe
  <2> HIDE DEF after, p
  <2>4. /\ q \in Ring /\ q.head = At(q, q.count) /\ q.count = rx.count - 1
        /\ \A n \in 0..(q.count - 1) : Nth(q, n) = Nth(rx, n + 1)
    BY <2>1, PopPositions
  <2> HIDE DEF q
  <2>5. /\ sent \in Nat /\ Waiting \in Nat /\ WireDelay \in Nat
        /\ \A n \in 0..(rx.count - 1) : Nth(rx, n) \in Frame /\ Nth(rx, n).serial \in Nat
        /\ port \in Port
    BY Parts, NicAssumption DEF IInv, Typed, NicAssumption
  <2>6. \A n \in 0..(q.count - 1) : n + 1 \in 0..(rx.count - 1) /\ Nth(q, n) = Nth(rx, n + 1)
    BY <2>1, <2>4
  <2>7. 0 \in 0..(rx.count - 1)
    BY <2>1
  <2>8. InRing(q)
    <3>1. \A n \in 0..(q.count - 1) : Indexed(Nth(q, n))
      BY <2>6 DEF IInv, RingInv, InRing
    <3>2. ASSUME NEW m \in 0..(q.count - 1), NEW n \in 0..(q.count - 1), m <= n
          PROVE  Nth(q, m).serial + n - m <= Nth(q, n).serial
      <4>1. m + 1 \in 0..(rx.count - 1) /\ n + 1 \in 0..(rx.count - 1) /\ m + 1 <= n + 1
        BY <2>6, <3>2
      <4>2. Nth(rx, m + 1).serial + (n + 1) - (m + 1) <= Nth(rx, n + 1).serial
        BY <4>1 DEF IInv, RingInv, InRing
      <4>3. Nth(rx, m + 1).serial \in Nat /\ Nth(rx, n + 1).serial \in Nat
        BY <2>5, <4>1
      <4>4. Nth(rx, m + 1).serial + n - m <= Nth(rx, n + 1).serial
        BY <4>2, <4>3
      <4> QED BY <2>6, <4>4
    <3>3. \A n \in 0..(q.count - 1), w \in 1..Len(wire) : Nth(q, n).serial < wire[w].serial
      BY <2>6 DEF IInv, RingInv, InRing
    <3> QED BY <2>4, <3>1, <3>2, <3>3 DEF InRing
  <2>9. Aged(q, sent - Waiting + 1)
    <3> SUFFICES ASSUME NEW n \in 0..(q.count - 1)
                 PROVE  Nth(q, n).serial + WireDelay - n >= sent - Waiting + 1
      BY DEF Aged
    <3>1. n + 1 \in 0..(rx.count - 1) /\ Nth(q, n) = Nth(rx, n + 1)
      BY <2>6
    <3>2. Nth(rx, n + 1).serial + WireDelay - (n + 1) >= sent - Waiting
      BY <3>1 DEF IInv, RingInv, Aged
    <3> QED BY <2>5, <3>1, <3>2
  <2>10. ASSUME NEW n \in 0..(q.count - 1)
         PROVE  Nth(q, n).serial > f.serial
    <3>1. n + 1 \in 0..(rx.count - 1) /\ Nth(q, n) = Nth(rx, n + 1) /\ 0 <= n + 1
      BY <2>6
    <3>2. f.serial + (n + 1) - 0 <= Nth(rx, n + 1).serial
      BY <2>7, <3>1 DEF IInv, RingInv, InRing
    <3>3. f.serial \in Nat /\ Nth(rx, n + 1).serial \in Nat
      BY <2>5, <2>7, <3>1
    <3> QED BY <3>1, <3>2, <3>3
  <2>11. \A w \in 1..Len(wire) : wire[w].serial > f.serial
    BY <2>7, Parts DEF IInv, RingInv, InRing
  <2>12. f \in Frame /\ f.idx \in Indices
    BY <2>5, <2>7 DEF Frame
  <2> HIDE DEF f
  <2>13. CASE Matches(port, f)
    <3>1. PICK j \in 1..Waiting : f.idx = soem.idxstack[j] /\ f.serial = Serial(j)
      BY <2>1, <2>13, MatchIsOwn DEF f
    <3>2. /\ p \in Port /\ p.lastidx = port.lastidx
          /\ \A x \in Indices :
               /\ p.rxbuf[x] = IF x = f.idx THEN f ELSE port.rxbuf[x]
               /\ p.rxbufstat[x] = IF x = f.idx THEN "RCVD" ELSE port.rxbufstat[x]
      <4>1. p = [port EXCEPT !.rxbuf[f.idx] = f, !.rxbufstat[f.idx] = "RCVD"]
        BY <2>3, <2>13
      <4> QED BY ONLY <2>5, <2>12, <4>1 DEF Port
    <3>3. port.rxbufstat[f.idx] # "EMPTY"
      BY <2>13 DEF Matches
    <3>4. AnsweredIn(p, q)
      <4> SUFFICES ASSUME NEW m \in 1..Waiting, p.rxbufstat[soem.idxstack[m]] = "RCVD"
                   PROVE  /\ p.rxbuf[soem.idxstack[m]].serial = Serial(m)
                          /\ \A n \in 0..(q.count - 1) : Nth(q, n).serial > Serial(m)
                          /\ \A w \in 1..Len(wire) : wire[w].serial > Serial(m)
        BY DEF AnsweredIn
      <4>1. CASE m = j
        BY <2>10, <2>11, <2>12, <3>1, <3>2, <4>1
      <4>2. CASE m # j
        <5>1. soem.idxstack[m] # f.idx
          BY <3>1, <4>2 DEF IInv, BuffersInUse, Waiting
        <5>2. soem.idxstack[m] \in Indices
          BY DEF IInv, BuffersInUse, Waiting
        <5>3. port.rxbufstat[soem.idxstack[m]] = "RCVD"
          BY <3>2, <5>1, <5>2
        <5>4. /\ port.rxbuf[soem.idxstack[m]].serial = Serial(m)
              /\ \A n \in 0..(rx.count - 1) : Nth(rx, n).serial > Serial(m)
              /\ \A w \in 1..Len(wire) : wire[w].serial > Serial(m)
          BY <5>3 DEF IInv, Answered, AnsweredIn
        <5> QED BY <2>6, <3>2, <5>1, <5>2, <5>4
      <4> QED BY <4>1, <4>2
    <3>5. \A i \in Indices : p.rxbufstat[i] = "EMPTY" <=> port.rxbufstat[i] = "EMPTY"
      BY <3>2, <3>3
    <3>6. Waited(p, q)
      BY <2>4, <2>8, <2>9, <3>2, <3>4, <3>5 DEF Waited
    <3> QED BY ONLY <2>3, <3>6, Zenon DEF p, after
  <2>14. CASE ~Matches(port, f)
    <3>1. p = port
      BY <2>3, <2>14
    <3>2. AnsweredIn(p, q)
      BY <2>6, <3>1 DEF IInv, Answered, AnsweredIn
    <3>3. Waited(p, q)
      BY <2>4, <2>5, <2>8, <2>9, <3>1, <3>2 DEF Waited
    <3> QED BY ONLY <2>3, <3>3, Zenon DEF p, after
  <2> QED BY <2>13, <2>14
<1> QED BY <1>1, <1>2

(* What is left of a sequence without its first element.                   *)
LEMMA TailFacts ==
  ASSUME NEW S, NEW s \in Seq(S), s # <<>>
  PROVE  /\ Tail(s) \in Seq(S) /\ Len(Tail(s)) = Len(s) - 1
         /\ \A j \in 1..(Len(s) - 1) : Tail(s)[j] = s[j + 1]
OBVIOUS

(* A sequence of length 0 is empty.                                        *)
LEMMA EmptySequence ==
  ASSUME NEW S, NEW s \in Seq(S), Len(s) = 0
  PROVE  s = <<>>
OBVIOUS

(* The buffer of the oldest request is given back.                         *)
LEMMA ReleaseIInv ==
  ASSUME IInv, Waiting > 0, NEW p, NEW q, Waited(p, q),
         port' = ecx_setbufstat(p, soem.idxstack[1], "EMPTY"), rx' = q,
         UNCHANGED <<wire, sent>>,
         NEW pc \in {"idle", "receiving"}, NEW waited \in BOOLEAN,
         soem' = [pc |-> pc, waited |-> waited, idxstack |-> Tail(soem.idxstack)],
         pc = "idle" <=> Waiting = 1
  PROVE  IInv'
<1> DEFINE first == soem.idxstack[1]
           stack == Tail(soem.idxstack)
<1>1. /\ sent \in Nat /\ Waiting \in Nat /\ soem.idxstack \in Seq(1..Round)
      /\ Round \in Nat /\ Segments \in Nat /\ Indices = 0..Round
  BY Parts, SizeType, NicAssumption DEF IInv, Indices, Round, NicAssumption
<1>2. /\ first \in 1..Round /\ first \in Indices
      /\ stack \in Seq(1..Round) /\ Len(stack) = Waiting - 1
      /\ \A j \in 1..Len(stack) : j + 1 \in 1..Waiting /\ stack[j] = soem.idxstack[j + 1]
  <2>1. soem.idxstack # <<>> /\ Len(soem.idxstack) = Waiting /\ 1 \in 1..Waiting
    BY <1>1 DEF Waiting
  <2>2. first \in 1..Round
    BY <1>1, <2>1
  <2>3. /\ stack \in Seq(1..Round) /\ Len(stack) = Waiting - 1
        /\ \A j \in 1..(Waiting - 1) : stack[j] = soem.idxstack[j + 1]
    <3>1. soem.idxstack \in Seq(1..Round) /\ soem.idxstack # <<>>
      BY <1>1, <2>1
    <3>2. /\ stack \in Seq(1..Round) /\ Len(stack) = Len(soem.idxstack) - 1
          /\ \A j \in 1..(Len(soem.idxstack) - 1) : stack[j] = soem.idxstack[j + 1]
      BY ONLY <3>1, TailFacts
    <3> QED BY ONLY <3>2 DEF Waiting
  <2> HIDE DEF stack, first
  <2> QED BY <1>1, <2>2, <2>3, SMTT(30)
<1>3. /\ \A j \in 1..Waiting : soem.idxstack[j] \in 1..Round /\ soem.idxstack[j] \in Indices
      /\ \A j \in 1..Waiting : j = 1 \/ (j - 1 \in 1..Len(stack) /\ soem.idxstack[j] = stack[j - 1])
  <2>1. Waiting = Len(soem.idxstack)
    BY DEF Waiting
  <2>2. \A j \in 1..Waiting : soem.idxstack[j] \in 1..Round
    BY ONLY <1>1, <2>1
  <2>3. 1..Round \subseteq Indices
    BY ONLY <1>1
  <2> HIDE DEF stack, first
  <2>4. ASSUME NEW j \in 1..Waiting, j # 1
        PROVE  j - 1 \in 1..Len(stack) /\ soem.idxstack[j] = stack[j - 1]
    <3>1. j - 1 \in 1..Len(stack) /\ (j - 1) + 1 = j
      BY ONLY <1>1, <1>2, <2>4
    <3> QED BY ONLY <1>2, <3>1
  <2> QED BY ONLY <2>2, <2>3, <2>4
<1> HIDE DEF stack, first
<1>4. /\ p \in Port /\ q \in Ring /\ p.lastidx = port.lastidx
      /\ \A i \in Indices : p.rxbufstat[i] = "EMPTY" <=> port.rxbufstat[i] = "EMPTY"
      /\ InRing(q) /\ AnsweredIn(p, q) /\ Aged(q, sent - Waiting + 1)
  BY DEF Waited
<1>5. /\ port' \in Port /\ port'.lastidx = port.lastidx /\ port'.rxbuf = p.rxbuf
      /\ \A x \in Indices : port'.rxbufstat[x] = IF x = first THEN "EMPTY" ELSE p.rxbufstat[x]
  <2>1. port' = [p EXCEPT !.rxbufstat[first] = "EMPTY"]
    BY DEF ecx_setbufstat, first
  <2> QED BY ONLY <1>2, <1>4, <2>1 DEF Port
<1>6. soem'.idxstack = stack /\ soem'.pc = pc /\ soem'.waited = waited
  BY DEF stack
<1>7. soem' \in [pc : {"idle", "sending", "receiving", "srconfirm"},
                waited : BOOLEAN, idxstack : Seq(1..Round)]
  BY <1>2 DEF stack
<1>8. Waiting' = Waiting - 1 /\ Len(stack) = Waiting'
  BY ONLY <1>2, <1>6 DEF Waiting
<1>9. Typed'
  BY <1>1, <1>4, <1>5, <1>7 DEF IInv, Typed
<1>10. Stack'
  <2>1. ASSUME NEW j \in 1..Waiting'
        PROVE  soem'.idxstack[j] = Back(port.lastidx, Waiting' - j)
    <3>1. soem.idxstack[j + 1] = Back(port.lastidx, Waiting - (j + 1)) /\ stack[j] = soem.idxstack[j + 1]
      BY <1>2, <1>8 DEF IInv, Stack
    <3>2. Waiting - (j + 1) = Waiting' - j
      BY <1>1, <1>8
    <3> QED BY <1>6, <3>1, <3>2
  <2>2. pc = "idle" <=> stack = <<>>
    BY <1>1, <1>2
  <2>3. Waiting' <= Segments /\ Waiting' <= sent
    BY <1>1, <1>8 DEF IInv, Stack
  <2>4. sent > 0 => port.lastidx > 0
    BY DEF IInv, Stack
  <2> QED BY <1>5, <1>6, <2>1, <2>2, <2>3, <2>4 DEF Stack
<1>11. \A j, k \in 1..Waiting : soem.idxstack[j] = soem.idxstack[k] => j = k
  BY DEF IInv, BuffersInUse, Waiting
<1>12. \A j \in 1..Len(stack) : stack[j] \in Indices /\ stack[j] # 0 /\ stack[j] # first
  <2> TAKE j \in 1..Len(stack)
  <2>1. j + 1 \in 1..Waiting /\ stack[j] = soem.idxstack[j + 1] /\ 1 \in 1..Waiting /\ j + 1 # 1
    BY <1>1, <1>2
  <2>2. soem.idxstack[j + 1] # soem.idxstack[1]
    BY <1>11, <2>1
  <2>3. soem.idxstack[j + 1] \in Indices /\ soem.idxstack[j + 1] # 0
    BY <1>1, <1>3, <2>1
  <2> QED BY <2>1, <2>2, <2>3 DEF first
<1>13. BuffersInUse'
  <2>1. ASSUME NEW x \in Indices
        PROVE  port'.rxbufstat[x] # "EMPTY" <=> \E j \in 1..Len(stack) : x = stack[j]
    <3>1. port.rxbufstat[x] # "EMPTY" <=> \E j \in 1..Waiting : x = soem.idxstack[j]
      BY DEF IInv, BuffersInUse, Waiting
    <3>2. CASE x = first
      BY <1>5, <1>12, <3>2
    <3>3. CASE x # first
      <4>1. (\E j \in 1..Waiting : x = soem.idxstack[j]) <=> \E j \in 1..Len(stack) : x = stack[j]
        <5>1. ASSUME NEW j \in 1..Waiting, x = soem.idxstack[j]
              PROVE  \E k \in 1..Len(stack) : x = stack[k]
          <6>1. j # 1
            BY <3>3, <5>1 DEF first
          <6> QED BY <1>3, <5>1, <6>1
        <5>2. ASSUME NEW j \in 1..Len(stack), x = stack[j]
              PROVE  \E k \in 1..Waiting : x = soem.idxstack[k]
          BY <1>2, <5>2
        <5> QED BY <5>1, <5>2, Zenon
      <4> QED BY <1>4, <1>5, <3>1, <3>3, <4>1
    <3> QED BY <3>2, <3>3
  <2>2. ASSUME NEW j \in 1..Len(stack), NEW k \in 1..Len(stack), stack[j] = stack[k]
        PROVE  j = k
    <3>1. j + 1 = k + 1
      BY <1>2, <1>11, <2>2, SMTT(30)
    <3> QED BY <3>1
  <2>3. {x \in Indices : port'.rxbufstat[x] # "EMPTY"} = {stack[j] : j \in 1..Len(stack)}
    BY <1>12, <2>1
  <2> QED BY ONLY <1>6, <1>12, <2>2, <2>3 DEF BuffersInUse
<1>14. WireInv'
  BY <1>5 DEF IInv, WireInv, Indexed
<1>15. RingInv'
  <2>1. InRing(rx)'
    BY <1>4, <1>5 DEF InRing, Indexed, Nth, At
  <2>2. sent' - Waiting' = sent - Waiting + 1
    BY <1>1, <1>8
  <2>3. Aged(rx, sent - Waiting)'
    BY <1>4, <2>2 DEF Aged, Nth, At
  <2> QED BY <1>6, <2>1, <2>3 DEF RingInv
<1>16. Answered'
  <2> SUFFICES ASSUME NEW j \in 1..Waiting', port'.rxbufstat[soem'.idxstack[j]] = "RCVD"
               PROVE  /\ port'.rxbuf[soem'.idxstack[j]].serial = Serial(j)'
                      /\ \A n \in 0..(rx'.count - 1) : Nth(rx', n).serial > Serial(j)'
                      /\ \A v \in 1..Len(wire') : wire'[v].serial > Serial(j)'
    BY DEF Answered, AnsweredIn, Nth, At
  <2>1. /\ j + 1 \in 1..Waiting /\ soem'.idxstack[j] = soem.idxstack[j + 1]
        /\ soem'.idxstack[j] \in Indices /\ soem'.idxstack[j] # first
    BY <1>2, <1>6, <1>8, <1>12
  <2>2. p.rxbufstat[soem.idxstack[j + 1]] = "RCVD"
    BY <1>5, <2>1
  <2>3. Serial(j)' = Serial(j + 1)
    <3>1. Serial(j)' = sent - Waiting' + j /\ Serial(j + 1) = sent - Waiting + (j + 1)
      BY DEF Serial, Waiting
    <3> QED BY <1>1, <1>8, <3>1
  <2>4. /\ p.rxbuf[soem.idxstack[j + 1]].serial = Serial(j + 1)
        /\ \A n \in 0..(q.count - 1) : Nth(q, n).serial > Serial(j + 1)
        /\ \A w \in 1..Len(wire) : wire[w].serial > Serial(j + 1)
    BY <1>4, <2>1, <2>2 DEF AnsweredIn
  <2> QED BY <1>5, <2>1, <2>3, <2>4
<1> QED BY <1>9, <1>10, <1>13, <1>14, <1>15, <1>16 DEF IInv

(* What the position of the task says of its index stack.                  *)
LEMMA Positions ==
  ASSUME IInv
  PROVE  /\ Waiting \in Nat /\ Len(soem.idxstack) = Waiting /\ soem.idxstack \in Seq(1..Round)
         /\ soem.pc = "idle" => Waiting = 0 /\ soem.idxstack = <<>>
         /\ soem.pc # "idle" => Waiting > 0
         /\ soem.pc = "srconfirm" => Waiting = 1
         /\ Waiting = 1 => Tail(soem.idxstack) = <<>>
<1>1. Waiting \in Nat /\ Len(soem.idxstack) = Waiting /\ soem.idxstack \in Seq(1..Round)
  BY Parts DEF IInv, Waiting
<1>2. soem.pc = "idle" => Waiting = 0 /\ soem.idxstack = <<>>
  BY DEF IInv, Stack, Waiting
<1>3. soem.pc # "idle" => Waiting > 0
  <2>1. soem.pc # "idle" => soem.idxstack # <<>>
    BY DEF IInv, Stack
  <2> QED BY <1>1, <2>1
<1>4. Waiting = 1 => Tail(soem.idxstack) = <<>>
  <2> SUFFICES ASSUME Waiting = 1 PROVE Tail(soem.idxstack) = <<>>
    OBVIOUS
  <2>1. soem.idxstack # <<>>
    BY <1>1
  <2>2. Tail(soem.idxstack) \in Seq(1..Round) /\ Len(Tail(soem.idxstack)) = 0
    <3>1. Tail(soem.idxstack) \in Seq(1..Round) /\ Len(Tail(soem.idxstack)) = Len(soem.idxstack) - 1
      BY ONLY <1>1, <2>1, TailFacts, Zenon
    <3> QED BY <1>1, <3>1
  <2> QED BY ONLY <2>2, EmptySequence, Zenon
<1> QED BY <1>1, <1>2, <1>3, <1>4 DEF IInv, Stack

(* A service sends its request.                                            *)
LEMMA ServiceSendsIInv ==
  ASSUME IInv, ServiceSends
  PROVE  IInv'
<1>1. /\ soem.pc = "idle" /\ Waiting = 0 /\ soem.idxstack = <<>>
      /\ Sends(ecx_getindex(port), "service") /\ rx' = rx
      /\ soem' = [pc |-> "srconfirm", waited |-> FALSE, idxstack |-> <<ecx_getindex(port)>>]
  BY Positions DEF ServiceSends
<1>2. <<ecx_getindex(port)>> = Append(soem.idxstack, ecx_getindex(port))
  BY <1>1
<1>3. soem' = [pc |-> "srconfirm", waited |-> FALSE,
               idxstack |-> Append(soem.idxstack, ecx_getindex(port))]
  BY <1>1, <1>2
<1> QED BY <1>1, <1>3, SendsIInv

(* A frame of process data is sent.                                        *)
LEMMA SendProcessdataIInv ==
  ASSUME IInv, SendProcessdata
  PROVE  IInv'
<1> DEFINE stack == Append(soem.idxstack, ecx_getindex(port))
           pc == IF Len(stack) < Segments THEN "sending" ELSE "receiving"
<1>1. /\ soem.pc \in {"idle", "sending"} /\ Sends(ecx_getindex(port), "LRW") /\ rx' = rx
      /\ soem' = [pc |-> pc, waited |-> FALSE, idxstack |-> stack]
  BY DEF SendProcessdata
<1>2. Len(stack) = Waiting + 1
  BY Positions
<1>3. pc \in {"sending", "receiving", "srconfirm"} /\ pc # "srconfirm"
      /\ (pc = "sending" => Waiting + 1 < Segments)
  BY <1>2
<1> HIDE DEF pc
<1> QED BY <1>1, <1>3, SendsIInv

(* A service waits for a frame.                                            *)
LEMMA ServiceWaitsIInv ==
  ASSUME IInv, ServiceWaits
  PROVE  IInv'
<1>1. /\ Waiting = 1 /\ soem.pc = "srconfirm" /\ UNCHANGED <<wire, sent>>
      /\ soem' = [soem EXCEPT !.waited = TRUE]
  BY Positions DEF ServiceWaits
<1>2. Waited(port', rx')
  BY <1>1, WaitIsWaited DEF ServiceWaits
<1>3. /\ port' \in Port /\ rx' \in Ring /\ port'.lastidx = port.lastidx
      /\ \A i \in Indices : port'.rxbufstat[i] = "EMPTY" <=> port.rxbufstat[i] = "EMPTY"
      /\ InRing(rx') /\ AnsweredIn(port', rx') /\ Aged(rx', sent - Waiting + 1)
  BY <1>2 DEF Waited
<1>4. /\ soem' \in [pc : {"idle", "sending", "receiving", "srconfirm"}, waited : BOOLEAN,
                    idxstack : Seq(1..Round)]
      /\ soem'.idxstack = soem.idxstack /\ soem'.pc = soem.pc
  BY <1>1 DEF IInv, Typed
<1>5. Typed'
  BY <1>1, <1>3, <1>4 DEF IInv, Typed
<1>6. Waiting' = Waiting
  BY <1>4 DEF Waiting
<1>7. Stack'
  BY <1>1, <1>3, <1>4, <1>6 DEF IInv, Stack
<1>8. BuffersInUse'
  BY <1>3, <1>4 DEF IInv, BuffersInUse
<1>9. WireInv'
  BY <1>1, <1>3 DEF IInv, WireInv, Indexed
<1>10. RingInv'
  <2>1. InRing(rx)'
    BY <1>1, <1>3 DEF InRing, Indexed, Nth, At
  <2>2. sent \in Nat /\ sent - Waiting + 1 = sent /\ WireDelay \in Nat /\ rx' \in Ring
    BY <1>1, <1>3, Parts, NicAssumption DEF IInv, NicAssumption
  <2>3. \A n \in 0..(rx'.count - 1) : Nth(rx', n).serial + WireDelay - n >= sent
    BY <1>3, <2>2 DEF Aged
  <2>4. Aged(rx, sent)'
    BY <1>1, <2>3 DEF Aged, Nth, At
  <2>5. Aged(rx, sent - Waiting)'
    <3>1. \A n \in 0..(rx'.count - 1) : Nth(rx', n).serial \in Nat
      BY <2>2, RingFrames
    <3>2. \A n \in 0..(rx'.count - 1) : Nth(rx', n).serial + WireDelay - n >= sent - Waiting
      BY <1>1, <2>2, <2>3, <3>1
    <3> QED BY <1>1, <1>6, <3>2 DEF Aged, Nth, At
  <2> QED BY <2>1, <2>4, <2>5 DEF RingInv
<1>11. Answered'
  BY <1>1, <1>3, <1>4, <1>6 DEF Answered, AnsweredIn, Serial, Nth, At
<1> QED BY <1>5, <1>7, <1>8, <1>9, <1>10, <1>11 DEF IInv

(* A service returns, with its answer or without.                          *)
LEMMA ServiceEndsIInv ==
  ASSUME IInv, ServiceConfirmed \/ ServiceTimesOut
  PROVE  IInv'
<1>1. /\ soem.pc = "srconfirm" /\ Waiting = 1 /\ Tail(soem.idxstack) = <<>>
      /\ port' = ecx_setbufstat(port, soem.idxstack[1], "EMPTY") /\ soem' = Idle
      /\ rx' = rx /\ UNCHANGED <<wire, sent>>
  BY Positions DEF ServiceConfirmed, ServiceTimesOut, Releases
<1>2. Waited(port, rx)
  <2>1. CASE ServiceConfirmed
    BY <1>1, <2>1, AnsweredIsWaited DEF ServiceConfirmed
  <2>2. CASE ServiceTimesOut
    <3>1. Aged(rx, sent)
      BY <1>1, <2>2 DEF ServiceTimesOut, IInv, RingInv
    <3>2. sent - Waiting + 1 = sent
      BY <1>1, Parts DEF IInv
    <3> QED BY <3>1, <3>2 DEF Waited, IInv, Typed, RingInv, Answered
  <2> QED BY <2>1, <2>2
<1>3. soem' = [pc |-> "idle", waited |-> FALSE, idxstack |-> Tail(soem.idxstack)]
  BY <1>1 DEF Idle
<1>4. Waiting > 0 /\ ("idle" = "idle" <=> Waiting = 1)
  BY <1>1
<1> HIDE DEF Waiting
<1> QED BY <1>1, <1>2, <1>3, <1>4, ReleaseIInv

(* A round of ecx_receive_processdata_group.                               *)
LEMMA ReceiveIInv ==
  ASSUME IInv, ReceiveProcessdata
  PROVE  IInv'
<1> DEFINE after == ecx_waitinframe(port, rx, soem.idxstack[1])
<1>1. soem.pc = "receiving" /\ Waiting > 0 /\ soem.idxstack \in Seq(1..Round) /\ Len(soem.idxstack) = Waiting
  BY Positions DEF ReceiveProcessdata
<1>2. Head(soem.idxstack) = soem.idxstack[1]
  BY <1>1
<1>3. /\ port' = ecx_setbufstat(after.port, soem.idxstack[1], "EMPTY") /\ rx' = after.rx
      /\ UNCHANGED <<wire, sent>> /\ soem' = PullNext(soem)
  BY <1>2 DEF ReceiveProcessdata, ReleaseBuffer
<1>4. Waited(after.port, after.rx)
  BY <1>1, WaitIsWaited
<1> HIDE DEF after
<1>5. CASE Waiting = 1
  <2>1. soem' = [pc |-> "idle", waited |-> FALSE, idxstack |-> Tail(soem.idxstack)]
    BY <1>1, <1>3, <1>5, Positions DEF PullNext, Idle
  <2> QED BY <1>1, <1>3, <1>4, <1>5, <2>1, ReleaseIInv
<1>6. CASE Waiting # 1
  <2>1. soem' = [soem EXCEPT !.idxstack = Tail(soem.idxstack)]
    BY <1>1, <1>3, <1>6 DEF PullNext
  <2>2. soem.waited \in BOOLEAN
    BY DEF IInv, Typed
  <2>3. soem' = [pc |-> "receiving", waited |-> soem.waited, idxstack |-> Tail(soem.idxstack)]
    BY <1>1, <2>1 DEF IInv, Typed
  <2> QED BY <1>1, <1>3, <1>4, <1>6, <2>2, <2>3, ReleaseIInv
<1> QED BY <1>5, <1>6

(* The initial state.                                                      *)
LEMMA InitIInv == Init => IInv
<1> SUFFICES ASSUME Init PROVE IInv
  OBVIOUS
<1> USE SizeType, NicAssumption DEF NicAssumption
<1>1. NoFrame \in Frame
  BY DEF NoFrame, Frame, Indices
<1>2. port \in Port
  BY <1>1 DEF Init, Port, Indices, Round
<1>3. rx \in Ring
  BY <1>1 DEF Init, Ring, Size
<1>4. wire = <<>> /\ soem = Idle /\ sent = 0 /\ rx.count = 0 /\ rx.head = 0 /\ rx.tail = 0
  BY DEF Init
<1>5. soem.pc = "idle" /\ soem.idxstack = <<>> /\ soem.waited = FALSE /\ Waiting = 0
  BY <1>4 DEF Idle, Waiting
<1>6. Typed
  BY <1>2, <1>3, <1>4 DEF Typed, Idle
<1>7. Stack
  BY <1>4, <1>5 DEF Stack
<1>8. BuffersInUse
  BY <1>4, <1>5 DEF BuffersInUse, Init
<1>9. WireInv
  BY <1>4 DEF WireInv
<1>10. RingInv
  BY <1>4, <1>5 DEF RingInv, InRing, Aged, At
<1>11. Answered
  BY <1>5 DEF Answered, AnsweredIn
<1> QED BY <1>6, <1>7, <1>8, <1>9, <1>10, <1>11 DEF IInv

(* Every step of the three actors keeps the invariant.                     *)
LEMMA NextIInv == IInv /\ [Next]_vars => IInv'
<1> SUFFICES ASSUME IInv, [Next]_vars PROVE IInv'
  OBVIOUS
<1>1. CASE Next
  BY <1>1, ServiceSendsIInv, SendProcessdataIInv, ServiceWaitsIInv, ServiceEndsIInv,
     ReceiveIInv, CallbackIInv, LosesIInv DEF Next, Soem
<1>2. CASE UNCHANGED vars
  <2> USE <1>2 DEF vars
  <2>1. Typed' /\ Waiting' = Waiting
    BY DEF IInv, Typed, Waiting
  <2>5. Stack'
    BY <2>1 DEF IInv, Stack
  <2>6. BuffersInUse'
    BY DEF IInv, BuffersInUse
  <2>2. WireInv'
    BY DEF IInv, WireInv, Indexed
  <2>3. RingInv'
    BY DEF IInv, RingInv, InRing, Aged, Indexed, Nth, At, Waiting
  <2>4. Answered'
    BY DEF IInv, Answered, AnsweredIn, Nth, At, Waiting, Serial
  <2> QED BY <2>1, <2>2, <2>3, <2>4, <2>5, <2>6 DEF IInv
<1> QED BY <1>1, <1>2

-----------------------------------------------------------------------------
(* Results.                                                                *)

(* The inductive invariant holds in every behaviour, with and without      *)
(* fairness.                                                               *)
THEOREM IInvariant == Spec => []IInv
BY InitIInv, NextIInv, PTL DEF Spec

(* No buffer is lost and ecx_getindex never runs out, whatever frames are  *)
(* lost or late.                                                           *)
THEOREM BuffersAccountedFor == Spec => []BuffersInUse
<1>1. IInv => BuffersInUse
  BY DEF IInv
<1> QED BY <1>1, IInvariant, PTL

(* ecx_waitinframe never takes a late frame of an earlier request for the  *)
(* answer to the request that has its index now.                           *)
THEOREM AnswerMatchesRequest == Spec => []AnswerIsForRequest
<1>1. IInv => AnswerIsForRequest
  BY DEF IInv, Answered, AnsweredIn, AnswerIsForRequest, Waiting
<1> QED BY <1>1, IInvariant, PTL

(* Pushing into a full ring, pushing and popping keep the positions of     *)
(* s_rx_queue consistent and its frames in the order they were sent.       *)
THEOREM RingKeepsOrder == Spec => []RingInOrder
<1>1. IInv => RingInOrder
  <2> SUFFICES ASSUME IInv PROVE RingInOrder
    OBVIOUS
  <2>1. /\ rx \in Ring /\ rx.count \in 0..Size /\ rx.head = At(rx, rx.count)
        /\ \A n \in 0..(rx.count - 1) : Nth(rx, n).serial \in Nat
    BY Parts DEF IInv, Typed, RingInv, InRing
  <2>2. \A n \in 0..Size : At(rx, n) = (rx.tail + n) % ETHERCAT_RX_QUEUE_SIZE
    BY <2>1, RingPositions DEF Size
  <2>3. rx.head = (rx.tail + rx.count) % ETHERCAT_RX_QUEUE_SIZE
    BY ONLY <2>1, <2>2, Zenon
  <2>4. ASSUME NEW k \in 1..(rx.count - 1)
        PROVE  rx.queue[(rx.tail + (k - 1)) % ETHERCAT_RX_QUEUE_SIZE].serial
                 < rx.queue[(rx.tail + k) % ETHERCAT_RX_QUEUE_SIZE].serial
    <3>1. /\ k - 1 \in 0..(rx.count - 1) /\ k \in 0..(rx.count - 1) /\ k - 1 <= k
          /\ k - 1 \in 0..Size /\ k \in 0..Size
      BY <2>1, SizeType
    <3>2. Nth(rx, k - 1).serial + k - (k - 1) <= Nth(rx, k).serial
      BY <3>1 DEF IInv, RingInv, InRing
    <3>3. Nth(rx, k - 1).serial \in Nat /\ Nth(rx, k).serial \in Nat
      BY <2>1, <3>1
    <3>4. Nth(rx, k - 1).serial < Nth(rx, k).serial
      BY ONLY <3>1, <3>2, <3>3
    <3>5. /\ At(rx, k - 1) = (rx.tail + (k - 1)) % ETHERCAT_RX_QUEUE_SIZE
          /\ At(rx, k) = (rx.tail + k) % ETHERCAT_RX_QUEUE_SIZE
      BY ONLY <2>2, <3>1, Zenon
    <3> QED BY ONLY <3>4, <3>5, Zenon DEF Nth
  <2> QED BY ONLY <2>3, <2>4, Zenon DEF RingInOrder
<1> QED BY <1>1, IInvariant, PTL
=============================================================================
