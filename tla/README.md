# A verification project for the RZ/N2L EtherCAT master

The repository is the firmware of a Renesas RZ/N2L board (one Cortex-R52 core,
FreeRTOS) that is an EtherCAT master on Ethernet port 1 (SOEM, servo drives in
CiA402 cyclic-synchronous-position mode, 2 ms cycle) and a TCP server on port 2
(lwIP), through which a host starts, stops and watches motions of axis 1.

This directory holds TLA+ models of the program's own control logic, the TLC
configurations that check them on small instances, and proofs that TLAPS checks
for every value of the constants. `PROJECT.json` maps every definition to the
lines it models.

    tlc -workers 2 -config motion_safety.cfg MCEthercatMotion     # a run
    tlapm EthercatMotion_proofs.tla                               # its proofs

Paths below are relative to `src/common/renesas/`; `app/` is
`module/ethercat/app/` and `soem/` is `module/ethercat/soem/`.

## 1. The system: inventory

| Component | Code | State it keeps | Operations |
|---|---|---|---|
| Motion scheduler | `app/ethercat_motion.c` | `s_request` (one-slot mailbox), `s_control`, `s_trajectory`, `s_recip`, software zero, motor parameters | API: move_abs/rel, jog, zero return, recip, stop, continue, abort, software zero, motor parameters; `ethercat_motion_process` once per cycle |
| Host frame parser | `application/host_protocol.c`, `lwip_port_main.c` | parser of each connection | `host_protocol_byte_push`, status answer, reset per connection |
| CiA402 enable sequence | `app/ethercat_master.c` 742-912 | per axis: state, wait count, hold position; output image | one step per complete cycle |
| PDO loop | `app/ethercat_master.c` 696-740, 1009-1037 | output images, `pdo_ok` | send, receive, enable sequence, motion |
| Master startup | `app/ethercat_master.c` 402-694, `app/ethercat_app_common.c` | `g_ethercat_app_notify`, task handle, GPT open/started, `ec_slave[].state` | scan start, `ecat_init`, warm-up, OP request, notification |
| Port monitor | `app/ethercat_port_monitor.c` | stable-link counters, what was reported | poll every 100 ms |
| SOEM port layer | `soem/oshw/nicdrv.c`, `soem/osal/osal.c` | buffer states, receive ring, indices | getindex, send, wait, srconfirm, receive callback |
| SOEM core | `soem/src/*.c` | slave table, `idxstack`, process image | third-party library; services and process data |
| GPT and DC sync | `module/gpt/gpt.c` | timer, PI integral, cycle semaphore | open/start/stop, period adjustment per cycle |
| TCP command server | `application/lwip_port_main.c`, `host_command.c` | socket table (three descriptor sets, `max_fd`, count), parser slots | netif callback adds and removes the listener; TCP task selects, accepts, receives, closes; command execution |
| Keys, main thread | `main_thread_entry.c` (project directory) | key filters | KEY1 starts a reciprocating motion, KEY2 toggles stop/continue; boot of the lwIP port |
| Ethernet netif layer, lwIP port | `module/ether_netif/`, `module/lwip_port/` | cached link states, launcher queue, netif state | reader, writer and monitor tasks, forced callback, launcher task, report to the application |
| Serial I/O, PDO monitor log, lwIP add-ons, SDO set-up | | | I/O and logging only |
| lwIP, FSP, CMSIS, FreeRTOS | vendored | | |

**Tasks and priorities** (a higher number wins, preemptive, no time slicing):
Ethernet reader 8, SOEM master 7, lwIP tcpip 5, TCP server 4; Ethernet monitor,
lwIP launcher, lwIP application task and main thread 3; port monitor 2. This order
is part of the design: the motion scheduler has one-slot hand-over with short
critical sections, and what lies between two of them is safe only because the PDO
task outranks every API caller and does not block inside a cycle. The models take
their atomic steps from it: an API call (one critical section) is a step, a PDO
cycle is a step, and the SOEM task's startup code is cut where it blocks.

Priorities protect less than it seems. Mutexes inherit priority: a task that holds
one runs at the priority of whoever waits for it and keeps that until it releases
its last mutex. And tasks of one priority take turns at every switch that a third
task causes. LwipLink and TcpServer therefore assume of their tasks only what these
rules leave.

**How they interact.** The host's bytes reach the parser of their connection; a
command becomes a call of the motion API and a status answer. The API fills
`s_request`; the PDO task takes it in its next cycle. Inside a cycle the enable
sequence writes the output image of every axis and then, if axis 1 is enabled, the
motion scheduler overwrites its target position. The frame goes out in the *next*
cycle. Frames come back through the reader task's callback into the ring of
`nicdrv.c`. The port monitor starts the SOEM task once the link of port 1 is
stable; startup status is published in `g_ethercat_app_notify`. For port 2 it
forces a link callback, which the lwIP port's launcher turns into interface states;
the TCP server adds or removes its listener on each. Keys and host are two callers
of one motion API.

**What is hard here**, and what makes each part correct:

* *Stale decisions.* A request is checked against the scheduler's state when
  submitted and applied up to a cycle later: what was checked must still hold
  (`RequestStillValid`), and an accepted abort must not be lost. The velocity is
  checked before that, outside the critical section, and may meet older motor
  parameters; see section 5.
* *Long legal call sequences.* Pause, continue, a new START during a pause,
  abort, refusals of the planner, in any order: flags, trajectory and reciprocating
  stage must agree (`SchedulerCoherent`, `RecipLegs`).
* *Two writers of one target.* The target position must never jump: not at the
  first enable, not at a start, not after a pause.
* *Lost and late frames.* A lost frame is not noticed: the cycle takes an earlier
  image for its own (finding 2). Enable sequence, scheduler and clock controller
  have to live with replayed images; a buffer must never be matched with a later
  request; cycles must return.
* *A byte stream cut anywhere*, whose DATA may equal a frame's own delimiters.
* *Two tasks on one socket table.* TCP task and callback interrupt each other
  between reading a word of the table and writing it back, so updates are lost.
  Two things must survive that: no connection's bytes in another's parser, and no
  listener closed by the TCP task.
* *A state reported once.* A notification is lost while booting or in a full queue,
  or read from a bit map that is just being rebuilt, and is not repeated. What
  was said last must hold, and must be the cable's state if nothing was missed.
* *Look, then act.* KEY2 reads the status and then calls: the motion may end, or the
  host may act, in between.
* *A control loop in integers.* Truncation, wind-up and the wrap of the phase must
  not keep the cycle from locking to the distributed clock.
* *Startup with many exits*, each with its own clean-up of timer, state and
  semaphore, while a second task may start it again.

`PROJECT.json` lists the hazards line by line, with the properties aimed at each.

## 2. Modules and how they correspond to the code

### EthercatMotion - `app/ethercat_motion.c`

State variables carry the names of the C statics; `TargetPos` is
`output1s->TargetPos` and `input1s` the part of the input image the code reads.
Every API function is an action (`Application`); `ethercat_motion_process` is the
PDO task's step, composed of one operator per C function, each from a
`MotionState` (control, trajectory, recip) to a `MotionState`. The seven-phase
S-curve arithmetic is an oracle with two outputs: `plan`, the number of cycles
(0: the planner refuses), and `cmd`, the interpolated command, any value that the
clamp of `motion_segment_process` lets through. The clamp itself, the conversion
from millimetres (single precision: spacing doubles above 2^24) and the int32
limits are modelled by what they do. Acceleration and jerk reach only the planner.

`motion_request_validate` reads the motor parameters before the critical section of
`motion_request_submit`. The call is one step all the same: `params_seen` holds every
setting there was, and the check may go by any of them. `InputRefreshed` stands for a
cycle in which the scheduler does not run. It leaves `TargetPos` alone, though the
enable sequence writes that word in such cycles: this module is the scheduler's own
output, and PdoLoop has both writers.

### MotionService - what `ethercat_motion.h` promises

The abstract specification: one motion at a time, one request at a time, every
accepted request honoured in the phase it was accepted for, an abort always ends
in a successful stop. `EthercatMotion` is shown to implement it
(`ImplementsService`) under the mapping slot = pending action, phase from
`busy`/`paused`, outcome from `done`/`error`.

### HostProtocol - `application/host_protocol.c` and its use per connection

The parser byte by byte. The host is external: it sends stray bytes and whole
frames, and drops the connection between any two bytes. `window`, the last five
bytes, `sender` and `answers` are history the program does not keep.

### Cia402Enable - `ethercat_servo_enable_process`

Per axis the state machine with its cycle limits, inside a cycle whose frame comes
back complete, comes back incomplete (having reached any subset of the drives), or is
lost on either way. Receive buffers are used in turn (`rxbuf`, `idx`): an incomplete
frame is noticed and the sequence waits; a lost one leaves what its buffer held, and
the sequence goes on with that. The drives are external: each obeys the word it holds
when it gets to it, faults at any time, may be moved by hand while not enabled. Two
histories: `reported`, the positions an axis reported since it is switched on, and
`replayed`, set by a lost frame until sequence and drive are seen in step again
(`InStep`).

### PdoLoop - the body of `ethercat_master_scan_task`

Composes EthercatMotion (EXTENDS) and Cia402Enable (INSTANCE for axis 1) on one
output image, in the order of the code. `GoodCycle` is one whose buffer holds a
complete frame, its own or an earlier one; `BadCycle` has an incomplete one.

### MasterStartup - `ethercat_master_scan_start`, `ecat_init` and around

The port monitor (port 1), the SOEM task cut where it blocks, the notification
object, the timer. External: link, slaves, and every service whose result the
code tests. `ReadState` is `ecx_statecheck`/`ecx_readstate`: what the slaves answer,
now. A working counter is full when all slaves are in OP, or (`full_seen`) when a
lost frame replays one that was.

### NicDrv - `soem/oshw/nicdrv.c` and its two users

Index allocation, buffers, the ring with its overwrite of the oldest frame, the
blocking service with `ecx_srconfirm`'s retries, and a process-data exchange of
`Segments` frames. The reader task may run the callback at any time. `serial`
identifies requests; the program has no such thing.

### GptDcSync - `gpt_dc_sync_adjust`

The PI controller of the cycle time with all the numbers of the code: the wrap of
the phase, the dead band of the C divisions, the limits of integral and output. The
phase is exact, in units of which a timer count and a nanosecond are both
multiples; a new period is buffered and shows a cycle late. The drift of the two
clocks is a constant per behaviour. `rxbuf` holds the DC times in the receive
buffers: a lost frame adjusts with an old one (`Lose`), only an incomplete cycle
adjusts nothing (`Outage`).

### LwipLink - the link state of port 2, from the PHY to the application

The Ethernet monitor (which clears the cached bit map and sets it again port by port,
0 to 2), the port monitor's part for port 2, the callback, the launcher with its
queue, and the boot sequence that puts them together while the monitors already run.
The port monitor looks only when the bit map is complete (it has the lower
priority), but its callback may read it in the middle of a rebuild: it then holds
the mutex the reader task takes for every frame and has inherited priority 8. Boot
runs at the Ethernet monitor's own priority and may read anything. The launcher takes
a request and handles it in two steps. Two histories: `report`, what the last
callback read and whether its request was refused, and `untold`, that the last
change of the interface found the queue full.

### TcpServer - `application/lwip_port_main.c`

The TCP task and the netif callback on the shared table, each able to interrupt the
other: the callback, of the lower priority, inherits that of the TCP task inside
lwIP and keeps it until it releases its own mutex. On both sides every lwIP call is a
step, and so is every read of a shared word and every write that depends on one.
lwIP's sockets are external, modelled as far as the server relies on them: lowest
free descriptor, a descriptor kept while select refers to it, failing calls on a
socket being deleted, an accept that fails because no descriptor is left or because
the connection is already reset. `Conn` are clients; a parser slot is the set of
connections whose bytes it holds.

### OperatorPanel - `main_thread_entry.c` and `host_command.c`

EXTENDS EthercatMotion: the key filter, KEY1, KEY2 in its two steps, and the host's
commands, each calling the actions of the scheduler.

### MC modules

`MCEthercatMotion`, `MCHostProtocol`, `MCPdoLoop` and `MCGptDcSync` give values a
`.cfg` cannot write. `MCOperatorPanel` closes the loop with a drive that follows;
`MCCia402Enable` chooses at the start between a drive that does its part and one that
is slow, faults and is moved.
MasterStartup, NicDrv, LwipLink and TcpServer are run directly.

The motion and PDO loop runs use a `VIEW`, `LiveState`. It drops fields that are
written before they are read again: those of an empty slot, a finished segment, an inactive
reciprocation, the cycle counts of a segment that is only awaited. In
`motion_safety` it also drops a segment that the waiting START or ABORT will
discard; the invariants do read that one, but nothing changes it while the request
waits, so they were checked on the same values in the state before the request.

## 3. Runs

| Run | Checks | Bounds and why they are enough |
|---|---|---|
| `motion_safety` | TypeOK, SchedulerCoherent, RequestStillValid, RecipLegs, PauseHolds, TargetNeverJumps, AbortNotLost, DoneMeansArrived, ImplementsService | positions -1..2 so that targets fall outside the range, ±tolerance 1 is neither nothing nor everything, 2 stable cycles, segments of up to 2 cycles (a middle and an end), dwells 0 and 1, repeats 0 (forever) and 2, two motor settings, a counter that wraps at 4 |
| `operators` | Key2StopTakesEffect, Key2Toggles, MotionProgresses | two positions tell start from target, segments of 2 cycles or a planner that refuses, a dwell of one cycle, endless and finite reciprocation, 2 samples confirm a press (3 in the code), so that an incomplete press exists |
| `host_protocol` | TypeOK, CommandWasFramed, ResyncByNextFrame, EveryFrameAnswered | the two framing bytes, a command and 0: the parser compares only with the framing bytes, so all others behave alike |
| `enable` | TypeOK, EnabledAtReportedPosition, EnableSettles, PromptDriveEnabled | one axis, prompt or free (axes share nothing but the outcome of the frame; the proofs are for any number), two buffers, so that a replayed image is neither always the last one nor arbitrary; limits 1/2/2, the tightest in which a prompt drive can make it, so that every limit is met and missed |
| `pdo_loop` | CommandOwnsTarget, FirstEnableHolds | two positions, segments of one cycle, limits 1/2/1, one buffer (a lost frame replays the last image) |
| `pdo_reenable` | *violated*: EnableNeverJumps | finding 1; the bounds of `pdo_loop` |
| `startup` | TypeOK, TimerWhileExchanging, LoopStartsInOp, StartedOnceOnStableLink, StartupEnds | two slaves (one can drop while the other is requested), stable link of 2 polls, a time-out longer than the stable time, a check interval of 2 |
| `nic` | BuffersInUse, AnswerIsForRequest, RingInOrder, CallsReturn | ring of 2, 5 indices, delay 1 (2 frames + 1 < 4 other indices, as F + D < 15 in the code), cycles of two frames, 6 requests: indices are re-used and the ring overflows |
| `nic_fresh` | *violated*: CompleteMeansFresh | finding 2; 4 indices, a ring of 1, cycles of one frame |
| `dc_sync` | PhaseLocks, PeriodSmooth | the code's own numbers; clocks 15 ppm slow and 50 ppm fast; once, at any time, 1 or 15 lost frames (all 15 buffers replayed) or 1 or 5000 incomplete cycles (10 s, far longer than the loop's response) |
| `link` | InterfaceAsReported, NetifFollowsLink | a queue of 2, so that requests are refused (16 in the code), three link changes spread over three ports, at any time during and after boot |
| `tcp` | ParserOfOneConnection, ListenerClosedByCallbackOnly | two descriptors (both in use: accept fails), two connections (the second gets the first one's descriptor), four changes of the interface (it goes down and up while the first callback is interrupted), a socket count that wraps at 8 |

Deadlock is checked except in the NIC runs, which stop at `MaxRequests`, and in
`tcp`, where a server without clients and without changes of its interface sleeps.

What the less obvious properties say:

* `Key2Toggles`: a confirmed press of KEY2 during a motion leads to a pause or the
  end of the motion, during a pause it leads out of the pause, whatever the host
  does between the key's look and its call. `Key2StopTakesEffect`: if the axis still
  moves after the key's stop, a pause or an abort is in the slot.
* `MotionProgresses`: a motion that is neither paused nor endless ends, and an
  endless one keeps going through its stages.
* `EnabledAtReportedPosition`: the target a drive holds when it becomes enabled is a
  position it reported after it was switched on, unless a replayed image has parted
  sequence and drive. The exception is necessary: without it TLC finds a frame lost in
  CSP_PREPARE that replays a position from before. What the property adds is where the
  harm ends: `InStep`. `PromptDriveEnabled` has the same exception, as a
  recurrence: a replayed image of a drive not yet enabled takes DONE back to IDLE.
* `EnableSettles` has no exception: the limits count cycles, replayed or not.
* `TargetNeverJumps` is about the scheduler's own command. The enable sequence's writes
  to the same word are the subject of `FirstEnableHolds` and `EnableNeverJumps`.
* `RequestStillValid` is about what happens between the call and the cycle that takes
  the request; that nothing happens inside a cycle is the priority argument of
  section 1, not a result.
* `TypeOK` of EthercatMotion includes the int32 range of every position. The rounding
  of the conversion above 2^24 is beyond the run's bounds and covered by the proof.
* `InterfaceAsReported`: the last callback has the last word. When boot is over and
  nothing is queued, lwIP's interface is as the last callback read port 2, whichever of
  the three tasks made it, unless its own request was refused.
* `NetifFollowsLink`: what the application is told ends up as the cable of port 2, if
  the last callback read what the port monitor recorded, its request was not refused,
  and the news of the interface was not refused. TLC refutes the property without any
  one of the three; section 5 says how each happens.
* `ParserOfOneConnection`: a parser slot never holds bytes of two connections. While
  the task is still adding a connection its slot may hold old bytes; none is received
  before the slot is reset. `ListenerClosedByCallbackOnly`: the TCP task closes whatever
  it fails to receive from, and its client set may hold stale descriptors; it never
  closes the listener.
* `PhaseLocks`: the phase comes to within 100 ns of the one to keep and stays there
  once process data is back, despite truncation, wind-up and old DC times.
  `PeriodSmooth`: in lock two periods in a row differ by at most 2 counts (5 ns), also
  in a cycle that adjusts with an old DC time; otherwise by at most 7, unless more
  frames in a row went wrong than there are buffers.
* `TimerWhileExchanging`: the timer, on every exit of the startup. The states and the
  semaphore on those exits are in section 5.

### Fairness

* `operators`: the PDO cycle is weakly fair (`WF` on the parity of the cycle counter,
  so idle cycles count too): the GPT fires every 2 ms and the task outranks its
  callers. So is the main loop, which comes round every 10 ms; this assumes that no
  task above its priority 3 spins for ever, which the TCP task may (section 5).
  `MotionProgresses` does not need it. The drive follows: an assumption on the
  environment, without which no motion can be expected to settle. Host and operator
  are not fair.
* `enable`: a complete cycle is weakly fair, i.e. the bus does not stop answering for
  good, though any number of frames may be lost in between; so are the steps of the
  prompt drive. The free drive is not fair: the time limits must do.
* `startup`: the SOEM task is weakly fair; each of its waits has a time-out, so
  it is never blocked for good. Link, slaves and the monitor are not fair.
* `nic`: the SOEM task is weakly fair: its waits are bounded by their time-outs.
* `dc_sync`: the cycle is weakly fair (the timer runs by itself).
* `link`: Ethernet monitor, boot and launcher are weakly fair: all of them sleep or wait
  between steps. The port monitor is strongly fair: it can look only while the
  Ethernet monitor sleeps, which that does for a second in every round. How often it
  looks in between is not assumed. As in `operators`, no task of a higher priority
  may spin for ever. Cables are not fair.

## 4. Proofs

The theorems hold for every value of the constants under the named assumption of
each module (`MotionAssumption`, `EnableAssumption`, ...), which TLC evaluates in
the runs. Every invariant that a run checks is proved, and so is every action
property but `PeriodSmooth`; the refinement of MotionService is proved step by
step. In each module the last theorems are temporal and follow from an inductive
invariant `IInv` by a lemma per action.

**EthercatMotion_proofs**: `TypeCorrect`, `SchedulerIsCoherent`,
`RequestsStayValid`, `RecipKeepsItinerary`. The inductive invariant is

    IInv == TypeOK /\ MotionInv(Motion) /\ RequestStillValid
            /\ (a pending START has a start mode, and motor parameters are set)
            /\ (~s_motion_initialized => ~busy)

`SchedulerCoherent` alone is not inductive: that a finished segment leaves
something to run depends on the reciprocating stage and the segment's end points
(`RecipItinerary`), that a START leaves a coherent state depends on what the
pending request was checked for (`RequestStillValid`: never while a motion runs),
and that the alignment of the first cycle disturbs nothing depends on the motion
being idle until then. There is a lemma per C function (it preserves `MotionInv`
and says what becomes of `busy` and `paused`); the PDO step composes them, and
the actions of the application change only the mailbox.

The second half of the module is about steps: `PausedMotionHolds`, `AbortIsNotLost`,
`DoneHasArrived`, `TargetMovesAlongSegments` and the refinement,
`SchedulerImplementsService`. They need more of the state than `IInv` says, and
`StepInv` adds it: a segment that has not begun starts at the command; the position
sent is the command once motion is initialised; a waiting ABORT has the content with
which it was put in the slot. Every step is then shown to be one of few kinds: a call
that fills the slot, or a cycle in which the request (if any) applies and then the
motion fails, completes or goes on.
The properties are read off these kinds, and so is the step of the service. The
refinement rests on `MOTION_POSITION_STABLE_CYCLES >= 2` (10 in the code): a motion
is then never done in the cycle that takes its START, an outcome the service's
`TakeStart` does not have, nor in the cycle that generates its last command.

**SchedulerUse_proofs**: the two sides that use the scheduler. `LoopRunsScheduler`
(`LoopSpec => Spec`): the PDO loop is an implementation of EthercatMotion, so all
theorems above hold in it, the refinement too (`LoopOffersService`).
`SchedulerOwnsTarget` and `FirstEnableIsStill` say which of the two writers of the
target wins. Lost frames are in the loop, so the proof has to say what the receive
buffers can hold: before the first enabled image, none that shows the drive enabled
(`BuffersSeen`). `StaleStopTakesEffect`: KEY2's stop
after a stale look. The panel changes the scheduler's state only by calls of its
API, so `IInv` carries over; `RequestStillValid` then rules out the one bad case, a
refused stop of a motion that runs on.

**Cia402Enable_proofs**: `TypeCorrect`, `EnableAtReported`, for any number of axes and
buffers. The invariant lists, per state of the sequence, how far the drive can be and
which words can be in the image and in the drive (`Stage`), and which target must have
been reported (`TargetsReported`), all of it for an axis that is not `replayed`. It has
to speak of the failed and the restarted sequence as well: an old ENABLE_OPERATION in
the image must not meet a drive that was just switched on. That `InStep` re-establishes
it, whatever a replayed image has left behind, is a lemma of its own (`InStepInv`). The
assumption `FAULT_CLEAR_CYCLES <= STEP_CYCLES` (500 and 1000 in the code) bounds the
counter.

**MasterStartup_proofs**: `TypeCorrect`, `TimerFollowsTask`, `LoopEntryInOp`,
`OneStart`. Beyond the properties, the invariant ties the handle that
`ethercat_master_scan_start` tests to the existence of the task, and the monitor's
count to the polls that saw the link.

**NicDrv_proofs**: `BuffersAccountedFor`, `AnswerMatchesRequest`, `RingKeepsOrder`.
`ecx_getindex` takes the indices round and round, because the buffers in use are
those of the last requests; so a frame's index follows from how many requests were
sent after its own, and two frames less than a round apart never share one. That
frames in the ring stay that young is the difficult part: each request that ends
has taken a frame out of the ring, found it empty, or had its own answer, so the
n-th frame of the ring is n requests younger than the oldest can be. The result
needs `Segments + WireDelay < EC_MAXBUF - 1` and nothing about the size of the
ring: with 16 buffers a frame may come back up to 14 - `Segments` requests late.

**LwipLink_proofs**: `InterfaceFollowsReports`, for every queue length and any number of
link changes (`MaxChanges` bounds the runs and enters no argument). The property speaks
of an empty queue; the invariant says what a queue with requests in it will make of the
interface: the last link event decides, or, if there is none, the request the launcher
has in hand, or the interface as it is (`LastWord`). A callback whose request is not
refused puts its event last, the launcher's own requests after it are no link events,
and each step of the launcher moves the expectation one place on.

**TcpServer_proofs**: `OneConnectionPerParser`, `ListenerSurvivesTask`, and the fact the
second rests on, `ListenerGetsZero`: the listener has descriptor 0, because it is
created first and lwIP gives out the lowest free descriptor, and no client ever has it,
because a connection is accepted only while there is a listener. None of this depends
on the contents of the socket table, whose two writers lose each other's updates: the
invariant says only that `fdset_clients`, stale as it may be, holds no 0 and
`fdset_listners` nothing else. The safety of the listener is thus a consequence of
lwIP's allocation of descriptors, not of anything in `lwip_port_main.c`. That parsers
are not mixed up comes from the reset at the end of an accept, before the task looks at
the new descriptor.

**HostProtocol_proofs**: `TypeCorrect`, `CommandsAreFramed`, `Resynchronises`,
`FramesAreAnswered`. The invariant says what the parser's state implies about the
last bytes of the stream (`WindowInv`), and that while a frame is being sent the
parser either is in step with it or is out of step in one of few ways, each of
which has already caused an answer and ends with the frame (`SyncInv`). The proof
needs that the tail is the mirrored header (44 77), which is in `ByteAssumption`.

**Only model-checked:** liveness, which is out of the prover's reach
(`EnableSettles`, `PromptDriveEnabled`, `StartupEnds`, `CallsReturn`,
`NetifFollowsLink`, `Key2Toggles`, `MotionProgresses`, `PhaseLocks`); and
`PeriodSmooth`, which depends on the numbers of the controller and on the drift,
not on its structure. The proofs take the modules as they are: what section 6
abstracts is abstracted in them too.

## 5. Findings

The violation runs show where the code does something other than its own
comments, headers or assertions say.

1. *Re-enable* (`pdo_reenable`). After a fault and a renewed enable the scheduler
   writes its old `command_counts`: a jump if the axis was moved meanwhile.
2. *Time-out as success* (`nic_fresh`). `ecx_waitinframe` never returns
   EC_NOFRAME: a lost frame yields working counter and inputs of an earlier
   cycle as those of this one.

Smaller ones met while modelling. The models behave like the code in each; no run
is spent on them:

Motion and master:

* "连续落入误差范围才报告完成" (`ethercat_motion.c:17`): a pause in the wait for the
  actual position does not reset `actual_stable_cycles` (line 889), so the cycles
  need not be consecutive.
* CSP_PREPARE does not wait for CSP to be confirmed (`ethercat_master.c:860`) because
  the loop passes `op_mode` 0 (line 730).
* `g_ethercat_app_common_opened` (`ethercat_app_common.h:19`) is never set, so a link
  flap resets the run state of a running master to IDLE.
* Above 2^24 counts the clamp of `motion_segment_process` compares with
  `(float) target_counts`, which is rounded: a command may lie past its target
  until the last cycle (`ClampedCommands`).
* An incomplete cycle repeats the frame with the fault-reset word, which the comment
  says is held for one cycle only (`PdoCycle` of Cia402Enable).
* By finding 2 a frame lost in CSP_PREPARE may make the target a position from before
  switch-on, and one lost later may show an enabled drive as not enabled: the
  sequence then goes from DONE to IDLE and disables the voltage. `replayed` marks both.
* `motion_request_validate` (411-437) reads the motor parameters outside the critical
  section of `motion_request_submit` (451-461): if they are changed in between, a
  velocity that is no longer allowed is accepted. In this program they are set once
  (`ethercat_master.c:707`), before the loop runs, so nothing comes of it; no
  property claims more.
* When `gpt_init` fails, the run state becomes FAILED but the scan state stays
  RUNNING and the semaphore is not given.
* When `xTaskCreate` fails, the scan state becomes FAILED but the run state stays
  SCANNING.
* A second `ethercat_app_common_open` that cannot create its semaphore stores NULL
  over the old handle while the SOEM task may still give it.

Keys (`main_thread_entry.c`):

* The comment at lines 133-143 gives KEY1 1 mm, 2 mm/s and dwells of 500 ms; the code
  passes 50 mm, 10 mm/s, 100 ms and 1000 ms.
* A press needs three low samples, a release only one high one (or one failed pin
  read): a glitch while the key is held counts as a second press.
* KEY2 pressed while a START waits to be taken does nothing, and the motion starts
  afterwards.

TCP server and link (`lwip_port_main.c` and below):

* The callback looks its listener up by local address, which accepted connections
  share: DOWN may close a client instead of the listener.
* When the cable flaps while a client is connected, UP finds the client's address
  and creates no listener: the server cannot be reached once the client has left,
  until the next flap.
* The interrupted read-modify-writes of `fdset_all` can leave the bit of a closed
  descriptor: select fails at once and the task, which has no wait on that path,
  spins at priority 4.
* They can also drop the bit of a client: when the callback removes the listener
  between `lwip_accept` and line 437, or either side stores over the other's update, the
  connection stays open and is never selected. `num_of_socket` goes wrong likewise.
* A listener added while the task is in select is not seen until select returns.
* The decrement of `num_of_socket` at line 407 is not guarded against zero.
* `um_ether_netif_ether.c:359` clears the cached bit map before it reads the PHYs:
  a callback of boot, or of the port monitor at inherited priority, may read port 2
  as down. The port monitor records what it saw before, not what the callback
  read, and the interface stays down until port 2 changes.
* The callback's request is posted without waiting; refused by a full queue, it is not
  repeated, and the change counts as reported. The same goes for the launcher's own
  IP_UP and IP_DOWN.
* After a long loss of process data the period may step by about 800 counts.

## 6. Abstractions worth knowing

* A wait that times out and a wait that finds nothing are one step: the SOEM task
  is the only consumer of the ring.
* NicDrv: frames of a cycle have one length; only the LRW branch with DC is
  modelled (the branch this program configures). Frames keep their order on the
  wire.
* MasterStartup: `gpt_stop` succeeds on an open timer; a service that does not
  answer and one that refuses are one outcome where the code treats them alike.
* The two halves of the port monitor share only the poll: port 1 is in MasterStartup,
  port 2 in LwipLink.
* TcpServer: the network interface has one static address; a chunk is the first or
  the last part of a frame (HostProtocol has the bytes). The uninitialised
  `socket_addr_len` of the look-up is a choice: the address is seen or not.
* HostProtocol: the exit on a failed send (`lwip_port_main.c` 525-529), which drops the
  rest of the received buffer, is left out; the connection is then broken.
* Cia402Enable and PdoLoop: one process-data frame per cycle, and buffers used in
  turn by the cycles alone; NicDrv has several frames and the services.
* OperatorPanel: the sampled level of a pin is an input.
* The bounds that are not the program's: `MaxTotalCycles`, `MaxRequests`,
  `WireDelay`, `Losses`, `Outages`, `MaxOutages`, `MaxChanges`, `MaxNetifChanges`, and
  the values given to the program's own limits in the `.cfg`s.

## 7. Not modelled, and the plan

Done, in this order: EthercatMotion and MotionService with their proofs;
HostProtocol with its proofs; Cia402Enable; PdoLoop; MasterStartup; NicDrv;
GptDcSync; LwipLink; TcpServer; OperatorPanel.

Proved: all that section 4 lists. Worth proving next: bounds on the controller of
GptDcSync (period and integral) and, from the code's numbers, `PeriodSmooth`.

Left out for good: the Ethernet reader and writer tasks (they move frames between
the GMAC driver and a queue; NicDrv takes the reader as an external actor), lwIP's
frames in and out of pbufs, Stop and Close of the lwIP port (nothing calls them),
SOEM's configuration, DC set-up and mailbox protocols, lwIP,
FSP, CMSIS and FreeRTOS (third-party; modelled by what this program relies on),
SDO set-up (a straight line of blocking writes whose outcome is an action of
MasterStartup), serial I/O and logging (pure I/O), lwIP add-ons (disabled at
compile time), the S-curve's floating-point arithmetic (out of TLC's reach).
