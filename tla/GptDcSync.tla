------------------------------ MODULE GptDcSync ------------------------------
(***************************************************************************)
(* gpt_dc_sync_adjust (module/gpt/gpt.c): the PI controller that keeps the *)
(* PDO cycle, timed by a GPT channel, at a fixed phase of the distributed  *)
(* clock (DC) of the bus.                                                  *)
(*                                                                         *)
(* All numbers are those of the code.  The phase of the cycle within the   *)
(* DC cycle is kept in units finer than a nanosecond, of which one count   *)
(* of the timer and one nanosecond are both whole multiples; the two       *)
(* clocks drift apart by a constant number of units per cycle.             *)
(*                                                                         *)
(* R_GPT_PeriodSet writes the buffer register: the new period begins when  *)
(* the running one ends, so a correction shows in the phase a cycle late.  *)
(*                                                                         *)
(* ec_DCtime comes with the process data.  The cycles use the receive      *)
(* buffers of the driver in turn, and when a frame is lost the wait for it *)
(* returns what its buffer still holds (nicdrv.c:256): the cycle then      *)
(* passes for a complete one and the period is adjusted with the DC time   *)
(* of an earlier cycle.  Only a frame that does come back, with too low a  *)
(* working counter, is a cycle without an adjustment.                      *)
(***************************************************************************)
EXTENDS Integers, Sequences

CONSTANTS
  ETHERCAT_DC_CYCLE_NS, GPT_NOMINAL_PERIOD_COUNTS, GPT_MAX_ADJUST_NS,
  UnitsPerNs, UnitsPerCount,
  Buffers,              \* receive buffers the cycles use in turn, EC_MAXBUF - 1
  Drifts,               \* units by which a nominal cycle is longer than a DC cycle
  Losses,               \* numbers of frames lost in a row
  Outages,              \* numbers of incomplete cycles in a row
  MaxOutages            \* bound: how often one of the two happens

ASSUME DcAssumption ==
  /\ {ETHERCAT_DC_CYCLE_NS, GPT_NOMINAL_PERIOD_COUNTS, GPT_MAX_ADJUST_NS,
      UnitsPerNs, UnitsPerCount, Buffers} \subseteq Nat \ {0}
  /\ UnitsPerNs * ETHERCAT_DC_CYCLE_NS = UnitsPerCount * GPT_NOMINAL_PERIOD_COUNTS
  /\ Drifts \subseteq Int /\ MaxOutages \in Nat
  /\ Losses \cup Outages \subseteq Nat \ {0}

VARIABLES
  dc_time,          \* the DC time of this cycle modulo the DC cycle, in units
  drift,
  rxbuf,            \* the DC times the buffers hold, the one used next first
  losing,           \* of a run of lost frames, how many are still to be lost
  initialized, target_phase_ns, integral,
  period,           \* counts of the running period
  period_buffer,    \* counts of the next one
  outages,          \* the outages and runs of lost frames so far
  longest           \* and the longest of them

controller == <<initialized, target_phase_ns, integral, period_buffer>>
vars == <<dc_time, drift, rxbuf, losing, controller, period, outages, longest>>

-----------------------------------------------------------------------------
Abs(x) == IF x < 0 THEN -x ELSE x

(* Division as C does it, towards zero.                                    *)
CDiv(a, b) == IF a < 0 THEN -((-a) \div b) ELSE a \div b

(* x, limited to -limit..limit.                                            *)
Clamp(x, limit) == IF x > limit THEN limit ELSE IF x < -limit THEN -limit ELSE x

(* What a buffer holds that no complete cycle has filled: the frame of an  *)
(* incomplete one, or of another service, which no adjustment follows.     *)
NoDcTime == -1

phase_ns(ec_DCtime) == ec_DCtime \div UnitsPerNs

(* The shorter way round the DC cycle.                                     *)
ErrorWrapped(error) ==
  IF error > ETHERCAT_DC_CYCLE_NS \div 2 THEN error - ETHERCAT_DC_CYCLE_NS
  ELSE IF error < -(ETHERCAT_DC_CYCLE_NS \div 2) THEN error + ETHERCAT_DC_CYCLE_NS
  ELSE error

error_ns(ec_DCtime) == ErrorWrapped(phase_ns(ec_DCtime) - target_phase_ns)

(* Mutants: the error itself is accumulated; nothing is.                   *)
IntegralOfError(error) == Clamp(integral + error, 20000)

IntegralKept(error) == integral

(* The integral counts the sign of the error.                              *)
IntegralAfter(error) ==
  Clamp(integral + (IF error > 0 THEN 1 ELSE IF error < 0 THEN -1 ELSE 0), 20000)

PeriodFor(error, i) ==
  LET adjust_ns == Clamp(-CDiv(error, 100) - CDiv(i, 20), GPT_MAX_ADJUST_NS)
  IN GPT_NOMINAL_PERIOD_COUNTS
       + CDiv(adjust_ns * GPT_NOMINAL_PERIOD_COUNTS, ETHERCAT_DC_CYCLE_NS)

(* The first call records the phase to keep; every other corrects the      *)
(* period that follows the running one.                                    *)
gpt_dc_sync_adjust(ec_DCtime) ==
  \/ /\ ~initialized
     /\ initialized' = TRUE /\ target_phase_ns' = phase_ns(ec_DCtime) /\ integral' = 0
     /\ UNCHANGED period_buffer
  \/ /\ initialized
     /\ integral' = IntegralAfter(error_ns(ec_DCtime))
     /\ period_buffer' = PeriodFor(error_ns(ec_DCtime), integral')
     /\ UNCHANGED <<initialized, target_phase_ns>>

-----------------------------------------------------------------------------
(* How far a period of so many counts moves the phase.                     *)
PhaseStep(counts) == (counts - GPT_NOMINAL_PERIOD_COUNTS) * UnitsPerCount + drift

Advanced(units) == (dc_time + units) % (UnitsPerNs * ETHERCAT_DC_CYCLE_NS)

(* The next n cycles leave this value in their buffers.                    *)
Filled(value, n) ==
  [i \in 1..Buffers |-> IF i + n <= Buffers THEN rxbuf[i + n] ELSE value]

(* One cycle whose buffer then holds the given DC time.                    *)
CycleWith(ec_DCtime) ==
  /\ IF ec_DCtime = NoDcTime THEN UNCHANGED controller
                            ELSE gpt_dc_sync_adjust(ec_DCtime)
  /\ rxbuf' = Filled(ec_DCtime, 1)
  /\ dc_time' = Advanced(PhaseStep(period))
  /\ period' = period_buffer'
  /\ UNCHANGED drift

Longest(n) == IF n > longest THEN n ELSE longest

(* The frame comes back complete, with the DC time of this cycle.          *)
Cycle ==
  /\ losing = 0
  /\ CycleWith(dc_time)
  /\ UNCHANGED <<losing, outages, longest>>

(* A frame is lost, the first of n in a row: the buffer keeps what it has, *)
(* and that is what the cycle goes by.                                     *)
Lose(n) ==
  /\ initialized /\ losing = 0 /\ outages < MaxOutages
  /\ CycleWith(Head(rxbuf))
  /\ losing' = n - 1 /\ outages' = outages + 1 /\ longest' = Longest(n)

(* And the frames after it.                                                *)
LoseOn ==
  /\ losing > 0
  /\ CycleWith(Head(rxbuf))
  /\ losing' = losing - 1
  /\ UNCHANGED <<outages, longest>>

(* n incomplete cycles: nothing is adjusted, the timer goes on as it was.  *)
Outage(n) ==
  /\ initialized /\ losing = 0 /\ outages < MaxOutages
  /\ outages' = outages + 1 /\ longest' = Longest(n)
  /\ rxbuf' = Filled(NoDcTime, n)
  /\ dc_time' = Advanced(PhaseStep(period) + (n - 1) * PhaseStep(period_buffer))
  /\ period' = period_buffer
  /\ UNCHANGED <<drift, losing, controller>>

(* The DC time of the first call is arbitrary; 0 puts the phase that is    *)
(* kept on the edge of the cycle, where the error has to be wrapped.       *)
Init ==
  /\ dc_time = 0 /\ drift \in Drifts
  /\ rxbuf = [i \in 1..Buffers |-> NoDcTime] /\ losing = 0
  /\ initialized = FALSE /\ target_phase_ns = 0 /\ integral = 0
  /\ period = GPT_NOMINAL_PERIOD_COUNTS /\ period_buffer = GPT_NOMINAL_PERIOD_COUNTS
  /\ outages = 0 /\ longest = 0

Next == Cycle \/ LoseOn \/ (\E n \in Losses : Lose(n)) \/ (\E n \in Outages : Outage(n))

(* The timer runs for as long as the PDO loop does, and frames come back   *)
(* again after an outage.                                                  *)
Spec == Init /\ [][Next]_vars /\ WF_vars(Cycle \/ LoseOn)

-----------------------------------------------------------------------------
(* The distance of a DC time from the phase the cycle is to keep.          *)
DistanceOf(ec_DCtime) ==
  LET ahead == (phase_ns(ec_DCtime) - target_phase_ns) % ETHERCAT_DC_CYCLE_NS
  IN IF ahead <= ETHERCAT_DC_CYCLE_NS - ahead THEN ahead ELSE ETHERCAT_DC_CYCLE_NS - ahead

(* The phase of the first call is kept (gpt.c:95): whatever the drift and  *)
(* however long frames were lost or came back incomplete, the cycle comes  *)
(* to within the 100 ns the proportional part rounds to nothing, and stays *)
(* there.                                                                  *)
PhaseLocks == <>[](DistanceOf(dc_time) <= 100)

(* The phase is kept, and has been for as long as the buffers reach back.  *)
InLock ==
  /\ DistanceOf(dc_time) <= 100
  /\ \A i \in 1..Buffers : rxbuf[i] # NoDcTime /\ DistanceOf(rxbuf[i]) <= 100

(* The length of the PDO cycle never changes suddenly (gpt.c:160).  In     *)
(* lock two periods in a row differ by two counts, 5 ns, at most, even     *)
(* when the DC time adjusted with is an old one.  Before the lock an old   *)
(* DC time shows a phase the cycle has left: unless more frames in a row   *)
(* went wrong than there are buffers, the step is seven counts at most     *)
(* for clocks up to 50 ppm apart.                                          *)
PeriodSmooth ==
  [][LET change == Abs(period' - period)
     IN /\ InLock => change <= 2
        /\ longest' <= Buffers => change <= 7]_vars
=============================================================================
