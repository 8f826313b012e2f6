------------------------------- MODULE Clint -------------------------------
(***************************************************************************)
(* The timer driver of clint.rs, one access to the CLINT per step, while   *)
(* the clock runs on.  mtime and mtimecmp are 64-bit registers behind a    *)
(* 32-bit bus: get_mtime reads three words, set_mtimecmp writes three.     *)
(* start_ticks and timer_isr run with interrupts disabled; the interrupt   *)
(* is level-triggered, so it is taken in tasks while mtime >= mtimecmp.    *)
(* How long a step takes is arbitrary (QEMU's clock is the host's), so the *)
(* clock may jump between any two steps.                                   *)
(***************************************************************************)
EXTENDS Integers

CONSTANTS
  Word,       \* 2^32, the range of a word
  TickCycles, \* TICK_CYCLES
  MaxTime     \* bound on mtime

\* Within the bound, the high word of mtime stays below u32::MAX and the
\* u64 arithmetic on deadlines does not overflow.
ASSUME ClintAssumption ==
  /\ Word \in Nat /\ Word > 1
  /\ TickCycles \in Nat \ {0}
  /\ MaxTime \in Nat /\ MaxTime + TickCycles < Word * (Word - 1)

Hi(t) == t \div Word
Lo(t) == t % Word
Join(hi, lo) == hi * Word + lo

VARIABLES
  mtime,  \* the clock
  cmpHi,  \* mtimecmp, high word
  cmpLo,  \* mtimecmp, low word
  next,   \* NEXT_DEADLINE
  ticks,  \* TICK_COUNT (its wraparound is a matter of module Kernel)
  pc,     \* the next access of the driver; "tasks" outside it
  isr,    \* whether timer_isr was called, rather than start_ticks
  hi0,    \* local of get_mtime
  lo,     \* local of get_mtime
  readAt, \* history: the time at which the low word was read
  origin, \* history: the time at which start_ticks read the clock
  late,   \* history: the handler once found a whole tick passed unserved
  seen    \* history: what the last two calls of get_mtime returned

timerVars == <<mtime, cmpHi, cmpLo, next, ticks, pc, isr, hi0, lo, readAt, origin, late, seen>>

Accesses == {"hi0", "lo", "hi1", "cmp_max", "cmp_lo", "cmp_hi"}

\* mtimecmp is undefined after reset.
TimerInit ==
  /\ mtime \in 0 .. (Word - 1) /\ mtime <= MaxTime
  /\ cmpHi \in {0, Word - 1} /\ cmpLo = 0
  /\ next = 0
  /\ ticks = 0
  /\ pc = "boot"
  /\ isr = FALSE
  /\ hi0 = 0 /\ lo = 0
  /\ readAt = 0 /\ origin = 0 /\ late = FALSE
  /\ seen = [before |-> 0, last |-> 0]

\* MTIP
Pending == mtime >= Join(cmpHi, cmpLo)

Advance ==
  /\ \E t \in (mtime + 1) .. MaxTime : mtime' = t
  /\ UNCHANGED <<cmpHi, cmpLo, next, ticks, pc, isr, hi0, lo, readAt, origin, late, seen>>

-----------------------------------------------------------------------------
(* The two callers. *)

StartTicks ==
  /\ pc = "boot"
  /\ isr' = FALSE
  /\ pc' = "hi0"
  /\ UNCHANGED <<mtime, cmpHi, cmpLo, next, ticks, hi0, lo, readAt, origin, late, seen>>

\* The trap is taken; timer_isr counts the tick and moves the deadline on.
TimerIsr ==
  /\ pc = "tasks" /\ Pending
  /\ ticks' = ticks + 1
  /\ next' = next + TickCycles
  /\ isr' = TRUE
  /\ pc' = "hi0"
  /\ UNCHANGED <<mtime, cmpHi, cmpLo, hi0, lo, readAt, origin, late, seen>>

\* Faulty variant: every deadline counts from now.
DeadlineFromNow(now) == now + TickCycles

\* Faulty variant: missed ticks are caught up one by one.
DeadlineWithoutResync(now) == IF isr THEN next ELSE now + TickCycles

\* What the callers do with the time get_mtime returned.
Deadline(now) == IF isr /\ next > now THEN next ELSE now + TickCycles

-----------------------------------------------------------------------------
(* get_mtime *)

ReadHi0 ==
  /\ pc = "hi0"
  /\ hi0' = Hi(mtime)
  /\ pc' = "lo"
  /\ UNCHANGED <<mtime, cmpHi, cmpLo, next, ticks, isr, lo, readAt, origin, late, seen>>

ReadLo ==
  /\ pc = "lo"
  /\ lo' = Lo(mtime)
  /\ pc' = "hi1"
  /\ readAt' = mtime
  /\ late' = (late \/ (isr /\ mtime >= next))
  /\ UNCHANGED <<mtime, cmpHi, cmpLo, next, ticks, isr, hi0, origin, seen>>

Returns(now) ==
  /\ next' = Deadline(now)
  /\ pc' = "cmp_max"
  /\ origin' = IF isr THEN origin ELSE readAt
  /\ seen' = [before |-> seen.last, last |-> now]

\* Faulty variant: the high word is not compared with the first reading.
ReadHi1Unchecked ==
  /\ pc = "hi1"
  /\ Returns(Join(Hi(mtime), lo))
  /\ UNCHANGED <<mtime, cmpHi, cmpLo, ticks, isr, hi0, lo, readAt, late>>

\* Faulty variant: hi0 is read before the loop, a carry fails every comparison.
ReadHi1StaleHi0 ==
  /\ pc = "hi1"
  /\ \/ Hi(mtime) = hi0 /\ Returns(Join(hi0, lo))
     \/ Hi(mtime) # hi0 /\ pc' = "lo" /\ UNCHANGED <<next, origin, seen>>
  /\ UNCHANGED <<mtime, cmpHi, cmpLo, ticks, isr, hi0, lo, readAt, late>>

\* A carry between the readings of the high word: read again.
ReadHi1 ==
  /\ pc = "hi1"
  /\ \/ Hi(mtime) = hi0 /\ Returns(Join(hi0, lo))
     \/ Hi(mtime) # hi0 /\ pc' = "hi0" /\ UNCHANGED <<next, origin, seen>>
  /\ UNCHANGED <<mtime, cmpHi, cmpLo, ticks, isr, hi0, lo, readAt, late>>

-----------------------------------------------------------------------------
(* set_mtimecmp *)

\* Faulty variant: the high word is not raised first.
WriteMaxSkipped ==
  /\ pc = "cmp_max"
  /\ pc' = "cmp_lo"
  /\ UNCHANGED <<mtime, cmpHi, cmpLo, next, ticks, isr, hi0, lo, readAt, origin, late, seen>>

WriteMax ==
  /\ pc = "cmp_max"
  /\ cmpHi' = Word - 1
  /\ pc' = "cmp_lo"
  /\ UNCHANGED <<mtime, cmpLo, next, ticks, isr, hi0, lo, readAt, origin, late, seen>>

WriteLo ==
  /\ pc = "cmp_lo"
  /\ cmpLo' = Lo(next)
  /\ pc' = "cmp_hi"
  /\ UNCHANGED <<mtime, cmpHi, next, ticks, isr, hi0, lo, readAt, origin, late, seen>>

WriteHi ==
  /\ pc = "cmp_hi"
  /\ cmpHi' = Hi(next)
  /\ pc' = "handler"
  /\ UNCHANGED <<mtime, cmpLo, next, ticks, isr, hi0, lo, readAt, origin, late, seen>>

\* The rest of the trap or of the boot path, up to mret.
ReturnToTasks ==
  /\ pc = "handler"
  /\ pc' = "tasks"
  /\ UNCHANGED <<mtime, cmpHi, cmpLo, next, ticks, isr, hi0, lo, readAt, origin, late, seen>>

Step ==
  \/ StartTicks \/ TimerIsr
  \/ ReadHi0 \/ ReadLo \/ ReadHi1
  \/ WriteMax \/ WriteLo \/ WriteHi
  \/ ReturnToTasks

\* The clock stands at the bound of the model and nothing is pending.
Stopped == mtime = MaxTime /\ pc = "tasks" /\ ~Pending /\ UNCHANGED timerVars

TimerNext == Step \/ Advance \/ Stopped

\* The hart executes instructions and the clock runs.
TimerSpec == TimerInit /\ [][TimerNext]_timerVars /\ WF_timerVars(Step) /\ WF_timerVars(Advance)

-----------------------------------------------------------------------------
(* Properties *)

\* Type correctness of the driver's state.
TimerTypeOK ==
  /\ mtime \in 0 .. MaxTime
  /\ cmpHi \in 0 .. (Word - 1) /\ cmpLo \in 0 .. (Word - 1)
  /\ next \in Nat /\ ticks \in Nat
  /\ pc \in Accesses \cup {"boot", "handler", "tasks"}
  /\ isr \in BOOLEAN /\ late \in BOOLEAN
  /\ hi0 \in Nat /\ lo \in 0 .. (Word - 1)
  /\ readAt \in Nat /\ origin \in Nat
  /\ seen \in [before : Nat, last : Nat]

\* The time get_mtime returned was the time when it read the low word, however
\* the clock carried into the high word around that reading.
MtimeReadIsExact == pc = "cmp_max" => seen.last = readAt

\* "to avoid a spurious interrupt ..., write `u32::MAX` to the high word first":
\* from the first write of set_mtimecmp on, an interrupt is pending only once
\* the new deadline has come.
NoSpuriousInterrupt ==
  pc \in {"cmp_lo", "cmp_hi", "handler", "tasks"} /\ Pending => mtime >= next

\* "time spent in the trap handler does not accumulate as drift": unless a
\* whole tick passed unserved, the n-th deadline lies n ticks after the start.
NoDrift ==
  ~late /\ pc \notin {"boot", "hi0", "lo", "hi1"} => next = origin + (ticks + 1) * TickCycles

\* "rather than firing a burst of back-to-back catch-up interrupts": however far
\* the handler fell behind, the second interrupt after a reading of the clock
\* comes more than one tick after that reading.
NoBurst == [][ticks' # ticks /\ ticks >= 1 => mtime > seen.before + TickCycles]_timerVars

\* The timer is never lost: whenever the handler has returned, the comparator
\* is at most one tick ahead of the clock.
NeverLost == pc \in {"handler", "tasks"} => Join(cmpHi, cmpLo) <= mtime + TickCycles

\* get_mtime reads again only after a carry: a retry starts at the first reading,
\* and the high word has grown since that reading was taken.
RetryNeedsCarry ==
  [][pc = "hi1" /\ pc' \notin {"hi1", "cmp_max"} => pc' = "hi0" /\ hi0 < Hi(mtime)]_timerVars

\* What get_mtime expects of the clock, which carries once in 2^32 cycles: from
\* some time on no carry falls between two accesses of the same reading.
CarriesSpareReadings == <>[][Hi(mtime') # Hi(mtime) => pc \notin {"lo", "hi1"}]_timerVars

\* On such a clock every tick is served to the end: the interrupt of a tick that
\* is due is taken, and the call it enters (timer_isr, start_ticks likewise)
\* leaves the loop of get_mtime, writes the comparator and returns to the tasks.
DueTickIsServed ==
  CarriesSpareReadings =>
    /\ (pc = "tasks" /\ mtime >= next) ~> (pc = "hi0" /\ isr)
    /\ pc = "hi0" ~> pc = "tasks"

=============================================================================
