----------------------------- MODULE Scheduler -----------------------------
(***************************************************************************)
(* The run-time scheduler.  Every function of scheduler/mod.rs runs on the *)
(* trap path with interrupts disabled, so a trap handler is one step and   *)
(* the functions it calls are operators from scheduler state to scheduler  *)
(* state.  A scheduler state is a record:                                  *)
(*   cur       CURRENT_TASK_IDX                                            *)
(*   since     TICKS_SINCE_SWITCH, a wrapping u32                          *)
(*   state     TaskDescriptor::state                                       *)
(*   blockedOn TaskDescriptor::blocked_on                                  *)
(*   wakeAt    TaskDescriptor::wake_at, a wrapping u32                     *)
(*   rq        READY_QUEUE, the queued tasks in insertion order            *)
(*   saved     TaskDescriptor::stack_ptr: on whose kernel stack the saved  *)
(*             frame of a task lies                                        *)
(*   frame     on whose kernel stack the frame lies that the trap exit     *)
(*             resumed last; mscratch points to the top of that stack, so  *)
(*             the next trap saves its frame there                         *)
(*   region    the task whose region PMP entries 1 and 2 grant             *)
(*   halt      why the kernel stopped, or "no"                             *)
(***************************************************************************)
EXTENDS Ccg, RankedFifo

CONSTANTS
  Quantum,   \* TIME_QUANTUM_TICKS
  HalfRange, \* 2^31: half the range of a tick counter
  Chan       \* channel identifiers

TickMod == 2 * HalfRange
Tick == 0 .. (TickMod - 1)

ASSUME SchedulerAssumption ==
  /\ MaxTasks \in Nat /\ NumTasks <= MaxTasks
  /\ HalfRange \in Nat \ {0}
  /\ Quantum \in 1 .. (TickMod - 1)

NotBlocked == <<"None">>
Asleep == <<"Sleep">>
SendOn(c) == <<"Send", c>>
ReceiveOn(c) == <<"Receive", c>>
Reason == {NotBlocked, Asleep} \cup {SendOn(c) : c \in Chan} \cup {ReceiveOn(c) : c \in Chan}

HaltCause == {"no", "no runnable task", "queue capacity", "stack canary", "fault"}

SchedulerState ==
  [cur : Task, since : Tick, state : [Task -> {"Ready", "Running", "Blocked"}],
   blockedOn : [Task -> Reason], wakeAt : [Task -> Tick], rq : Seq(Task),
   saved : [Task -> Task], frame : Task, region : Task, halt : HaltCause]

-----------------------------------------------------------------------------
Best(q) == BestIndex(Eff, q)

\* Insert the tasks of the sequence w one after the other.
InsertAll(s, w) ==
  IF Len(s.rq \o w) > MaxTasks
    THEN [s EXCEPT !.halt = "queue capacity"]
    ELSE [s EXCEPT !.rq = @ \o w]

-----------------------------------------------------------------------------
\* __trap_entry swaps sp with mscratch and builds the trap frame at the top
\* of the kernel stack it finds there.
TrapEntry(s) == s.frame

\* __restore_context resumes the frame on stack f and derives mscratch from it.
TrapExit(s, f) == [s EXCEPT !.frame = f]

SaveCurrent(s) == [s EXCEPT !.saved[s.cur] = TrapEntry(s)]

\* Faulty variant: the PMP entries keep the previous task's region.
MarkRunningKeepsRegion(s, t) ==
  [s EXCEPT !.cur = t, !.since = 0, !.state[t] = "Running"]

\* Faulty variant: a task inherits the ticks of the one before it.
MarkRunningKeepsCount(s, t) ==
  [s EXCEPT !.cur = t, !.state[t] = "Running", !.region = t]

MarkRunning(s, t) ==
  [s EXCEPT !.cur = t, !.since = 0, !.state[t] = "Running", !.region = t]

\* Pop the best task, make it current and resume its frame.
DispatchNext(s) ==
  IF s.rq = <<>>
    THEN [s EXCEPT !.halt = "no runnable task"]
    ELSE LET b == Best(s.rq)
             t == s.rq[b]
         IN  TrapExit(MarkRunning([s EXCEPT !.rq = Without(s.rq, b)], t), s.saved[t])

\* Faulty variant: the task joins the queue but stays marked Running.
RequeueKeepsState(s) == InsertAll(s, <<s.cur>>)

RequeueCurrent(s) == InsertAll([s EXCEPT !.state[s.cur] = "Ready"], <<s.cur>>)

\* Faulty variant: plain comparison, wrong once the counter wraps.
TickReachedNoWrap(now, deadline) == now >= deadline

\* Whether tick now has reached the deadline: the i32 sign of the difference.
TickReached(now, deadline) == (now - deadline) % TickMod < HalfRange

\* The tasks of W leave their wait and join the queue in slot order.
MakeReady(s, W) ==
  InsertAll([s EXCEPT !.state = [t \in Task |-> IF t \in W THEN "Ready" ELSE @[t]],
                      !.blockedOn = [t \in Task |-> IF t \in W THEN NotBlocked ELSE @[t]]],
            SlotOrder(W))

Sleepers(s) == {t \in Task : s.state[t] = "Blocked" /\ s.blockedOn[t] = Asleep}

\* Faulty variant: the scan starts at slot 1.
WakeSleepersFromOne(s, now) ==
  MakeReady(s, {t \in Sleepers(s) : t # 0 /\ TickReached(now, s.wakeAt[t])})

WakeSleepers(s, now) == MakeReady(s, {t \in Sleepers(s) : TickReached(now, s.wakeAt[t])})

\* Faulty variant: a higher priority waits for the quantum to expire.
ShouldPreemptLate(s) ==
  /\ s.rq # <<>>
  /\ s.since >= Quantum /\ Eff[s.rq[Best(s.rq)]] >= Eff[s.cur]

\* Faulty variant: equal priorities never take turns.
ShouldPreemptStrict(s) == s.rq # <<>> /\ Eff[s.rq[Best(s.rq)]] > Eff[s.cur]

ShouldPreempt(s) ==
  /\ s.rq # <<>>
  /\ LET next == Eff[s.rq[Best(s.rq)]]
         own  == Eff[s.cur]
     IN  next > own \/ (s.since >= Quantum /\ next >= own)

\* tick() and the choice on_timer_interrupt makes from its result.
TickCheck(s) ==
  LET counted == [s EXCEPT !.since = (@ + 1) % TickMod]
      switched == DispatchNext(RequeueCurrent(counted))
  IN  IF ~ShouldPreempt(counted) THEN counted
      ELSE IF switched.cur = s.cur THEN TrapExit(switched, TrapEntry(s))
      ELSE switched

\* The first task whose canary is overwritten stops the kernel.
CheckStackCanaries(s, overflowed) ==
  IF overflowed # {} THEN [s EXCEPT !.halt = "stack canary"] ELSE s

OnTimerInterrupt(s, now, overflowed) ==
  LET checked == CheckStackCanaries(SaveCurrent(s), overflowed)
  IN  IF checked.halt # "no" THEN checked ELSE TickCheck(WakeSleepers(checked, now))

YieldCurrent(s) == DispatchNext(RequeueCurrent(SaveCurrent(s)))

SleepCurrent(s, now, ticks) ==
  DispatchNext([SaveCurrent(s) EXCEPT
                  !.state[s.cur] = "Blocked",
                  !.blockedOn[s.cur] = Asleep,
                  !.wakeAt[s.cur] = (now + Max({ticks, 1})) % TickMod])

BlockCurrent(s, reason) ==
  DispatchNext([SaveCurrent(s) EXCEPT !.state[s.cur] = "Blocked",
                                      !.blockedOn[s.cur] = reason])

\* Faulty variant: the channel number of the reason is not compared.
WakeBlockedOnKind(s, reason) ==
  LET waiting == {t \in Task : s.state[t] = "Blocked" /\ s.blockedOn[t][1] = reason[1]}
  IN  IF waiting = {} THEN s ELSE MakeReady(s, {Min(waiting)})

\* The first task in slot order that waits for reason, if any, becomes ready.
WakeBlockedOn(s, reason) ==
  LET waiting == {t \in Task : s.state[t] = "Blocked" /\ s.blockedOn[t] = reason}
  IN  IF waiting = {} THEN s ELSE MakeReady(s, {Min(waiting)})

\* Faulty variant: the woken task waits for the next tick.
PreemptAtNextTick(s) == s

PreemptIfOutranked(s) ==
  IF s.rq = <<>> \/ Eff[s.rq[Best(s.rq)]] <= Eff[s.cur] THEN s
  ELSE DispatchNext(RequeueCurrent(SaveCurrent(s)))

-----------------------------------------------------------------------------
\* The state scheduler::init and prepare_frames leave, with the first task
\* started: every task was queued in slot order and the best one popped.
Booted ==
  DispatchNext(
    InsertAll([cur |-> 0, since |-> 0, state |-> [t \in Task |-> "Ready"],
               blockedOn |-> [t \in Task |-> NotBlocked], wakeAt |-> [t \in Task |-> 0],
               rq |-> <<>>, saved |-> [t \in Task |-> t], frame |-> 0, region |-> 0,
               halt |-> "no"],
              SlotOrder(Task)))

=============================================================================
