------------------------------- MODULE Kernel -------------------------------
(***************************************************************************)
(* The running kernel: timer interrupts, system calls and faults acting on *)
(* the scheduler and the kernel channels.  A trap is one step, because the *)
(* handler runs to completion with interrupts disabled on the only hart.   *)
(* Between two traps the running task computes; which call it makes next,  *)
(* and with which arguments, is arbitrary.                                 *)
(*                                                                         *)
(* A kernel channel is the sequence of its queued messages (module Channel *)
(* shows that the ring buffer implements that).  Messages are opaque to    *)
(* the kernel, so the payload of the n-th message a task hands to a        *)
(* channel is n modulo NumMod: loss, duplication and reordering show up as *)
(* a gap in the numbers.                                                   *)
(***************************************************************************)
EXTENDS Scheduler

CONSTANTS
  Idle,      \* slot of the idle task, which only executes wfi
  Sends,     \* TaskDescriptor::sends_mask
  Receives,  \* TaskDescriptor::receives_mask
  MayLog,    \* the tasks that hold the console capability
  Capacity,  \* CHANNEL_CAPACITY
  NumMod,    \* message numbers are taken modulo NumMod
  BadChan,   \* a channel argument that names no channel
  SleepArgs, \* the arguments sleep is called with
  Faults     \* whether tasks may overflow their stack or fault

\* boot.rs registers an idle task, and halts unless every endpoint has at
\* most one holder (check_channel_conflicts).
ASSUME KernelAssumption ==
  /\ Idle \in Task
  /\ Sends \in [Task -> SUBSET Chan] /\ Receives \in [Task -> SUBSET Chan]
  /\ \A t, u \in Task : t # u => Sends[t] \cap Sends[u] = {} /\ Receives[t] \cap Receives[u] = {}
  /\ Capacity \in Nat \ {0}
  /\ NumMod \in Nat /\ NumMod > Capacity + 1
  /\ BadChan \notin Chan
  /\ SleepArgs \subseteq Tick
  /\ Faults \in BOOLEAN

VARIABLES
  sched,      \* the scheduler state
  ticks,      \* TICK_COUNT, a wrapping u32
  chan,       \* CHANNELS: the messages queued on each channel, oldest first
  call,       \* the call a task re-executes when it resumes: mepc was rewound
              \* to its ecall and the argument registers are intact
  ret,        \* a0 of the last caller: an error code, or "ok" for any result
  overflowed, \* the tasks whose stack canary is overwritten
  outbox,     \* per channel, the message in the sender's buffer
  inbox,      \* per channel, the message in the receiver's buffer
  left        \* per sleeping task, the ticks it still asked to sleep

vars == <<sched, ticks, chan, call, ret, overflowed, outbox, inbox, left>>

NoCall == [op |-> "none"]

Errno == {"ENOSYS", "EPERM", "EFAULT", "EAGAIN", "EINVAL"}

\* Arguments: the channel, the first flaw the argument checks would meet (a
\* length above MSG_MAX, a buffer outside the caller's memory), FLAG_NONBLOCK.
SendCall ==
  [op : {"send"}, ch : Chan \cup {BadChan}, flaw : {"none", "length", "buffer"}, nonblock : BOOLEAN]

ReceiveCall ==
  [op : {"receive"}, ch : Chan \cup {BadChan}, flaw : {"none", "buffer"}, nonblock : BOOLEAN]

Running == sched.cur

\* Faulty variant: the idle task may block, too.
ExecutesAnyTask(k) == sched.halt = "no" /\ call[Running] \in {NoCall, k}

\* The running task executes an ecall for k: a fresh call, or the one it was
\* blocked in.  The idle task makes no calls.
Executes(k) ==
  /\ sched.halt = "no"
  /\ Running # Idle
  /\ call[Running] \in {NoCall, k}

Init ==
  /\ sched = Booted
  /\ ticks = 0
  /\ chan = [c \in Chan |-> <<>>]
  /\ call = [t \in Task |-> NoCall]
  /\ ret = "ok"
  /\ overflowed = {}
  /\ outbox = [c \in Chan |-> 0]
  /\ inbox = [c \in Chan |-> 0]
  /\ left = [t \in Task |-> 0]

-----------------------------------------------------------------------------
NextTick == (ticks + 1) % TickMod

\* timer_isr counts the tick and re-arms the comparator.
TimerIsr == sched.halt = "no" /\ ticks' = NextTick

\* Machine-timer interrupt: advance time, wake sleepers, maybe preempt.
Timer ==
  /\ TimerIsr
  /\ sched' = OnTimerInterrupt(sched, NextTick, overflowed)
  /\ left' = [t \in Task |-> IF t \in Sleepers(sched) THEN Max({left[t] - 1, 0}) ELSE left[t]]
  /\ UNCHANGED <<chan, call, ret, overflowed, outbox, inbox>>

SysYield ==
  /\ Executes([op |-> "yield"])
  /\ sched' = YieldCurrent(sched)
  /\ ret' = "ok"
  /\ UNCHANGED <<ticks, chan, call, overflowed, outbox, inbox, left>>

SysSleep(n) ==
  /\ Executes([op |-> "sleep", ticks |-> n])
  /\ sched' = SleepCurrent(sched, ticks, n)
  /\ left' = [left EXCEPT ![Running] = Max({n, 1})]
  /\ ret' = "ok"
  /\ UNCHANGED <<ticks, chan, call, overflowed, outbox, inbox>>

\* log writes to the console and now reads the clock: only a0 changes.
SysLog(bufferOk) ==
  /\ Executes([op |-> "log"])
  /\ ret' = IF Running \notin MayLog THEN "EPERM" ELSE IF ~bufferOk THEN "EFAULT" ELSE "ok"
  /\ UNCHANGED <<sched, ticks, chan, call, overflowed, outbox, inbox, left>>

SysNow ==
  /\ Executes([op |-> "now"])
  /\ ret' = "ok"
  /\ UNCHANGED <<sched, ticks, chan, call, overflowed, outbox, inbox, left>>

SysUnknown ==
  /\ Executes([op |-> "unknown"])
  /\ ret' = "ENOSYS"
  /\ UNCHANGED <<sched, ticks, chan, call, overflowed, outbox, inbox, left>>

-----------------------------------------------------------------------------
(* send and receive validate their arguments in a fixed order; "ok" means  *)
(* that every check passed.                                                *)

SendCheck(t, k) ==
  IF k.ch \notin Chan THEN "EINVAL"
  ELSE IF k.ch \notin Sends[t] THEN "EPERM"
  ELSE IF k.flaw = "length" THEN "EINVAL"
  ELSE IF k.flaw = "buffer" THEN "EFAULT"
  ELSE "ok"

ReceiveCheck(t, k) ==
  IF k.ch \notin Chan THEN "EINVAL"
  ELSE IF k.ch \notin Receives[t] THEN "EPERM"
  ELSE IF k.flaw = "buffer" THEN "EFAULT"
  ELSE "ok"

\* Error return: the call has no effect.
Reject(errno) ==
  /\ ret' = errno
  /\ UNCHANGED <<sched, ticks, chan, call, overflowed, outbox, inbox, left>>

\* Faulty variant: mepc is not rewound, the call returns when woken.
BlockWithoutRestart(k, reason) ==
  /\ sched' = BlockCurrent(sched, reason)
  /\ UNCHANGED <<ticks, chan, call, ret, overflowed, inbox, left>>

\* The ecall will run again when the task resumes; a0 still holds its argument.
BlockAndRestart(k, reason) ==
  /\ sched' = BlockCurrent(sched, reason)
  /\ call' = [call EXCEPT ![Running] = k]
  /\ UNCHANGED <<ticks, chan, ret, overflowed, inbox, left>>

\* A fresh call hands over a new message, a restarted one the same again.
FillOutbox(k) ==
  outbox' = IF call[Running] = NoCall THEN [outbox EXCEPT ![k.ch] = (@ + 1) % NumMod] ELSE outbox

IsFull(c) == Len(chan[c]) = Capacity

SendCompletes(k) ==
  /\ chan' = [chan EXCEPT ![k.ch] = Append(@, outbox'[k.ch])]
  /\ sched' = PreemptIfOutranked(WakeBlockedOn(sched, ReceiveOn(k.ch)))
  /\ call' = [call EXCEPT ![Running] = NoCall]
  /\ ret' = "ok"
  /\ UNCHANGED <<ticks, overflowed, inbox, left>>

SysSend(k) ==
  /\ Executes(k)
  /\ \/ SendCheck(Running, k) # "ok" /\ Reject(SendCheck(Running, k))
     \/ /\ SendCheck(Running, k) = "ok"
        /\ \/ IsFull(k.ch) /\ k.nonblock /\ Reject("EAGAIN")
           \/ IsFull(k.ch) /\ ~k.nonblock /\ BlockAndRestart(k, SendOn(k.ch)) /\ FillOutbox(k)
           \/ ~IsFull(k.ch) /\ FillOutbox(k) /\ SendCompletes(k)

\* Faulty variant: a sender blocked on the channel is not woken.
ReceiveWithoutWake(k) ==
  /\ inbox' = [inbox EXCEPT ![k.ch] = Head(chan[k.ch])]
  /\ chan' = [chan EXCEPT ![k.ch] = Tail(@)]
  /\ call' = [call EXCEPT ![Running] = NoCall]
  /\ ret' = "ok"
  /\ UNCHANGED <<sched, ticks, overflowed, outbox, left>>

ReceiveCompletes(k) ==
  /\ inbox' = [inbox EXCEPT ![k.ch] = Head(chan[k.ch])]
  /\ chan' = [chan EXCEPT ![k.ch] = Tail(@)]
  /\ sched' = PreemptIfOutranked(WakeBlockedOn(sched, SendOn(k.ch)))
  /\ call' = [call EXCEPT ![Running] = NoCall]
  /\ ret' = "ok"
  /\ UNCHANGED <<ticks, overflowed, outbox, left>>

SysReceive(k) ==
  /\ Executes(k)
  /\ \/ ReceiveCheck(Running, k) # "ok" /\ Reject(ReceiveCheck(Running, k))
     \/ /\ ReceiveCheck(Running, k) = "ok"
        /\ \/ chan[k.ch] = <<>> /\ k.nonblock /\ Reject("EAGAIN")
           \/ chan[k.ch] = <<>> /\ ~k.nonblock /\ BlockAndRestart(k, ReceiveOn(k.ch)) /\ UNCHANGED outbox
           \/ chan[k.ch] # <<>> /\ ReceiveCompletes(k)

-----------------------------------------------------------------------------
\* The running task writes past the end of its stack, over the canary.
Overflow ==
  /\ Faults
  /\ sched.halt = "no"
  /\ overflowed' = overflowed \cup {Running}
  /\ UNCHANGED <<sched, ticks, chan, call, ret, outbox, inbox, left>>

\* Any exception other than an ecall.
FaultAndHalt ==
  /\ Faults
  /\ sched.halt = "no"
  /\ sched' = [sched EXCEPT !.halt = "fault"]
  /\ UNCHANGED <<ticks, chan, call, ret, overflowed, outbox, inbox, left>>

\* halt() never returns and leaves interrupts disabled.
Halted == sched.halt # "no" /\ UNCHANGED vars

Next ==
  \/ Timer
  \/ SysYield
  \/ \E n \in SleepArgs : SysSleep(n)
  \/ \E b \in BOOLEAN : SysLog(b)
  \/ SysNow
  \/ SysUnknown
  \/ \E k \in SendCall : SysSend(k)
  \/ \E k \in ReceiveCall : SysReceive(k)
  \/ Overflow
  \/ FaultAndHalt
  \/ Halted

\* The CLINT re-arms the timer on every interrupt and tasks run with
\* interrupts enabled, so a machine that has not halted keeps ticking.
\* Timer is the only action that counts a tick.
Spec == Init /\ [][Next]_vars /\ WF_ticks(TimerIsr)

-----------------------------------------------------------------------------
(* Properties *)

Runnable(t) == sched.state[t] # "Blocked"

\* Type correctness of the kernel's state.
TypeOK ==
  /\ sched \in SchedulerState
  /\ ticks \in Tick
  /\ chan \in [Chan -> Seq(0 .. (NumMod - 1))]
  /\ call \in [Task -> {NoCall} \cup SendCall \cup ReceiveCall]
  /\ ret \in Errno \cup {"ok"}
  /\ overflowed \subseteq Task
  /\ outbox \in [Chan -> 0 .. (NumMod - 1)]
  /\ inbox \in [Chan -> 0 .. (NumMod - 1)]
  /\ left \in [Task -> Tick]

\* The scheduler's tables agree with one another after every trap: the
\* current task is the only one marked Running, the ready queue holds exactly
\* the Ready tasks and none twice, a task waits for something iff it is
\* Blocked.  insert's capacity assertion and dispatch_next's halt rest on it.
TablesAgree ==
  /\ \A t \in Task : sched.state[t] = "Running" <=> t = sched.cur
  /\ \A t \in Task : sched.state[t] = "Ready" <=> \E i \in DOMAIN sched.rq : sched.rq[i] = t
  /\ \A i, j \in DOMAIN sched.rq : sched.rq[i] = sched.rq[j] => i = j
  /\ \A t \in Task : sched.state[t] = "Blocked" <=> sched.blockedOn[t] # NotBlocked

\* The context a trap leaves installed is the current task's own: mscratch
\* points to its kernel stack, PMP grants its region, and every saved frame
\* lies on its owner's stack, so no trap overwrites another task's context
\* (save_current, frame_of, mark_running, the mscratch hand-over of __trap_entry).
ContextIsOwn ==
  /\ sched.frame = sched.cur
  /\ sched.region = sched.cur
  /\ \A t \in Task : sched.saved[t] = t

\* Whenever the kernel returns to a task, no ready task has a higher effective
\* priority: every handler that makes a task ready re-decides before it
\* returns (tick, preempt_if_outranked, dispatch_next).
RunsTheHighest == \A t \in Task : Runnable(t) => Eff[t] <= Eff[sched.cur]

\* CA-PIP: while a task that (transitively) holds what h requires can run,
\* nothing of lower priority than h occupies the processor.
NoPriorityInversion ==
  \A l \in Task : \A h \in Reach[l] : Runnable(l) => Eff[sched.cur] >= Priority[h]

\* The kernel never halts for want of a runnable task or of room in the
\* ready queue (the two internal fatal paths); only tasks can bring it down.
NeverStuck == sched.halt \notin {"no runnable task", "queue capacity"}

\* A task blocked on a channel has a reason to be: the receiver's channel is
\* empty, the sender's is full.  Otherwise its wake-up was lost.
NoLostWakeup ==
  \A c \in Chan, t \in Task :
    /\ sched.blockedOn[t] = ReceiveOn(c) => chan[c] = <<>>
    /\ sched.blockedOn[t] = SendOn(c) => IsFull(c)

\* "On wake-up the task simply retries the operation, which now succeeds": a
\* task resumed inside send or receive finds room or a message, however long
\* it waited in the ready queue and whatever ran meanwhile.
RestartSucceeds ==
  \A t \in Task : call[t] # NoCall /\ Runnable(t) =>
    /\ call[t].op = "send" => ~IsFull(call[t].ch)
    /\ call[t].op = "receive" => chan[call[t].ch] # <<>>

\* Everything handed to a blocking send is, in order and exactly once, either
\* received, or queued, or in the hands of a sender that is blocked; a
\* restarted call neither repeats nor drops its message.
ExactlyOnceInOrder ==
  \A c \in Chan :
    LET pending == {t \in Task : call[t].op = "send" /\ call[t].ch = c}
    IN  /\ \A i \in DOMAIN chan[c] : chan[c][i] = (inbox[c] + i) % NumMod
        /\ outbox[c] = (inbox[c] + Len(chan[c]) + Cardinality(pending)) % NumMod

\* sleep(n) ends with the n-th tick after the call (the first for n = 0),
\* neither earlier nor later, also across the wraparound of the tick counter.
SleepExact ==
  [][\A t \in Sleepers(sched) :
       sched'.halt = "no" => (t \in Sleepers(sched') <=> (ticks' = ticks \/ left[t] > 1))]_vars

\* The count of the quantum after a step: it starts over, or it is the count of
\* the task that was running before and has grown with the ticks at most.
CountIsOwn(counted) ==
  sched'.since = 0 \/ (sched'.cur = sched.cur /\ sched'.since <= sched.since + counted)

\* A task loses the processor against its will only to a higher effective
\* priority, or to an equal one after its whole quantum, which counts the ticks
\* since the task's own dispatch and no others (mark_running resets the count
\* on every path); yield, sleep and blocking calls are the task's own will.
PreemptionIsJustified ==
  [][/\ sched'.cur # sched.cur /\ ticks' # ticks =>
          \/ Eff[sched'.cur] > Eff[sched.cur]
          \/ Eff[sched'.cur] = Eff[sched.cur] /\ sched.since + 1 >= Quantum
     /\ CountIsOwn(IF ticks' = ticks THEN 0 ELSE 1)]_vars

\* Round robin: a ready task that nothing of higher effective priority keeps
\* from running does not stay ready forever, even when its equals never yield.
RoundRobin ==
  \A t \in Task :
    []<>(\/ sched.halt # "no"
         \/ sched.state[t] # "Ready"
         \/ \E u \in Task : Runnable(u) /\ Eff[u] > Eff[t])

\* Every sleeper is eventually woken.
SleepersWake ==
  \A t \in Task : t \in Sleepers(sched) ~> (t \notin Sleepers(sched) \/ sched.halt # "no")

\* "a holder's effective priority is always >= every waiter's priority, so it
\* can never be preempted by a waiter": the timer never takes the processor
\* from a holder to give it to a task that requires what it holds.
HolderNotPreemptedByWaiter ==
  [][ticks' # ticks => ~Edge(sched.cur, sched'.cur)]_vars

=============================================================================
