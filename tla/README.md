# A TLA+ model of the FerretOS kernel

FerretOS is a small preemptive microkernel for one RISC-V hart. Its scheduler
avoids priority inversion without locks at run time: a *Capability Contention
Graph* (CCG) built from the tasks' static capability masks gives every task, at
build time, the highest priority of anyone who could wait for what it holds.
This directory holds a model of the kernel in TLA+, the TLC configurations that
check it on small instances, and TLAPS proofs of its safety properties for
every instance. Paths below are relative to the repository (`src/`).

## 1. The system and its models

Machine mode runs with interrupts off: a trap handler is never interrupted, so
one action of the kernel model is one whole trap, from `__trap_entry` to `mret`.
Concurrency comes from where traps fall between the instructions of tasks. Four
kinds of code have intermediate states that matter to someone else and are
modelled step by step: the registers the trap stub borrows, the CSR writes of a
region switch, the accesses to the timer (whose clock runs on), and the
`Channel` type when tasks share it directly. The loops of the heap and of the
build script's searches are modelled one iteration per step as well; nobody sees
their intermediate states, but invariants of the loops are what the proofs need.

| part of the system | code (`src/kernel/…`) | module |
|---|---|---|
| CCG, inherited and effective priority | `src/scheduler/ccg.rs`, `mip.rs`, `build/ccg_gen.rs` | `Ccg`, `TaskSets` |
| the graph both searches run on | `src/scheduler/ccg.rs` | `TaskGraph` |
| the breadth-first search for the inherited priority, kernel's and build script's | `src/scheduler/mip.rs`, `build/ccg_gen.rs` | `MipSearch` |
| the cycle searches, explicit stack and recursive | `src/scheduler/ccg.rs`, `build/ccg_gen.rs` | `CycleSearch` |
| the build script that runs both and emits the table | `build.rs`, `build/ccg_gen.rs` | `Build` |
| ready queue, what it promises | – | `RankedFifo`, `ReadyQueue` |
| ready queue, the heap | `src/scheduler/queue.rs` | `PriorityQueue` |
| scheduler operations | `src/scheduler/mod.rs` | `Scheduler` |
| trap dispatch, system calls, timer tick, faults | `src/context/trap.rs`, `src/syscall.rs`, `src/sys.rs`, `src/clint.rs` | `Kernel` |
| the bodies of the default demo | `src/demo/pipeline.rs`, `src/sys.rs` | `Pipeline` |
| the same bodies by timetable, without the kernel | `src/demo/pipeline.rs` | `Backlog` |
| context switch, what it promises | – | `VirtualCpus` |
| trap entry and exit, registers and frames | `src/context/trap.rs`, `src/context/mod.rs` | `Context` |
| PMP regions and buffer checks | `src/memory/pmp.rs`, `src/syscall.rs` | `Memory` |
| a context switch with its region switch | `src/scheduler/mod.rs` | `Switch` |
| the timer driver | `src/clint.rs` | `Clint` |
| channel, what it promises | – | `Fifo` |
| channel, the ring buffer | `src/ipc/channel.rs`, `ipc/kernel.rs` | `Channel` |
| registry, placement check, conflict detectors, start | `src/boot.rs`, `src/capability/allocator.rs`, `src/memory/task.rs` | `Boot` |

How they fit together:

```
 TaskSets ── Ccg ── Scheduler ── Kernel ──── MCHml, MCPipeline
              RankedFifo ──┘        └── Pipeline ── MCDemo  (demo bodies on the kernel)
                 │
             ReadyQueue  ⇐ PriorityQueue   (heap implements ranked FIFO)
             Fifo        ⇐ Channel         (ring buffer implements FIFO)
             VirtualCpus ⇐ Context         (trap path implements a processor per task)
             Backlog     ⇐ Pipeline        (demo on the kernel implements its timetable)
 Context + Memory      = Switch            (PMP reprogrammed inside the trap path)
 TaskGraph ── CycleSearch, MipSearch ── Build  (one task set through the build script)
 TaskSets ── Boot                          (a started kernel meets Kernel's assumptions)
 Clint                                     (the Timer action of Kernel, in detail)
```

`Scheduler` uses the abstract queue of `RankedFifo`; `PriorityQueue` is shown to
implement the same operators. `Kernel` uses a channel as a bounded sequence;
`Channel` is shown to implement that. `Kernel` assumes that a channel endpoint
has one holder and that the table fits `MAX_TASKS`; `Boot` shows that no other
table is ever started. `Ccg` *defines* the effective priority through
reachability; `Build` shows that the loops of the code compute it. `Kernel`
takes a trap as one step that resumes a task where it was; `Context` shows that
the assembly does that. `Kernel` takes ticks to keep coming; `Clint` shows that
the handler leaves the timer armed.

### State and actions

**Scheduler.** One record: the current index (`cur`), the ticks since dispatch
(`since`), per task `state`, `blockedOn` and `wakeAt`, the ready queue `rq`, the
saved frames (`saved[t]` is the owner of the stack that t's `stack_ptr` points
into), whose kernel stack `mscratch` points to (`frame`), whose region PMP
grants (`region`), and why the kernel halted (`halt`). Every function of
`scheduler/mod.rs` on the trap path is an operator from record to record with
the code's name: `RequeueCurrent`, `DispatchNext`, `YieldCurrent`,
`SleepCurrent`, `BlockCurrent`, `WakeBlockedOn`, `PreemptIfOutranked`,
`TickCheck`, `OnTimerInterrupt` and so on. They compose as the calls in the code do.

**Kernel.** `sched`, `ticks` (TICK_COUNT, wrapping), `chan` (the kernel
channels), `call` (the blocking call a task is inside of and will restart),
`ret`, `overflowed` (stacks whose canary is overwritten), and three history
variables: `outbox` and `inbox` number the messages handed over and received on
each channel, `left` counts the ticks a sleeper has left. Actions: `Timer`,
one per system call (`SysYield`, `SysSleep`, `SysLog`, `SysNow`, `SysSend`,
`SysReceive`, `SysUnknown`), `Overflow` (the running task writes over its
canary), `FaultAndHalt` (any other exception), `Halted`. A blocking call that
cannot proceed blocks its task and moves `mepc` back to the `ecall`; when the
task runs again it *must* repeat the same call, which `Executes(k)` says. Tasks
are otherwise arbitrary: whoever runs may make any call its user-side wrapper
allows, in any order. The idle task makes none.

**PriorityQueue.** `heap` (the occupied prefix of the array), `next_seq`, `sift`
(which loop is in progress, its `idx`, and the index from which `remove` will call
`sift_up` after `sift_down`) and the last result. `Insert`, `PopMax` and
`RemoveTask` do everything up to their loop; `SiftUp` and `SiftDown` are one
iteration each, and no call starts before the loop of the last has ended. To
`ReadyQueue` a call happens in its first step and the iterations are stutters.

**Pipeline.** The same kernel, but its tasks are the bodies of
`demo/pipeline.rs`: `prog` is the next call of each, `sensor` and `logger` are
the locals that matter (release time, latency, misses, drops; the end of a
busy-wait, the count of lines). One action per call of a body.

**Backlog.** What the bodies need of the kernel and no more: for each body its
next call and what it waits for, the number of readings in each channel, time
as a number that does not wrap. The most urgent body that does not wait makes
the next call; a tick comes when all wait or the tick's share of calls is used
up. `Pipeline` maps its state to this one and implements it (`FollowsTimetable`).

**Context.** The hart's registers (`sp`, `t0`, `a0` and the rest), program
counter, mode, `mscratch`, `mepc`, `mstatus.MPP`, the frame at the top of each
kernel stack and `stack_ptr` of each task. One action per group of instructions
of the stub between which the borrowed registers differ, one per outcome of
`trap_handler`. An address is a kernel stack and an offset in frames.

**Switch.** `Context` and `Memory` share the current index: `Dispatch` is
`mark_running`, followed by the five CSR writes of `activate_task_region`, one
action each; the stub continues after the last.

**Clint.** `mtime` and the two words of `mtimecmp`, `NEXT_DEADLINE`,
`TICK_COUNT`, the locals of `get_mtime`. One action per access to the bus, in
`start_ticks` and `timer_isr`; `Advance` moves the clock on by any amount
between any two of them.

**Build.** Both searches with their queue, stack and marks, one loop iteration
per step, in the order of `build.rs`; `stopFirst` selects the kernel's
`detect_cycle`, which ends at the first back edge.

**Boot.** A program counter `phase` through `kernel_main`, the registry filled
task by task, both detectors one slot per step.

**Channel.** Producer and consumer with one action per shared access (load
`len`, load `head`, write or read the slot, publish, release).
`Interleaved = FALSE` is the kernel's use (interrupts off), `TRUE` two tasks
sharing a channel.

## 2. What TLC checks

| run | instance | properties |
|---|---|---|
| `hml` | the H/M/L table of `generated/demo_tasks.rs` and idle; quantum 2, 4-tick counter, sleeps 0, 2, 3, faults | `TablesAgree`, `ContextIsOwn`, `RunsTheHighest`, `NoPriorityInversion`, `NeverStuck`, `SleepExact`, `PreemptionIsJustified`; liveness: `RoundRobin`, `SleepersWake` |
| `pipeline` | the pipeline table and idle, arbitrary calls, two channels of capacity 2 | `RunsTheHighest`, `NoLostWakeup`, `RestartSucceeds`, `ExactlyOnceInOrder` |
| `demo` | the pipeline's bodies with the periods of `demo/pipeline.rs`, 1030 ticks, channels of capacity 2 | `SensorOnTime`, `NothingDropped`, `LoggerKeepsUp`, `FollowsTimetable` |
| `queue` | five tasks of two ranks, four places, 10 sequence numbers | `PeekIsBest`, `ImplementsReadyQueue` |
| `channel` | capacity 3, two values, interrupts off | `ReadsInitialised`, `ImplementsFifo` |
| `build` | every graph on four tasks, two priority tables, five slots, both cycle searches | `ArraysSuffice`, `ReportsLieOnCycles`, `FindsEveryCycle`, `TableIsRight`; liveness: `Terminates` |
| `boot` | tables of two to four tasks with conflicts, bad ids, bad placement, too many tasks | `RunsOnlyIfSound`, `HaltsOnlyIfUnsound`, `PrioritiesCoverTheRegistry` |
| `switch` | two tasks, word-aligned regions of every shape in 32 bytes, user and machine mode, all trap causes | `GrantIsExact`, `NoTransientGrant`, `AcceptedBuffersAreOwn`, `KernelStackReady`, `TrapsAreTransparent` |
| `clint` | 6-value words, 4-cycle ticks, time up to 25 | `MtimeReadIsExact`, `NoSpuriousInterrupt`, `NoDrift`, `NeverLost`, `NoBurst`; liveness: `DueTickIsServed` |
| `holder`, `long_sleep`, `channel_race` | see section 3 | one property each, violated |

All but the last row hold, over these numbers of distinct states: `hml` 142,200,
`pipeline` 318,048, `demo` 222,906, `queue` 143,140, `channel` 1,712, `build`
335,946, `boot` 175,293, `switch` 251,264, `clint` 206,365. Each property comes
with a faulty variant of one definition (a comment "Faulty variant" precedes it)
under which TLC finds it violated; PROJECT.json lists the pairs.

**Bounds.** Counters are modelled modulo a constant instead of 2^32, so that TLC
goes round the circle many times: `TickMod = 2 * HalfRange` for ticks,
`2 * SeqHalf` for sequence numbers, `NumMod` for message numbers. `NumMod` must
exceed `Capacity + 1`, so that two messages in flight never share a number. Four
tasks suffice for a holder, a waiter, one in between and idle, and for a task
pair of equal effective priority. Channels of capacity 2 are empty, partly full
and full; capacity 3 makes the ring index wrap at positions other than the ends.
`SleepArgs` includes 0 (the code's minimum of one tick applies), the longest
exact sleep and one in between; in `demo` it is all of them, since the sensor
computes how long to sleep.

In `clint` the clock passes four carries into the high word and six ticks; it
may jump by several ticks between any two accesses, so the handler falls behind
in every way and `get_mtime` has to retry. `MaxTime` keeps the high word below
`u32::MAX`, which the real clock reaches after 58,000 years. It also stops the
carries, which would end every retry; so `DueTickIsServed` names what it needs of
the clock (`CarriesSpareReadings`: from some time on no carry falls into a reading) instead of
taking it from the bound, and `RetryNeedsCarryAlways` proves without any bound
that only a carry makes `get_mtime` go round again. A loop that compares with a
stale first reading violates the property although the clock stands still.

`queue` holds at most four entries. `remove` moves the last entry into the hole,
and it has to rise there only if it comes from another branch, which takes six;
that case is left to the theorems of `HeapProofs`, which are for every capacity.

In `demo` the horizon covers 20 flushes and the summary after 100 lines, far
from the wraparound of the counter. Channels have two places instead of the
code's eight, so that the filter does block on a full channel behind a flush;
with more places it blocks less. `MinCalls = 4` is an assumption about speed:
any tick leaves room for four system calls of the tasks (in reality a tick is
10,000 cycles of a 10 MHz timer). The horizon, the capacity and the speed are
bounds of the run only: section 4 has the theorems for all others.

In `switch` a register holds a value that names its task and register, so a mix-up
of any two is visible; task 0 has two generations of values, so that stale values
are, too. Two instruction addresses distinguish "restarts the call" from
"continues after it".

**Fairness.** In `Kernel` only `WF_ticks(TimerIsr)`: the CLINT handler programs
the next deadline on every interrupt and tasks run with interrupts enabled, so a
kernel that has not halted keeps ticking. Nothing is assumed of tasks: one may
loop forever without a call. In `Clint`, weak fairness of the driver's steps (the
hart executes instructions and takes a pending interrupt) and of the clock. The
searches have weak fairness of their single process, a sequential loop. Where a
specification has a final state (a halted kernel, a started boot, a finished
build, the end of the modelled time), it stutters explicitly, so deadlock
checking stays on.

**The proviso of the queue.** Sequence numbers are compared by their signed
difference. `Insert` is enabled only while fewer than half of the range was
inserted since each live entry (`SeqProviso`). A task starved for 2^31 inserts
falls outside it; FIFO order among its equals is then not kept.

## 3. Where code and text disagree

- `holder`. `scheduler/mod.rs:28-29` says that a holder "can never be preempted
  by a waiter" (similarly `docs/ccg_algorithm.md:142` and `README.md:24`).
  Inheritance makes holder and waiter *equals*, and `should_preempt` rotates
  equals when the quantum expires: L, which holds UART0, loses the processor to
  H, which requires it. What CA-PIP is for, `NoPriorityInversion`, holds.
- `long_sleep`. `sleep(n)` is documented for any `u32`; `tick_reached` takes a
  deadline more than 2^31 ticks ahead for a past one, so such a sleep ends with
  the next tick. Up to 2^31 + 1 sleeps are exact (run `hml`, theorem
  `SleepExactAlways`).
- `channel_race`. `ipc/channel.rs:5-6` says a channel "can be shared between
  tasks". `try_send` derives its slot from two loads and `try_receive` moves
  `head` before `len`, so two tasks that preempt each other in these functions
  can leave a value in the wrong slot, and a later receive reads a slot nobody
  wrote. The kernel's channels are only used inside traps and are not affected
  (run `channel`).

## 4. What TLAPS proves

For *every* task table, number of tasks, quantum, channel capacity, counter
width, memory layout, clock and task graph allowed by the assumptions:

| theorem | module | statement |
|---|---|---|
| `TypeCorrect` | `KernelProofs` | `Spec => []TypeOK` |
| `NeverStuckAlways` | | `Spec => []NeverStuck`: both internal fatal paths of the scheduler are dead code |
| `TablesAgreeAlways` | | `Spec => []TablesAgree` |
| `ContextIsOwnAlways` | | `Spec => []ContextIsOwn` |
| `RunsTheHighestAlways` | | `Spec => []RunsTheHighest` |
| `NoPriorityInversionAlways` | | `Spec => []NoPriorityInversion` |
| `PreemptionIsJustifiedAlways` | | `Spec => PreemptionIsJustified`, with a quantum that counts the task's own ticks only |
| `SleepExactAlways` | | `ShortSleeps` implies `Spec => SleepExact` |
| `NoLostWakeupAlways` | `SyscallProofs` | `Spec => []NoLostWakeup` |
| `RestartSucceedsAlways` | | `Spec => []RestartSucceeds` |
| `ExactlyOnceInOrderAlways` | | `Spec => []ExactlyOnceInOrder` |
| `DemoRunsOnKernel` | `PipelineProofs` | `DemoSpec => Init /\ [][Next]_vars`: the demo is a behaviour of `Kernel` |
| `DemoFollowsTimetable` | | `SensorFits` implies `DemoSpec => FollowsTimetable`: `Pipeline` implements `Backlog` |
| `SensorOnTimeAlways` | | `SensorFits` implies `DemoSpec => []SensorOnTime` |
| `NothingDroppedAlways`, `LoggerKeepsUpAlways` | | `DemoTiming` implies `DemoSpec => []…` |
| `OnTimeAlways`, `TimetableAlways` | `BacklogProofs` | the same of the timetable `Backlog` |
| `KernelStackReadyAlways` | `MachineProofs` | `SwitchSpec => []KernelStackReady` |
| `TrapsAreTransparentAlways` | | `SwitchSpec => TrapsAreTransparent`: `Switch` implements `VirtualCpus` |
| `GrantIsExactAlways` | | `SwitchSpec => []GrantIsExact` |
| `NoTransientGrantAlways` | | `SwitchSpec => []NoTransientGrant` |
| `AcceptedBuffersAreOwnAlways` | | `SwitchSpec => []AcceptedBuffersAreOwn` |
| `ReadsInitialisedAlways`, `WritesFreeSlotAlways` | | `~Interleaved` implies `RingSpec => []…` |
| `ImplementsFifoAlways` | | `~Interleaved` implies `RingSpec => ImplementsFifo`: `Channel` implements `Fifo` |
| `RetryNeedsCarryAlways` | | `TimerSpec => RetryNeedsCarry`: `get_mtime` goes round only after a carry |
| `MtimeReadIsExactAlways`, `NoSpuriousInterruptAlways`, `NeverLostAlways`, `NoDriftAlways`, `NoBurstAlways` | | the safety properties of `Clint`, whose specification is `TimerSpec` |
| `HeapImplementsReadyQueue` | `HeapProofs` | `HeapSpec => ImplementsReadyQueue`: `PriorityQueue` implements `ReadyQueue` |
| `PeekIsBestAlways` | | `HeapSpec => []PeekIsBest` |
| `TableIsRightAlways`, `ReportsLieOnCyclesAlways`, `FindsEveryCycleAlways`, `ArraysSufficeAlways` | `BuildProofs` | the safety properties of `Build` |
| `RunsOnlyIfSoundAlways`, `HaltsOnlyIfUnsoundAlways`, `PrioritiesCoverTheRegistryAlways` | | the properties of `Boot`, whose specification is `BootSpec` |

**Assumptions.** `TaskTableAssumption` (priorities are u8, masks are sets of
peripherals), `SchedulerAssumption` (the table fits `MAX_TASKS`; the quantum is
at least 1 and below the counter's range), `KernelAssumption` (idle is in the
table; no two tasks share an endpoint, which `Boot` establishes; capacity at
least 1; `NumMod` large enough). `SleepExactAlways` assumes sleeps of at most
half the range and one tick; beyond, the property is false (`long_sleep`). The
theorems on channels assume `~Interleaved`; otherwise they are false
(`channel_race`). `ClintAssumption` keeps the clock below the last value of the
high word. `ContextAssumption` says that register contents are functions on the
registers, `MemoryAssumption` that regions are word-aligned ranges of at most 2^29
bytes (all of `TASKRAM` in `memory.x` has 32 KB) with the user stacks inside them.
`QueueAssumption` says that the capacity and half the range of the sequence numbers
are positive and ranks are numbers; the theorems on the heap rest on the proviso
of section 2, a guard of `Insert`. `BootAssumption` says that the tasks boot adds
hold nothing, `BuildAssumption` that a set fits the registry. `PipelineTable` is the
task table of `generated/pipeline_tasks.rs` (four slots, falling priorities, who
holds which end of the two channels), `PipelineAssumption` the compile-time
assertions of `demo/pipeline.rs` and that the run ends before the tick counter
comes near its signed limit (24 days). Each is evaluated by TLC on the instances
of section 2.

The theorems on the demo's timing are about fewer constants than those. `SensorFits` asks
for four calls per tick and a period and a deadline of two ticks or more, which
`SensorOnTimeAlways` needs: with less the sensor does not finish its cycle in
time. `DemoTiming` fixes the periods and lengths to those of `demo/pipeline.rs`
and leaves the speed, the capacity (two or more; the code has eight), the quantum,
the horizon and the width of the counter open. The compile-time assertion that the
logger keeps up on average does not imply `LoggerKeepsUp` for other constants: it
admits a flush of 34 ticks, and then a flush can start with readings still queued.
The instance of the run `demo` satisfies both.

**The argument.**

`KernelProofs` and `BuildProofs` begin with what they need about sets and sequences:
extrema of sets of numbers, `Lists(T, q, S)` (q lists each element of S once) and
the scan of the registry in slot order. The statements the two share are repeated,
because each proof is checked faster the less it has in view.

`KernelProofs` then gives each operator of `Scheduler` a contract between three
predicates: `Settled` (as a trap finds and leaves the state: tables agree, the
running task has its own context), `Parked` (as `dispatch_next` finds it: nobody
is Running) and `Consistent` (the part common to both), and shows that whatever
ends in `DispatchNext` or `PreemptIfOutranked` leaves the highest task running.
The inductive invariant `Inv` is `Settled(sched)`, `Highest(sched)`,
`NeverStuck`, *the idle task is not blocked*, and types. `RunsTheHighest` is not
inductive alone: that dispatch picks the best runnable task needs the queue to
list exactly the Ready ones, and that there is one to pick needs idle.
`NoPriorityInversion` then follows from `Highest` and `Eff[l] >= Priority[h]` for
h reachable from l. `SleepExact` needs `SleepersOK` besides: `left` and the deadline
stay the same distance apart on the circle of the counter. For
`PreemptionIsJustified`, every call either ends in `DispatchNext`, which starts a new
count, or leaves the count to the same task (`CallContinues`, `TimerCounts`).

`SyscallProofs` adds `WakeInv` for the channels: they are within capacity, a blocked
task holds the endpoint it is blocked on and has a reason to wait, and a task inside
a call is either blocked on that channel or can complete.
The last part is what makes `NoLostWakeup` inductive; uniqueness of endpoints
makes waking *one* task enough and keeps a woken task's room or message from
being taken. `DeliveryInv` is the numbering itself, with at most one pending
sender per channel; a fresh send and a restarted one differ in whether the number
has been drawn.

`BacklogProofs` is about the timetable alone. `SensorClock` bounds, for each place
of the sensor, how late it is together with the calls made since the last tick: it
is at most one tick late because the four calls after its wake-up fit into a tick,
so that only the tick between its last reading of the clock and its sleep can delay
a release; release times are absolute, so the delay does not add up. `TimetableInv`
adds to it the flow of readings (`FlowOK`: every reading released is in a channel, in
some body's hand or counted) and two clocks in quarters of a tick. `LoggerClock` is a budget: the time, plus the
calls the more urgent bodies still have to make, stays below what the logger's place
allows, counted from the release of the first reading after the last flush, with 16
quarters for every line written since and 8 for every reading beyond the third.
`BurstClock` says that sensor and filter are done with a reading well before the
next release. Together they bound the readings in flight, so channel 0 is empty
whenever the sensor publishes (`NothingDropped`), and leave nothing of the budget
at the fifth line, so everything has been worked off (`LoggerKeepsUp`). None of the
three is inductive without the others: how far the backlog has grown depends on
when the flush began, which depends on how the backlog before was worked off.

`TimetableProofs` and `PipelineProofs` carry this over to the kernel. `ControlOK`
says which call each body can be in, and what it can be blocked on, at each place.
`TimetableProofs` takes the effect that a call has on the bodies as given (`Effects`:
who is blocked, awake or asleep afterwards, what the channels hold) and shows that
such a step keeps `ControlOK` and, under `SensorClock` for the differences of ticks
that the code computes with wrapping subtraction, is a step of `Backlog` or a
stutter. `PipelineProofs` derives those effects from the contracts of `KernelProofs`:
a blocked body is woken exactly by the other end of its channel, a sleeper when its
ticks are over, and the most urgent body that is awake runs. The inductive invariant
`RunInv` is `ControlOK` with the kernel's `Inv` and `SleepersOK`. `Timetable` and
`Proved` are the same instance of `Backlog`, without and with the lemmas about it.

`MachineProofs`, the trap path: `CpuInv` says where everything is at each point of
the stub: `sp` and `a0` point to the current task's frame, `mscratch` holds its
stack top or the interrupted `sp`, and, on the way out, the CSRs and registers
loaded so far equal the frame's. Under it each step of the stub leaves the virtual
processors of `VirtualCpus` alone (a stutter), an instruction is `Compute`, the
return of a call is `Return`, and a switch is `Dispatch`. For the memory,
`IsolationInv` adds `PmpInv` (which CSRs of the entries already hold the new task's
encoding, and that the grant is off until the last), `ModeInv` (each task's mode is
its descriptor's) and `HandlerInv` (`trap_handler` finds in `mpp` the mode that the
stub saved). That the entries of a task grant exactly its region is `EntriesGrant`:
for TOR it is division by four, for NAPOT the number of trailing ones of the address
determines the size of the region (`NapotUnique`), which rests on the powers of two
up to 2^30 dividing one another.

The timer: `TimerInv` relates what has been read to the clock (the low word was read
at `readAt`, and the high word then lay between the first reading and now), the
comparator's words to the deadline during the three writes, and the deadline to the
clock and to the number of ticks. Monotonicity of the high word turns equal first
and last readings into an exact time. The channel: exactly the slots from `head` on,
`len` of them (one more or less while a call is between two accesses), hold values.
The refinement of `Fifo` maps the ring to a sequence and each call's publishing or
releasing access to the abstract operation.

`HeapProofs`: `EntriesInv` says that live entries belong to different tasks and
have different ages of at most half the range, so that the wrapping comparison of
`outranks` is the order by rank and age (`Better`), which is total. `ShapeInv` is the
invariant of the loops: outside of them no entry outranks its parent; inside, only
the entry being moved may be out of order with its neighbours, and its children
still fit below its parent, so that a swap makes no new disorder. A swap permutes
entries, which changes neither ages nor `QueueOrder`: an iteration is a stutter. An
insert makes every other entry one older and is the youngest itself, hence it is
appended; taking an entry out moves those younger than it up by one place. That the
root outranks everything follows along the parents, by a least counterexample.

`BuildProofs`, the build script: for the breadth-first search, visited tasks are
reachable, and successors of dequeued ones are visited, so an empty queue means
closed under edges; `mip` is the maximum over what was dequeued. For the depth-first
search, the stack is a path (`PathInv`), whatever was left has been examined
completely (`ExaminedInv`), and the examined edges without the reported ones have no
cycle among finished tasks (`AcyclicInv`); that a report lies on a cycle
(`ReportInv`) follows from the path. For the boot code, after n slots the claimed
sets are the union of what the first n tasks hold, and these are pairwise disjoint
and in range.

**Only model-checked.** Liveness under fairness (`RoundRobin`, `SleepersWake`,
`DueTickIsServed`, `Terminates`), which is outside the prover's reach. Every safety
property of a run that passes is proved.

## 5. What is abstracted, and what is left out

- In `Kernel` task bodies are arbitrary sequences of calls; in `Pipeline` they are
  those of the demo. The bodies of the H/M/L demo only make calls that `Kernel`
  allows them anyway.
- In `Kernel` the register file is opaque. In `Context` the 28 registers the stub
  merely stores and loads are one value, "rest"; that the offsets of each store and
  load agree is not modelled.
- A message is its number; bytes, lengths and truncation are not modelled.
  `ret` is `ok` or an error code.
- Arithmetic follows the release build: `TICK_COUNT + 1` wraps (a debug build
  would panic at 2^32).
- In `Kernel` interrupts other than the timer, the one-time privilege report, the
  switch statistics and all printing have no effect on the modelled state. A halt is
  final.
- If `insert` ran out of room the kernel would panic halfway through the
  operation; the model only records the cause. `NeverStuckAlways` shows that it
  does not happen.
- Regions are word-aligned, the granularity of `pmpaddr`. The build without the
  feature `pmp` is not modelled.
- `PriorityQueue::remove` is modelled although the kernel never calls it;
  `clint::schedule_tick`, which nothing calls either, is not.
- The deadlines of the demo hold only while a tick leaves room for its calls
  (`MinCalls`); execution times are not modelled otherwise.

Not modelled, and why:

- capability tokens (`capability/wrappers.rs`): types without state, checked by
  the compiler;
- UART and panic output: they change nothing the kernel reads;
- the build script's parser and its call of the OML transpiler: text and
  processes, no protocol;
- stack layout and alignment: compile-time assertions;
- the Kani harnesses, unit tests and the Lean development: checks of the code,
  not part of the system.

PROJECT.json lists every component with its status, and the hazards of the code
with the properties that cover them. Two hazards have none: the debug build's
overflow check in `clint.rs:120`, and the demo's busy-wait across the wraparound
of the tick counter.
