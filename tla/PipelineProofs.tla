--------------------------- MODULE PipelineProofs ---------------------------
(***************************************************************************)
(* The timing of the demo, for every capacity of the channels that lets it *)
(* work, every length of the run, every width of the tick counter and any  *)
(* speed of at least four calls per tick.  The kernel shows the bodies     *)
(* what TimetableProofs asks for, so that they follow the timetable, and   *)
(* what BacklogProofs shows of the timetable holds of the demo.            *)
(***************************************************************************)
EXTENDS TimetableProofs, KernelProofs

\* A queue is empty iff its length is zero.
LEMMA Lengths ==
  ASSUME Inv, NEW c \in Chan
  PROVE  /\ Len(chan[c]) \in Nat
         /\ Len(chan[c]) = 0 <=> chan[c] = <<>>
<1>1. chan[c] \in Seq(0 .. (NumMod - 1))
  BY DEF Inv, DataOK
<1> DEFINE q == chan[c]
           N == 0 .. (NumMod - 1)
<1>2. q \in Seq(N)
  BY <1>1
<1> HIDE DEF q, N
<1>3. Len(q) \in Nat /\ (Len(q) = 0 <=> q = <<>>)
  BY <1>2
<1> QED
  BY <1>3 DEF q

\* The bodies see this of the kernel: the most urgent task that can run does.
LEMMA KernelSeen ==
  ASSUME Inv
  PROVE  KernelView
<1>1. /\ Running \in Task
      /\ \A t \in Task : Awake(t) => Eff[t] <= Eff[Running]
      /\ Awake(Running)
  <2>1. Settled(sched) /\ Highest(sched) /\ Running \in Task
    BY RunningIsTask DEF Inv, SchedOK
  <2>2. sched.state[Running] = "Running"
    BY <2>1 DEF Settled, Running
  <2> QED
    BY <2>1, <2>2 DEF Settled, Consistent, Highest, Awake, Running
<1>2. \A t \in Task : Eff[t] \in Int
  BY EffInt
<1>3. /\ Running \in {Sensor, Filter, Logger, Idle}
      /\ Awake(Sensor) => Running = Sensor
      /\ Awake(Filter) => Running \in {Sensor, Filter}
      /\ Awake(Logger) => Running # Idle
  BY <1>1, <1>2, DemoFacts, PipelineTable, SMTT(20), ZenonT(20)
<1>4. call[Running] \in {NoCall} \cup SendCall \cup ReceiveCall
  BY <1>1 DEF Inv, DataOK
<1>5. ticks \in Nat
  BY DemoFacts DEF Inv, DataOK, Tick
<1> QED
  BY <1>1, <1>3, <1>4, <1>5, Lengths, Zenon DEF KernelView

-----------------------------------------------------------------------------
(* What the calls of the demo do *)

\* The running task sends on a channel it holds.  Who waits to receive from
\* it, if anyone, is r.
LEMMA SendEffect ==
  ASSUME Inv, NEW c \in Chan, c \in Sends[Running], NEW nb \in BOOLEAN, SysSend(CallTo("send", c, nb)),
         NEW r \in Task, \A u \in Task : sched.blockedOn[u] = ReceiveOn(c) => u = r
  PROVE  /\ ticks' = ticks /\ left' = left /\ overflowed' = overflowed /\ sched'.halt = sched.halt
         /\ Running \in Task
         /\ \/ /\ Len(chan[c]) = Capacity /\ nb /\ ret' = "EAGAIN" /\ UNCHANGED <<sched, chan, call>>
            \/ /\ Len(chan[c]) = Capacity /\ ~nb /\ chan' = chan
               /\ call' = [call EXCEPT ![Running] = CallTo("send", c, nb)]
               /\ \A t \in Task : sched'.blockedOn[t] = IF t = Running THEN SendOn(c) ELSE sched.blockedOn[t]
            \/ /\ Len(chan[c]) # Capacity /\ ret' = "ok"
               /\ Len(chan'[c]) = Len(chan[c]) + 1 /\ \A d \in Chan : d # c => chan'[d] = chan[d]
               /\ call' = [call EXCEPT ![Running] = NoCall]
               /\ \A t \in Task : sched'.blockedOn[t] =
                    IF t = r /\ sched.blockedOn[r] = ReceiveOn(c) THEN NotBlocked ELSE sched.blockedOn[t]
<1> DEFINE k == CallTo("send", c, nb)
<1>1. k.ch = c /\ k.flaw = "none" /\ k.nonblock = nb /\ k \in SendCall
  BY DEF CallTo, SendCall
<1>2. SendCheck(Running, k) = "ok"
  BY <1>1 DEF SendCheck
<1> HIDE DEF k
<1>3. /\ Executes(k)
      /\ \/ IsFull(c) /\ nb /\ Reject("EAGAIN")
         \/ IsFull(c) /\ ~nb /\ BlockAndRestart(k, SendOn(c))
         \/ ~IsFull(c) /\ FillOutbox(k) /\ SendCompletes(k)
  <2>1. SysSend(k)
    BY DEF k
  <2> QED
    BY <1>1, <1>2, <2>1 DEF SysSend
<1>4. SchedOK /\ Running \in Task /\ Running # Idle /\ chan \in [Chan -> Seq(0 .. (NumMod - 1))]
  BY <1>3, RunningIsTask DEF Inv, DataOK, Executes
<1>5. CASE IsFull(c) /\ nb /\ Reject("EAGAIN")
  BY <1>4, <1>5 DEF Reject, IsFull
<1>6. CASE IsFull(c) /\ ~nb /\ BlockAndRestart(k, SendOn(c))
  <2>1. /\ sched'.halt = sched.halt
        /\ \A t \in Task : sched'.blockedOn[t] = IF t = Running THEN SendOn(c) ELSE sched.blockedOn[t]
    BY <1>4, <1>6, BlockStep, ReasonFacts, SMTT(20), ZenonT(20) DEF BlockAndRestart
  <2> QED
    BY <1>4, <1>6, <2>1, Zenon DEF BlockAndRestart, IsFull, k
<1>7. CASE ~IsFull(c) /\ FillOutbox(k) /\ SendCompletes(k)
  <2>1. /\ \A t \in Task : sched.blockedOn[t] # ReceiveOn(c) => sched'.blockedOn[t] = sched.blockedOn[t]
        /\ \A t \in Task :
             sched.blockedOn[t] = ReceiveOn(c) /\ (\A u \in Task : sched.blockedOn[u] = ReceiveOn(c) => u = t)
               => sched'.blockedOn[t] = NotBlocked
        /\ sched'.halt = sched.halt
    BY <1>1, <1>4, <1>7, WakeStep, ReasonFacts, Zenon DEF SendCompletes
  <2>2. \A t \in Task : sched'.blockedOn[t] =
          IF t = r /\ sched.blockedOn[r] = ReceiveOn(c) THEN NotBlocked ELSE sched.blockedOn[t]
    BY <2>1, Zenon
  <2>3. chan' = [chan EXCEPT ![c] = Append(chan[c], outbox'[c])]
    BY <1>1, <1>7 DEF SendCompletes
  <2>4. Len(chan'[c]) = Len(chan[c]) + 1
    <3> DEFINE N == 0 .. (NumMod - 1)
               p == chan[c]
               x == outbox'[c]
    <3>1. p \in Seq(N) /\ x \in N
      BY <1>1, <1>4, <1>7, OutboxType
    <3>2. chan'[c] = Append(p, x)
      BY <1>4, <2>3
    <3> HIDE DEF N, p, x
    <3>3. Len(Append(p, x)) = Len(p) + 1
      BY <3>1
    <3> QED
      BY <3>2, <3>3 DEF p
  <2>5. \A d \in Chan : d # c => chan'[d] = chan[d]
    BY <1>4, <2>3
  <2> QED
    BY <1>4, <1>7, <2>1, <2>2, <2>4, <2>5, Zenon DEF SendCompletes, IsFull
<1> QED
  BY <1>3, <1>5, <1>6, <1>7

\* The running task receives from a channel it holds, blocking if it is empty.
\* Who waits to send on it, if anyone, is w.
LEMMA ReceiveEffect ==
  ASSUME Inv, NEW c \in Chan, c \in Receives[Running], SysReceive(ReceiveOf(c)),
         NEW w \in Task, \A u \in Task : sched.blockedOn[u] = SendOn(c) => u = w
  PROVE  /\ ticks' = ticks /\ left' = left /\ overflowed' = overflowed /\ sched'.halt = sched.halt
         /\ Running \in Task
         /\ \/ /\ Len(chan[c]) = 0 /\ chan' = chan
               /\ call' = [call EXCEPT ![Running] = ReceiveOf(c)]
               /\ \A t \in Task : sched'.blockedOn[t] = IF t = Running THEN ReceiveOn(c) ELSE sched.blockedOn[t]
            \/ /\ Len(chan[c]) > 0
               /\ Len(chan'[c]) = Len(chan[c]) - 1 /\ \A d \in Chan : d # c => chan'[d] = chan[d]
               /\ call' = [call EXCEPT ![Running] = NoCall]
               /\ \A t \in Task : sched'.blockedOn[t] =
                    IF t = w /\ sched.blockedOn[w] = SendOn(c) THEN NotBlocked ELSE sched.blockedOn[t]
<1> DEFINE k == ReceiveOf(c)
<1>1. k.ch = c /\ k.flaw = "none" /\ k.nonblock = FALSE
  BY DEF CallTo, ReceiveOf
<1>2. ReceiveCheck(Running, k) = "ok"
  BY <1>1 DEF ReceiveCheck
<1> HIDE DEF k
<1>3. /\ Executes(k)
      /\ \/ chan[c] = <<>> /\ BlockAndRestart(k, ReceiveOn(c))
         \/ chan[c] # <<>> /\ ReceiveCompletes(k)
  <2>1. SysReceive(k)
    BY DEF k
  <2> QED
    BY <1>1, <1>2, <2>1 DEF SysReceive
<1>4. SchedOK /\ Running \in Task /\ Running # Idle /\ chan \in [Chan -> Seq(0 .. (NumMod - 1))]
  BY <1>3, RunningIsTask DEF Inv, DataOK, Executes
<1>5. Len(chan[c]) \in Nat /\ (Len(chan[c]) = 0 <=> chan[c] = <<>>)
  BY Lengths
<1>6. CASE chan[c] = <<>> /\ BlockAndRestart(k, ReceiveOn(c))
  <2>1. /\ sched'.halt = sched.halt
        /\ \A t \in Task : sched'.blockedOn[t] = IF t = Running THEN ReceiveOn(c) ELSE sched.blockedOn[t]
    BY <1>4, <1>6, BlockStep, ReasonFacts DEF BlockAndRestart
  <2> QED
    BY <1>4, <1>5, <1>6, <2>1, Zenon DEF BlockAndRestart, k
<1>7. CASE chan[c] # <<>> /\ ReceiveCompletes(k)
  <2>1. /\ \A t \in Task : sched.blockedOn[t] # SendOn(c) => sched'.blockedOn[t] = sched.blockedOn[t]
        /\ \A t \in Task :
             sched.blockedOn[t] = SendOn(c) /\ (\A u \in Task : sched.blockedOn[u] = SendOn(c) => u = t)
               => sched'.blockedOn[t] = NotBlocked
        /\ sched'.halt = sched.halt
    BY <1>1, <1>4, <1>7, WakeStep, ReasonFacts, Zenon DEF ReceiveCompletes
  <2>2. \A t \in Task : sched'.blockedOn[t] =
          IF t = w /\ sched.blockedOn[w] = SendOn(c) THEN NotBlocked ELSE sched.blockedOn[t]
    BY <2>1, Zenon
  <2>3. chan' = [chan EXCEPT ![c] = Tail(chan[c])]
    BY <1>1, <1>7 DEF ReceiveCompletes
  <2>4. Len(chan'[c]) = Len(chan[c]) - 1
    <3> DEFINE N == 0 .. (NumMod - 1)
               p == chan[c]
    <3>1. p \in Seq(N) /\ p # <<>>
      BY <1>4, <1>7
    <3>2. chan'[c] = Tail(p)
      BY <1>4, <2>3
    <3> HIDE DEF N, p
    <3>3. Len(Tail(p)) = Len(p) - 1
      BY <3>1
    <3> QED
      BY <3>2, <3>3 DEF p
  <2>5. (\A d \in Chan : d # c => chan'[d] = chan[d]) /\ Len(chan[c]) > 0
    BY <1>4, <1>5, <1>7, <2>3
  <2> QED
    BY <1>4, <1>7, <2>1, <2>2, <2>4, <2>5, Zenon DEF ReceiveCompletes
<1> QED
  BY <1>3, <1>6, <1>7

-----------------------------------------------------------------------------
(* The effects the bodies rely on *)

\* The next tick, within the bound.
LEMMA NextTickFacts ==
  ASSUME Inv, ticks < Horizon
  PROVE  NextTick = ticks + 1 /\ ticks \in Nat
<1>1. ticks \in Int /\ 0 <= ticks /\ ticks < TickMod
  BY DemoFacts DEF Inv, DataOK, Tick
<1> QED
  BY <1>1, DemoFacts, ModFacts DEF NextTick

\* A tick of the demo: it wakes the sensor with the last tick of its sleep,
\* and nobody else.
LEMMA TickEffect ==
  ASSUME Inv, SleepersOK, ControlOK, DemoTimer
  PROVE  Ticked
<1> USE DEF Ticked
<1>1. /\ Timer /\ ticks < Horizon /\ calls' = 0 /\ UNCHANGED <<prog, sensor, logger>>
      /\ Running = Idle \/ calls = MinCalls
  BY DEF DemoTimer
<1>2. ticks' = ticks + 1 /\ ticks \in Nat /\ UNCHANGED <<chan, call, overflowed>>
  BY <1>1, NextTickFacts DEF Timer, TimerIsr
<1>3. /\ sched'.halt = "no"
      /\ \A t \in Task :
           sched'.blockedOn[t] = IF t \in Due(sched, NextTick) THEN NotBlocked ELSE sched.blockedOn[t]
  BY <1>1, TimerStep, Zenon DEF ControlOK, Inv
<1>4. \A t \in Due(sched, NextTick) : sched.blockedOn[t] = Asleep
  BY DEF Due, Sleepers
<1>5. sched.blockedOn[Filter] # Asleep /\ sched.blockedOn[Logger] # Asleep
  BY WaitFacts DEF ControlOK, FilterShape, LoggerShape, Awake
<1>6. /\ sched'.blockedOn[Filter] = sched.blockedOn[Filter]
      /\ sched'.blockedOn[Logger] = sched.blockedOn[Logger]
  BY <1>3, <1>4, <1>5, DemoFacts
<1>7. Awake(Sensor) => Awake(Sensor)'
  BY <1>3, DemoFacts DEF Awake
<1>8. ASSUME ~Awake(Sensor)
      PROVE  /\ left[Sensor] \in Int /\ left[Sensor] >= 1
             /\ left[Sensor] = 1 => Awake(Sensor)'
             /\ left[Sensor] > 1 => sched'.blockedOn[Sensor] = Asleep /\ left'[Sensor] = left[Sensor] - 1
  <2>1. sched.blockedOn[Sensor] = Asleep /\ Sensor \in Task
    BY <1>8, DemoFacts DEF ControlOK, SensorShape
  <2>2. /\ left[Sensor] \in 1 .. (HalfRange + 1)
        /\ sched'.blockedOn[Sensor] = Asleep <=> left[Sensor] > 1
        /\ left[Sensor] > 1 => left'[Sensor] = left[Sensor] - 1
    BY <1>1, <1>3, <2>1, TimerSleep
  <2>3. sched'.blockedOn[Sensor] \in {NotBlocked, sched.blockedOn[Sensor]}
    BY <1>3, <2>1, Zenon
  <2> QED
    BY <2>1, <2>2, <2>3, DemoFacts DEF Awake
<1> QED
  BY <1>1, <1>2, <1>3, <1>6, <1>7, <1>8

\* One waiter at most per endpoint.
LEMMA Waiters ==
  ASSUME Inv, ControlOK
  PROVE  \A u \in Task :
           /\ sched.blockedOn[u] = ReceiveOn(0) => u = Filter
           /\ sched.blockedOn[u] = SendOn(0) => u = Filter
           /\ sched.blockedOn[u] = ReceiveOn(1) => u = Logger
           /\ sched.blockedOn[u] = SendOn(1) => u = Filter
<1>1. /\ sched.blockedOn[Idle] = NotBlocked
      /\ sched.blockedOn[Sensor] \in {NotBlocked, Asleep}
      /\ sched.blockedOn[Filter] \in {NotBlocked, ReceiveOn(0), SendOn(1)}
      /\ sched.blockedOn[Logger] \in {NotBlocked, ReceiveOn(1)}
  BY Zenon DEF Inv, SchedOK, ControlOK, SensorShape, FilterShape, LoggerShape, Awake
<1>2. SendOn(0) \notin {NotBlocked, Asleep, ReceiveOn(1)}
  BY DEF SendOn, ReceiveOn, NotBlocked, Asleep
<1> QED
  BY <1>1, <1>2, WaitFacts, DemoFacts

\* The sensor's try_send.
LEMMA PublishEffect ==
  ASSUME Inv, ControlOK, SensorPublish
  PROVE  Published
<1> USE DEF Published
<1>1. /\ Running = Sensor /\ prog[Sensor] = "publish" /\ SysSend(CallTo("send", 0, TRUE))
      /\ prog' = [prog EXCEPT ![Sensor] = IF call'[Sensor] = NoCall THEN "check" ELSE "publish"]
      /\ calls' = Min({calls + 1, MinCalls}) /\ logger' = logger
      /\ sensor' = [sensor EXCEPT !.dropped = IF ret' = "EAGAIN" THEN @ + 1 ELSE @]
  BY Zenon DEF SensorPublish, Calls, Send, CallTo
<1>2. /\ call \in [Task -> {NoCall} \cup SendCall \cup ReceiveCall] /\ call[Sensor] = NoCall
      /\ Sensor \in Task /\ Filter \in Task /\ Logger \in Task /\ 0 \in Chan /\ 1 \in Chan
      /\ Sensor # Filter /\ Logger # Filter /\ 0 # 1
  BY DemoFacts DEF Inv, DataOK, ControlOK, SensorShape
<1>3. 0 \in Sends[Running] /\ \A u \in Task : sched.blockedOn[u] = ReceiveOn(0) => u = Filter
  BY <1>1, PipelineTable, Waiters
<1>4. /\ ticks' = ticks /\ left' = left /\ overflowed' = overflowed /\ sched'.halt = sched.halt
      /\ \/ Len(chan[0]) = Capacity /\ ret' = "EAGAIN" /\ UNCHANGED <<sched, chan, call>>
         \/ /\ Len(chan[0]) # Capacity /\ ret' = "ok"
            /\ Len(chan'[0]) = Len(chan[0]) + 1 /\ \A d \in Chan : d # 0 => chan'[d] = chan[d]
            /\ call' = [call EXCEPT ![Running] = NoCall]
            /\ \A t \in Task : sched'.blockedOn[t] =
                 IF t = Filter /\ sched.blockedOn[Filter] = ReceiveOn(0)
                   THEN NotBlocked ELSE sched.blockedOn[t]
  BY <1>1, <1>2, <1>3, SendEffect
<1>5. call' = call
  BY <1>1, <1>2, <1>4
<1>6. prog' = [prog EXCEPT ![Sensor] = "check"]
  BY <1>1, <1>2, <1>5, Zenon
<1>7. CASE Len(chan[0]) = Capacity /\ ret' = "EAGAIN" /\ UNCHANGED <<sched, chan, call>>
  BY <1>1, <1>4, <1>5, <1>6, <1>7, Zenon
<1>8. ASSUME Len(chan[0]) # Capacity, ret' = "ok",
             Len(chan'[0]) = Len(chan[0]) + 1, \A d \in Chan : d # 0 => chan'[d] = chan[d],
             \A t \in Task : sched'.blockedOn[t] =
               IF t = Filter /\ sched.blockedOn[Filter] = ReceiveOn(0) THEN NotBlocked ELSE sched.blockedOn[t]
      PROVE  /\ sched'.blockedOn[Sensor] = sched.blockedOn[Sensor]
             /\ sched'.blockedOn[Logger] = sched.blockedOn[Logger]
             /\ Len(chan[0]) # Capacity /\ Len(chan'[0]) = Len(chan[0]) + 1 /\ chan'[1] = chan[1]
             /\ sched'.blockedOn[Filter] =
                  IF sched.blockedOn[Filter] = ReceiveOn(0) THEN NotBlocked ELSE sched.blockedOn[Filter]
             /\ sched'.blockedOn[Filter] # ReceiveOn(0)
             /\ sensor' = [sensor EXCEPT !.dropped = @]
  BY <1>1, <1>2, <1>8, WaitFacts, SMTT(20)
<1> QED
  BY <1>1, <1>4, <1>5, <1>6, <1>7, <1>8, Zenon

\* The sensor's sleep.
LEMMA SensorSleepEffect ==
  ASSUME Inv, ControlOK, SensorSleep
  PROVE  Slept
<1> USE DEF Slept
<1>1. /\ Running = Sensor /\ prog[Sensor] = "sleep" /\ SysSleep(sensor.nap)
      /\ prog' = [prog EXCEPT ![Sensor] = IF call'[Sensor] = NoCall THEN "start" ELSE "sleep"]
      /\ calls' = Min({calls + 1, MinCalls}) /\ UNCHANGED <<sensor, logger>>
  BY Zenon DEF SensorSleep, Calls
<1>2. /\ call[Sensor] = NoCall /\ left \in [Task -> Tick]
      /\ Sensor \in Task /\ Filter \in Task /\ Logger \in Task
      /\ Sensor # Filter /\ Sensor # Logger
  BY DemoFacts DEF Inv, DataOK, ControlOK, SensorShape
<1>3. sensor.nap \in SleepArgs /\ sensor.nap \in Int /\ sensor.nap >= 1
  <2>1. sensor.nap \in 1 .. (HalfRange - 1) /\ SleepArgs = 0 .. HalfRange
    BY <1>1, PipelineAssumption DEF ControlOK, SensorShape
  <2> QED
    BY <2>1, DemoFacts, SMTT(20), ZenonT(20)
<1>4. /\ \A t \in Task : sched'.blockedOn[t] = IF t = sched.cur THEN Asleep ELSE sched.blockedOn[t]
      /\ sched'.halt = sched.halt
  BY <1>1, <1>3, SleepStep, Zenon
<1>5. left' = [left EXCEPT ![Sensor] = Max({sensor.nap, 1})] /\ UNCHANGED <<ticks, chan, call, overflowed>>
  BY <1>1 DEF SysSleep
<1>6. Max({sensor.nap, 1}) = sensor.nap
  BY <1>3, MaxOfTwo
<1>7. prog' = [prog EXCEPT ![Sensor] = "start"]
  BY <1>1, <1>2, <1>5, Zenon
<1> QED
  BY <1>1, <1>2, <1>4, <1>5, <1>6, <1>7 DEF Running

\* The filter's receive.
LEMMA FilterReceiveEffect ==
  ASSUME Inv, ControlOK, Calls(Filter, "receive", Receive(0), "send"), UNCHANGED <<sensor, logger>>
  PROVE  FilterReceived
<1> USE DEF FilterReceived
<1>1. /\ Running = Filter /\ prog[Filter] = "receive" /\ SysReceive(ReceiveOf(0))
      /\ prog' = [prog EXCEPT ![Filter] = IF call'[Filter] = NoCall THEN "send" ELSE "receive"]
      /\ calls' = Min({calls + 1, MinCalls}) /\ sensor' = sensor /\ logger' = logger
  BY Zenon DEF LoggerCalls, Calls, Receive, ReceiveOf, CallTo
<1>2. /\ call \in [Task -> {NoCall} \cup SendCall \cup ReceiveCall] /\ Awake(Filter)
      /\ Sensor \in Task /\ Filter \in Task /\ Logger \in Task /\ 0 \in Chan /\ 1 \in Chan
      /\ Sensor # Filter /\ Logger # Filter /\ Sensor # Logger /\ 0 # 1
  BY <1>1, DemoFacts, KernelSeen, SMTT(20), ZenonT(20) DEF KernelView, Inv, DataOK
<1>3. 0 \in Receives[Running] /\ \A u \in Task : sched.blockedOn[u] = SendOn(0) => u = Filter
  BY <1>1, PipelineTable, Waiters, SMTT(20), ZenonT(20)
<1>4. /\ ticks' = ticks /\ left' = left /\ overflowed' = overflowed /\ sched'.halt = sched.halt
      /\ \/ /\ Len(chan[0]) = 0 /\ chan' = chan
            /\ call' = [call EXCEPT ![Running] = ReceiveOf(0)]
            /\ \A t \in Task : sched'.blockedOn[t] = IF t = Running THEN ReceiveOn(0) ELSE sched.blockedOn[t]
         \/ /\ Len(chan[0]) > 0
            /\ Len(chan'[0]) = Len(chan[0]) - 1 /\ \A d \in Chan : d # 0 => chan'[d] = chan[d]
            /\ call' = [call EXCEPT ![Running] = NoCall]
            /\ \A t \in Task : sched'.blockedOn[t] =
                 IF t = Filter /\ sched.blockedOn[Filter] = SendOn(0) THEN NotBlocked ELSE sched.blockedOn[t]
  BY <1>1, <1>2, <1>3, ReceiveEffect
<1>5. ReceiveOf(0) # NoCall
  BY SMTT(20), ZenonT(20) DEF ReceiveOf, CallTo, NoCall
<1>6. call'[Sensor] = call[Sensor] /\ call'[Logger] = call[Logger]
  BY <1>1, <1>2, <1>4, SMTT(20), ZenonT(20)
<1>7. CASE Len(chan[0]) = 0
  <2>1. /\ chan' = chan /\ call' = [call EXCEPT ![Filter] = ReceiveOf(0)]
        /\ \A t \in Task : sched'.blockedOn[t] = IF t = Filter THEN ReceiveOn(0) ELSE sched.blockedOn[t]
    <3>1. ~(Len(chan[0]) > 0)
      BY <1>7
    <3>2. Running = Filter
      BY <1>1, ZenonT(40)
    <3> QED
      BY <1>4, <3>1, <3>2, Zenon
  <2>2. call'[Filter] = ReceiveOf(0) /\ chan'[1] = chan[1]
    BY <1>2, <2>1
  <2>3. /\ sched'.blockedOn[Sensor] = sched.blockedOn[Sensor]
        /\ sched'.blockedOn[Logger] = sched.blockedOn[Logger] /\ sched'.blockedOn[Filter] = ReceiveOn(0)
    BY <1>2, <2>1
  <2>4. prog' = [prog EXCEPT ![Filter] = "receive"]
    BY <1>1, <1>5, <2>2, Zenon
  <2> QED
    BY <1>1, <1>4, <1>6, <1>7, <2>1, <2>2, <2>3, <2>4, Zenon
<1>8. CASE Len(chan[0]) > 0
  <2>1. /\ Len(chan'[0]) = Len(chan[0]) - 1 /\ \A d \in Chan : d # 0 => chan'[d] = chan[d]
        /\ call' = [call EXCEPT ![Filter] = NoCall]
        /\ \A t \in Task : sched'.blockedOn[t] =
             IF t = Filter /\ sched.blockedOn[Filter] = SendOn(0) THEN NotBlocked ELSE sched.blockedOn[t]
    BY <1>1, <1>4, <1>8, SMTT(20), ZenonT(20)
  <2>2. call'[Filter] = NoCall /\ chan'[1] = chan[1]
    BY <1>2, <2>1
  <2>3. /\ sched'.blockedOn[Sensor] = sched.blockedOn[Sensor]
        /\ sched'.blockedOn[Logger] = sched.blockedOn[Logger] /\ sched'.blockedOn[Filter] = NotBlocked
    BY <1>2, <2>1 DEF Awake
  <2>4. prog' = [prog EXCEPT ![Filter] = "send"]
    BY <1>1, <2>2, Zenon
  <2> QED
    BY <1>1, <1>4, <1>6, <1>8, <2>1, <2>2, <2>3, <2>4, Zenon
<1> QED
  BY <1>4, <1>7, <1>8, Zenon

\* The filter's send.
LEMMA FilterSendEffect ==
  ASSUME Inv, ControlOK, Calls(Filter, "send", Send(1, FALSE), "receive"), UNCHANGED <<sensor, logger>>
  PROVE  FilterSent
<1> USE DEF FilterSent
<1>1. /\ Running = Filter /\ prog[Filter] = "send" /\ SysSend(CallTo("send", 1, FALSE))
      /\ SendOf(1) = CallTo("send", 1, FALSE)
      /\ prog' = [prog EXCEPT ![Filter] = IF call'[Filter] = NoCall THEN "receive" ELSE "send"]
      /\ calls' = Min({calls + 1, MinCalls}) /\ sensor' = sensor /\ logger' = logger
  BY Zenon DEF Calls, Send, SendOf, CallTo
<1>2. /\ call \in [Task -> {NoCall} \cup SendCall \cup ReceiveCall] /\ Awake(Filter)
      /\ Sensor \in Task /\ Filter \in Task /\ Logger \in Task /\ 0 \in Chan /\ 1 \in Chan
      /\ Sensor # Filter /\ Logger # Filter /\ Sensor # Logger /\ 0 # 1
  BY <1>1, DemoFacts, KernelSeen, SMTT(20), ZenonT(20) DEF KernelView, Inv, DataOK
<1>3. 1 \in Sends[Running] /\ \A u \in Task : sched.blockedOn[u] = ReceiveOn(1) => u = Logger
  BY <1>1, PipelineTable, Waiters
<1>4. /\ ticks' = ticks /\ left' = left /\ overflowed' = overflowed /\ sched'.halt = sched.halt
      /\ \/ /\ Len(chan[1]) = Capacity /\ FALSE /\ ret' = "EAGAIN" /\ UNCHANGED <<sched, chan, call>>
         \/ /\ Len(chan[1]) = Capacity /\ ~FALSE /\ chan' = chan
            /\ call' = [call EXCEPT ![Running] = CallTo("send", 1, FALSE)]
            /\ \A t \in Task : sched'.blockedOn[t] = IF t = Running THEN SendOn(1) ELSE sched.blockedOn[t]
         \/ /\ Len(chan[1]) # Capacity /\ ret' = "ok"
            /\ Len(chan'[1]) = Len(chan[1]) + 1 /\ \A d \in Chan : d # 1 => chan'[d] = chan[d]
            /\ call' = [call EXCEPT ![Running] = NoCall]
            /\ \A t \in Task : sched'.blockedOn[t] =
                 IF t = Logger /\ sched.blockedOn[Logger] = ReceiveOn(1)
                   THEN NotBlocked ELSE sched.blockedOn[t]
  BY <1>1, <1>2, <1>3, SendEffect, Zenon
<1>5. SendOf(1) # NoCall
  BY DEF SendOf, CallTo, NoCall
<1>6. call'[Sensor] = call[Sensor] /\ call'[Logger] = call[Logger]
  BY <1>1, <1>2, <1>4
<1>7. CASE Len(chan[1]) = Capacity
  <2>1. /\ chan' = chan /\ call' = [call EXCEPT ![Filter] = SendOf(1)]
        /\ \A t \in Task : sched'.blockedOn[t] = IF t = Filter THEN SendOn(1) ELSE sched.blockedOn[t]
    BY <1>1, <1>4, <1>7
  <2>2. call'[Filter] = SendOf(1) /\ chan'[0] = chan[0]
    BY <1>2, <2>1
  <2>3. /\ sched'.blockedOn[Sensor] = sched.blockedOn[Sensor]
        /\ sched'.blockedOn[Logger] = sched.blockedOn[Logger] /\ sched'.blockedOn[Filter] = SendOn(1)
    BY <1>2, <2>1
  <2>4. prog' = [prog EXCEPT ![Filter] = "send"]
    BY <1>1, <1>5, <2>2, Zenon
  <2> QED
    BY <1>1, <1>4, <1>6, <1>7, <2>1, <2>2, <2>3, <2>4, Zenon
<1>8. CASE Len(chan[1]) # Capacity
  <2>1. /\ Len(chan'[1]) = Len(chan[1]) + 1 /\ \A d \in Chan : d # 1 => chan'[d] = chan[d]
        /\ call' = [call EXCEPT ![Filter] = NoCall]
        /\ \A t \in Task : sched'.blockedOn[t] =
             IF t = Logger /\ sched.blockedOn[Logger] = ReceiveOn(1) THEN NotBlocked ELSE sched.blockedOn[t]
    BY <1>1, <1>4, <1>8
  <2>2. call'[Filter] = NoCall /\ chan'[0] = chan[0]
    BY <1>2, <2>1
  <2>3. /\ sched'.blockedOn[Sensor] = sched.blockedOn[Sensor] /\ sched'.blockedOn[Filter] = NotBlocked
        /\ sched'.blockedOn[Logger] \in {NotBlocked, sched.blockedOn[Logger]}
        /\ sched'.blockedOn[Logger] # ReceiveOn(1)
    BY <1>2, <2>1, WaitFacts DEF Awake
  <2>4. prog' = [prog EXCEPT ![Filter] = "receive"]
    BY <1>1, <2>2, Zenon
  <2> QED
    BY <1>1, <1>4, <1>6, <1>8, <2>1, <2>2, <2>3, <2>4, Zenon
<1> QED
  BY <1>7, <1>8, Zenon

\* The logger's receive.
LEMMA LoggerReceiveEffect ==
  ASSUME Inv, ControlOK, LoggerCalls("receive", Receive(1), "work")
  PROVE  LoggerReceived
<1> USE DEF LoggerReceived
<1>1. /\ Running = Logger /\ prog[Logger] = "receive" /\ SysReceive(ReceiveOf(1))
      /\ prog' = [prog EXCEPT ![Logger] = IF call'[Logger] = NoCall THEN "work" ELSE "receive"]
      /\ calls' = Min({calls + 1, MinCalls}) /\ sensor' = sensor /\ logger' = logger
  BY Zenon DEF LoggerCalls, Calls, Receive, ReceiveOf, CallTo
<1>2. /\ call \in [Task -> {NoCall} \cup SendCall \cup ReceiveCall] /\ Awake(Logger)
      /\ Sensor \in Task /\ Filter \in Task /\ Logger \in Task /\ 0 \in Chan /\ 1 \in Chan
      /\ Sensor # Filter /\ Logger # Filter /\ Sensor # Logger /\ 0 # 1
  BY <1>1, DemoFacts, KernelSeen, SMTT(20), ZenonT(20) DEF KernelView, Inv, DataOK
<1>3. 1 \in Receives[Running] /\ \A u \in Task : sched.blockedOn[u] = SendOn(1) => u = Filter
  BY <1>1, PipelineTable, Waiters, SMTT(20), ZenonT(20)
<1>4. /\ ticks' = ticks /\ left' = left /\ overflowed' = overflowed /\ sched'.halt = sched.halt
      /\ \/ /\ Len(chan[1]) = 0 /\ chan' = chan
            /\ call' = [call EXCEPT ![Running] = ReceiveOf(1)]
            /\ \A t \in Task : sched'.blockedOn[t] = IF t = Running THEN ReceiveOn(1) ELSE sched.blockedOn[t]
         \/ /\ Len(chan[1]) > 0
            /\ Len(chan'[1]) = Len(chan[1]) - 1 /\ \A d \in Chan : d # 1 => chan'[d] = chan[d]
            /\ call' = [call EXCEPT ![Running] = NoCall]
            /\ \A t \in Task : sched'.blockedOn[t] =
                 IF t = Filter /\ sched.blockedOn[Filter] = SendOn(1) THEN NotBlocked ELSE sched.blockedOn[t]
  BY <1>1, <1>2, <1>3, ReceiveEffect
<1>5. ReceiveOf(1) # NoCall
  BY DEF ReceiveOf, CallTo, NoCall
<1>6. call'[Sensor] = call[Sensor] /\ call'[Filter] = call[Filter]
  BY <1>1, <1>2, <1>4, SMTT(20), ZenonT(20)
<1>7. CASE Len(chan[1]) = 0
  <2>1. /\ chan' = chan /\ call' = [call EXCEPT ![Logger] = ReceiveOf(1)]
        /\ \A t \in Task : sched'.blockedOn[t] = IF t = Logger THEN ReceiveOn(1) ELSE sched.blockedOn[t]
    BY <1>1, <1>4, <1>7
  <2>2. call'[Logger] = ReceiveOf(1) /\ chan'[0] = chan[0]
    BY <1>2, <2>1
  <2>3. /\ sched'.blockedOn[Sensor] = sched.blockedOn[Sensor]
        /\ sched'.blockedOn[Filter] = sched.blockedOn[Filter] /\ sched'.blockedOn[Logger] = ReceiveOn(1)
    BY <1>2, <2>1
  <2>4. prog' = [prog EXCEPT ![Logger] = "receive"]
    BY <1>1, <1>5, <2>2, Zenon
  <2> QED
    BY <1>1, <1>4, <1>6, <1>7, <2>1, <2>2, <2>3, <2>4, Zenon
<1>8. CASE Len(chan[1]) > 0
  <2>1. /\ Len(chan'[1]) = Len(chan[1]) - 1 /\ \A d \in Chan : d # 1 => chan'[d] = chan[d]
        /\ call' = [call EXCEPT ![Logger] = NoCall]
        /\ \A t \in Task : sched'.blockedOn[t] =
             IF t = Filter /\ sched.blockedOn[Filter] = SendOn(1) THEN NotBlocked ELSE sched.blockedOn[t]
    BY <1>1, <1>4, <1>8, SMTT(20), ZenonT(20)
  <2>2. call'[Logger] = NoCall /\ chan'[0] = chan[0]
    BY <1>2, <2>1, SMTT(20), ZenonT(20)
  <2>3. /\ sched'.blockedOn[Sensor] = sched.blockedOn[Sensor] /\ sched'.blockedOn[Logger] = NotBlocked
        /\ sched'.blockedOn[Filter] =
             IF sched.blockedOn[Filter] = SendOn(1) THEN NotBlocked ELSE sched.blockedOn[Filter]
    BY <1>2, <2>1 DEF Awake
  <2>4. prog' = [prog EXCEPT ![Logger] = "work"]
    BY <1>1, <2>2, Zenon
  <2> QED
    BY <1>1, <1>4, <1>6, <1>8, <2>1, <2>2, <2>3, <2>4, Zenon
<1> QED
  BY <1>4, <1>7, <1>8, Zenon

-----------------------------------------------------------------------------
(* The demo runs on the kernel *)

\* The bodies start at their first calls, and nobody is blocked.
LEMMA ControlInit == DemoInit => ControlOK
<1> SUFFICES ASSUME DemoInit
             PROVE  ControlOK
  OBVIOUS
<1>1. sched.halt = "no" /\ \A t \in Task : Awake(t)
  BY BootFacts DEF DemoInit, Init, Awake
<1>2. /\ \A t \in Task : call[t] = NoCall
      /\ overflowed = {} /\ ticks = 0 /\ calls = 0
      /\ prog = [t \in Body |-> IF t = Sensor THEN "begin" ELSE IF t = Filter THEN "probe" ELSE "receive"]
      /\ sensor = [release |-> 0, latency |-> 0, misses |-> 0, dropped |-> 0, nap |-> 0]
      /\ logger = [target |-> 0, count |-> 0]
  BY DEF DemoInit, Init
<1>3. prog[Sensor] = "begin" /\ prog[Filter] = "probe" /\ prog[Logger] = "receive" /\ prog = [t \in Body |-> prog[t]]
  BY <1>2, DemoFacts DEF Body
<1>4. LocalsOK
  <2>1. /\ [release |-> 0, latency |-> 0, misses |-> 0, dropped |-> 0, nap |-> 0]
             \in [release : Int, latency : Int, misses : Int, dropped : Int, nap : Int]
        /\ [target |-> 0, count |-> 0] \in [target : Int, count : Nat]
    OBVIOUS
  <2>2. 0 \in 0 .. MinCalls
    BY DemoFacts
  <2> QED
    BY <1>2, <1>3, <2>1, <2>2, Zenon DEF LocalsOK
<1>5. SensorShape /\ FilterShape /\ LoggerShape
  <2>1. /\ Awake(Sensor) /\ Awake(Filter) /\ Awake(Logger)
        /\ call[Sensor] = NoCall /\ call[Filter] = NoCall /\ call[Logger] = NoCall
    BY <1>1, <1>2, DemoFacts
  <2> QED
    BY <1>3, <2>1, Zenon DEF SensorShape, SensorPlace, FilterShape, LoggerShape
<1> QED
  BY <1>1, <1>2, <1>4, <1>5, DemoFacts DEF ControlOK

\* Every call of the bodies is a system call of the kernel.
LEMMA KernelStep == ControlOK /\ [DemoNext]_demoVars => [Next]_vars
<1> SUFFICES ASSUME ControlOK, [DemoNext]_demoVars
             PROVE  [Next]_vars
  OBVIOUS
<1>1. CASE UNCHANGED demoVars
  BY <1>1 DEF demoVars
<1>2. CASE DemoTimer
  BY <1>2, Zenon DEF DemoTimer, Next
<1>3. ASSUME SysNow \/ (\E b \in BOOLEAN : SysLog(b)) PROVE Next
  BY <1>3, Zenon DEF Next
<1>4. ASSUME NEW c \in Chan, NEW nb \in BOOLEAN, Send(c, nb) PROVE Next
  <2>1. [op |-> "send", ch |-> c, flaw |-> "none", nonblock |-> nb] \in SendCall
    BY DEF SendCall
  <2> QED
    BY <1>4, <2>1, Zenon DEF Send, Next
<1>5. ASSUME NEW c \in Chan, Receive(c) PROVE Next
  <2>1. [op |-> "receive", ch |-> c, flaw |-> "none", nonblock |-> FALSE] \in ReceiveCall
    BY DEF ReceiveCall
  <2> QED
    BY <1>5, <2>1, Zenon DEF Receive, Next
<1>6. 0 \in Chan /\ 1 \in Chan
  BY DemoFacts
<1>7. CASE SensorSleep
  <2>1. SysSleep(sensor.nap) /\ prog[Sensor] = "sleep"
    BY <1>7 DEF SensorSleep, Calls
  <2>2. sensor.nap \in SleepArgs
    <3>1. sensor.nap \in 1 .. (HalfRange - 1) /\ SleepArgs = 0 .. HalfRange
      BY <2>1, PipelineAssumption DEF ControlOK, SensorShape
    <3> QED
      BY <3>1, DemoFacts
  <2> QED
    BY <2>1, <2>2, Zenon DEF Next
<1>8. CASE SensorPublish
  BY <1>4, <1>6, <1>8, Zenon DEF SensorPublish, Calls
<1>9. CASE SensorBegin \/ SensorStart \/ SensorCheck \/ SensorPlan
  BY <1>3, <1>9, Zenon DEF SensorBegin, SensorStart, SensorCheck, SensorPlan, Calls
<1>10. CASE FilterStep
  BY <1>3, <1>4, <1>5, <1>6, <1>10, Zenon DEF FilterStep, Calls
<1>11. CASE LoggerStep
  BY <1>3, <1>5, <1>6, <1>11, Zenon DEF LoggerStep, LoggerCalls, Burn, Calls
<1>12. CASE AtHorizon
  BY <1>12 DEF AtHorizon, demoVars
<1> QED
  BY <1>1, <1>2, <1>7, <1>8, <1>9, <1>10, <1>11, <1>12, Zenon DEF DemoNext, TaskStep, SensorStep

\* No sleep is longer than the comparison of ticks can tell.
LEMMA DemoShortSleeps == ShortSleeps
BY PipelineAssumption, DemoFacts DEF ShortSleeps

\* The shape of the bodies, with the kernel's own invariants, is inductive.
RunInv == Inv /\ SleepersOK /\ ControlOK

\* Initially.
LEMMA RunInit == DemoInit => RunInv
<1>1. DemoInit => Inv
  BY InitInv, SMTT(20), ZenonT(20) DEF DemoInit
<1>2. DemoInit => SleepersOK
  <2> SUFFICES ASSUME DemoInit, NEW t \in Task
               PROVE  sched.blockedOn[t] # Asleep
    BY DEF SleepersOK
  <2> QED
    BY BootFacts, WaitFacts DEF DemoInit, Init
<1> QED
  BY <1>1, <1>2, ControlInit, SMTT(20), ZenonT(20) DEF RunInv

\* The kernel has the effects that the bodies rely on.
LEMMA RunEffects == RunInv => View /\ Effects
BY KernelSeen, TickEffect, PublishEffect, SensorSleepEffect, FilterReceiveEffect, FilterSendEffect,
   LoggerReceiveEffect, Zenon
   DEF RunInv, View, Effects

\* And with every step.
LEMMA RunStep == RunInv /\ [DemoNext]_demoVars => RunInv'
<1> SUFFICES ASSUME RunInv, [DemoNext]_demoVars
             PROVE  RunInv'
  OBVIOUS
<1>1. Inv /\ SleepersOK /\ ControlOK
  BY DEF RunInv
<1>2. Inv' /\ SleepersOK'
  BY <1>1, KernelStep, NextInv, NextSleep, DemoShortSleeps
<1>3. ControlOK'
  BY RunEffects, ControlStep DEF View
<1> QED
  BY <1>2, <1>3 DEF RunInv

\* The shape of the bodies is an invariant.
LEMMA RunAlways == DemoSpec => []RunInv
BY RunInit, RunStep, PTL DEF DemoSpec

\* The demo is one of the kernel's behaviours, so that everything the kernel
\* promises its tasks holds of sensor_reader, filter and uart_logger: the
\* bodies never sleep for longer than tick_reached can tell, and what they
\* pass to send and receive are calls the kernel knows.
THEOREM DemoRunsOnKernel == DemoSpec => Init /\ [][Next]_vars
<1>1. RunInv /\ [DemoNext]_demoVars => [Next]_vars
  BY KernelStep DEF RunInv
<1>2. DemoInit => Init
  BY DEF DemoInit
<1> QED
  BY <1>1, <1>2, RunAlways, PTL DEF DemoSpec

-----------------------------------------------------------------------------
(* The properties of the demo *)

\* The demo starts as the timetable does.
LEMMA InitSeen == DemoInit => Timetable!Init
<1> SUFFICES ASSUME DemoInit PROVE Timetable!Init
  OBVIOUS
<1>1. \A t \in Task : Awake(t)
  BY BootFacts DEF DemoInit, Init, Awake
<1>2. SensorWait = "no" /\ SensorLeft = 0 /\ FilterWait = "no" /\ LoggerWait = "no"
  BY <1>1, DemoFacts, SMTT(20), ZenonT(20) DEF SensorWait, SensorLeft, FilterWait, LoggerWait
<1>3. chan[0] = <<>> /\ chan[1] = <<>> /\ ticks = 0 /\ calls = 0
  BY DemoFacts DEF DemoInit, Init
<1>4. prog[Sensor] = "begin" /\ prog[Filter] = "probe" /\ prog[Logger] = "receive"
  BY DemoFacts DEF DemoInit, Body
<1>5. /\ sensor.release = 0 /\ sensor.latency = 0 /\ sensor.misses = 0 /\ sensor.dropped = 0 /\ sensor.nap = 0
      /\ logger.target = 0 /\ logger.count = 0
  BY DEF DemoInit
<1>6. FilterAt = "probe" /\ Len(chan[0]) = 0 /\ Len(chan[1]) = 0
  BY <1>3, <1>4 DEF FilterAt
<1> QED
  BY <1>2, <1>3, <1>4, <1>5, <1>6, Zenon DEF Timetable!Init

\* The timetable with what BacklogProofs shows of it.
Proved == INSTANCE BacklogProofs WITH
       now <- ticks, left <- SensorLeft,
       sensorAt <- prog[Sensor], sensorWait <- SensorWait,
       release <- sensor.release, latency <- sensor.latency, misses <- sensor.misses,
       dropped <- sensor.dropped, nap <- sensor.nap,
       filterAt <- FilterAt, filterWait <- FilterWait,
       loggerAt <- prog[Logger], loggerWait <- LoggerWait, target <- logger.target, count <- logger.count,
       raw <- Len(chan[0]), filtered <- Len(chan[1])

\* The constants of demo/pipeline.rs, and a channel of at least two slots.
DemoTiming ==
  /\ MinCalls >= 4 /\ Capacity >= 2
  /\ Period = 10 /\ Deadline = 10 /\ LoggerWork = 3 /\ FlushWork = 25 /\ FlushEvery = 5 /\ SummaryEvery = 100

\* Timetable and Proved start alike,
LEMMA SameInit == (Timetable!Init <=> Proved!Init)
BY Zenon DEF Timetable!Init, Proved!Init

\* have the same clock of the sensor,
LEMMA SameInv == (Timetable!SensorInv <=> Proved!SensorInv)
BY ZenonT(40)
   DEF Timetable!SensorInv, Timetable!SensorClock, Timetable!OnTime, Proved!SensorInv, Proved!SensorClock,
       Proved!OnTime

\* and take the same steps.
LEMMA SameNext == [Timetable!Next]_(Timetable!vars) <=> [Proved!Next]_(Proved!vars)
BY ZenonT(40)
   DEF Timetable!vars, Timetable!sensorVars, Timetable!filterVars, Timetable!loggerVars, Timetable!SensorRuns,
       Timetable!FilterRuns, Timetable!LoggerRuns, Timetable!NobodyRuns, Timetable!Call, Timetable!SensorCall,
       Timetable!SensorBegin, Timetable!SensorStart, Timetable!SensorPublish, Timetable!SensorCheck,
       Timetable!SensorPlan, Timetable!SensorSleep, Timetable!FilterCall, Timetable!FilterLogs,
       Timetable!FilterReceive, Timetable!FilterSend, Timetable!LoggerMove, Timetable!LoggerReceive,
       Timetable!Burn, Timetable!AfterLine, Timetable!AfterFlush, Timetable!LoggerWorks, Timetable!Tick,
       Timetable!SensorStep, Timetable!FilterStep, Timetable!LoggerStep, Timetable!Next, Proved!vars,
       Proved!sensorVars, Proved!filterVars, Proved!loggerVars, Proved!SensorRuns, Proved!FilterRuns,
       Proved!LoggerRuns, Proved!NobodyRuns, Proved!Call, Proved!SensorCall, Proved!SensorBegin,
       Proved!SensorStart, Proved!SensorPublish, Proved!SensorCheck, Proved!SensorPlan, Proved!SensorSleep,
       Proved!FilterCall, Proved!FilterLogs, Proved!FilterReceive, Proved!FilterSend, Proved!LoggerMove,
       Proved!LoggerReceive, Proved!Burn, Proved!AfterLine, Proved!AfterFlush, Proved!LoggerWorks,
       Proved!Tick, Proved!SensorStep, Proved!FilterStep, Proved!LoggerStep, Proved!Next

\* What the sensor needs is what the timetable's sensor needs.
LEMMA FitsSeen ==
  ASSUME SensorFits
  PROVE  Proved!SensorFits
BY DemoFacts, SMTT(20), ZenonT(20) DEF SensorFits, Proved!SensorFits

\* The demo's constants are the timetable's.
LEMMA TimingSeen ==
  ASSUME DemoTiming
  PROVE  SensorFits /\ Proved!DemoTiming
BY DemoFacts DEF DemoTiming, SensorFits, Proved!DemoTiming

\* They are the same specification.
LEMMA SameSpec == Timetable!Spec => Proved!Spec
BY SameInit, SameNext, PTL DEF Timetable!Spec, Proved!Spec

\* Every behaviour of the demo on the kernel is one of the timetable: with the
\* scheduler, the channels and the timer of the kernel, sensor_reader, filter
\* and uart_logger always proceed as if the most urgent of them that does not
\* wait had the processor, channels were counters and a sleep a countdown.
THEOREM DemoFollowsTimetable ==
  ASSUME SensorFits
  PROVE  DemoSpec => FollowsTimetable
<1> DEFINE Both == RunInv /\ Proved!Shape /\ Timetable!SensorInv
<1>1. DemoInit => Both /\ Timetable!Init
  BY RunInit, InitSeen, SameInit, SameInv, FitsSeen, Proved!ShapeInit, Proved!SensorInvInit, Zenon
<1>2. Both /\ [DemoNext]_demoVars => Both' /\ [Timetable!Next]_(Timetable!vars)
  <2> SUFFICES ASSUME RunInv, Proved!Shape, Timetable!SensorInv, [DemoNext]_demoVars
               PROVE  Both' /\ [Timetable!Next]_(Timetable!vars)
    BY Zenon
  <2>1. RunInv'
    BY RunStep, Zenon
  <2>2. [Timetable!Next]_(Timetable!vars)
    BY RunEffects, StepSeen, Zenon
  <2>3. [Proved!Next]_(Proved!vars)
    BY <2>2, SameNext, Zenon
  <2>4. Proved!Shape'
    BY <2>3, FitsSeen, Proved!ShapeStep, Zenon
  <2>5. Proved!SensorInv'
    BY <2>3, FitsSeen, SameInv, Proved!SensorInvStep, Zenon
  <2>6. Timetable!SensorInv'
    BY <2>5, SameInv, PTL
  <2> QED
    BY <2>1, <2>2, <2>4, <2>6, Zenon
<1> HIDE DEF Both
<1> QED
  BY <1>1, <1>2, PTL DEF DemoSpec, FollowsTimetable, Timetable!Spec

\* "release latency stays at 0-1 tick and the miss counter at 0": every cycle
\* of sensor_reader starts at most one tick after its release and no deadline
\* is missed, whatever the filter and the logger do, for every period and
\* deadline of at least two ticks and any speed of at least four calls per
\* tick.
THEOREM SensorOnTimeAlways ==
  ASSUME SensorFits
  PROVE  DemoSpec => []SensorOnTime
<1>1. Proved!Spec => []Proved!OnTime
  BY FitsSeen, Proved!OnTimeAlways, SMTT(20), ZenonT(20)
<1>2. Proved!OnTime => SensorOnTime
  BY Zenon DEF Proved!OnTime, SensorOnTime
<1> QED
  BY <1>1, <1>2, DemoFollowsTimetable, SameSpec, PTL DEF FollowsTimetable

\* "the channels absorbing the backlog": try_send of sensor_sim never finds
\* channel 0 full.
THEOREM NothingDroppedAlways ==
  ASSUME DemoTiming
  PROVE  DemoSpec => []NothingDropped
<1>1. Proved!Spec => [](Proved!NothingDropped /\ Proved!KeepsUp)
  BY TimingSeen, Proved!TimetableAlways
<1>2. DemoSpec => Proved!Spec
  BY TimingSeen, DemoFollowsTimetable, SameSpec, PTL DEF FollowsTimetable
<1>3. Proved!NothingDropped => NothingDropped
  BY Zenon DEF Proved!NothingDropped, NothingDropped
<1> QED
  BY <1>1, <1>2, <1>3, PTL

\* "On average the logger keeps up": when uart_logger starts a flush, both
\* channels are empty and the filter waits for the next reading.
THEOREM LoggerKeepsUpAlways ==
  ASSUME DemoTiming
  PROVE  DemoSpec => []LoggerKeepsUp
<1>1. Proved!Spec => [](Proved!NothingDropped /\ Proved!KeepsUp)
  BY TimingSeen, Proved!TimetableAlways
<1>2. DemoSpec => Proved!Spec
  BY TimingSeen, DemoFollowsTimetable, SameSpec, PTL DEF FollowsTimetable
<1>3. RunInv /\ Proved!KeepsUp => LoggerKeepsUp
  <2> SUFFICES ASSUME RunInv, Proved!KeepsUp, prog[Logger] = "flush"
               PROVE  (\A c \in Chan : chan[c] = <<>>) /\ sched.blockedOn[Filter] = ReceiveOn(0)
    BY Zenon DEF LoggerKeepsUp
  <2>1. Len(chan[0]) = 0 /\ Len(chan[1]) = 0 /\ FilterWait = "receive"
    BY ZenonT(40) DEF Proved!KeepsUp
  <2>2. chan[0] = <<>> /\ chan[1] = <<>> /\ Chan = {0, 1}
    BY <2>1, Lengths, DemoFacts, SMTT(20), ZenonT(20) DEF RunInv
  <2>3. sched.blockedOn[Filter] = ReceiveOn(0)
    BY <2>1 DEF FilterWait, RunInv, ControlOK, FilterShape
  <2> QED
    BY <2>2, <2>3, SMTT(20), ZenonT(20)
<1> QED
  BY <1>1, <1>2, <1>3, RunAlways, PTL

=============================================================================
