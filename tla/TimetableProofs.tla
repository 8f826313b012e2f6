--------------------------- MODULE TimetableProofs --------------------------
(***************************************************************************)
(* The bodies of the demo follow the timetable of module Backlog, given    *)
(* what the kernel shows them: who runs (KernelView) and what each call    *)
(* that may block and each tick does (Effects).  That the kernel shows     *)
(* them this is the subject of PipelineProofs.                             *)
(***************************************************************************)
EXTENDS Pipeline, TLAPS

-----------------------------------------------------------------------------
(* Where the bodies are *)

SensorPlace == {"begin", "start", "publish", "check", "plan", "sleep"}

\* The places of uart_logger at which it has a reading in hand.
HoldsReading == {"work", "working", "worked", "line"}

FlushPlace == {"flush", "flushing", "flushed", "log_flush", "summary"}

CallTo(o, c, nb) == [op |-> o, ch |-> c, flaw |-> "none", nonblock |-> nb]
SendOf(c) == CallTo("send", c, FALSE)
ReceiveOf(c) == CallTo("receive", c, FALSE)

\* What each body waits for and which call it is in, by the place it is at.
SensorShape ==
  /\ prog[Sensor] \in SensorPlace
  /\ call[Sensor] = NoCall
  /\ Awake(Sensor) \/ (sched.blockedOn[Sensor] = Asleep /\ prog[Sensor] = "start")
  /\ prog[Sensor] = "sleep" => sensor.nap \in 1 .. (HalfRange - 1)

FilterShape ==
  \/ prog[Filter] \in {"probe", "report"} /\ call[Filter] = NoCall /\ Awake(Filter)
  \/ /\ prog[Filter] = "receive" /\ call[Filter] \in {NoCall, ReceiveOf(0)}
     /\ Awake(Filter) \/ (sched.blockedOn[Filter] = ReceiveOn(0) /\ Len(chan[0]) = 0)
  \/ /\ prog[Filter] = "send" /\ call[Filter] \in {NoCall, SendOf(1)}
     /\ \/ Awake(Filter)
        \/ sched.blockedOn[Filter] = SendOn(1) /\ Len(chan[1]) = Capacity /\ call[Filter] = SendOf(1)

LoggerShape ==
  \/ prog[Logger] \in (HoldsReading \cup FlushPlace \cup {"log"}) /\ call[Logger] = NoCall /\ Awake(Logger)
  \/ /\ prog[Logger] = "receive" /\ call[Logger] \in {NoCall, ReceiveOf(1)}
     /\ Awake(Logger) \/ (sched.blockedOn[Logger] = ReceiveOn(1) /\ Len(chan[1]) = 0)

LocalsOK ==
  /\ prog = [t \in Body |-> prog[t]]
  /\ sensor \in [release : Int, latency : Int, misses : Int, dropped : Int, nap : Int]
  /\ logger \in [target : Int, count : Nat]
  /\ calls \in 0 .. MinCalls

ControlOK ==
  /\ sched.halt = "no" /\ overflowed = {}
  /\ ticks <= Horizon
  /\ LocalsOK /\ SensorShape /\ FilterShape /\ LoggerShape

-----------------------------------------------------------------------------
(* Numbers and constants *)

\* The smaller of two numbers.
LEMMA MinOfTwo ==
  ASSUME NEW a \in Nat, NEW b \in Nat
  PROVE  Min({a, b}) = IF a <= b THEN a ELSE b
<1>1. \E x \in {a, b} : \A y \in {a, b} : x <= y
  <2>1. CASE a <= b
    BY <2>1
  <2>2. CASE b <= a
    BY <2>2
  <2> QED
    BY <2>1, <2>2
<1>2. Min({a, b}) \in {a, b} /\ \A y \in {a, b} : Min({a, b}) <= y
  BY <1>1, Zenon DEF Min
<1> QED
  BY <1>2

\* The remainder of a number the counter can hold is the number.
LEMMA RemainderFacts ==
  ASSUME NEW M \in Nat, M > 0, NEW x \in Int
  PROVE  /\ x % M \in Nat
         /\ x >= 0 /\ x < M => x % M = x
<1>1. x % M \in 0 .. (M - 1) /\ x = M * (x \div M) + (x % M) /\ x \div M \in Int
  OBVIOUS
<1>2. ASSUME x >= 0, x < M
      PROVE  x % M = x
  <2>1. ~(x \div M >= 1)
    BY <1>1, <1>2
  <2>2. ~(x \div M <= -1)
    BY <1>1, <1>2
  <2> QED
    BY <1>1, <2>1, <2>2
<1> QED
  BY <1>1, <1>2

\* The constants of the demo.
LEMMA DemoFacts ==
  /\ Task = {0, 1, 2, 3} /\ Idle = 3 /\ Chan = {0, 1}
  /\ Sensor = 0 /\ Filter = 1 /\ Logger = 2
  /\ Capacity \in Nat \ {0} /\ HalfRange \in Nat /\ TickMod \in Nat /\ TickMod = 2 * HalfRange
  /\ TickMod > 1
  /\ Horizon + FlushWork + Period < HalfRange
  /\ MinCalls \in Nat /\ Period \in Nat /\ Horizon \in Nat /\ FlushWork \in Nat /\ LoggerWork \in Nat
  /\ Deadline \in Nat
<1>1. NumTasks = 4 /\ Idle = 3 /\ Chan = {0, 1}
  BY PipelineTable
<1>2. Task = {0, 1, 2, 3}
  BY <1>1 DEF Task
<1>3. {Period, Deadline, LoggerWork, FlushWork, FlushEvery, SummaryEvery, MinCalls, Horizon} \subseteq Nat
  BY PipelineAssumption
<1> QED
  BY <1>1, <1>2, <1>3, PipelineAssumption, KernelAssumption, SchedulerAssumption
     DEF TickMod, Sensor, Filter, Logger

\* Wrapping arithmetic gives a number.
LEMMA Wrapped ==
  ASSUME NEW x \in Int
  PROVE  x % TickMod \in Nat
<1>1. TickMod \in Nat /\ TickMod > 0
  BY DemoFacts
<1> QED
  BY <1>1, RemainderFacts

\* The waits of the bodies are different.
LEMMA WaitFacts ==
  /\ Asleep # NotBlocked
  /\ ReceiveOn(0) \notin {NotBlocked, Asleep} /\ ReceiveOn(1) \notin {NotBlocked, Asleep}
  /\ SendOn(1) \notin {NotBlocked, Asleep, ReceiveOn(0), ReceiveOn(1)} /\ ReceiveOn(0) # ReceiveOn(1)
BY DEF NotBlocked, Asleep, ReceiveOn, SendOn

\* The names and the places are different.
LEMMA BodyFacts ==
  /\ Body = {Sensor, Filter, Logger} /\ Sensor # Filter /\ Sensor # Logger /\ Filter # Logger
BY DemoFacts DEF Body

\* A number that the tick counter can hold.
LEMMA NoWrap ==
  ASSUME NEW x \in Int, x >= 0, x <= Horizon + FlushWork + Period
  PROVE  x % TickMod = x /\ x < HalfRange
<1>1. x < TickMod /\ x < HalfRange /\ TickMod \in Nat /\ TickMod > 0
  BY DemoFacts
<1> QED
  BY <1>1, RemainderFacts

\* A line takes less than a period, by the compile-time assertion.
LEMMA ShortLine == LoggerWork < Period /\ LoggerWork \in Nat /\ FlushWork \in Nat
<1>1. ASSUME NEW f \in Nat, NEW w \in Nat, NEW p \in Nat, NEW v \in Nat, f * w + v < f * p
      PROVE  w < p
  <2>1. SUFFICES ASSUME w >= p PROVE FALSE
    BY <1>1
  <2>2. PICK d \in Nat : w = p + d
    BY <2>1
  <2>3. f * w = f * p + f * d /\ f * d \in Nat /\ f * p \in Nat
    BY <2>2
  <2> QED
    BY <1>1, <2>3
<1>2. {FlushEvery, LoggerWork, Period, FlushWork} \subseteq Nat
  BY PipelineAssumption
<1> QED
  BY <1>1, <1>2, PipelineAssumption

\* What the bodies see of the kernel's invariant: the most urgent task that
\* can run does.
KernelView ==
  /\ Running \in {Sensor, Filter, Logger, Idle}
  /\ Awake(Running)
  /\ Awake(Sensor) => Running = Sensor
  /\ Awake(Filter) => Running \in {Sensor, Filter}
  /\ Awake(Logger) => Running # Idle
  /\ call[Running] \in {NoCall} \cup SendCall \cup ReceiveCall
  /\ ticks \in Nat
  /\ \A c \in Chan : Len(chan[c]) \in Nat

View == KernelView /\ ControlOK

-----------------------------------------------------------------------------
(* What a tick and the calls that may block do, as the bodies see it *)

\* A tick wakes the sensor with the last tick of its sleep, and nobody else.
Ticked ==
  /\ ticks' = ticks + 1 /\ ticks < Horizon /\ ticks \in Nat /\ calls' = 0
  /\ Running = Idle \/ calls = MinCalls
  /\ sched'.halt = "no" /\ UNCHANGED <<chan, call, overflowed, prog, sensor, logger>>
  /\ sched'.blockedOn[Filter] = sched.blockedOn[Filter]
  /\ sched'.blockedOn[Logger] = sched.blockedOn[Logger]
  /\ Awake(Sensor) => Awake(Sensor)'
  /\ ~Awake(Sensor) =>
       /\ left[Sensor] \in Int /\ left[Sensor] >= 1
       /\ left[Sensor] = 1 => Awake(Sensor)'
       /\ left[Sensor] > 1 => sched'.blockedOn[Sensor] = Asleep /\ left'[Sensor] = left[Sensor] - 1

\* The sensor's try_send.
Published ==
  /\ Running = Sensor /\ prog[Sensor] = "publish" /\ prog' = [prog EXCEPT ![Sensor] = "check"]
  /\ ticks' = ticks /\ left' = left /\ overflowed' = overflowed /\ sched'.halt = sched.halt
  /\ call' = call /\ logger' = logger /\ calls' = Min({calls + 1, MinCalls})
  /\ sched'.blockedOn[Sensor] = sched.blockedOn[Sensor]
  /\ sched'.blockedOn[Logger] = sched.blockedOn[Logger]
  /\ \/ /\ Len(chan[0]) = Capacity /\ chan' = chan
        /\ sched'.blockedOn[Filter] = sched.blockedOn[Filter]
        /\ sensor' = [sensor EXCEPT !.dropped = @ + 1]
     \/ /\ Len(chan[0]) # Capacity /\ Len(chan'[0]) = Len(chan[0]) + 1 /\ chan'[1] = chan[1]
        /\ sched'.blockedOn[Filter] =
             IF sched.blockedOn[Filter] = ReceiveOn(0) THEN NotBlocked ELSE sched.blockedOn[Filter]
        /\ sched'.blockedOn[Filter] # ReceiveOn(0)
        /\ sensor' = [sensor EXCEPT !.dropped = @]

\* The sensor's sleep.
Slept ==
  /\ Running = Sensor /\ prog[Sensor] = "sleep" /\ prog' = [prog EXCEPT ![Sensor] = "start"]
  /\ UNCHANGED <<ticks, chan, call, overflowed, sensor, logger>> /\ sched'.halt = sched.halt
  /\ calls' = Min({calls + 1, MinCalls})
  /\ sched'.blockedOn[Sensor] = Asleep
  /\ sched'.blockedOn[Filter] = sched.blockedOn[Filter]
  /\ sched'.blockedOn[Logger] = sched.blockedOn[Logger]
  /\ left'[Sensor] = sensor.nap

\* The filter's receive.
FilterReceived ==
  /\ Running = Filter /\ prog[Filter] = "receive" /\ calls' = Min({calls + 1, MinCalls})
  /\ sensor' = sensor /\ logger' = logger
  /\ ticks' = ticks /\ left' = left /\ overflowed' = overflowed /\ sched'.halt = sched.halt
  /\ sched'.blockedOn[Sensor] = sched.blockedOn[Sensor]
  /\ sched'.blockedOn[Logger] = sched.blockedOn[Logger]
  /\ call'[Sensor] = call[Sensor] /\ call'[Logger] = call[Logger] /\ chan'[1] = chan[1]
  /\ \/ /\ Len(chan[0]) = 0 /\ chan' = chan /\ prog' = [prog EXCEPT ![Filter] = "receive"]
        /\ sched'.blockedOn[Filter] = ReceiveOn(0) /\ call'[Filter] = ReceiveOf(0)
     \/ /\ Len(chan[0]) > 0 /\ Len(chan'[0]) = Len(chan[0]) - 1
        /\ prog' = [prog EXCEPT ![Filter] = "send"]
        /\ sched'.blockedOn[Filter] = NotBlocked /\ call'[Filter] = NoCall

\* The filter's send.
FilterSent ==
  /\ Running = Filter /\ prog[Filter] = "send" /\ calls' = Min({calls + 1, MinCalls})
  /\ sensor' = sensor /\ logger' = logger
  /\ ticks' = ticks /\ left' = left /\ overflowed' = overflowed /\ sched'.halt = sched.halt
  /\ sched'.blockedOn[Sensor] = sched.blockedOn[Sensor]
  /\ call'[Sensor] = call[Sensor] /\ call'[Logger] = call[Logger] /\ chan'[0] = chan[0]
  /\ \/ /\ Len(chan[1]) = Capacity /\ chan' = chan /\ prog' = [prog EXCEPT ![Filter] = "send"]
        /\ sched'.blockedOn[Filter] = SendOn(1) /\ call'[Filter] = SendOf(1)
        /\ sched'.blockedOn[Logger] = sched.blockedOn[Logger]
     \/ /\ Len(chan[1]) # Capacity /\ Len(chan'[1]) = Len(chan[1]) + 1
        /\ prog' = [prog EXCEPT ![Filter] = "receive"]
        /\ sched'.blockedOn[Filter] = NotBlocked /\ call'[Filter] = NoCall
        /\ sched'.blockedOn[Logger] \in {NotBlocked, sched.blockedOn[Logger]}
        /\ sched'.blockedOn[Logger] # ReceiveOn(1)

\* The logger's receive.
LoggerReceived ==
  /\ Running = Logger /\ prog[Logger] = "receive" /\ calls' = Min({calls + 1, MinCalls})
  /\ sensor' = sensor /\ logger' = logger
  /\ ticks' = ticks /\ left' = left /\ overflowed' = overflowed /\ sched'.halt = sched.halt
  /\ sched'.blockedOn[Sensor] = sched.blockedOn[Sensor]
  /\ call'[Sensor] = call[Sensor] /\ call'[Filter] = call[Filter] /\ chan'[0] = chan[0]
  /\ \/ /\ Len(chan[1]) = 0 /\ chan' = chan /\ prog' = [prog EXCEPT ![Logger] = "receive"]
        /\ sched'.blockedOn[Logger] = ReceiveOn(1) /\ call'[Logger] = ReceiveOf(1)
        /\ sched'.blockedOn[Filter] = sched.blockedOn[Filter]
     \/ /\ Len(chan[1]) > 0 /\ Len(chan'[1]) = Len(chan[1]) - 1
        /\ prog' = [prog EXCEPT ![Logger] = "work"]
        /\ sched'.blockedOn[Logger] = NotBlocked /\ call'[Logger] = NoCall
        /\ sched'.blockedOn[Filter] =
             IF sched.blockedOn[Filter] = SendOn(1) THEN NotBlocked ELSE sched.blockedOn[Filter]

\* The steps of the demo that may block, and time, have these effects.
Effects ==
  /\ DemoTimer => Ticked
  /\ SensorPublish => Published
  /\ SensorSleep => Slept
  /\ Calls(Filter, "receive", Receive(0), "send") /\ UNCHANGED <<sensor, logger>> => FilterReceived
  /\ Calls(Filter, "send", Send(1, FALSE), "receive") /\ UNCHANGED <<sensor, logger>> => FilterSent
  /\ LoggerCalls("receive", Receive(1), "work") => LoggerReceived

-----------------------------------------------------------------------------
(* Calls that only set a0 *)

\* A body that is about to read the clock or to log is inside no other call.
LEMMA FreshCall ==
  ASSUME KernelView, NEW k, k.op \notin {"send", "receive"}, Executes(k)
  PROVE  call[Running] = NoCall
<1>1. call[Running] \in {NoCall} \cup SendCall \cup ReceiveCall
  BY DEF KernelView
<1>2. \A x \in SendCall \cup ReceiveCall : x.op \in {"send", "receive"}
  BY DEF SendCall, ReceiveCall
<1> QED
  BY <1>1, <1>2 DEF Executes

\* What a call that only sets a0 leaves alone.
KernelSame == UNCHANGED <<sched, ticks, chan, call, overflowed, left>>

\* Reading the clock and logging move the body on and change nothing else.
LEMMA QuietCall ==
  ASSUME KernelView, NEW t \in Body, NEW place, NEW go,
         \/ Calls(t, place, SysNow, go)
         \/ \E b \in BOOLEAN : Calls(t, place, SysLog(b), go)
  PROVE  /\ Running = t /\ prog[t] = place /\ KernelSame
         /\ prog' = [prog EXCEPT ![t] = go]
         /\ calls' = Min({calls + 1, MinCalls})
<1>1. /\ Running = t /\ prog[t] = place /\ calls' = Min({calls + 1, MinCalls})
      /\ prog' = [prog EXCEPT ![t] = IF call'[t] = NoCall THEN go ELSE place]
      /\ SysNow \/ \E b \in BOOLEAN : SysLog(b)
  BY Zenon DEF Calls
<1>2. KernelSame
  BY <1>1, Zenon DEF SysNow, SysLog, KernelSame
<1>3. call[t] = NoCall
  <2>1. CASE SysNow
    <3>1. Executes([op |-> "now"]) /\ [op |-> "now"].op \notin {"send", "receive"}
      BY <2>1 DEF SysNow
    <3> QED
      BY <1>1, <3>1, FreshCall
  <2>2. CASE \E b \in BOOLEAN : SysLog(b)
    <3>1. Executes([op |-> "log"]) /\ [op |-> "log"].op \notin {"send", "receive"}
      BY <2>2 DEF SysLog
    <3> QED
      BY <1>1, <3>1, FreshCall
  <2> QED
    BY <1>1, <2>1, <2>2
<1>4. call' = call
  BY <1>2 DEF KernelSame
<1> QED
  BY <1>1, <1>2, <1>3, <1>4, Zenon

\* The count of calls since the last tick.
LEMMA CallCounted ==
  ASSUME calls \in 0 .. MinCalls, calls' = Min({calls + 1, MinCalls})
  PROVE  calls' \in 0 .. MinCalls /\ calls' = IF calls < MinCalls THEN calls + 1 ELSE MinCalls
<1>1. calls + 1 \in Nat /\ MinCalls \in Nat
  BY DemoFacts
<1> QED
  BY <1>1, MinOfTwo

\* One body moves, the others stay where they are.
LEMMA Moves ==
  ASSUME LocalsOK, NEW t \in Body, NEW go, prog' = [prog EXCEPT ![t] = go]
  PROVE  /\ prog' = [u \in Body |-> prog'[u]] /\ prog'[t] = go
         /\ \A u \in Body : u # t => prog'[u] = prog[u]
BY DEF LocalsOK

\* Calls that change nothing in the kernel keep the shape of the other bodies.
LEMMA ShapeKept ==
  /\ SensorShape /\ UNCHANGED call /\ sched'.blockedOn[Sensor] = sched.blockedOn[Sensor]
       /\ prog'[Sensor] = prog[Sensor] /\ sensor'.nap = sensor.nap => SensorShape'
  /\ FilterShape /\ UNCHANGED <<chan, call>> /\ sched'.blockedOn[Filter] = sched.blockedOn[Filter]
       /\ prog'[Filter] = prog[Filter] => FilterShape'
  /\ LoggerShape /\ UNCHANGED <<chan, call>> /\ sched'.blockedOn[Logger] = sched.blockedOn[Logger]
       /\ prog'[Logger] = prog[Logger] => LoggerShape'
BY Zenon DEF SensorShape, FilterShape, LoggerShape, Awake

\* Body t makes a call at place that only sets a0, and goes on at place go.
Went(t, place, go) ==
  /\ Running = t /\ prog[t] = place /\ KernelSame
  /\ prog'[t] = go /\ \A u \in Body : u # t => prog'[u] = prog[u]
  /\ calls' = Min({calls + 1, MinCalls})

\* The sensor reads the clock.
LEMMA SensorNowControl ==
  ASSUME KernelView, ControlOK, NEW place, NEW go \in SensorPlace, Calls(Sensor, place, SysNow, go),
         sensor' \in [release : Int, latency : Int, misses : Int, dropped : Int, nap : Int],
         go = "sleep" => sensor'.nap \in 1 .. (HalfRange - 1), logger' = logger
  PROVE  ControlOK' /\ Went(Sensor, place, go)
<1>1. /\ Running = Sensor /\ prog[Sensor] = place /\ KernelSame
      /\ prog' = [prog EXCEPT ![Sensor] = go] /\ calls' = Min({calls + 1, MinCalls})
  <2>1. Sensor \in Body
    BY DEF Body
  <2> QED
    BY <2>1, QuietCall
<1>2. /\ prog'[Sensor] = go /\ \A u \in Body : u # Sensor => prog'[u] = prog[u]
      /\ prog' = [u \in Body |-> prog'[u]]
  <2>1. LocalsOK /\ Sensor \in Body
    BY DEF ControlOK, Body
  <2> QED
    BY <1>1, <2>1, Moves
<1>3. Filter \in Body /\ Logger \in Body /\ Filter # Sensor /\ Logger # Sensor
  BY DemoFacts DEF Body
<1>4. LocalsOK'
  <2>1. calls' \in 0 .. MinCalls
    BY <1>1, CallCounted DEF ControlOK, LocalsOK
  <2> QED
    BY <1>2, <2>1 DEF LocalsOK, ControlOK
<1>5. SensorShape'
  <2>1. Awake(Sensor) /\ call[Sensor] = NoCall
    BY <1>1 DEF KernelView, ControlOK, SensorShape
  <2> QED
    BY <1>1, <1>2, <2>1 DEF SensorShape, KernelSame, Awake
<1>6. FilterShape' /\ LoggerShape'
  BY <1>1, <1>2, <1>3, ShapeKept DEF ControlOK, KernelSame
<1> QED
  BY <1>1, <1>2, <1>4, <1>5, <1>6 DEF ControlOK, KernelSame, Went

\* The sensor's readings of the clock.
LEMMA SensorNowSteps ==
  ASSUME KernelView, ControlOK
  PROVE  /\ SensorBegin => ControlOK' /\ Went(Sensor, "begin", "start")
         /\ SensorStart => ControlOK' /\ Went(Sensor, "start", "publish")
         /\ SensorCheck => ControlOK' /\ Went(Sensor, "check", "plan")
         /\ SensorPlan => /\ ControlOK'
                          /\ LET ahead == (sensor.release - ticks) % TickMod
                             IN  Went(Sensor, "plan", IF ahead \in 1 .. (HalfRange - 1) THEN "sleep" ELSE "start")
<1>1. /\ ticks \in Int /\ Period \in Int
      /\ sensor \in [release : Int, latency : Int, misses : Int, dropped : Int, nap : Int]
  <2>1. ticks \in Int /\ Period \in Int
    BY DemoFacts DEF KernelView
  <2> QED
    BY <2>1 DEF ControlOK, LocalsOK
<1>2. /\ (ticks - sensor.release) % TickMod \in Nat /\ (sensor.release - ticks) % TickMod \in Nat
      /\ (sensor.release + Period) % TickMod \in Nat
  <2>1. ticks - sensor.release \in Int /\ sensor.release - ticks \in Int /\ sensor.release + Period \in Int
    BY <1>1
  <2> QED
    BY <2>1, Wrapped
<1>3. ASSUME SensorBegin
      PROVE  ControlOK' /\ Went(Sensor, "begin", "start")
  <2>1. sensor' \in [release : Int, latency : Int, misses : Int, dropped : Int, nap : Int]
    BY <1>1, <1>3 DEF SensorBegin
  <2> QED
    BY <1>3, <2>1, SensorNowControl DEF SensorBegin, SensorPlace
<1>4. ASSUME SensorStart
      PROVE  ControlOK' /\ Went(Sensor, "start", "publish")
  <2>1. Min({(ticks - sensor.release) % TickMod, 255}) \in Int
    BY <1>2, MinOfTwo
  <2>2. sensor' \in [release : Int, latency : Int, misses : Int, dropped : Int, nap : Int]
    BY <1>1, <1>4, <2>1 DEF SensorStart
  <2> QED
    BY <1>4, <2>2, SensorNowControl DEF SensorStart, SensorPlace
<1>5. ASSUME SensorCheck
      PROVE  ControlOK' /\ Went(Sensor, "check", "plan")
  <2>1. sensor' \in [release : Int, latency : Int, misses : Int, dropped : Int, nap : Int]
    <3> DEFINE late == (ticks - sensor.release) % TickMod
               next == (sensor.release + Period) % TickMod
               m == IF late >= Deadline THEN sensor.misses + 1 ELSE sensor.misses
    <3>1. m \in Int /\ next \in Int
      BY <1>1, <1>2
    <3>2. sensor' = [sensor EXCEPT !.misses = m, !.release = next]
      BY <1>5 DEF SensorCheck
    <3> HIDE DEF m, next
    <3> QED
      BY <1>1, <3>1, <3>2
  <2> QED
    BY <1>5, <2>1, SensorNowControl DEF SensorCheck, SensorPlace
<1>6. ASSUME SensorPlan
      PROVE  /\ ControlOK'
             /\ LET ahead == (sensor.release - ticks) % TickMod
                IN  Went(Sensor, "plan", IF ahead \in 1 .. (HalfRange - 1) THEN "sleep" ELSE "start")
  <2> DEFINE ahead == (sensor.release - ticks) % TickMod
             go == IF ahead \in 1 .. (HalfRange - 1) THEN "sleep" ELSE "start"
  <2>1. sensor' = [sensor EXCEPT !.nap = ahead] /\ Calls(Sensor, "plan", SysNow, go) /\ logger' = logger
    BY <1>6 DEF SensorPlan
  <2>2. /\ sensor' \in [release : Int, latency : Int, misses : Int, dropped : Int, nap : Int]
        /\ sensor'.nap = ahead
    BY <1>1, <1>2, <2>1
  <2>3. go \in SensorPlace /\ (go = "sleep" => sensor'.nap \in 1 .. (HalfRange - 1))
    BY <2>2 DEF SensorPlace
  <2> HIDE DEF go
  <2>4. ControlOK' /\ Went(Sensor, "plan", go)
    BY <2>1, <2>2, <2>3, SensorNowControl
  <2> QED
    BY <2>4 DEF go
<1> QED
  BY <1>3, <1>4, <1>5, <1>6

\* The filter and the logger read the clock or log.
LEMMA OtherQuietControl ==
  ASSUME KernelView, ControlOK, NEW t \in {Filter, Logger}, NEW place, NEW go,
         \/ Calls(t, place, SysNow, go)
         \/ \E b \in BOOLEAN : Calls(t, place, SysLog(b), go),
         sensor' = sensor, logger' \in [target : Int, count : Nat],
         t = Filter => go \in {"report", "receive"},
         t = Logger => go \in HoldsReading \cup FlushPlace \cup {"log", "receive"}
  PROVE  ControlOK' /\ Went(t, place, go)
<1>1. t \in Body /\ Sensor \in Body /\ Filter \in Body /\ Logger \in Body
      /\ Filter # Sensor /\ Logger # Sensor /\ Filter # Logger
  BY DemoFacts DEF Body
<1>2. /\ Running = t /\ prog[t] = place /\ KernelSame
      /\ prog' = [prog EXCEPT ![t] = go] /\ calls' = Min({calls + 1, MinCalls})
  BY <1>1, QuietCall, Zenon
<1>3. /\ prog'[t] = go /\ \A u \in Body : u # t => prog'[u] = prog[u]
      /\ prog' = [u \in Body |-> prog'[u]]
  BY <1>1, <1>2, Moves DEF ControlOK
<1>4. LocalsOK'
  <2>1. calls' \in 0 .. MinCalls
    BY <1>2, CallCounted DEF ControlOK, LocalsOK
  <2> QED
    BY <1>3, <2>1 DEF LocalsOK, ControlOK
<1>5. SensorShape'
  BY <1>1, <1>2, <1>3, ShapeKept DEF ControlOK, KernelSame
<1>6. call[t] = NoCall /\ Awake(t)
  <2>1. SysNow \/ \E b \in BOOLEAN : SysLog(b)
    BY Zenon DEF Calls
  <2>2. \E k : k.op \notin {"send", "receive"} /\ Executes(k)
    <3>1. [op |-> "now"].op \notin {"send", "receive"} /\ [op |-> "log"].op \notin {"send", "receive"}
      OBVIOUS
    <3> QED
      BY <2>1, <3>1, Zenon DEF SysNow, SysLog
  <2> QED
    BY <1>2, <2>2, FreshCall DEF KernelView
<1>7. FilterShape'
  <2>1. CASE t = Filter
    BY <1>2, <1>3, <1>6, <2>1 DEF FilterShape, KernelSame, Awake
  <2>2. CASE t = Logger
    BY <1>1, <1>2, <1>3, <2>2, ShapeKept DEF ControlOK, KernelSame
  <2> QED
    BY <2>1, <2>2
<1>8. LoggerShape'
  <2>1. CASE t = Filter
    BY <1>1, <1>2, <1>3, <2>1, ShapeKept DEF ControlOK, KernelSame
  <2>2. CASE t = Logger
    BY <1>2, <1>3, <1>6, <2>2 DEF LoggerShape, KernelSame, Awake
  <2> QED
    BY <2>1, <2>2
<1> QED
  BY <1>2, <1>3, <1>4, <1>5, <1>7, <1>8 DEF ControlOK, KernelSame, Went

\* The filter's calls to log.
LEMMA FilterQuietSteps ==
  ASSUME KernelView, ControlOK, sensor' = sensor, logger' = logger
  PROVE  /\ Calls(Filter, "probe", SysLog(FALSE), "report") => ControlOK' /\ Went(Filter, "probe", "report")
         /\ Calls(Filter, "report", SysLog(TRUE), "receive") => ControlOK' /\ Went(Filter, "report", "receive")
<1>1. logger' \in [target : Int, count : Nat]
  BY DEF ControlOK, LocalsOK
<1>2. Filter \in {Filter, Logger} /\ Filter # Logger
  BY DemoFacts
<1>3. ASSUME Calls(Filter, "probe", SysLog(FALSE), "report")
      PROVE  ControlOK' /\ Went(Filter, "probe", "report")
  <2>1. \E b \in BOOLEAN : Calls(Filter, "probe", SysLog(b), "report")
    BY <1>3, Zenon
  <2> QED
    BY <1>1, <1>2, <2>1, OtherQuietControl
<1>4. ASSUME Calls(Filter, "report", SysLog(TRUE), "receive")
      PROVE  ControlOK' /\ Went(Filter, "report", "receive")
  <2>1. \E b \in BOOLEAN : Calls(Filter, "report", SysLog(b), "receive")
    BY <1>4, Zenon
  <2> QED
    BY <1>1, <1>2, <2>1, OtherQuietControl
<1> QED
  BY <1>3, <1>4

\* The logger's calls that do not block.
LEMMA LoggerQuiet ==
  ASSUME KernelView, ControlOK, NEW place, NEW go \in HoldsReading \cup FlushPlace \cup {"log", "receive"},
         \/ Calls(Logger, place, SysNow, go)
         \/ Calls(Logger, place, SysLog(TRUE), go),
         sensor' = sensor, logger' \in [target : Int, count : Nat]
  PROVE  ControlOK' /\ Went(Logger, place, go)
<1>1. \/ Calls(Logger, place, SysNow, go)
      \/ \E b \in BOOLEAN : Calls(Logger, place, SysLog(b), go)
  BY Zenon
<1>2. Logger \in {Filter, Logger} /\ Logger # Filter
  BY DemoFacts
<1> QED
  BY <1>1, <1>2, OtherQuietControl

-----------------------------------------------------------------------------
(* The shape of the bodies is kept *)

\* The locals of the bodies after a call of body t.
LEMMA LocalsKept ==
  ASSUME ControlOK, NEW t \in Body, NEW go, prog' = [prog EXCEPT ![t] = go],
         calls' = Min({calls + 1, MinCalls}), logger' = logger,
         sensor' \in [release : Int, latency : Int, misses : Int, dropped : Int, nap : Int]
  PROVE  LocalsOK' /\ prog'[t] = go /\ \A u \in Body : u # t => prog'[u] = prog[u]
<1>1. /\ prog'[t] = go /\ \A u \in Body : u # t => prog'[u] = prog[u]
      /\ prog' = [u \in Body |-> prog'[u]]
  BY Moves DEF ControlOK
<1>2. calls' \in 0 .. MinCalls
  BY CallCounted DEF ControlOK, LocalsOK
<1> QED
  BY <1>1, <1>2 DEF LocalsOK, ControlOK

\* The blocking calls keep the shape of the bodies.
LEMMA PublishControl ==
  ASSUME KernelView, ControlOK, Published
  PROVE  ControlOK'
<1>1. sensor' \in [release : Int, latency : Int, misses : Int, dropped : Int, nap : Int] /\ sensor'.nap = sensor.nap
  <2>1. sensor \in [release : Int, latency : Int, misses : Int, dropped : Int, nap : Int]
    BY DEF ControlOK, LocalsOK
  <2>2. sensor' = [sensor EXCEPT !.dropped = @ + 1] \/ sensor' = [sensor EXCEPT !.dropped = @]
    BY DEF Published
  <2> QED
    BY <2>1, <2>2
<1>2. LocalsOK' /\ prog'[Sensor] = "check" /\ prog'[Filter] = prog[Filter] /\ prog'[Logger] = prog[Logger]
  BY <1>1, LocalsKept, BodyFacts, Zenon DEF Published
<1>3. SensorShape'
  <2>1. Awake(Sensor) /\ call[Sensor] = NoCall
    BY  DEF Published, KernelView, ControlOK, SensorShape
  <2> QED
    BY <1>2, <2>1 DEF Published, SensorShape, SensorPlace, Awake
<1>4. FilterShape'
  <2>1. chan'[1] = chan[1] /\ call'[Filter] = call[Filter]
    BY DEF Published
  <2>2. CASE chan' = chan /\ sched'.blockedOn[Filter] = sched.blockedOn[Filter]
    BY <1>2, <2>2, ShapeKept DEF Published, ControlOK
  <2>3. CASE sched'.blockedOn[Filter] =
               IF sched.blockedOn[Filter] = ReceiveOn(0) THEN NotBlocked ELSE sched.blockedOn[Filter]
    <3>1. /\ sched'.blockedOn[Filter] \in {NotBlocked, sched.blockedOn[Filter]}
          /\ sched'.blockedOn[Filter] # ReceiveOn(0)
      BY <2>3, WaitFacts
    <3> QED
      BY <1>2, <2>1, <3>1, Zenon DEF ControlOK, FilterShape, Awake
  <2> QED
    BY <2>2, <2>3, Zenon DEF Published
<1>5. LoggerShape'
  <2>1. chan'[1] = chan[1] /\ call'[Logger] = call[Logger] /\ sched'.blockedOn[Logger] = sched.blockedOn[Logger]
    BY DEF Published
  <2> QED
    BY <1>2, <2>1, Zenon DEF ControlOK, LoggerShape, Awake
<1> QED
  BY <1>2, <1>3, <1>4, <1>5 DEF Published, ControlOK

\* The same for the sensor's sleep.
LEMMA SleepControl ==
  ASSUME ControlOK, Slept
  PROVE  ControlOK'
<1>1. sensor' \in [release : Int, latency : Int, misses : Int, dropped : Int, nap : Int]
  BY DEF Slept, ControlOK, LocalsOK
<1>2. LocalsOK' /\ prog'[Sensor] = "start" /\ prog'[Filter] = prog[Filter] /\ prog'[Logger] = prog[Logger]
  BY <1>1, LocalsKept, BodyFacts, Zenon DEF Slept
<1>3. SensorShape'
  BY <1>2 DEF Slept, ControlOK, SensorShape, SensorPlace
<1>4. FilterShape' /\ LoggerShape'
  BY <1>2, ShapeKept DEF Slept, ControlOK
<1> QED
  BY <1>2, <1>3, <1>4 DEF Slept, ControlOK

\* The same for the filter's receive.
LEMMA FilterReceiveControl ==
  ASSUME KernelView, ControlOK, FilterReceived
  PROVE  /\ ControlOK' /\ prog'[Sensor] = prog[Sensor] /\ prog'[Logger] = prog[Logger]
         /\ prog'[Filter] = IF Len(chan[0]) = 0 THEN "receive" ELSE "send"
<1> DEFINE go == IF Len(chan[0]) = 0 THEN "receive" ELSE "send"
<1>1. /\ sensor' \in [release : Int, latency : Int, misses : Int, dropped : Int, nap : Int]
      /\ Len(chan[0]) \in Nat
  BY DemoFacts DEF KernelView, ControlOK, LocalsOK, FilterReceived, LoggerReceived
<1>2. prog' = [prog EXCEPT ![Filter] = go]
  BY <1>1 DEF FilterReceived
<1>3. LocalsOK' /\ prog'[Filter] = go /\ prog'[Sensor] = prog[Sensor] /\ prog'[Logger] = prog[Logger]
  BY <1>1, <1>2, LocalsKept, BodyFacts, Zenon DEF FilterReceived
<1>4. SensorShape' /\ LoggerShape'
  BY <1>3, Zenon DEF FilterReceived, ControlOK, SensorShape, LoggerShape, Awake
<1>5. FilterShape'
  BY <1>1, <1>3 DEF FilterReceived, FilterShape, Awake
<1> QED
  BY <1>3, <1>4, <1>5 DEF FilterReceived, ControlOK

\* The same for the filter's send.
LEMMA FilterSendControl ==
  ASSUME KernelView, ControlOK, FilterSent
  PROVE  /\ ControlOK' /\ prog'[Sensor] = prog[Sensor] /\ prog'[Logger] = prog[Logger]
         /\ prog'[Filter] = IF Len(chan[1]) = Capacity THEN "send" ELSE "receive"
<1> DEFINE go == IF Len(chan[1]) = Capacity THEN "send" ELSE "receive"
<1>1. sensor' \in [release : Int, latency : Int, misses : Int, dropped : Int, nap : Int]
  BY DEF ControlOK, LocalsOK, FilterSent
<1>2. prog' = [prog EXCEPT ![Filter] = go] /\ calls' = Min({calls + 1, MinCalls}) /\ logger' = logger
  BY DEF FilterSent
<1>3. LocalsOK' /\ prog'[Filter] = go /\ prog'[Sensor] = prog[Sensor] /\ prog'[Logger] = prog[Logger]
  BY <1>1, <1>2, LocalsKept, BodyFacts, Zenon
<1>4. SensorShape'
  BY <1>3, Zenon DEF FilterSent, ControlOK, SensorShape, Awake
<1>5. FilterShape'
  BY <1>3 DEF FilterSent, FilterShape, Awake
<1>6. LoggerShape'
  <2>1. CASE Len(chan[1]) = Capacity
    BY <1>3, <2>1, Zenon DEF FilterSent, ControlOK, LoggerShape, Awake
  <2>2. CASE Len(chan[1]) # Capacity
    BY <1>3, <2>2, Zenon DEF FilterSent, ControlOK, LoggerShape, Awake
  <2> QED
    BY <2>1, <2>2
<1> QED
  BY <1>3, <1>4, <1>5, <1>6 DEF FilterSent, ControlOK

\* The same for the logger's receive.
LEMMA LoggerReceiveControl ==
  ASSUME KernelView, ControlOK, LoggerReceived
  PROVE  /\ ControlOK' /\ prog'[Sensor] = prog[Sensor] /\ prog'[Filter] = prog[Filter]
         /\ prog'[Logger] = IF Len(chan[1]) = 0 THEN "receive" ELSE "work"
<1> DEFINE go == IF Len(chan[1]) = 0 THEN "receive" ELSE "work"
<1>1. /\ sensor' \in [release : Int, latency : Int, misses : Int, dropped : Int, nap : Int]
      /\ Len(chan[1]) \in Nat
  <2>1. sensor' = sensor
    BY Zenon DEF LoggerReceived
  <2>2. sensor \in [release : Int, latency : Int, misses : Int, dropped : Int, nap : Int]
    BY Zenon DEF ControlOK, LocalsOK
  <2>3. Len(chan[1]) \in Nat
    BY DemoFacts DEF KernelView
  <2> QED
    BY <2>1, <2>2, <2>3, Zenon
<1>2. prog' = [prog EXCEPT ![Logger] = go]
  BY <1>1 DEF LoggerReceived
<1>3. LocalsOK' /\ prog'[Logger] = go /\ prog'[Sensor] = prog[Sensor] /\ prog'[Filter] = prog[Filter]
  BY <1>1, <1>2, LocalsKept, BodyFacts, Zenon DEF LoggerReceived
<1>4. SensorShape'
  BY <1>3, Zenon DEF LoggerReceived, ControlOK, SensorShape, Awake
<1>5. LoggerShape'
  BY <1>1, <1>3 DEF LoggerReceived, LoggerShape, HoldsReading, Awake
<1>6. FilterShape'
  <2>1. CASE Len(chan[1]) = 0
    BY <2>1, <1>3, Zenon DEF LoggerReceived, ControlOK, FilterShape, Awake
  <2>2. CASE Len(chan[1]) # 0
    <3>1. /\ sched'.blockedOn[Filter] =
               IF sched.blockedOn[Filter] = SendOn(1) THEN NotBlocked ELSE sched.blockedOn[Filter]
          /\ call'[Filter] = call[Filter] /\ chan'[0] = chan[0]
      BY <2>2, Zenon DEF LoggerReceived
    <3> QED
      BY <1>3, <3>1, WaitFacts DEF ControlOK, FilterShape, Awake
  <2> QED
    BY <2>1, <2>2
<1> QED
  BY <1>3, <1>4, <1>5, <1>6 DEF LoggerReceived, ControlOK

\* The same for a tick.
LEMMA TickControl ==
  ASSUME ControlOK, Ticked
  PROVE  ControlOK'
<1>1. LocalsOK' /\ ticks' <= Horizon
  BY DemoFacts DEF Ticked, ControlOK, LocalsOK
<1>2. FilterShape' /\ LoggerShape'
  BY ShapeKept DEF Ticked, ControlOK
<1>3. SensorShape'
  <2>1. CASE Awake(Sensor)
    BY <2>1, Zenon DEF Ticked, ControlOK, SensorShape
  <2>2. CASE ~Awake(Sensor)
    <3>1. Awake(Sensor)' \/ sched'.blockedOn[Sensor] = Asleep
      BY <2>2 DEF Ticked
    <3> QED
      BY <2>2, <3>1, Zenon DEF Ticked, ControlOK, SensorShape
  <2> QED
    BY <2>1, <2>2
<1> QED
  BY <1>1, <1>2, <1>3 DEF Ticked, ControlOK

\* The logger goes on without touching its locals.
LoggerWent(place, go) == Went(Logger, place, go) /\ logger' = logger

\* The logger's burn, from its three places.
LoggerBurns(begin, loop, end, work, go) ==
  \/ Went(Logger, begin, loop) /\ logger' = [logger EXCEPT !.target = (ticks + work) % TickMod]
  \/ ticks < logger.target /\ LoggerWent(loop, loop)
  \/ ticks >= logger.target /\ LoggerWent(loop, end)
  \/ LoggerWent(end, go)

\* The steps of burn keep the shape of the bodies.
LEMMA BurnControl ==
  ASSUME KernelView, ControlOK, NEW begin, NEW loop, NEW end, NEW work \in Nat, NEW go,
         {loop, end, go} \subseteq HoldsReading \cup FlushPlace,
         Burn(begin, loop, end, work, go)
  PROVE  ControlOK' /\ sensor' = sensor /\ LoggerBurns(begin, loop, end, work, go)
<1>1. logger \in [target : Int, count : Nat]
  BY DEF ControlOK, LocalsOK
<1>2. /\ loop \in HoldsReading \cup FlushPlace \cup {"log", "receive"}
      /\ end \in HoldsReading \cup FlushPlace \cup {"log", "receive"}
      /\ go \in HoldsReading \cup FlushPlace \cup {"log", "receive"}
  OBVIOUS
<1>3. CASE /\ Calls(Logger, begin, SysNow, loop)
           /\ logger' = [logger EXCEPT !.target = (ticks + work) % TickMod]
           /\ UNCHANGED sensor
  <2>1. (ticks + work) % TickMod \in Int
    <3>1. ticks + work \in Int
      BY DEF KernelView
    <3> QED
      BY <3>1, Wrapped
  <2>2. logger' \in [target : Int, count : Nat]
    BY <1>1, <1>3, <2>1
  <2> QED
    BY <1>2, <1>3, <2>2, LoggerQuiet, Zenon DEF LoggerBurns
<1>4. ASSUME NEW a, NEW b \in {loop, end, go}, LoggerCalls(a, SysNow, b)
      PROVE  ControlOK' /\ sensor' = sensor /\ LoggerWent(a, b)
  <2>1. Calls(Logger, a, SysNow, b) /\ sensor' = sensor /\ logger' = logger
    BY <1>4 DEF LoggerCalls
  <2> QED
    BY <1>1, <1>2, <2>1, LoggerQuiet, Zenon DEF LoggerWent
<1>5. CASE ticks < logger.target /\ LoggerCalls(loop, SysNow, loop)
  BY <1>4, <1>5, Zenon DEF LoggerBurns
<1>6. CASE ticks >= logger.target /\ LoggerCalls(loop, SysNow, end)
  BY <1>4, <1>6, Zenon DEF LoggerBurns
<1>7. CASE LoggerCalls(end, SysNow, go)
  BY <1>4, <1>7, Zenon DEF LoggerBurns
<1> QED
  BY <1>3, <1>5, <1>6, <1>7 DEF Burn

\* Every step of the logger.
LoggerMoves ==
  \/ LoggerBurns("work", "working", "worked", LoggerWork, "line")
  \/ Went(Logger, "line", "log") /\ logger' = [logger EXCEPT !.count = @ + 1]
  \/ LoggerWent("log", AfterLine(logger.count))
  \/ LoggerBurns("flush", "flushing", "flushed", FlushWork, "log_flush")
  \/ LoggerWent("log_flush", AfterFlush(logger.count))
  \/ LoggerWent("summary", "receive")

\* The steps of the logger keep the shape of the bodies.
LEMMA LoggerSteps ==
  ASSUME KernelView, ControlOK, LoggerStep, LoggerCalls("receive", Receive(1), "work") => LoggerReceived
  PROVE  /\ ControlOK' /\ sensor' = sensor
         /\ LoggerMoves \/ LoggerReceived
<1>1. logger \in [target : Int, count : Nat] /\ LoggerWork \in Nat /\ FlushWork \in Nat
  BY DemoFacts DEF ControlOK, LocalsOK
<1>2. /\ AfterLine(logger.count) \in FlushPlace \cup {"receive"}
      /\ AfterFlush(logger.count) \in FlushPlace \cup {"receive"}
  BY DEF AfterLine, AfterFlush, FlushPlace
<1>3. CASE LoggerCalls("receive", Receive(1), "work")
  BY <1>3, LoggerReceiveControl, Zenon DEF LoggerReceived
<1>4. CASE Burn("work", "working", "worked", LoggerWork, "line")
  <2>1. {"working", "worked", "line"} \subseteq HoldsReading \cup FlushPlace
    BY DEF HoldsReading
  <2> QED
    BY <1>1, <1>4, <2>1, BurnControl, Zenon DEF LoggerMoves
<1>5. CASE /\ Calls(Logger, "line", SysNow, "log")
           /\ logger' = [logger EXCEPT !.count = @ + 1]
           /\ UNCHANGED sensor
  <2>1. logger' \in [target : Int, count : Nat]
    BY <1>1, <1>5
  <2> QED
    BY <1>5, <2>1, LoggerQuiet DEF LoggerMoves
<1>6. ASSUME NEW a, NEW b \in FlushPlace \cup {"receive"}, LoggerCalls(a, SysLog(TRUE), b)
      PROVE  ControlOK' /\ sensor' = sensor /\ LoggerWent(a, b)
  <2>1. Calls(Logger, a, SysLog(TRUE), b) /\ sensor' = sensor /\ logger' = logger
    BY <1>6 DEF LoggerCalls
  <2>2. b \in HoldsReading \cup FlushPlace \cup {"log", "receive"}
    OBVIOUS
  <2> QED
    BY <1>1, <2>1, <2>2, LoggerQuiet, Zenon DEF LoggerWent
<1>7. CASE LoggerCalls("log", SysLog(TRUE), AfterLine(logger.count))
  BY <1>2, <1>6, <1>7, Zenon DEF LoggerMoves
<1>8. CASE Burn("flush", "flushing", "flushed", FlushWork, "log_flush")
  <2>1. {"flushing", "flushed", "log_flush"} \subseteq HoldsReading \cup FlushPlace
    BY DEF FlushPlace
  <2> QED
    BY <1>1, <1>8, <2>1, BurnControl, Zenon DEF LoggerMoves
<1>9. CASE LoggerCalls("log_flush", SysLog(TRUE), AfterFlush(logger.count))
  BY <1>2, <1>6, <1>9, Zenon DEF LoggerMoves
<1>10. CASE LoggerCalls("summary", SysLog(TRUE), "receive")
  <2>1. "receive" \in FlushPlace \cup {"receive"}
    OBVIOUS
  <2> QED
    BY <1>6, <1>10, <2>1, Zenon DEF LoggerMoves
<1> QED
  BY <1>3, <1>4, <1>5, <1>7, <1>8, <1>9, <1>10, Zenon DEF LoggerStep

\* Every step of the demo keeps the shape of the bodies.
LEMMA ControlStep ==
  ASSUME KernelView, ControlOK, Effects, [DemoNext]_demoVars
  PROVE  ControlOK'
<1>1. CASE UNCHANGED demoVars
  BY <1>1, Zenon DEF demoVars, vars, ControlOK, LocalsOK, SensorShape, FilterShape, LoggerShape, Awake
<1>2. CASE DemoTimer
  BY <1>2, TickControl DEF Effects
<1>3. CASE SensorStep
  BY <1>3, SensorNowSteps, PublishControl, SleepControl, Zenon DEF SensorStep, Effects
<1>4. CASE FilterStep
  BY <1>4, FilterQuietSteps, FilterReceiveControl, FilterSendControl, Zenon DEF FilterStep, Effects
<1>5. CASE LoggerStep
  BY <1>5, LoggerSteps DEF Effects
<1>6. CASE AtHorizon
  BY <1>1, <1>6 DEF AtHorizon
<1> QED
  BY <1>1, <1>2, <1>3, <1>4, <1>5, <1>6, Zenon DEF DemoNext, TaskStep

-----------------------------------------------------------------------------
(* The demo implements the timetable of module Backlog *)

\* What the sensor needs: room for its four calls in a tick, and a period and
\* a deadline that one tick of delay does not use up.
SensorFits == MinCalls >= 4 /\ Period >= 2 /\ Deadline >= 2

\* Types and ranges of what the bodies compute with.
LEMMA LocalTypes ==
  ASSUME View
  PROVE  /\ ticks \in Int /\ ticks >= 0 /\ ticks <= Horizon /\ sensor.release \in Int
         /\ sensor \in [release : Int, latency : Int, misses : Int, dropped : Int, nap : Int]
         /\ logger \in [target : Int, count : Nat]
BY DEF View, KernelView, ControlOK, LocalsOK

\* The running body is the one whose call is next.
LEMMA WhoCalls ==
  ASSUME View
  PROVE  /\ Running = Sensor => SensorWait = "no"
         /\ Running = Filter => SensorWait # "no" /\ FilterWait = "no"
         /\ Running = Logger => SensorWait # "no" /\ FilterWait # "no" /\ LoggerWait = "no"
         /\ Running = Idle => SensorWait # "no" /\ FilterWait # "no" /\ LoggerWait # "no"
<1>1. /\ Awake(Running)
      /\ Awake(Sensor) => Running = Sensor
      /\ Awake(Filter) => Running \in {Sensor, Filter}
      /\ Awake(Logger) => Running # Idle
  BY DEF View, KernelView
<1> QED
  BY <1>1, DemoFacts DEF SensorWait, FilterWait, LoggerWait

\* Every call counts.
LEMMA CallSeen ==
  ASSUME View, ticks' = ticks, calls' = Min({calls + 1, MinCalls})
  PROVE  Timetable!Call
BY CallCounted DEF View, ControlOK, LocalsOK, Timetable!Call

\* What a call that only sets a0 shows.
LEMMA WentSeen ==
  ASSUME View, NEW t \in Body, NEW place, NEW go, Went(t, place, go)
  PROVE  /\ Timetable!Call /\ Running = t /\ prog[t] = place /\ prog'[t] = go
         /\ UNCHANGED <<SensorWait, SensorLeft, FilterWait, LoggerWait, Len(chan[0]), Len(chan[1]), call>>
         /\ t # Sensor => prog'[Sensor] = prog[Sensor]
         /\ t # Filter => prog'[Filter] = prog[Filter] /\ FilterAt' = FilterAt
         /\ t # Logger => prog'[Logger] = prog[Logger]
<1>1. /\ Running = t /\ prog[t] = place /\ prog'[t] = go /\ \A u \in Body : u # t => prog'[u] = prog[u]
      /\ calls' = Min({calls + 1, MinCalls}) /\ UNCHANGED <<sched, ticks, chan, call, left>>
  BY Zenon DEF Went, KernelSame
<1>2. UNCHANGED <<SensorWait, SensorLeft, FilterWait, LoggerWait, Len(chan[0]), Len(chan[1]), call>>
  BY <1>1, Zenon DEF SensorWait, SensorLeft, FilterWait, LoggerWait, Awake
<1>3. Timetable!Call
  BY <1>1, CallSeen
<1>4. t # Filter => FilterAt' = FilterAt
  BY <1>1, BodyFacts, Zenon DEF FilterAt
<1> QED
  BY <1>1, <1>2, <1>3, <1>4, BodyFacts, Zenon

\* A call of the sensor that only sets a0, up to its locals.
LEMMA SensorCallSeen ==
  ASSUME View, NEW place, NEW go, Went(Sensor, place, go), logger' = logger
  PROVE  Timetable!SensorCall(place, go) /\ UNCHANGED <<FilterAt, FilterWait, Len(chan[0])>>
<1>1. /\ Timetable!Call /\ Running = Sensor /\ prog[Sensor] = place /\ prog'[Sensor] = go
      /\ UNCHANGED <<SensorWait, SensorLeft, FilterWait, LoggerWait, Len(chan[0]), Len(chan[1]), FilterAt>>
      /\ prog'[Logger] = prog[Logger]
  BY WentSeen, BodyFacts, Zenon
<1> QED
  BY <1>1, WhoCalls, Zenon DEF Timetable!SensorCall, Timetable!SensorRuns, Timetable!loggerVars

-----------------------------------------------------------------------------
(* The sensor's calls *)

\* The first release.
LEMMA BeginSeen ==
  ASSUME View, SensorBegin
  PROVE  Timetable!SensorBegin
<1>1. Went(Sensor, "begin", "start") /\ logger' = logger /\ sensor' = [sensor EXCEPT !.release = ticks]
  BY SensorNowSteps DEF View, SensorBegin
<1>2. Timetable!SensorCall("begin", "start") /\ UNCHANGED <<FilterAt, FilterWait, Len(chan[0])>>
  BY <1>1, SensorCallSeen
<1>3. /\ sensor'.release = ticks /\ sensor'.latency = sensor.latency /\ sensor'.misses = sensor.misses
      /\ sensor'.dropped = sensor.dropped /\ sensor'.nap = sensor.nap
  BY <1>1, LocalTypes
<1> QED
  BY <1>2, <1>3, Zenon DEF Timetable!SensorBegin, Timetable!filterVars

\* How late the sensor is, without wrapping: at most one tick until it checks.
LEMMA LateOrNot ==
  ASSUME View, Timetable!SensorInv, prog[Sensor] \in {"start", "check"}, Running = Sensor
  PROVE  ticks - sensor.release \in {0, 1} /\ (ticks - sensor.release) % TickMod = ticks - sensor.release
<1>1. SensorWait = "no"
  BY WhoCalls
<1>2. ticks - sensor.release = 0 \/ ticks - sensor.release = 1
  BY <1>1, Zenon DEF Timetable!SensorInv, Timetable!SensorClock
<1>3. TickMod \in Nat /\ TickMod > 1
  BY DemoFacts
<1> QED
  BY <1>2, <1>3, RemainderFacts

\* The sensor measures its release latency.
LEMMA StartSeen ==
  ASSUME View, Timetable!SensorInv, SensorStart
  PROVE  Timetable!SensorStart
<1>1. /\ Went(Sensor, "start", "publish") /\ logger' = logger
      /\ sensor' = [sensor EXCEPT !.latency = Min({(ticks - sensor.release) % TickMod, 255})]
  BY SensorNowSteps DEF View, SensorStart
<1>2. Timetable!SensorCall("start", "publish") /\ UNCHANGED <<FilterAt, FilterWait, Len(chan[0])>>
  BY <1>1, SensorCallSeen
<1>3. Running = Sensor /\ prog[Sensor] = "start"
  BY <1>1 DEF Went
<1>4. Min({(ticks - sensor.release) % TickMod, 255}) = ticks - sensor.release
  BY <1>3, LateOrNot, MinOfTwo
<1>5. /\ sensor'.release = sensor.release /\ sensor'.latency = ticks - sensor.release
      /\ sensor'.misses = sensor.misses /\ sensor'.dropped = sensor.dropped /\ sensor'.nap = sensor.nap
  BY <1>1, <1>4, LocalTypes
<1> QED
  BY <1>2, <1>5, Zenon DEF Timetable!SensorStart, Timetable!filterVars

\* The sensor checks its deadline and advances its release time.
LEMMA CheckSeen ==
  ASSUME View, Timetable!SensorInv, SensorCheck
  PROVE  Timetable!SensorCheck
<1>1. /\ Went(Sensor, "check", "plan") /\ logger' = logger
      /\ sensor' = [sensor EXCEPT
           !.misses = IF (ticks - sensor.release) % TickMod >= Deadline THEN @ + 1 ELSE @,
           !.release = (@ + Period) % TickMod]
  BY SensorNowSteps DEF View, SensorCheck
<1>2. Timetable!SensorCall("check", "plan") /\ UNCHANGED <<FilterAt, FilterWait, Len(chan[0])>>
  BY <1>1, SensorCallSeen
<1>3. (ticks - sensor.release) % TickMod = ticks - sensor.release /\ ticks - sensor.release \in {0, 1}
  BY <1>1, LateOrNot DEF Went
<1>4. (sensor.release + Period) % TickMod = sensor.release + Period
  <2>1. sensor.release >= 0
    BY DEF Timetable!SensorInv
  <2>2. /\ sensor.release + Period \in Int /\ sensor.release + Period >= 0
        /\ sensor.release + Period <= Horizon + FlushWork + Period
    BY <1>3, <2>1, LocalTypes, DemoFacts
  <2> QED
    BY <2>2, NoWrap
<1>5. /\ sensor'.release = sensor.release + Period /\ sensor'.latency = sensor.latency
      /\ sensor'.misses = IF ticks - sensor.release >= Deadline THEN sensor.misses + 1 ELSE sensor.misses
      /\ sensor'.dropped = sensor.dropped /\ sensor'.nap = sensor.nap
  BY <1>1, <1>3, <1>4, LocalTypes
<1> QED
  BY <1>2, <1>5, Zenon DEF Timetable!SensorCheck, Timetable!filterVars

\* The sensor plans its sleep.
LEMMA PlanSeen ==
  ASSUME SensorFits, View, Timetable!SensorInv, SensorPlan
  PROVE  Timetable!SensorPlan
<1> DEFINE ahead == (sensor.release - ticks) % TickMod
<1>1. /\ prog[Sensor] = "plan" /\ logger' = logger /\ sensor' = [sensor EXCEPT !.nap = ahead]
      /\ Went(Sensor, "plan", IF ahead \in 1 .. (HalfRange - 1) THEN "sleep" ELSE "start")
  BY SensorNowSteps DEF View, SensorPlan, Calls
<1>2. ticks - sensor.release + Period = 0 \/ ticks - sensor.release + Period = 1
  BY <1>1, Zenon DEF Timetable!SensorInv, Timetable!SensorClock
<1>3. sensor.release - ticks \in Int /\ sensor.release - ticks >= 1 /\ sensor.release - ticks <= Period
  BY <1>2, LocalTypes, DemoFacts DEF SensorFits
<1>4. ahead = sensor.release - ticks /\ ahead \in 1 .. (HalfRange - 1) /\ sensor.release > ticks
  <2>1. sensor.release - ticks <= Horizon + FlushWork + Period
    BY <1>3, DemoFacts
  <2>2. ahead = sensor.release - ticks /\ sensor.release - ticks < HalfRange
    BY <1>3, <2>1, NoWrap
  <2> QED
    BY <1>3, <2>2, LocalTypes, DemoFacts
<1> HIDE DEF ahead
<1>5. Timetable!SensorCall("plan", "sleep") /\ UNCHANGED <<FilterAt, FilterWait, Len(chan[0])>>
  BY <1>1, <1>4, SensorCallSeen
<1>6. /\ sensor'.release = sensor.release /\ sensor'.latency = sensor.latency /\ sensor'.misses = sensor.misses
      /\ sensor'.dropped = sensor.dropped /\ sensor'.nap = sensor.release - ticks
  BY <1>1, <1>4, LocalTypes
<1> QED
  BY <1>4, <1>5, <1>6, Zenon DEF Timetable!SensorPlan, Timetable!filterVars

\* The sensor publishes its reading.
LEMMA PublishSeen ==
  ASSUME View, Published
  PROVE  Timetable!SensorPublish
<1>1. /\ Running = Sensor /\ prog[Sensor] = "publish" /\ prog' = [prog EXCEPT ![Sensor] = "check"]
      /\ ticks' = ticks /\ left' = left /\ call' = call /\ logger' = logger /\ calls' = Min({calls + 1, MinCalls})
      /\ sched'.blockedOn[Sensor] = sched.blockedOn[Sensor] /\ sched'.blockedOn[Logger] = sched.blockedOn[Logger]
  BY DEF Published
<1>2. \/ /\ Len(chan[0]) = Capacity /\ chan' = chan /\ sched'.blockedOn[Filter] = sched.blockedOn[Filter]
         /\ sensor' = [sensor EXCEPT !.dropped = @ + 1]
      \/ /\ Len(chan[0]) # Capacity /\ Len(chan'[0]) = Len(chan[0]) + 1 /\ chan'[1] = chan[1]
         /\ sched'.blockedOn[Filter] =
              IF sched.blockedOn[Filter] = ReceiveOn(0) THEN NotBlocked ELSE sched.blockedOn[Filter]
         /\ sensor' = [sensor EXCEPT !.dropped = @]
  BY DEF Published
<1>3. prog'[Sensor] = "check" /\ prog'[Filter] = prog[Filter] /\ prog'[Logger] = prog[Logger]
  BY <1>1, Moves, BodyFacts, Zenon DEF View, ControlOK
<1>4. UNCHANGED <<SensorWait, SensorLeft, LoggerWait, FilterAt>>
  BY <1>1, <1>3, Zenon DEF SensorWait, SensorLeft, LoggerWait, FilterAt, Awake
<1>5. /\ sensor'.release = sensor.release /\ sensor'.latency = sensor.latency /\ sensor'.misses = sensor.misses
      /\ sensor'.nap = sensor.nap
  BY <1>2, LocalTypes
<1>6. Len(chan'[1]) = Len(chan[1])
  BY <1>2
<1>7. Timetable!SensorCall("publish", "check")
  <2>1. Timetable!Call /\ SensorWait = "no"
    BY <1>1, CallSeen, WhoCalls
  <2> QED
    BY <1>1, <1>3, <1>4, <1>6, <2>1, Zenon DEF Timetable!SensorCall, Timetable!SensorRuns, Timetable!loggerVars
<1>8. CASE Len(chan[0]) = Capacity
  <2>1. sensor'.dropped = sensor.dropped + 1 /\ Len(chan'[0]) = Len(chan[0]) /\ FilterWait' = FilterWait
    BY <1>2, <1>8, LocalTypes DEF FilterWait, Awake
  <2> QED
    BY <1>4, <1>5, <1>7, <1>8, <2>1, Zenon DEF Timetable!SensorPublish
<1>9. CASE Len(chan[0]) # Capacity
  <2>1. sensor'.dropped = sensor.dropped /\ Len(chan'[0]) = Len(chan[0]) + 1
    BY <1>2, <1>9, LocalTypes
  <2>2. FilterWait' = IF FilterWait = "receive" THEN "no" ELSE FilterWait
    BY <1>2, <1>9, WaitFacts DEF FilterWait, Awake
  <2> QED
    BY <1>4, <1>5, <1>7, <1>9, <2>1, <2>2, Zenon DEF Timetable!SensorPublish
<1> QED
  BY <1>8, <1>9

\* The sensor sleeps.
LEMMA SleepSeen ==
  ASSUME View, Slept
  PROVE  Timetable!SensorSleep
<1>1. /\ Running = Sensor /\ prog[Sensor] = "sleep" /\ prog' = [prog EXCEPT ![Sensor] = "start"]
      /\ UNCHANGED <<ticks, chan, call, sensor, logger>> /\ calls' = Min({calls + 1, MinCalls})
      /\ sched'.blockedOn[Sensor] = Asleep /\ left'[Sensor] = sensor.nap
      /\ sched'.blockedOn[Filter] = sched.blockedOn[Filter] /\ sched'.blockedOn[Logger] = sched.blockedOn[Logger]
  BY DEF Slept
<1>2. prog'[Sensor] = "start" /\ prog'[Filter] = prog[Filter] /\ prog'[Logger] = prog[Logger]
  BY <1>1, Moves, BodyFacts, Zenon DEF View, ControlOK
<1>3. SensorWait' = "sleep" /\ SensorLeft' = sensor.nap /\ UNCHANGED <<FilterAt, FilterWait, LoggerWait>>
  BY <1>1, <1>2, WaitFacts, Zenon DEF SensorWait, SensorLeft, FilterAt, FilterWait, LoggerWait, Awake
<1>4. Timetable!Call /\ SensorWait = "no"
  BY <1>1, CallSeen, WhoCalls
<1> QED
  BY <1>1, <1>2, <1>3, <1>4, Zenon
     DEF Timetable!SensorSleep, Timetable!SensorRuns, Timetable!filterVars, Timetable!loggerVars

-----------------------------------------------------------------------------
(* The filter's calls *)

\* The filter logs.
LEMMA FilterLogsSeen ==
  ASSUME View, sensor' = sensor, logger' = logger,
         \/ Calls(Filter, "probe", SysLog(FALSE), "report")
         \/ Calls(Filter, "report", SysLog(TRUE), "receive")
  PROVE  Timetable!FilterLogs
<1>1. ASSUME NEW place, NEW go, Went(Filter, place, go), place # "send", go # "send"
      PROVE  Timetable!FilterCall(place, go) /\ UNCHANGED <<FilterWait, LoggerWait, Len(chan[0]), Len(chan[1])>>
  <2>1. /\ Timetable!Call /\ Running = Filter /\ prog[Filter] = place /\ prog'[Filter] = go
        /\ UNCHANGED <<SensorWait, SensorLeft, FilterWait, LoggerWait, Len(chan[0]), Len(chan[1])>>
        /\ prog'[Sensor] = prog[Sensor] /\ prog'[Logger] = prog[Logger]
    BY <1>1, WentSeen, BodyFacts, Zenon
  <2>2. FilterAt = place /\ FilterAt' = go
    BY <1>1, <2>1, Zenon DEF FilterAt
  <2> QED
    BY <2>1, <2>2, WhoCalls, Zenon DEF Timetable!FilterCall, Timetable!FilterRuns, Timetable!sensorVars
<1>2. Went(Filter, "probe", "report") \/ Went(Filter, "report", "receive")
  BY FilterQuietSteps, Zenon DEF View
<1> QED
  BY <1>1, <1>2 DEF Timetable!FilterLogs

\* What every call of the filter on a channel shows.
LEMMA FilterCallSeen ==
  ASSUME View, sensor' = sensor, logger' = logger, NEW place, NEW go, prog' = [prog EXCEPT ![Filter] = go],
         Running = Filter, prog[Filter] = place,
         calls' = Min({calls + 1, MinCalls}), ticks' = ticks, left' = left,
         sched'.blockedOn[Sensor] = sched.blockedOn[Sensor]
  PROVE  Timetable!FilterCall(FilterAt, FilterAt') /\ FilterWait = "no" /\ prog'[Filter] = go
<1>1. prog'[Filter] = go /\ prog'[Sensor] = prog[Sensor] /\ prog'[Logger] = prog[Logger]
  BY Moves, BodyFacts, Zenon DEF View, ControlOK
<1>2. Timetable!Call /\ SensorWait # "no" /\ FilterWait = "no"
  BY CallSeen, WhoCalls
<1>3. UNCHANGED <<SensorWait, SensorLeft>>
  BY Zenon DEF SensorWait, SensorLeft, Awake
<1> QED
  BY <1>1, <1>2, <1>3, Zenon DEF Timetable!FilterCall, Timetable!FilterRuns, Timetable!sensorVars

\* The filter receives.
LEMMA FilterReceiveSeen ==
  ASSUME View, FilterReceived
  PROVE  Timetable!FilterReceive
<1>1. /\ Running = Filter /\ prog[Filter] = "receive" /\ calls' = Min({calls + 1, MinCalls})
      /\ sensor' = sensor /\ logger' = logger
      /\ ticks' = ticks /\ left' = left /\ chan'[1] = chan[1]
      /\ sched'.blockedOn[Sensor] = sched.blockedOn[Sensor] /\ sched'.blockedOn[Logger] = sched.blockedOn[Logger]
  BY DEF FilterReceived
<1>2. \/ /\ Len(chan[0]) = 0 /\ chan' = chan /\ prog' = [prog EXCEPT ![Filter] = "receive"]
         /\ sched'.blockedOn[Filter] = ReceiveOn(0)
      \/ /\ Len(chan[0]) > 0 /\ Len(chan'[0]) = Len(chan[0]) - 1 /\ prog' = [prog EXCEPT ![Filter] = "send"]
         /\ sched'.blockedOn[Filter] = NotBlocked /\ call'[Filter] = NoCall
  BY Zenon DEF FilterReceived
<1>3. FilterAt = "receive" /\ LoggerWait' = LoggerWait /\ Len(chan'[1]) = Len(chan[1])
  BY <1>1, Zenon DEF FilterAt, LoggerWait, Awake
<1>4. CASE Len(chan[0]) = 0 /\ chan' = chan /\ prog' = [prog EXCEPT ![Filter] = "receive"]
           /\ sched'.blockedOn[Filter] = ReceiveOn(0)
  <2>1. Timetable!FilterCall(FilterAt, FilterAt') /\ prog'[Filter] = "receive"
    BY <1>1, <1>4, FilterCallSeen, Zenon
  <2>2. FilterAt' = "receive" /\ FilterWait' = "receive"
    BY <1>4, <2>1, WaitFacts, Zenon DEF FilterAt, FilterWait, Awake
  <2> QED
    BY <1>3, <1>4, <2>1, <2>2, Zenon DEF Timetable!FilterReceive
<1>5. CASE Len(chan[0]) > 0 /\ Len(chan'[0]) = Len(chan[0]) - 1 /\ prog' = [prog EXCEPT ![Filter] = "send"]
           /\ sched'.blockedOn[Filter] = NotBlocked /\ call'[Filter] = NoCall
  <2>1. Timetable!FilterCall(FilterAt, FilterAt') /\ FilterWait = "no" /\ prog'[Filter] = "send"
    BY <1>1, <1>5, FilterCallSeen, Zenon
  <2>2. FilterAt' = "send" /\ FilterWait' = "no"
    BY <1>5, <2>1, Zenon DEF FilterAt, FilterWait, Awake
  <2> QED
    BY <1>3, <1>5, <2>1, <2>2, Zenon DEF Timetable!FilterReceive
<1> QED
  BY <1>2, <1>4, <1>5, Zenon

\* The filter sends.
LEMMA FilterSendSeen ==
  ASSUME View, FilterSent
  PROVE  Timetable!FilterSend
<1>1. /\ Running = Filter /\ prog[Filter] = "send" /\ calls' = Min({calls + 1, MinCalls})
      /\ sensor' = sensor /\ logger' = logger
      /\ ticks' = ticks /\ left' = left /\ chan'[0] = chan[0]
      /\ sched'.blockedOn[Sensor] = sched.blockedOn[Sensor]
  BY DEF FilterSent
<1>2. \/ /\ Len(chan[1]) = Capacity /\ chan' = chan /\ prog' = [prog EXCEPT ![Filter] = "send"]
         /\ sched'.blockedOn[Filter] = SendOn(1) /\ call'[Filter] = SendOf(1)
         /\ sched'.blockedOn[Logger] = sched.blockedOn[Logger]
      \/ /\ Len(chan[1]) # Capacity /\ Len(chan'[1]) = Len(chan[1]) + 1
         /\ prog' = [prog EXCEPT ![Filter] = "receive"] /\ sched'.blockedOn[Filter] = NotBlocked
         /\ sched'.blockedOn[Logger] \in {NotBlocked, sched.blockedOn[Logger]}
         /\ sched'.blockedOn[Logger] # ReceiveOn(1)
  BY Zenon DEF FilterSent
<1>3. FilterAt \in {"send", "resend"} /\ Len(chan'[0]) = Len(chan[0])
  BY <1>1, Zenon DEF FilterAt
<1>4. CASE Len(chan[1]) = Capacity /\ chan' = chan /\ prog' = [prog EXCEPT ![Filter] = "send"]
           /\ sched'.blockedOn[Filter] = SendOn(1) /\ call'[Filter] = SendOf(1)
           /\ sched'.blockedOn[Logger] = sched.blockedOn[Logger]
  <2>1. Timetable!FilterCall(FilterAt, FilterAt') /\ prog'[Filter] = "send"
    BY <1>1, <1>4, FilterCallSeen, Zenon
  <2>2. SendOf(1) # NoCall
    BY DEF SendOf, CallTo, NoCall
  <2>3. FilterAt' = "resend" /\ FilterWait' = "send" /\ LoggerWait' = LoggerWait
    BY <1>4, <2>1, <2>2, WaitFacts DEF FilterAt, FilterWait, LoggerWait, Awake
  <2> QED
    BY <1>3, <1>4, <2>1, <2>3, Zenon DEF Timetable!FilterSend
<1>5. CASE Len(chan[1]) # Capacity /\ Len(chan'[1]) = Len(chan[1]) + 1
           /\ prog' = [prog EXCEPT ![Filter] = "receive"] /\ sched'.blockedOn[Filter] = NotBlocked
           /\ sched'.blockedOn[Logger] \in {NotBlocked, sched.blockedOn[Logger]}
           /\ sched'.blockedOn[Logger] # ReceiveOn(1)
  <2>1. Timetable!FilterCall(FilterAt, FilterAt') /\ FilterWait = "no" /\ prog'[Filter] = "receive"
    BY <1>1, <1>5, FilterCallSeen, Zenon
  <2>2. FilterAt' = "receive" /\ FilterWait' = "no"
    BY <1>5, <2>1, Zenon DEF FilterAt, FilterWait, Awake
  <2>3. LoggerWait' = "no"
    <3>1. sched.blockedOn[Logger] \in {NotBlocked, ReceiveOn(1)}
      BY Zenon DEF View, ControlOK, LoggerShape, Awake
    <3> QED
      BY <1>5, <3>1, Zenon DEF LoggerWait, Awake
  <2> QED
    BY <1>3, <1>5, <2>1, <2>2, <2>3, Zenon DEF Timetable!FilterSend
<1> QED
  BY <1>2, <1>4, <1>5, Zenon

-----------------------------------------------------------------------------
(* The logger's calls *)

\* A call of the logger that only sets a0.
LEMMA LoggerMoveSeen ==
  ASSUME View, sensor' = sensor, NEW place, NEW go, Went(Logger, place, go)
  PROVE  Timetable!LoggerMove(place, go) /\ UNCHANGED <<FilterWait, LoggerWait, Len(chan[1])>>
<1>1. /\ Timetable!Call /\ Running = Logger /\ prog[Logger] = place /\ prog'[Logger] = go
      /\ UNCHANGED <<SensorWait, SensorLeft, FilterWait, LoggerWait, Len(chan[0]), Len(chan[1]), FilterAt>>
      /\ prog'[Sensor] = prog[Sensor]
  BY WentSeen, BodyFacts, Zenon
<1> QED
  BY <1>1, WhoCalls, Zenon DEF Timetable!LoggerMove, Timetable!LoggerRuns, Timetable!sensorVars

\* burn: its target is within reach of the tick counter.
LEMMA BurnSeen ==
  ASSUME View, sensor' = sensor, NEW begin, NEW loop, NEW end, NEW work \in Nat, NEW go,
         work <= FlushWork + Period, LoggerBurns(begin, loop, end, work, go)
  PROVE  Timetable!Burn(begin, loop, end, work, go) /\ UNCHANGED <<FilterWait, LoggerWait, Len(chan[1])>>
<1>1. CASE Went(Logger, begin, loop) /\ logger' = [logger EXCEPT !.target = (ticks + work) % TickMod]
  <2>1. ticks + work \in Int /\ ticks + work >= 0 /\ ticks + work <= Horizon + FlushWork + Period
    BY LocalTypes, DemoFacts
  <2>2. logger'.target = ticks + work /\ logger'.count = logger.count
    BY <1>1, <2>1, NoWrap, LocalTypes
  <2> QED
    BY <1>1, <2>2, LoggerMoveSeen, Zenon DEF Timetable!Burn
<1>2. CASE ticks < logger.target /\ LoggerWent(loop, loop)
  BY <1>2, LoggerMoveSeen, Zenon DEF Timetable!Burn, LoggerWent
<1>3. CASE ticks >= logger.target /\ LoggerWent(loop, end)
  BY <1>3, LoggerMoveSeen, Zenon DEF Timetable!Burn, LoggerWent
<1>4. CASE LoggerWent(end, go)
  BY <1>4, LoggerMoveSeen, Zenon DEF Timetable!Burn, LoggerWent
<1> QED
  BY <1>1, <1>2, <1>3, <1>4, Zenon DEF LoggerBurns

\* The logger's calls other than receive.
LEMMA LoggerWorksSeen ==
  ASSUME View, sensor' = sensor, LoggerMoves
  PROVE  Timetable!LoggerWorks
<1>1. LoggerWork \in Nat /\ LoggerWork <= FlushWork + Period /\ FlushWork \in Nat /\ FlushWork <= FlushWork + Period
  BY ShortLine, DemoFacts
<1>2. CASE LoggerBurns("work", "working", "worked", LoggerWork, "line")
  BY <1>1, <1>2, BurnSeen, Zenon DEF Timetable!LoggerWorks
<1>3. CASE LoggerBurns("flush", "flushing", "flushed", FlushWork, "log_flush")
  BY <1>1, <1>3, BurnSeen, Zenon DEF Timetable!LoggerWorks
<1>4. CASE Went(Logger, "line", "log") /\ logger' = [logger EXCEPT !.count = @ + 1]
  <2>1. logger'.count = logger.count + 1 /\ logger'.target = logger.target
    BY <1>4, LocalTypes
  <2> QED
    BY <1>4, <2>1, LoggerMoveSeen, Zenon DEF Timetable!LoggerWorks
<1>5. CASE LoggerWent("log", AfterLine(logger.count))
  BY <1>5, LoggerMoveSeen, Zenon DEF Timetable!LoggerWorks, LoggerWent, AfterLine, Timetable!AfterLine
<1>6. CASE LoggerWent("log_flush", AfterFlush(logger.count))
  BY <1>6, LoggerMoveSeen, Zenon DEF Timetable!LoggerWorks, LoggerWent, AfterFlush, Timetable!AfterFlush
<1>7. CASE LoggerWent("summary", "receive")
  BY <1>7, LoggerMoveSeen, Zenon DEF Timetable!LoggerWorks, LoggerWent
<1> QED
  BY <1>2, <1>3, <1>4, <1>5, <1>6, <1>7, Zenon DEF LoggerMoves

\* The logger receives.
LEMMA LoggerReceiveSeen ==
  ASSUME View, LoggerReceived
  PROVE  Timetable!LoggerReceive
<1>1. /\ Running = Logger /\ prog[Logger] = "receive" /\ calls' = Min({calls + 1, MinCalls})
      /\ sensor' = sensor /\ logger' = logger
      /\ ticks' = ticks /\ left' = left /\ call'[Filter] = call[Filter] /\ chan'[0] = chan[0]
      /\ sched'.blockedOn[Sensor] = sched.blockedOn[Sensor]
  BY DEF LoggerReceived
<1>2. \/ /\ Len(chan[1]) = 0 /\ chan' = chan /\ prog' = [prog EXCEPT ![Logger] = "receive"]
         /\ sched'.blockedOn[Logger] = ReceiveOn(1) /\ sched'.blockedOn[Filter] = sched.blockedOn[Filter]
      \/ /\ Len(chan[1]) > 0 /\ Len(chan'[1]) = Len(chan[1]) - 1 /\ prog' = [prog EXCEPT ![Logger] = "work"]
         /\ sched'.blockedOn[Logger] = NotBlocked
         /\ sched'.blockedOn[Filter] =
              IF sched.blockedOn[Filter] = SendOn(1) THEN NotBlocked ELSE sched.blockedOn[Filter]
  BY Zenon DEF LoggerReceived
<1>3. Timetable!Call /\ SensorWait # "no" /\ FilterWait # "no" /\ LoggerWait = "no"
  BY <1>1, CallSeen, WhoCalls
<1>4. ASSUME NEW go, prog' = [prog EXCEPT ![Logger] = go]
      PROVE  Timetable!LoggerMove("receive", go)
  <2>1. prog'[Logger] = go /\ prog'[Sensor] = prog[Sensor] /\ prog'[Filter] = prog[Filter]
    BY <1>4, Moves, BodyFacts, Zenon DEF View, ControlOK
  <2>2. UNCHANGED <<SensorWait, SensorLeft, FilterAt, Len(chan[0])>>
    BY <1>1, <2>1, Zenon DEF SensorWait, SensorLeft, FilterAt, Awake
  <2> QED
    BY <1>1, <1>3, <2>1, <2>2, Zenon DEF Timetable!LoggerMove, Timetable!LoggerRuns, Timetable!sensorVars
<1>5. CASE Len(chan[1]) = 0 /\ chan' = chan /\ prog' = [prog EXCEPT ![Logger] = "receive"]
           /\ sched'.blockedOn[Logger] = ReceiveOn(1) /\ sched'.blockedOn[Filter] = sched.blockedOn[Filter]
  <2>1. LoggerWait' = "receive" /\ FilterWait' = FilterWait
    BY <1>5, WaitFacts, Zenon DEF LoggerWait, FilterWait, Awake
  <2> QED
    BY <1>1, <1>4, <1>5, <2>1, Zenon DEF Timetable!LoggerReceive
<1>6. CASE Len(chan[1]) > 0 /\ Len(chan'[1]) = Len(chan[1]) - 1 /\ prog' = [prog EXCEPT ![Logger] = "work"]
           /\ sched'.blockedOn[Logger] = NotBlocked
           /\ sched'.blockedOn[Filter] =
                IF sched.blockedOn[Filter] = SendOn(1) THEN NotBlocked ELSE sched.blockedOn[Filter]
  <2>1. LoggerWait' = LoggerWait
    BY <1>3, <1>6, Zenon DEF LoggerWait, Awake
  <2>2. FilterWait' = IF FilterWait = "send" THEN "no" ELSE FilterWait
    <3>1. sched.blockedOn[Filter] \in {NotBlocked, ReceiveOn(0), SendOn(1)}
      BY Zenon DEF View, ControlOK, FilterShape, Awake
    <3> QED
      BY <1>6, <3>1, WaitFacts DEF FilterWait, Awake
  <2> QED
    BY <1>1, <1>4, <1>6, <2>1, <2>2, Zenon DEF Timetable!LoggerReceive
<1> QED
  BY <1>2, <1>5, <1>6, Zenon

-----------------------------------------------------------------------------
(* Time, and the steps together *)

\* The timer interrupt.
LEMMA TickSeen ==
  ASSUME View, Ticked
  PROVE  Timetable!Tick
<1>1. /\ ticks' = ticks + 1 /\ calls' = 0 /\ (Running = Idle \/ calls = MinCalls)
      /\ UNCHANGED <<chan, call, prog, sensor, logger>>
      /\ sched'.blockedOn[Filter] = sched.blockedOn[Filter] /\ sched'.blockedOn[Logger] = sched.blockedOn[Logger]
  BY Zenon DEF Ticked
<1>2. Awake(Sensor) => Awake(Sensor)'
  BY DEF Ticked
<1>3. ~Awake(Sensor) =>
        \/ left[Sensor] = 1 /\ Awake(Sensor)'
        \/ left[Sensor] > 1 /\ sched'.blockedOn[Sensor] = Asleep /\ left'[Sensor] = left[Sensor] - 1
  <2>1. ASSUME ~Awake(Sensor)
        PROVE  /\ left[Sensor] \in Int /\ left[Sensor] >= 1
               /\ left[Sensor] = 1 => Awake(Sensor)'
               /\ left[Sensor] > 1 => sched'.blockedOn[Sensor] = Asleep /\ left'[Sensor] = left[Sensor] - 1
    BY <2>1, Zenon DEF Ticked
  <2> QED
    BY <2>1
<1>4. UNCHANGED <<FilterAt, FilterWait, LoggerWait>>
  BY <1>1, Zenon DEF FilterAt, FilterWait, LoggerWait, Awake
<1>5. \/ SensorWait = "no" /\ UNCHANGED <<SensorWait, SensorLeft>>
      \/ SensorWait # "no" /\ SensorLeft = 1 /\ SensorWait' = "no" /\ SensorLeft' = 0
      \/ SensorWait # "no" /\ SensorLeft > 1 /\ SensorLeft' = SensorLeft - 1 /\ UNCHANGED SensorWait
  <2>1. CASE Awake(Sensor)
    BY <1>2, <2>1, Zenon DEF SensorWait, SensorLeft
  <2>2. CASE ~Awake(Sensor) /\ left[Sensor] = 1 /\ Awake(Sensor)'
    BY <2>2 DEF SensorWait, SensorLeft
  <2>3. CASE ~Awake(Sensor) /\ left[Sensor] > 1 /\ sched'.blockedOn[Sensor] = Asleep
             /\ left'[Sensor] = left[Sensor] - 1
    <3>1. ~Awake(Sensor)'
      BY <2>3, WaitFacts DEF Awake
    <3> QED
      BY <2>3, <3>1 DEF SensorWait, SensorLeft
  <2> QED
    BY <1>3, <2>1, <2>2, <2>3
<1>6. Timetable!NobodyRuns \/ calls = MinCalls
  BY <1>1, WhoCalls DEF Timetable!NobodyRuns
<1> QED
  BY <1>1, <1>4, <1>5, <1>6, Zenon DEF Timetable!Tick, Timetable!filterVars, Timetable!loggerVars

\* Every step of the demo is one of the timetable's.
LEMMA StepSeen ==
  ASSUME SensorFits, View, Effects, Timetable!SensorInv, [DemoNext]_demoVars
  PROVE  [Timetable!Next]_(Timetable!vars)
<1>1. CASE UNCHANGED demoVars
  <2>1. UNCHANGED <<sched, ticks, chan, call, left, prog, sensor, logger, calls>>
    BY <1>1, Zenon DEF demoVars, vars
  <2>2. UNCHANGED <<SensorWait, SensorLeft, FilterAt, FilterWait, LoggerWait>>
    BY <2>1, Zenon DEF SensorWait, SensorLeft, FilterAt, FilterWait, LoggerWait, Awake
  <2> QED
    BY <2>1, <2>2, Zenon DEF Timetable!vars, Timetable!sensorVars, Timetable!filterVars, Timetable!loggerVars
<1>2. CASE DemoTimer
  BY <1>2, TickSeen DEF Timetable!Next, Effects
<1>3. CASE SensorStep
  BY <1>3, BeginSeen, StartSeen, PublishSeen, CheckSeen, PlanSeen, SleepSeen, Zenon
     DEF SensorStep, Effects, Timetable!Next, Timetable!SensorStep
<1>4. CASE FilterStep
  <2>1. sensor' = sensor /\ logger' = logger
    BY <1>4 DEF FilterStep
  <2> QED
    BY <1>4, <2>1, FilterLogsSeen, FilterReceiveSeen, FilterSendSeen, Zenon
       DEF FilterStep, Effects, Timetable!Next, Timetable!FilterStep
<1>5. CASE LoggerStep
  <2>1. sensor' = sensor /\ (LoggerMoves \/ LoggerReceived)
    BY <1>5, LoggerSteps DEF View, Effects
  <2> QED
    BY <2>1, LoggerWorksSeen, LoggerReceiveSeen, Zenon DEF Timetable!Next, Timetable!LoggerStep
<1> QED
  BY <1>1, <1>2, <1>3, <1>4, <1>5, Zenon DEF DemoNext, TaskStep, AtHorizon

=============================================================================
