------------------------------ MODULE Pipeline ------------------------------
(***************************************************************************)
(* The default demo, demo/pipeline.rs: the bodies of sensor_reader, filter *)
(* and uart_logger as programs over the system calls of module Kernel,     *)
(* preempted by the timer wherever it fires.  One step is one call and the *)
(* computation up to the next; the values of readings are left out.        *)
(*                                                                         *)
(* Computation takes time: how much is bounded by MinCalls, the number of  *)
(* calls that any tick leaves room for.                                    *)
(***************************************************************************)
EXTENDS Kernel

CONSTANTS
  Period,       \* PERIOD
  Deadline,     \* DEADLINE
  LoggerWork,   \* LOGGER_WORK
  FlushWork,    \* FLUSH_WORK
  FlushEvery,   \* FLUSH_EVERY
  SummaryEvery, \* SUMMARY_EVERY
  MinCalls,     \* a tick leaves room for at least this many calls
  Horizon       \* bound on the ticks considered

Sensor == 0
Filter == 1
Logger == 2
Body == {Sensor, Filter, Logger}

\* The task table of generated/pipeline_tasks.rs, the most urgent task first.
ASSUME PipelineTable ==
  /\ NumTasks = 4 /\ Idle = 3
  /\ Eff[Sensor] > Eff[Filter] /\ Eff[Filter] > Eff[Logger] /\ Eff[Logger] > Eff[Idle]
  /\ Chan = {0, 1}
  /\ 0 \in Sends[Sensor] /\ 0 \in Receives[Filter]
  /\ 1 \in Sends[Filter] /\ 1 \in Receives[Logger]

\* The compile-time assertions, and the bound: the tick counter does not wrap.
\* The bodies may sleep for any time that the comparison of ticks can tell.
ASSUME PipelineAssumption ==
  /\ {Period, Deadline, LoggerWork, FlushWork, FlushEvery, SummaryEvery, MinCalls, Horizon} \subseteq Nat
  /\ FlushWork > Period
  /\ FlushEvery * LoggerWork + FlushWork < FlushEvery * Period
  /\ Horizon + FlushWork + Period < HalfRange
  /\ SleepArgs = 0 .. HalfRange

VARIABLES
  prog,   \* the next call of each task's body
  sensor, \* locals of sensor_reader
  logger, \* locals of uart_logger
  calls   \* calls made since the last tick, up to MinCalls

demoVars == <<vars, prog, sensor, logger, calls>>

DemoInit ==
  /\ Init
  /\ prog = [t \in Body |-> IF t = Sensor THEN "begin" ELSE IF t = Filter THEN "probe" ELSE "receive"]
  /\ sensor = [release |-> 0, latency |-> 0, misses |-> 0, dropped |-> 0, nap |-> 0]
  /\ logger = [target |-> 0, count |-> 0]
  /\ calls = 0

-----------------------------------------------------------------------------
\* Task t, at the given place of its body, makes the call; once the call has
\* returned, the body continues at place go.
Calls(t, place, syscall, go) ==
  /\ Running = t /\ prog[t] = place
  /\ syscall
  /\ prog' = [prog EXCEPT ![t] = IF call'[t] = NoCall THEN go ELSE place]
  /\ calls' = Min({calls + 1, MinCalls})

Send(c, nonblock) == SysSend([op |-> "send", ch |-> c, flaw |-> "none", nonblock |-> nonblock])
Receive(c) == SysReceive([op |-> "receive", ch |-> c, flaw |-> "none", nonblock |-> FALSE])

-----------------------------------------------------------------------------
(* sensor_reader *)

SensorBegin ==
  /\ Calls(Sensor, "begin", SysNow, "start")
  /\ sensor' = [sensor EXCEPT !.release = ticks]
  /\ UNCHANGED logger

SensorStart ==
  /\ Calls(Sensor, "start", SysNow, "publish")
  /\ sensor' = [sensor EXCEPT !.latency = Min({(ticks - sensor.release) % TickMod, 255})]
  /\ UNCHANGED logger

SensorPublish ==
  /\ Calls(Sensor, "publish", Send(0, TRUE), "check")
  /\ sensor' = [sensor EXCEPT !.dropped = IF ret' = "EAGAIN" THEN @ + 1 ELSE @]
  /\ UNCHANGED logger

SensorCheck ==
  /\ Calls(Sensor, "check", SysNow, "plan")
  /\ sensor' = [sensor EXCEPT
       !.misses = IF (ticks - sensor.release) % TickMod >= Deadline THEN @ + 1 ELSE @,
       !.release = (@ + Period) % TickMod]
  /\ UNCHANGED logger

\* Faulty variant: the period is counted from now.
SensorPlanRelative ==
  /\ Calls(Sensor, "plan", SysNow, "sleep")
  /\ sensor' = [sensor EXCEPT !.nap = Period]
  /\ UNCHANGED logger

\* Sleep until the next release, unless it has passed.
SensorPlan ==
  LET ahead == (sensor.release - ticks) % TickMod
  IN  /\ Calls(Sensor, "plan", SysNow, IF ahead \in 1 .. (HalfRange - 1) THEN "sleep" ELSE "start")
      /\ sensor' = [sensor EXCEPT !.nap = ahead]
      /\ UNCHANGED logger

SensorSleep == Calls(Sensor, "sleep", SysSleep(sensor.nap), "start") /\ UNCHANGED <<sensor, logger>>

-----------------------------------------------------------------------------
(* filter *)

FilterStep ==
  /\ \/ Calls(Filter, "probe", SysLog(FALSE), "report")
     \/ Calls(Filter, "report", SysLog(TRUE), "receive")
     \/ Calls(Filter, "receive", Receive(0), "send")
     \/ Calls(Filter, "send", Send(1, FALSE), "receive")
  /\ UNCHANGED <<sensor, logger>>

-----------------------------------------------------------------------------
(* uart_logger *)

LoggerCalls(place, syscall, go) == Calls(Logger, place, syscall, go) /\ UNCHANGED <<sensor, logger>>

\* burn: read the clock, read it until the target, read it once more.
Burn(begin, loop, end, work, go) ==
  \/ /\ Calls(Logger, begin, SysNow, loop)
     /\ logger' = [logger EXCEPT !.target = (ticks + work) % TickMod]
     /\ UNCHANGED sensor
  \/ ticks < logger.target /\ LoggerCalls(loop, SysNow, loop)
  \/ ticks >= logger.target /\ LoggerCalls(loop, SysNow, end)
  \/ LoggerCalls(end, SysNow, go)

\* Faulty variant: a flush after every line.
AfterLineFlushes(count) == "flush"

AfterLine(count) ==
  IF count % FlushEvery = 0 THEN "flush" ELSE IF count % SummaryEvery = 0 THEN "summary" ELSE "receive"

AfterFlush(count) == IF count % SummaryEvery = 0 THEN "summary" ELSE "receive"

LoggerStep ==
  \/ LoggerCalls("receive", Receive(1), "work")
  \/ Burn("work", "working", "worked", LoggerWork, "line")
  \/ /\ Calls(Logger, "line", SysNow, "log")
     /\ logger' = [logger EXCEPT !.count = @ + 1]
     /\ UNCHANGED sensor
  \/ LoggerCalls("log", SysLog(TRUE), AfterLine(logger.count))
  \/ Burn("flush", "flushing", "flushed", FlushWork, "log_flush")
  \/ LoggerCalls("log_flush", SysLog(TRUE), AfterFlush(logger.count))
  \/ LoggerCalls("summary", SysLog(TRUE), "receive")

-----------------------------------------------------------------------------
\* The next tick comes when the hart waits for it, or once the running tasks
\* have had their share of calls.
DemoTimer ==
  /\ ticks < Horizon
  /\ Running = Idle \/ calls = MinCalls
  /\ Timer
  /\ calls' = 0
  /\ UNCHANGED <<prog, sensor, logger>>

AtHorizon == ticks = Horizon /\ UNCHANGED demoVars

SensorStep ==
  \/ SensorBegin \/ SensorStart \/ SensorPublish \/ SensorCheck \/ SensorPlan \/ SensorSleep

TaskStep == SensorStep \/ FilterStep \/ LoggerStep

DemoNext == DemoTimer \/ TaskStep \/ AtHorizon

DemoSpec == DemoInit /\ [][DemoNext]_demoVars

-----------------------------------------------------------------------------
(* The demo as the timetable of module Backlog *)

Awake(t) == sched.blockedOn[t] = NotBlocked

\* What the timetable shows of the bodies' waits.  A send that has found its
\* channel full is still in progress.
SensorWait == IF Awake(Sensor) THEN "no" ELSE "sleep"
SensorLeft == IF Awake(Sensor) THEN 0 ELSE left[Sensor]
FilterAt == IF prog[Filter] = "send" /\ call[Filter] # NoCall THEN "resend" ELSE prog[Filter]
FilterWait ==
  IF Awake(Filter) THEN "no" ELSE IF sched.blockedOn[Filter] = ReceiveOn(0) THEN "receive" ELSE "send"
LoggerWait == IF Awake(Logger) THEN "no" ELSE "receive"

Timetable == INSTANCE Backlog WITH
       now <- ticks, left <- SensorLeft,
       sensorAt <- prog[Sensor], sensorWait <- SensorWait,
       release <- sensor.release, latency <- sensor.latency, misses <- sensor.misses,
       dropped <- sensor.dropped, nap <- sensor.nap,
       filterAt <- FilterAt, filterWait <- FilterWait,
       loggerAt <- prog[Logger], loggerWait <- LoggerWait, target <- logger.target, count <- logger.count,
       raw <- Len(chan[0]), filtered <- Len(chan[1])

-----------------------------------------------------------------------------
(* Properties *)

\* "release latency stays at 0-1 tick and the miss counter at 0", although
\* flushes outlast the period: the sensor preempts whatever runs, and a tick
\* between its reading of the clock and its sleep delays one release only.
SensorOnTime == sensor.latency <= 1 /\ sensor.misses = 0

\* "the channels absorbing the backlog": try_send never finds channel 0 full,
\* although the filter blocks on a full channel 1 behind a flush.
NothingDropped == sensor.dropped = 0

\* "On average the logger keeps up": whenever it starts a flush, the backlog
\* of the previous one has been worked off and no reading is left behind.
LoggerKeepsUp ==
  prog[Logger] = "flush" =>
    (\A c \in Chan : chan[c] = <<>>) /\ sched.blockedOn[Filter] = ReceiveOn(0)

\* "Because sensor_reader has the highest effective priority it preempts the
\* logger": on the kernel the bodies proceed by the timetable of Backlog, in
\* which the most urgent body that does not wait makes the next call, a full or
\* empty channel stops exactly the body that uses it, until the other end has
\* acted, and a sleep lasts as long as was asked for.
FollowsTimetable == Timetable!Spec

=============================================================================
