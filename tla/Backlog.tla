------------------------------ MODULE Backlog -------------------------------
(***************************************************************************)
(* The default demo, demo/pipeline.rs, as a timetable: what its three      *)
(* bodies need of the kernel and no more.  The most urgent body that does  *)
(* not wait makes the next call, channels are counts of readings, time is  *)
(* a number that never wraps.  Module Pipeline, where the bodies run on    *)
(* the kernel, implements it.                                              *)
(***************************************************************************)
EXTENDS Integers

CONSTANTS
  Period,       \* PERIOD
  Deadline,     \* DEADLINE
  LoggerWork,   \* LOGGER_WORK
  FlushWork,    \* FLUSH_WORK
  FlushEvery,   \* FLUSH_EVERY
  SummaryEvery, \* SUMMARY_EVERY
  MinCalls,     \* a tick leaves room for at least this many calls
  Capacity      \* of each channel

VARIABLES
  now, calls,                                           \* ticks since boot, calls since the last tick
  sensorAt, sensorWait, left,                           \* sensor_reader: next call, waits, ticks of sleep left
  release, latency, misses, dropped, nap,               \*   and its locals
  filterAt, filterWait,                                 \* filter
  loggerAt, loggerWait, target, count,                  \* uart_logger
  raw, filtered                                         \* readings in channels 0 and 1

sensorVars == <<sensorAt, sensorWait, left, release, latency, misses, dropped, nap>>
filterVars == <<filterAt, filterWait>>
loggerVars == <<loggerAt, loggerWait, target, count>>
vars == <<now, calls, sensorVars, filterVars, loggerVars, raw, filtered>>

Init ==
  /\ now = 0 /\ calls = 0
  /\ sensorAt = "begin" /\ sensorWait = "no" /\ left = 0
  /\ release = 0 /\ latency = 0 /\ misses = 0 /\ dropped = 0 /\ nap = 0
  /\ filterAt = "probe" /\ filterWait = "no"
  /\ loggerAt = "receive" /\ loggerWait = "no" /\ target = 0 /\ count = 0
  /\ raw = 0 /\ filtered = 0

-----------------------------------------------------------------------------
SensorRuns == sensorWait = "no"
FilterRuns == sensorWait # "no" /\ filterWait = "no"
LoggerRuns == sensorWait # "no" /\ filterWait # "no" /\ loggerWait = "no"
NobodyRuns == sensorWait # "no" /\ filterWait # "no" /\ loggerWait # "no"

Call == calls' = (IF calls < MinCalls THEN calls + 1 ELSE MinCalls) /\ now' = now

-----------------------------------------------------------------------------
(* sensor_reader *)

\* The sensor makes the call of its place and goes on; only locals change.
SensorCall(place, go) ==
  /\ SensorRuns /\ sensorAt = place /\ sensorAt' = go /\ Call
  /\ UNCHANGED <<sensorWait, left, loggerVars, filtered>>

SensorBegin ==
  /\ SensorCall("begin", "start") /\ release' = now
  /\ UNCHANGED <<latency, misses, dropped, nap, filterVars, raw>>

SensorStart ==
  /\ SensorCall("start", "publish") /\ latency' = now - release
  /\ UNCHANGED <<release, misses, dropped, nap, filterVars, raw>>

SensorPublish ==
  /\ SensorCall("publish", "check") /\ UNCHANGED <<release, latency, misses, nap, filterAt>>
  /\ \/ raw = Capacity /\ dropped' = dropped + 1 /\ UNCHANGED <<raw, filterWait>>
     \/ /\ raw # Capacity /\ raw' = raw + 1 /\ dropped' = dropped
        /\ filterWait' = IF filterWait = "receive" THEN "no" ELSE filterWait

SensorCheck ==
  /\ SensorCall("check", "plan") /\ release' = release + Period
  /\ misses' = IF now - release >= Deadline THEN misses + 1 ELSE misses
  /\ UNCHANGED <<latency, dropped, nap, filterVars, raw>>

SensorPlan ==
  /\ SensorCall("plan", IF release > now THEN "sleep" ELSE "start") /\ nap' = release - now
  /\ UNCHANGED <<release, latency, misses, dropped, filterVars, raw>>

SensorSleep ==
  /\ SensorRuns /\ sensorAt = "sleep" /\ sensorAt' = "start" /\ Call
  /\ sensorWait' = "sleep" /\ left' = nap
  /\ UNCHANGED <<release, latency, misses, dropped, nap, filterVars, loggerVars, raw, filtered>>

-----------------------------------------------------------------------------
(* filter *)

FilterCall(place, go) ==
  /\ FilterRuns /\ filterAt = place /\ filterAt' = go /\ Call
  /\ UNCHANGED <<sensorVars, loggerAt, target, count>>

FilterLogs ==
  /\ FilterCall("probe", "report") \/ FilterCall("report", "receive")
  /\ UNCHANGED <<filterWait, loggerWait, raw, filtered>>

FilterReceive ==
  /\ \/ raw = 0 /\ FilterCall("receive", "receive") /\ filterWait' = "receive" /\ UNCHANGED raw
     \/ raw > 0 /\ FilterCall("receive", "send") /\ raw' = raw - 1 /\ UNCHANGED filterWait
  /\ UNCHANGED <<loggerWait, filtered>>

\* A send that has found the channel full is made again, from "resend".
FilterSend ==
  /\ \E place \in {"send", "resend"} :
       \/ filtered = Capacity /\ FilterCall(place, "resend") /\ filterWait' = "send" /\ UNCHANGED <<loggerWait, filtered>>
       \/ /\ filtered # Capacity /\ FilterCall(place, "receive") /\ filtered' = filtered + 1
          /\ loggerWait' = "no" /\ UNCHANGED filterWait
  /\ UNCHANGED raw

-----------------------------------------------------------------------------
(* uart_logger *)

LoggerMove(place, go) ==
  /\ LoggerRuns /\ loggerAt = place /\ loggerAt' = go /\ Call
  /\ UNCHANGED <<sensorVars, filterAt, raw>>

LoggerReceive ==
  /\ \/ /\ filtered = 0 /\ LoggerMove("receive", "receive") /\ loggerWait' = "receive"
        /\ UNCHANGED <<filterWait, filtered>>
     \/ /\ filtered > 0 /\ LoggerMove("receive", "work") /\ filtered' = filtered - 1
        /\ filterWait' = (IF filterWait = "send" THEN "no" ELSE filterWait) /\ UNCHANGED loggerWait
  /\ UNCHANGED <<target, count>>

\* burn reads the clock, then reads it until the target, then once more.
Burn(begin, loop, end, work, go) ==
  /\ \/ LoggerMove(begin, loop) /\ target' = now + work
     \/ now < target /\ LoggerMove(loop, loop) /\ UNCHANGED target
     \/ now >= target /\ LoggerMove(loop, end) /\ UNCHANGED target
     \/ LoggerMove(end, go) /\ UNCHANGED target
  /\ UNCHANGED count

AfterLine == IF count % FlushEvery = 0 THEN "flush" ELSE IF count % SummaryEvery = 0 THEN "summary" ELSE "receive"
AfterFlush == IF count % SummaryEvery = 0 THEN "summary" ELSE "receive"

LoggerWorks ==
  /\ \/ Burn("work", "working", "worked", LoggerWork, "line")
     \/ LoggerMove("line", "log") /\ count' = count + 1 /\ UNCHANGED target
     \/ LoggerMove("log", AfterLine) /\ UNCHANGED <<target, count>>
     \/ Burn("flush", "flushing", "flushed", FlushWork, "log_flush")
     \/ LoggerMove("log_flush", AfterFlush) /\ UNCHANGED <<target, count>>
     \/ LoggerMove("summary", "receive") /\ UNCHANGED <<target, count>>
  /\ UNCHANGED <<filterWait, loggerWait, filtered>>

-----------------------------------------------------------------------------
Tick ==
  /\ NobodyRuns \/ calls = MinCalls
  /\ now' = now + 1 /\ calls' = 0
  /\ \/ sensorWait = "no" /\ UNCHANGED <<sensorWait, left>>
     \/ sensorWait # "no" /\ left = 1 /\ sensorWait' = "no" /\ left' = 0
     \/ sensorWait # "no" /\ left > 1 /\ left' = left - 1 /\ UNCHANGED sensorWait
  /\ UNCHANGED <<sensorAt, release, latency, misses, dropped, nap, filterVars, loggerVars, raw, filtered>>

SensorStep == SensorBegin \/ SensorStart \/ SensorPublish \/ SensorCheck \/ SensorPlan \/ SensorSleep
FilterStep == FilterLogs \/ FilterReceive \/ FilterSend
LoggerStep == LoggerReceive \/ LoggerWorks

Next == Tick \/ SensorStep \/ FilterStep \/ LoggerStep

Spec == Init /\ [][Next]_vars

-----------------------------------------------------------------------------
(* What the demo promises *)

OnTime == latency <= 1 /\ misses = 0

NothingDropped == dropped = 0

\* A flush starts with nothing in flight.
KeepsUp == loggerAt = "flush" => raw = 0 /\ filtered = 0 /\ filterWait = "receive"

-----------------------------------------------------------------------------
(* The sensor's clock: how late it is, and the calls it has made since the   *)
(* tick that made it so                                                      *)

SensorClock ==
  LET late == now - release
  IN  /\ sensorAt = "begin" => release = 0 /\ now = 0 /\ calls = 0
      /\ sensorAt = "start" /\ sensorWait = "no" => (late = 0 /\ calls <= 1) \/ (late = 1 /\ calls = 0)
      /\ sensorAt = "start" /\ sensorWait # "no" => late + left \in {0, 1}
      /\ sensorAt = "publish" => (late = 0 /\ calls <= 2) \/ (late = 1 /\ calls <= 1)
      /\ sensorAt = "check" => (late = 0 /\ calls <= 3) \/ (late = 1 /\ calls <= 2)
      /\ sensorAt = "plan" => (late + Period = 0 /\ calls <= 4) \/ (late + Period = 1 /\ calls <= 3)
      /\ sensorAt = "sleep" => late + nap = 0 \/ (late + nap = 1 /\ calls = 0)

\* The sensor is at most one tick late.
SensorInv == SensorClock /\ release >= 0 /\ OnTime

=============================================================================
