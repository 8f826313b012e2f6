--------------------------- MODULE BacklogProofs ----------------------------
(***************************************************************************)
(* Why the demo keeps up.  The sensor is at most one tick late for every   *)
(* period and deadline of at least two ticks; with the periods of          *)
(* demo/pipeline.rs no reading is dropped and the backlog of a flush is    *)
(* gone before the next, for every capacity of at least two and any speed  *)
(* of at least four calls per tick.                                        *)
(***************************************************************************)
EXTENDS Backlog, TLAPS

\* What the sensor needs: room for its four calls in a tick, and a period and
\* a deadline that one tick of delay does not use up.
SensorFits ==
  /\ {MinCalls, Period, Deadline, LoggerWork, FlushWork, Capacity} \subseteq Nat
  /\ MinCalls >= 4 /\ Period >= 2 /\ Deadline >= 2

\* The constants of demo/pipeline.rs.
DemoTiming ==
  /\ MinCalls \in Nat /\ MinCalls >= 4 /\ Capacity \in Nat /\ Capacity >= 2
  /\ Period = 10 /\ Deadline = 10 /\ LoggerWork = 3 /\ FlushWork = 25 /\ FlushEvery = 5 /\ SummaryEvery = 100

-----------------------------------------------------------------------------
(* Where the bodies are *)

SensorPlace == {"begin", "start", "publish", "check", "plan", "sleep"}
FilterPlace == {"probe", "report", "receive", "send", "resend"}

\* The places of uart_logger at which it has a reading in hand.
HoldsReading == {"work", "working", "worked", "line"}
FlushPlace == {"flush", "flushing", "flushed", "log_flush", "summary"}
LoggerPlace == HoldsReading \cup FlushPlace \cup {"log", "receive"}

\* What each body waits for, by the place it is at.
SensorShape ==
  /\ sensorAt \in SensorPlace /\ sensorWait \in {"no", "sleep"}
  /\ left \in Int /\ release \in Int /\ latency \in Int /\ misses \in Int /\ dropped \in Int /\ nap \in Int
  /\ sensorAt = "sleep" => nap >= 1
  /\ sensorWait = "sleep" => sensorAt = "start" /\ left >= 1

FilterShape ==
  /\ filterAt \in FilterPlace /\ filterWait \in {"no", "receive", "send"}
  /\ filterWait = "receive" => filterAt = "receive" /\ raw = 0
  /\ filterWait = "send" => filterAt = "resend" /\ filtered = Capacity

LoggerShape ==
  /\ loggerAt \in LoggerPlace /\ loggerWait \in {"no", "receive"} /\ target \in Int /\ count \in Nat
  /\ loggerWait = "receive" => loggerAt = "receive" /\ filtered = 0

Shape ==
  /\ now \in Nat /\ calls \in 0 .. MinCalls /\ raw \in Nat /\ filtered \in Nat
  /\ SensorShape /\ FilterShape /\ LoggerShape

\* Initially.
LEMMA ShapeInit == SensorFits /\ Init => Shape
BY DEF SensorFits, Init, Shape, SensorShape, FilterShape, LoggerShape, SensorPlace, FilterPlace, LoggerPlace

\* Every call counts.
LEMMA CallShape ==
  ASSUME SensorFits, Shape, Call
  PROVE  now' \in Nat /\ calls' \in 0 .. MinCalls
BY DEF SensorFits, Shape, Call

\* The sensor's calls keep the shape.
LEMMA SensorStepShape ==
  ASSUME SensorFits, Shape, SensorStep
  PROVE  Shape'
<1>1. Call /\ UNCHANGED <<loggerVars, filtered, filterAt>>
  BY DEF SensorStep, SensorBegin, SensorStart, SensorPublish, SensorCheck, SensorPlan, SensorSleep, SensorCall, filterVars
<1>2. now' \in Nat /\ calls' \in 0 .. MinCalls /\ filtered' \in Nat /\ LoggerShape'
  BY <1>1, CallShape DEF Shape, LoggerShape, loggerVars
<1>3. raw' \in Nat /\ FilterShape'
  BY <1>1 DEF SensorStep, SensorBegin, SensorStart, SensorPublish, SensorCheck, SensorPlan, SensorSleep,
              SensorCall, Shape, FilterShape, filterVars
<1>4. SensorShape'
  <2> USE DEF SensorFits, Shape, SensorShape, SensorPlace, SensorCall, SensorRuns
  <2>1. CASE SensorBegin
    BY <2>1 DEF SensorBegin
  <2>2. CASE SensorStart
    BY <2>2 DEF SensorStart
  <2>3. CASE SensorPublish
    BY <2>3 DEF SensorPublish
  <2>4. CASE SensorCheck
    BY <2>4 DEF SensorCheck
  <2>5. CASE SensorPlan
    BY <2>5 DEF SensorPlan
  <2>6. CASE SensorSleep
    BY <2>6 DEF SensorSleep
  <2> QED
    BY <2>1, <2>2, <2>3, <2>4, <2>5, <2>6 DEF SensorStep
<1> QED
  BY <1>2, <1>3, <1>4 DEF Shape

\* So do the filter's.
LEMMA FilterStepShape ==
  ASSUME SensorFits, Shape, FilterStep
  PROVE  Shape'
<1> USE DEF SensorFits, Shape, SensorShape, FilterShape, LoggerShape, SensorPlace, FilterPlace, LoggerPlace,
            FilterCall, FilterRuns, sensorVars, loggerVars
<1>1. CASE FilterLogs
  BY <1>1, CallShape DEF FilterLogs
<1>2. CASE FilterReceive
  BY <1>2, CallShape DEF FilterReceive
<1>3. CASE FilterSend
  BY <1>3, CallShape DEF FilterSend
<1> QED
  BY <1>1, <1>2, <1>3 DEF FilterStep

\* The steps of the logger that do not touch the channels.
LEMMA LoggerWorksShape ==
  ASSUME SensorFits, Shape, LoggerWorks
  PROVE  Shape'
<1>1. /\ UNCHANGED <<sensorVars, filterVars, raw, filtered, loggerWait>> /\ loggerWait = "no" /\ Call
  BY DEF LoggerWorks, Burn, LoggerMove, LoggerRuns, filterVars
<1>2. loggerAt' \in LoggerPlace
  BY DEF LoggerWorks, Burn, LoggerMove, AfterLine, AfterFlush, LoggerPlace, HoldsReading, FlushPlace
<1>3. target' \in Int /\ count' \in Nat
  BY DEF LoggerWorks, Burn, LoggerMove, Shape, LoggerShape, SensorFits
<1> QED
  BY <1>1, <1>2, <1>3, CallShape DEF Shape, SensorShape, FilterShape, LoggerShape, sensorVars, filterVars

\* So do the logger's.
LEMMA LoggerStepShape ==
  ASSUME SensorFits, Shape, LoggerStep
  PROVE  Shape'
<1>1. CASE LoggerReceive
  BY <1>1, CallShape DEF LoggerReceive, LoggerMove, LoggerRuns, SensorFits, Shape, SensorShape, FilterShape,
     LoggerShape, FilterPlace, LoggerPlace, HoldsReading, FlushPlace, sensorVars
<1> QED
  BY <1>1, LoggerWorksShape DEF LoggerStep

\* A tick keeps the shape.
LEMMA TickShape ==
  ASSUME SensorFits, Shape, Tick
  PROVE  Shape'
BY DEF SensorFits, Shape, Tick, SensorShape, FilterShape, LoggerShape, filterVars, loggerVars

\* The shape of the bodies is inductive.
LEMMA ShapeStep == SensorFits /\ Shape /\ [Next]_vars => Shape'
<1> SUFFICES ASSUME SensorFits, Shape, [Next]_vars
             PROVE  Shape'
  OBVIOUS
<1>1. CASE UNCHANGED vars
  BY <1>1 DEF vars, sensorVars, filterVars, loggerVars, Shape, SensorShape, FilterShape, LoggerShape
<1> QED
  BY <1>1, TickShape, SensorStepShape, FilterStepShape, LoggerStepShape DEF Next

-----------------------------------------------------------------------------
(* The sensor is on time *)

\* Initially.
LEMMA SensorInvInit == Init => SensorInv
BY DEF Init, SensorInv, SensorClock, OnTime

\* The sensor's own calls.
LEMMA SensorStepOnTime ==
  ASSUME SensorFits, Shape, SensorInv, SensorStep
  PROVE  SensorInv'
<1> USE DEF SensorFits, Shape, SensorShape, SensorCall, SensorRuns, Call, SensorInv, SensorClock, OnTime
<1>1. CASE SensorBegin
  BY <1>1 DEF SensorBegin
<1>2. CASE SensorStart
  BY <1>2 DEF SensorStart
<1>3. CASE SensorPublish
  BY <1>3 DEF SensorPublish
<1>4. CASE SensorCheck
  BY <1>4 DEF SensorCheck
<1>5. CASE SensorPlan
  BY <1>5 DEF SensorPlan
<1>6. CASE SensorSleep
  BY <1>6 DEF SensorSleep
<1> QED
  BY <1>1, <1>2, <1>3, <1>4, <1>5, <1>6 DEF SensorStep

\* A tick in the midst of the sensor's calls comes when it has made all but
\* the last one or two, and delays that release only.
LEMMA TickOnTime ==
  ASSUME SensorFits, Shape, SensorInv, Tick
  PROVE  SensorInv'
<1> USE DEF SensorFits, Shape, SensorShape, SensorPlace, Tick, NobodyRuns, SensorInv, SensorClock, OnTime
<1>1. CASE sensorWait = "no"
  <2>1. calls >= 4
    BY <1>1
  <2> QED
    BY <1>1, <2>1
<1>2. CASE sensorWait # "no"
  BY <1>2
<1> QED
  BY <1>1, <1>2

\* The sensor sleeps while the others run.
LEMMA OthersOnTime ==
  ASSUME Shape, SensorInv, FilterStep \/ LoggerStep
  PROVE  SensorInv'
<1>1. sensorWait # "no" /\ now' = now /\ UNCHANGED sensorVars
  BY DEF FilterStep, FilterLogs, FilterReceive, FilterSend, FilterCall, FilterRuns, Call,
         LoggerStep, LoggerReceive, LoggerWorks, Burn, LoggerMove, LoggerRuns
<1>2. sensorAt = "start"
  BY <1>1 DEF Shape, SensorShape
<1> QED
  BY <1>1, <1>2 DEF sensorVars, SensorInv, SensorClock, OnTime

\* The sensor's clock with every step.
LEMMA SensorInvStep == SensorFits /\ Shape /\ SensorInv /\ [Next]_vars => SensorInv'
<1> SUFFICES ASSUME SensorFits, Shape, SensorInv, [Next]_vars
             PROVE  SensorInv'
  OBVIOUS
<1>1. CASE UNCHANGED vars
  BY <1>1 DEF vars, sensorVars, SensorInv, SensorClock, OnTime
<1> QED
  BY <1>1, TickOnTime, SensorStepOnTime, OthersOnTime DEF Next

\* The sensor's release latency is at most one tick and it never misses its
\* deadline, whatever the logger does and however ticks fall between its
\* calls: for every period and deadline of at least two ticks.
THEOREM OnTimeAlways == ASSUME SensorFits PROVE Spec => []OnTime
<1>1. Init => Shape /\ SensorInv
  BY ShapeInit, SensorInvInit
<1>2. Shape /\ SensorInv /\ [Next]_vars => (Shape /\ SensorInv)'
  BY ShapeStep, SensorInvStep
<1>3. SensorInv => OnTime
  BY DEF SensorInv
<1> QED
  BY <1>1, <1>2, <1>3, PTL DEF Spec

-----------------------------------------------------------------------------
(* The readings in flight *)

\* The sensor has been released and has not yet published its reading.
InHand == sensorWait = "no" /\ sensorAt \in {"begin", "start", "publish"}

\* The readings the sensor, the filter and the logger have in hand.
Fresh == IF InHand THEN 1 ELSE 0
Sending == IF filterAt \in {"send", "resend"} THEN 1 ELSE 0
Held == IF loggerAt \in HoldsReading THEN 1 ELSE 0

\* What has been published, and released, since boot.
Published == raw + Sending + filtered + Held + count
Released == Published + Fresh

\* Lines written since the last flush, and the count at that flush.
Lines ==
  IF loggerAt \in FlushPlace THEN 0 ELSE IF loggerAt = "log" /\ count % 5 = 0 THEN 5 ELSE count % 5

Base == count - Lines

\* Every reading is accounted for, and the sensor never finds one waiting.
FlowOK ==
  /\ release + (IF sensorAt = "check" THEN 10 ELSE 0) = 10 * Published
  /\ InHand => raw = 0
  /\ filterAt \in {"probe", "report"} => InHand \/ raw > 0
  /\ loggerAt \in FlushPlace => count % 5 = 0
  /\ loggerAt = "log" => count > 0

-----------------------------------------------------------------------------
(* Time in quarters of a tick *)

\* Every call advances it by at most one, a tick after four calls not at all.
Clock == 4 * now + (IF calls < 4 THEN calls ELSE 4)

\* Calls left to the sensor until it sleeps.
SensorTodo ==
  IF sensorAt = "begin" THEN 6
  ELSE IF sensorAt = "start" THEN (IF sensorWait = "no" THEN 5 ELSE 0)
  ELSE IF sensorAt = "publish" THEN 4
  ELSE IF sensorAt = "check" THEN 3
  ELSE IF sensorAt = "plan" THEN 2 ELSE 1

\* Calls left to the filter besides the three for each reading ahead of it.
FilterTodo ==
  IF filterAt \in {"probe", "send", "resend"} THEN 2
  ELSE IF filterAt = "report" THEN 1
  ELSE IF filterWait = "no" /\ raw = 0 THEN 1 ELSE 0

Todo == SensorTodo + FilterTodo + 3 * (raw + Fresh)

\* The time by which the logger is at its place and the others have done
\* their work, relative to the release of the first reading after the flush.
Due ==
  IF loggerAt = "flush" THEN 0 - 6
  ELSE IF loggerAt = "flushing" THEN 94
  ELSE IF loggerAt = "flushed" THEN 95
  ELSE IF loggerAt = "log_flush" THEN 96
  ELSE IF loggerAt = "summary" THEN 97
  ELSE IF loggerAt = "receive" THEN 98
  ELSE IF loggerAt = "work" THEN 99
  ELSE IF loggerAt = "working" THEN 110
  ELSE IF loggerAt = "worked" THEN 111
  ELSE IF loggerAt = "line" THEN 112 ELSE 97

\* 16 quarters for a line, 8 for each reading released beyond the third.
Slack == 16 * Lines + 8 * (IF Released - Base > 3 THEN Released - Base - 3 ELSE 0)

LoggerClock ==
  /\ Clock + Todo <= 40 * Base + Due + Slack
  /\ loggerAt = "flushing" => 4 * target <= 40 * Base + 92
  /\ loggerAt = "working" => 4 * target <= 40 * Base + 108 + Slack
  /\ loggerAt = "flush" => Released = Base /\ filterWait # "no"
  /\ 2 * (Released - Base - 3) <= Lines + Held

\* The filter has a reading it has not tried to send.
FilterBusy == filterWait = "no" /\ (filterAt \in {"probe", "report", "send"} \/ raw > 0)

BurstClock ==
  /\ sensorWait = "no" \/ FilterBusy => Clock + Todo <= 40 * (Released - 1) + 12
  /\ filterWait = "no" => Clock + Todo <= 40 * (Released - 1) + 39
  /\ filterAt = "resend" => /\ sensorWait # "no" /\ raw = 0 /\ Released = Base + 3
                            /\ filterWait = "no" => filtered < Capacity

FlowInv == FlowOK /\ LoggerClock /\ BurstClock /\ NothingDropped

\* All of it.
TimetableInv == Shape /\ SensorInv /\ FlowInv

-----------------------------------------------------------------------------
(* Types and ranges *)

\* A count is the lines since the last multiple of five and that multiple.
LEMMA FiveFacts ==
  ASSUME NEW c \in Nat
  PROVE  /\ c % 5 \in 0 .. 4
         /\ c % 5 = 4 => (c + 1) % 5 = 0
         /\ c % 5 # 4 => (c + 1) % 5 = (c % 5) + 1
         /\ c % 100 = 0 => c % 5 = 0
OBVIOUS

\* The numbers of the argument.
Numbers ==
  /\ now \in Nat /\ raw \in Nat /\ filtered \in Nat /\ count \in Nat /\ target \in Int /\ release \in Int
  /\ Fresh \in 0 .. 1 /\ Sending \in 0 .. 1 /\ Held \in 0 .. 1
  /\ Lines \in 0 .. 5 /\ Base \in Int /\ Base + Lines = count
  /\ Released \in Int /\ Released = raw + Sending + filtered + Held + count + Fresh
  /\ Published \in Int /\ Released = Published + Fresh /\ Released >= count
  /\ Clock \in Int /\ Clock >= 4 * now /\ Clock <= (4 * now) + 4
  /\ SensorTodo \in Nat /\ FilterTodo \in Nat
  /\ Todo \in Nat /\ Todo = SensorTodo + FilterTodo + 3 * (raw + Fresh)
  /\ Due \in Int /\ Slack \in Int /\ Slack >= 16 * Lines

\* The numbers are numbers.
LEMMA NumbersNow == Shape => Numbers
<1> SUFFICES ASSUME Shape PROVE Numbers
  OBVIOUS
<1>1. /\ now \in Nat /\ raw \in Nat /\ filtered \in Nat /\ count \in Nat /\ target \in Int /\ release \in Int
      /\ calls \in Nat
  BY DEF Shape, SensorShape, LoggerShape
<1>2. Fresh \in 0 .. 1 /\ Sending \in 0 .. 1 /\ Held \in 0 .. 1
  BY DEF Fresh, Sending, Held
<1>3. Lines \in 0 .. 5
  BY <1>1, FiveFacts DEF Lines
<1>4. Base \in Int /\ Base + Lines = count
  BY <1>1, <1>3 DEF Base
<1>5. Published \in Int /\ Released \in Int /\ Released = raw + Sending + filtered + Held + count + Fresh
      /\ Released = Published + Fresh /\ Released >= count
  BY <1>1, <1>2 DEF Released, Published
<1>6. Clock \in Int /\ Clock >= 4 * now /\ Clock <= (4 * now) + 4
  BY <1>1 DEF Clock
<1>7. SensorTodo \in Nat /\ FilterTodo \in Nat
  BY DEF SensorTodo, FilterTodo
<1>8. Todo \in Nat /\ Todo = SensorTodo + FilterTodo + 3 * (raw + Fresh)
  BY <1>1, <1>2, <1>7 DEF Todo
<1>9. Due \in Int /\ Slack \in Int /\ Slack >= 16 * Lines
  BY <1>3, <1>4, <1>5 DEF Due, Slack
<1> QED
  BY <1>1, <1>2, <1>3, <1>4, <1>5, <1>6, <1>7, <1>8, <1>9 DEF Numbers

\* So they are next.
LEMMA NumbersNext == Shape' => Numbers'
BY NumbersNow, PTL

\* Just that.
Ints ==
  /\ Clock \in Int /\ Todo \in Int /\ Base \in Int /\ Lines \in Int /\ Lines >= 0 /\ Held \in Int /\ Due \in Int
  /\ Slack \in Int /\ Released \in Int /\ target \in Int /\ now \in Int

\* Now and next.
LEMMA IntsNow == Shape => Ints
BY NumbersNow DEF Numbers, Ints

\* Next.
LEMMA IntsNext == Shape' => Ints'
BY IntsNow, PTL

\* A call takes a quarter of a tick at most.
LEMMA ClockOfCall ==
  ASSUME Shape, MinCalls \in Nat, MinCalls >= 4, Call
  PROVE  Clock' <= Clock + 1 /\ Clock' <= (4 * now) + 4
BY DEF Shape, Call, Clock

\* The bounds on the logger's place.
LEMMA DueFacts ==
  ASSUME Shape
  PROVE  /\ loggerAt # "flush" => Due >= 94
         /\ loggerAt \notin HoldsReading => Due <= 98 /\ Held = 0
         /\ loggerAt \in HoldsReading => Due <= 112 /\ Held = 1
<1>1. loggerAt \in LoggerPlace
  BY DEF Shape, LoggerShape
<1> QED
  BY <1>1 DEF Due, Held, LoggerPlace, HoldsReading, FlushPlace

-----------------------------------------------------------------------------
(* While the logger stays where it is *)

\* Work of the others that takes its time is within the logger's bound.
LEMMA LoggerClockKept ==
  ASSUME Shape, Shape', LoggerClock, UNCHANGED <<loggerAt, target, count>>, Released' = Released,
         Clock' + Todo' <= Clock + Todo,
         loggerAt = "flush" => filterWait' # "no"
  PROVE  LoggerClock' /\ Base' = Base
<1>1. Lines' = Lines /\ Base' = Base /\ Held' = Held /\ Due' = Due /\ Slack' = Slack
  BY DEF Lines, Base, Held, Due, Slack
<1>2. Clock' + Todo' <= 40 * Base' + Due' + Slack'
  BY <1>1, NumbersNow, NumbersNext DEF Numbers, LoggerClock
<1> QED
  BY <1>1, <1>2 DEF LoggerClock

-----------------------------------------------------------------------------
(* The sensor's calls *)

\* A call of the sensor takes a quarter of a tick and is one call less to do.
LEMMA SensorBurst ==
  ASSUME DemoTiming, Shape, Shape', FlowInv, SensorRuns, Call, UNCHANGED <<loggerVars, filterAt, filtered>>,
         raw' + Fresh' = raw + Fresh, SensorTodo' <= SensorTodo - 1, FilterTodo' <= FilterTodo,
         loggerAt = "flush" => filterWait' # "no"
  PROVE  /\ LoggerClock' /\ BurstClock'
         /\ Published' + Fresh' = Published + Fresh
<1>1. Sending' = Sending /\ Held' = Held /\ count' = count /\ filtered' = filtered
  BY DEF Sending, Held, loggerVars
<1>2. Released' = Released
  <2>1. /\ {raw, Fresh, Sending, filtered, Held, count, raw', Fresh'} \subseteq Int
        /\ Released = raw + Sending + filtered + Held + count + Fresh
        /\ Released' = raw' + Sending' + filtered' + Held' + count' + Fresh'
    BY NumbersNow, NumbersNext DEF Numbers
  <2> QED
    BY <1>1, <2>1
<1>3. Clock' + Todo' <= Clock + Todo
  BY <1>1, <1>2, ClockOfCall, NumbersNow, NumbersNext DEF Numbers, DemoTiming
<1>4. LoggerClock'
  BY <1>2, <1>3, LoggerClockKept DEF FlowInv, loggerVars
<1>5. filterAt' # "resend"
  BY DEF FlowInv, BurstClock, SensorRuns
<1>6. Clock' + Todo' <= 40 * (Released' - 1) + 12 /\ Clock' + Todo' <= 40 * (Released' - 1) + 39
  BY <1>2, <1>3, NumbersNow, NumbersNext DEF Numbers, FlowInv, BurstClock, SensorRuns
<1>7. BurstClock'
  BY <1>5, <1>6 DEF BurstClock
<1>8. Published' + Fresh' = Published + Fresh
  BY <1>2 DEF Released
<1> QED
  BY <1>4, <1>7, <1>8

\* The sensor's calls other than the sending of its reading.
LEMMA SensorQuietFlow ==
  ASSUME DemoTiming, Shape, Shape', SensorInv, FlowInv,
         SensorBegin \/ SensorStart \/ SensorCheck \/ SensorPlan \/ SensorSleep
  PROVE  FlowInv'
<1>1. /\ SensorRuns /\ Call /\ UNCHANGED <<loggerVars, filterVars, filtered, raw, dropped>>
  BY DEF SensorBegin, SensorStart, SensorCheck, SensorPlan, SensorSleep, SensorCall
<1>2. InHand' = InHand /\ SensorTodo' <= SensorTodo - 1
  <2>1. CASE SensorPlan
    <3>1. release > now
      BY <2>1 DEF SensorPlan, SensorCall, SensorInv, SensorClock, DemoTiming, Shape, SensorShape
    <3> QED
      BY <2>1, <3>1 DEF SensorPlan, SensorCall, SensorTodo, InHand
  <2>2. CASE SensorBegin \/ SensorStart \/ SensorCheck \/ SensorSleep
    BY <2>2 DEF SensorBegin, SensorStart, SensorCheck, SensorSleep, SensorCall, SensorRuns, SensorTodo, InHand
  <2> QED
    BY <2>1, <2>2
<1>3. Fresh' = Fresh /\ FilterTodo' = FilterTodo
  BY <1>1, <1>2 DEF Fresh, FilterTodo, filterVars
<1>4. /\ LoggerClock' /\ BurstClock' /\ Published' + Fresh' = Published + Fresh
  <2>1. loggerAt = "flush" => filterWait' # "no"
    BY <1>1 DEF FlowInv, LoggerClock, filterVars
  <2>2. FilterTodo' <= FilterTodo /\ raw' + Fresh' = raw + Fresh
    BY <1>1, <1>3, NumbersNow DEF Numbers, filterVars
  <2> QED
    BY <1>1, <1>2, <2>1, <2>2, SensorBurst DEF filterVars
<1>5. Published' = Published
  BY <1>3, <1>4, NumbersNow, NumbersNext DEF Numbers
<1>6. release' + (IF sensorAt' = "check" THEN 10 ELSE 0) = 10 * Published'
  BY <1>5, NumbersNow DEF Numbers, FlowInv, FlowOK, SensorInv, SensorClock, DemoTiming, SensorBegin, SensorStart,
     SensorCheck, SensorPlan, SensorSleep, SensorCall
<1>7. FlowOK'
  BY <1>1, <1>2, <1>6 DEF FlowInv, FlowOK, filterVars, loggerVars
<1> QED
  BY <1>1, <1>4, <1>7 DEF FlowInv, NothingDropped

\* The sensor publishes: the filter's channel is empty.
LEMMA PublishFlow ==
  ASSUME DemoTiming, Shape, Shape', SensorInv, FlowInv, SensorPublish
  PROVE  FlowInv'
<1>1. /\ SensorRuns /\ Call /\ UNCHANGED <<loggerVars, filterAt, filtered, release>>
      /\ sensorAt = "publish" /\ sensorAt' = "check" /\ sensorWait' = "no"
  BY DEF SensorPublish, SensorCall, SensorRuns
<1>2. InHand /\ ~InHand' /\ Fresh = 1 /\ Fresh' = 0 /\ raw = 0
  BY <1>1 DEF InHand, Fresh, SensorRuns, FlowInv, FlowOK
<1>3. raw' = 1 /\ dropped' = dropped
  BY <1>2 DEF SensorPublish, DemoTiming
<1>4. SensorTodo' <= SensorTodo - 1 /\ FilterTodo' <= FilterTodo
  BY <1>1, <1>2, <1>3 DEF SensorTodo, FilterTodo
<1>5. loggerAt # "flush"
  <2>1. loggerAt = "flush" => Released = Base
    BY DEF FlowInv, LoggerClock
  <2> QED
    BY <1>2, <2>1, NumbersNow DEF Numbers
<1>6. /\ LoggerClock' /\ BurstClock' /\ Published' + Fresh' = Published + Fresh
  BY <1>1, <1>2, <1>3, <1>4, <1>5, SensorBurst
<1>7. Published' = Published + 1
  BY <1>2, <1>6, NumbersNow, NumbersNext DEF Numbers
<1>8. release' + (IF sensorAt' = "check" THEN 10 ELSE 0) = 10 * Published'
  BY <1>1, <1>7, NumbersNow DEF Numbers, FlowInv, FlowOK
<1>9. FlowOK'
  BY <1>1, <1>2, <1>3, <1>8 DEF FlowInv, FlowOK, loggerVars
<1> QED
  BY <1>3, <1>6, <1>9 DEF FlowInv, NothingDropped

-----------------------------------------------------------------------------
(* The filter's calls *)

\* The filter runs while the sensor sleeps.
LEMMA FilterAlone ==
  ASSUME Shape, FilterRuns
  PROVE  sensorAt = "start" /\ ~InHand /\ Fresh = 0 /\ SensorTodo = 0 /\ sensorWait # "no" /\ filterWait = "no"
BY DEF Shape, SensorShape, FilterRuns, InHand, Fresh, SensorTodo

\* One call less to do.
LEMMA LessToDo ==
  ASSUME NEW a \in Int, NEW b \in Int, NEW c \in Int, a <= b - 1
  PROVE  a + 3 * c < b + 3 * c
OBVIOUS

\* A call of the filter that does not block on the logger's channel.
LEMMA FilterBurst ==
  ASSUME DemoTiming, Shape, Shape', FlowInv, FilterRuns, Call, UNCHANGED <<sensorVars, loggerAt, target, count>>,
         raw' + Sending' + filtered' = raw + Sending + filtered,
         FilterTodo' + 3 * raw' < FilterTodo + 3 * raw,
         filterAt' # "resend",
         FilterBusy' => FilterBusy
  PROVE  /\ LoggerClock' /\ BurstClock' /\ Published' = Published /\ NothingDropped'
         /\ InHand' = InHand
<1>1. InHand' = InHand /\ Fresh = 0 /\ Fresh' = 0 /\ SensorTodo' = 0 /\ SensorTodo = 0 /\ Held' = Held
  BY FilterAlone DEF sensorVars, InHand, Fresh, SensorTodo, Held
<1>2. Released' = Released /\ Published' = Published
  <2>1. {raw, Sending, filtered, Held, count, raw', Sending', filtered'} \subseteq Int
    BY NumbersNow, NumbersNext DEF Numbers
  <2> QED
    BY <1>1, <2>1 DEF Released, Published
<1>3. Clock' + Todo' <= Clock + Todo
  BY <1>1, ClockOfCall, NumbersNow, NumbersNext DEF Numbers, DemoTiming
<1>4. loggerAt # "flush"
  BY DEF FlowInv, LoggerClock, FilterRuns
<1>5. LoggerClock'
  BY <1>2, <1>3, <1>4, LoggerClockKept DEF FlowInv
<1>6. Clock' + Todo' <= 40 * (Released' - 1) + 39
  BY <1>2, <1>3, NumbersNow, NumbersNext DEF Numbers, FlowInv, BurstClock, FilterRuns
<1>7. FilterBusy' => Clock' + Todo' <= 40 * (Released' - 1) + 12
  BY <1>2, <1>3, NumbersNow, NumbersNext DEF Numbers, FlowInv, BurstClock
<1>8. sensorWait' # "no"
  BY DEF FilterRuns, sensorVars
<1> QED
  BY <1>1, <1>2, <1>5, <1>6, <1>7, <1>8 DEF BurstClock, FlowInv, NothingDropped, sensorVars

\* What is in flight stays accounted for.
LEMMA FlowKept ==
  ASSUME FlowOK, UNCHANGED <<sensorAt, release, loggerAt, count>>, Published' = Published, ~InHand',
         filterAt' \in {"probe", "report"} => raw' > 0
  PROVE  FlowOK'
BY DEF FlowOK

\* The filter logs.
LEMMA FilterLogsFlow ==
  ASSUME DemoTiming, Shape, Shape', FlowInv, FilterLogs
  PROVE  FlowInv'
<1>1. /\ FilterRuns /\ Call /\ UNCHANGED <<sensorVars, loggerAt, target, count, filterWait, raw, filtered>>
      /\ \/ filterAt = "probe" /\ filterAt' = "report"
         \/ filterAt = "report" /\ filterAt' = "receive"
  BY DEF FilterLogs, FilterCall
<1>2. raw > 0
  BY <1>1, FilterAlone DEF FlowInv, FlowOK
<1>3. Sending' = Sending /\ FilterTodo' = FilterTodo - 1 /\ FilterBusy
  BY <1>1, <1>2 DEF Sending, FilterTodo, FilterBusy, FilterRuns
<1>4. /\ raw' + Sending' + filtered' = raw + Sending + filtered
      /\ FilterTodo' + 3 * raw' < FilterTodo + 3 * raw
  BY <1>1, <1>3, NumbersNow DEF Numbers
<1>5. LoggerClock' /\ BurstClock' /\ Published' = Published /\ NothingDropped' /\ InHand' = InHand
  BY <1>1, <1>3, <1>4, FilterBurst
<1>6. FlowOK'
  BY <1>1, <1>2, <1>5, FilterAlone, FlowKept DEF FlowInv, sensorVars
<1> QED
  BY <1>5, <1>6 DEF FlowInv

\* The filter receives.
LEMMA FilterReceiveFlow ==
  ASSUME DemoTiming, Shape, Shape', FlowInv, FilterReceive
  PROVE  FlowInv'
<1>1. /\ FilterRuns /\ Call /\ UNCHANGED <<sensorVars, loggerAt, target, count, filtered>> /\ filterAt = "receive"
      /\ \/ raw = 0 /\ raw' = raw /\ filterAt' = "receive" /\ filterWait' = "receive"
         \/ raw > 0 /\ raw' = raw - 1 /\ filterAt' = "send"
  BY DEF FilterReceive, FilterCall
<1>2. raw \in Nat /\ filterWait = "no"
  BY <1>1 DEF Shape, FilterRuns
<1>3. /\ raw' + Sending' + filtered' = raw + Sending + filtered
      /\ FilterTodo' + 3 * raw' < FilterTodo + 3 * raw
  BY <1>1, <1>2, NumbersNow DEF Numbers, Sending, FilterTodo
<1>4. FilterBusy' => FilterBusy
  BY <1>1, <1>2 DEF FilterBusy
<1>5. LoggerClock' /\ BurstClock' /\ Published' = Published /\ NothingDropped' /\ InHand' = InHand
  BY <1>1, <1>3, <1>4, FilterBurst
<1>6. FlowOK'
  BY <1>1, <1>5, FilterAlone, FlowKept DEF FlowInv, sensorVars
<1> QED
  BY <1>5, <1>6 DEF FlowInv

\* The filter sends.
LEMMA FilterSendFlow ==
  ASSUME DemoTiming, Shape, Shape', FlowInv, FilterSend, filtered # Capacity
  PROVE  FlowInv'
<1>1. /\ FilterRuns /\ Call /\ UNCHANGED <<sensorVars, loggerAt, target, count, raw, filterWait>>
      /\ filterAt \in {"send", "resend"} /\ filtered' = filtered + 1 /\ filterAt' = "receive"
  BY DEF FilterSend, FilterCall
<1>2. raw \in Nat /\ filtered \in Nat /\ filterWait = "no"
  BY <1>1 DEF Shape, FilterRuns
<1>3. /\ raw' + Sending' + filtered' = raw + Sending + filtered
      /\ FilterTodo' + 3 * raw' < FilterTodo + 3 * raw
  <2>1. /\ Sending = 1 /\ Sending' = 0
        /\ FilterTodo \in Int /\ FilterTodo' \in Int /\ FilterTodo' <= FilterTodo - 1
    BY <1>1 DEF Sending, FilterTodo
  <2>2. raw' = raw /\ filtered' = filtered + 1
    BY <1>1
  <2>3. raw' + Sending' + filtered' = raw + Sending + filtered
    BY <1>2, <2>1, <2>2
  <2>4. FilterTodo' + 3 * raw < FilterTodo + 3 * raw
    <3>1. raw \in Int
      BY <1>2
    <3> QED
      BY <2>1, <3>1, LessToDo, Zenon
  <2> QED
    BY <2>2, <2>3, <2>4
<1>4. FilterBusy' => FilterBusy
  BY <1>1, <1>2 DEF FilterBusy
<1>5. LoggerClock' /\ BurstClock' /\ Published' = Published /\ NothingDropped' /\ InHand' = InHand
  BY <1>1, <1>3, <1>4, FilterBurst
<1>6. FlowOK'
  BY <1>1, <1>5, FilterAlone, FlowKept DEF FlowInv, sensorVars
<1> QED
  BY <1>5, <1>6 DEF FlowInv

\* The filter finds the logger's channel full: the logger is in a flush, and
\* the filter holds the third reading since.
LEMMA FilterBlocksFlow ==
  ASSUME DemoTiming, Shape, Shape', FlowInv, FilterSend, filtered = Capacity
  PROVE  FlowInv'
<1>1. /\ FilterRuns /\ Call /\ UNCHANGED <<sensorVars, loggerAt, target, count, raw, filtered>>
      /\ filterAt \in {"send", "resend"} /\ filterAt' = "resend" /\ filterWait' = "send"
  BY DEF FilterSend, FilterCall
<1>2. filterWait = "no" /\ raw \in Nat /\ filtered \in Nat
  BY <1>1 DEF FilterRuns, Shape
<1>3. filterAt = "send"
  <2>1. filterAt = "resend" => filtered < Capacity
    BY <1>2 DEF FlowInv, BurstClock
  <2> QED
    BY <1>1, <1>2, <2>1 DEF DemoTiming
<1>4. /\ Sending = 1 /\ Sending' = 1 /\ FilterTodo = 2 /\ FilterTodo' = 2 /\ Held' = Held /\ Fresh = 0 /\ Fresh' = 0
      /\ SensorTodo = 0 /\ SensorTodo' = 0 /\ ~InHand' /\ Lines' = Lines /\ Base' = Base /\ Due' = Due
  BY <1>1, <1>3, FilterAlone DEF Sending, FilterTodo, Held, Fresh, InHand, SensorTodo, sensorVars, Lines, Base, Due
<1>5. Clock + Todo <= 40 * (Released - 1) + 12 /\ 2 * (Released - Base - 3) <= Lines + Held
  BY <1>2, <1>3 DEF FlowInv, BurstClock, FilterBusy, LoggerClock
<1>6. Lines = 0 /\ Held = 0 /\ raw = 0 /\ Released = Base + 3
  <2>1. Released = raw + 1 + Capacity + Held + Base + Lines
    BY <1>4, NumbersNow DEF Numbers
  <2>2. Held \in Nat /\ Lines \in Nat /\ Base \in Int /\ raw \in Nat
    BY NumbersNow DEF Numbers
  <2> QED
    BY <1>5, <2>1, <2>2 DEF DemoTiming
<1>7. Published' = Published /\ Released' = Released
  BY <1>1, <1>4, NumbersNow DEF Numbers, Published, Released
<1>8. Clock' + Todo' <= 40 * Base + 93
  BY <1>1, <1>4, <1>5, <1>6, ClockOfCall, NumbersNow, NumbersNext DEF Numbers, DemoTiming
<1>9. loggerAt # "flush" /\ loggerAt \notin HoldsReading
  BY <1>6, DueFacts, <1>2 DEF FlowInv, LoggerClock
<1>10. Slack' = 0 /\ Due' >= 94
  BY <1>4, <1>6, <1>7, <1>9, DueFacts, NumbersNow DEF Slack, Numbers
<1>11. LoggerClock'
  <2>1. Clock' + Todo' <= 40 * Base' + Due' + Slack'
    BY <1>4, <1>8, <1>10, NumbersNow, NumbersNext DEF Numbers
  <2>2. loggerAt' = "flushing" => 4 * target' <= 40 * Base' + 92
    BY <1>1, <1>4 DEF FlowInv, LoggerClock
  <2>3. 2 * (Released' - Base' - 3) <= Lines' + Held'
    BY <1>4, <1>5, <1>7
  <2>4. loggerAt' # "working" /\ loggerAt' # "flush"
    BY <1>1, <1>9 DEF HoldsReading
  <2> QED
    BY <2>1, <2>2, <2>3, <2>4 DEF LoggerClock
<1>12. BurstClock'
  BY <1>1, <1>4, <1>6, <1>7 DEF BurstClock, FilterBusy, FilterRuns, sensorVars
<1>13. FlowOK'
  BY <1>1, <1>4, <1>7, FlowKept DEF FlowInv, sensorVars
<1> QED
  BY <1>1, <1>11, <1>12, <1>13 DEF FlowInv, NothingDropped, sensorVars

-----------------------------------------------------------------------------
(* While the sensor and the filter wait *)

\* What is in flight then: the filter waits for a reading, or the channel to
\* the logger is full and the logger is behind a flush.
LEMMA Alone ==
  ASSUME DemoTiming, Shape, FlowInv, sensorWait # "no", filterWait # "no"
  PROVE  /\ sensorAt = "start" /\ ~InHand /\ Fresh = 0 /\ SensorTodo = 0 /\ raw = 0
         /\ \/ filterWait = "receive" /\ filterAt = "receive" /\ Todo = 0 /\ Sending = 0
            \/ /\ filterWait = "send" /\ filterAt = "resend" /\ Todo = 2 /\ Sending = 1
               /\ filtered = Capacity /\ Released = Base + 3 /\ Lines = 0 /\ Held = 0
<1>1. sensorAt = "start" /\ ~InHand /\ Fresh = 0 /\ SensorTodo = 0
  BY DEF Shape, SensorShape, InHand, Fresh, SensorTodo
<1>2. CASE filterWait = "receive"
  <2>1. filterAt = "receive" /\ raw = 0 /\ Sending = 0 /\ FilterTodo = 0
    BY <1>2 DEF Shape, FilterShape, Sending, FilterTodo
  <2> QED
    BY <1>1, <1>2, <2>1, NumbersNow DEF Numbers
<1>3. CASE filterWait = "send"
  <2>1. filterAt = "resend" /\ filtered = Capacity /\ Sending = 1 /\ FilterTodo = 2
    BY <1>3 DEF Shape, FilterShape, Sending, FilterTodo
  <2>2. raw = 0 /\ Released = Base + 3
    BY <2>1 DEF FlowInv, BurstClock
  <2>3. Todo = 2
    BY <1>1, <2>1, <2>2, NumbersNow DEF Numbers
  <2>4. Lines = 0 /\ Held = 0
    <3>1. Base + 3 = 1 + Capacity + Held + Base + Lines
      BY <1>1, <2>1, <2>2, NumbersNow DEF Numbers, DemoTiming
    <3>2. Held \in Nat /\ Lines \in Nat /\ Base \in Int
      BY NumbersNow DEF Numbers
    <3> QED
      BY <3>1, <3>2 DEF DemoTiming
  <2> QED
    BY <1>1, <1>3, <2>1, <2>2, <2>3, <2>4
<1> QED
  BY <1>2, <1>3 DEF Shape, FilterShape

-----------------------------------------------------------------------------
(* The logger's calls *)

\* A call of the logger that leaves the channels alone.
LoggerGoes ==
  LoggerRuns /\ Call /\ UNCHANGED <<sensorVars, filterVars, raw, filtered>>

\* It leaves the others where they are.
LEMMA OthersStay ==
  ASSUME DemoTiming, Shape, Shape', FlowInv, LoggerGoes
  PROVE  /\ Todo' = Todo /\ ~InHand' /\ Fresh = 0 /\ Fresh' = 0 /\ Sending' = Sending /\ raw = 0
         /\ Clock' <= Clock + 1 /\ Clock' <= (4 * now) + 4
<1>1. ~InHand' /\ Fresh' = Fresh /\ SensorTodo' = SensorTodo /\ FilterTodo' = FilterTodo /\ Sending' = Sending
  BY Alone DEF LoggerGoes, LoggerRuns, sensorVars, filterVars, InHand, Fresh, SensorTodo, FilterTodo, Sending
<1>2. Todo' = Todo
  BY <1>1 DEF Todo, LoggerGoes
<1> QED
  BY <1>1, <1>2, Alone, ClockOfCall DEF LoggerGoes, LoggerRuns, DemoTiming

\* What remains to be shown of such a call.
LEMMA LoggerGoesOn ==
  ASSUME DemoTiming, Shape, Shape', FlowInv, LoggerGoes, Released' = Released, LoggerClock',
         filterAt = "resend" => Base' = Base,
         loggerAt' \in FlushPlace => count' % 5 = 0,
         loggerAt' = "log" => count' > 0
  PROVE  FlowInv'
<1>1. Published' = Published
  BY OthersStay, NumbersNow, NumbersNext DEF Numbers
<1>2. FlowOK'
  <2>1. filterAt' \notin {"probe", "report"}
    BY Alone DEF LoggerGoes, LoggerRuns, filterVars
  <2> QED
    BY <1>1, <2>1, OthersStay DEF FlowInv, FlowOK, LoggerGoes, sensorVars
<1>3. BurstClock'
  BY OthersStay DEF FlowInv, BurstClock, FilterBusy, LoggerGoes, LoggerRuns, sensorVars, filterVars
<1> QED
  BY <1>2, <1>3 DEF FlowInv, NothingDropped, LoggerGoes, sensorVars

\* The reading the logger holds becomes a line.
LEMMA ReleasedKept ==
  ASSUME DemoTiming, Shape, Shape', FlowInv, LoggerGoes, Held' + count' = Held + count
  PROVE  Released' = Released
<1>1. /\ {raw, Fresh, Sending, filtered, Held, count, Held', count'} \subseteq Int
      /\ Released = raw + Sending + filtered + Held + count + Fresh
      /\ Released' = raw' + Sending' + filtered' + Held' + count' + Fresh'
  BY NumbersNow, NumbersNext DEF Numbers
<1>2. raw' = raw /\ filtered' = filtered /\ Sending' = Sending /\ Fresh' = Fresh
  BY OthersStay DEF LoggerGoes
<1> QED
  BY <1>1, <1>2

\* The logger goes on to a place it has a quarter of a tick more for.
LEMMA LoggerOnwards ==
  ASSUME DemoTiming, Shape, Shape', FlowInv, LoggerGoes, count' = count,
         Lines' = Lines, Held' = Held, Due' >= Due + 1,
         loggerAt' \notin {"flushing", "working", "flush", "log"},
         loggerAt' \in FlushPlace => count' % 5 = 0
  PROVE  FlowInv'
<1>1. Released' = Released
  BY ReleasedKept
<1>2. Base' = Base /\ Slack' = Slack
  BY <1>1 DEF Base, Slack
<1>3. Clock' + Todo' <= 40 * Base' + Due' + Slack'
  <2>1. Clock + Todo <= 40 * Base + Due + Slack
    BY DEF FlowInv, LoggerClock
  <2> QED
    BY <1>2, <2>1, OthersStay, NumbersNow, NumbersNext DEF Numbers
<1>4. LoggerClock'
  BY <1>1, <1>2, <1>3 DEF FlowInv, LoggerClock
<1> QED
  BY <1>1, <1>2, <1>4, LoggerGoesOn

\* Whole ticks.
LEMMA WholeTicks ==
  ASSUME NEW x \in Int, NEW y \in Int
  PROVE  \E k \in Int : 16 * x + 8 * y = 4 * k
<1> WITNESS 4 * x + 2 * y \in Int
<1> QED
  OBVIOUS

\* The slack is in whole ticks.
LEMMA SlackTicks ==
  ASSUME Shape
  PROVE  \E k \in Int : Slack = 4 * k
<1> DEFINE beyond == IF Released - Base > 3 THEN Released - Base - 3 ELSE 0
<1>1. Lines \in Int /\ Released \in Int /\ Base \in Int
  BY NumbersNow DEF Numbers
<1>2. beyond \in Int /\ Slack = 16 * Lines + 8 * beyond
  BY <1>1 DEF Slack
<1> HIDE DEF beyond
<1> QED
  BY <1>1, <1>2, WholeTicks

\* burn's first reading of the clock: a target three ticks ahead, in whole
\* ticks.
LEMMA WorkFlow ==
  ASSUME DemoTiming, Shape, Shape', FlowInv, LoggerGoes, count' = count,
         loggerAt = "work", loggerAt' = "working", target' = now + 3
  PROVE  FlowInv'
<1>1. Lines' = Lines /\ Held' = Held /\ Held = 1 /\ Due = 99 /\ Due' = 110
  BY DEF Lines, Held, Due, FlushPlace, HoldsReading
<1>2. Released' = Released
  BY <1>1, ReleasedKept
<1>3. Base' = Base /\ Slack' = Slack
  BY <1>1, <1>2 DEF Base, Slack
<1>4. Clock + Todo <= 40 * Base + 99 + Slack
  BY <1>1 DEF FlowInv, LoggerClock
<1>5. Clock' + Todo' <= 40 * Base' + Due' + Slack'
  BY <1>1, <1>3, <1>4, OthersStay, IntsNow, IntsNext DEF Ints
<1>6. 4 * target' <= 40 * Base' + 108 + Slack'
  <2>2. PICK k \in Int : Slack = 4 * k
    BY SlackTicks
  <2>3. now \in Int /\ Base \in Int /\ 4 * now <= 40 * Base + 99 + 4 * k
    BY <1>4, <2>2, NumbersNow DEF Numbers
  <2>4. 4 * (now + 3) <= 40 * Base + 108 + 4 * k
    BY <2>3
  <2> QED
    BY <1>3, <2>2, <2>4
<1>7. LoggerClock'
  BY <1>1, <1>2, <1>3, <1>5, <1>6 DEF FlowInv, LoggerClock
<1> QED
  BY <1>2, <1>3, <1>7, LoggerGoesOn DEF FlushPlace

\* burn reads the clock before its target.
LEMMA WorkingFlow ==
  ASSUME DemoTiming, Shape, Shape', FlowInv, LoggerGoes, count' = count, target' = target,
         loggerAt = "working", loggerAt' = "working", now < target
  PROVE  FlowInv'
<1>1. Lines' = Lines /\ Held' = Held /\ Held = 1 /\ Due' = 110
  BY DEF Lines, Held, Due, FlushPlace, HoldsReading
<1>2. Released' = Released
  BY <1>1, ReleasedKept
<1>3. Base' = Base /\ Slack' = Slack
  BY <1>1, <1>2 DEF Base, Slack
<1>4. 4 * target <= 40 * Base + 108 + Slack
  BY DEF FlowInv, LoggerClock
<1>5. Todo = 0
  BY <1>1, Alone DEF LoggerGoes, LoggerRuns
<1>6. Clock' + Todo' <= 40 * Base' + Due' + Slack'
  BY <1>1, <1>3, <1>4, <1>5, OthersStay, NumbersNow, NumbersNext DEF Numbers
<1>7. LoggerClock'
  BY <1>1, <1>2, <1>3, <1>4, <1>6 DEF FlowInv, LoggerClock
<1> QED
  BY <1>2, <1>3, <1>7, LoggerGoesOn DEF FlushPlace

\* The reading becomes a line.
LEMMA LineFlow ==
  ASSUME DemoTiming, Shape, Shape', FlowInv, LoggerGoes, count' = count + 1, target' = target,
         loggerAt = "line", loggerAt' = "log"
  PROVE  FlowInv'
<1>0. count \in Nat
  BY DEF Shape, LoggerShape
<1>1. Held = 1 /\ Held' = 0 /\ Due = 112 /\ Due' = 97
  BY DEF Held, Due, HoldsReading
<1>2. Lines' = Lines + 1
  BY <1>0, FiveFacts DEF Lines, FlushPlace
<1>3. Released' = Released
  BY <1>0, <1>1, ReleasedKept
<1>4. Base' = Base
  <2>1. Lines \in Int
    BY NumbersNow DEF Numbers
  <2> QED
    BY <1>0, <1>2, <2>1 DEF Base
<1>5. Slack' = Slack + 16
  BY <1>2, <1>3, <1>4, NumbersNow DEF Slack, Numbers
<1>6. Clock + Todo <= 40 * Base + 112 + Slack /\ 2 * (Released - Base - 3) <= Lines + 1
  BY <1>1 DEF FlowInv, LoggerClock
<1>7. Clock' + Todo' <= 40 * Base' + Due' + Slack'
  BY <1>1, <1>4, <1>5, <1>6, OthersStay, NumbersNow, NumbersNext DEF Numbers
<1>8. 2 * (Released' - Base' - 3) <= Lines' + Held'
  BY <1>1, <1>2, <1>3, <1>4, <1>6, NumbersNow DEF Numbers
<1>9. LoggerClock'
  BY <1>7, <1>8 DEF LoggerClock
<1> QED
  BY <1>0, <1>3, <1>4, <1>9, LoggerGoesOn DEF FlushPlace

\* At most two readings are released while the fifth line is written.
LEMMA AllLogged ==
  ASSUME NEW r \in Int, NEW b \in Int, NEW c \in Int, b = c - 5, 2 * (r - b - 3) <= 5, r >= c
  PROVE  r = c
OBVIOUS

\* The fifth line since the last flush: everything released has been logged.
LEMMA ToFlushFlow ==
  ASSUME DemoTiming, Shape, Shape', FlowInv, LoggerGoes, count' = count, target' = target,
         loggerAt = "log", loggerAt' = "flush", count % 5 = 0
  PROVE  FlowInv'
<1>1. Lines = 5 /\ Lines' = 0 /\ Held = 0 /\ Held' = 0 /\ Due = 97 /\ Due' = 0 - 6
  BY DEF Lines, Held, Due, FlushPlace, HoldsReading
<1>2. Released' = Released
  BY <1>1, ReleasedKept
<1>3. Base' = count /\ Base = count - 5 /\ count \in Int
  BY <1>1, NumbersNow DEF Base, Numbers
<1>4. 2 * (Released - Base - 3) <= 5 /\ Clock + Todo <= 40 * Base + 97 + Slack
  BY <1>1 DEF FlowInv, LoggerClock
<1>5. Released = count
  <2>1. Released >= count /\ Released \in Int /\ Base \in Int
    BY NumbersNow DEF Numbers
  <2> QED
    BY <1>3, <1>4, <2>1, AllLogged, ZenonT(20)
<1>6. Slack = 96 /\ Slack' = 0
  BY <1>1, <1>2, <1>3, <1>5 DEF Slack
<1>7. Clock' + Todo' <= 40 * Base' + Due' + Slack'
  BY <1>1, <1>3, <1>4, <1>6, OthersStay, NumbersNow, NumbersNext DEF Numbers
<1>8. filterWait' # "no"
  BY DEF LoggerGoes, LoggerRuns, filterVars
<1>9. LoggerClock'
  BY <1>1, <1>2, <1>3, <1>5, <1>7, <1>8 DEF LoggerClock
<1>10. filterAt # "resend"
  BY <1>1, Alone DEF LoggerGoes, LoggerRuns
<1> QED
  BY <1>2, <1>9, <1>10, LoggerGoesOn

\* burn's first reading of the clock in a flush.
LEMMA FlushFlow ==
  ASSUME DemoTiming, Shape, Shape', FlowInv, LoggerGoes, count' = count,
         loggerAt = "flush", loggerAt' = "flushing", target' = now + 25
  PROVE  FlowInv'
<1>1. Lines = 0 /\ Lines' = 0 /\ Held = 0 /\ Held' = 0 /\ Due = 0 - 6 /\ Due' = 94
  BY DEF Lines, Held, Due, FlushPlace, HoldsReading
<1>2. Released' = Released /\ Released = Base
  BY <1>1, ReleasedKept DEF FlowInv, LoggerClock
<1>3. Base' = Base /\ Slack = 0 /\ Slack' = 0
  <2>1. Base' = Base /\ Base \in Int
    BY <1>1, NumbersNow DEF Base, Numbers
  <2> QED
    BY <1>1, <1>2, <2>1 DEF Slack
<1>4. Clock + Todo <= 40 * Base - 6
  BY <1>1, <1>3, NumbersNow DEF FlowInv, LoggerClock, Numbers
<1>5. Clock' + Todo' <= 40 * Base' + Due' + Slack'
  BY <1>1, <1>3, <1>4, OthersStay, IntsNow, IntsNext DEF Ints
<1>6. 4 * target' <= 40 * Base' + 92
  <2>1. now \in Int /\ Base \in Int /\ 4 * now <= 40 * Base - 6
    BY <1>4, NumbersNow DEF Numbers
  <2>2. 4 * (now + 25) <= 40 * Base + 92
    BY <2>1
  <2> QED
    BY <1>3, <2>2
<1>7. LoggerClock'
  BY <1>1, <1>2, <1>3, <1>5, <1>6, NumbersNow DEF LoggerClock, Numbers
<1>8. count' % 5 = 0
  BY DEF FlowInv, FlowOK, FlushPlace
<1> QED
  BY <1>2, <1>3, <1>7, <1>8, LoggerGoesOn

\* burn reads the clock before its target in a flush.
LEMMA FlushingFlow ==
  ASSUME DemoTiming, Shape, Shape', FlowInv, LoggerGoes, count' = count, target' = target,
         loggerAt = "flushing", loggerAt' = "flushing", now < target
  PROVE  FlowInv'
<1>1. Lines' = Lines /\ Held' = Held /\ Due' = 94
  BY DEF Lines, Held, Due, FlushPlace, HoldsReading
<1>2. Released' = Released
  BY <1>1, ReleasedKept
<1>3. Base' = Base /\ Slack' = Slack
  BY <1>1, <1>2 DEF Base, Slack
<1>4. 4 * target <= 40 * Base + 92
  BY DEF FlowInv, LoggerClock
<1>5. Todo <= 2
  BY Alone DEF LoggerGoes, LoggerRuns
<1>6. Clock' + Todo' <= 40 * Base' + Due' + Slack'
  BY <1>1, <1>3, <1>4, <1>5, OthersStay, NumbersNow, NumbersNext DEF Numbers
<1>7. LoggerClock'
  BY <1>1, <1>2, <1>3, <1>4, <1>6 DEF FlowInv, LoggerClock
<1>8. count' % 5 = 0
  BY DEF FlowInv, FlowOK, FlushPlace
<1> QED
  BY <1>2, <1>3, <1>7, <1>8, LoggerGoesOn

\* The other calls take the logger to a place it has a quarter of a tick
\* more for.
LEMMA OnwardsFlow ==
  ASSUME DemoTiming, Shape, Shape', FlowInv, LoggerGoes, count' = count,
         \/ loggerAt = "working" /\ loggerAt' = "worked"
         \/ loggerAt = "worked" /\ loggerAt' = "line"
         \/ loggerAt = "flushing" /\ loggerAt' = "flushed"
         \/ loggerAt = "flushed" /\ loggerAt' = "log_flush"
         \/ loggerAt = "log_flush" /\ loggerAt' \in {"summary", "receive"}
         \/ loggerAt = "summary" /\ loggerAt' = "receive"
         \/ loggerAt = "log" /\ loggerAt' = "receive" /\ count % 5 # 0
  PROVE  FlowInv'
<1>1. Held' = Held
  BY DEF Held, HoldsReading
<1>2. Due' >= Due + 1
  BY DEF Due
<1>3. loggerAt \in FlushPlace => count % 5 = 0
  BY DEF FlowInv, FlowOK
<1>4. Lines' = Lines
  BY <1>3 DEF Lines, FlushPlace
<1>5. /\ loggerAt' \notin {"flushing", "working", "flush", "log"}
      /\ loggerAt' \in FlushPlace => count' % 5 = 0
  BY <1>3 DEF FlushPlace
<1> QED
  BY <1>1, <1>2, <1>4, <1>5, LoggerOnwards

\* The logger's calls that leave the channels alone.
LEMMA LoggerWorksFlow ==
  ASSUME DemoTiming, Shape, Shape', FlowInv, LoggerWorks
  PROVE  FlowInv'
<1>1. LoggerGoes
  BY DEF LoggerWorks, Burn, LoggerMove, LoggerGoes, filterVars
<1>2. CASE Burn("work", "working", "worked", 3, "line")
  BY <1>1, <1>2, WorkFlow, WorkingFlow, OnwardsFlow DEF Burn, LoggerMove
<1>3. CASE LoggerMove("line", "log") /\ count' = count + 1 /\ UNCHANGED target
  BY <1>1, <1>3, LineFlow DEF LoggerMove
<1>4. CASE LoggerMove("log", AfterLine) /\ UNCHANGED <<target, count>>
  <2>1. count \in Nat
    BY DEF Shape, LoggerShape
  <2>2. \/ count % 5 = 0 /\ loggerAt' = "flush"
        \/ count % 5 # 0 /\ loggerAt' = "receive"
    BY <1>4, <2>1, FiveFacts DEF LoggerMove, AfterLine, DemoTiming
  <2> QED
    BY <1>1, <1>4, <2>2, ToFlushFlow, OnwardsFlow DEF LoggerMove
<1>5. CASE Burn("flush", "flushing", "flushed", 25, "log_flush")
  BY <1>1, <1>5, FlushFlow, FlushingFlow, OnwardsFlow DEF Burn, LoggerMove
<1>6. CASE LoggerMove("log_flush", AfterFlush) /\ UNCHANGED <<target, count>>
  BY <1>1, <1>6, OnwardsFlow DEF LoggerMove, AfterFlush
<1>7. CASE LoggerMove("summary", "receive") /\ UNCHANGED <<target, count>>
  BY <1>1, <1>7, OnwardsFlow DEF LoggerMove
<1> QED
  BY <1>2, <1>3, <1>4, <1>5, <1>6, <1>7 DEF LoggerWorks, DemoTiming

\* The logger takes a reading, and a filter that waits for room goes on.
LEMMA LoggerTakesFlow ==
  ASSUME DemoTiming, Shape, Shape', FlowInv, LoggerReceive, filtered # 0
  PROVE  FlowInv'
<1>1. /\ LoggerRuns /\ Call /\ UNCHANGED <<sensorVars, filterAt, raw, target, count>>
      /\ loggerAt = "receive" /\ loggerAt' = "work" /\ filtered' = filtered - 1
      /\ filterWait' = IF filterWait = "send" THEN "no" ELSE filterWait
  BY DEF LoggerReceive, LoggerMove
<1>2. sensorWait # "no" /\ filterWait # "no"
  BY <1>1 DEF LoggerRuns
<1>3. /\ Held = 0 /\ Held' = 1 /\ Due = 98 /\ Due' = 99 /\ Lines' = Lines /\ Base' = Base
  BY <1>1 DEF Held, Due, Lines, Base, HoldsReading, FlushPlace
<1>4. ~InHand' /\ Fresh = 0 /\ Fresh' = 0 /\ Sending' = Sending /\ SensorTodo' = SensorTodo /\ raw = 0
  BY <1>1, <1>2, Alone DEF InHand, Fresh, Sending, SensorTodo, sensorVars
<1>5. FilterTodo' = FilterTodo
  BY <1>1, <1>2, Alone DEF FilterTodo
<1>6. Todo' = Todo
  BY <1>1, <1>4, <1>5 DEF Todo
<1>7. Released' = Released /\ Published' = Published
  <2>1. {raw, Sending, filtered, count} \subseteq Int
    BY NumbersNow DEF Numbers
  <2> QED
    BY <1>1, <1>3, <1>4, <2>1 DEF Released, Published
<1>8. Slack' = Slack
  BY <1>3, <1>7 DEF Slack
<1>9. Clock' + Todo' <= 40 * Base' + 99 + Slack'
  <2>1. Clock + Todo <= 40 * Base + Due + Slack
    BY DEF FlowInv, LoggerClock
  <2>2. Clock' <= Clock + 1
    BY <1>1, ClockOfCall DEF DemoTiming
  <2> QED
    BY <1>1, <1>3, <1>6, <1>8, <2>1, <2>2, IntsNow, IntsNext DEF Ints
<1>10. 2 * (Released' - Base' - 3) <= Lines' + Held'
  <2>1. 2 * (Released - Base - 3) <= Lines + 0
    BY <1>3 DEF FlowInv, LoggerClock
  <2> QED
    BY <1>3, <1>7, <2>1, NumbersNow DEF Numbers
<1>11. LoggerClock'
  BY <1>1, <1>3, <1>9, <1>10 DEF LoggerClock
<1>12. filterAt' \notin {"probe", "report"}
  BY <1>1, <1>2, Alone
<1>13. FlowOK'
  BY <1>1, <1>4, <1>7, <1>12 DEF FlowInv, FlowOK, FlushPlace, sensorVars
<1>14. BurstClock'
  <2>1. CASE filterWait = "receive"
    BY <1>1, <1>2, <2>1, Alone DEF BurstClock, FilterBusy, sensorVars
  <2>2. CASE filterWait = "send"
    <3>1. filterAt' = "resend" /\ Released' = Base' + 3 /\ Slack = 0 /\ filtered' < Capacity
      <4>1. Released = Base + 3 /\ Lines = 0 /\ filterAt = "resend" /\ filtered = Capacity
        BY <1>1, <1>2, <2>2, Alone
      <4>2. Slack = 0
        BY <4>1, IntsNow DEF Slack, Ints
      <4> QED
        BY <1>1, <1>2, <1>3, <1>7, <4>1, <4>2 DEF DemoTiming
    <3>2. Clock' + Todo' <= 40 * (Released' - 1) + 39
      BY <1>3, <1>8, <1>9, <3>1, IntsNow, IntsNext DEF Ints
    <3> QED
      BY <1>1, <1>2, <1>4, <3>1, <3>2 DEF BurstClock, FilterBusy, sensorVars
  <2> QED
    BY <1>2, <2>1, <2>2 DEF Shape, FilterShape
<1> QED
  BY <1>1, <1>11, <1>13, <1>14 DEF FlowInv, NothingDropped, sensorVars

-----------------------------------------------------------------------------
(* Time without calls *)

Beyond(r, b) == IF r - b > 3 THEN r - b - 3 ELSE 0

\* Everything released is logged: the logger is early.
LEMMA EarlyBound ==
  ASSUME NEW b \in Int, NEW l \in Int, 0 <= l, l <= 4, NEW c \in Int, c <= 40 * (b + l) + 4
  PROVE  /\ c + 0 <= 40 * b + 98 + (16 * l + 8 * Beyond(b + l, b))
         /\ c + 8 <= 40 * b + 98 + (16 * l + 8 * Beyond(b + l + 1, b))
         /\ 2 * ((b + l + 1) - b - 3) <= l
BY DEF Beyond

\* A release while the logger works leaves it within its bound.
LEMMA ReleaseBound ==
  ASSUME NEW r \in Int, NEW b \in Int, NEW l \in Int, NEW h \in Int, NEW due \in Int, NEW c \in Int,
         c >= 40 * r, c <= 40 * r + 4, 0 <= l, r >= b + l, due >= 94,
         (h = 0 /\ due <= 98) \/ (h = 1 /\ due <= 112),
         c + 0 <= 40 * b + due + (16 * l + 8 * Beyond(r, b))
  PROVE  /\ 2 * ((r + 1) - b - 3) <= l + h
         /\ c + 8 <= 40 * b + due + (16 * l + 8 * Beyond(r + 1, b))
<1>1. CASE r - b > 3
  <2>1. Beyond(r, b) = r - b - 3 /\ Beyond(r + 1, b) = r - b - 2
    BY <1>1 DEF Beyond
  <2> QED
    BY <1>1, <2>1
<1>2. CASE r - b = 3
  <2>1. Beyond(r, b) = 0 /\ Beyond(r + 1, b) = 1
    BY <1>2 DEF Beyond
  <2> QED
    BY <1>2, <2>1
<1>3. CASE r - b < 3
  <2>1. Beyond(r, b) = 0 /\ Beyond(r + 1, b) = 0
    BY <1>3 DEF Beyond
  <2> QED
    BY <1>3, <2>1
<1> QED
  BY <1>1, <1>2, <1>3

\* A flush starts before the next release.
LEMMA FlushBound ==
  ASSUME NEW c \in Int, NEW b \in Int, c + 0 <= 40 * b + (0 - 6) + (16 * 0 + 8 * 0), c >= 40 * b
  PROVE  FALSE
OBVIOUS

\* The sensor sleeps until the next release.
LEMMA SleepBound ==
  ASSUME Shape, SensorInv, FlowOK, sensorWait # "no"
  PROVE  /\ release = 10 * Published /\ Fresh = 0 /\ now <= 10 * Published
         /\ left = 1 => now + 1 >= 10 * Published
<1>1. sensorAt = "start" /\ left \in Int /\ left >= 1 /\ now \in Int /\ release \in Int /\ Fresh = 0
  BY DEF Shape, SensorShape, Fresh, InHand
<1>2. now - release + left = 0 \/ now - release + left = 1
  BY <1>1 DEF SensorInv, SensorClock
<1>3. release = 10 * Published
  BY <1>1, NumbersNow DEF FlowOK, Numbers
<1> QED
  BY <1>1, <1>2, <1>3

\* Nothing is in flight while everybody waits, or will.
LEMMA NothingInFlight ==
  ASSUME DemoTiming, Shape, FlowInv, sensorWait # "no", filterWait # "no", filtered = 0, loggerAt = "receive"
  PROVE  /\ filterWait = "receive" /\ filterAt = "receive" /\ Todo = 0 /\ Released = count
         /\ Lines >= 0 /\ Lines <= 4 /\ Lines \in Int /\ Base \in Int /\ Base + Lines = count
         /\ Held = 0 /\ Due = 98 /\ Published = count
<1>1. filterWait = "receive" /\ filterAt = "receive" /\ Todo = 0 /\ Sending = 0 /\ raw = 0 /\ Fresh = 0
  BY Alone DEF DemoTiming
<1>2. Held = 0 /\ Due = 98
  BY DEF Held, Due, HoldsReading
<1>3. Lines \in Int /\ Lines >= 0 /\ Lines <= 4
  <2>1. count \in Nat /\ Lines = count % 5
    BY DEF Shape, LoggerShape, Lines, FlushPlace
  <2> QED
    BY <2>1, FiveFacts
<1>4. Published = count /\ Released = count /\ Base \in Int /\ Base + Lines = count
  BY <1>1, <1>2, NumbersNow DEF Numbers
<1> QED
  BY <1>1, <1>2, <1>3, <1>4

\* The logger finds its channel empty.
LEMMA LoggerWaitsFlow ==
  ASSUME DemoTiming, Shape, Shape', SensorInv, FlowInv, LoggerReceive, filtered = 0
  PROVE  FlowInv'
<1>1. /\ LoggerRuns /\ Call /\ UNCHANGED <<sensorVars, filterVars, raw, filtered, target, count, loggerAt>>
      /\ loggerAt = "receive" /\ sensorWait # "no" /\ filterWait # "no"
  BY DEF LoggerReceive, LoggerMove, LoggerRuns, filterVars
<1>2. LoggerGoes
  BY <1>1 DEF LoggerGoes
<1>3. Lines' = Lines /\ Base' = Base /\ Held' = Held /\ Due' = Due
  BY <1>1 DEF Lines, Base, Held, Due
<1>4. Released' = Released
  BY <1>1, <1>2, <1>3, ReleasedKept
<1>5. Slack' = Slack /\ Slack = 16 * Lines + 8 * Beyond(Released, Base)
  BY <1>3, <1>4 DEF Slack, Beyond
<1>6. Released = Base + Lines /\ Todo' = 0 /\ Clock' <= 40 * (Base + Lines) + 4
  <2>1. now <= 10 * Published
    BY <1>1, SleepBound DEF FlowInv
  <2>2. Published = Base + Lines /\ Released = Base + Lines /\ Todo = 0 /\ Base \in Int /\ Lines \in Int
    BY <1>1, NothingInFlight
  <2>3. Todo' = Todo /\ Clock' <= (4 * now) + 4 /\ now \in Int /\ Clock' \in Int
    BY <1>2, OthersStay, IntsNow, IntsNext DEF Ints
  <2> QED
    BY <2>1, <2>2, <2>3
<1>7. Clock' + Todo' <= 40 * Base' + Due' + Slack'
  <2>1. Clock' + 0 <= 40 * Base + 98 + (16 * Lines + 8 * Beyond(Base + Lines, Base))
    BY <1>1, <1>6, NothingInFlight, NumbersNext, EarlyBound DEF Numbers
  <2>2. Due = 98
    BY <1>1, NothingInFlight
  <2> QED
    BY <1>3, <1>5, <1>6, <2>1, <2>2, Zenon
<1>8. LoggerClock'
  BY <1>1, <1>3, <1>4, <1>7 DEF FlowInv, LoggerClock
<1> QED
  BY <1>1, <1>2, <1>3, <1>4, <1>8, LoggerGoesOn DEF FlushPlace

\* Time passes and nobody is released.
LEMMA QuietTickFlow ==
  ASSUME DemoTiming, Shape, Shape', SensorInv, FlowInv, Tick, sensorWait' = sensorWait
  PROVE  FlowInv'
<1>1. /\ UNCHANGED <<sensorAt, release, dropped, filterVars, loggerVars, raw, filtered>>
      /\ now' = now + 1 /\ calls' = 0
  BY DEF Tick
<1>2. /\ InHand' = InHand /\ Fresh' = Fresh /\ Sending' = Sending /\ Held' = Held /\ Lines' = Lines /\ Due' = Due
      /\ SensorTodo' = SensorTodo /\ FilterTodo' = FilterTodo /\ FilterBusy' = FilterBusy
  <2>1. InHand' = InHand /\ Fresh' = Fresh /\ Sending' = Sending /\ Held' = Held
    BY <1>1 DEF InHand, Fresh, Sending, Held, filterVars, loggerVars
  <2>2. Lines' = Lines /\ Due' = Due
    BY <1>1 DEF Lines, Due, loggerVars
  <2>3. SensorTodo' = SensorTodo
    BY <1>1 DEF SensorTodo
  <2>4. FilterTodo' = FilterTodo /\ FilterBusy' = FilterBusy
    BY <1>1 DEF FilterTodo, FilterBusy, filterVars
  <2> QED
    BY <2>1, <2>2, <2>3, <2>4
<1>3. Published' = Published /\ Released' = Released /\ Base' = Base /\ Todo' = Todo /\ Slack' = Slack
  BY <1>1, <1>2 DEF Published, Released, Base, Todo, Slack, loggerVars
<1>4. FlowOK' /\ NothingDropped'
  BY <1>1, <1>2, <1>3 DEF FlowInv, FlowOK, NothingDropped, filterVars, loggerVars
<1>5. CASE calls = MinCalls
  <2>1. Clock' = Clock
    BY <1>1, <1>5 DEF Clock, DemoTiming, Shape
  <2>2. LoggerClock' /\ BurstClock'
    BY <1>1, <1>2, <1>3, <2>1 DEF FlowInv, LoggerClock, BurstClock, filterVars, loggerVars
  <2> QED
    BY <1>4, <2>2 DEF FlowInv
<1>6. CASE NobodyRuns
  <2>1. sensorWait # "no" /\ filterWait # "no" /\ filtered = 0 /\ loggerAt = "receive"
    BY <1>6 DEF NobodyRuns, Shape, LoggerShape
  <2>2. /\ Todo = 0 /\ Released = count /\ Lines >= 0 /\ Lines <= 4 /\ Lines \in Int /\ Base \in Int
        /\ Base + Lines = count /\ Due = 98 /\ Published = count /\ filterAt = "receive"
    BY <2>1, NothingInFlight
  <2>3. now + 1 <= 10 * Published
    <3>1. sensorWait' # "no" /\ SensorInv /\ FlowOK'
      BY <1>4, <2>1
    <3>2. left # 1
      BY <2>1 DEF Tick
    <3>3. sensorAt = "start" /\ left \in Int /\ left >= 1 /\ now \in Int /\ release \in Int
      BY <2>1 DEF Shape, SensorShape
    <3>4. now - release + left = 0 \/ now - release + left = 1
      BY <2>1, <3>3 DEF SensorInv, SensorClock
    <3>5. release = 10 * Published
      BY <2>1, SleepBound DEF FlowInv
    <3>6. Published \in Int
      BY NumbersNow DEF Numbers
    <3> QED
      BY <3>2, <3>3, <3>4, <3>5, <3>6
  <2>4. Clock' \in Int /\ Clock' <= 40 * (Base + Lines) + 4
    <3>1. now \in Int /\ Clock' = 4 * (now + 1)
      BY <1>1 DEF Clock, Shape
    <3>2. now + 1 <= 10 * (Base + Lines) /\ Base \in Int /\ Lines \in Int
      BY <2>2, <2>3
    <3> QED
      BY <3>1, <3>2
  <2>5. Clock' + 0 <= 40 * Base + 98 + (16 * Lines + 8 * Beyond(Base + Lines, Base))
    BY <2>2, <2>4, EarlyBound
  <2>6. Slack = 16 * Lines + 8 * Beyond(Released, Base) /\ Released = Base + Lines
    BY <2>2 DEF Slack, Beyond
  <2>7. Clock' + Todo' <= 40 * Base' + Due' + Slack'
    BY <1>2, <1>3, <2>2, <2>5, <2>6, Zenon
  <2>8. LoggerClock'
    BY <1>1, <1>2, <1>3, <2>1, <2>7 DEF FlowInv, LoggerClock, filterVars, loggerVars
  <2>9. BurstClock'
    BY <1>1, <1>2, <2>1, <2>2 DEF BurstClock, FilterBusy, filterVars
  <2> QED
    BY <1>4, <2>8, <2>9 DEF FlowInv
<1> QED
  BY <1>5, <1>6 DEF Tick

\* The sensor is released: when, and what then is to be done.
LEMMA ReleaseFacts ==
  ASSUME DemoTiming, Shape, Shape', SensorInv, FlowInv, Tick, sensorWait # "no", sensorWait' = "no"
  PROVE  /\ sensorAt = "start" /\ Fresh = 0 /\ InHand'
         /\ Released' = Released + 1 /\ Published' = Published /\ Base' = Base /\ Lines' = Lines
         /\ Held' = Held /\ Due' = Due /\ Todo' = Todo + 8
         /\ Clock' >= 40 * Released /\ Clock' <= 40 * Released + 4
         /\ calls = MinCalls => Clock' = Clock
<1>1. /\ UNCHANGED <<sensorAt, release, dropped, filterVars, loggerVars, raw, filtered>>
      /\ now' = now + 1 /\ calls' = 0 /\ left = 1 /\ sensorAt = "start"
  BY DEF Tick, Shape, SensorShape
<1>2. /\ InHand' /\ Fresh = 0 /\ Fresh' = 1 /\ Sending' = Sending /\ Held' = Held /\ Lines' = Lines /\ Due' = Due
      /\ SensorTodo' = 5 /\ SensorTodo = 0 /\ FilterTodo' = FilterTodo
  BY <1>1 DEF InHand, Fresh, Sending, Held, Lines, Due, SensorTodo, FilterTodo, filterVars, loggerVars
<1>3. Published' = Published /\ Base' = Base
  BY <1>1, <1>2 DEF Published, Base, loggerVars
<1>4. Released' = Released + 1 /\ Released = Published
  BY <1>2, <1>3, NumbersNow DEF Released, Numbers
<1>5. Todo' = Todo + 8
  BY <1>1, <1>2, NumbersNow DEF Todo, Numbers
<1>6. now \in Int /\ Clock' = 4 * (now + 1) /\ (calls = MinCalls => Clock' = Clock)
  BY <1>1 DEF Clock, DemoTiming, Shape
<1>7. Published \in Int /\ now + 1 >= 10 * Published /\ now + 1 <= 10 * Published + 1
  BY <1>1, <1>6, SleepBound, NumbersNow DEF Numbers, FlowInv
<1> QED
  BY <1>1, <1>2, <1>3, <1>4, <1>5, <1>6, <1>7

\* The filter has nothing left to do by then.
LEMMA ReleaseFindsFilterWaiting ==
  ASSUME DemoTiming, Shape, Shape', SensorInv, FlowInv, Tick, sensorWait # "no", sensorWait' = "no"
  PROVE  filterWait = "receive" /\ filterAt = "receive" /\ Todo = 0 /\ raw = 0
<1>1. CASE filterWait = "no"
  <2>1. calls = MinCalls
    BY <1>1 DEF Tick, NobodyRuns
  <2>2. Clock + Todo <= 40 * (Released - 1) + 39 /\ Clock >= 40 * Released
    BY <1>1, <2>1, ReleaseFacts DEF FlowInv, BurstClock
  <2> QED
    BY <2>2, NumbersNow DEF Numbers
<1>2. CASE filterWait = "send"
  <2>1. filtered = Capacity /\ Released = Base + 3 /\ Lines = 0 /\ Held = 0 /\ Todo = 2
    BY <1>2, Alone
  <2>2. calls = MinCalls
    BY <2>1 DEF Tick, NobodyRuns, DemoTiming, Shape, LoggerShape
  <2>3. Clock >= 40 * Released
    BY <2>2, ReleaseFacts
  <2>4. Due <= 98
    BY <2>1, DueFacts
  <2>5. Slack = 0
    BY <2>1, NumbersNow DEF Slack, Numbers
  <2>6. Clock + Todo <= 40 * Base + Due + Slack
    BY DEF FlowInv, LoggerClock
  <2> QED
    BY <2>1, <2>3, <2>4, <2>5, <2>6, NumbersNow DEF Numbers
<1> QED
  BY <1>1, <1>2, Alone DEF Shape, FilterShape

\* The logger is within its bound, and the channel has room.
LEMMA ReleaseInTime ==
  ASSUME DemoTiming, Shape, Shape', SensorInv, FlowInv, Tick, sensorWait # "no", sensorWait' = "no"
  PROVE  /\ loggerAt # "flush"
         /\ 2 * ((Released + 1) - Base - 3) <= Lines + Held
         /\ Clock' + 8 <= 40 * Base + Due + (16 * Lines + 8 * Beyond(Released + 1, Base))
<1>1. Released \in Int /\ Base \in Int /\ Lines \in Int /\ 0 <= Lines /\ Held \in Int /\ Due \in Int /\ Clock' \in Int
  BY IntsNow, IntsNext DEF Ints
<1>2. Clock' >= 40 * Released /\ Clock' <= 40 * Released + 4 /\ (calls = MinCalls => Clock' = Clock)
  BY ReleaseFacts
<1>3. filterWait = "receive" /\ Todo = 0
  BY ReleaseFindsFilterWaiting
<1>4. CASE loggerWait = "no"
  <2>1. Clock' = Clock
    BY <1>2, <1>4 DEF Tick, NobodyRuns
  <2>2. Clock' + 0 <= 40 * Base + Due + (16 * Lines + 8 * Beyond(Released, Base))
    BY <1>3, <2>1 DEF FlowInv, LoggerClock, Slack, Beyond
  <2>3. loggerAt # "flush"
    <3>1. SUFFICES ASSUME loggerAt = "flush" PROVE FALSE
      OBVIOUS
    <3>2. Released = Base /\ Lines = 0 /\ Due = 0 - 6
      BY <3>1 DEF FlowInv, LoggerClock, Lines, Due, FlushPlace
    <3>3. Beyond(Released, Base) = 0
      BY <1>1, <3>2 DEF Beyond
    <3>4. Clock' + 0 <= 40 * Base + (0 - 6) + (16 * 0 + 8 * 0) /\ Clock' >= 40 * Base
      BY <1>2, <2>2, <3>2, <3>3, Zenon
    <3> QED
      BY <1>1, <3>4, FlushBound, Zenon
  <2>4. Due >= 94 /\ ((Held = 0 /\ Due <= 98) \/ (Held = 1 /\ Due <= 112))
    BY <2>3, DueFacts
  <2>5. Released >= Base + Lines
    BY NumbersNow DEF Numbers
  <2> QED
    BY <1>1, <1>2, <2>2, <2>3, <2>4, <2>5, ReleaseBound, ZenonT(40)
<1>5. CASE loggerWait # "no"
  <2>1. filtered = 0 /\ loggerAt = "receive"
    BY <1>5 DEF Shape, LoggerShape
  <2>2. Released = Base + Lines /\ Lines <= 4 /\ Held = 0 /\ Due = 98
    BY <1>3, <2>1, NothingInFlight
  <2>3. /\ Clock' + 8 <= 40 * Base + 98 + (16 * Lines + 8 * Beyond(Base + Lines + 1, Base))
        /\ 2 * ((Base + Lines + 1) - Base - 3) <= Lines
    BY <1>1, <1>2, <2>2, EarlyBound
  <2> QED
    BY <1>1, <2>1, <2>2, <2>3
<1> QED
  BY <1>4, <1>5

\* The sensor is released.
LEMMA ReleaseFlow ==
  ASSUME DemoTiming, Shape, Shape', SensorInv, FlowInv, Tick, sensorWait # "no", sensorWait' = "no"
  PROVE  FlowInv'
<1>1. UNCHANGED <<sensorAt, release, dropped, filterAt, filterWait, loggerAt, target, count, raw>>
  BY DEF Tick, filterVars, loggerVars
<1>2. filterWait = "receive" /\ filterAt = "receive" /\ Todo = 0 /\ raw = 0
  BY ReleaseFindsFilterWaiting
<1>3. /\ sensorAt = "start" /\ Fresh = 0 /\ InHand'
      /\ Released' = Released + 1 /\ Published' = Published /\ Base' = Base /\ Lines' = Lines
      /\ Held' = Held /\ Due' = Due /\ Todo' = 8 /\ Clock' <= 40 * Released + 4
  BY <1>2, ReleaseFacts
<1>4. FlowOK' /\ NothingDropped'
  BY <1>1, <1>2, <1>3 DEF FlowInv, FlowOK, NothingDropped
<1>5. Slack' = 16 * Lines + 8 * Beyond(Released + 1, Base)
  BY <1>3 DEF Slack, Beyond
<1>6. /\ Clock' + Todo' <= 40 * Base' + Due' + Slack'
      /\ 2 * (Released' - Base' - 3) <= Lines' + Held'
  BY <1>3, <1>5, ReleaseInTime, Zenon
<1>7. Slack <= Slack'
  BY <1>3, NumbersNow DEF Numbers, Slack
<1>8. loggerAt = "working" => 4 * target' <= 40 * Base' + 108 + Slack'
  <2>1. loggerAt = "working" => 4 * target <= 40 * Base + 108 + Slack
    BY DEF FlowInv, LoggerClock
  <2> QED
    BY <1>1, <1>3, <1>7, <2>1, IntsNow, IntsNext DEF Ints
<1>9. loggerAt = "flushing" => 4 * target' <= 40 * Base' + 92
  BY <1>1, <1>3 DEF FlowInv, LoggerClock
<1>10. LoggerClock'
  BY <1>1, <1>6, <1>8, <1>9, ReleaseInTime DEF LoggerClock
<1>11. Clock' + Todo' <= 40 * (Released' - 1) + 12
  BY <1>3, IntsNow, IntsNext DEF Ints
<1>12. BurstClock'
  BY <1>1, <1>2, <1>11 DEF BurstClock
<1> QED
  BY <1>4, <1>10, <1>12 DEF FlowInv

-----------------------------------------------------------------------------
(* Nothing is dropped *)

\* Initially: the first reading is due at once, the channels are empty.
LEMMA FlowInit ==
  ASSUME DemoTiming, Init
  PROVE  FlowInv
<1>1. /\ InHand /\ Fresh = 1 /\ Sending = 0 /\ Held = 0 /\ Lines = 0 /\ Due = 98 /\ SensorTodo = 6 /\ FilterTodo = 2
      /\ Clock = 0 /\ FilterBusy
  BY DEF Init, InHand, Fresh, Sending, Held, Lines, Due, SensorTodo, FilterTodo, Clock, FilterBusy,
         HoldsReading, FlushPlace
<1>2. Published = 0 /\ Released = 1 /\ Base = 0 /\ Todo = 11
  BY <1>1 DEF Init, Published, Released, Base, Todo
<1>3. Slack = 0
  BY <1>1, <1>2 DEF Slack
<1>4. FlowOK /\ NothingDropped
  BY <1>1, <1>2 DEF Init, FlowOK, NothingDropped, FlushPlace
<1>5. LoggerClock /\ BurstClock
  BY <1>1, <1>2, <1>3 DEF Init, LoggerClock, BurstClock
<1> QED
  BY <1>4, <1>5 DEF FlowInv

\* Every step keeps the readings accounted for and the bounds met.
LEMMA FlowStep ==
  ASSUME DemoTiming, TimetableInv, [Next]_vars
  PROVE  TimetableInv'
<1>1. SensorFits
  BY DEF DemoTiming, SensorFits
<1>2. Shape /\ SensorInv /\ FlowInv /\ Shape' /\ SensorInv'
  BY <1>1, ShapeStep, SensorInvStep DEF TimetableInv
<1>3. CASE SensorStep
  BY <1>2, <1>3, SensorQuietFlow, PublishFlow DEF SensorStep, TimetableInv
<1>4. CASE FilterStep
  BY <1>2, <1>4, FilterLogsFlow, FilterReceiveFlow, FilterSendFlow, FilterBlocksFlow DEF FilterStep, TimetableInv
<1>5. CASE LoggerStep
  BY <1>2, <1>5, LoggerTakesFlow, LoggerWaitsFlow, LoggerWorksFlow DEF LoggerStep, TimetableInv, Shape
<1>6. CASE Tick
  <2>1. sensorWait' = sensorWait \/ (sensorWait # "no" /\ sensorWait' = "no")
    BY <1>6 DEF Tick
  <2> QED
    BY <1>2, <1>6, <2>1, QuietTickFlow, ReleaseFlow DEF TimetableInv
<1>7. CASE UNCHANGED vars
  <2>1. /\ InHand' = InHand /\ Fresh' = Fresh /\ Sending' = Sending /\ Held' = Held /\ Lines' = Lines /\ Due' = Due
        /\ SensorTodo' = SensorTodo /\ FilterTodo' = FilterTodo /\ FilterBusy' = FilterBusy /\ Clock' = Clock
    <3>1. InHand' = InHand /\ Fresh' = Fresh /\ Sending' = Sending /\ Held' = Held
      BY <1>7 DEF vars, sensorVars, filterVars, loggerVars, InHand, Fresh, Sending, Held
    <3>2. Lines' = Lines /\ Due' = Due
      BY <1>7 DEF vars, loggerVars, Lines, Due
    <3>3. SensorTodo' = SensorTodo
      BY <1>7 DEF vars, sensorVars, SensorTodo
    <3>4. FilterTodo' = FilterTodo /\ FilterBusy' = FilterBusy /\ Clock' = Clock
      BY <1>7 DEF vars, filterVars, FilterTodo, FilterBusy, Clock
    <3> QED
      BY <3>1, <3>2, <3>3, <3>4
  <2>2. Published' = Published /\ Released' = Released /\ Base' = Base /\ Todo' = Todo /\ Slack' = Slack
    BY <1>7, <2>1 DEF vars, loggerVars, Published, Released, Base, Todo, Slack
  <2>3. FlowOK' /\ NothingDropped'
    BY <1>2, <1>7, <2>1, <2>2, Zenon DEF FlowInv, FlowOK, NothingDropped, vars, sensorVars, filterVars, loggerVars
  <2>4. LoggerClock' /\ BurstClock'
    BY <1>2, <1>7, <2>1, <2>2, Zenon DEF FlowInv, LoggerClock, BurstClock, vars, sensorVars, filterVars, loggerVars
  <2>5. FlowInv'
    BY <2>3, <2>4 DEF FlowInv
  <2> QED
    BY <1>2, <2>5 DEF TimetableInv
<1> QED
  BY <1>3, <1>4, <1>5, <1>6, <1>7 DEF Next

\* A flush begins with nothing in flight.
LEMMA FlushKeepsUp ==
  ASSUME DemoTiming, TimetableInv
  PROVE  KeepsUp
<1>1. SUFFICES ASSUME loggerAt = "flush"
               PROVE  raw = 0 /\ filtered = 0 /\ filterWait = "receive"
  BY DEF KeepsUp
<1>2. Released = Base /\ filterWait # "no" /\ Shape
  BY <1>1 DEF TimetableInv, FlowInv, LoggerClock
<1>3. raw = 0 /\ filtered = 0
  <2>1. /\ raw \in Nat /\ Sending \in Nat /\ filtered \in Nat /\ Held \in Nat /\ count \in Nat /\ Fresh \in Nat
        /\ Lines \in Nat /\ Base \in Int /\ Base + Lines = count
    BY <1>2, NumbersNow DEF Numbers
  <2>2. Base = raw + Sending + filtered + Held + count + Fresh
    BY <1>2, NumbersNow DEF Numbers
  <2> QED
    BY <2>1, <2>2
<1> QED
  BY <1>2, <1>3 DEF Shape, FilterShape, DemoTiming

\* The readings of the demo are all accounted for: at any time none has been
\* dropped, and a flush starts only when the logger has caught up.
THEOREM TimetableAlways ==
  ASSUME DemoTiming
  PROVE  Spec => [](NothingDropped /\ KeepsUp)
<1>1. Init => TimetableInv
  <2>1. SensorFits
    BY DEF DemoTiming, SensorFits
  <2> QED
    BY <2>1, FlowInit, ShapeInit, SensorInvInit DEF TimetableInv
<1>2. TimetableInv /\ [Next]_vars => TimetableInv'
  BY FlowStep
<1>3. TimetableInv => NothingDropped /\ KeepsUp
  BY FlushKeepsUp DEF TimetableInv, FlowInv
<1> QED
  BY <1>1, <1>2, <1>3, PTL DEF Spec

=============================================================================
