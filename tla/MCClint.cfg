SPECIFICATION TimerSpec
CONSTANTS
  Word = 6
  TickCycles = 4
  MaxTime = 25
INVARIANTS MtimeReadIsExact NoSpuriousInterrupt NoDrift NeverLost
PROPERTIES NoBurst DueTickIsServed
