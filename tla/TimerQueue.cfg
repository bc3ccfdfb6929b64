CONSTANTS
  Timers <- ThreeTimers
  Intervals <- EveryTwo
  Delays <- One
  LastAdd = 2
  MaxTime = 5
  MaxJump = 1
SPECIFICATION FairSpec
INVARIANTS ArmedForEarliest NeverEarly
PROPERTY EveryTimerRuns
