CONSTANTS
  Threads <- ThreeThreads
  Main = main
  Third = third
  Other = other
  Timer = timer
  Pipe = pipe
SPECIFICATION FairSpec
INVARIANTS TidIsCurrent OneForEach
PROPERTIES PollfdsStayInPoll LoopEndsOrReads
