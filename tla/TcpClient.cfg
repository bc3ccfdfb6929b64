CONSTANTS
  user = user
  main = main
  Callers <- TwoCallers
  MaxStarts = 1
  MaxStops = 3
  MaxConns = 3
SPECIFICATION FairSpec
INVARIANTS OneAtATime OneMoreAtMost
PROPERTIES AssertionsHold StopHolds Reconnects
CHECK_DEADLOCK FALSE
