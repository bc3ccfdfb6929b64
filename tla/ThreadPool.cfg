CONSTANTS
  main = main
  poster = poster
  Owner = main
  Posters <- OnePoster
  NumThreads = 3
  Sizes = {0, 3}
  MaxTasks = 5
SPECIFICATION FairSpec
INVARIANTS NobodySleepsOnWork LatchThenStop
PROPERTIES ImplementsQueue OwnerReturns
