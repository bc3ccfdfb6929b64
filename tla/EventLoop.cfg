CONSTANTS
  t1 = t1
  t2 = t2
  c1 = c1
  c2 = c2
  WakeupChannel = wakeupChannel
  NoChannel = noChannel
  Callers <- MCCallers
  Channels <- MCChannels
  PostContexts <- InLoopOnly
  MaxPosts = 3
  MaxQuits = 1
SPECIFICATION FairSpec
INVARIANTS NoLostWakeup NoFunctorLost OnlyRegisteredDispatched
PROPERTIES ImplementsQueue EveryFunctorRuns QuitStopsLoop
