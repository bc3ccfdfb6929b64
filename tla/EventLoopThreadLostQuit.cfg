CONSTANTS
  main = main
  user = user
  c1 = c1
  Owner = main
  OwnerWaits = FALSE
  WakeupChannel = wakeupChannel
  NoChannel = noChannel
  Callers <- OwnerOnly
  Channels <- NoChannels
  PostContexts <- InLoopOnly
  MaxPosts = 0
  MaxQuits = 0
SPECIFICATION ThreadFairSpec
PROPERTY DestructorReturns
