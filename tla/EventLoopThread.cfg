CONSTANTS
  main = main
  user = user
  c1 = c1
  Owner = main
  OwnerWaits = TRUE
  WakeupChannel = wakeupChannel
  NoChannel = noChannel
  Callers <- OwnerAndUser
  Channels <- OneChannel
  PostContexts <- UserContexts
  MaxPosts = 2
  MaxQuits = 1
SPECIFICATION ThreadFairSpec
PROPERTIES StartLoopContract DestructorContract
