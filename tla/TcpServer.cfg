CONSTANTS
  user = user
  MaxThreads = 2
  MaxClients = 2
  MaxFds = 3
  Users <- OneUser
  UsersDrop = FALSE
  UsersStart = TRUE
  UsersOpen = TRUE
  MaxCalls = 1
  MayDestroy = TRUE
SPECIFICATION FairSpec
INVARIANTS AssertionsHold PollerHoldsLiveChannels LifeCycle
PROPERTIES ImplementsEarly ClosedAreFreed AcceptedOrRefused
