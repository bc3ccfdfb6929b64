CONSTANTS
  user = user
  MaxThreads = 1
  MaxClients = 1
  MaxFds = 2
  Users <- OneUser
  UsersDrop = TRUE
  UsersStart = FALSE
  UsersOpen = FALSE
  MaxCalls = 1
  MayDestroy = FALSE
SPECIFICATION Spec
INVARIANT NoUseAfterFree
CHECK_DEADLOCK FALSE
