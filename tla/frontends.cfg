SPECIFICATION FairSpec
CONSTANTS
  c1 = c1  c2 = c2  a1 = a1  a2 = a2  m1 = m1
  Free = free
  Callers <- Threads
  Fetchers <- Threads
  Slots = {1, 2}
  Handlers = {3, 4}
  Conns = {c1, c2}
  Admins = {a1, a2}
  Machines = {m1}
  ExitCodes = {0}
  Replies <- AuthReplies
  MaxFds = 3
  MaxThreads = 2
  Secured = TRUE
  Admin <- AdminOf
  WhiteHosts = {"white"}
  Scenarios <- AllScenarios
INVARIANTS LockFreeWhileAsking DescriptorsAccounted OwnAnswer StatusProtected ResetOnce
PROPERTIES NoFalseSuccess EveryoneServed
CHECK_DEADLOCK FALSE
