SPECIFICATION FairSpec
CONSTANTS
  Parent = parent
  Requests = {r1, r2}
  Machines = {m1}
  NoOne = noone
  MaxFaults = 1
INVARIANTS Inherited RulesRebuilt ParentOutlivesFailure UsersKeptByOne
PROPERTY RestartCompletes
CHECK_DEADLOCK FALSE
