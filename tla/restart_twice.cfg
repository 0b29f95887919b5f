SPECIFICATION Spec
CONSTANTS
  Parent = parent
  Requests = {r1, r2}
  Machines = {m1}
  NoOne = noone
  MaxFaults = 0
INVARIANT UsersKept
CHECK_DEADLOCK FALSE
