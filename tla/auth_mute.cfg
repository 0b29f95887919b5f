SPECIFICATION FairSpec
CONSTANTS
  s1 = s1  s2 = s2
  Ping = ping
  Workers = {w1}
  Free = free
  ConfOrder <- Two
  Addresses = {ip1}
  ZeroAddress = zero
  HasRuleset = TRUE
  Interval = 1
  FinalHealth <- LongRun
  Worlds = {"mute"}
PROPERTY TriedUntilOneResponds
