SPECIFICATION Spec
CONSTANTS
  a1 = a1  a2 = a2  m1 = m1  m2 = m2  x1 = x1  x2 = x2
  h1 = h1  h2 = h2  sync = sync  free = free
  Handlers = {h1}
  Sync = sync
  Free = free
  Ips = {a1, a2}
  Macs = {m1, m2}
  Tokens = {x1}
  ArpAnswers <- ArpStatic
  Mentions <- MentionsPrefix
  FinalCode <- LongRun
  QuietIps <- LongRunQuiet
  Worlds = {}
  MaxId = 2
  MaxFaults = 0
INVARIANT OutgoingMatchesList
