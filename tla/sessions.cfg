SPECIFICATION Spec
CONSTANTS
  a1 = a1  a2 = a2  m1 = m1  m2 = m2  x1 = x1  x2 = x2
  h1 = h1  h2 = h2  sync = sync  free = free
  Handlers = {h1, h2}
  Sync = sync
  Free = free
  Ips = {a1}
  Macs = {m1}
  Tokens = {x1}
  ArpAnswers <- ArpOne
  Mentions <- MentionsExact
  FinalCode <- LongRun
  QuietIps <- LongRunQuiet
  Worlds = {}
  MaxId = 2
  MaxFaults = 0
SYMMETRY Symmetry
INVARIANTS TypeOK AccessNeedsGrant SessionsUnique NodesAccounted LogoutReportedOnce OutgoingMatchesList IncomingMatchesList
PROPERTIES NoServiceGap ImplementsSessions
