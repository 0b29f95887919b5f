SPECIFICATION Spec
CONSTANTS
  Starts <- AllStarts
  MaxLines = 6
INVARIANTS ServersAsWritten RulesAsWritten TrustedAsListed StartsComplete RestartKeepsConfiguration
CHECK_DEADLOCK FALSE
