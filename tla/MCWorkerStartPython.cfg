SPECIFICATION StartSpec
CONSTANTS
  Configs <- MCPython
  MaxKills <- MCMaxKills
  MaxAttempts = 1
  MaxVisits = 1
INVARIANTS
  StreamEnded
CHECK_DEADLOCK FALSE
