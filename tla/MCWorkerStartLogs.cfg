SPECIFICATION StartSpec
CONSTANTS
  Configs <- MCShiny
  MaxKills <- MCMaxKills
  MaxAttempts = 1
  MaxVisits = 1
INVARIANTS
  DeletedWasSuccessful
CHECK_DEADLOCK FALSE
