SPECIFICATION FairStart
CONSTANTS
  Configs <- MCConfigs
  MaxKills <- MCMaxKills
  MaxAttempts = 1
  MaxVisits = 1
INVARIANTS
  StartInv
PROPERTIES
  LogKept
  ProcessEnds
  PromiseIsSettled
  ImplementsWorkerLife
CHECK_DEADLOCK FALSE
