SPECIFICATION Spec
CONSTANTS
  r1 = r1
  r2 = r2
  Requests = {r1}
  Names <- MCNames
  LogNames <- MCNames
  Segments <- MCSegments
  MaxSegments = 3
  FileSystems <- MCFileSystems
  MaxChanges = 1
INVARIANTS
  Inv
  OutermostAnswers
  NoAppMissed
CHECK_DEADLOCK FALSE
