SPECIFICATION Spec
CONSTANTS
  r1 = r1
  r2 = r2
  Requests = {r1}
  Names <- MCNames
  LogNames <- MCNames
  Segments <- MCSegments
  MaxSegments = 2
  FileSystems <- MCFileSystems
  MaxChanges = 0
INVARIANTS
  ForbiddenIsLog
CHECK_DEADLOCK FALSE
