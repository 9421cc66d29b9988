SPECIFICATION Spec
CONSTANTS
  r1 = r1
  r2 = r2
  Requests = {r1, r2}
  Names <- MCNames
  LogNames <- MCNames
  Segments <- MCSegmentsSpelled
  MaxSegments = 2
  FileSystems <- MCFileSystemsIndex
  MaxChanges = 0
INVARIANTS
  OneKeyPerApp
CHECK_DEADLOCK FALSE
