SPECIFICATION Spec
CONSTANTS
  r1 = r1
  r2 = r2
  Requests = {r1}
  Names <- MCNames
  LogNames <- MCNames
  Segments <- MCSegments
  MaxSegments = 2
  FileSystems <- MCFileSystemsIndex
  MaxChanges = 0
INVARIANTS
  IndexIsThere
CHECK_DEADLOCK FALSE
