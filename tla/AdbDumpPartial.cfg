SPECIFICATION Spec
CONSTANTS
  Parts = {1, 2}
  Requests = {}
  DiskSize = 0
INVARIANT NoPartialDump
CHECK_DEADLOCK FALSE
