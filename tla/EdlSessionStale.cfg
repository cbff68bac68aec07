SPECIFICATION Spec
CONSTANTS
  c1 = c1
  c2 = c2
  u1 = u1
  u2 = u2
  Cmds <- MCCmds
  Units <- MCUnits
  NoUnit = NoUnit
  MaxPlugs = 2
INVARIANT CacheIsCurrent
CHECK_DEADLOCK FALSE
