SPECIFICATION Spec
CONSTANTS
  t1 = t1
  t2 = t2
  c1 = c1
  c2 = c2
  c3 = c3
  Threads <- MCThreads
  Conns <- MCConns
  NoThread = NoThread
  NoConn = NoConn
  Refuses = TRUE
  MaxReplugs = 1
PROPERTY JoinEnds
CHECK_DEADLOCK FALSE
