CONSTANTS
  c1 = c1
  c2 = c2
  c3 = c3
  Conns <- MCConns
  Stallers <- MCStallers
  Workers = 2
  FdLimit = 4
  FailingSites = {"accept"}
SPECIFICATION LiveSpec
INVARIANT TypeOK
PROPERTY SessionsFinish
CHECK_DEADLOCK FALSE
