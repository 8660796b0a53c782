SPECIFICATION FairPoolSpec
CONSTANTS
  Workers = {t1, t2, t3}
  Conns = {c1, c2, c3, c4}
  NoConn = NoConn
  MaxSize = 2
  CreateMayFail = TRUE
  TimedWorkers = {t3}
CHECK_DEADLOCK FALSE
INVARIANTS PoolTypeOK OnePlace
PROPERTIES WaiterIsOffered CloseEnds
