SPECIFICATION Spec
CONSTANTS
  Threads = {t1, t2}
  VolumeNames = {n1, n2}
  SnapshotNames = {s1}
  None = None
  MaxVdisks = 3
  RollbackTries = 2
  MaxFailures = 0
  MaxCrashes = 1
SYMMETRY Symmetry
INVARIANTS HasDataAfterRestart
