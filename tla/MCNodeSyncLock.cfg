SPECIFICATION FairSpec
CONSTANTS
  Threads = {t1, t2, t3}
  Volumes = {v1, v2, v3}
  Luns = {l1, l2}
  NoLun = NoLun
  None = None
  MaxInvocations = 2
  CleanScsiDevice = TRUE
INVARIANTS TypeOK NoOrphanKey
PROPERTIES RequestsReturn ImplementsPromise
