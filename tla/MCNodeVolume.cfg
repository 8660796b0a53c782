SPECIFICATION Spec
CONSTANTS
  Threads = {t1, t2}
  None = None
  NoLun = NoLun
  MaxInvocations = 2
  CleanScsiDevice = TRUE
  v1 = v1
  v2 = v2
  Volumes = {v1, v2}
  l1 = l1
  l2 = l2
  Luns = {l1, l2}
  EndsWith <- Ending
  Pods = {p1}
  FsTypes = {ext4, xfs}
  DefaultFs = ext4
  Blank = Blank
  xfs = xfs
  FsOf <- RequestedFs
  MaxForced = 1
  MaxFailures = 1
SYMMETRY ThreadsAreAlike
INVARIANTS TypeOK StagesItsOwn StagedStays PublishedIsMounted UnstagedLeavesNothing
PROPERTIES DataKept
