SPECIFICATION Spec
CONSTANTS
  Threads = {t1, t2}
  None = None
  v1 = v1
  v2 = v2
  v3 = v3
  h1 = h1
  h2 = h2
  Volumes = {v1, v2, v3}
  Hosts = {h1, h2}
  Wanted <- WantedPairs
  Exclusive = {v1}
  MaxLun = 0
  LunIncrement = 1
  HostLimit = 1
  LunInterval = 2
  MaxTries = 3
  MaxFailures = 1
  MaxUnreadable = 1
SYMMETRY Symmetry
INVARIANT UnpublishUnmaps
