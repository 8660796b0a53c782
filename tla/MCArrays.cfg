SPECIFICATION Spec
CONSTANTS
  Threads = {t1, t2}
  v1 = v1
  v2 = v2
  VolumeNames = {v1, v2}
  SizeOf <- Small
  SnapshotNames = {s1, s2}
  None = None
  Ids = {1, 2, 3}
  Sizes = {1, 2}
  RollbackTries = 2
  MaxFaults = 1
  MaxCalls <- Calls
  MapVolumes = {x1, x2}
  Exclusive = {x1}
  Hosts = {h1, h2, h3}
  Clustered = {h1, h2}
  Luns = {0, 1}
  MaxLunRetries = 2
  GroupNames = {g1, g2}
  GroupVolumes = {x1, x2}
  Variants = {p1, p2}
  f1 = f1
  f2 = f2
  i1 = i1
  n1 = n1
  PortType <- Types
  NodePorts = {{f1, i1}, {f1, f2, n1}}
  IoGroups = {g0, g9}
  Partition = q
  ds = ds
  sv = sv
  e1 = e1
  e2 = e2
  e3 = e3
  y1 = y1
  y2 = y2
  Storage = {ds, sv}
  AddressesOf <- Addresses
  TypesAt <- Answering
  SystemOrder <- Order
  StorageOf <- Placed
  Zones = {z1, z2}
  Passwords = {1, 2}
  RoutedNames = {v1, v2}
  PoolSystems <- Pools
  MaxChanges = 1
SYMMETRY Symmetry
INVARIANTS TypeOK ReportedStays DeletedIsGone NameOnce ReportedAsAsked
  ExclusiveIsMappedOnce AccessAsAnswered MembersAsAnswered ReplicatedAsAnswered
  HostsAsAnswered ServedByItsOwn
