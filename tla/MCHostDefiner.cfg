SPECIFICATION Spec
CONSTANTS
  Nodes = {n1}
  Secrets = {s1}
  Ports = {a, b}
  Refusable = {a, b}
  None = None
  HdIds = {d1, d2}
  Workers = {w1, w2, w3}
  Tries = 2
  MaxClasses = 1
  MaxEvents = 2
  MaxFailures = 1
  MaxMissed = 1
  MaxRestarts = 1
SYMMETRY Symmetry
CONSTRAINT LostOrRestarted
CHECK_DEADLOCK FALSE
INVARIANTS TypeOK ReadyHasHost
PROPERTIES AvoidsDeletion PendingIsTried
