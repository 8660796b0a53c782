SPECIFICATION Spec
CONSTANTS
  Nodes = {n1}
  Secrets = {s1}
  Ports = {a, b}
  Refusable = {}
  None = None
  HdIds = {d1, d2}
  Workers = {w1, w2}
  Tries = 2
  MaxClasses = 1
  MaxEvents = 2
  MaxFailures = 1
  MaxMissed = 0
  MaxRestarts = 0
SYMMETRY Symmetry
CHECK_DEADLOCK FALSE
INVARIANTS ReadyIsDefined
