SPECIFICATION Spec
CONSTANTS
  Ids = {p1}
  NoId = noId
  Bodies = {a, b}
  MaxRevision = 3
  Threads = {"main"}
  Fallible = {"write", "rename"}
  MaxFaults = 2
  MaxDamage = 1
INVARIANTS LastKnownGood NeverStartedOver
PROPERTY ImplementsRegister
