SPECIFICATION Spec
CONSTANTS
  Ids = {r1, r2}
  NoId = noId
  Bodies <- MCBodies
  MaxRevision = 4
  Threads = {"main", "worker"}
  Fallible = {}
  MaxFaults = 0
  MaxProgress = 1
  ProfileMayFail = FALSE
INVARIANT DeathIsFinal
