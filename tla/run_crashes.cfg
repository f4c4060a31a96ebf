SPECIFICATION FairSpec
CONSTANTS
  Ids = {r1, r2}
  NoId = noId
  Bodies <- MCBodies
  MaxRevision = 4
  Threads = {"main", "worker"}
  Fallible = {"write", "remove"}
  MaxFaults = 1
  MaxProgress = 1
  ProfileMayFail = TRUE
INVARIANTS OneWriter CheckpointKept ArchivedBeforeRemoved NoSplitBrain
PROPERTY WaitEnds
