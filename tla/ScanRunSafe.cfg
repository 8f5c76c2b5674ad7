\* A verification of two chunks and a connector sync, one fault.
SPECIFICATION Spec
CONSTANTS
  Runs = {"v", "s"}
  KindOf <- MCTwoKinds
  ChunksOf <- MCTwoChunks
  RunningTimeout = 1
  PendingTimeout = 1
  LaunchHorizon = 1
  MaxClock = 3
  MaxFaults = 1
INVARIANTS TypeOK NoOrphanAfterSweep ResolvedAfterEveryChunk
PROPERTIES ReaperSparesYoung
