\* One verification, no fault: a cancel that is overwritten.
SPECIFICATION Spec
CONSTANTS
  Runs = {"v"}
  KindOf <- MCVerify
  ChunksOf <- MCOneChunk
  RunningTimeout = 2
  PendingTimeout = 1
  LaunchHorizon = 1
  MaxClock = 2
  MaxFaults = 0
INVARIANTS CancelledNeverResolves
