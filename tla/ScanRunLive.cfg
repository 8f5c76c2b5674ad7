\* One scan that anything may happen to, under the fairness of the reaper.
SPECIFICATION LiveSpec
CONSTANTS
  Runs = {"s"}
  KindOf <- MCScan
  ChunksOf <- MCScanChunks
  RunningTimeout = 2
  PendingTimeout = 1
  LaunchHorizon = 3
  MaxClock = 7
  MaxFaults = 2
PROPERTIES RunEnds KeepsRunLifecycle
