\* Two captures that share one buffer's room, PUTs that fail, a shutdown.
SPECIFICATION LiveSpec
CONSTANTS
  Captures = {c1, c2}
  MaxLines = 3
  MaxBuffers = 1
  MaxRecords = 4
  MaxFaults = 2
INVARIANTS TypeOK CleanMeansStored ClosedMeansStored
PROPERTIES EvictionLosesOnlyFailed Uploaded
\* the process has ended
CHECK_DEADLOCK FALSE
