\* One capture through the whole pipeline, the proxy log included, one fault.
SPECIFICATION LiveSpec
CONSTANTS
  Captures = {1}
  Candidates = {"a"}
  DomainOf <- MCDomainOf
  Requesters = {"api"}
  AutoRequesters = {}
  Workers = {"w1"}
  QTimeouts = {1, 2}
  QTimeoutMax = 2
  RunMargin = 1
  ClaimSkew = 2
  StoreSkew <- MCNoLag
  ResultMinAge = 1
  RevisitWindow = 0
  KeepCount = 1
  Bodies = {"page", "error", "invalid"}
  LogModes = {"buffer", "stdout"}
  RequestHorizon = 0
  MaxClock = 5
  MaxFaults = 1
INVARIANTS TypeOK
PROPERTIES VerdictStands EvidenceOutlivesQueue QueuedResolved ResultsDrained
