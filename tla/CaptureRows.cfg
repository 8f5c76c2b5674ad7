\* Two captures, two requests of one candidate racing, one worker, faults.
SPECIFICATION Spec
CONSTANTS
  Captures = {1, 2}
  Candidates = {"a"}
  DomainOf <- MCDomainOf
  Requesters = {"api1", "api2"}
  AutoRequesters = {}
  Workers = {"w1"}
  QTimeouts = {1}
  QTimeoutMax = 1
  RunMargin = 1
  ClaimSkew = 0
  StoreSkew = 0
  ResultMinAge = 0
  RevisitWindow = 0
  KeepCount = 1
  Bodies = {"page"}
  LogModes = {"stdout"}
  RequestHorizon = 1
  MaxClock = 3
  MaxFaults = 1
INVARIANTS ImagePresent
PROPERTIES PruneLeaksNothing ImplementsLifecycle
