\* The weekly sweep and a person request two candidates of one domain.
SPECIFICATION Spec
CONSTANTS
  Captures = {1, 2}
  Candidates = {"a", "b"}
  DomainOf <- MCDomainOf
  Requesters = {"api", "sweep"}
  AutoRequesters = {"sweep"}
  Workers = {"w1"}
  QTimeouts = {1}
  QTimeoutMax = 1
  RunMargin = 1
  ClaimSkew = 0
  StoreSkew = 0
  ResultMinAge = 0
  RevisitWindow = 1
  KeepCount = 1
  Bodies = {"page"}
  LogModes = {"stdout"}
  RequestHorizon = 1
  MaxClock = 2
  MaxFaults = 0
PROPERTIES AutoBudget
