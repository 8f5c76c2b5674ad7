\* One job, two workers, a store clock that lags by half the allowance.
SPECIFICATION Spec
CONSTANTS
  Captures = {1}
  Candidates = {"a"}
  DomainOf <- MCDomainOf
  Requesters = {"api"}
  AutoRequesters = {}
  Workers = {"w1", "w2"}
  QTimeouts = {1}
  QTimeoutMax = 1
  RunMargin = 1
  ClaimSkew = 2
  StoreSkew <- MCLagHalf
  ResultMinAge = 0
  RevisitWindow = 0
  KeepCount = 1
  Bodies = {"error"}
  LogModes = {"stdout"}
  RequestHorizon = 3
  MaxClock = 9
  MaxFaults = 1
INVARIANTS AtMostOneRun
