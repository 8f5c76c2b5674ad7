\* An asset's ports, its other facts, the gates over three assets, and a company
\* with one registrant and two runs, a rule with one alert: each on its own.
SPECIFICATION RecordsSpec
CONSTANTS
  Ports = {p1, p2}
  ShodanPorts = {p1, p2}
  Rungs = {"tls", "reverse_ip"}
  PromotingRungs = {"tls"}
  Workers = {w1, w2}
  NoWorker = NoWorker
  ConfirmedGrace = 1
  ShodanGrace = 2
  MaxDay = 2
  MaxInputs = 2
  Hostnames = {"corp", "www", "vendor"}
  Addresses = {"a1", "a2"}
  Ranges = {"net"}
  NamesAbove <- MCNamesAbove
  NetOf <- MCNetOf
  Assets <- MCAssets
  Deals = {g}
  NoDeal = NoDeal
  NoParent = "none"
  MaxChanges = 3
  Companies = {e1}
  Ciks = {k1}
  MaxRuns = 2
  Nobody = Nobody
  QueuedTimeout = 1
  RunningTimeout = 2
  MaxAge = 7
  MaxMishaps = 1
  Alerts = {al}
  DigestMax = 2
  Day = 2
  Grace = 1
  FirstFloor = 2
  StalePending = 0
  MaxAttempts = 1
  MaxLag = 0
  MaxRun = 1
  MaxHour = 4
  MaxLosses = 2
  MaxEdits = 1
SYMMETRY MCRecordsSymmetry
INVARIANTS RecordsTypeOK RowTellsOneStory GatesAgree 
INVARIANTS OneWriter ChainedStaysHome CikFreed PeriodsCovered 
PROPERTIES PartialSweepKeeps FoundPortsShown ConfirmedSurvivesMiss HeldBackIsDigested
\* the batches, changes and requests come to an end
CHECK_DEADLOCK FALSE
