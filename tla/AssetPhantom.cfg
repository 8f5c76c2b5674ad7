\* One port, one run at a time, nothing from Shodan: a sweep, the normaliser,
\* and a sweep that misses the port.
SPECIFICATION ClaimsSpec
CONSTANTS
  Ports = {p1, p2}
  ShodanPorts = {}
  Rungs = {}
  PromotingRungs = {}
  Workers = {w1}
  NoWorker = NoWorker
  ConfirmedGrace = 1
  ShodanGrace = 1
  MaxDay = 3
  MaxInputs = 3
INVARIANTS ClosedPortRetires
CHECK_DEADLOCK FALSE
