\* A rejection, and a new kind of evidence, between two commits of process_zone.
SPECIFICATION ScopeSpec
CONSTANTS
  Entities = {"acme", "sub"}
  Engagements = {g1}
  Values = {"v1"}
  Desks = {d1, d2}
  Parents <- MCParents
  NoEntity = "nobody"
  MaxCalls = 2
  Candidates = {"c1", "c2"}
  RootOf <- MCRootOf
  ValueOf <- MCValueOf
  ConnectorRoots = {"acme"}
SYMMETRY MCSymmetry
PROPERTIES RejectionOutranksConnector
\* the requests come to an end
CHECK_DEADLOCK FALSE
