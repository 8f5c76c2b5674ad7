\* Every pair of requests, in every order their steps can take, from every
\* database of this size.
SPECIFICATION ScopeSpec
CONSTANTS
  Entities = {"acme", "sub"}
  Engagements = {g1, g2}
  Values = {"v1"}
  Desks = {d1, d2}
  Parents <- MCParents
  NoEntity = "nobody"
  MaxCalls = 2
  Candidates = {"c1", "c2"}
  RootOf <- MCRootOf
  ValueOf <- MCValueOf
  ConnectorRoots = {"acme"}
SYMMETRY MCSymmetry
INVARIANTS ScopeTypeOK OursNeverSubject NoDanglingMember RejectedWeighedAll
PROPERTIES WideningNeedsReference ClaimLandsRight
\* the requests come to an end
CHECK_DEADLOCK FALSE
