-------------------------- MODULE MCScopeCandidates --------------------------
(* Instances of ScopeCandidates for TLC: a company and its subsidiary, and    *)
(* one domain that is proposed for either.                                    *)
EXTENDS ScopeCandidates, TLC

MCParents == [acme |-> {}, sub |-> {"acme"}]
MCRootOf == [c1 |-> "acme", c2 |-> "sub"]
MCValueOf == [c1 |-> "v1", c2 |-> "v1"]
MCSymmetry == Permutations(Engagements) \cup Permutations(Desks)
==============================================================================
