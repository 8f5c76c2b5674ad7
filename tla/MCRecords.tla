------------------------------ MODULE MCRecords ------------------------------
(* Instances of AssetClaims, ProbeGate, IngestRuns and AlertDigest for TLC.   *)
(* They share no state that one of them changes: a behaviour is one           *)
(* component's, `part` says which, and the others rest.                       *)
EXTENDS AssetClaims, ProbeGate, IngestRuns, AlertDigest, TLC

MCNamesAbove == [corp |-> {"corp"}, www |-> {"www", "corp"}, vendor |-> {"vendor"}]
MCNetOf == [net |-> {"a1", "a2"}]
MCAssets == [w |-> "www", x |-> "vendor", h |-> "a1"]

VARIABLE part  \* an asset's ports or its other facts, the gates, the ingests, the digests

RecordsInit ==
  /\ ClaimsInit /\ GateInit /\ IngestInit /\ DigestInit
  /\ part \in {"ports", "facts", "gate", "ingest", "digest"}
  /\ part # "facts" => kind = "address" /\ ~covered
  /\ part # "gate" => declared = {}
  /\ part # "digest" => rule.mode = "immediate"

RecordsNext ==
  /\ UNCHANGED part
  /\ \/ /\ \/ part = "ports" /\ PortNext
           \/ part = "facts" /\ FactNext
        /\ UNCHANGED <<gateVars, ingestVars, digestVars>>
     \/ part = "gate" /\ GateNext /\ UNCHANGED <<claimVars, ingestVars, digestVars>>
     \/ part = "ingest" /\ IngestNext /\ UNCHANGED <<claimVars, gateVars, digestVars>>
     \/ part = "digest" /\ DigestNext /\ UNCHANGED <<claimVars, gateVars, ingestVars>>

RecordsSpec ==
  RecordsInit /\ [][RecordsNext]_<<claimVars, gateVars, ingestVars, digestVars, part>>

MCRecordsSymmetry ==
  Permutations(Workers) \cup Permutations(Ports)

\* The types of the component that moves.
RecordsTypeOK ==
  /\ part \in {"ports", "facts"} => ClaimsTypeOK
  /\ part = "gate" => GateTypeOK
  /\ part = "ingest" => IngestTypeOK
  /\ part = "digest" => DigestTypeOK
===============================================================================
