------------------------------ MODULE MCScanRun ------------------------------
(* Instances of ScanRun for TLC.                                            *)
EXTENDS ScanRun

MCTwoKinds == [v |-> "verify", s |-> "sync"]
MCTwoChunks == [v |-> 2, s |-> 0]
MCVerify == [v |-> "verify"]
MCOneChunk == [v |-> 1]
MCScan == [s |-> "scan"]
MCScanChunks == [s |-> 2]
==============================================================================
