---------------------------- MODULE MCCaptureS3 ----------------------------
(* Small instances of CaptureS3 for TLC. *)
EXTENDS CaptureS3

\* two candidates of different roots that name one domain
MCDomainOf == [a |-> "site", b |-> "site"]
\* the store clock lags not at all, or by half of CLAIM_SKEW_S
MCNoLag == 0
MCLagHalf == -1
=============================================================================
