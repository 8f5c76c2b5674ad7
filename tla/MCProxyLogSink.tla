---------------------------- MODULE MCProxyLogSink ----------------------------
(* Instances of ProxyLogSink for TLC: the configurations give every constant   *)
(* its value.                                                                  *)
EXTENDS ProxyLogSink
==============================================================================
