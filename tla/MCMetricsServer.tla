-------------------------- MODULE MCMetricsServer --------------------------
(* Two connections, so that one may be destroyed mid-scrape while the     *)
(* other is kept alive; three requests, so that a connection serves a     *)
(* second request after its first.                                         *)
EXTENDS MetricsServer, TLC

CONSTANTS c1, c2
=============================================================================
