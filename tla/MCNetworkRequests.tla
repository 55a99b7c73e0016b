------------------------- MODULE MCNetworkRequests -------------------------
(* Instances of NetworkRequests for TLC: one request of each kind.           *)
EXTENDS NetworkRequests
=============================================================================
