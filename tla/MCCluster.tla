----------------------------- MODULE MCCluster -----------------------------
(* Instances of Cluster for TLC.                                           *)
EXTENDS Cluster

CONSTANTS c, m, n

\* Three nodes of which one may crash; and two nodes, one request, and restarts.
MCDeployments ==
  {[nodes |-> {c, m, n}, starts |-> 1, crashes |-> 1, requests |-> 0],
   [nodes |-> {c, m}, starts |-> 2, crashes |-> 1, requests |-> 1]}
=============================================================================
