-------------------------- MODULE MCBrokerThreads --------------------------
(* Instances of BrokerThreads for TLC.                                     *)
EXTENDS BrokerThreads, TLC

CONSTANTS gossip, heartbeat

\* The broker registers a slow gossip task first and a fast heartbeat check next.
BrokerIntervals == (gossip :> 5) @@ (heartbeat :> 1)
=============================================================================
