--------------------------- MODULE MCMessageBroker ---------------------------
(* Instances of MessageBroker for TLC.                                     *)
EXTENDS MessageBroker

CONSTANTS p1, p2, q1, x1

FromFirst == [q \in Incoming |-> p1]
NeedsFirst == [w \in Waiters |-> {p1}]

\* Two peers and two requests; two peers and an incoming request whose handler calls
\* back; one peer, a wait, and time for everything to run out.
MCScenarios ==
  {[peers |-> {p1, p2}, incoming |-> {}, waiters |-> {}, requests |-> 2, time |-> 2, skew |-> 0],
   [peers |-> {p1, p2}, incoming |-> {q1}, waiters |-> {}, requests |-> 1, time |-> 3, skew |-> 1],
   [peers |-> {p1}, incoming |-> {q1}, waiters |-> {x1}, requests |-> 1, time |-> 4, skew |-> 0]}
StopScenarios ==
  {[peers |-> {p1}, incoming |-> {q1}, waiters |-> {}, requests |-> 1, time |-> 3, skew |-> 0]}
=============================================================================
