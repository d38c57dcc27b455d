---------------------------- MODULE BoundedFifo ----------------------------
(***************************************************************************)
(* What a bounded mailbox promises (abstract specification).  A producer   *)
(* takes the next place when one is free, and publishes its message there  *)
(* later; the consumer takes the oldest message once it is published.      *)
(* Actor.tla relies on exactly this of its mailboxes.                      *)
(***************************************************************************)
EXTENDS Naturals, Sequences

CONSTANTS Producers, Values, Limit

VARIABLES
  places,   \* the places taken, oldest first: [val, by, ready]
  taken     \* the messages the consumer got, oldest first

fifoVars == <<places, taken>>

Init == places = <<>> /\ taken = <<>>

\* A producer has at most one place that it has not published.
Claim(p, v) ==
  /\ Len(places) < Limit
  /\ \A i \in 1 .. Len(places) : places[i].by = p => places[i].ready
  /\ places' = Append(places, [val |-> v, by |-> p, ready |-> FALSE])
  /\ UNCHANGED taken

Publish(p) ==
  \E i \in 1 .. Len(places) :
    /\ places[i].by = p /\ ~places[i].ready
    /\ places' = [places EXCEPT ![i].ready = TRUE]
    /\ UNCHANGED taken

Take ==
  /\ places # <<>>
  /\ Head(places).ready
  /\ taken' = Append(taken, Head(places).val)
  /\ places' = Tail(places)

Next ==
  \/ \E p \in Producers, v \in Values : Claim(p, v)
  \/ \E p \in Producers : Publish(p)
  \/ Take

Spec == Init /\ [][Next]_fifoVars
=============================================================================
