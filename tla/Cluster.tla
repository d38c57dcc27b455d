------------------------------ MODULE Cluster ------------------------------
(***************************************************************************)
(* Several nodes whose brokers gossip with each other (network.cc), and    *)
(* processes that crash and start again at the same address under a new    *)
(* node id.  MessageBroker models one broker against peers that do         *)
(* anything; here every peer is a broker, so that one can ask what the     *)
(* nodes come to agree on.  The unit of time is the interval of the        *)
(* heartbeat check: every process checks once in a tick, at any moment of  *)
(* it, and gossips every GossipInterval ticks.  Timestamps are kept as     *)
(* ages, which are not told apart from Timeout on.  A message to a running *)
(* process takes less than a tick, and clocks agree.                       *)
(***************************************************************************)
EXTENDS Integers, FiniteSets

CONSTANTS
  Addresses,
  ContactNode,     \* its address is the others' contact_node_address; it has none
  GossipInterval,  \* gossip_interval_ms, in heartbeat check intervals
  Timeout,         \* heartbeat_timeout_ms, in heartbeat check intervals
  Fanout,          \* gossip_fanout
  MaxStarts,       \* bound: process starts at one address
  Deployments      \* bounds that are tried: addresses in use, starts at one address,
                   \* crashes and requests in all

Ids == Addresses \X (1 .. MaxStarts)
Address(id) == id[1]
Nobody == <<"nobody", 0>>
Never == Timeout + 1    \* the age of a node that node_id_to_state_ does not hold

ASSUME ClusterAssumption ==
  /\ ContactNode \in Addresses
  /\ GossipInterval \in Nat \ {0} /\ Timeout \in Nat /\ Fanout \in Nat \ {0}
  /\ MaxStarts \in Nat
  /\ Deployments \subseteq
       [nodes : SUBSET Addresses, starts : 1 .. MaxStarts, crashes : Nat, requests : 0 .. 1]

VARIABLES
  deployment,
  up,        \* addresses at which a process runs
  starts,    \* how often each was started; the last start gives the node id
  crashes,   \* how many processes have crashed
  age,       \* node_id_to_state_ of each process: age of last_seen_timestamp_ms
  due,       \* ticks until each process gossips
  checked,   \* processes that have run CheckHeartbeatTimeout in this tick
  net,       \* gossip on its way: sender, address, ages of the node states
  asker,     \* request_node_id of the request, or Nobody
  asked,     \* response_node_id of the request
  message,   \* where the request or its reply is
  result     \* what the asker got

processVars == <<deployment, up, starts, crashes>>
requestVars == <<asker, asked, message, result>>
vars == <<processVars, age, due, checked, net, requestVars>>

Self(a) == <<a, starts[a]>>
NoStates == [id \in Ids |-> Never]
Known(a) == {id \in Ids : age[a][id] # Never}

Init ==
  /\ deployment \in Deployments
  /\ up = {} /\ starts = [a \in Addresses |-> 0] /\ crashes = 0
  /\ age = [a \in Addresses |-> NoStates]
  /\ due = [a \in Addresses |-> 0]
  /\ checked = {}
  /\ net = {}
  /\ asker = Nobody /\ asked = Nobody /\ message = "none" /\ result = "none"

(***************************************************************************)
(* Processes                                                               *)
(***************************************************************************)

\* The constructor and Start, with a new node id.
StartProcess(a) ==
  /\ a \in deployment.nodes \ up
  /\ starts[a] < deployment.starts
  /\ up' = up \cup {a}
  /\ starts' = [starts EXCEPT ![a] = @ + 1]
  /\ due' = [due EXCEPT ![a] = GossipInterval]
  /\ checked' = checked \cup {a}
  /\ UNCHANGED <<deployment, crashes, age, net, requestVars>>

\* The process at a is gone, and the broker's maps with it.
Gone(a) ==
  /\ up' = up \ {a}
  /\ age' = [age EXCEPT ![a] = NoStates]
  /\ due' = [due EXCEPT ![a] = 0]
  /\ checked' = checked \ {a}
  /\ UNCHANGED <<deployment, starts>>

\* What was sent to it may wait in the sender's socket for its successor, or be lost.
Crash(a) ==
  /\ a \in up
  /\ crashes < deployment.crashes
  /\ crashes' = crashes + 1
  /\ Gone(a)
  /\ \E lost \in SUBSET {m \in net : m.to = a} : net' = net \ lost
  /\ message' \in
       CASE message = "request" /\ Address(asked) = a -> {"request", "lost"}
         [] message = "reply" /\ Address(asker) = a -> {"reply", "lost"}
         [] message \in {"handler", "deferred"} /\ Address(asked) = a -> {"lost"}
         [] OTHER -> {message}
  /\ result' = IF result = "waiting" /\ Address(asker) = a THEN "crashed" ELSE result
  /\ UNCHANGED <<asker, asked>>

(***************************************************************************)
(* Gossip                                                                  *)
(***************************************************************************)

\* Mutant: the contact node gets no gossip of its own.
ReceiversKnown(a, peers) == {Address(id) : id \in peers}

\* The sockets that get the gossip: those of the chosen peers, each connected to the
\* address of its node id, and the one of the contact node.
Receivers(a, peers) ==
  {Address(id) : id \in peers} \cup (IF a = ContactNode THEN {} ELSE {ContactNode})

\* BroadcastGossip to Fanout random peers.  A socket whose address has no process keeps
\* what it sends for the next one, or not; one message is kept per sender.
BroadcastGossip(a) ==
  /\ a \in up /\ due[a] = 0
  /\ due' = [due EXCEPT ![a] = GossipInterval]
  /\ \E peers \in SUBSET Known(a) :
       LET to == Receivers(a, peers)
           waiting == {m.to : m \in {m \in net : m.from = a}}
           states == [age[a] EXCEPT ![Self(a)] = 0]
       IN /\ Cardinality(peers) = IF Fanout < Cardinality(Known(a))
                                    THEN Fanout ELSE Cardinality(Known(a))
          /\ \E kept \in SUBSET (to \ (up \cup waiting)) :
               net' = net \cup {[from |-> a, to |-> b, states |-> states] :
                                  b \in (to \cap up) \cup kept}
  /\ UNCHANGED <<processVars, age, checked, requestVars>>

\* The younger of two timestamps of a node is kept; a node not held is added, and gets
\* the reply that waits for it.
HandleGossipMessage(m) ==
  LET a == m.to IN
  /\ m \in net /\ a \in up
  /\ net' = net \ {m}
  /\ age' = [age EXCEPT ![a] =
       [id \in Ids |-> IF id # Self(a) /\ m.states[id] < age[a][id]
                         THEN m.states[id] ELSE age[a][id]]]
  /\ message' = IF message = "deferred" /\ asked = Self(a) /\ age'[a][asker] # Never
                  THEN "reply" ELSE message
  /\ UNCHANGED <<processVars, due, checked, asker, asked, result>>

\* Mutant: the requests to a lost node are not failed.
CheckHeartbeatTimeoutNoFail(a) ==
  /\ a \in up \ checked
  /\ checked' = checked \cup {a}
  /\ age' = [age EXCEPT ![a] =
       [id \in Ids |-> IF age[a][id] >= Timeout THEN Never ELSE age[a][id]]]
  /\ UNCHANGED <<processVars, due, net, requestVars>>

\* OnNodeConnectionLost for each node that was silent for the timeout: a request to it
\* is failed, and its socket is closed; what is still in it has the linger time to
\* arrive, which a message to an address without a process may miss.
CheckHeartbeatTimeout(a) ==
  LET lost == {id \in Known(a) : age[a][id] >= Timeout} IN
  /\ a \in up \ checked
  /\ checked' = checked \cup {a}
  /\ age' = [age EXCEPT ![a] = [id \in Ids |-> IF id \in lost THEN Never ELSE age[a][id]]]
  /\ result' = IF result = "waiting" /\ asker = Self(a) /\ asked \in lost
                 THEN "error" ELSE result
  /\ message' \in
       IF \/ message = "request" /\ asker = Self(a) /\ asked \in lost /\ Address(asked) \notin up
          \/ message = "reply" /\ asked = Self(a) /\ asker \in lost /\ Address(asker) \notin up
         THEN {message, "lost"} ELSE {message}
  /\ UNCHANGED <<processVars, due, net, asker, asked>>

(***************************************************************************)
(* A request                                                               *)
(***************************************************************************)

SendRequest(a, id) ==
  /\ a \in up
  /\ deployment.requests = 1 /\ asker = Nobody
  /\ id \in Known(a)
  /\ asker' = Self(a) /\ asked' = id
  /\ message' = "request" /\ result' = "waiting"
  /\ UNCHANGED <<processVars, age, due, checked, net>>

\* DispatchReceivedMessage throws for a message that is addressed to another node id;
\* the exception ends the process.
Misaddressed(a, id) ==
  /\ Self(a) # id
  /\ Gone(a)
  /\ message' = "lost"
  /\ result' = IF result = "waiting" /\ asker = Self(a) THEN "crashed" ELSE result

\* The request arrives at the address of the node it was sent to.
DispatchRequest(a) ==
  /\ message = "request" /\ a = Address(asked) /\ a \in up
  /\ \/ Misaddressed(a, asked)
     \/ /\ Self(a) = asked
        /\ message' = "handler"
        /\ UNCHANGED <<processVars, age, due, checked, result>>
  /\ UNCHANGED <<crashes, net, asker, asked>>

\* The handler ends; the reply is sent, or deferred while the asker is unknown.
SendReply(a) ==
  /\ message = "handler" /\ a = Address(asked)
  /\ message' = IF asker \in Known(a) THEN "reply" ELSE "deferred"
  /\ UNCHANGED <<processVars, age, due, checked, net, asker, asked, result>>

\* The reply arrives.  The request may have been failed before.
DispatchReply(a) ==
  /\ message = "reply" /\ a = Address(asker) /\ a \in up
  /\ \/ Misaddressed(a, asker)
     \/ /\ Self(a) = asker
        /\ message' = "done"
        /\ result' = IF result = "waiting" THEN "reply" ELSE result
        /\ UNCHANGED <<processVars, age, due, checked>>
  /\ UNCHANGED <<crashes, net, asker, asked>>

(***************************************************************************)
(* Time                                                                    *)
(***************************************************************************)

Older(states) == [id \in Ids |-> IF states[id] < Timeout THEN states[id] + 1 ELSE states[id]]

\* A tick ends when its timers have fired and its messages have arrived.
Tick ==
  /\ up \subseteq checked
  /\ \A a \in up : due[a] > 0
  /\ \A m \in net : m.to \notin up
  /\ message = "request" => Address(asked) \notin up
  /\ message = "reply" => Address(asker) \notin up
  /\ age' = [a \in Addresses |-> Older(age[a])]
  /\ due' = [a \in Addresses |-> IF a \in up THEN due[a] - 1 ELSE 0]
  /\ checked' = {}
  /\ net' = {[m EXCEPT !.states = Older(@)] : m \in net}
  /\ UNCHANGED <<processVars, requestVars>>

-----------------------------------------------------------------------------
Broker ==
  \/ \E a \in Addresses :
       BroadcastGossip(a) \/ CheckHeartbeatTimeout(a) \/ DispatchRequest(a) \/ DispatchReply(a)
  \/ \E m \in net : HandleGossipMessage(m)

Next ==
  \/ \E a \in Addresses : StartProcess(a) \/ Crash(a) \/ SendReply(a)
  \/ \E a \in Addresses, id \in Ids : SendRequest(a, id)
  \/ Broker \/ Tick

Spec == Init /\ [][Next]_vars

\* Timers fire, messages arrive and time passes; a handler ends.
FairSpec == Spec /\ WF_vars(Broker \/ Tick) /\ \A a \in Addresses : WF_vars(SendReply(a))
-----------------------------------------------------------------------------
Live == {Self(a) : a \in up}

\* Once no process starts or ends any more and the contact node runs, the nodes come to
\* agree for good on who is alive: a crashed node is forgotten everywhere although stale
\* gossip brings it back, and a restarted one is found by all, whoever restarted.  The
\* gossip interval must exceed the number of live nodes, in heartbeat check intervals.
Converges ==
  <>[](ContactNode \in up) /\ <>[][UNCHANGED up]_vars
    => <>[](\A a \in up : Known(a) = Live \ {Self(a)})

\* distributed_mode.md:112: a call ends with a reply or an error, whatever node crashes
\* or restarts, unless the caller itself ends.
RequestEnds == result = "waiting" ~> result # "waiting"
=============================================================================
