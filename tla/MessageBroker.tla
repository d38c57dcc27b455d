--------------------------- MODULE MessageBroker ---------------------------
(***************************************************************************)
(* The message broker of one node (network.cc): membership by gossip and   *)
(* heartbeat, requests and replies over one send socket per known peer,    *)
(* waits on the cluster state, and Stop.  The broker is an actor, so every *)
(* handler runs alone up to its next co_await; what a co_await gives back  *)
(* is a separate action, run later from the mailbox.  The peers are the    *)
(* environment: they gossip, ask, and answer or not.  Time is in ticks.    *)
(***************************************************************************)
EXTENDS Integers, FiniteSets

CONSTANTS
  Peers,         \* node ids other than this_node_id_
  ContactPeers,  \* node ids whose address is contact_node_address
  Timeout,       \* heartbeat_timeout_ms
  TimeMod,       \* 2^w for the w bits of a timestamp
  Fanout,        \* gossip_fanout
  Cooldown,      \* kContactSocketRebuildCooldownMs
  Incoming,      \* requests that peers may send us
  From,          \* From[q]: the peer that sends q
  NestedCalls,   \* whether handlers of incoming requests send requests themselves
  Waiters,       \* calls of WaitClusterState
  Required,      \* Required[w]: the peers w's predicate wants alive
  WaitTime,      \* timeout_ms of WaitClusterState
  MaxBacklog,    \* bound: tasks in the mailbox when Stop has ended the two threads
  MaxRequests,   \* bound: requests we send
  Scenarios      \* bounds that are tried: the peers that are heard of, what they and
                 \* user code ask (incoming, requests, waiters), the clock (time) and how
                 \* far a peer's clock may be ahead of it (skew)

RequestIds == 0 .. MaxRequests - 1
Never == -1      \* last_seen of a peer that node_id_to_state_ does not hold
NoPeer == "none"

ASSUME BrokerAssumption ==
  /\ ContactPeers \subseteq Peers
  /\ Timeout \in Nat \ {0} /\ TimeMod \in Nat \ {0} /\ Cooldown \in Nat
  /\ Fanout \in Nat \ {0}
  /\ From \in [Incoming -> Peers]
  /\ NestedCalls \in BOOLEAN
  /\ Required \in [Waiters -> SUBSET Peers]
  /\ WaitTime \in Nat /\ MaxBacklog \in Nat /\ MaxRequests \in Nat
  /\ Scenarios \subseteq
       [peers : SUBSET Peers, incoming : SUBSET Incoming, waiters : SUBSET Waiters,
        requests : 0 .. MaxRequests, time : Nat, skew : Nat]
  /\ NoPeer \notin Peers

VARIABLES
  scenario,
  now,                \* GetTimeMs()
  lastSeen,           \* node_id_to_state_: last_seen_timestamp_ms of each peer
  sockets,            \* keys of node_id_to_send_socket_
  contactDiscovered,  \* contact_node_discovered_
  contactBuiltAt,     \* contact_node_send_socket_last_build_ms_
  counter,            \* send_request_id_counter_
  target,             \* response_node_id of each outstanding request, else NoPeer
  replied,            \* outstanding requests whose response_bytes are set
  failed,             \* outstanding requests whose exception_ptr is set
  result,             \* how each SendRequest ended
  unanswered,         \* requests whose reply may still arrive
  handler,            \* the handler of each incoming request
  nested,             \* the request that handler awaits
  deferred,           \* deferred_replies_
  answered,           \* incoming requests whose reply was sent
  waiter,             \* state of each WaitClusterState call
  deadline,           \* deadline_ms of each waiter
  met,                \* waiters with condition_met
  expired,            \* waiters the timer has signalled
  phase,              \* "running", "stopping" (Stop waits) or "stopped"
  backlog             \* dispatched tasks still in the mailbox while Stop waits

memberVars == <<lastSeen, sockets, contactDiscovered>>
requestVars == <<counter, target, result, unanswered>>
signalVars == <<replied, failed>>
incomingVars == <<handler, nested, deferred, answered>>
waiterVars == <<waiter, deadline, met, expired>>
stopVars == <<phase, backlog>>
brokerVars == <<now, memberVars, contactBuiltAt, requestVars, signalVars, incomingVars,
                waiterVars, stopVars>>
vars == <<scenario, brokerVars>>

NoRequest == -1
Known == {p \in Peers : lastSeen[p] # Never}
Outstanding == {id \in RequestIds : target[id] # NoPeer}

\* Maps and sets have the keys the code gives them, and a request is signalled
\* only while it is outstanding.
TypeOK ==
  /\ scenario \in Scenarios
  /\ now \in 0 .. scenario.time
  /\ lastSeen \in [Peers -> Nat \cup {Never}]
  /\ sockets \subseteq Peers
  /\ contactDiscovered \in BOOLEAN
  /\ contactBuiltAt \in 0 .. now
  /\ counter \in 0 .. MaxRequests
  /\ target \in [RequestIds -> Peers \cup {NoPeer}]
  /\ replied \subseteq Outstanding /\ failed \subseteq Outstanding
  /\ result \in [RequestIds -> {"none", "reply", "error"}]
  /\ unanswered \subseteq RequestIds
  /\ handler \in [Incoming -> {"none", "running", "ended"}]
  /\ nested \in [Incoming -> RequestIds \cup {NoRequest}]
  /\ deferred \in [Peers -> SUBSET Incoming]
  /\ answered \subseteq Incoming
  /\ waiter \in [Waiters -> {"none", "waiting", "returned"}]
  /\ deadline \in [Waiters -> Nat]
  /\ met \subseteq Waiters /\ expired \subseteq Waiters
  /\ phase \in {"running", "stopping", "stopped"}
  /\ backlog \in 0 .. MaxBacklog

\* The constructor connects the contact socket; Start runs before any message.
Init ==
  /\ scenario \in Scenarios
  /\ now = 0
  /\ lastSeen = [p \in Peers |-> Never]
  /\ sockets = {}
  /\ contactDiscovered = FALSE
  /\ contactBuiltAt = 0
  /\ counter = 0
  /\ target = [id \in RequestIds |-> NoPeer]
  /\ replied = {} /\ failed = {}
  /\ result = [id \in RequestIds |-> "none"]
  /\ unanswered = {}
  /\ handler = [q \in Incoming |-> "none"]
  /\ nested = [q \in Incoming |-> NoRequest]
  /\ deferred = [p \in Peers |-> {}]
  /\ answered = {}
  /\ waiter = [w \in Waiters |-> "none"]
  /\ deadline = [w \in Waiters |-> 0]
  /\ met = {} /\ expired = {}
  /\ phase = "running" /\ backlog = 0

\* A task that the receiving thread or the timer thread has spawned runs.  Once
\* Stop has ended both threads, only those still in the mailbox are left.
RunTask ==
  \/ phase = "running" /\ UNCHANGED stopVars
  \/ phase = "stopping" /\ backlog > 0 /\ backlog' = backlog - 1 /\ UNCHANGED phase

Tick ==
  /\ now < scenario.time
  /\ now' = now + 1
  /\ UNCHANGED <<memberVars, contactBuiltAt, requestVars, signalVars, incomingVars,
                 waiterVars, stopVars>>

(***************************************************************************)
(* Membership                                                              *)
(***************************************************************************)

\* Mutant: a waiter that the timer has signalled is passed over.
EvaluateUnexpiredWaiters(alive) ==
  /\ met' = met \cup {w \in Waiters \ expired : waiter[w] = "waiting" /\ Required[w] \subseteq alive}
  /\ UNCHANGED <<waiter, deadline, expired>>

\* EvaluateClusterStateWaiters, with the given set of peers alive.  The deadline plays no
\* part: a condition that comes true late still counts until the waiter resumes.
EvaluateClusterStateWaiters(alive) ==
  /\ met' = met \cup {w \in Waiters : waiter[w] = "waiting" /\ Required[w] \subseteq alive}
  /\ UNCHANGED <<waiter, deadline, expired>>

\* Mutant: deferred replies are not flushed when the peer is found.
FlushNothing(found) == UNCHANGED <<deferred, answered>>

\* OnNodeAlive sends the replies that waited for the peers just found.
FlushDeferredReplies(found) ==
  /\ answered' = answered \cup UNION {deferred[p] : p \in found}
  /\ deferred' = [p \in Peers |-> IF p \in found THEN {} ELSE deferred[p]]

\* OnNodeAlive for each of the peers just found.
OnNodeAlive(found) ==
  /\ contactDiscovered' = (contactDiscovered \/ found \cap ContactPeers # {})
  /\ sockets' = sockets \cup found
  /\ EvaluateClusterStateWaiters(Known \cup found)
  /\ FlushDeferredReplies(found)

\* HandleGossipMessage: gossip maps the peers it names to timestamps.
HandleGossipMessage(gossip) ==
  LET named == DOMAIN gossip IN
  /\ RunTask
  /\ lastSeen' = [p \in Peers |-> IF p \in named /\ gossip[p] > lastSeen[p]
                                    THEN gossip[p] ELSE lastSeen[p]]
  /\ OnNodeAlive(named \ Known)
  /\ UNCHANGED <<now, contactBuiltAt, requestVars, signalVars, handler, nested>>

\* What a peer may gossip: timestamps of its own clock, or older ones.
Gossips == UNION {[S -> 0 .. now + scenario.skew] : S \in (SUBSET scenario.peers) \ {{}}}

\* Mutant: timestamps of the future are subtracted like the others.
TimedOutUnsigned(p) == (now - lastSeen[p]) % TimeMod >= Timeout

\* The subtraction is unsigned; a timestamp in the future never reaches it.
TimedOut(p) == lastSeen[p] < now /\ (now - lastSeen[p]) % TimeMod >= Timeout

\* Mutant: the socket of the lost peer is kept.
OnNodeConnectionLostKeepSocket(lost) ==
  /\ failed' = failed \cup {id \in Outstanding : target[id] \in lost}
  /\ contactDiscovered' = (contactDiscovered /\ lost \cap ContactPeers = {})
  /\ lastSeen' = [p \in Peers |-> IF p \in lost THEN Never ELSE lastSeen[p]]
  /\ sockets' = sockets
  /\ EvaluateClusterStateWaiters(Known \ lost)

\* Mutant: the requests to the lost peer are not failed.
OnNodeConnectionLostNoFail(lost) ==
  /\ failed' = failed
  /\ contactDiscovered' = (contactDiscovered /\ lost \cap ContactPeers = {})
  /\ lastSeen' = [p \in Peers |-> IF p \in lost THEN Never ELSE lastSeen[p]]
  /\ sockets' = sockets \ lost
  /\ EvaluateClusterStateWaiters(Known \ lost)

\* OnNodeConnectionLost for each of the lost peers.
OnNodeConnectionLost(lost) ==
  /\ failed' = failed \cup {id \in Outstanding : target[id] \in lost}
  /\ contactDiscovered' = (contactDiscovered /\ lost \cap ContactPeers = {})
  /\ lastSeen' = [p \in Peers |-> IF p \in lost THEN Never ELSE lastSeen[p]]
  /\ sockets' = sockets \ lost
  /\ EvaluateClusterStateWaiters(Known \ lost)

CheckHeartbeatTimeout ==
  /\ RunTask
  /\ OnNodeConnectionLost({p \in Known : TimedOut(p)})
  /\ UNCHANGED <<now, contactBuiltAt, requestVars, replied, incomingVars>>

\* BroadcastGossip to Fanout random peers, looking each socket up with MapAt, which
\* throws when there is none (see SocketsMatchStates), and to the contact node, whose
\* socket is rebuilt while the node is undiscovered.
BroadcastGossip(to) ==
  /\ RunTask
  /\ to \subseteq Known
  /\ Cardinality(to) = IF Fanout < Cardinality(Known) THEN Fanout ELSE Cardinality(Known)
  /\ contactBuiltAt' = IF /\ to \subseteq sockets /\ ContactPeers # {}
                          /\ ~contactDiscovered /\ now - contactBuiltAt >= Cooldown
                         THEN now ELSE contactBuiltAt
  /\ UNCHANGED <<now, memberVars, requestVars, signalVars, incomingVars, waiterVars>>

(***************************************************************************)
(* Requests we send                                                        *)
(***************************************************************************)

\* Mutant: a request to an unconnected peer is not refused.
SendTwoWayMessageUnchecked(p) ==
  /\ counter < scenario.requests
  /\ counter' = counter + 1
  /\ target' = [target EXCEPT ![counter] = p]
  /\ unanswered' = unanswered \cup {counter}
  /\ UNCHANGED result

\* SendRequest up to its co_await.  SendTwoWayMessage takes an id and throws when
\* there is no socket.
SendTwoWayMessage(p) ==
  /\ counter < scenario.requests
  /\ counter' = counter + 1
  /\ IF p \in sockets
       THEN /\ target' = [target EXCEPT ![counter] = p]
            /\ unanswered' = unanswered \cup {counter}
            /\ UNCHANGED result
       ELSE /\ result' = [result EXCEPT ![counter] = "error"]
            /\ UNCHANGED <<target, unanswered>>

SendRequest(p) ==
  /\ phase # "stopped"
  /\ SendTwoWayMessage(p)
  /\ UNCHANGED <<now, memberVars, contactBuiltAt, signalVars, incomingVars, waiterVars,
                 stopVars>>

\* A reply arrives, possibly long after its request has been failed.
HandleRepliedResponse(id) ==
  /\ RunTask
  /\ id \in unanswered
  /\ unanswered' = unanswered \ {id}
  /\ replied' = IF id \in Outstanding THEN replied \cup {id} ELSE replied
  /\ UNCHANGED <<now, memberVars, contactBuiltAt, counter, target, result, failed,
                 incomingVars, waiterVars>>

\* Mutant: the request is not erased.
ResumeRequestNoErase(id) ==
  /\ phase # "stopped"
  /\ id \in replied \cup failed
  /\ result' = [result EXCEPT ![id] = IF id \in failed THEN "error" ELSE "reply"]
  /\ replied' = replied \ {id}
  /\ failed' = failed \ {id}
  /\ UNCHANGED <<now, memberVars, contactBuiltAt, counter, target, unanswered, incomingVars,
                 waiterVars, stopVars>>

\* The coroutine of SendRequest resumes: an exception wins over a response.
ResumeRequest(id) ==
  /\ phase # "stopped"
  /\ id \in replied \cup failed
  /\ result' = [result EXCEPT ![id] = IF id \in failed THEN "error" ELSE "reply"]
  /\ target' = [target EXCEPT ![id] = NoPeer]
  /\ replied' = replied \ {id}
  /\ failed' = failed \ {id}
  /\ UNCHANGED <<now, memberVars, contactBuiltAt, counter, unanswered, incomingVars,
                 waiterVars, stopVars>>

(***************************************************************************)
(* Requests of peers                                                       *)
(***************************************************************************)

\* HandleIncomingRequest up to its co_await of the handler.
HandleIncomingRequest(q) ==
  /\ RunTask
  /\ q \in scenario.incoming /\ handler[q] = "none"
  /\ handler' = [handler EXCEPT ![q] = "running"]
  /\ UNCHANGED <<now, memberVars, contactBuiltAt, requestVars, signalVars, nested, deferred,
                 answered, waiterVars>>

\* The handler calls an actor of another node through this broker.
NestedRequest(q, p) ==
  /\ NestedCalls
  /\ phase # "stopped"
  /\ handler[q] = "running" /\ nested[q] = NoRequest
  /\ SendTwoWayMessage(p)
  /\ nested' = [nested EXCEPT ![q] = counter]
  /\ UNCHANGED <<now, memberVars, contactBuiltAt, signalVars, handler, deferred, answered,
                 waiterVars, stopVars>>

\* Mutant: the reply to an unknown peer is dropped.
SendReplyDrop(q) ==
  /\ answered' = answered \cup ({q} \cap {r \in Incoming : From[r] \in sockets})
  /\ UNCHANGED deferred

\* SendReply: the reply waits in deferred_replies_ while the peer is unknown.
SendReply(q) ==
  IF From[q] \in sockets
    THEN /\ answered' = answered \cup {q}
         /\ UNCHANGED deferred
    ELSE /\ deferred' = [deferred EXCEPT ![From[q]] = @ \cup {q}]
         /\ UNCHANGED answered

\* The handler of an incoming request ends, and the reply is sent.
FinishHandler(q) ==
  /\ phase # "stopped"
  /\ handler[q] = "running"
  /\ nested[q] # NoRequest => result[nested[q]] # "none"
  /\ handler' = [handler EXCEPT ![q] = "ended"]
  /\ SendReply(q)
  /\ UNCHANGED <<now, memberVars, contactBuiltAt, requestVars, signalVars, nested, waiterVars,
                 stopVars>>

(***************************************************************************)
(* WaitClusterState                                                        *)
(***************************************************************************)

WaitClusterState(w) ==
  /\ phase # "stopped"
  /\ w \in scenario.waiters /\ waiter[w] = "none"
  /\ now + WaitTime <= scenario.time    \* bound: the deadline can be reached
  /\ IF Required[w] \subseteq Known
       THEN /\ waiter' = [waiter EXCEPT ![w] = "returned"]
            /\ met' = met \cup {w}
            /\ UNCHANGED deadline
       ELSE /\ waiter' = [waiter EXCEPT ![w] = "waiting"]
            /\ deadline' = [deadline EXCEPT ![w] = now + WaitTime]
            /\ UNCHANGED met
  /\ UNCHANGED <<now, memberVars, contactBuiltAt, requestVars, signalVars, incomingVars,
                 expired, stopVars>>

\* Mutant: the test of condition_met is the wrong way round.
CheckClusterStateWaiterTimeoutInverted ==
  /\ RunTask
  /\ expired' = expired \cup {w \in met : waiter[w] = "waiting" /\ deadline[w] <= now}
  /\ UNCHANGED <<now, memberVars, contactBuiltAt, requestVars, signalVars, incomingVars,
                 waiter, deadline, met>>

\* A waiter whose deadline has passed is signalled, unless its condition was met.
CheckClusterStateWaiterTimeout ==
  /\ RunTask
  /\ expired' = expired \cup {w \in Waiters \ met : waiter[w] = "waiting" /\ deadline[w] <= now}
  /\ UNCHANGED <<now, memberVars, contactBuiltAt, requestVars, signalVars, incomingVars,
                 waiter, deadline, met>>

ResumeWaiter(w) ==
  /\ phase # "stopped"
  /\ waiter[w] = "waiting"
  /\ w \in met \cup expired
  /\ waiter' = [waiter EXCEPT ![w] = "returned"]
  /\ UNCHANGED <<now, memberVars, contactBuiltAt, requestVars, signalVars, incomingVars,
                 deadline, met, expired, stopVars>>

(***************************************************************************)
(* Stop                                                                    *)
(***************************************************************************)

\* The timer thread and the receiving thread are stopped.
Stop ==
  /\ phase = "running"
  /\ phase' = "stopping"
  /\ backlog' \in 0 .. MaxBacklog
  /\ UNCHANGED <<now, memberVars, contactBuiltAt, requestVars, signalVars, incomingVars,
                 waiterVars>>

\* Mutant: Stop also waits for the requests this node has sent.
FinishStopAwaitsRequests ==
  /\ phase = "stopping" /\ backlog = 0 /\ Outstanding = {}
  /\ \A q \in Incoming : handler[q] # "running"
  /\ phase' = "stopped"
  /\ sockets' = {}
  /\ UNCHANGED <<now, lastSeen, contactDiscovered, contactBuiltAt, requestVars, signalVars,
                 incomingVars, waiterVars, backlog>>

\* async_scope_.join() completes when no dispatched task is left; the sockets and
\* the context are then closed.
FinishStop ==
  /\ phase = "stopping" /\ backlog = 0
  /\ \A q \in Incoming : handler[q] # "running"
  /\ phase' = "stopped"
  /\ sockets' = {}
  /\ UNCHANGED <<now, lastSeen, contactDiscovered, contactBuiltAt, requestVars, signalVars,
                 incomingVars, waiterVars, backlog>>

-----------------------------------------------------------------------------
Environment ==
  \/ Tick
  \/ \E gossip \in Gossips : HandleGossipMessage(gossip)
  \/ \E p \in Peers : SendRequest(p)
  \/ \E id \in RequestIds : HandleRepliedResponse(id)
  \/ \E q \in Incoming : HandleIncomingRequest(q)
  \/ \E q \in Incoming, p \in Peers : NestedRequest(q, p)
  \/ \E w \in Waiters : WaitClusterState(w)
  \/ Stop

Timers ==
  \/ CheckHeartbeatTimeout
  \/ \E to \in SUBSET Peers : BroadcastGossip(to)
  \/ CheckClusterStateWaiterTimeout

Resumptions ==
  \/ \E id \in RequestIds : ResumeRequest(id)
  \/ \E q \in Incoming : FinishHandler(q)
  \/ \E w \in Waiters : ResumeWaiter(w)
  \/ FinishStop

Next == (Environment \/ Timers \/ Resumptions) /\ UNCHANGED scenario

Spec == Init /\ [][Next]_vars

\* The timer thread runs its tasks again and again, a resumed coroutine runs, a
\* handler ends once what it awaits has ended, and the clock goes on.
Fairness ==
  /\ WF_brokerVars(Tick)
  /\ WF_brokerVars(CheckHeartbeatTimeout)
  /\ WF_brokerVars(CheckClusterStateWaiterTimeout)
  /\ \A id \in RequestIds : WF_brokerVars(ResumeRequest(id))
  /\ \A q \in Incoming : WF_brokerVars(FinishHandler(q))
  /\ \A w \in Waiters : WF_brokerVars(ResumeWaiter(w))
  /\ WF_brokerVars(FinishStop)

FairSpec == Spec /\ Fairness
-----------------------------------------------------------------------------
\* BroadcastGossip looks the socket of every known peer up with MapAt, in a task
\* whose exceptions end the process: the two maps always have the same keys.
SocketsMatchStates == phase # "stopped" => sockets = Known

\* No request is orphaned: one that has been neither answered nor failed waits
\* for a peer the heartbeat still watches, so it will be failed if that peer dies
\* (docs/contents/distributed_mode.md:112).
OutstandingIsWatched ==
  phase # "stopped" =>
    \A id \in Outstanding \ (replied \cup failed) : target[id] \in Known

\* A peer whose last timestamp is younger than the heartbeat timeout, or lies in
\* the future of our clock, is never dropped.
DropsOnlySilentPeers ==
  [][\A p \in Peers :
       lastSeen[p] # Never /\ lastSeen'[p] = Never => now - lastSeen[p] >= Timeout]_vars

\* A request ends once: a late reply, or the loss of its peer after the reply,
\* never changes the outcome its caller got, nor reopens it.
OutcomeIsFinal ==
  [][\A id \in RequestIds :
       result[id] # "none" => result'[id] = result[id] /\ target'[id] = NoPeer]_vars

\* Every handled request gets exactly one reply, sent or deferred; a reply is deferred
\* only while its peer is unknown, so that finding the peer has sent it; and Stop
\* returns only after the handlers have ended.
HandledIsReplied ==
  /\ \A q \in Incoming : handler[q] = "ended" <=>
        (q \in answered) # (q \in deferred[From[q]])
  /\ phase # "stopped" => \A p \in Peers : deferred[p] # {} => p \notin sockets
  /\ phase = "stopped" => \A q \in Incoming : handler[q] # "running"

\* distributed_mode.md:112: requests to a peer that stays silent past the timeout
\* end, unless the peer is heard of again or the broker is stopped.
SilentPeerFailsRequests ==
  \A id \in RequestIds :
    (phase = "running" /\ id \in Outstanding /\ now - lastSeen[target[id]] >= Timeout)
      ~> \/ result[id] # "none"
         \/ phase # "running"
         \/ id \in Outstanding /\ now - lastSeen[target[id]] < Timeout

\* WaitClusterState returns, with or without its condition, unless Stop comes first.
WaitReturns ==
  \A w \in Waiters : waiter[w] = "waiting" ~> waiter[w] = "returned" \/ phase # "running"

\* WaitClusterState never says that the condition was not met and returns a cluster state
\* that meets it, although the timer may have given the wait up before the peers it wants
\* were found, and its coroutine resumes later still.
UnmetAgreesWithState ==
  [][\A w \in Waiters :
       waiter[w] = "waiting" /\ waiter'[w] = "returned" /\ w \notin met'
         => ~(Required[w] \subseteq Known')]_vars

\* network.h:174: Stop waits "for all in-flight tasks to complete", and returns.
StopReturns == phase = "stopping" ~> phase = "stopped"

\* Stop returns unless a handler still awaits a request of its own: nothing else that
\* is under way when the threads end can hold it up.
StopReturnsUnlessNested ==
  phase = "stopping" ~>
    \/ phase = "stopped"
    \/ \E q \in Incoming : nested[q] # NoRequest /\ nested[q] \in Outstanding
=============================================================================
