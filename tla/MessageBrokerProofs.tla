------------------------ MODULE MessageBrokerProofs ------------------------
(***************************************************************************)
(* Proofs about MessageBroker, for every set of peers, requests and        *)
(* waiters, every time-out, clock width and scenario.                      *)
(***************************************************************************)
EXTENDS MessageBroker, TLAPS

(***************************************************************************)
(* The inductive invariant.                                                *)
(***************************************************************************)

\* An id that send_request_id_counter_ has not reached is in use nowhere.
FreshIds ==
  \A id \in RequestIds : id >= counter => target[id] = NoPeer /\ result[id] = "none"

\* A request that has ended is no longer outstanding.
EndedIsErased == \A id \in RequestIds : result[id] # "none" => target[id] = NoPeer

\* Only the replies of handlers that have ended are sent or deferred, the latter under
\* the peer that asked.
RepliesOfEnded ==
  /\ \A q \in answered : handler[q] = "ended"
  /\ \A p \in Peers : \A q \in deferred[p] : handler[q] = "ended" /\ From[q] = p

IInv ==
  /\ TypeOK
  /\ SocketsMatchStates
  /\ OutstandingIsWatched
  /\ FreshIds
  /\ EndedIsErased
  /\ RepliesOfEnded
  /\ HandledIsReplied

(***************************************************************************)
(* Facts about the parts the actions are made of.                          *)
(***************************************************************************)

\* A scenario has the fields its type gives it.
LEMMA ScenarioFields ==
  ASSUME TypeOK
  PROVE  /\ scenario.peers \subseteq Peers
         /\ scenario.incoming \subseteq Incoming
         /\ scenario.requests \in 0 .. MaxRequests
         /\ scenario.time \in Nat /\ scenario.skew \in Nat
         /\ now \in Nat /\ MaxRequests \in Nat
  BY BrokerAssumption DEF TypeOK

\* A spawned task runs before Stop has returned, and leaves the phase alone.
LEMMA RunTaskFrame ==
  ASSUME TypeOK, RunTask
  PROVE  phase' = phase /\ phase # "stopped" /\ backlog' \in 0 .. MaxBacklog
  BY BrokerAssumption DEF TypeOK, RunTask, stopVars

\* A new request takes an id that nobody uses.
LEMMA SendFrame ==
  ASSUME TypeOK, NEW p \in Peers, SendTwoWayMessage(p)
  PROVE  /\ counter \in RequestIds
         /\ counter' = counter + 1 /\ counter' \in 0 .. MaxRequests
         /\ target' \in [RequestIds -> Peers \cup {NoPeer}]
         /\ result' \in [RequestIds -> {"none", "reply", "error"}]
         /\ unanswered' \subseteq RequestIds
         /\ \A id \in RequestIds : id # counter => target'[id] = target[id] /\ result'[id] = result[id]
         /\ p \in sockets => target'[counter] = p /\ result'[counter] = result[counter]
         /\ p \notin sockets => target'[counter] = target[counter] /\ result'[counter] = "error"
<1>1. counter \in RequestIds /\ counter' = counter + 1 /\ counter' \in 0 .. MaxRequests
  BY ScenarioFields DEF TypeOK, SendTwoWayMessage, RequestIds
<1>2. CASE p \in sockets
  BY <1>1, <1>2 DEF TypeOK, SendTwoWayMessage
<1>3. CASE p \notin sockets
  BY <1>1, <1>3 DEF TypeOK, SendTwoWayMessage
<1>4. QED
  BY <1>1, <1>2, <1>3

\* Gossip names peers and gives each a timestamp.
LEMMA GossipTyped ==
  ASSUME TypeOK, NEW gossip \in Gossips
  PROVE  DOMAIN gossip \subseteq Peers /\ \A p \in DOMAIN gossip : gossip[p] \in Nat
<1>1. PICK S \in (SUBSET scenario.peers) \ {{}} : gossip \in [S -> 0 .. now + scenario.skew]
  BY DEF Gossips
<1>2. DOMAIN gossip = S /\ \A p \in S : gossip[p] \in 0 .. now + scenario.skew
  BY <1>1
<1>3. S \subseteq Peers
  BY <1>1, ScenarioFields
<1>4. 0 .. now + scenario.skew \subseteq Nat
  BY ScenarioFields
<1>5. QED
  BY <1>2, <1>3, <1>4

(***************************************************************************)
(* Type correctness.                                                       *)
(***************************************************************************)

\* A fresh broker is well typed.
LEMMA InitTyped == Init => TypeOK
<1> SUFFICES ASSUME Init PROVE TypeOK
  OBVIOUS
<1>1. scenario \in Scenarios /\ scenario.time \in Nat
  BY BrokerAssumption DEF Init
<1>2. now \in 0 .. scenario.time /\ contactBuiltAt \in 0 .. now
  BY <1>1 DEF Init
<1>3. counter \in 0 .. MaxRequests /\ backlog \in 0 .. MaxBacklog
  BY BrokerAssumption DEF Init
<1>4. contactDiscovered \in BOOLEAN
  BY DEF Init
<1>5. /\ lastSeen \in [Peers -> Nat \cup {Never}] /\ sockets \subseteq Peers
      /\ target \in [RequestIds -> Peers \cup {NoPeer}]
      /\ replied \subseteq Outstanding /\ failed \subseteq Outstanding
      /\ result \in [RequestIds -> {"none", "reply", "error"}] /\ unanswered \subseteq RequestIds
  BY DEF Init
<1>6. /\ handler \in [Incoming -> {"none", "running", "ended"}]
      /\ nested \in [Incoming -> RequestIds \cup {NoRequest}]
      /\ deferred \in [Peers -> SUBSET Incoming] /\ answered \subseteq Incoming
      /\ waiter \in [Waiters -> {"none", "waiting", "returned"}]
      /\ deadline \in [Waiters -> Nat]
      /\ met \subseteq Waiters /\ expired \subseteq Waiters
      /\ phase \in {"running", "stopping", "stopped"}
  BY DEF Init
<1>7. QED
  BY <1>1, <1>2, <1>3, <1>4, <1>5, <1>6 DEF TypeOK

\* Every step keeps the types; those of the two sets of signalled requests follow
\* since a request leaves the outstanding ones only together with its signals.
LEMMA NextTyped ==
  ASSUME TypeOK, Next
  PROVE  TypeOK'
<1> USE DEF memberVars, requestVars, signalVars, incomingVars, waiterVars, stopVars
<1>0. scenario' = scenario
  BY DEF Next
<1>1. CASE Tick
  BY <1>0, <1>1, ScenarioFields DEF Tick, TypeOK, Outstanding
<1>2. ASSUME NEW gossip \in Gossips, HandleGossipMessage(gossip) PROVE TypeOK'
  <2>1. lastSeen' \in [Peers -> Nat \cup {Never}]
    BY <1>2, GossipTyped DEF HandleGossipMessage, TypeOK
  <2>2. sockets' \subseteq Peers /\ contactDiscovered' \in BOOLEAN
    BY <1>2, GossipTyped DEF HandleGossipMessage, OnNodeAlive, TypeOK
  <2>3. deferred' \in [Peers -> SUBSET Incoming] /\ answered' \subseteq Incoming
    BY <1>2, GossipTyped DEF HandleGossipMessage, OnNodeAlive, FlushDeferredReplies, TypeOK
  <2>4. met' \subseteq Waiters /\ UNCHANGED <<waiter, deadline, expired>>
    BY <1>2 DEF HandleGossipMessage, OnNodeAlive, EvaluateClusterStateWaiters, TypeOK
  <2>5. phase' = phase /\ backlog' \in 0 .. MaxBacklog
    BY <1>2, RunTaskFrame DEF HandleGossipMessage
  <2>6. QED
    BY <1>0, <1>2, <2>1, <2>2, <2>3, <2>4, <2>5 DEF HandleGossipMessage, TypeOK, Outstanding
<1>3. ASSUME NEW p \in Peers, SendRequest(p) PROVE TypeOK'
  <2>1. SendTwoWayMessage(p)
    BY <1>3 DEF SendRequest
  <2>2. Outstanding \subseteq Outstanding'
    BY <2>1, SendFrame, BrokerAssumption DEF Outstanding
  <2>3. QED
    BY <1>0, <1>3, <2>1, <2>2, SendFrame DEF SendRequest, TypeOK
<1>4. ASSUME NEW id \in RequestIds, HandleRepliedResponse(id) PROVE TypeOK'
  BY <1>0, <1>4, RunTaskFrame DEF HandleRepliedResponse, TypeOK, Outstanding
<1>5. ASSUME NEW q \in Incoming, HandleIncomingRequest(q) PROVE TypeOK'
  BY <1>0, <1>5, RunTaskFrame DEF HandleIncomingRequest, TypeOK, Outstanding
<1>6. ASSUME NEW q \in Incoming, NEW p \in Peers, NestedRequest(q, p) PROVE TypeOK'
  <2>1. SendTwoWayMessage(p)
    BY <1>6 DEF NestedRequest
  <2>2. Outstanding \subseteq Outstanding'
    BY <2>1, SendFrame, BrokerAssumption DEF Outstanding
  <2>3. nested' \in [Incoming -> RequestIds \cup {NoRequest}]
    BY <1>6, <2>1, SendFrame DEF NestedRequest, TypeOK
  <2>4. QED
    BY <1>0, <1>6, <2>1, <2>2, <2>3, SendFrame DEF NestedRequest, TypeOK
<1>7. ASSUME NEW w \in Waiters, WaitClusterState(w) PROVE TypeOK'
  <2>1. now + WaitTime \in Nat
    BY ScenarioFields, BrokerAssumption
  <2>2. waiter' \in [Waiters -> {"none", "waiting", "returned"}] /\ deadline' \in [Waiters -> Nat]
    BY <1>7, <2>1 DEF WaitClusterState, TypeOK
  <2>3. QED
    BY <1>0, <1>7, <2>2 DEF WaitClusterState, TypeOK, Outstanding
<1>8. CASE Stop
  BY <1>0, <1>8 DEF Stop, TypeOK, Outstanding
<1>9. CASE CheckHeartbeatTimeout
  BY <1>0, <1>9, RunTaskFrame
     DEF CheckHeartbeatTimeout, OnNodeConnectionLost, EvaluateClusterStateWaiters, TypeOK, Outstanding
<1>10. ASSUME NEW to \in SUBSET Peers, BroadcastGossip(to) PROVE TypeOK'
  <2>1. contactBuiltAt' \in 0 .. now
    BY <1>10, ScenarioFields DEF BroadcastGossip, TypeOK
  <2>2. QED
    BY <1>0, <1>10, <2>1, RunTaskFrame DEF BroadcastGossip, TypeOK, Outstanding
<1>11. CASE CheckClusterStateWaiterTimeout
  BY <1>0, <1>11, RunTaskFrame DEF CheckClusterStateWaiterTimeout, TypeOK, Outstanding
<1>12. ASSUME NEW id \in RequestIds, ResumeRequest(id) PROVE TypeOK'
  BY <1>0, <1>12 DEF ResumeRequest, TypeOK, Outstanding
<1>13. ASSUME NEW q \in Incoming, FinishHandler(q) PROVE TypeOK'
  <2>1. From[q] \in Peers
    BY BrokerAssumption
  <2>2. deferred' \in [Peers -> SUBSET Incoming] /\ answered' \subseteq Incoming
    BY <1>13, <2>1 DEF FinishHandler, SendReply, TypeOK
  <2>3. QED
    BY <1>0, <1>13, <2>2 DEF FinishHandler, TypeOK, Outstanding
<1>14. ASSUME NEW w \in Waiters, ResumeWaiter(w) PROVE TypeOK'
  BY <1>0, <1>14 DEF ResumeWaiter, TypeOK, Outstanding
<1>15. CASE FinishStop
  BY <1>0, <1>15 DEF FinishStop, TypeOK, Outstanding
<1>16. QED
  BY <1>1, <1>2, <1>3, <1>4, <1>5, <1>6, <1>7, <1>8, <1>9, <1>10, <1>11, <1>12, <1>13, <1>14,
     <1>15 DEF Next, Environment, Timers, Resumptions

(***************************************************************************)
(* Which actions touch what.                                               *)
(***************************************************************************)

\* Only gossip, the heartbeat check and the end of Stop change the membership, and
\* only the last ends the broker.
LEMMA MemberFrame ==
  ASSUME TypeOK, Next
  PROVE  /\ \/ \E gossip \in Gossips : HandleGossipMessage(gossip)
            \/ CheckHeartbeatTimeout
            \/ FinishStop
            \/ UNCHANGED <<lastSeen, sockets>> /\ phase' # "stopped"
            \/ UNCHANGED <<lastSeen, sockets, phase>>
         /\ phase' # "stopped" => phase # "stopped"
<1> USE DEF memberVars, stopVars
<1>1. CASE Environment
  <2>1. CASE \E gossip \in Gossips : HandleGossipMessage(gossip)
    BY <2>1, RunTaskFrame DEF HandleGossipMessage
  <2>2. CASE \/ Tick
             \/ \E p \in Peers : SendRequest(p)
             \/ \E q \in Incoming, p \in Peers : NestedRequest(q, p)
             \/ \E w \in Waiters : WaitClusterState(w)
    BY <2>2 DEF Tick, SendRequest, NestedRequest, WaitClusterState
  <2>3. CASE \/ \E id \in RequestIds : HandleRepliedResponse(id)
             \/ \E q \in Incoming : HandleIncomingRequest(q)
    BY <2>3, RunTaskFrame DEF HandleRepliedResponse, HandleIncomingRequest
  <2>4. CASE Stop
    BY <2>4 DEF Stop
  <2>5. QED
    BY <1>1, <2>1, <2>2, <2>3, <2>4 DEF Environment
<1>2. CASE Timers
  BY <1>2, RunTaskFrame
     DEF Timers, CheckHeartbeatTimeout, BroadcastGossip, CheckClusterStateWaiterTimeout
<1>3. CASE Resumptions
  BY <1>3 DEF Resumptions, ResumeRequest, FinishHandler, ResumeWaiter, FinishStop
<1>4. QED
  BY <1>1, <1>2, <1>3 DEF Next

\* Only sending, a reply, the heartbeat check and the resumption of a request change
\* what is known of the requests.
LEMMA RequestFrame ==
  ASSUME TypeOK, Next
  PROVE  \/ (\E p \in Peers : SendTwoWayMessage(p)) /\ UNCHANGED <<lastSeen, replied, failed, phase>>
         \/ \E id \in RequestIds : HandleRepliedResponse(id)
         \/ CheckHeartbeatTimeout
         \/ \E id \in RequestIds : ResumeRequest(id)
         \/ UNCHANGED <<counter, target, result, replied, failed>>
<1> USE DEF memberVars, requestVars, signalVars, stopVars
<1>1. CASE Environment
  <2>1. CASE \/ \E p \in Peers : SendRequest(p)
             \/ \E q \in Incoming, p \in Peers : NestedRequest(q, p)
    BY <2>1 DEF SendRequest, NestedRequest
  <2>2. CASE \E id \in RequestIds : HandleRepliedResponse(id)
    BY <2>2
  <2>3. CASE \/ Tick \/ Stop
             \/ \E gossip \in Gossips : HandleGossipMessage(gossip)
             \/ \E q \in Incoming : HandleIncomingRequest(q)
             \/ \E w \in Waiters : WaitClusterState(w)
    BY <2>3 DEF Tick, Stop, HandleGossipMessage, HandleIncomingRequest, WaitClusterState
  <2>4. QED
    BY <1>1, <2>1, <2>2, <2>3 DEF Environment
<1>2. CASE Timers
  BY <1>2 DEF Timers, BroadcastGossip, CheckClusterStateWaiterTimeout
<1>3. CASE Resumptions
  BY <1>3 DEF Resumptions, FinishHandler, ResumeWaiter, FinishStop
<1>4. QED
  BY <1>1, <1>2, <1>3 DEF Next

\* Only gossip and the handlers of incoming requests change the replies.
LEMMA ReplyFrame ==
  ASSUME TypeOK, Next
  PROVE  \/ \E gossip \in Gossips : HandleGossipMessage(gossip)
         \/ \E q \in Incoming : HandleIncomingRequest(q)
         \/ \E q \in Incoming : FinishHandler(q)
         \/ UNCHANGED <<handler, deferred, answered>>
<1> USE DEF incomingVars
<1>1. CASE Environment
  <2>1. CASE \/ \E gossip \in Gossips : HandleGossipMessage(gossip)
             \/ \E q \in Incoming : HandleIncomingRequest(q)
    BY <2>1
  <2>2. CASE \/ Tick \/ Stop
             \/ \E p \in Peers : SendRequest(p)
             \/ \E id \in RequestIds : HandleRepliedResponse(id)
             \/ \E q \in Incoming, p \in Peers : NestedRequest(q, p)
             \/ \E w \in Waiters : WaitClusterState(w)
    BY <2>2 DEF Tick, Stop, SendRequest, HandleRepliedResponse, NestedRequest, WaitClusterState
  <2>3. QED
    BY <1>1, <2>1, <2>2 DEF Environment
<1>2. CASE Timers
  BY <1>2 DEF Timers, CheckHeartbeatTimeout, BroadcastGossip, CheckClusterStateWaiterTimeout
<1>3. CASE Resumptions
  BY <1>3 DEF Resumptions, ResumeRequest, ResumeWaiter, FinishStop
<1>4. QED
  BY <1>1, <1>2, <1>3 DEF Next

(***************************************************************************)
(* Membership.                                                             *)
(***************************************************************************)

\* Gossip makes every peer it names known.
LEMMA GossipEffect ==
  ASSUME TypeOK, NEW gossip \in Gossips, HandleGossipMessage(gossip)
  PROVE  /\ Known' = Known \cup DOMAIN gossip
         /\ sockets' = sockets \cup (DOMAIN gossip \ Known)
<1>1. lastSeen \in [Peers -> Nat \cup {Never}] /\ Never = -1
  BY DEF TypeOK, Never
<1>2. \A p \in Peers : lastSeen'[p] = IF p \in DOMAIN gossip /\ gossip[p] > lastSeen[p]
                                         THEN gossip[p] ELSE lastSeen[p]
  BY DEF HandleGossipMessage
<1>3. \A p \in Peers : lastSeen'[p] # Never <=> lastSeen[p] # Never \/ p \in DOMAIN gossip
  BY <1>1, <1>2, GossipTyped
<1>4. Known' = Known \cup DOMAIN gossip
  BY <1>3, GossipTyped DEF Known
<1>5. QED
  BY <1>4 DEF HandleGossipMessage, OnNodeAlive

\* The heartbeat check drops the peers that timed out, their sockets with them, and
\* fails the requests to them.
LEMMA LossEffect ==
  ASSUME TypeOK, CheckHeartbeatTimeout
  PROVE  \E lost \in SUBSET Known :
           /\ lost = {p \in Known : TimedOut(p)}
           /\ Known' = Known \ lost
           /\ sockets' = sockets \ lost
           /\ failed' = failed \cup {id \in Outstanding : target[id] \in lost}
           /\ lastSeen' = [p \in Peers |-> IF p \in lost THEN Never ELSE lastSeen[p]]
           /\ phase' = phase /\ phase # "stopped"
           /\ UNCHANGED <<counter, target, result, replied>>
<1> DEFINE lost == {p \in Known : TimedOut(p)}
<1>1. OnNodeConnectionLost(lost) /\ RunTask /\ UNCHANGED <<counter, target, result, replied>>
  BY DEF CheckHeartbeatTimeout, requestVars
<1>2. lastSeen' = [p \in Peers |-> IF p \in lost THEN Never ELSE lastSeen[p]]
  BY <1>1 DEF OnNodeConnectionLost
<1>3. Known' = Known \ lost
  BY <1>2 DEF Known
<1> HIDE DEF lost
<1>4. /\ sockets' = sockets \ lost
      /\ failed' = failed \cup {id \in Outstanding : target[id] \in lost}
  BY <1>1 DEF OnNodeConnectionLost
<1>5. lost \in SUBSET Known
  BY DEF lost
<1>6. QED
  BY <1>1, <1>2, <1>3, <1>4, <1>5, RunTaskFrame DEF lost

\* node_id_to_send_socket_ and node_id_to_state_ keep the same keys.
LEMMA SocketsKept ==
  ASSUME TypeOK, SocketsMatchStates, Next
  PROVE  SocketsMatchStates'
<1>1. ASSUME NEW gossip \in Gossips, HandleGossipMessage(gossip) PROVE SocketsMatchStates'
  BY <1>1, GossipEffect, MemberFrame DEF SocketsMatchStates
<1>2. CASE CheckHeartbeatTimeout
  BY <1>2, LossEffect DEF SocketsMatchStates
<1>3. CASE FinishStop
  BY <1>3 DEF FinishStop, SocketsMatchStates
<1>4. CASE UNCHANGED <<lastSeen, sockets>>
  BY <1>4, MemberFrame DEF SocketsMatchStates, Known
<1>5. QED
  BY <1>1, <1>2, <1>3, <1>4, MemberFrame

(***************************************************************************)
(* Requests.                                                               *)
(***************************************************************************)

\* Ids are used once, and a request that has ended is gone.
LEMMA IdsKept ==
  ASSUME TypeOK, FreshIds, EndedIsErased, Next
  PROVE  FreshIds' /\ EndedIsErased'
<1>0. counter \in Nat /\ RequestIds \subseteq Int
  BY ScenarioFields DEF TypeOK, RequestIds
<1>1. ASSUME NEW p \in Peers, SendTwoWayMessage(p) PROVE FreshIds' /\ EndedIsErased'
  BY <1>0, <1>1, SendFrame DEF FreshIds, EndedIsErased
<1>2. ASSUME NEW id \in RequestIds, HandleRepliedResponse(id) PROVE FreshIds' /\ EndedIsErased'
  BY <1>2 DEF HandleRepliedResponse, FreshIds, EndedIsErased
<1>3. CASE CheckHeartbeatTimeout
  BY <1>3, LossEffect DEF FreshIds, EndedIsErased
<1>4. ASSUME NEW id \in RequestIds, ResumeRequest(id) PROVE FreshIds' /\ EndedIsErased'
  <2>1. id < counter
    BY <1>0, <1>4 DEF ResumeRequest, FreshIds, TypeOK, Outstanding
  <2>2. QED
    BY <1>0, <1>4, <2>1 DEF ResumeRequest, FreshIds, EndedIsErased, TypeOK
<1>5. CASE UNCHANGED <<counter, target, result, replied, failed>>
  BY <1>5 DEF FreshIds, EndedIsErased
<1>6. QED
  BY <1>1, <1>2, <1>3, <1>4, <1>5, RequestFrame

\* A request is sent only to a known peer, and failed when that peer is dropped.
LEMMA WatchedKept ==
  ASSUME TypeOK, SocketsMatchStates, FreshIds, OutstandingIsWatched, Next
  PROVE  OutstandingIsWatched'
<1> SUFFICES ASSUME phase' # "stopped"
             PROVE  \A id \in Outstanding' \ (replied' \cup failed') : target'[id] \in Known'
  BY DEF OutstandingIsWatched
<1>0. phase # "stopped"
  BY MemberFrame
<1>1. ASSUME NEW p \in Peers, SendTwoWayMessage(p), UNCHANGED <<lastSeen, replied, failed>>
      PROVE  OutstandingIsWatched'
  <2>1. Known' = Known /\ sockets = Known
    BY <1>0, <1>1 DEF Known, SocketsMatchStates
  <2>2. counter \in RequestIds /\ target[counter] = NoPeer
    BY <1>1, SendFrame, ScenarioFields DEF FreshIds, TypeOK
  <2>3. QED
    BY <1>0, <1>1, <2>1, <2>2, SendFrame DEF OutstandingIsWatched, Outstanding
<1>2. ASSUME NEW id \in RequestIds, HandleRepliedResponse(id) PROVE OutstandingIsWatched'
  BY <1>0, <1>2 DEF HandleRepliedResponse, OutstandingIsWatched, Outstanding, memberVars, Known
<1>3. CASE CheckHeartbeatTimeout
  BY <1>0, <1>3, LossEffect DEF OutstandingIsWatched, Outstanding
<1>4. ASSUME NEW id \in RequestIds, ResumeRequest(id) PROVE OutstandingIsWatched'
  BY <1>0, <1>4 DEF ResumeRequest, OutstandingIsWatched, Outstanding, memberVars, Known, TypeOK
<1>5. CASE UNCHANGED <<counter, target, result, replied, failed>>
  <2>1. CASE Known \subseteq Known'
    BY <1>0, <1>5, <2>1 DEF OutstandingIsWatched, Outstanding
  <2>2. CASE CheckHeartbeatTimeout
    BY <1>3, <2>2
  <2>3. \/ Known \subseteq Known' \/ CheckHeartbeatTimeout \/ FinishStop
    BY MemberFrame, GossipEffect DEF Known
  <2>4. QED
    BY <2>1, <2>2, <2>3 DEF FinishStop
<1>6. QED
  BY <1>1, <1>2, <1>3, <1>4, <1>5, RequestFrame DEF OutstandingIsWatched

(***************************************************************************)
(* Replies.                                                                *)
(***************************************************************************)

\* A reply is sent or deferred once, when its handler ends, and sent from the deferred
\* ones in the step that finds its peer.
LEMMA RepliesKept ==
  ASSUME TypeOK, RepliesOfEnded, HandledIsReplied, Next
  PROVE  RepliesOfEnded' /\ HandledIsReplied'
<1>1. ASSUME NEW gossip \in Gossips, HandleGossipMessage(gossip)
      PROVE  RepliesOfEnded' /\ HandledIsReplied'
  <2> DEFINE found == DOMAIN gossip \ Known
  <2>1. /\ answered' = answered \cup UNION {deferred[p] : p \in found}
        /\ deferred' = [p \in Peers |-> IF p \in found THEN {} ELSE deferred[p]]
        /\ sockets' = sockets \cup found
        /\ handler' = handler /\ phase' = phase /\ phase # "stopped"
    BY <1>1, RunTaskFrame DEF HandleGossipMessage, OnNodeAlive, FlushDeferredReplies
  <2>2. found \subseteq Peers
    BY GossipTyped
  <2>3. \A q \in Incoming : From[q] \in Peers
    BY BrokerAssumption
  <2> HIDE DEF found
  <2>4. RepliesOfEnded'
    BY <2>1, <2>2 DEF RepliesOfEnded
  <2>5. ASSUME NEW q \in Incoming
        PROVE  handler'[q] = "ended" <=> (q \in answered') # (q \in deferred'[From[q]])
    <3>1. q \in UNION {deferred[p] : p \in found} <=> From[q] \in found /\ q \in deferred[From[q]]
      BY <2>2 DEF RepliesOfEnded
    <3>2. handler[q] = "ended" <=> (q \in answered) # (q \in deferred[From[q]])
      BY DEF HandledIsReplied
    <3>3. deferred'[From[q]] = IF From[q] \in found THEN {} ELSE deferred[From[q]]
      BY <2>1, <2>3
    <3>4. handler'[q] = handler[q]
      BY <2>1
    <3>5. CASE From[q] \in found /\ q \in deferred[From[q]]
      <4>1. q \in answered' /\ q \notin deferred'[From[q]]
        BY <2>1, <3>1, <3>3, <3>5
      <4>2. handler[q] = "ended"
        BY <2>3, <3>5 DEF RepliesOfEnded
      <4>3. QED
        BY <3>4, <4>1, <4>2
    <3>6. CASE ~(From[q] \in found /\ q \in deferred[From[q]])
      <4>1. q \in answered' <=> q \in answered
        BY <2>1, <3>1, <3>6
      <4>2. q \in deferred'[From[q]] <=> q \in deferred[From[q]]
        BY <3>3, <3>6
      <4>3. QED
        BY <3>2, <3>4, <4>1, <4>2
    <3>7. QED
      BY <3>5, <3>6
  <2>6. \A p \in Peers : deferred'[p] # {} => p \notin sockets'
    BY <2>1 DEF HandledIsReplied
  <2>7. QED
    BY <2>1, <2>4, <2>5, <2>6 DEF HandledIsReplied
<1>2. ASSUME NEW q \in Incoming, HandleIncomingRequest(q)
      PROVE  RepliesOfEnded' /\ HandledIsReplied'
  <2>1. /\ handler[q] = "none" /\ handler' = [handler EXCEPT ![q] = "running"]
        /\ UNCHANGED <<deferred, answered, sockets>> /\ phase' = phase /\ phase # "stopped"
    BY <1>2, RunTaskFrame DEF HandleIncomingRequest, memberVars
  <2>2. RepliesOfEnded'
    BY <2>1 DEF RepliesOfEnded, TypeOK
  <2>3. HandledIsReplied'
    BY <2>1 DEF HandledIsReplied, TypeOK
  <2>4. QED
    BY <2>2, <2>3
<1>3. ASSUME NEW q \in Incoming, FinishHandler(q)
      PROVE  RepliesOfEnded' /\ HandledIsReplied'
  <2>0. /\ handler[q] = "running" /\ handler' = [handler EXCEPT ![q] = "ended"]
        /\ sockets' = sockets /\ phase' = phase /\ phase # "stopped" /\ SendReply(q)
    BY <1>3 DEF FinishHandler, memberVars, stopVars
  <2>1. q \notin answered /\ \A p \in Peers : q \notin deferred[p]
    BY <2>0 DEF RepliesOfEnded
  <2>2. From[q] \in Peers
    BY BrokerAssumption
  <2>3. CASE From[q] \in sockets
    <3>1. answered' = answered \cup {q} /\ deferred' = deferred
      BY <2>0, <2>3 DEF SendReply
    <3>2. RepliesOfEnded'
      BY <2>0, <3>1 DEF RepliesOfEnded, TypeOK
    <3>3. HandledIsReplied'
      BY <2>0, <2>1, <2>2, <3>1 DEF HandledIsReplied, TypeOK
    <3>4. QED
      BY <3>2, <3>3
  <2>4. CASE From[q] \notin sockets
    <3>1. answered' = answered /\ deferred' = [deferred EXCEPT ![From[q]] = @ \cup {q}]
      BY <2>0, <2>4 DEF SendReply
    <3>2. RepliesOfEnded'
      BY <2>0, <2>2, <3>1 DEF RepliesOfEnded, TypeOK
    <3>3. HandledIsReplied'
      BY <2>0, <2>1, <2>2, <2>4, <3>1, BrokerAssumption DEF HandledIsReplied, TypeOK
    <3>4. QED
      BY <3>2, <3>3
  <2>5. QED
    BY <2>3, <2>4
<1>4. CASE UNCHANGED <<handler, deferred, answered>>
  <2>1. RepliesOfEnded'
    BY <1>4 DEF RepliesOfEnded
  <2>2. \A q \in Incoming : handler'[q] = "ended" <=> (q \in answered') # (q \in deferred'[From[q]])
    BY <1>4 DEF HandledIsReplied
  <2> DEFINE Waits == phase # "stopped" => \A p \in Peers : deferred[p] # {} => p \notin sockets
             NoneRuns == phase = "stopped" => \A q \in Incoming : handler[q] # "running"
  <2>3. Waits /\ NoneRuns
    BY DEF HandledIsReplied
  <2>4. CASE \E gossip \in Gossips : HandleGossipMessage(gossip)
    BY <1>1, <2>4
  <2>5. CASE CheckHeartbeatTimeout
    <3>1. Waits' /\ NoneRuns'
      BY <1>4, <2>3, <2>5, LossEffect
    <3>2. QED
      BY <2>1, <2>2, <3>1, Zenon DEF HandledIsReplied
  <2>6. CASE FinishStop
    <3>1. Waits' /\ NoneRuns'
      BY <1>4, <2>6 DEF FinishStop
    <3>2. QED
      BY <2>1, <2>2, <3>1, Zenon DEF HandledIsReplied
  <2>7. CASE UNCHANGED sockets /\ (phase' # "stopped" \/ UNCHANGED phase)
    <3>1. Waits' /\ NoneRuns'
      BY <1>4, <2>3, <2>7, MemberFrame
    <3>2. QED
      BY <2>1, <2>2, <3>1, Zenon DEF HandledIsReplied
  <2>8. QED
    BY <2>4, <2>5, <2>6, <2>7, MemberFrame
<1>5. QED
  BY <1>1, <1>2, <1>3, <1>4, ReplyFrame

(***************************************************************************)
(* The theorems.                                                           *)
(***************************************************************************)

\* The invariant of the broker: its maps, its requests and its replies agree, whatever
\* the peers send and whenever Stop comes.
THEOREM BrokerInvariant == Spec => []IInv
<1>1. Init => IInv
  <2> SUFFICES ASSUME Init PROVE IInv
    OBVIOUS
  <2>1. TypeOK
    BY InitTyped
  <2>2. SocketsMatchStates /\ OutstandingIsWatched
    BY DEF Init, SocketsMatchStates, OutstandingIsWatched, Known, Outstanding
  <2>3. FreshIds /\ EndedIsErased
    BY DEF Init, FreshIds, EndedIsErased
  <2>4. RepliesOfEnded /\ HandledIsReplied
    BY BrokerAssumption DEF Init, RepliesOfEnded, HandledIsReplied
  <2>5. QED
    BY <2>1, <2>2, <2>3, <2>4 DEF IInv
<1>2. IInv /\ [Next]_vars => IInv'
  <2> SUFFICES ASSUME IInv, [Next]_vars PROVE IInv'
    OBVIOUS
  <2>1. CASE Next
    BY <2>1, NextTyped, SocketsKept, IdsKept, WatchedKept, RepliesKept DEF IInv
  <2>2. CASE UNCHANGED vars
    <3> USE <2>2 DEF vars, brokerVars, memberVars, requestVars, signalVars, incomingVars,
                     waiterVars, stopVars
    <3>1. TypeOK'
      BY DEF IInv, TypeOK, Outstanding
    <3>2. SocketsMatchStates' /\ OutstandingIsWatched' /\ FreshIds' /\ EndedIsErased'
      BY DEF IInv, SocketsMatchStates, OutstandingIsWatched, FreshIds, EndedIsErased, Known,
             Outstanding
    <3>3. RepliesOfEnded' /\ HandledIsReplied'
      BY DEF IInv, RepliesOfEnded, HandledIsReplied
    <3>4. QED
      BY <3>1, <3>2, <3>3 DEF IInv
  <2>3. QED
    BY <2>1, <2>2
<1>3. QED
  BY <1>1, <1>2, PTL DEF Spec

\* BroadcastGossip never looks a missing socket up: the send sockets and the node
\* states have the same keys until Stop closes the sockets.
THEOREM SocketsAlwaysMatch == Spec => []SocketsMatchStates
<1>1. IInv => SocketsMatchStates
  BY DEF IInv
<1>2. QED
  BY <1>1, BrokerInvariant, PTL

\* No request is orphaned: one that is neither answered nor failed waits for a peer
\* that CheckHeartbeatTimeout still watches.
THEOREM NoOrphanedRequest == Spec => []OutstandingIsWatched
<1>1. IInv => OutstandingIsWatched
  BY DEF IInv
<1>2. QED
  BY <1>1, BrokerInvariant, PTL

\* Every incoming request whose handler has ended has exactly one reply, sent or, while
\* its peer is unknown, deferred; and Stop leaves no handler running.
THEOREM EveryHandledIsReplied == Spec => []HandledIsReplied
<1>1. IInv => HandledIsReplied
  BY DEF IInv
<1>2. QED
  BY <1>1, BrokerInvariant, PTL

\* The remainder of a natural number does not exceed it.
LEMMA ModAtMost == \A n \in Nat, m \in Nat \ {0} : n % m <= n
<1> SUFFICES ASSUME NEW n \in Nat, NEW m \in Nat \ {0} PROVE n % m <= n
  OBVIOUS
<1>1. CASE n < m
  BY <1>1
<1>2. CASE n >= m
  <2>1. n % m \in 0 .. m - 1
    OBVIOUS
  <2>2. QED
    BY <1>2, <2>1
<1>3. QED
  BY <1>1, <1>2

\* CheckHeartbeatTimeout, with its unsigned subtraction of any width, drops no peer that
\* was heard of within the time-out or whose timestamp lies in the future.
THEOREM OnlySilentPeersDropped == Spec => DropsOnlySilentPeers
<1> DEFINE Keeps == \A p \in Peers :
      lastSeen[p] # Never /\ lastSeen'[p] = Never => now - lastSeen[p] >= Timeout
<1>1. IInv /\ [Next]_vars => [Keeps]_vars
  <2> SUFFICES ASSUME IInv, Next PROVE Keeps
    OBVIOUS
  <2>0. TypeOK /\ Peers \cap Known = Known
    BY DEF IInv, Known
  <2>1. ASSUME NEW gossip \in Gossips, HandleGossipMessage(gossip) PROVE Keeps
    <3>1. Known \subseteq Known'
      BY <2>0, <2>1, GossipEffect
    <3>2. QED
      BY <3>1 DEF Known
  <2>2. CASE CheckHeartbeatTimeout
    <3> SUFFICES ASSUME NEW p \in Peers, lastSeen[p] # Never, lastSeen'[p] = Never
                 PROVE  now - lastSeen[p] >= Timeout
      OBVIOUS
    <3>1. TimedOut(p)
      BY <2>0, <2>2, LossEffect
    <3>2. lastSeen[p] \in Nat /\ now \in Nat
      BY <2>0, ScenarioFields DEF TypeOK
    <3>3. now - lastSeen[p] \in Nat /\ (now - lastSeen[p]) % TimeMod >= Timeout
      BY <3>1, <3>2 DEF TimedOut
    <3>4. (now - lastSeen[p]) % TimeMod <= now - lastSeen[p]
      BY <3>3, ModAtMost, BrokerAssumption
    <3>5. (now - lastSeen[p]) % TimeMod \in Int
      BY <3>3, BrokerAssumption
    <3>6. QED
      BY <3>2, <3>3, <3>4, <3>5, BrokerAssumption
  <2>3. CASE UNCHANGED lastSeen
    BY <2>3
  <2>4. QED
    BY <2>0, <2>1, <2>2, <2>3, MemberFrame DEF FinishStop
<1>2. QED
  BY <1>1, BrokerInvariant, PTL DEF Spec, DropsOnlySilentPeers

\* The outcome that SendRequest gave its caller is final: no late reply and no later loss
\* of the peer changes it or makes the request outstanding again.
THEOREM OutcomesAreFinal == Spec => OutcomeIsFinal
<1> DEFINE Final == \A id \in RequestIds :
      result[id] # "none" => result'[id] = result[id] /\ target'[id] = NoPeer
<1>1. IInv /\ [Next]_vars => [Final]_vars
  <2> SUFFICES ASSUME IInv, Next PROVE Final
    OBVIOUS
  <2>0. TypeOK /\ FreshIds /\ EndedIsErased
    BY DEF IInv
  <2>1. ASSUME NEW p \in Peers, SendTwoWayMessage(p) PROVE Final
    <3>1. counter \in RequestIds /\ result[counter] = "none"
      BY <2>0, <2>1, SendFrame, ScenarioFields DEF FreshIds, TypeOK
    <3>2. QED
      BY <2>0, <2>1, <3>1, SendFrame DEF EndedIsErased
  <2>2. ASSUME NEW id \in RequestIds, HandleRepliedResponse(id) PROVE Final
    BY <2>0, <2>2 DEF HandleRepliedResponse, EndedIsErased
  <2>3. CASE CheckHeartbeatTimeout
    BY <2>0, <2>3, LossEffect DEF EndedIsErased
  <2>4. ASSUME NEW id \in RequestIds, ResumeRequest(id) PROVE Final
    <3>1. result[id] = "none"
      BY <2>0, <2>4 DEF ResumeRequest, EndedIsErased, TypeOK, Outstanding
    <3>2. QED
      BY <2>0, <2>4, <3>1 DEF ResumeRequest, EndedIsErased, TypeOK
  <2>5. CASE UNCHANGED <<counter, target, result, replied, failed>>
    BY <2>0, <2>5 DEF EndedIsErased
  <2>6. QED
    BY <2>0, <2>1, <2>2, <2>3, <2>4, <2>5, RequestFrame
<1>2. QED
  BY <1>1, BrokerInvariant, PTL DEF Spec, OutcomeIsFinal

(***************************************************************************)
(* Waits on the cluster state.                                             *)
(***************************************************************************)

\* A wait whose condition holds has been told so.
ConditionNoticed ==
  \A w \in Waiters : waiter[w] = "waiting" /\ Required[w] \subseteq Known => w \in met

\* Only gossip, the heartbeat check, a new wait and the end of one change what this says.
LEMMA WaitFrame ==
  ASSUME TypeOK, Next
  PROVE  \/ \E gossip \in Gossips : HandleGossipMessage(gossip)
         \/ CheckHeartbeatTimeout
         \/ \E w \in Waiters : WaitClusterState(w)
         \/ \E w \in Waiters : ResumeWaiter(w)
         \/ UNCHANGED <<lastSeen, waiter, met>>
<1> USE DEF memberVars, waiterVars
<1>1. CASE Environment
  <2>1. CASE \/ \E gossip \in Gossips : HandleGossipMessage(gossip)
             \/ \E w \in Waiters : WaitClusterState(w)
    BY <2>1
  <2>2. CASE \/ Tick \/ Stop
             \/ \E p \in Peers : SendRequest(p)
             \/ \E id \in RequestIds : HandleRepliedResponse(id)
             \/ \E q \in Incoming : HandleIncomingRequest(q)
             \/ \E q \in Incoming, p \in Peers : NestedRequest(q, p)
    BY <2>2 DEF Tick, Stop, SendRequest, HandleRepliedResponse, HandleIncomingRequest,
                NestedRequest
  <2>3. QED
    BY <1>1, <2>1, <2>2 DEF Environment
<1>2. CASE Timers
  BY <1>2 DEF Timers, BroadcastGossip, CheckClusterStateWaiterTimeout
<1>3. CASE Resumptions
  BY <1>3 DEF Resumptions, ResumeRequest, FinishHandler, FinishStop
<1>4. QED
  BY <1>1, <1>2, <1>3 DEF Next

\* Whoever changes the membership evaluates the waiters afterwards, and a wait begins only
\* when its condition does not hold.
LEMMA NoticedKept ==
  ASSUME TypeOK, ConditionNoticed, Next
  PROVE  ConditionNoticed'
<1>1. ASSUME NEW gossip \in Gossips, HandleGossipMessage(gossip) PROVE ConditionNoticed'
  <2>1. Known' = Known \cup (DOMAIN gossip \ Known)
    BY <1>1, GossipEffect
  <2>2. EvaluateClusterStateWaiters(Known \cup (DOMAIN gossip \ Known))
    BY <1>1 DEF HandleGossipMessage, OnNodeAlive
  <2>3. QED
    BY <2>1, <2>2 DEF EvaluateClusterStateWaiters, ConditionNoticed
<1>2. CASE CheckHeartbeatTimeout
  <2>1. PICK lost \in SUBSET Known : lost = {p \in Known : TimedOut(p)} /\ Known' = Known \ lost
    BY <1>2, LossEffect
  <2>2. EvaluateClusterStateWaiters(Known \ lost)
    BY <1>2, <2>1 DEF CheckHeartbeatTimeout, OnNodeConnectionLost
  <2>3. QED
    BY <2>1, <2>2 DEF EvaluateClusterStateWaiters, ConditionNoticed
<1>3. ASSUME NEW w \in Waiters, WaitClusterState(w) PROVE ConditionNoticed'
  <2>1. Known' = Known /\ met \subseteq met'
    BY <1>3 DEF WaitClusterState, memberVars, Known
  <2>2. Required[w] \subseteq Known => waiter'[w] # "waiting"
    BY <1>3 DEF WaitClusterState, TypeOK
  <2>3. \A x \in Waiters \ {w} : waiter'[x] = waiter[x]
    BY <1>3 DEF WaitClusterState, TypeOK
  <2>4. QED
    BY <2>1, <2>2, <2>3 DEF ConditionNoticed
<1>4. ASSUME NEW w \in Waiters, ResumeWaiter(w) PROVE ConditionNoticed'
  <2>1. Known' = Known /\ met' = met
    BY <1>4 DEF ResumeWaiter, memberVars, Known
  <2>2. \A x \in Waiters : waiter'[x] = "waiting" => waiter[x] = "waiting"
    BY <1>4 DEF ResumeWaiter, TypeOK
  <2>3. QED
    BY <2>1, <2>2 DEF ConditionNoticed
<1>5. CASE UNCHANGED <<lastSeen, waiter, met>>
  BY <1>5 DEF ConditionNoticed, Known
<1>6. QED
  BY <1>1, <1>2, <1>3, <1>4, <1>5, WaitFrame

\* WaitClusterState returns "not met" only together with a cluster state that does not meet
\* the condition, however its deadline and the membership race.
THEOREM UnmetIsTrue == Spec => UnmetAgreesWithState
<1> DEFINE Agrees == \A w \in Waiters :
      waiter[w] = "waiting" /\ waiter'[w] = "returned" /\ w \notin met'
        => ~(Required[w] \subseteq Known')
<1>1. Init => ConditionNoticed
  BY DEF Init, ConditionNoticed
<1>2. IInv /\ ConditionNoticed /\ [Next]_vars => ConditionNoticed'
  <2>1. ASSUME IInv, ConditionNoticed, Next PROVE ConditionNoticed'
    BY <2>1, NoticedKept DEF IInv
  <2>2. ASSUME ConditionNoticed, UNCHANGED vars PROVE ConditionNoticed'
    BY <2>2 DEF ConditionNoticed, Known, vars, brokerVars, memberVars, waiterVars
  <2>3. QED
    BY <2>1, <2>2
<1>3. IInv /\ ConditionNoticed /\ [Next]_vars => [Agrees]_vars
  <2> SUFFICES ASSUME IInv, ConditionNoticed, Next PROVE Agrees
    OBVIOUS
  <2> SUFFICES ASSUME NEW w \in Waiters, waiter[w] = "waiting", waiter'[w] = "returned",
                      w \notin met'
               PROVE  ~(Required[w] \subseteq Known')
    OBVIOUS
  <2>0. TypeOK
    BY DEF IInv
  <2>1. CASE \/ \E gossip \in Gossips : HandleGossipMessage(gossip)
             \/ CheckHeartbeatTimeout
             \/ UNCHANGED <<lastSeen, waiter, met>>
    BY <2>1 DEF HandleGossipMessage, OnNodeAlive, CheckHeartbeatTimeout, OnNodeConnectionLost,
                EvaluateClusterStateWaiters
  <2>2. ASSUME NEW x \in Waiters, WaitClusterState(x) PROVE FALSE
    BY <2>0, <2>2 DEF WaitClusterState, TypeOK
  <2>3. ASSUME NEW x \in Waiters, ResumeWaiter(x) PROVE ~(Required[w] \subseteq Known')
    BY <2>3 DEF ResumeWaiter, ConditionNoticed, memberVars, Known
  <2>4. QED
    BY <2>0, <2>1, <2>2, <2>3, WaitFrame
<1>4. QED
  BY <1>1, <1>2, <1>3, BrokerInvariant, PTL DEF Spec, UnmetAgreesWithState
=============================================================================
