--------------------------- MODULE ActorRegistry ---------------------------
(***************************************************************************)
(* The registry of one node (actor_registry.h, actor_registry.cc): the     *)
(* maps of ActorRegistryBackend, the coroutines that work on them, and the *)
(* shutdown in ~ActorRegistry.  The backend is an actor, so what it does   *)
(* between two co_awaits is one action.  A registered actor is abstracted  *)
(* to what Actor.tla shows of it: whether its async_scope_ still has an    *)
(* activation, whose messages wait in its mailbox, and where it is in      *)
(* AsyncDestroy.                                                           *)
(***************************************************************************)
EXTENDS Integers, Sequences

CONSTANTS
  Ids,               \* actor ids
  Objects,           \* the Actor objects that may be made, each at most once
  Names,
  Local,             \* calls of user code through ActorRegistry
  Remote,            \* requests the broker passes to HandleNetworkRequest
  Operations,        \* what the calls may ask for
  OverlapShutdown    \* whether user code still calls the registry during shutdown

Calls == Local \cup Remote
None == "none"
Self == "self"

ASSUME RegistryAssumption ==
  /\ Local \cap Remote = {}
  /\ Operations \subseteq {"spawn", "destroy", "lookup", "call"}
  /\ OverlapShutdown \in BOOLEAN
  /\ None \notin Ids \cup Objects \cup Names /\ Self \notin Calls

VARIABLES
  actor,       \* actor_id_to_actor_
  serialized,  \* the keys of actor_id_to_serialized_ref_
  nameToId,    \* actor_name_to_id_
  name,        \* actor_config_.actor_name of each object
  life,        \* each object: "unborn", "alive", "destroying" (AsyncDestroy was
               \* called) or "drained" (instance reset and async_scope_ empty)
  freed,       \* objects that were deleted
  active,      \* objects whose async_scope_ has an activation
  inbox,       \* the mailbox of each object, as who waits for each message
  pc,          \* where each call is
  on,          \* the object each call is about
  phase,       \* how far ~ActorRegistry is
  awaited      \* what the scope of AsyncDestroyAllActors waits for

mapVars == <<actor, serialized, nameToId, name>>
objectVars == <<life, freed, active, inbox>>
shutdownVars == <<phase, awaited>>
vars == <<mapVars, objectVars, pc, on, shutdownVars>>

Waiting == {"joining", "calling", "executed"}

\* The maps hold ids, names and objects of the model, and a call that is suspended
\* is so on an object.
TypeOK ==
  /\ actor \in [Ids -> Objects \cup {None}]
  /\ serialized \subseteq Ids
  /\ nameToId \in [Names -> Ids \cup {None}]
  /\ name \in [Objects -> Names \cup {None}]
  /\ life \in [Objects -> {"unborn", "alive", "destroying", "drained"}]
  /\ freed \subseteq Objects /\ active \subseteq Objects
  /\ inbox \in [Objects -> Seq(Calls \cup {Self})]
  /\ pc \in [Calls -> {"idle", "done", "failed"} \cup Waiting]
  /\ on \in [Calls -> Objects \cup {None}]
  /\ \A c \in Calls : pc[c] \in Waiting => on[c] # None
  /\ phase \in {"up", "stopping", "brokerDown", "destroyAll", "actorsDown", "backendDown"}
  /\ awaited \subseteq Objects

Init ==
  /\ actor = [i \in Ids |-> None]
  /\ serialized = {}
  /\ nameToId = [n \in Names |-> None]
  /\ name = [o \in Objects |-> None]
  /\ life = [o \in Objects |-> "unborn"]
  /\ freed = {} /\ active = {}
  /\ inbox = [o \in Objects |-> <<>>]
  /\ pc = [c \in Calls |-> "idle"]
  /\ on = [c \in Calls |-> None]
  /\ phase = "up"
  /\ awaited = {}

\* A call reaches the backend.  The broker passes requests on until its Stop has
\* returned; user code is done before the shutdown unless OverlapShutdown.
Begin(c, op) ==
  /\ pc[c] = "idle"
  /\ op \in Operations
  /\ IF c \in Remote THEN phase \in {"up", "stopping"}
                     ELSE phase = "up" \/ (OverlapShutdown /\ phase # "backendDown")

Finish(c, how, o) ==
  /\ pc' = [pc EXCEPT ![c] = how]
  /\ on' = [on EXCEPT ![c] = o]

(***************************************************************************)
(* Spawning: SpawnLocal, and HandleActorCreationRequest for a remote node. *)
(***************************************************************************)

\* GenerateRandomActorId: any id that no registered actor has.
GenerateRandomActorId == {i \in Ids : actor[i] = None}

\* The three maps are filled in.
Register(o, i, n) ==
  /\ actor' = [actor EXCEPT ![i] = o]
  /\ serialized' = serialized \cup {i}
  /\ nameToId' = IF n = None THEN nameToId ELSE [nameToId EXCEPT ![n] = i]

\* The object is made before the name is looked at; a name that is taken makes the
\* call throw, and the object is deleted on the way out.  The user's hook
\* ExActorOnSpawned is taken to do nothing.
Spawn(c, n) ==
  /\ Begin(c, "spawn")
  /\ \E o \in Objects, i \in GenerateRandomActorId :
       /\ life[o] = "unborn"
       /\ life' = [life EXCEPT ![o] = "alive"]
       /\ name' = [name EXCEPT ![o] = n]
       /\ IF n # None /\ nameToId[n] # None
            THEN /\ freed' = freed \cup {o}
                 /\ Finish(c, "failed", o)
                 /\ UNCHANGED <<actor, serialized, nameToId>>
            ELSE /\ Register(o, i, n)
                 /\ Finish(c, "done", o)
                 /\ UNCHANGED freed
  /\ UNCHANGED <<active, inbox, shutdownVars>>

(***************************************************************************)
(* DestroyActor on this node and HandleActorDestroyRequest.                *)
(***************************************************************************)

\* Mutant: AsyncDestroy does not activate the actor.
AsyncDestroyNoActivate(os) ==
  /\ life' = [o \in Objects |-> IF o \in os /\ life[o] = "alive" THEN "destroying" ELSE life[o]]
  /\ UNCHANGED active

\* Actor::AsyncDestroy: the first call activates the actor and joins its scope.
AsyncDestroy(os) ==
  /\ life' = [o \in Objects |-> IF o \in os /\ life[o] = "alive" THEN "destroying" ELSE life[o]]
  /\ active' = active \cup {o \in os : life[o] = "alive"}

\* Mutant: the name outlives the actor.
UnregisterKeepName(i) ==
  /\ actor' = [actor EXCEPT ![i] = None]
  /\ serialized' = serialized \ {i}
  /\ UNCHANGED nameToId

\* The actor leaves the three maps, its name the one it was configured with.
Unregister(i) ==
  /\ actor' = [actor EXCEPT ![i] = None]
  /\ serialized' = serialized \ {i}
  /\ nameToId' = [n \in Names |-> IF n = name[actor[i]] THEN None ELSE nameToId[n]]

\* Mutant: the object is deleted without waiting for AsyncDestroy.
DestroyLocalActorNoWait(c, i) ==
  /\ Begin(c, "destroy")
  /\ actor[i] # None
  /\ Unregister(i)
  /\ AsyncDestroy({actor[i]})
  /\ freed' = freed \cup {actor[i]}
  /\ Finish(c, "done", actor[i])
  /\ UNCHANGED <<name, inbox, shutdownVars>>

\* DestroyLocalActor up to its co_await.  When AsyncDestroy was called before, the
\* new call of it returns at once, and the object is deleted.
DestroyLocalActor(c, i) ==
  /\ Begin(c, "destroy")
  /\ \/ /\ actor[i] = None
        /\ Finish(c, "failed", None)
        /\ UNCHANGED <<mapVars, objectVars>>
     \/ /\ actor[i] # None
        /\ Unregister(i)
        /\ AsyncDestroy({actor[i]})
        /\ IF life[actor[i]] = "alive"
             THEN Finish(c, "joining", actor[i]) /\ UNCHANGED freed
             ELSE Finish(c, "done", actor[i]) /\ freed' = freed \cup {actor[i]}
        /\ UNCHANGED <<name, inbox>>
  /\ UNCHANGED shutdownVars

\* DestroyLocalActor after its co_await: the object goes out of scope.
ResumeDestroy(c) ==
  /\ pc[c] = "joining"
  /\ phase # "backendDown"
  /\ life[on[c]] = "drained"
  /\ freed' = freed \cup {on[c]}
  /\ Finish(c, "done", on[c])
  /\ UNCHANGED <<mapVars, life, active, inbox, shutdownVars>>

(***************************************************************************)
(* Looking up, calling and running an actor.                               *)
(***************************************************************************)

\* GetActorRefByName and ActorLookUpRequest.  at() and MapAt throw when the name
\* leads to an id without an actor or without a serialized reference.
LookUp(c, n) ==
  /\ Begin(c, "lookup")
  /\ LET i == nameToId[n] IN
       IF i = None THEN Finish(c, "done", None)
       ELSE IF actor[i] = None \/ i \notin serialized THEN Finish(c, "failed", None)
       ELSE Finish(c, "done", actor[i])
  /\ UNCHANGED <<mapVars, objectVars, shutdownVars>>

\* HandleActorMethodCallRequest: an unknown id, an unknown handler or a full mailbox is
\* answered with an error; otherwise a message is pushed and the coroutine waits for its
\* result.
MethodCall(c, i) ==
  /\ c \in Remote
  /\ Begin(c, "call")
  /\ \/ Finish(c, "failed", None) /\ UNCHANGED objectVars
     \/ /\ actor[i] # None
        /\ Finish(c, "calling", actor[i])
        /\ inbox' = [inbox EXCEPT ![actor[i]] = Append(@, c)]
        /\ active' = active \cup {actor[i]}
        /\ UNCHANGED <<life, freed>>
  /\ UNCHANGED <<mapVars, shutdownVars>>

\* The result is there, and the coroutine replies with it.
ResumeCall(c) ==
  /\ pc[c] = "executed"
  /\ phase # "backendDown"
  /\ Finish(c, "done", on[c])
  /\ UNCHANGED <<mapVars, objectVars, shutdownVars>>

\* PushMessage through an ActorRef on this node: user code may send until the
\* object is deleted; a scope that was joined refuses the activation.  Bound: one
\* such message at a time in each mailbox.
SendLocal(o) ==
  /\ life[o] \in {"alive", "destroying"}
  /\ o \notin freed
  /\ \A k \in 1 .. Len(inbox[o]) : inbox[o][k] # Self
  /\ inbox' = [inbox EXCEPT ![o] = Append(@, Self)]
  /\ active' = active \cup {o}
  /\ UNCHANGED <<mapVars, life, freed, pc, on, shutdownVars>>

\* Mutant: the activation ends after one message without looking for another.
RunAliveOnce(o) ==
  /\ life[o] = "alive"
  /\ inbox' = [inbox EXCEPT ![o] = Tail(@)]
  /\ active' = active \ {o}
  /\ pc' = [c \in Calls |-> IF c = Head(inbox[o]) THEN "executed" ELSE pc[c]]
  /\ UNCHANGED life

\* An activation of an actor that is not being destroyed executes one message and
\* goes on while there are others.
RunAlive(o) ==
  /\ life[o] = "alive"
  /\ inbox' = [inbox EXCEPT ![o] = Tail(@)]
  /\ active' = IF Len(inbox[o]) = 1 THEN active \ {o} ELSE active
  /\ pc' = [c \in Calls |-> IF c = Head(inbox[o]) THEN "executed" ELSE pc[c]]
  /\ UNCHANGED life

\* The activation of an actor to be destroyed resets the instance and leaves the
\* mailbox as it is; with it the scope is empty.
RunDestroyed(o) ==
  /\ life[o] = "destroying"
  /\ life' = [life EXCEPT ![o] = "drained"]
  /\ active' = active \ {o}
  /\ UNCHANGED <<inbox, pc>>

Activation(o) ==
  /\ o \in active
  /\ RunAlive(o) \/ RunDestroyed(o)
  /\ UNCHANGED <<mapVars, freed, on, shutdownVars>>

(***************************************************************************)
(* ~ActorRegistry, on the thread that calls Shutdown.                      *)
(***************************************************************************)

\* Stop is sent to the broker.
BeginShutdown ==
  /\ phase = "up"
  /\ OverlapShutdown \/ \A c \in Local : pc[c] \notin Waiting
  /\ phase' = "stopping"
  /\ UNCHANGED <<mapVars, objectVars, pc, on, awaited>>

\* Stop has returned, which waits for the requests being handled, and the broker
\* was destroyed.
BrokerDown ==
  /\ phase = "stopping"
  /\ \A c \in Remote : pc[c] \notin Waiting
  /\ phase' = "brokerDown"
  /\ UNCHANGED <<mapVars, objectVars, pc, on, awaited>>

Registered == {o \in Objects : \E i \in Ids : actor[i] = o}

\* AsyncDestroyAllActors up to its co_await.
AsyncDestroyAllActors ==
  /\ phase = "brokerDown"
  /\ phase' = "destroyAll"
  /\ awaited' = {o \in Registered : life[o] = "alive"}
  /\ AsyncDestroy(Registered)
  /\ UNCHANGED <<mapVars, freed, inbox, pc, on>>

\* Mutant: AsyncDestroyAllActors does not wait.
AllActorsDestroyedAtOnce ==
  /\ phase = "destroyAll"
  /\ phase' = "actorsDown"
  /\ UNCHANGED <<mapVars, objectVars, pc, on, awaited>>

\* The scope of AsyncDestroyAllActors is joined.
AllActorsDestroyed ==
  /\ phase = "destroyAll"
  /\ \A o \in awaited : life[o] = "drained"
  /\ phase' = "actorsDown"
  /\ UNCHANGED <<mapVars, objectVars, pc, on, awaited>>

\* The backend actor is destroyed, and with it the actors it owns.
DestroyBackend ==
  /\ phase = "actorsDown"
  /\ phase' = "backendDown"
  /\ freed' = freed \cup Registered
  /\ actor' = [i \in Ids |-> None]
  /\ serialized' = {}
  /\ nameToId' = [n \in Names |-> None]
  /\ UNCHANGED <<name, life, active, inbox, pc, on, awaited>>

-----------------------------------------------------------------------------
Resume(c) == ResumeDestroy(c) \/ ResumeCall(c)
ShutdownStep == BrokerDown \/ AsyncDestroyAllActors \/ AllActorsDestroyed \/ DestroyBackend

Next ==
  \/ \E c \in Calls, n \in Names \cup {None} : Spawn(c, n)
  \/ \E c \in Calls, i \in Ids : DestroyLocalActor(c, i) \/ MethodCall(c, i)
  \/ \E c \in Calls, n \in Names : LookUp(c, n)
  \/ \E c \in Calls : Resume(c)
  \/ \E o \in Objects : SendLocal(o) \/ Activation(o)
  \/ BeginShutdown \/ ShutdownStep

Spec == Init /\ [][Next]_vars

\* The thread pools run the activations of the user actors and of the backend; the
\* thread in ~ActorRegistry goes on when what it waits for has come.
FairSpec ==
  /\ Spec
  /\ \A o \in Objects : WF_vars(Activation(o))
  /\ \A c \in Calls : WF_vars(Resume(c))
  /\ WF_vars(ShutdownStep)
-----------------------------------------------------------------------------
\* A name leads to an actor that has it and whose reference can be sent, and every
\* registered actor with a name is found under it: no interleaving of spawns,
\* destroys and shutdown makes at() or MapAt throw, or leaves a name taken.
NamesResolve ==
  /\ \A n \in Names : nameToId[n] # None =>
       /\ actor[nameToId[n]] # None
       /\ name[actor[nameToId[n]]] = n
  /\ \A i \in Ids : actor[i] # None =>
       /\ i \in serialized
       /\ name[actor[i]] # None => nameToId[name[actor[i]]] = i

\* actor.h:142, "Owned by one actor and kept alive until its async scope has
\* drained": an Actor is deleted only when no activation of it is in its scope and
\* no AsyncDestroy waits for one.
FreedOnlyWhenDrained ==
  \A o \in freed : o \notin active /\ life[o] # "destroying"

\* When ~ActorRegistry is through, every actor that was ever made has come to rest
\* and was deleted: none is left to run on a thread pool that is about to go.
ShutdownLeavesNoActor ==
  phase = "backendDown" =>
    \A o \in Objects : life[o] # "unborn" => o \in freed /\ o \notin active

\* DestroyActor completes, and a remote method call is answered, unless its actor is
\* destroyed first.
CallsReturn ==
  /\ \A c \in Calls : pc[c] = "joining" ~> pc[c] = "done"
  /\ \A c \in Remote : pc[c] = "calling" ~>
       pc[c] = "done" \/ (on[c] # None /\ life[on[c]] \in {"destroying", "drained"})

\* The steps that ~ActorRegistry lists ("1. Stop and destroy the message broker",
\* "3. Destroy user actors", "5. Destroy the backend actor") are all reached, unless
\* a remote call waits for an actor that was destroyed with the call in its mailbox.
ShutdownReturnsUnlessStranded ==
  phase = "stopping" ~>
    \/ phase = "backendDown"
    \/ \E c \in Remote : pc[c] = "calling" /\ life[on[c]] = "drained"
=============================================================================
