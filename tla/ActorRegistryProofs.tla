------------------------ MODULE ActorRegistryProofs ------------------------
(***************************************************************************)
(* The maps of the registry agree at all times, for every set of ids,      *)
(* names, actors and calls, with or without calls during the shutdown.     *)
(***************************************************************************)
EXTENDS ActorRegistry, SequenceTheorems, TLAPS

\* Whatever is registered was made.
RegisteredBorn == \A i \in Ids : actor[i] # None => life[actor[i]] # "unborn"

\* An activation belongs to an actor that was made and, until it is destroyed, has
\* a message.
ActiveBorn ==
  \A o \in active : life[o] # "unborn" /\ (life[o] = "alive" => inbox[o] # <<>>)

\* A call with a message in a mailbox has begun and is about some object.
MailboxCalls ==
  \A o \in Objects : \A k \in 1 .. Len(inbox[o]) :
    inbox[o][k] \in Calls => pc[inbox[o][k]] # "idle" /\ on[inbox[o][k]] # None

\* The inductive invariant.
IInv == TypeOK /\ NamesResolve /\ RegisteredBorn /\ ActiveBorn /\ MailboxCalls

\* What PushMessage makes of a mailbox.
LEMMA AppendToMailbox ==
  ASSUME NEW S, NEW s \in Seq(S), NEW e \in S
  PROVE  Append(s, e) \in Seq(S) /\ Append(s, e) # <<>>
  BY AppendProperties, Zenon

\* What an activation leaves of a mailbox after one message.
LEMMA RestOfMailbox ==
  ASSUME NEW S, NEW s \in Seq(S), s # <<>>
  PROVE  /\ Tail(s) \in Seq(S)
         /\ Len(s) # 1 => Tail(s) # <<>>
         /\ Head(s) = s[1] /\ 1 \in 1 .. Len(s)
<1>1. Len(s) \in Nat \ {0}
  BY EmptySeq, Zenon
<1>2. Tail(s) \in Seq(S) /\ Len(Tail(s)) = Len(s) - 1
  BY HeadTailProperties, Zenon
<1>3. Len(s) # 1 => Len(Tail(s)) # 0
  BY <1>1, <1>2
<1>4. Len(s) # 1 => Tail(s) # <<>>
  BY <1>3, EmptySeq, Zenon
<1>5. Head(s) = s[1] /\ 1 \in 1 .. Len(s)
  BY <1>1
<1> QED
  BY <1>2, <1>4, <1>5, Zenon

\* Before the first call all maps are empty and no actor was made.
LEMMA InitEstablishes == Init => IInv
  BY RegistryAssumption
  DEF Init, IInv, TypeOK, NamesResolve, RegisteredBorn, ActiveBorn, MailboxCalls, Waiting, Calls

\* A call that has not begun is in no mailbox, so what Finish does to a call that
\* begins, or to one that is resumed, leaves MailboxCalls alone.
LEMMA FinishKeepsMailboxCalls ==
  ASSUME TypeOK, MailboxCalls, NEW c \in Calls, NEW how, NEW o,
         Finish(c, how, o), how # "idle", UNCHANGED inbox,
         pc[c] = "idle" \/ o # None
  PROVE  MailboxCalls'
  BY DEF TypeOK, MailboxCalls, Finish

\* SpawnLocal registers an actor that was in no map, under an id and a name that
\* were free, or changes no map at all.
LEMMA SpawnStep ==
  ASSUME IInv, NEW c \in Calls, NEW n \in Names \cup {None}, Spawn(c, n)
  PROVE  IInv'
<1>1. PICK o \in Objects, i \in GenerateRandomActorId :
        /\ life[o] = "unborn"
        /\ life' = [life EXCEPT ![o] = "alive"]
        /\ name' = [name EXCEPT ![o] = n]
        /\ IF n # None /\ nameToId[n] # None
             THEN /\ freed' = freed \cup {o}
                  /\ Finish(c, "failed", o)
                  /\ UNCHANGED <<actor, serialized, nameToId>>
             ELSE /\ Register(o, i, n)
                  /\ Finish(c, "done", o)
                  /\ UNCHANGED freed
  BY DEF Spawn
<1>2. i \in Ids /\ actor[i] = None /\ pc[c] = "idle"
  BY DEF GenerateRandomActorId, Spawn, Begin
<1>3. UNCHANGED <<active, inbox, shutdownVars>>
  BY DEF Spawn
<1>4. o # None /\ Self \notin Calls
  BY RegistryAssumption
<1>5. ASSUME n # None /\ nameToId[n] # None PROVE TypeOK' /\ NamesResolve'
  <2>1. freed' = freed \cup {o} /\ Finish(c, "failed", o) /\ UNCHANGED <<actor, serialized, nameToId>>
    BY <1>1, <1>5
  <2>2. \A j \in Ids : actor[j] # None => actor[j] # o
    BY <1>1 DEF IInv, RegisteredBorn
  <2>3. life' = [life EXCEPT ![o] = "alive"] /\ name' = [name EXCEPT ![o] = n]
    BY <1>1
  <2>4. TypeOK'
    BY <1>3, <1>4, <2>1, <2>3 DEF IInv, TypeOK, Finish, Waiting, shutdownVars
  <2>5. NamesResolve'
    BY <2>1, <2>2, <2>3 DEF IInv, TypeOK, NamesResolve
  <2> QED
    BY <2>4, <2>5
<1>6. ASSUME ~(n # None /\ nameToId[n] # None) PROVE TypeOK' /\ NamesResolve'
  <2>1. Register(o, i, n) /\ Finish(c, "done", o) /\ UNCHANGED freed
    BY <1>1, <1>6
  <2>2. \A j \in Ids : actor[j] # None => actor[j] # o
    BY <1>1 DEF IInv, RegisteredBorn
  <2>3. life' = [life EXCEPT ![o] = "alive"] /\ name' = [name EXCEPT ![o] = n]
    BY <1>1
  <2>4. TypeOK'
    <3>1. /\ actor' \in [Ids -> Objects \cup {None}]
          /\ serialized' \subseteq Ids
          /\ nameToId' \in [Names -> Ids \cup {None}]
      BY <1>2, <2>1 DEF IInv, TypeOK, Register
    <3> QED
      BY <1>3, <1>4, <2>1, <2>3, <3>1 DEF IInv, TypeOK, Finish, Waiting, shutdownVars
  <2>5. NamesResolve'
    <3>1. \A j \in Ids : actor'[j] = IF j = i THEN o ELSE actor[j]
      BY <1>2, <2>1 DEF Register, IInv, TypeOK
    <3>2. \A m \in Names : nameToId'[m] = IF m = n THEN i ELSE nameToId[m]
      BY <1>4, <2>1, RegistryAssumption DEF Register, IInv, TypeOK
    <3>3. \A x \in Objects : name'[x] = IF x = o THEN n ELSE name[x]
      BY <2>3 DEF IInv, TypeOK
    <3>4. serialized' = serialized \cup {i}
      BY <2>1 DEF Register
    <3>5. ASSUME NEW m \in Names, nameToId'[m] # None
          PROVE  actor'[nameToId'[m]] # None /\ name'[actor'[nameToId'[m]]] = m
      <4>1. CASE m = n
        BY <4>1, <1>2, <1>4, <3>1, <3>2, <3>3
      <4>2. CASE m # n
        <5>1. nameToId'[m] = nameToId[m] /\ nameToId[m] \in Ids
          BY <4>2, <3>2, <3>5 DEF IInv, TypeOK
        <5>2. actor[nameToId[m]] # None /\ name[actor[nameToId[m]]] = m
          BY <5>1, <3>5 DEF IInv, NamesResolve
        <5> QED
          BY <5>1, <5>2, <1>2, <2>2, <3>1, <3>3 DEF IInv, TypeOK
      <4> QED
        BY <4>1, <4>2
    <3>6. ASSUME NEW j \in Ids, actor'[j] # None
          PROVE  /\ j \in serialized'
                 /\ name'[actor'[j]] # None => nameToId'[name'[actor'[j]]] = j
      <4>1. CASE j = i
        BY <4>1, <3>1, <3>2, <3>3, <3>4
      <4>2. CASE j # i
        <5>1. actor'[j] = actor[j] /\ actor[j] \in Objects /\ actor[j] # o /\ actor[j] # None
          BY <4>2, <3>1, <3>6, <2>2 DEF IInv, TypeOK
        <5>2. j \in serialized /\ (name[actor[j]] # None => nameToId[name[actor[j]]] = j)
          BY <5>1 DEF IInv, NamesResolve
        <5>3. name[actor[j]] \in Names \cup {None} /\ j # None
          BY <5>1, RegistryAssumption DEF IInv, TypeOK
        <5> QED
          BY <5>1, <5>2, <5>3, <1>6, <3>2, <3>3, <3>4
      <4> QED
        BY <4>1, <4>2
    <3> QED
      BY <3>5, <3>6 DEF NamesResolve
  <2> QED
    BY <2>4, <2>5
<1>7. RegisteredBorn'
  <2>1. \A j \in Ids : actor'[j] = actor[j] \/ actor'[j] = o
    BY <1>1, <1>2 DEF IInv, TypeOK, Register
  <2>2. \A x \in Objects : life'[x] = IF x = o THEN "alive" ELSE life[x]
    BY <1>1 DEF IInv, TypeOK
  <2> QED
    BY <2>1, <2>2, <1>4 DEF IInv, TypeOK, RegisteredBorn
<1>8. ActiveBorn'
  BY <1>1, <1>3 DEF IInv, TypeOK, ActiveBorn
<1>9. MailboxCalls'
  BY <1>1, <1>2, <1>3, <1>4, FinishKeepsMailboxCalls DEF IInv
<1>10. TypeOK' /\ NamesResolve'
  BY <1>5, <1>6
<1> QED
  BY <1>7, <1>8, <1>9, <1>10 DEF IInv

\* DestroyLocalActor takes the name that its actor was configured with out of the
\* map, which by NamesResolve led to that actor.
LEMMA DestroyStep ==
  ASSUME IInv, NEW c \in Calls, NEW i \in Ids, DestroyLocalActor(c, i)
  PROVE  IInv'
<1>0. pc[c] = "idle" /\ UNCHANGED <<inbox, name, shutdownVars>>
  BY DEF DestroyLocalActor, Begin, mapVars, objectVars
<1>1. CASE actor[i] = None
  <2>1. Finish(c, "failed", None) /\ UNCHANGED <<mapVars, objectVars>>
    BY <1>1 DEF DestroyLocalActor
  <2>2. TypeOK'
    BY <1>0, <2>1 DEF IInv, TypeOK, Finish, Waiting, mapVars, objectVars, shutdownVars
  <2>3. MailboxCalls'
    BY <1>0, <2>1, FinishKeepsMailboxCalls DEF IInv
  <2> QED
    BY <2>1, <2>2, <2>3 DEF IInv, NamesResolve, RegisteredBorn, ActiveBorn, mapVars, objectVars
<1>2. CASE actor[i] # None
  <2>1. /\ Unregister(i)
        /\ AsyncDestroy({actor[i]})
        /\ \/ Finish(c, "joining", actor[i]) /\ UNCHANGED freed
           \/ Finish(c, "done", actor[i]) /\ freed' = freed \cup {actor[i]}
    BY <1>2 DEF DestroyLocalActor
  <2>2. actor[i] \in Objects /\ life[actor[i]] # "unborn"
    BY <1>2 DEF IInv, TypeOK, RegisteredBorn
  <2>3. TypeOK'
    BY <1>0, <1>2, <2>1, <2>2, RegistryAssumption
    DEF IInv, TypeOK, Finish, Waiting, Unregister, AsyncDestroy, shutdownVars
  <2>4. NamesResolve'
    BY <1>0, <1>2, <2>1, <2>2 DEF IInv, TypeOK, NamesResolve, Unregister
  <2>5. RegisteredBorn'
    BY <2>1 DEF IInv, TypeOK, RegisteredBorn, Unregister, AsyncDestroy
  <2>6. ActiveBorn'
    BY <1>0, <2>1, <2>2 DEF IInv, TypeOK, ActiveBorn, AsyncDestroy
  <2>7. MailboxCalls'
    BY <1>0, <2>1, FinishKeepsMailboxCalls DEF IInv
  <2> QED
    BY <2>3, <2>4, <2>5, <2>6, <2>7 DEF IInv
<1> QED
  BY <1>1, <1>2

\* HandleActorMethodCallRequest puts a call that has begun into the mailbox of a
\* registered actor.
LEMMA MethodCallStep ==
  ASSUME IInv, NEW c \in Calls, NEW i \in Ids, MethodCall(c, i)
  PROVE  IInv'
<1>0. pc[c] = "idle" /\ UNCHANGED <<mapVars, shutdownVars>>
  BY DEF MethodCall, Begin
<1>1. CASE Finish(c, "failed", None) /\ UNCHANGED objectVars
  <2>1. TypeOK'
    BY <1>0, <1>1 DEF IInv, TypeOK, Finish, Waiting, mapVars, objectVars, shutdownVars
  <2>2. MailboxCalls'
    BY <1>0, <1>1, FinishKeepsMailboxCalls DEF IInv, objectVars
  <2> QED
    BY <1>0, <1>1, <2>1, <2>2 DEF IInv, NamesResolve, RegisteredBorn, ActiveBorn, mapVars, objectVars
<1>2. CASE /\ actor[i] # None
           /\ Finish(c, "calling", actor[i])
           /\ inbox' = [inbox EXCEPT ![actor[i]] = Append(@, c)]
           /\ active' = active \cup {actor[i]}
           /\ UNCHANGED <<life, freed>>
  <2> DEFINE o == actor[i]
  <2>1. /\ Finish(c, "calling", o)
        /\ inbox' = [inbox EXCEPT ![o] = Append(@, c)]
        /\ active' = active \cup {o}
        /\ UNCHANGED <<life, freed>>
    BY <1>2
  <2>2. o \in Objects /\ o # None /\ life[o] # "unborn"
    BY <1>2 DEF IInv, TypeOK, RegisteredBorn
  <2>3. Append(inbox[o], c) \in Seq(Calls \cup {Self}) /\ Append(inbox[o], c) # <<>>
    <3>1. inbox[o] \in Seq(Calls \cup {Self}) /\ c \in Calls \cup {Self}
      BY <2>2 DEF IInv, TypeOK
    <3> QED
      BY <3>1, AppendToMailbox, Zenon
  <2>4. inbox' \in [Objects -> Seq(Calls \cup {Self})] /\ inbox'[o] # <<>>
    BY <2>1, <2>2, <2>3 DEF IInv, TypeOK
  <2> HIDE DEF o
  <2>5. TypeOK'
    BY <1>0, <2>1, <2>2, <2>4 DEF IInv, TypeOK, Finish, Waiting, mapVars, shutdownVars
  <2>6. NamesResolve' /\ RegisteredBorn'
    BY <1>0, <2>1 DEF IInv, NamesResolve, RegisteredBorn, mapVars
  <2>7. ActiveBorn'
    BY <2>1, <2>2, <2>4 DEF IInv, TypeOK, ActiveBorn
  <2>8. MailboxCalls'
    <3> SUFFICES ASSUME NEW x \in Objects, NEW k \in 1 .. Len(inbox'[x]), inbox'[x][k] \in Calls
                 PROVE  pc'[inbox'[x][k]] # "idle" /\ on'[inbox'[x][k]] # None
      BY DEF MailboxCalls
    <3>1. inbox'[x][k] = c \/ (k \in 1 .. Len(inbox[x]) /\ inbox'[x][k] = inbox[x][k])
      BY <2>1, <2>2 DEF IInv, TypeOK
    <3> QED
      BY <3>1, <1>0, <2>1, <2>2 DEF IInv, TypeOK, MailboxCalls, Finish
  <2> QED
    BY <2>5, <2>6, <2>7, <2>8 DEF IInv
<1> QED
  BY <1>1, <1>2 DEF MethodCall

\* LookUp and the coroutines that are resumed change nothing but their own call.
LEMMA CallStep ==
  ASSUME IInv, NEW c \in Calls,
         \/ \E n \in Names : LookUp(c, n)
         \/ ResumeDestroy(c)
         \/ ResumeCall(c)
  PROVE  IInv'
<1>1. PICK how \in {"done", "failed"}, o \in Objects \cup {None} :
        /\ Finish(c, how, o)
        /\ pc[c] = "idle" \/ o # None
  <2>1. CASE \E n \in Names : LookUp(c, n)
    BY <2>1 DEF LookUp, Begin, IInv, TypeOK
  <2>2. CASE ResumeDestroy(c) \/ ResumeCall(c)
    BY <2>2 DEF ResumeDestroy, ResumeCall, IInv, TypeOK, Waiting
  <2> QED
    BY <2>1, <2>2
<1>2. UNCHANGED <<mapVars, life, active, inbox, shutdownVars>> /\ freed' \subseteq Objects
  <2>1. CASE ResumeDestroy(c)
    BY <2>1, RegistryAssumption DEF ResumeDestroy, IInv, TypeOK, Waiting
  <2>2. CASE ~ResumeDestroy(c)
    BY <2>2 DEF LookUp, ResumeCall, objectVars, IInv, TypeOK
  <2> QED
    BY <2>1, <2>2
<1>3. TypeOK'
  BY <1>1, <1>2 DEF IInv, TypeOK, Finish, Waiting, mapVars, shutdownVars
<1>4. NamesResolve' /\ RegisteredBorn' /\ ActiveBorn'
  BY <1>2 DEF IInv, NamesResolve, RegisteredBorn, ActiveBorn, mapVars
<1>5. MailboxCalls'
  BY <1>1, <1>2, FinishKeepsMailboxCalls DEF IInv
<1> QED
  BY <1>3, <1>4, <1>5 DEF IInv

\* User code that sends, and activations, change neither the maps nor which actors
\* were made.
LEMMA ObjectStep ==
  ASSUME IInv, NEW o \in Objects, SendLocal(o) \/ Activation(o)
  PROVE  IInv'
<1>1. CASE SendLocal(o)
  <2>1. Append(inbox[o], Self) \in Seq(Calls \cup {Self}) /\ Append(inbox[o], Self) # <<>>
    <3>1. inbox[o] \in Seq(Calls \cup {Self}) /\ Self \in Calls \cup {Self}
      BY DEF IInv, TypeOK
    <3> QED
      BY <3>1, AppendToMailbox, Zenon
  <2>2. inbox' \in [Objects -> Seq(Calls \cup {Self})] /\ inbox'[o] # <<>>
    BY <1>1, <2>1 DEF SendLocal, IInv, TypeOK
  <2>3. TypeOK'
    BY <1>1, <2>2 DEF SendLocal, IInv, TypeOK, mapVars, shutdownVars
  <2>4. NamesResolve' /\ RegisteredBorn'
    BY <1>1 DEF SendLocal, IInv, NamesResolve, RegisteredBorn, mapVars
  <2>5. ActiveBorn'
    BY <1>1, <2>2 DEF SendLocal, IInv, TypeOK, ActiveBorn
  <2>6. MailboxCalls'
    <3> SUFFICES ASSUME NEW x \in Objects, NEW k \in 1 .. Len(inbox'[x]), inbox'[x][k] \in Calls
                 PROVE  pc'[inbox'[x][k]] # "idle" /\ on'[inbox'[x][k]] # None
      BY DEF MailboxCalls
    <3>1. k \in 1 .. Len(inbox[x]) /\ inbox'[x][k] = inbox[x][k]
      BY <1>1, RegistryAssumption DEF SendLocal, IInv, TypeOK
    <3> QED
      BY <3>1, <1>1 DEF SendLocal, IInv, MailboxCalls
  <2> QED
    BY <2>3, <2>4, <2>5, <2>6 DEF IInv
<1>2. CASE o \in active /\ RunAlive(o) /\ UNCHANGED <<mapVars, freed, on, shutdownVars>>
  <2>1. inbox[o] # <<>> /\ inbox[o] \in Seq(Calls \cup {Self})
    BY <1>2 DEF RunAlive, IInv, TypeOK, ActiveBorn
  <2>2. /\ Tail(inbox[o]) \in Seq(Calls \cup {Self})
        /\ Len(inbox[o]) # 1 => Tail(inbox[o]) # <<>>
        /\ Head(inbox[o]) = inbox[o][1] /\ 1 \in 1 .. Len(inbox[o])
    BY <2>1, RestOfMailbox, Zenon
  <2>3. inbox' \in [Objects -> Seq(Calls \cup {Self})] /\ inbox'[o] = Tail(inbox[o])
    BY <1>2, <2>2 DEF RunAlive, IInv, TypeOK
  <2>4. \A c \in Calls : pc'[c] = pc[c] \/ (pc'[c] = "executed" /\ on[c] # None)
    BY <1>2, <2>2 DEF RunAlive, IInv, TypeOK, MailboxCalls
  <2>5. TypeOK'
    BY <1>2, <2>3, <2>4 DEF RunAlive, IInv, TypeOK, Waiting, mapVars, shutdownVars
  <2>6. NamesResolve' /\ RegisteredBorn'
    BY <1>2 DEF RunAlive, IInv, NamesResolve, RegisteredBorn, mapVars
  <2>7. ActiveBorn'
    BY <1>2, <2>2, <2>3 DEF RunAlive, IInv, TypeOK, ActiveBorn
  <2>8. MailboxCalls'
    <3> SUFFICES ASSUME NEW x \in Objects, NEW k \in 1 .. Len(inbox'[x]), inbox'[x][k] \in Calls
                 PROVE  pc'[inbox'[x][k]] # "idle" /\ on'[inbox'[x][k]] # None
      BY DEF MailboxCalls
    <3>1. PICK j \in 1 .. Len(inbox[x]) : inbox'[x][k] = inbox[x][j]
      <4>1. CASE x = o
        <5>1. k + 1 \in 1 .. Len(inbox[o]) /\ Tail(inbox[o])[k] = inbox[o][k + 1]
          BY <4>1, <2>1, <2>3
        <5> QED
          BY <4>1, <5>1, <2>3
      <4>2. CASE x # o
        BY <4>2, <1>2 DEF RunAlive, IInv, TypeOK
      <4> QED
        BY <4>1, <4>2
    <3> QED
      BY <3>1, <1>2, <2>4 DEF IInv, MailboxCalls
  <2> QED
    BY <2>5, <2>6, <2>7, <2>8 DEF IInv
<1>3. CASE o \in active /\ RunDestroyed(o) /\ UNCHANGED <<mapVars, freed, on, shutdownVars>>
  <2>1. TypeOK'
    BY <1>3 DEF RunDestroyed, IInv, TypeOK, mapVars, shutdownVars
  <2>2. NamesResolve' /\ RegisteredBorn'
    BY <1>3 DEF RunDestroyed, IInv, TypeOK, NamesResolve, RegisteredBorn, mapVars
  <2>3. ActiveBorn' /\ MailboxCalls'
    BY <1>3 DEF RunDestroyed, IInv, TypeOK, ActiveBorn, MailboxCalls
  <2> QED
    BY <2>1, <2>2, <2>3 DEF IInv
<1> QED
  BY <1>1, <1>2, <1>3 DEF Activation

\* The steps of ~ActorRegistry keep the maps, or empty all of them at once.
LEMMA ShutdownStepKeeps ==
  ASSUME IInv, BeginShutdown \/ ShutdownStep
  PROVE  IInv'
<1>1. CASE BeginShutdown \/ BrokerDown \/ AllActorsDestroyed
  <2>1. UNCHANGED <<mapVars, objectVars, pc, on, awaited>>
    BY <1>1 DEF BeginShutdown, BrokerDown, AllActorsDestroyed
  <2>2. TypeOK'
    BY <1>1, <2>1 DEF BeginShutdown, BrokerDown, AllActorsDestroyed, IInv, TypeOK, mapVars, objectVars
  <2> QED
    BY <2>1, <2>2
    DEF IInv, NamesResolve, RegisteredBorn, ActiveBorn, MailboxCalls, mapVars, objectVars
<1>2. CASE AsyncDestroyAllActors
  <2>1. TypeOK'
    BY <1>2 DEF AsyncDestroyAllActors, AsyncDestroy, Registered, IInv, TypeOK, mapVars
  <2>2. NamesResolve' /\ RegisteredBorn'
    BY <1>2 DEF AsyncDestroyAllActors, AsyncDestroy, IInv, TypeOK, NamesResolve, RegisteredBorn, mapVars
  <2>3. ActiveBorn' /\ MailboxCalls'
    BY <1>2 DEF AsyncDestroyAllActors, AsyncDestroy, Registered, IInv, TypeOK, ActiveBorn, MailboxCalls
  <2> QED
    BY <2>1, <2>2, <2>3 DEF IInv
<1>3. CASE DestroyBackend
  <2>1. TypeOK'
    BY <1>3 DEF DestroyBackend, Registered, IInv, TypeOK
  <2>2. NamesResolve' /\ RegisteredBorn' /\ ActiveBorn' /\ MailboxCalls'
    BY <1>3 DEF DestroyBackend, IInv, NamesResolve, RegisteredBorn, ActiveBorn, MailboxCalls
  <2> QED
    BY <2>1, <2>2 DEF IInv
<1> QED
  BY <1>1, <1>2, <1>3 DEF ShutdownStep

\* Every step of the registry preserves the invariant.
LEMMA NextPreserves == IInv /\ [Next]_vars => IInv'
<1> SUFFICES ASSUME IInv, [Next]_vars PROVE IInv'
  OBVIOUS
<1>1. CASE UNCHANGED vars
  BY <1>1 DEF vars, mapVars, objectVars, shutdownVars, IInv, TypeOK, NamesResolve, RegisteredBorn,
              ActiveBorn, MailboxCalls
<1>2. CASE Next
  BY <1>2, SpawnStep, DestroyStep, MethodCallStep, CallStep, ObjectStep, ShutdownStepKeeps
  DEF Next, Resume
<1> QED
  BY <1>1, <1>2

\* The invariant from which the properties below follow: the maps hold what they
\* should, and the actors in them and their mailboxes are those of calls under way.
THEOREM RegistryInvariant == Spec => []IInv
<1> QED
  BY InitEstablishes, NextPreserves, PTL DEF Spec

\* The variables of the registry keep their types, for all ids, names and calls.
THEOREM RegistryTypeCorrect == Spec => []TypeOK
<1>1. IInv => TypeOK
  BY DEF IInv
<1> QED
  BY <1>1, RegistryInvariant, PTL

\* GetActorRefByName and ActorLookUpRequest never throw, and a name is taken exactly
\* while the actor that has it is registered, for all ids, names, actors and calls.
THEOREM NamesAlwaysResolve == Spec => []NamesResolve
<1>1. IInv => NamesResolve
  BY DEF IInv
<1> QED
  BY <1>1, RegistryInvariant, PTL

(***************************************************************************)
(* Lifetimes of the actors, when user code no longer calls the registry    *)
(* once its shutdown has begun.  FreedOnlyWhenDrained is not inductive: it *)
(* does not say who may still delete an actor, nor how far the shutdown    *)
(* has brought those that are registered.                                  *)
(***************************************************************************)

\* A deleted actor is at rest and can no longer be reached through the maps.
FreedAtRest ==
  \A o \in freed : life[o] \in {"alive", "drained"} /\ o \notin active /\ o \notin Registered

\* What AsyncDestroyAllActors leaves of the actors of the registry, phase by phase.
RegisteredLife ==
  \A i \in Ids : actor[i] # None =>
    /\ phase \in {"up", "stopping", "brokerDown"} => life[actor[i]] = "alive"
    /\ phase = "destroyAll" => life[actor[i]] \in {"destroying", "drained"}
    /\ phase = "destroyAll" /\ life[actor[i]] = "destroying" => actor[i] \in awaited
    /\ phase = "actorsDown" => life[actor[i]] = "drained"
    /\ phase # "backendDown"

\* An actor has one id.
OneId == \A i, j \in Ids : actor[i] # None /\ actor[i] = actor[j] => i = j

\* An actor that was made and not deleted is in the maps, or in the hands of a
\* DestroyLocalActor that waits for it.
Held ==
  \A o \in Objects :
    life[o] = "unborn" \/ o \in freed \/ o \in Registered
      \/ \E c \in Calls : pc[c] = "joining" /\ on[c] = o

\* A DestroyLocalActor waits for an actor whose destruction has begun.
JoiningDying == \A c \in Calls : pc[c] = "joining" => life[on[c]] \in {"destroying", "drained"}

\* User code is done when the shutdown begins, the broker's requests when Stop returns.
NoLateDestroy ==
  \A c \in Calls : pc[c] = "joining" =>
    phase \in (IF c \in Remote THEN {"up", "stopping"} ELSE {"up"})

\* A call whose message is in a mailbox is a method call.
MailboxNotJoining ==
  \A o \in Objects : \A k \in 1 .. Len(inbox[o]) :
    inbox[o][k] \in Calls => pc[inbox[o][k]] # "joining"

\* A drained actor is never activated again.
DrainedIsIdle == \A o \in active : life[o] \in {"alive", "destroying"}

Lifetimes ==
  /\ FreedAtRest /\ RegisteredLife /\ OneId /\ Held
  /\ JoiningDying /\ NoLateDestroy /\ MailboxNotJoining /\ DrainedIsIdle

\* A call that ends without "joining", and was not waiting in DestroyLocalActor, holds no
\* actor before or after.
LEMMA EndedCallHoldsNothing ==
  ASSUME TypeOK, Lifetimes, NEW c \in Calls, NEW how, NEW x, Finish(c, how, x),
         pc[c] # "joining", how # "joining", UNCHANGED inbox
  PROVE  /\ \A d \in Calls : pc'[d] = "joining" <=> pc[d] = "joining"
         /\ \A d \in Calls : pc[d] = "joining" => on'[d] = on[d]
         /\ MailboxNotJoining'
<1>1. \A d \in Calls : /\ pc'[d] = (IF d = c THEN how ELSE pc[d])
                       /\ on'[d] = (IF d = c THEN x ELSE on[d])
  BY DEF Finish, TypeOK
<1>2. MailboxNotJoining'
  BY <1>1 DEF Lifetimes, MailboxNotJoining
<1>3. QED
  BY <1>1, <1>2

\* SpawnLocal registers an actor that nobody had, or deletes it at once.
LEMMA SpawnLifetimes ==
  ASSUME ~OverlapShutdown, IInv, Lifetimes, NEW c \in Calls, NEW n \in Names \cup {None},
         Spawn(c, n)
  PROVE  Lifetimes'
<1>1. PICK o \in Objects, i \in GenerateRandomActorId :
        /\ life[o] = "unborn"
        /\ life' = [life EXCEPT ![o] = "alive"]
        /\ \/ /\ freed' = freed \cup {o} /\ UNCHANGED actor
              /\ Finish(c, "failed", o)
           \/ /\ actor' = [actor EXCEPT ![i] = o] /\ UNCHANGED freed
              /\ Finish(c, "done", o)
  BY DEF Spawn, Register
<1>2. /\ i \in Ids /\ actor[i] = None /\ pc[c] = "idle" /\ o # None
      /\ phase \in {"up", "stopping"}
      /\ UNCHANGED <<active, inbox, phase, awaited>>
  BY RegistryAssumption DEF Spawn, Begin, GenerateRandomActorId, shutdownVars
<1>3. /\ \A d \in Calls : pc'[d] = "joining" <=> pc[d] = "joining"
      /\ \A d \in Calls : pc[d] = "joining" => on'[d] = on[d]
      /\ MailboxNotJoining'
  BY <1>1, <1>2, EndedCallHoldsNothing DEF IInv
<1>4. \A x \in Objects : life'[x] = IF x = o THEN "alive" ELSE life[x]
  BY <1>1 DEF IInv, TypeOK
<1>5. /\ o \notin Registered /\ o \notin freed /\ o \notin active
      /\ \A d \in Calls : pc[d] = "joining" => on[d] # o /\ on[d] \in Objects
  <2>1. o \notin Registered
    BY <1>1, <1>2 DEF IInv, RegisteredBorn, Registered
  <2>2. o \notin freed /\ o \notin active
    BY <1>1 DEF Lifetimes, FreedAtRest, DrainedIsIdle
  <2>3. \A d \in Calls : pc[d] = "joining" => on[d] \in Objects
    BY DEF IInv, TypeOK, Waiting
  <2>4. \A d \in Calls : pc[d] = "joining" => on[d] # o
    BY <1>1 DEF Lifetimes, JoiningDying
  <2>5. QED
    BY <2>1, <2>2, <2>3, <2>4
<1>6. \A j \in Ids : actor'[j] = actor[j] \/ (j = i /\ actor'[j] = o)
  BY <1>1, <1>2 DEF IInv, TypeOK
<1>7. FreedAtRest'
  <2>1. CASE freed' = freed \cup {o} /\ UNCHANGED actor
    BY <1>2, <1>4, <1>5, <2>1 DEF Lifetimes, FreedAtRest, Registered, IInv, TypeOK
  <2>2. CASE UNCHANGED freed
    BY <1>2, <1>4, <1>5, <1>6, <2>2 DEF Lifetimes, FreedAtRest, Registered, IInv, TypeOK
  <2>3. QED
    BY <1>1, <2>1, <2>2
<1>8. RegisteredLife'
  BY <1>2, <1>4, <1>5, <1>6 DEF Lifetimes, RegisteredLife, Registered, IInv, TypeOK
<1>9. OneId'
  BY <1>2, <1>5, <1>6 DEF Lifetimes, OneId, Registered, IInv, TypeOK
<1>10. Held'
  <2>1. o \in freed' \/ o \in Registered'
    BY <1>1, <1>2 DEF Registered, IInv, TypeOK
  <2>2. \A x \in Objects : x \in Registered => x \in Registered'
    BY <1>2, <1>6, RegistryAssumption DEF Registered
  <2>3. freed \subseteq freed'
    BY <1>1
  <2>4. QED
    BY <1>3, <1>4, <2>1, <2>2, <2>3 DEF Lifetimes, Held
<1>11. JoiningDying' /\ NoLateDestroy'
  BY <1>2, <1>3, <1>4, <1>5 DEF Lifetimes, JoiningDying, NoLateDestroy
<1>12. DrainedIsIdle'
  BY <1>2, <1>4, <1>5 DEF Lifetimes, DrainedIsIdle, IInv, TypeOK
<1>13. QED
  BY <1>3, <1>7, <1>8, <1>9, <1>10, <1>11, <1>12 DEF Lifetimes

\* DestroyLocalActor takes over an actor that is alive and that no other id leads to.
LEMMA DestroyLifetimes ==
  ASSUME ~OverlapShutdown, IInv, Lifetimes, NEW c \in Calls, NEW i \in Ids,
         DestroyLocalActor(c, i)
  PROVE  Lifetimes'
<1>0. /\ pc[c] = "idle"
      /\ phase \in (IF c \in Remote THEN {"up", "stopping"} ELSE {"up"})
      /\ UNCHANGED <<inbox, phase, awaited>>
  BY DEF DestroyLocalActor, Begin, shutdownVars, mapVars, objectVars
<1>1. CASE actor[i] = None
  <2>1. Finish(c, "failed", None) /\ UNCHANGED <<actor, life, freed, active>>
    BY <1>1 DEF DestroyLocalActor, mapVars, objectVars
  <2>2. /\ \A d \in Calls : pc'[d] = "joining" <=> pc[d] = "joining"
        /\ \A d \in Calls : pc[d] = "joining" => on'[d] = on[d]
        /\ MailboxNotJoining'
    BY <1>0, <2>1, EndedCallHoldsNothing DEF IInv
  <2>3. QED
    BY <1>0, <2>1, <2>2 DEF Lifetimes, FreedAtRest, RegisteredLife, OneId, Held, JoiningDying,
       NoLateDestroy, DrainedIsIdle, Registered
<1>2. CASE actor[i] # None
  <2>a. PICK o \in Objects : o = actor[i]
    BY <1>2 DEF IInv, TypeOK
  <2>b. life[o] = "alive" /\ o \notin freed /\ o # None
    BY <1>0, <1>2, <2>a DEF Lifetimes, RegisteredLife, FreedAtRest, Registered
  <2>1. /\ actor' = [actor EXCEPT ![i] = None]
        /\ Finish(c, "joining", o) /\ UNCHANGED freed
        /\ active' = active \cup {o}
    BY <1>2, <2>a, <2>b DEF DestroyLocalActor, Unregister, AsyncDestroy
  <2>2. \A x \in Objects : life'[x] = IF x = o THEN "destroying" ELSE life[x]
    BY <1>2, <2>a, <2>b DEF DestroyLocalActor, AsyncDestroy
  <2>3. \A j \in Ids : actor'[j] = IF j = i THEN None ELSE actor[j]
    BY <2>1 DEF IInv, TypeOK
  <2>4. \A j \in Ids : actor'[j] # None => actor'[j] # o
    BY <1>2, <2>a, <2>3 DEF Lifetimes, OneId
  <2>5. \A d \in Calls : /\ pc'[d] = (IF d = c THEN "joining" ELSE pc[d])
                         /\ on'[d] = (IF d = c THEN o ELSE on[d])
    BY <2>1 DEF Finish, IInv, TypeOK
  <2>6. FreedAtRest'
    <3>1. \A x \in Objects : x \in Registered' => x \in Registered
      BY <2>3, RegistryAssumption DEF Registered
    <3>2. \A x \in freed : x \in Objects /\ x # o
      BY <2>b DEF IInv, TypeOK
    <3>3. QED
      BY <2>1, <2>2, <3>1, <3>2 DEF Lifetimes, FreedAtRest, Registered
  <2>7. RegisteredLife'
    BY <1>0, <2>2, <2>3, <2>4 DEF Lifetimes, RegisteredLife, IInv, TypeOK
  <2>8. OneId'
    BY <2>3 DEF Lifetimes, OneId
  <2>9. Held'
    <3>1. \A x \in Objects : x \in Registered => x = o \/ x \in Registered'
      BY <2>a, <2>3 DEF Registered
    <3>2. \A d \in Calls : pc[d] = "joining" => pc'[d] = "joining" /\ on'[d] = on[d]
      BY <1>0, <2>5
    <3>3. pc'[c] = "joining" /\ on'[c] = o
      BY <2>5
    <3>4. QED
      BY <2>1, <2>2, <3>1, <3>2, <3>3 DEF Lifetimes, Held
  <2>10. JoiningDying'
    BY <2>2, <2>5, RegistryAssumption DEF Lifetimes, JoiningDying, IInv, TypeOK, Waiting
  <2>11. NoLateDestroy'
    BY <1>0, <2>5 DEF Lifetimes, NoLateDestroy
  <2>12. MailboxNotJoining'
    BY <1>0, <2>5 DEF Lifetimes, MailboxNotJoining, IInv, MailboxCalls
  <2>13. DrainedIsIdle'
    BY <2>1, <2>2 DEF Lifetimes, DrainedIsIdle, IInv, TypeOK
  <2>14. QED
    BY <2>6, <2>7, <2>8, <2>9, <2>10, <2>11, <2>12, <2>13 DEF Lifetimes
<1>3. QED
  BY <1>1, <1>2

\* A method call reaches only an actor that is alive: the broker is up.
LEMMA MethodCallLifetimes ==
  ASSUME ~OverlapShutdown, IInv, Lifetimes, NEW c \in Calls, NEW i \in Ids, MethodCall(c, i)
  PROVE  Lifetimes'
<1>0. pc[c] = "idle" /\ phase \in {"up", "stopping"} /\ UNCHANGED <<actor, phase, awaited>>
  BY DEF MethodCall, Begin, shutdownVars, mapVars
<1>1. PICK how \in {"failed", "calling"}, x \in Objects \cup {None} : Finish(c, how, x)
  BY DEF MethodCall, IInv, TypeOK
<1>2. \A d \in Calls : /\ pc'[d] = (IF d = c THEN how ELSE pc[d])
                       /\ on'[d] = (IF d = c THEN x ELSE on[d])
  BY <1>1 DEF Finish, IInv, TypeOK
<1>3. /\ \A d \in Calls : pc'[d] = "joining" <=> pc[d] = "joining"
      /\ \A d \in Calls : pc[d] = "joining" => on'[d] = on[d]
  BY <1>0, <1>2
<1>4. UNCHANGED <<life, freed>>
  BY DEF MethodCall, objectVars
<1>5. \A o \in active' : o \in active \/ (life[o] = "alive" /\ o \in Registered)
  BY <1>0 DEF MethodCall, objectVars, Lifetimes, RegisteredLife, Registered, IInv, TypeOK
<1>6. \A o \in Objects : \A k \in 1 .. Len(inbox'[o]) :
        inbox'[o][k] = c \/ (k \in 1 .. Len(inbox[o]) /\ inbox'[o][k] = inbox[o][k])
  <2>1. CASE UNCHANGED inbox
    BY <2>1
  <2>2. CASE actor[i] \in Objects /\ inbox' = [inbox EXCEPT ![actor[i]] = Append(@, c)]
    BY <2>2 DEF IInv, TypeOK
  <2>3. QED
    BY <2>1, <2>2 DEF MethodCall, objectVars, IInv, TypeOK
<1>7. MailboxNotJoining'
  BY <1>0, <1>2, <1>3, <1>6 DEF Lifetimes, MailboxNotJoining
<1>8. FreedAtRest' /\ DrainedIsIdle'
  BY <1>0, <1>4, <1>5 DEF Lifetimes, FreedAtRest, DrainedIsIdle, Registered
<1>9. RegisteredLife' /\ OneId' /\ Held' /\ JoiningDying' /\ NoLateDestroy'
  BY <1>0, <1>3, <1>4
  DEF Lifetimes, RegisteredLife, OneId, Held, JoiningDying, NoLateDestroy, Registered
<1>10. QED
  BY <1>7, <1>8, <1>9 DEF Lifetimes

\* LookUp and a resumed method call concern no actor's lifetime; a resumed
\* DestroyLocalActor deletes an actor that is drained and in no map.
LEMMA CallLifetimes ==
  ASSUME ~OverlapShutdown, IInv, Lifetimes, NEW c \in Calls,
         (\E n \in Names : LookUp(c, n)) \/ Resume(c)
  PROVE  Lifetimes'
<1>0. UNCHANGED <<actor, life, active, inbox, phase, awaited>>
  BY DEF LookUp, Resume, ResumeDestroy, ResumeCall, mapVars, objectVars, shutdownVars
<1>1. CASE (\E n \in Names : LookUp(c, n)) \/ ResumeCall(c)
  <2>1. PICK how \in {"done", "failed"}, x \in Objects \cup {None} : Finish(c, how, x)
    BY <1>1 DEF LookUp, ResumeCall, IInv, TypeOK
  <2>2. UNCHANGED freed /\ pc[c] # "joining"
    BY <1>1 DEF LookUp, ResumeCall, Begin, objectVars
  <2>3. /\ \A d \in Calls : pc'[d] = "joining" <=> pc[d] = "joining"
        /\ \A d \in Calls : pc[d] = "joining" => on'[d] = on[d]
        /\ MailboxNotJoining'
    BY <1>0, <2>1, <2>2, EndedCallHoldsNothing DEF IInv
  <2>4. QED
    BY <1>0, <2>2, <2>3 DEF Lifetimes, FreedAtRest, RegisteredLife, OneId, Held, JoiningDying,
       NoLateDestroy, DrainedIsIdle, Registered
<1>2. CASE ResumeDestroy(c)
  <2>a. PICK o \in Objects : o = on[c]
    BY <1>2, RegistryAssumption DEF ResumeDestroy, IInv, TypeOK, Waiting
  <2>1. pc[c] = "joining" /\ life[o] = "drained" /\ freed' = freed \cup {o} /\ Finish(c, "done", o)
    BY <1>2, <2>a DEF ResumeDestroy
  <2>2. \A d \in Calls : /\ pc'[d] = (IF d = c THEN "done" ELSE pc[d])
                         /\ on'[d] = on[d]
    BY <2>1, <2>a DEF Finish, IInv, TypeOK
  <2>3. phase \in {"up", "stopping"}
    BY <2>1 DEF Lifetimes, NoLateDestroy
  <2>4. o \notin active /\ o \notin Registered
    BY <2>1, <2>3, RegistryAssumption
       DEF Lifetimes, DrainedIsIdle, RegisteredLife, Registered, IInv, TypeOK
  <2>5. FreedAtRest'
    BY <1>0, <2>1, <2>4 DEF Lifetimes, FreedAtRest, Registered
  <2>6. Held'
    BY <1>0, <2>a, <2>1, <2>2 DEF Lifetimes, Held, Registered
  <2>7. RegisteredLife' /\ OneId' /\ DrainedIsIdle'
    BY <1>0 DEF Lifetimes, RegisteredLife, OneId, DrainedIsIdle
  <2>8. JoiningDying' /\ NoLateDestroy' /\ MailboxNotJoining'
    BY <1>0, <2>2 DEF Lifetimes, JoiningDying, NoLateDestroy, MailboxNotJoining
  <2>9. QED
    BY <2>5, <2>6, <2>7, <2>8 DEF Lifetimes
<1>3. QED
  BY <1>1, <1>2 DEF Resume

\* Sending and running leave deleted actors alone.
LEMMA ObjectLifetimes ==
  ASSUME ~OverlapShutdown, IInv, Lifetimes, NEW o \in Objects, SendLocal(o) \/ Activation(o)
  PROVE  Lifetimes'
<1>0. UNCHANGED <<actor, freed, on, phase, awaited>> /\ o \notin freed
  BY DEF SendLocal, Activation, mapVars, shutdownVars, Lifetimes, FreedAtRest
<1>1. CASE SendLocal(o)
  <2>1. /\ UNCHANGED <<life, pc>> /\ active' = active \cup {o}
        /\ life[o] \in {"alive", "destroying"}
    BY <1>1 DEF SendLocal
  <2>2. \A x \in Objects : \A k \in 1 .. Len(inbox'[x]) : inbox'[x][k] \in Calls =>
          k \in 1 .. Len(inbox[x]) /\ inbox'[x][k] = inbox[x][k]
    BY <1>1, RegistryAssumption DEF SendLocal, IInv, TypeOK
  <2>3. MailboxNotJoining'
    BY <2>1, <2>2 DEF Lifetimes, MailboxNotJoining
  <2>4. QED
    BY <1>0, <2>1, <2>3 DEF Lifetimes, FreedAtRest, RegisteredLife, OneId, Held, JoiningDying,
       NoLateDestroy, DrainedIsIdle, Registered
<1>2. CASE o \in active /\ RunAlive(o)
  <2>0. inbox[o] # <<>> /\ inbox[o] \in Seq(Calls \cup {Self})
    BY <1>2 DEF RunAlive, IInv, TypeOK, ActiveBorn
  <2>1. /\ UNCHANGED life /\ active' \subseteq active
        /\ inbox' = [inbox EXCEPT ![o] = Tail(@)]
        /\ \A d \in Calls : pc'[d] = IF d = Head(inbox[o]) THEN "executed" ELSE pc[d]
    BY <1>2 DEF RunAlive
  <2>2. Head(inbox[o]) = inbox[o][1] /\ 1 \in 1 .. Len(inbox[o])
    BY <2>0, RestOfMailbox, Zenon
  <2>3. \A d \in Calls : d = Head(inbox[o]) => pc[d] # "joining"
    BY <2>2 DEF Lifetimes, MailboxNotJoining
  <2>4. \A d \in Calls : pc'[d] = "joining" <=> pc[d] = "joining"
    BY <2>1, <2>3
  <2>5. ASSUME NEW x \in Objects, NEW k \in 1 .. Len(inbox'[x])
        PROVE  \E j \in 1 .. Len(inbox[x]) : inbox'[x][k] = inbox[x][j]
    <3>1. CASE x = o
      <4>0. inbox'[o] = Tail(inbox[o])
        BY <2>1 DEF IInv, TypeOK
      <4>1. k + 1 \in 1 .. Len(inbox[o]) /\ Tail(inbox[o])[k] = inbox[o][k + 1]
        BY <2>0, <2>5, <3>1, <4>0
      <4>2. QED
        BY <3>1, <4>0, <4>1
    <3>2. CASE x # o
      BY <2>1, <2>5, <3>2 DEF IInv, TypeOK
    <3>3. QED
      BY <3>1, <3>2
  <2>6. MailboxNotJoining'
    BY <2>4, <2>5 DEF Lifetimes, MailboxNotJoining
  <2>7. QED
    BY <1>0, <2>1, <2>4, <2>6 DEF Lifetimes, FreedAtRest, RegisteredLife, OneId, Held, JoiningDying,
       NoLateDestroy, DrainedIsIdle, Registered
<1>3. CASE o \in active /\ RunDestroyed(o)
  <2>1. /\ UNCHANGED <<inbox, pc>> /\ active' = active \ {o} /\ life[o] = "destroying"
        /\ \A x \in Objects : life'[x] = IF x = o THEN "drained" ELSE life[x]
    BY <1>3 DEF RunDestroyed, IInv, TypeOK
  <2>2. \A x : x \in freed \/ x \in active => x \in Objects
    BY DEF IInv, TypeOK
  <2>3. FreedAtRest' /\ DrainedIsIdle'
    BY <1>0, <2>1, <2>2 DEF Lifetimes, FreedAtRest, DrainedIsIdle, Registered
  <2>4. RegisteredLife'
    BY <1>0, <2>1 DEF Lifetimes, RegisteredLife, IInv, TypeOK
  <2>5. JoiningDying'
    BY <1>0, <2>1, RegistryAssumption DEF Lifetimes, JoiningDying, IInv, TypeOK, Waiting
  <2>6. OneId' /\ Held' /\ NoLateDestroy' /\ MailboxNotJoining'
    BY <1>0, <2>1 DEF Lifetimes, OneId, Held, NoLateDestroy, MailboxNotJoining, Registered
  <2>7. QED
    BY <2>3, <2>4, <2>5, <2>6 DEF Lifetimes
<1>4. QED
  BY <1>1, <1>2, <1>3 DEF Activation

\* The steps of ~ActorRegistry find the actors at rest, or bring them there.
LEMMA ShutdownLifetimes ==
  ASSUME ~OverlapShutdown, IInv, Lifetimes, BeginShutdown \/ ShutdownStep
  PROVE  Lifetimes'
<1>0. UNCHANGED <<inbox, pc, on>>
  BY DEF BeginShutdown, ShutdownStep, BrokerDown, AsyncDestroyAllActors, AllActorsDestroyed,
     DestroyBackend, objectVars
<1>1. MailboxNotJoining'
  BY <1>0 DEF Lifetimes, MailboxNotJoining
<1>2. CASE BeginShutdown \/ BrokerDown \/ AllActorsDestroyed
  <2>1. UNCHANGED <<actor, life, freed, active, awaited>>
    BY <1>2 DEF BeginShutdown, BrokerDown, AllActorsDestroyed, mapVars, objectVars
  <2>2. RegisteredLife'
    BY <1>2, <2>1 DEF BeginShutdown, BrokerDown, AllActorsDestroyed, Lifetimes, RegisteredLife
  <2>3. NoLateDestroy'
    BY <1>0, <1>2 DEF BeginShutdown, BrokerDown, AllActorsDestroyed, Lifetimes, NoLateDestroy,
       Calls, Waiting
  <2>4. QED
    BY <1>0, <1>1, <2>1, <2>2, <2>3 DEF Lifetimes, FreedAtRest, OneId, Held, JoiningDying,
       DrainedIsIdle, Registered
<1>3. CASE AsyncDestroyAllActors
  <2>1. /\ phase = "brokerDown" /\ phase' = "destroyAll" /\ UNCHANGED <<actor, freed>>
        /\ awaited' = {o \in Registered : life[o] = "alive"}
        /\ \A o \in Objects : life'[o] =
             IF o \in Registered /\ life[o] = "alive" THEN "destroying" ELSE life[o]
        /\ active' = active \cup {o \in Registered : life[o] = "alive"}
    BY <1>3 DEF AsyncDestroyAllActors, AsyncDestroy, mapVars
  <2>2. \A x : x \in freed \/ x \in active \/ x \in Registered => x \in Objects
    BY DEF IInv, TypeOK, Registered
  <2>3. \A j \in Ids : actor[j] # None => actor[j] \in Registered /\ life[actor[j]] = "alive"
    BY <2>1 DEF Lifetimes, RegisteredLife, Registered, IInv, TypeOK
  <2>4. FreedAtRest' /\ DrainedIsIdle'
    BY <2>1, <2>2 DEF Lifetimes, FreedAtRest, DrainedIsIdle, Registered
  <2>5. RegisteredLife'
    BY <2>1, <2>2, <2>3 DEF RegisteredLife
  <2>6. OneId' /\ Held'
    BY <1>0, <2>1 DEF Lifetimes, OneId, Held, Registered
  <2>7. JoiningDying' /\ NoLateDestroy'
    BY <1>0, <2>1 DEF Lifetimes, JoiningDying, NoLateDestroy
  <2>8. QED
    BY <1>1, <2>4, <2>5, <2>6, <2>7 DEF Lifetimes
<1>4. CASE DestroyBackend
  <2>1. /\ phase = "actorsDown" /\ phase' = "backendDown" /\ freed' = freed \cup Registered
        /\ actor' = [j \in Ids |-> None] /\ UNCHANGED <<life, active>>
    BY <1>4 DEF DestroyBackend
  <2>2. Registered' = {}
    BY <2>1, RegistryAssumption DEF Registered
  <2>3. \A x \in Registered : life[x] = "drained" /\ x \notin active
    BY <2>1, RegistryAssumption DEF Registered, Lifetimes, RegisteredLife, DrainedIsIdle
  <2>4. FreedAtRest'
    BY <2>1, <2>2, <2>3 DEF Lifetimes, FreedAtRest
  <2>5. RegisteredLife' /\ OneId'
    BY <2>1 DEF RegisteredLife, OneId
  <2>6. Held' /\ JoiningDying' /\ NoLateDestroy' /\ DrainedIsIdle'
    BY <1>0, <2>1 DEF Lifetimes, Held, JoiningDying, NoLateDestroy, DrainedIsIdle
  <2>7. QED
    BY <1>1, <2>4, <2>5, <2>6 DEF Lifetimes
<1>5. QED
  BY <1>2, <1>3, <1>4 DEF ShutdownStep

\* Who holds an actor and how far it is from rest agree in every reachable state, when
\* user code is done with the registry before its shutdown.
THEOREM LifetimeInvariant == ~OverlapShutdown => (Spec => []Lifetimes)
<1> SUFFICES ASSUME ~OverlapShutdown PROVE Spec => []Lifetimes
  OBVIOUS
<1>1. Init => Lifetimes
  BY RegistryAssumption DEF Init, Lifetimes, FreedAtRest, RegisteredLife, OneId, Held, JoiningDying,
     NoLateDestroy, MailboxNotJoining, DrainedIsIdle, Registered
<1>2. IInv /\ Lifetimes /\ [Next]_vars => Lifetimes'
  <2>1. ASSUME Lifetimes, UNCHANGED vars PROVE Lifetimes'
    BY <2>1 DEF vars, mapVars, objectVars, shutdownVars, Lifetimes, FreedAtRest, RegisteredLife,
       OneId, Held, JoiningDying, NoLateDestroy, MailboxNotJoining, DrainedIsIdle, Registered
  <2>2. QED
    BY <2>1, SpawnLifetimes, DestroyLifetimes, MethodCallLifetimes, CallLifetimes,
       ObjectLifetimes, ShutdownLifetimes DEF Next
<1>3. QED
  BY <1>1, <1>2, RegistryInvariant, PTL DEF Spec

\* An Actor is deleted only at rest: no activation of it is in its scope and no
\* AsyncDestroy waits for one, when user code is done before the shutdown.
THEOREM DeletedAtRest == ~OverlapShutdown => (Spec => []FreedOnlyWhenDrained)
<1>1. Lifetimes => FreedOnlyWhenDrained
  BY DEF Lifetimes, FreedAtRest, FreedOnlyWhenDrained
<1>2. QED
  BY <1>1, LifetimeInvariant, PTL

\* When ~ActorRegistry is through, every actor ever made was deleted at rest.
THEOREM ShutdownIsComplete == ~OverlapShutdown => (Spec => []ShutdownLeavesNoActor)
<1>1. Lifetimes => ShutdownLeavesNoActor
  <2> SUFFICES ASSUME Lifetimes, phase = "backendDown", NEW o \in Objects, life[o] # "unborn"
               PROVE  o \in freed /\ o \notin active
    BY DEF ShutdownLeavesNoActor
  <2>1. \A c \in Calls : pc[c] # "joining"
    BY DEF Lifetimes, NoLateDestroy
  <2>2. o \notin Registered
    BY RegistryAssumption DEF Lifetimes, RegisteredLife, Registered
  <2>3. QED
    BY <2>1, <2>2 DEF Lifetimes, Held, FreedAtRest
<1>2. QED
  BY <1>1, LifetimeInvariant, PTL
=============================================================================
