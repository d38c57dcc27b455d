----------------------------- MODULE MpscQueue -----------------------------
(***************************************************************************)
(* The queue behind UnboundedMailbox: daking's MPSC_queue                  *)
(* (MPSC_queue.h), a linked list with a dummy node.  Nodes come from a     *)
(* thread-local list that is filled from, and emptied into, a lock-free    *)
(* stack of chunks all queues share.  The chunk pointer of a node is in a  *)
(* union with its value, so a thread that pops from the stack may read a   *)
(* pointer that is stale or no pointer at all; the tag of the top must     *)
(* keep it from using it.  Each action is one access of a shared word.     *)
(***************************************************************************)
EXTENDS Integers, Sequences, FiniteSets

CONSTANTS
  Threads,     \* worker threads: each pushes, and pops while it runs the actor
  Capacity,    \* ThreadLocalCapacity
  MaxPushes,   \* bound: pushes per thread
  MaxNodes     \* bound: nodes of all pages

Nodes == 1 .. MaxNodes
Null == 0
Garbage == -1   \* a value, read as a chunk pointer
Values == Threads \X (1 .. MaxPushes)
NoValue == <<>>

QueueConstants ==
  /\ Threads # {}
  /\ Capacity \in Nat \ {0} /\ MaxPushes \in Nat
  /\ MaxNodes \in Nat /\ MaxNodes >= Capacity

VARIABLES
  next,        \* next_ of each node
  nextChunk,   \* next_chunk_ of each node
  value,       \* value_ of each node, in the same union
  nodeCount,   \* global_node_count_
  top,         \* global_chunk_stack_.top_: node and tag
  mutex,       \* global_mutex_: the thread in _reserve_global_internal
  list, size,  \* each thread's node list and its size
  head, tail,
  pc,          \* where each thread is
  old,         \* old_top of each thread, or old_head in emplace
  hand,        \* the node, or the next_chunk_ read, a thread works with
  chunks,      \* first nodes of the chunks a thread pushes onto the stack
  pushes,      \* pushes each thread has begun
  popped,      \* the messages try_dequeue returned, oldest first
  chain        \* the nodes in the order of the exchanges of head_, from the dummy on

memory == <<next, nextChunk, value, nodeCount>>
locals == <<list, size>>
vars == <<memory, top, mutex, locals, head, tail, pc, old, hand, chunks, pushes, popped, chain>>

NoTop == <<Null, 0>>
Goto(t, label) == pc' = [pc EXCEPT ![t] = label]

\* The constructor has allocated the first page, one chunk, and the dummy from it.
Init ==
  LET maker == CHOOSE t \in Threads : TRUE IN
  /\ next = [n \in Nodes |-> IF n > 1 /\ n < Capacity THEN n + 1 ELSE Null]
  /\ nextChunk = [n \in Nodes |-> Null]
  /\ value = [n \in Nodes |-> NoValue]
  /\ nodeCount = Capacity
  /\ top = <<Null, 2>>
  /\ mutex = {}
  /\ list = [t \in Threads |-> IF t = maker /\ Capacity > 1 THEN 2 ELSE Null]
  /\ size = [t \in Threads |-> IF t = maker THEN Capacity - 1 ELSE 0]
  /\ head = 1 /\ tail = 1
  /\ pc = [t \in Threads |-> "idle"]
  /\ old = [t \in Threads |-> NoTop]
  /\ hand = [t \in Threads |-> Null]
  /\ chunks = [t \in Threads |-> <<>>]
  /\ pushes = [t \in Threads |-> 0]
  /\ popped = <<>>
  /\ chain = <<1>>

(***************************************************************************)
(* emplace, and _allocate within it                                        *)
(***************************************************************************)

Emplace(t) ==
  /\ pc[t] = "idle"
  /\ pushes[t] < MaxPushes
  /\ pushes' = [pushes EXCEPT ![t] = @ + 1]
  /\ Goto(t, IF size[t] = 0 THEN "loadTop" ELSE "take")
  /\ UNCHANGED <<memory, top, mutex, locals, head, tail, old, hand, chunks, popped, chain>>

\* try_pop: load top_; an empty stack sends the thread to _reserve_global_internal.
LoadTop(t) ==
  /\ pc[t] = "loadTop"
  /\ old' = [old EXCEPT ![t] = top]
  /\ Goto(t, IF top[1] = Null THEN "reserve" ELSE "readChunk")
  /\ UNCHANGED <<memory, top, mutex, locals, head, tail, hand, chunks, pushes, popped, chain>>

\* old_top.node_->next_chunk_, which another thread may be overwriting.
ReadChunk(t) ==
  /\ pc[t] = "readChunk"
  /\ hand' = [hand EXCEPT ![t] = nextChunk[old[t][1]]]
  /\ Goto(t, "popChunk")
  /\ UNCHANGED <<memory, top, mutex, locals, head, tail, old, chunks, pushes, popped, chain>>

\* Mutant: the tag is left out of the comparison.
PopChunkNoTag(t) ==
  /\ pc[t] = "popChunk"
  /\ hand' = [hand EXCEPT ![t] = Null]
  /\ IF top[1] = old[t][1]
       THEN /\ top' = <<hand[t], old[t][2] + 1>>
            /\ list' = [list EXCEPT ![t] = old[t][1]]
            /\ size' = [size EXCEPT ![t] = Capacity]
            /\ old' = [old EXCEPT ![t] = NoTop]
            /\ Goto(t, "take")
       ELSE /\ old' = [old EXCEPT ![t] = top]
            /\ Goto(t, IF top[1] = Null THEN "reserve" ELSE "readChunk")
            /\ UNCHANGED <<top, locals>>
  /\ UNCHANGED <<memory, mutex, head, tail, chunks, pushes, popped, chain>>

\* The compare-exchange of try_pop, on node and tag.
PopChunk(t) ==
  /\ pc[t] = "popChunk"
  /\ hand' = [hand EXCEPT ![t] = Null]
  /\ IF top = old[t]
       THEN /\ top' = <<hand[t], old[t][2] + 1>>
            /\ list' = [list EXCEPT ![t] = old[t][1]]
            /\ size' = [size EXCEPT ![t] = Capacity]
            /\ old' = [old EXCEPT ![t] = NoTop]
            /\ Goto(t, "take")
       ELSE /\ old' = [old EXCEPT ![t] = top]
            /\ Goto(t, IF top[1] = Null THEN "reserve" ELSE "readChunk")
            /\ UNCHANGED <<top, locals>>
  /\ UNCHANGED <<memory, mutex, head, tail, chunks, pushes, popped, chain>>

\* The size of the next page doubles the number of nodes.
PageSize == IF nodeCount > Capacity THEN nodeCount ELSE Capacity

\* manager_t::reserve: a new page, cut into chunks that are then pushed one by one.
NewPage(t) ==
  /\ next' = [n \in Nodes |->
                IF n \in nodeCount + 1 .. nodeCount + PageSize
                  THEN IF (n - nodeCount) % Capacity = 0 THEN Null ELSE n + 1
                  ELSE next[n]]
  /\ chunks' = [chunks EXCEPT ![t] =
       [i \in 1 .. PageSize \div Capacity |-> nodeCount + (i - 1) * Capacity + 1]]

\* Under global_mutex_: nothing to do if the stack has a chunk again.
Reserve(t) ==
  /\ pc[t] = "reserve"
  /\ mutex = {}
  /\ old' = [old EXCEPT ![t] = NoTop]
  /\ IF top[1] # Null
       THEN Goto(t, "loadTop") /\ UNCHANGED <<next, chunks, mutex>>
       ELSE /\ nodeCount + PageSize <= MaxNodes
            /\ NewPage(t)
            /\ mutex' = {t}
            /\ Goto(t, "linkChunk")
  /\ UNCHANGED <<nextChunk, value, nodeCount, top, locals, head, tail, hand, pushes, popped, chain>>

\* A node from the list of this thread, and its value.
Take(t) ==
  LET n == list[t] IN
  /\ pc[t] = "take"
  /\ list' = [list EXCEPT ![t] = next[n]]
  /\ size' = [size EXCEPT ![t] = @ - 1]
  /\ next' = [next EXCEPT ![n] = Null]
  /\ value' = [value EXCEPT ![n] = <<t, pushes[t]>>]
  /\ nextChunk' = [nextChunk EXCEPT ![n] = Garbage]
  /\ hand' = [hand EXCEPT ![t] = n]
  /\ Goto(t, "exchange")
  /\ UNCHANGED <<nodeCount, top, mutex, head, tail, old, chunks, pushes, popped, chain>>

\* Mutant: head_ is read and written in two steps, of which this is the second.
ExchangeTorn(t) ==
  /\ pc[t] = "exchange"
  /\ old[t] = NoTop => old' = [old EXCEPT ![t] = <<head, 0>>] /\ UNCHANGED <<head, pc, chain>>
  /\ old[t] # NoTop => /\ head' = hand[t] /\ chain' = Append(chain, hand[t])
                       /\ Goto(t, "link") /\ UNCHANGED old
  /\ UNCHANGED <<memory, top, mutex, locals, tail, hand, chunks, pushes, popped>>

\* head_.exchange: the node has its place.
Exchange(t) ==
  /\ pc[t] = "exchange"
  /\ old' = [old EXCEPT ![t] = <<head, 0>>]
  /\ head' = hand[t]
  /\ chain' = Append(chain, hand[t])
  /\ Goto(t, "link")
  /\ UNCHANGED <<memory, top, mutex, locals, tail, hand, chunks, pushes, popped>>

\* old_head->next_.store: the consumer can see it.
Link(t) ==
  /\ pc[t] = "link"
  /\ next' = [next EXCEPT ![old[t][1]] = hand[t]]
  /\ hand' = [hand EXCEPT ![t] = Null]
  /\ old' = [old EXCEPT ![t] = NoTop]
  /\ Goto(t, "idle")
  /\ UNCHANGED <<nextChunk, value, nodeCount, top, mutex, locals, head, tail, chunks, pushes, popped, chain>>

(***************************************************************************)
(* try_dequeue, and _deallocate within it                                  *)
(***************************************************************************)

\* A node goes into the list of this thread, and a full list onto the stack.
Deallocate(t, node) ==
  /\ next' = [next EXCEPT ![node] = list[t]]
  /\ IF size[t] + 1 >= Capacity
       THEN /\ chunks' = [chunks EXCEPT ![t] = <<node>>]
            /\ list' = [list EXCEPT ![t] = Null]
            /\ size' = [size EXCEPT ![t] = 0]
            /\ Goto(t, "linkChunk")
       ELSE /\ list' = [list EXCEPT ![t] = node]
            /\ size' = [size EXCEPT ![t] = @ + 1]
            /\ UNCHANGED <<chunks, pc>>

\* The value leaves the node after the dummy, which becomes the dummy.
TryDequeue(t) ==
  LET n == next[tail] IN
  /\ pc[t] = "idle"
  /\ n # Null
  /\ popped' = Append(popped, value[n])
  /\ value' = [value EXCEPT ![n] = NoValue]
  /\ tail' = n
  /\ chain' = Tail(chain)
  /\ Deallocate(t, tail)
  /\ UNCHANGED <<nextChunk, nodeCount, top, mutex, head, old, hand, pushes>>

(***************************************************************************)
(* push of a chunk, from _deallocate or from reserve                       *)
(***************************************************************************)

\* Load top_ and link the chunk to it.
LinkChunk(t) ==
  /\ pc[t] = "linkChunk"
  /\ old' = [old EXCEPT ![t] = top]
  /\ nextChunk' = [nextChunk EXCEPT ![Head(chunks[t])] = top[1]]
  /\ Goto(t, "pushChunk")
  /\ UNCHANGED <<next, value, nodeCount, top, mutex, locals, head, tail, hand, chunks, pushes, popped, chain>>

\* The compare-exchange of push.  After the last chunk of a page the thread counts
\* the page's nodes and releases global_mutex_.
PushChunk(t) ==
  /\ pc[t] = "pushChunk"
  /\ IF top = old[t]
       THEN /\ top' = <<Head(chunks[t]), old[t][2] + 1>>
            /\ chunks' = [chunks EXCEPT ![t] = Tail(@)]
            /\ old' = [old EXCEPT ![t] = NoTop]
            /\ LET last == Len(chunks[t]) = 1
                   reserved == mutex = {t}
               IN /\ Goto(t, IF ~last THEN "linkChunk" ELSE IF reserved THEN "loadTop" ELSE "idle")
                  /\ mutex' = IF last THEN mutex \ {t} ELSE mutex
                  /\ nodeCount' = IF last /\ reserved THEN nodeCount + PageSize ELSE nodeCount
       ELSE /\ Goto(t, "linkChunk")
            /\ UNCHANGED <<top, chunks, old, mutex, nodeCount>>
  /\ UNCHANGED <<next, nextChunk, value, locals, head, tail, hand, pushes, popped, chain>>

-----------------------------------------------------------------------------
Push(t) ==
  \/ Emplace(t) \/ LoadTop(t) \/ ReadChunk(t) \/ PopChunk(t)
  \/ Reserve(t) \/ Take(t) \/ Exchange(t) \/ Link(t)

Next == \E t \in Threads : Push(t) \/ TryDequeue(t) \/ LinkChunk(t) \/ PushChunk(t)

Spec == Init /\ [][Next]_vars
-----------------------------------------------------------------------------
\* The k nodes from n on along the pointers of f.
Path(f, n, k) ==
  LET at[i \in 1 .. k] ==
        IF i = 1 THEN n ELSE IF at[i - 1] \in Nodes THEN f[at[i - 1]] ELSE Null
  IN at

\* The places in the chunks whose first nodes are in heads: on the stack, or with a thread
\* that is about to push them.
ChunkPlaces(t, heads) ==
  UNION {{<<Path(next, heads[i], Capacity)[j], t, i, j>> : j \in 1 .. Capacity} :
           i \in {i \in DOMAIN heads : heads[i] \in Nodes}}

\* Every place a node can be in, with the node first.
Places ==
  {<<chain[i], "chain", i, 0>> : i \in 1 .. Len(chain)}
    \cup (UNION {{<<Path(next, list[t], size[t])[j], t, 0, j>> : j \in 1 .. size[t]} : t \in Threads})
    \cup {<<hand[t], t, 0, 0>> : t \in {t \in Threads : pc[t] = "exchange"}}
    \cup (UNION {ChunkPlaces(t, chunks[t]) : t \in Threads})
    \cup ChunkPlaces("stack", Path(nextChunk, top[1], MaxNodes))

Allocated == 1 .. nodeCount + (IF mutex = {} THEN 0 ELSE PageSize)

\* No node is used twice or lost: each node of a page is in the queue, in the list or
\* the hands of one thread, in a chunk under way or on the stack, and nowhere else,
\* although a thread may pop from the stack with pointers that are long out of date.
NodeOnce ==
  /\ Cardinality(Places) = Cardinality(Allocated)
  /\ {q[1] : q \in Places} = Allocated

\* The queue implements the mailbox specification, without a limit: a place is taken
\* by the exchange of head_ and published when its predecessor points to it.
Place(i) ==
  LET n == chain[i + 1]
  IN [val |-> value[n], by |-> value[n][1], ready |-> next[chain[i]] = n]

Fifo == INSTANCE BoundedFifo
          WITH Producers <- Threads, Limit <- MaxNodes,
               places <- [i \in 1 .. Len(chain) - 1 |-> Place(i)], taken <- popped

ImplementsFifo == Fifo!Spec
=============================================================================
