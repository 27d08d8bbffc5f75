------------------------------ MODULE ConnQueue ------------------------------
(***************************************************************************)
(* The linked queue of util/queue.c, used by any number of threads.        *)
(*                                                                         *)
(* Granularity.  The fields of the queue and of the nodes in it are read   *)
(* and written under its mutex only, so a critical section is one step and *)
(* the mutex needs no variable.  queue_enqueue allocates and fills its     *)
(* node before it locks: that is a step of its own, and the node may be    *)
(* one that a dequeue has just freed.                                      *)
(***************************************************************************)
EXTENDS Integers, Sequences, FiniteSets

CONSTANTS
  Data,      \* the ints that are queued: socket descriptors
  Callers,   \* the threads that use the queue
  Nodes,     \* the addresses malloc can return
  NoNode,    \* a NULL node pointer
  Nothing    \* what queue_dequeue returns when the queue is empty: 0

ASSUME ConnQueueAssumption == NoNode \notin Nodes

VARIABLES
  head,      \* q->head
  tail,      \* q->tail
  size,      \* q->size
  next,      \* the next field of every node
  data,      \* the data field of every node
  node,      \* the node each caller has allocated and not yet linked in
  used,      \* the nodes that are allocated
  got,       \* what each caller's last queue_dequeue returned
  destroyed, \* queue_destroy has been called
  list       \* auxiliary: the nodes linked in, oldest first

nodeVars == <<next, data, used>>
vars == <<head, tail, size, nodeVars, node, got, destroyed, list>>

Init ==
  /\ head = NoNode /\ tail = NoNode /\ size = 0
  /\ next = [n \in Nodes |-> NoNode]
  /\ data = [n \in Nodes |-> Nothing]
  /\ node = [p \in Callers |-> NoNode]
  /\ used = {}
  /\ got = [p \in Callers |-> Nothing]
  /\ destroyed = FALSE
  /\ list = <<>>

-------------------------------------------------------------------------------
(* queue_enqueue. *)

\* The node is allocated and filled; when malloc fails the call returns and
\* has done nothing.
NewNode(p, d) ==
  /\ ~destroyed
  /\ node[p] = NoNode
  /\ \E n \in Nodes \ used :
       /\ node' = [node EXCEPT ![p] = n]
       /\ used' = used \cup {n}
       /\ data' = [data EXCEPT ![n] = d]
       /\ next' = [next EXCEPT ![n] = NoNode]
  /\ UNCHANGED <<head, tail, size, got, destroyed, list>>

\* Mutation: head tells whether the queue is empty, tail is still linked.
LinkByHead(n) ==
  /\ head' = IF head = NoNode THEN n ELSE head
  /\ next' = IF tail = NoNode THEN next ELSE [next EXCEPT ![tail] = n]
  /\ UNCHANGED tail

\* The node becomes the last one of the list.
Link(n) ==
  /\ head' = IF tail = NoNode THEN n ELSE head
  /\ next' = IF tail = NoNode THEN next ELSE [next EXCEPT ![tail] = n]
  /\ tail' = n

Grown == size + 1

Enqueue(p) ==
  /\ node[p] # NoNode
  /\ Link(node[p])
  /\ size' = Grown
  /\ node' = [node EXCEPT ![p] = NoNode]
  /\ list' = Append(list, node[p])
  /\ UNCHANGED <<data, used, got, destroyed>>

-------------------------------------------------------------------------------
(* queue_dequeue. *)

\* Mutation: the tail is kept when the last node is taken.
TailKept(rest) == tail

\* tail does not outlive the last node.
TailAfter(rest) == IF rest = NoNode THEN NoNode ELSE tail

\* Mutation: the node that has been taken is not freed.
FreedForgotten(n) == used

Freed(n) == used \ {n}

Dequeue(p) ==
  /\ ~destroyed
  /\ node[p] = NoNode
  /\ head # NoNode
  /\ got' = [got EXCEPT ![p] = data[head]]
  /\ head' = next[head]
  /\ tail' = TailAfter(next[head])
  /\ used' = Freed(head)
  /\ size' = size - 1
  /\ list' = Tail(list)
  /\ UNCHANGED <<next, data, node, destroyed>>

DequeueEmpty(p) ==
  /\ ~destroyed
  /\ node[p] = NoNode
  /\ head = NoNode
  /\ got' = [got EXCEPT ![p] = Nothing]
  /\ UNCHANGED <<head, tail, size, nodeVars, node, destroyed, list>>

-------------------------------------------------------------------------------
(* queue_destroy: it takes no lock, so its caller must be the last one.  The *)
(* queue itself is freed too: nothing is left of its fields.                 *)

\* Where the loop's q->head is in each of its size rounds.
Walk[k \in 0 .. (size - 1)] == IF k = 0 THEN head ELSE next[Walk[k - 1]]

Destroy ==
  /\ ~destroyed
  /\ \A p \in Callers : node[p] = NoNode
  /\ destroyed' = TRUE
  /\ used' = used \ {Walk[k] : k \in 0 .. (size - 1)}
  /\ head' = NoNode /\ tail' = NoNode /\ size' = 0
  /\ list' = <<>>
  /\ UNCHANGED <<next, data, node, got>>

Next ==
  \/ \E p \in Callers :
       \/ \E d \in Data : NewNode(p, d)
       \/ Enqueue(p) \/ Dequeue(p) \/ DequeueEmpty(p)
  \/ Destroy

Spec == Init /\ [][Next]_vars

-------------------------------------------------------------------------------
(* Properties. *)

\* Every variable has its C type.
TypeOK ==
  /\ head \in Nodes \cup {NoNode} /\ tail \in Nodes \cup {NoNode}
  /\ size \in Nat
  /\ next \in [Nodes -> Nodes \cup {NoNode}]
  /\ data \in [Nodes -> Data \cup {Nothing}]
  /\ node \in [Callers -> Nodes \cup {NoNode}]
  /\ used \subseteq Nodes
  /\ got \in [Callers -> Data \cup {Nothing}]
  /\ destroyed \in BOOLEAN
  /\ list \in Seq(Nodes)

\* While the queue exists, the list from head is the nodes linked in, in
\* order; it ends at tail and size is its length.
QueueIntact ==
  ~destroyed =>
    /\ size = Len(list)
    /\ list = <<>> => head = NoNode /\ tail = NoNode
    /\ list # <<>> => head = list[1] /\ tail = list[Len(list)]
    /\ \A k \in 1 .. Len(list) :
         next[list[k]] = IF k < Len(list) THEN list[k + 1] ELSE NoNode

\* A node belongs to the list or to one caller, once, for as long as it is
\* allocated: none is leaked, and none is freed while it is linked in.  And
\* queue_destroy, which trusts size and the links, leaves none behind.
NodesExact ==
  /\ destroyed => used = {}
  /\ ~destroyed =>
    /\ \A j, k \in 1 .. Len(list) : list[j] = list[k] => j = k
    /\ \A p, q \in Callers : node[p] = node[q] /\ node[p] # NoNode => p = q
    /\ \A p \in Callers, k \in 1 .. Len(list) : node[p] # list[k]
    /\ \A n \in Nodes :
         n \in used <=> \/ \E k \in 1 .. Len(list) : list[k] = n
                        \/ \E p \in Callers : node[p] = n

\* A node that is not linked in yet is complete, and its queue exists.
NodeReady ==
  \A p \in Callers : node[p] # NoNode =>
    ~destroyed /\ next[node[p]] = NoNode /\ data[node[p]] \in Data

\* The ints in the list.
Items == [k \in 1 .. Len(list) |-> data[list[k]]]

\* The queue implements FifoQueue: every int comes out once, in order.
Fifo == INSTANCE FifoQueue WITH items <- Items
ImplementsFifoQueue == Fifo!Spec

===============================================================================
