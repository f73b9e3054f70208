--------------------------- MODULE CircularQueue ---------------------------
(***************************************************************************)
(* The circular linked lists behind every queue of asst1/my_pthread.c: a   *)
(* Queue holds a pointer to its last node and a size, each node points to  *)
(* the one behind it, and the last one points to the first.  Nodes come    *)
(* from malloc and go back with free; all queues share the heap.  The heap *)
(* is finite (Nodes is the bound), and an enqueue waits for a free node.   *)
(***************************************************************************)
EXTENDS Naturals, FiniteSets, Functions

CONSTANTS
    Nodes,      \* the addresses malloc can return for a Node
    Queues,     \* the Queue structures made by make_queue
    Threads,    \* what the queues hold: the bound on what is told apart
    NULL        \* the null pointer

ASSUME QueueAssumption == NULL \notin Nodes \cup Threads /\ IsFiniteSet(Nodes)

VARIABLES
    back, size,         \* the fields of a Queue
    thread, next,       \* the fields of a Node
    allocated,          \* the nodes malloc has handed out and free has not taken back
    returned            \* what the last call of get_next returned (NULL after enqueue)

vars == <<back, size, thread, next, allocated, returned>>

\* make_queue for each queue.
Init ==
    /\ back = [q \in Queues |-> NULL]
    /\ size = [q \in Queues |-> 0]
    /\ thread = [n \in Nodes |-> NULL]
    /\ next = [n \in Nodes |-> NULL]
    /\ allocated = {}
    /\ returned = NULL

\* Nodes are given back with their fields wiped: a read after free finds NULL.
free(n, nxt) ==
    /\ allocated' = allocated \ {n}
    /\ thread' = [thread EXCEPT ![n] = NULL]
    /\ next' = [nxt EXCEPT ![n] = NULL]

\* The list without its first node.
unlink_first(q) == IF size[q] = 2 THEN [next EXCEPT ![back[q]] = back[q]]
                   ELSE [next EXCEPT ![back[q]] = next[next[back[q]]]]

\* get_next on an empty queue, on one with a single node, and on a longer one.
GetNothing(q) ==
    /\ size[q] = 0
    /\ returned' = NULL
    /\ UNCHANGED <<back, size, thread, next, allocated>>

GetOnly(q) ==
    /\ size[q] = 1
    /\ returned' = thread[back[q]]
    /\ free(back[q], next)
    /\ back' = [back EXCEPT ![q] = NULL]
    /\ size' = [size EXCEPT ![q] = @ - 1]

GetFirst(q) ==
    /\ size[q] > 1
    /\ returned' = thread[next[back[q]]]
    /\ free(next[back[q]], unlink_first(q))
    /\ size' = [size EXCEPT ![q] = @ - 1]
    /\ UNCHANGED back

get_next(q) == GetNothing(q) \/ GetOnly(q) \/ GetFirst(q)

\* The links with the new node; faulty variant: the last node's is overwritten before
\* it is read.
linked_late(q, new) == IF size[q] # 0 THEN [next EXCEPT ![back[q]] = new, ![new] = new]
                       ELSE [next EXCEPT ![new] = new]
linked(q, new) == IF size[q] # 0 THEN [next EXCEPT ![new] = next[back[q]], ![back[q]] = new]
                  ELSE [next EXCEPT ![new] = new]

\* enqueue: the new node goes behind the last and becomes the last.  Faulty variant:
\* it goes between the last and the first, and the last stays.
enqueue_in_front(x, q) == \E new \in Nodes \ allocated :
    /\ allocated' = allocated \cup {new}
    /\ thread' = [thread EXCEPT ![new] = x]
    /\ next' = linked(q, new)
    /\ back' = IF size[q] # 0 THEN back ELSE [back EXCEPT ![q] = new]
    /\ size' = [size EXCEPT ![q] = @ + 1]
    /\ returned' = NULL

enqueue(x, q) == \E new \in Nodes \ allocated :
    /\ allocated' = allocated \cup {new}
    /\ thread' = [thread EXCEPT ![new] = x]
    /\ next' = linked(q, new)
    /\ back' = [back EXCEPT ![q] = new]
    /\ size' = [size EXCEPT ![q] = @ + 1]
    /\ returned' = NULL

Next == \E q \in Queues : get_next(q) \/ \E x \in Threads : enqueue(x, q)

Spec == Init /\ [][Next]_vars

-----------------------------------------------------------------------------
\* The node i steps behind the last one; the first is one step behind it.
Walk(q) ==
    LET node[i \in 0..size[q]] == IF i = 0 THEN back[q] ELSE next[node[i - 1]] IN node

\* The nodes of q from its first to its last, and what they hold.
Chain(q) == [i \in 1..size[q] |-> Walk(q)[i]]
Contents == [q \in Queues |-> [i \in 1..size[q] |-> thread[Chain(q)[i]]]]

\* Every queue is one closed ring of as many allocated nodes as its size says, its last
\* node is where back points, rings share no node, and no node is allocated that is in
\* no ring (no leak, no use after free in get_next and enqueue).
RingsPartitionTheHeap ==
    /\ \A q \in Queues :
         /\ size[q] = 0 => back[q] = NULL
         /\ size[q] > 0 => /\ Chain(q)[size[q]] = back[q]
                           /\ IsInjective(Chain(q))
                           /\ Range(Chain(q)) \subseteq allocated
    /\ \A q, r \in Queues : q # r => Range(Chain(q)) \cap Range(Chain(r)) = {}
    /\ allocated = UNION {Range(Chain(q)) : q \in Queues}

fifo == INSTANCE FifoQueue WITH Queues <- Queues, Items <- Threads, Nothing <- NULL,
                                contents <- Contents, returned <- returned

\* The lists implement first-in first-out queues (get_next and enqueue).
ImplementsFifoQueue == fifo!QueueSpec
=============================================================================
