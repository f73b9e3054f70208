----------------------------- MODULE FifoQueue -----------------------------
(***************************************************************************)
(* What a Queue of asst1/my_pthread.c promises: a set of first-in          *)
(* first-out queues; get_next takes the oldest entry, and nothing from an  *)
(* empty queue.                                                            *)
(***************************************************************************)
EXTENDS Sequences

CONSTANTS Queues, Items, Nothing

VARIABLES contents, returned

QueueInit ==
    /\ contents = [q \in Queues |-> <<>>]
    /\ returned = Nothing

Put(q, x) ==
    /\ contents' = [contents EXCEPT ![q] = Append(@, x)]
    /\ returned' = Nothing

Take(q) ==
    /\ contents[q] # <<>>
    /\ contents' = [contents EXCEPT ![q] = Tail(@)]
    /\ returned' = Head(contents[q])

TakeNothing(q) ==
    /\ contents[q] = <<>>
    /\ returned' = Nothing
    /\ UNCHANGED contents

QueueNext == \E q \in Queues : Take(q) \/ TakeNothing(q) \/ \E x \in Items : Put(q, x)

QueueSpec == QueueInit /\ [][QueueNext]_<<contents, returned>>
=============================================================================
