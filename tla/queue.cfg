CONSTANTS
    Nodes = {n1, n2, n3, n4, n5, n6}
    Queues = {q1, q2}
    Threads = {a, b}
    NULL = NULL
SPECIFICATION Spec
SYMMETRY QueueSymmetry
INVARIANT RingsPartitionTheHeap
PROPERTY ImplementsFifoQueue
