------------------------------ MODULE MCqueue ------------------------------
EXTENDS CircularQueue, TLC
QueueSymmetry == Permutations(Nodes)
=============================================================================
