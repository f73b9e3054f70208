----------------------------- MODULE MCthreads -----------------------------
EXTENDS MyPthreadProperties, TLC
ThreadSymmetry == Permutations(Threads)
=============================================================================
