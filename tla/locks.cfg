CONSTANTS
    Threads = {t1, t2}
    Main = main
    Mutexes = {m1, m2}
    NULL = NULL
    NUM_PRIORITY = 2
    THREAD_LIM = 3
    MUTEX_LIM = 1
    Calls = {"exit", "mutex_init", "lock", "unlock", "destroy"}
SPECIFICATION Spec
SYMMETRY ThreadSymmetry
INVARIANTS TypeOK NowhereTwice NobodyLost LevelsAgree MutualExclusion LockWaitersAreServed
PROPERTY ImplementsFifoLock
