CONSTANTS
    Threads = {t1, t2}
    Main = main
    Mutexes = {m1}
    NULL = NULL
    NUM_PRIORITY = 2
    THREAD_LIM = 3
    MUTEX_LIM = 1
    Calls = {"mutex_init", "lock", "unlock"}
SPECIFICATION FairSpec
PROPERTIES EveryReadyThreadRuns EveryLockIsGranted
