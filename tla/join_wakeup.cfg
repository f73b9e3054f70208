CONSTANTS
    Threads = {t1}
    Main = main
    Mutexes = {m1}
    NULL = NULL
    NUM_PRIORITY = 2
    THREAD_LIM = 2
    MUTEX_LIM = 1
    Calls = {"exit", "join"}
SPECIFICATION Spec
INVARIANT NobodyWaitsForTheDead
