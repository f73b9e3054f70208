CONSTANTS
    Threads = {t1}
    Main = main
    Mutexes = {m1}
    NULL = NULL
    NUM_PRIORITY = 2
    THREAD_LIM = 2
    MUTEX_LIM = 1
    Calls = {"mutex_init", "lock", "unlock", "destroy"}
SPECIFICATION Spec
INVARIANT ActiveListIsExact
