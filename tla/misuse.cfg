CONSTANTS
    Threads = {t1, t2, t3}
    Main = main
    Mutexes = {m1}
    NULL = NULL
    NUM_PRIORITY = 1
    THREAD_LIM = 3
    MUTEX_LIM = 1
    Calls = {"exit", "join", "join_shared"}
SPECIFICATION Spec
SYMMETRY ThreadSymmetry
INVARIANTS NowhereTwice IdsAreSound
