CONSTANTS
    Threads = {t1, t2}
    Main = main
    Mutexes = {m1}
    NULL = NULL
    NUM_PRIORITY = 3
    THREAD_LIM = 3
    MUTEX_LIM = 1
    Calls = {"yield", "exit", "join"}
SPECIFICATION Spec
SYMMETRY ThreadSymmetry
INVARIANTS NowhereTwice NobodyLost LevelsAgree IdsAreSound 
