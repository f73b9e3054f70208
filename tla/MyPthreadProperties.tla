------------------------ MODULE MyPthreadProperties ------------------------
(***************************************************************************)
(* What the thread library of MyPthread is supposed to guarantee.          *)
(***************************************************************************)
EXTENDS MyPthread

\* The threads in the queues of the scheduler, and in those of the mutexes.
Ready   == UNION {Range(priority_level[l]) : l \in Levels}
Blocked == UNION {Range(mutex_waiting[m]) : m \in Mutexes}

\* Threads that exist: created (or main, once the scheduler knows it), not exited.
Alive == {t \in TCB : init /\ pc[t] \notin {"new", "dead", "reaped"}}

\* A thread is in at most one place: the processor, one position of one ready queue,
\* or one position of one mutex queue (on which a thread puts itself just before it
\* gives up the processor in lock).  A thread enqueued twice would run on after it
\* blocked, or twice after it was woken once: every enqueue of the handler, create,
\* unlock and destroy must be of a thread that is nowhere else.
NowhereTwice ==
    /\ \A l \in Levels : IsInjective(priority_level[l])
    /\ \A m \in Mutexes : IsInjective(mutex_waiting[m])
    /\ \A l, k \in Levels :
         l # k => Range(priority_level[l]) \cap Range(priority_level[k]) = {}
    /\ \A m, n \in Mutexes :
         m # n => Range(mutex_waiting[m]) \cap Range(mutex_waiting[n]) = {}
    /\ Ready \cap Blocked = {}
    /\ running_thread \notin Ready
    /\ running_thread \in Blocked => pc[running_thread] = "lock_raise"

\* No thread is lost and none comes back: a thread that exists runs, is ready, is
\* queued on a mutex or is blocked in join, and a thread that does not exist is never
\* run or queued (handler, exit, create, lock, unlock).
NobodyLost ==
    \A t \in TCB :
        IF t \in Alive
        THEN t = running_thread \/ t \in Ready \cup Blocked \/ status[t] = "wait_thread"
        ELSE t # running_thread /\ t \notin Ready \cup Blocked

\* The three records of a thread's level agree: it is queued at the level its priority
\* field says, the running thread's is the level being run, and no thread has used more
\* intervals than its level allows (handler, create, unlock and destroy each enqueue by
\* the priority field; the slice test compares with current_priority instead).
LevelsAgree ==
    /\ \A l \in Levels : \A t \in Range(priority_level[l]) : priority[t] = l
    /\ running_thread # NULL => priority[running_thread] = current_priority
    /\ \A t \in Alive : intervals_run[t] <= priority[t]

\* Two threads are never between lock and unlock of one mutex, and the one that is, is
\* the mutex's user (the claim after the wait in lock must not overtake anyone).
MutualExclusion == \A m \in Mutexes : held[m] \subseteq {user[m]}

\* A thread that waits in lock is in its mutex's queue while another has the mutex, or
\* has been handed it and can run: between the enqueue, the raise and the claim no
\* preemption makes it miss the hand-off of unlock.
LockWaitersAreServed ==
    /\ \A t \in TCB : pc[t] \in {"lock_raise", "claim"} =>
         LET m == mutex[t] IN
         \/ /\ t \in Range(mutex_waiting[m])
            /\ status[t] = "wait_mutex"
            /\ user[m] \notin {NULL, t}
         \/ /\ user[m] = t
            /\ t = running_thread \/ t \in Ready
    /\ \A m \in Mutexes : user[m] = NULL => mutex_waiting[m] = <<>>

\* IDs in use are distinct and lead to their threads, and no ID is both in use and on
\* the list of recycled IDs, or twice on that list (get_ID, create, join's clean-up).
IdsAreSound ==
    LET Owners == {t \in Threads : pc[t] \notin {"new", "reaped"}} IN
    /\ \A t \in Owners : thread_table[id[t]] = t /\ id[t] # id[Main]
    /\ \A i \in Range(tid_list) : thread_table[i] = NULL /\ i \notin {id[t] : t \in Owners}
    /\ IsInjective(tid_list)

\* While the IDs last and a thread is joined by one other, the code never reaches
\* undefined behaviour: join cleans up only a thread that is in the table and whose
\* stack nobody uses any more.
NothingUndefined == ~undefined

lock == INSTANCE FifoLock WITH Callers <- TCB, Locks <- Mutexes, Nobody <- NULL,
                               owner <- user, queue <- mutex_waiting

\* Lock and unlock implement the abstract FIFO lock: no waiter is overtaken or dropped.
ImplementsFifoLock == lock!LockSpec

-----------------------------------------------------------------------------
(***************************************************************************)
(* Progress.  The virtual timer counts the process's own processor time,   *)
(* so while it is armed it fires sooner or later (WF of Tick).  A thread    *)
(* that gets the processor again and again gets through the library        *)
(* function it is in (SF of Continue) and, this being asked of the client, *)
(* out of its critical sections (SF of Unlock by the mutex's user).        *)
(***************************************************************************)
Fairness ==
    /\ WF_vars(\E t \in TCB : Tick(t))
    /\ \A t \in TCB : SF_vars(Continue(t))
    /\ \A t \in TCB, m \in Mutexes : SF_vars(user[m] = t /\ Unlock(t, m))

FairSpec == Spec /\ Fairness

\* A ready thread runs sooner or later, whatever the levels of the others (handler).
EveryReadyThreadRuns == \A t \in TCB : t \in Ready ~> running_thread = t

\* A thread that waits for a mutex gets it and returns from lock.
EveryLockIsGranted == \A t \in TCB : pc[t] = "lock_raise" ~> pc[t] = "user"

-----------------------------------------------------------------------------
(***************************************************************************)
(* What comments of the source say and the code does not do.               *)
(***************************************************************************)

\* "if there is a thread waiting on this one, re-activate it" (exit in the handler): a
\* thread that gave up the processor in join is not left waiting for a thread that has
\* exited.
NobodyWaitsForTheDead ==
    \A t \in TCB : status[t] = "wait_thread" /\ t # running_thread => ~done[wait_id[t]]

\* "timer to periodically activate the scheduler", "resume timer": whenever a thread
\* runs outside a bracketed stretch, the timer runs.
TimerRuns == running_thread # NULL => armed

\* "list of active mutexes": the mutexes the client may use, and no others, are in it.
ActiveListIsExact ==
    (\A t \in TCB : pc[t] # "register") => live = Range(mutex_list) \ {NULL}

\* "Another thread is already waiting to join with this thread." (EINVAL of join): the
\* running thread gets this answer only when another thread waits for the same target.
RefusedOnlyIfWaitedFor ==
    \A t, u \in TCB :
        Runs(t, "user") /\ MayJoin(u) /\ join_result(t, u) = "EINVAL" => waiting[id[u]] # NULL
=============================================================================
