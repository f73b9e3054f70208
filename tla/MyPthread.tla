----------------------------- MODULE MyPthread -----------------------------
(***************************************************************************)
(* The user-level thread library of asst1/my_pthread.c: a preemptive       *)
(* multi-level scheduler driven by SIGVTALRM, thread creation, yield, exit *)
(* and join, and mutexes with FIFO hand-off.                               *)
(*                                                                         *)
(* One processor runs every thread, so the only interleaving is the one    *)
(* scheduler_alarm_handler produces.  It runs when the timer fires (Tick,  *)
(* possible between any two steps while the timer is armed) and when the   *)
(* library raises SIGVTALRM itself (Raise, Exit).  A stretch of code that  *)
(* the library brackets with setitimer(pause) ... setitimer(cont) is one   *)
(* action; a function that leaves a gap is several actions, and pc says at *)
(* which of its gaps a thread stands.  SIGVTALRM is blocked in its own     *)
(* handler, so the handler is one action too.                              *)
(*                                                                         *)
(* Names are the source's.  `undefined' becomes TRUE when the code reaches *)
(* undefined behaviour (a null dereference, an index outside an array, the *)
(* stack of a live thread freed); nothing is said of what follows.         *)
(***************************************************************************)
EXTENDS Integers, Sequences, Functions

CONSTANTS
    Threads,        \* the my_pthread_t structures the client declares
    Main,           \* the structure scheduler_init allocates for main
    Mutexes,        \* the my_pthread_mutex_t structures the client declares
    NULL,           \* the null pointer
    NUM_PRIORITY,   \* number of static priority levels
    THREAD_LIM,     \* size of thread_table, waiting and done
    MUTEX_LIM,      \* size of mutex_list
    Calls           \* what the client does, a subset of Repertoire

\* The calls of the API, and a liberty a client may take beyond the rules of use: two
\* threads joining one.
Repertoire == {"yield", "exit", "join", "mutex_init", "lock", "unlock", "destroy",
               "join_shared"}

ASSUME ConstantsAssumption ==
    /\ NULL \notin Threads \cup {Main} \cup Mutexes
    /\ Main \notin Threads
    /\ NUM_PRIORITY \in Nat \ {0}
    /\ THREAD_LIM \in Nat \ {0}
    /\ MUTEX_LIM \in Nat \ {0}
    /\ Calls \subseteq Repertoire

TCB    == Threads \cup {Main}
Levels == 0..(NUM_PRIORITY - 1)
Ids    == 0..(THREAD_LIM - 1)
Slots  == 0..(MUTEX_LIM - 1)

Status == {"active", "yield", "wait_thread", "wait_mutex", "thread_exit"}

\* Where a thread stands: "user" is client code, "new" a structure that no create
\* has filled, "dead" one whose thread has exited, "reaped" one that was joined; the
\* others are the gaps of the library's functions.
Places == {"new", "user", "create", "yield_raise", "lock_raise", "claim", "register",
           "join_wait", "join_raise", "reap", "dead", "reaped"}

VARIABLES
    \* the scheduler's globals
    init, priority_level, current_priority, run_at_priority, running_thread,
    \* ID management
    thread_count, tid_list, thread_table, waiting, done,
    \* the fields of my_pthread_t
    id, priority, intervals_run, wait_id, status,
    \* the list of active mutexes, and the fields of my_pthread_mutex_t
    mutex_list, user, mutex_waiting,
    \* the interval timer runs; the value saved in *cont is not zero
    armed, cont,
    \* the execution context of a thread: its place, and the locals of the function
    \* it is in (the mutex; join's thread.id; the slot of mutex_list init has found)
    pc, mutex, thread_id, slot,
    \* observers: who returned from lock and has not unlocked, the mutexes the
    \* client may use, and whether behaviour is still defined
    held, live, undefined

queues  == <<priority_level, current_priority, run_at_priority, running_thread>>
tables  == <<thread_count, tid_list, thread_table, waiting, done>>
fields  == <<id, priority, intervals_run, wait_id, status>>
mutexes == <<mutex_list, user, mutex_waiting>>
clock   == <<armed, cont>>
context == <<pc, mutex, thread_id, slot>>
vars == <<init, queues, tables, fields, mutexes, clock, context, held, live, undefined>>

TypeOK ==
    /\ init \in BOOLEAN
    /\ priority_level \in [Levels -> Seq(TCB)]
    /\ current_priority \in Levels
    /\ run_at_priority \in Nat
    /\ running_thread \in TCB \cup {NULL}
    /\ thread_count \in Nat
    /\ tid_list \in Seq(Ids)
    /\ thread_table \in [Ids -> Threads \cup {NULL}]
    /\ waiting \in [Ids -> TCB \cup {NULL}]
    /\ done \in [Ids -> BOOLEAN]
    /\ id \in [TCB -> Ids]
    /\ priority \in [TCB -> Levels]
    /\ intervals_run \in [TCB -> Nat]
    /\ wait_id \in [TCB -> Ids \cup {-1}]
    /\ status \in [TCB -> Status]
    /\ mutex_list \in [Slots -> Mutexes \cup {NULL}]
    /\ user \in [Mutexes -> TCB \cup {NULL}]
    /\ mutex_waiting \in [Mutexes -> Seq(TCB)]
    /\ armed \in BOOLEAN
    /\ cont \in BOOLEAN
    /\ pc \in [TCB -> Places]
    /\ mutex \in [TCB -> Mutexes \cup {NULL}]
    /\ thread_id \in [TCB -> Ids]
    /\ slot \in [TCB -> Slots]
    /\ held \in [Mutexes -> SUBSET TCB]
    /\ live \in SUBSET Mutexes
    /\ undefined \in BOOLEAN

\* Static storage starts as zero; main runs, and no thread exists yet.
Init ==
    /\ init = FALSE
    /\ priority_level = [l \in Levels |-> <<>>]
    /\ current_priority = 0
    /\ run_at_priority = 0
    /\ running_thread = NULL
    /\ thread_count = 0
    /\ tid_list = <<>>
    /\ thread_table = [i \in Ids |-> NULL]
    /\ waiting = [i \in Ids |-> NULL]
    /\ done = [i \in Ids |-> FALSE]
    /\ id = [t \in TCB |-> 0]
    /\ priority = [t \in TCB |-> 0]
    /\ intervals_run = [t \in TCB |-> 0]
    /\ wait_id = [t \in TCB |-> -1]
    /\ status = [t \in TCB |-> "active"]
    /\ mutex_list = [i \in Slots |-> NULL]
    /\ user = [m \in Mutexes |-> NULL]
    /\ mutex_waiting = [m \in Mutexes |-> <<>>]
    /\ armed = FALSE
    /\ cont = FALSE
    /\ pc = [t \in TCB |-> IF t = Main THEN "user" ELSE "new"]
    /\ mutex = [t \in TCB |-> NULL]
    /\ thread_id = [t \in TCB |-> 0]
    /\ slot = [t \in TCB |-> 0]
    /\ held = [m \in Mutexes |-> {}]
    /\ live = {}
    /\ undefined = FALSE

-----------------------------------------------------------------------------
(***************************************************************************)
(* The scheduler.                                                          *)
(***************************************************************************)

\* t is the running thread; it stands at p.
Running(t) == running_thread = t /\ ~undefined
Runs(t, p) == Running(t) /\ pc[t] = p

\* The interval timer is stopped, its value saved in *cont, and started again.
pause_and_resume == cont' = armed /\ armed' = armed

\* Faulty variants: the new node becomes the front of the queue, or its only one.
enqueue_in_front(Q, l, t) == [Q EXCEPT ![l] = <<t>> \o @]
enqueue_alone(Q, l, t)    == [Q EXCEPT ![l] = <<t>>]

\* enqueue(t, Q[l]) on an array of queues.
enqueue(Q, l, t) == [Q EXCEPT ![l] = Append(@, t)]

\* The level the select loop reads after d failed reads when it starts at `start'.
scanned_after(start, l) == (l + NUM_PRIORITY - start) % NUM_PRIORITY

\* Faulty variant: <= for <.
slice_over_late(t) == ~(intervals_run[t] <= current_priority)

\* The slice of an active thread is over once it has run through as many
\* intervals as the current level's number.
slice_over(t) == ~(intervals_run[t] < current_priority)

\* Faulty variant: the modulus is missing.
dropped_unwrapped(p) == p + 1

\* A thread whose slice is over goes down a level, from the bottom to the top.
dropped(p) == (p + 1) % NUM_PRIORITY

\* Should the scheduler leave the current level?
level_used_up == run_at_priority < NUM_PRIORITY - current_priority

\* The level at which the search for the next thread starts.
start_level == IF level_used_up THEN (current_priority + 1) % NUM_PRIORITY
                                ELSE current_priority

\* get_next on the levels in turn, from `start'; with every queue empty the loop
\* never ends, and since the timer is stopped nothing can end it.
select_next(Q, start) ==
    \/ \E l \in Levels :
        /\ Q[l] # <<>>
        /\ \A k \in Levels : Q[k] # <<>> => scanned_after(start, l) <= scanned_after(start, k)
        /\ running_thread' = Head(Q[l])
        /\ priority_level' = [Q EXCEPT ![l] = Tail(@)]
        /\ current_priority' = l
        /\ armed' = TRUE
    \/ /\ \A l \in Levels : Q[l] = <<>>
       /\ running_thread' = NULL
       /\ priority_level' = Q
       /\ current_priority' = start
       /\ armed' = FALSE

\* The handler gives up the processor: Q and st are the queues and the statuses
\* after its switch statement.
reschedule(Q, st) ==
    /\ status' = st
    /\ run_at_priority' = IF level_used_up THEN 0 ELSE run_at_priority + 1
    /\ select_next(Q, start_level)

\* The thread that waits in join for t, woken when t exits.
waiter(t) == waiting[id[t]]

\* The handler, run on behalf of thread t, with the statuses st and the timer in
\* state a at its entry.
scheduler_alarm_handler(t, st, a) ==
    /\ cont' = a
    /\ \/ /\ st[t] = "active" /\ ~slice_over(t)
          /\ intervals_run' = [intervals_run EXCEPT ![t] = @ + 1]
          /\ armed' = TRUE
          /\ status' = st
          /\ UNCHANGED <<queues, priority>>
       \/ /\ st[t] = "active" /\ slice_over(t)
          /\ intervals_run' = [intervals_run EXCEPT ![t] = 0]
          /\ priority' = [priority EXCEPT ![t] = dropped(@)]
          /\ reschedule(enqueue(priority_level, dropped(priority[t]), t), st)
       \/ /\ st[t] = "yield"
          /\ reschedule(enqueue(priority_level, priority[t], t), st)
          /\ UNCHANGED <<intervals_run, priority>>
       \/ /\ \/ st[t] \in {"wait_mutex", "wait_thread"}
             \/ st[t] = "thread_exit" /\ waiter(t) = NULL
          /\ reschedule(priority_level, st)
          /\ UNCHANGED <<intervals_run, priority>>
       \/ /\ st[t] = "thread_exit" /\ waiter(t) # NULL
          /\ reschedule(enqueue(priority_level, priority[waiter(t)], waiter(t)),
                        [st EXCEPT ![waiter(t)] = "active"])
          /\ UNCHANGED <<intervals_run, priority>>

\* The timer fires while t is anywhere outside a bracketed stretch.
Tick(t) ==
    /\ Running(t)
    /\ armed
    /\ scheduler_alarm_handler(t, status, armed)
    /\ UNCHANGED <<init, tables, id, wait_id, mutexes, context, held, live, undefined>>

\* Where raise(SIGVTALRM) returns to once the thread is resumed.
after_raise == [yield_raise |-> "user", lock_raise |-> "claim", join_raise |-> "reap"]

\* The raise(SIGVTALRM) at the end of yield and on the waiting paths of lock and join.
Raise(t) ==
    /\ Running(t)
    /\ pc[t] \in DOMAIN after_raise
    /\ scheduler_alarm_handler(t, status, armed)
    /\ pc' = [pc EXCEPT ![t] = after_raise[@]]
    /\ UNCHANGED <<init, tables, id, wait_id, mutexes, mutex, thread_id, slot, held, live, undefined>>

\* Every queue is empty: the select loop of the handler runs on for ever.
Spin == init /\ running_thread = NULL /\ UNCHANGED vars

-----------------------------------------------------------------------------
(***************************************************************************)
(* Threads.                                                                *)
(***************************************************************************)

\* The thread that makes a call: before the first create only main runs, and the
\* scheduler does not know it.
Caller(t, p) == IF init THEN Runs(t, p) ELSE t = Main /\ pc[t] = p

\* The first create sets the scheduler up and starts the timer.  waiting, done,
\* current_priority and run_at_priority keep the zeros of static storage, and
\* mutex_list is cleared whatever was in it.
scheduler_init ==
    /\ ~init
    /\ pc[Main] = "user"
    /\ init' = TRUE
    /\ thread_count' = 1
    /\ tid_list' = <<>>
    /\ priority_level' = [l \in Levels |-> <<>>]
    /\ thread_table' = [i \in Ids |-> NULL]
    /\ mutex_list' = [i \in Slots |-> NULL]
    /\ running_thread' = Main
    /\ status' = [status EXCEPT ![Main] = "active"]
    /\ priority' = [priority EXCEPT ![Main] = 0]
    /\ intervals_run' = [intervals_run EXCEPT ![Main] = 0]
    /\ id' = [id EXCEPT ![Main] = 0]
    /\ armed' = TRUE
    /\ pc' = [pc EXCEPT ![Main] = "create"]
    /\ UNCHANGED <<current_priority, run_at_priority, waiting, done, wait_id, user,
                   mutex_waiting, cont, mutex, thread_id, slot, held, live, undefined>>

\* The ID get_ID finds: the one freed last, else the next new one.
next_ID == IF tid_list = <<>> THEN thread_count ELSE Head(tid_list)

\* Faulty variant: a recycled ID stays on the list.
get_ID_keeps_list ==
    /\ thread_count' = IF tid_list = <<>> THEN thread_count + 1 ELSE thread_count
    /\ tid_list' = tid_list

\* get_ID takes it.
get_ID ==
    /\ thread_count' = IF tid_list = <<>> THEN thread_count + 1 ELSE thread_count
    /\ tid_list' = IF tid_list = <<>> THEN tid_list ELSE Tail(tid_list)

\* t stands at the part of create that follows the initialisation check.
Creating(t) == Runs(t, "create") \/ Runs(t, "user")

\* my_pthread_create(new) by t.
Create(t, new) ==
    /\ Creating(t)
    /\ pc[new] \in {"new", "reaped"}
    /\ next_ID < THREAD_LIM
    /\ get_ID
    /\ id' = [id EXCEPT ![new] = next_ID]
    /\ wait_id' = [wait_id EXCEPT ![new] = -1]
    /\ priority' = [priority EXCEPT ![new] = 0]
    /\ intervals_run' = [intervals_run EXCEPT ![new] = 0]
    /\ status' = [status EXCEPT ![new] = "active"]
    /\ thread_table' = [thread_table EXCEPT ![next_ID] = new]
    /\ waiting' = [waiting EXCEPT ![next_ID] = NULL]
    /\ done' = [done EXCEPT ![next_ID] = FALSE]
    /\ priority_level' = enqueue(priority_level, 0, new)
    /\ pc' = [pc EXCEPT ![t] = "user", ![new] = "user"]
    /\ pause_and_resume
    /\ UNCHANGED <<init, current_priority, run_at_priority, running_thread, mutexes,
                   mutex, thread_id, slot, held, live, undefined>>

\* With THREAD_LIM IDs in use get_ID returns -1, and create writes thread_table[-1],
\* waiting[-1] and done[-1].
CreateBeyondLimit(t, new) ==
    /\ Creating(t)
    /\ pc[new] \in {"new", "reaped"}
    /\ next_ID >= THREAD_LIM
    /\ undefined' = TRUE
    /\ UNCHANGED <<init, queues, tables, fields, mutexes, clock, context, held, live>>

\* No memory for the stack: create returns EAGAIN.
CreateFails(t) ==
    /\ Creating(t)
    /\ pc' = [pc EXCEPT ![t] = "user"]
    /\ pause_and_resume
    /\ UNCHANGED <<init, queues, tables, fields, mutexes, mutex, thread_id, slot,
                   held, live, undefined>>

\* my_pthread_yield: the status is set with the timer running, then comes Raise.
Yield(t) ==
    /\ "yield" \in Calls
    /\ Runs(t, "user")
    /\ status' = [status EXCEPT ![t] = "yield"]
    /\ pc' = [pc EXCEPT ![t] = "yield_raise"]
    /\ UNCHANGED <<init, queues, tables, id, priority, intervals_run, wait_id, mutexes,
                   clock, mutex, thread_id, slot, held, live, undefined>>

\* pthread_exit stops the timer, so the handler it raises follows at once and finds
\* the timer stopped.  A client exits with no mutex held.
Exit(t) ==
    /\ "exit" \in Calls
    /\ Runs(t, "user")
    /\ \A m \in Mutexes : t \notin held[m]
    /\ done' = [done EXCEPT ![id[t]] = TRUE]
    /\ scheduler_alarm_handler(t, [status EXCEPT ![t] = "thread_exit"], FALSE)
    /\ pc' = [pc EXCEPT ![t] = "dead"]
    /\ UNCHANGED <<init, thread_count, tid_list, thread_table, waiting, id, wait_id,
                   mutexes, mutex, thread_id, slot, held, live, undefined>>

\* The checks of my_pthread_join on a call by t for u, in the source's order; the
\* structure u is passed by value.  0 lets the call go on; a refused call returns
\* and leaves everything as it was.
join_result(t, u) ==
    IF id[t] \in {id[u], wait_id[u]} THEN "EDEADLK"
    ELSE IF \E i \in Ids : waiting[i] # NULL /\ wait_id[waiting[i]] = id[t] THEN "EINVAL"
    ELSE IF thread_table[id[u]] = NULL THEN "ESRCH"
    ELSE "0"

\* t is in a call of join for thread ID i.
Joining(t, i) == pc[t] \in {"join_wait", "join_raise", "reap"} /\ thread_id[t] = i

\* Who may be joined: any structure once created, but only by one thread unless the
\* client takes that liberty.
MayJoin(u) ==
    \/ /\ "join_shared" \in Calls
       /\ pc[u] # "new"
    \/ /\ pc[u] \notin {"new", "reaped"}
       /\ \A v \in TCB : ~Joining(v, id[u])

\* The test of done: whether join has to wait for thread ID i; faulty variant: it
\* never waits.
never_waits(i) == FALSE
must_wait(i) == ~done[i]

\* Entry of my_pthread_join up to the test of done.
Join(t, u) ==
    /\ "join" \in Calls
    /\ Runs(t, "user")
    /\ MayJoin(u)
    /\ join_result(t, u) = "0"
    /\ pc' = [pc EXCEPT ![t] = IF must_wait(id[u]) THEN "join_wait" ELSE "reap"]
    /\ thread_id' = [thread_id EXCEPT ![t] = id[u]]
    /\ UNCHANGED <<init, queues, tables, fields, mutexes, clock, mutex, slot,
                   held, live, undefined>>

\* The status of a thread that waits in join; faulty variants: it is not set, or the
\* one for mutexes is.
join_status_kept(t)  == status[t]
join_status_mutex(t) == "wait_mutex"
join_status(t)       == "wait_thread"

\* The target was not done when it was tested: t becomes its waiter.
JoinWait(t) ==
    /\ Runs(t, "join_wait")
    /\ status' = [status EXCEPT ![t] = join_status(t)]
    /\ wait_id' = [wait_id EXCEPT ![t] = thread_id[t]]
    /\ waiting' = [waiting EXCEPT ![thread_id[t]] = t]
    /\ pc' = [pc EXCEPT ![t] = "join_raise"]
    /\ pause_and_resume
    /\ UNCHANGED <<init, queues, thread_count, tid_list, thread_table, done, id, priority,
                   intervals_run, mutexes, mutex, thread_id, slot, held, live, undefined>>

\* free_ID puts the ID in front of the list.
free_ID(i) == tid_list' = <<i>> \o tid_list

\* The thread that owns the ID in the table is cleaned up.
Reap(t) ==
    /\ Runs(t, "reap")
    /\ LET i == thread_id[t] IN
        /\ thread_table[i] # NULL
        /\ pc[thread_table[i]] = "dead"
        /\ waiting' = [waiting EXCEPT ![i] = NULL]
        /\ thread_table' = [thread_table EXCEPT ![i] = NULL]
        /\ free_ID(i)
        /\ pc' = [pc EXCEPT ![t] = "user", ![thread_table[i]] = "reaped"]
    /\ thread_id' = [thread_id EXCEPT ![t] = 0]
    /\ pause_and_resume
    /\ UNCHANGED <<init, queues, thread_count, done, fields, mutexes, mutex, slot,
                   held, live, undefined>>

\* The table has no thread for the ID (thread_table[i]->uc through a null pointer), or
\* one that still runs on the stack that is freed.
ReapUndefined(t) ==
    /\ Runs(t, "reap")
    /\ LET u == thread_table[thread_id[t]] IN u # NULL => pc[u] # "dead"
    /\ undefined' = TRUE
    /\ UNCHANGED <<init, queues, tables, fields, mutexes, clock, context, held, live>>

-----------------------------------------------------------------------------
(***************************************************************************)
(* Mutexes.                                                                *)
(***************************************************************************)

\* mutex_list has m.
Registered(m) == m \in Range(mutex_list)

\* i is the first free slot.
first_free(i) ==
    mutex_list[i] = NULL /\ \A j \in Slots : mutex_list[j] = NULL => i <= j

\* my_pthread_mutex_init(m) by t.  Nothing in it stops the timer: the waiting queue
\* is replaced first, then the list is searched for m and for a free slot.  It may
\* be called before the first create.  A client initialises no mutex that is in use.
MutexInit(t, m) ==
    /\ "mutex_init" \in Calls
    /\ Caller(t, "user")
    /\ m \notin live
    /\ \A u \in TCB : ~(pc[u] = "register" /\ mutex[u] = m)
    /\ mutex_waiting' = [mutex_waiting EXCEPT ![m] = <<>>]
    /\ \/ /\ Registered(m)                                  \* EBUSY
          /\ UNCHANGED <<user, context, live>>
       \/ /\ ~Registered(m)
          /\ user' = [user EXCEPT ![m] = NULL]
          /\ \E i \in Slots :
               /\ first_free(i)
               /\ pc' = [pc EXCEPT ![t] = "register"]
               /\ mutex' = [mutex EXCEPT ![t] = m]
               /\ slot' = [slot EXCEPT ![t] = i]
          /\ UNCHANGED <<thread_id, live>>
       \/ /\ ~Registered(m)
          /\ user' = [user EXCEPT ![m] = NULL]
          /\ \A i \in Slots : mutex_list[i] # NULL
          /\ live' = live \cup {m}
          /\ UNCHANGED context
    /\ UNCHANGED <<init, queues, tables, fields, mutex_list, clock, held, undefined>>

\* The free slot found by mutex_init is filled.
Register(t) ==
    /\ Caller(t, "register")
    /\ mutex_list' = [mutex_list EXCEPT ![slot[t]] = mutex[t]]
    /\ live' = live \cup {mutex[t]}
    /\ pc' = [pc EXCEPT ![t] = "user"]
    /\ mutex' = [mutex EXCEPT ![t] = NULL]
    /\ slot' = [slot EXCEPT ![t] = 0]
    /\ UNCHANGED <<init, queues, tables, fields, user, mutex_waiting, clock, thread_id,
                   held, undefined>>

\* my_pthread_mutex_lock(m) by t on a mutex nobody has.
LockFree(t, m) ==
    /\ user[m] = NULL
    /\ user' = [user EXCEPT ![m] = t]
    /\ held' = [held EXCEPT ![m] = @ \cup {t}]
    /\ UNCHANGED <<status, mutex_waiting, pc, mutex>>

\* The status of a thread that waits in lock; faulty variant: it is not set.
lock_status_kept(t) == status[t]
lock_status(t)      == "wait_mutex"

\* ... on one that another thread has: t joins its queue, then comes Raise.
LockWait(t, m) ==
    /\ user[m] \notin {NULL, t}
    /\ mutex_waiting' = enqueue(mutex_waiting, m, t)
    /\ status' = [status EXCEPT ![t] = lock_status(t)]
    /\ pc' = [pc EXCEPT ![t] = "lock_raise"]
    /\ mutex' = [mutex EXCEPT ![t] = m]
    /\ UNCHANGED <<user, held>>

\* ... on one it has itself: EDEADLK.
LockRefused(t, m) ==
    /\ user[m] = t
    /\ UNCHANGED <<user, mutex_waiting, status, pc, mutex, held>>

Lock(t, m) ==
    /\ "lock" \in Calls
    /\ Runs(t, "user")
    /\ m \in live
    /\ LockFree(t, m) \/ LockWait(t, m) \/ LockRefused(t, m)
    /\ pause_and_resume
    /\ UNCHANGED <<init, queues, tables, id, priority, intervals_run, wait_id, mutex_list,
                   thread_id, slot, live, undefined>>

\* lock resumed after its wait: the mutex is claimed and the timer set to *cont,
\* which the handler that switched to this thread was the last to write.
Claim(t) ==
    /\ Runs(t, "claim")
    /\ user' = [user EXCEPT ![mutex[t]] = t]
    /\ held' = [held EXCEPT ![mutex[t]] = @ \cup {t}]
    /\ armed' = cont
    /\ pc' = [pc EXCEPT ![t] = "user"]
    /\ mutex' = [mutex EXCEPT ![t] = NULL]
    /\ UNCHANGED <<init, queues, tables, fields, mutex_list, mutex_waiting, cont,
                   thread_id, slot, live, undefined>>

\* The mutex m goes to owner, the thread next is woken and queued at level l, and
\* rest is what remains of the queue of m.
pass_on(m, owner, next, l, rest) ==
    /\ user' = [user EXCEPT ![m] = owner]
    /\ mutex_waiting' = [mutex_waiting EXCEPT ![m] = rest]
    /\ status' = [status EXCEPT ![next] = "active"]
    /\ priority_level' = enqueue(priority_level, l, next)

\* Faulty variants: the queue keeps the thread; the woken thread is queued at level 0;
\* the mutex is left free for the woken thread to claim; the last in line is served.
hand_off_peeks(m) == LET next == Head(mutex_waiting[m]) IN
    pass_on(m, next, next, priority[next], mutex_waiting[m])
hand_off_at_top(m) == LET next == Head(mutex_waiting[m]) IN
    pass_on(m, next, next, 0, Tail(mutex_waiting[m]))
hand_off_leaves_free(m) == LET next == Head(mutex_waiting[m]) IN
    pass_on(m, NULL, next, priority[next], Tail(mutex_waiting[m]))
hand_off_to_last(m) ==
    LET n == Len(mutex_waiting[m])
        next == mutex_waiting[m][n]
    IN pass_on(m, next, next, priority[next], SubSeq(mutex_waiting[m], 1, n - 1))

\* unlock of a mutex with waiters: the first in line becomes its user, and ready at
\* its own level.
hand_off(m) == LET next == Head(mutex_waiting[m]) IN
    pass_on(m, next, next, priority[next], Tail(mutex_waiting[m]))

\* my_pthread_mutex_unlock(m) by t.
Unlock(t, m) ==
    /\ "unlock" \in Calls
    /\ Runs(t, "user")
    /\ m \in live
    /\ \/ /\ user[m] = t
          /\ mutex_waiting[m] # <<>>
          /\ hand_off(m)
          /\ held' = [held EXCEPT ![m] = @ \ {t}]
       \/ /\ user[m] = t
          /\ mutex_waiting[m] = <<>>
          /\ user' = [user EXCEPT ![m] = NULL]
          /\ held' = [held EXCEPT ![m] = @ \ {t}]
          /\ UNCHANGED <<mutex_waiting, status, priority_level>>
       \/ /\ user[m] # t                                    \* EPERM
          /\ UNCHANGED <<user, mutex_waiting, status, priority_level, held>>
    /\ pause_and_resume
    /\ UNCHANGED <<init, current_priority, run_at_priority, running_thread, tables, id,
                   priority, intervals_run, wait_id, mutex_list, context, live, undefined>>

\* destroy's loop: the waiters of m appended, in order, each to its level.
drained(m) == [l \in Levels |->
                 priority_level[l] \o SelectSeq(mutex_waiting[m], LAMBDA t : priority[t] = l)]

\* my_pthread_mutex_destroy(m) by t on a registered mutex nobody has.  The line that
\* should take m off the list is a comparison: the list keeps it.
DestroyFree(t, m) ==
    /\ Registered(m)
    /\ user[m] = NULL
    /\ priority_level' = IF mutex_waiting[m] = <<>> THEN priority_level ELSE drained(m)
    /\ status' = [u \in TCB |-> IF u \in Range(mutex_waiting[m]) THEN "active" ELSE status[u]]
    /\ mutex_waiting' = [mutex_waiting EXCEPT ![m] = <<>>]
    /\ live' = live \ {m}
    /\ armed' = armed

\* ... on one that is locked (EBUSY) or not in the list (EINVAL): it returns with the
\* timer stopped.
DestroyRefused(t, m) ==
    /\ ~Registered(m) \/ user[m] # NULL
    /\ armed' = FALSE
    /\ UNCHANGED <<priority_level, status, mutex_waiting, live>>

Destroy(t, m) ==
    /\ "destroy" \in Calls
    /\ Runs(t, "user")
    /\ m \in live
    /\ DestroyFree(t, m) \/ DestroyRefused(t, m)
    /\ cont' = armed
    /\ UNCHANGED <<init, current_priority, run_at_priority, running_thread, tables, id,
                   priority, intervals_run, wait_id, mutex_list, user, context, held, undefined>>

-----------------------------------------------------------------------------
\* A call the client makes.
ThreadCall(t) == \/ Yield(t)
                 \/ Exit(t)
                 \/ CreateFails(t)
                 \/ \E u \in Threads : Create(t, u) \/ CreateBeyondLimit(t, u) \/ Join(t, u)
MutexCall(t)  == \E m \in Mutexes :
                    MutexInit(t, m) \/ Lock(t, m) \/ Unlock(t, m) \/ Destroy(t, m)

\* The rest of a library function the thread is inside of.
Continue(t) == Raise(t) \/ JoinWait(t) \/ Reap(t) \/ ReapUndefined(t) \/ Register(t) \/ Claim(t)

\* After undefined behaviour nothing is said of the program.
Lost == undefined /\ UNCHANGED vars

Next ==
    \/ scheduler_init
    \/ \E t \in TCB : Tick(t) \/ ThreadCall(t) \/ MutexCall(t) \/ Continue(t)
    \/ Spin
    \/ Lost

Spec == Init /\ [][Next]_vars
=============================================================================
