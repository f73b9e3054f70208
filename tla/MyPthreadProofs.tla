-------------------------- MODULE MyPthreadProofs ---------------------------
(***************************************************************************)
(* Type correctness of MyPthread, for any values of its constants.         *)
(*                                                                         *)
(* TypeOK is not inductive: Register, Claim and Destroy need to know that  *)
(* a thread inside lock or init has a mutex in its locals (LocalsOK) and   *)
(* that a mutex without a user has no waiters (IdleMutexHasNoWaiters).     *)
(* TypeInv is the three together.                                          *)
(***************************************************************************)
EXTENDS MyPthreadProperties, TLAPS

\* The level below a level, wrapping around as the handler's modulus does, is a level.
LEMMA LevelBelow == ASSUME NEW p \in Levels PROVE (p + 1) % NUM_PRIORITY \in Levels
BY ConstantsAssumption DEF Levels

\* The types of what the handler assigns.
ScheduleTyped ==
    /\ status \in [TCB -> Status]
    /\ run_at_priority \in Nat
    /\ current_priority \in Levels
    /\ running_thread \in TCB \cup {NULL}
    /\ priority_level \in [Levels -> Seq(TCB)]
    /\ armed \in BOOLEAN
    /\ cont \in BOOLEAN
    /\ intervals_run \in [TCB -> Nat]
    /\ priority \in [TCB -> Levels]

\* The second half of the handler keeps the types of what it assigns.
LEMMA RescheduleType ==
    ASSUME TypeOK, NEW Q \in [Levels -> Seq(TCB)], NEW st \in [TCB -> Status],
           reschedule(Q, st)
    PROVE  /\ status' \in [TCB -> Status]
           /\ run_at_priority' \in Nat
           /\ current_priority' \in Levels
           /\ running_thread' \in TCB \cup {NULL}
           /\ priority_level' \in [Levels -> Seq(TCB)]
           /\ armed' \in BOOLEAN
<1>1. start_level \in Levels
  BY LevelBelow DEF start_level, TypeOK
<1>2. run_at_priority' \in Nat
  BY DEF reschedule, TypeOK
<1>3. CASE \A l \in Levels : Q[l] = <<>>
  BY <1>1, <1>2, <1>3 DEF reschedule, select_next
<1>4. ASSUME NEW l \in Levels,
             Q[l] # <<>>,
             running_thread' = Head(Q[l]), priority_level' = [Q EXCEPT ![l] = Tail(@)],
             current_priority' = l, armed' = TRUE
      PROVE  /\ current_priority' \in Levels
             /\ running_thread' \in TCB
             /\ priority_level' \in [Levels -> Seq(TCB)]
             /\ armed' \in BOOLEAN
  BY <1>4
<1>5. QED
  BY <1>2, <1>3, <1>4 DEF reschedule, select_next

\* The whole handler does, for whatever statuses and timer it is entered with.
LEMMA HandlerType ==
    ASSUME TypeOK, NEW t \in TCB, NEW st \in [TCB -> Status], NEW a \in BOOLEAN,
           scheduler_alarm_handler(t, st, a)
    PROVE  ScheduleTyped'
<1> USE DEF TypeOK, ScheduleTyped
<1>1. cont' \in BOOLEAN
  BY DEF scheduler_alarm_handler
<1>2. CASE st[t] = "active" /\ ~slice_over(t)
  <2>1. /\ intervals_run' = [intervals_run EXCEPT ![t] = @ + 1]
        /\ armed' = TRUE
        /\ status' = st
        /\ UNCHANGED <<priority_level, current_priority, run_at_priority, running_thread>>
        /\ UNCHANGED priority
    BY <1>2 DEF scheduler_alarm_handler, queues
  <2>2. QED
    BY <1>1, <2>1
<1>3. CASE st[t] = "active" /\ slice_over(t)
  <2>1. dropped(priority[t]) \in Levels
    BY LevelBelow DEF dropped
  <2> DEFINE Q == enqueue(priority_level, dropped(priority[t]), t)
  <2>2. Q \in [Levels -> Seq(TCB)]
    BY <2>1 DEF enqueue
  <2>3. /\ reschedule(Q, st)
        /\ intervals_run' = [intervals_run EXCEPT ![t] = 0]
        /\ priority' = [priority EXCEPT ![t] = dropped(@)]
    BY <1>3 DEF scheduler_alarm_handler
  <2>4. priority' \in [TCB -> Levels] /\ intervals_run' \in [TCB -> Nat]
    BY <2>1, <2>3
  <2> HIDE DEF Q
  <2>5. QED
    BY <1>1, <2>2, <2>3, <2>4, RescheduleType
<1>4. CASE st[t] = "yield"
  <2> DEFINE Q == enqueue(priority_level, priority[t], t)
  <2>1. Q \in [Levels -> Seq(TCB)]
    BY DEF enqueue
  <2>2. reschedule(Q, st) /\ UNCHANGED <<intervals_run, priority>>
    BY <1>4 DEF scheduler_alarm_handler
  <2> HIDE DEF Q
  <2>3. QED
    BY <1>1, <2>1, <2>2, RescheduleType
<1>5. CASE \/ st[t] \in {"wait_mutex", "wait_thread"}
           \/ st[t] = "thread_exit" /\ waiter(t) = NULL
  <2>1. reschedule(priority_level, st) /\ UNCHANGED <<intervals_run, priority>>
    BY <1>5 DEF scheduler_alarm_handler
  <2>2. QED
    BY <1>1, <2>1, RescheduleType
<1>6. CASE st[t] = "thread_exit" /\ waiter(t) # NULL
  <2>1. waiter(t) \in TCB
    BY <1>6 DEF waiter
  <2> DEFINE Q == enqueue(priority_level, priority[waiter(t)], waiter(t))
             s2 == [st EXCEPT ![waiter(t)] = "active"]
  <2>2. Q \in [Levels -> Seq(TCB)]
    BY <2>1 DEF enqueue
  <2>3. s2 \in [TCB -> Status]
    BY DEF Status
  <2>4. reschedule(Q, s2) /\ UNCHANGED <<intervals_run, priority>>
    BY <1>6 DEF scheduler_alarm_handler
  <2> HIDE DEF Q, s2
  <2>5. QED
    BY <1>1, <2>2, <2>3, <2>4, RescheduleType
<1>7. QED
  BY <1>2, <1>3, <1>4, <1>5, <1>6 DEF Status

\* A thread inside a function that works on a mutex has one in its locals.
LocalsOK ==
    \A t \in TCB : pc[t] \in {"register", "lock_raise", "claim"} => mutex[t] \in Mutexes

\* A mutex nobody has is one nobody waits for: destroy has nothing to drain.
IdleMutexHasNoWaiters == \A m \in Mutexes : user[m] = NULL => mutex_waiting[m] = <<>>

TypeInv == TypeOK /\ LocalsOK /\ IdleMutexHasNoWaiters

\* The initial state satisfies the strengthened type invariant.
LEMMA TypeInit == Init => TypeInv
<1> SUFFICES ASSUME Init PROVE TypeInv
  OBVIOUS
<1> USE DEF Init
<1>1. 0 \in Levels /\ 0 \in Ids /\ 0 \in Slots /\ Main \in TCB
  BY ConstantsAssumption DEF Levels, Ids, Slots, TCB
<1>2. priority_level \in [Levels -> Seq(TCB)] /\ tid_list \in Seq(Ids)
  OBVIOUS
<1>3. pc \in [TCB -> Places]
  BY DEF Places
<1>4. status \in [TCB -> Status]
  BY DEF Status
<1>5. mutex_waiting \in [Mutexes -> Seq(TCB)] /\ held \in [Mutexes -> SUBSET TCB]
  OBVIOUS
<1>6. live \in SUBSET Mutexes
  OBVIOUS
<1>7. TypeOK
  BY <1>1, <1>2, <1>3, <1>4, <1>5, <1>6 DEF TypeOK
<1>8. LocalsOK /\ IdleMutexHasNoWaiters
  BY DEF LocalsOK, IdleMutexHasNoWaiters
<1>9. QED
  BY <1>7, <1>8 DEF TypeInv

\* Every step of every function keeps it.
LEMMA TypeStep == TypeInv /\ [Next]_vars => TypeInv'
<1> SUFFICES ASSUME TypeInv, [Next]_vars PROVE TypeInv'
  OBVIOUS
<1> USE DEF TypeInv
<1>0. CASE UNCHANGED vars
  BY <1>0 DEF vars, queues, tables, fields, mutexes, clock, context,
       TypeOK, LocalsOK, IdleMutexHasNoWaiters
<1>1. CASE scheduler_init
  <2> USE <1>1 DEF scheduler_init
  <2>1. 0 \in Levels /\ 0 \in Ids /\ Main \in TCB
    BY ConstantsAssumption DEF Levels, Ids, TCB
  <2>2. priority_level' \in [Levels -> Seq(TCB)] /\ tid_list' \in Seq(Ids)
    OBVIOUS
  <2>3. pc' \in [TCB -> Places]
    BY DEF Places, TypeOK
  <2>4. status' \in [TCB -> Status]
    BY DEF Status, TypeOK
  <2>5. TypeOK'
    BY <2>1, <2>2, <2>3, <2>4 DEF TypeOK
  <2>6. LocalsOK' /\ IdleMutexHasNoWaiters'
    BY DEF LocalsOK, IdleMutexHasNoWaiters, TypeOK
  <2>7. QED
    BY <2>5, <2>6
<1>2. ASSUME NEW t \in TCB, Tick(t) PROVE TypeInv'
  <2>1. ScheduleTyped'
    <3>1. scheduler_alarm_handler(t, status, armed)
      BY <1>2 DEF Tick
    <3>2. status \in [TCB -> Status] /\ armed \in BOOLEAN
      BY DEF TypeOK
    <3>3. QED
      BY <3>1, <3>2, HandlerType
  <2>2. TypeOK'
    BY <1>2, <2>1 DEF Tick, ScheduleTyped, tables, mutexes, context, TypeOK
  <2>3. QED
    BY <1>2, <2>2 DEF Tick, mutexes, context, LocalsOK, IdleMutexHasNoWaiters
<1>3. ASSUME NEW t \in TCB, Raise(t) PROVE TypeInv'
  <2>1. ScheduleTyped'
    <3>1. scheduler_alarm_handler(t, status, armed)
      BY <1>3 DEF Raise
    <3>2. status \in [TCB -> Status] /\ armed \in BOOLEAN
      BY DEF TypeOK
    <3>3. QED
      BY <3>1, <3>2, HandlerType
  <2>2. /\ pc[t] \in {"yield_raise", "lock_raise", "join_raise"}
        /\ pc' = [pc EXCEPT ![t] = after_raise[pc[t]]]
    BY <1>3 DEF Raise, after_raise
  <2>3. /\ after_raise[pc[t]] \in Places
        /\ after_raise[pc[t]] \in {"register", "lock_raise", "claim"} => pc[t] = "lock_raise"
    BY <2>2 DEF after_raise, Places
  <2>4. TypeOK'
    BY <1>3, <2>1, <2>2, <2>3 DEF Raise, ScheduleTyped, tables, mutexes, TypeOK
  <2>5. QED
    BY <1>3, <2>2, <2>3, <2>4 DEF Raise, mutexes, LocalsOK, IdleMutexHasNoWaiters, TypeOK
<1>4. ASSUME NEW t \in TCB, NEW new \in Threads, Create(t, new) PROVE TypeInv'
  <2> USE <1>4 DEF Create
  <2>0. thread_count \in Nat /\ tid_list \in Seq(Ids) /\ next_ID < THREAD_LIM
    BY DEF TypeOK
  <2>1. next_ID \in Ids /\ new \in TCB
    BY <2>0, ConstantsAssumption DEF next_ID, Ids, TCB
  <2>2. thread_count' \in Nat /\ tid_list' \in Seq(Ids)
    BY DEF get_ID, TypeOK
  <2>3. priority_level' \in [Levels -> Seq(TCB)] /\ 0 \in Levels
    BY <2>1, ConstantsAssumption DEF enqueue, Levels, TypeOK
  <2>4. status' \in [TCB -> Status] /\ pc' \in [TCB -> Places]
    BY DEF Status, Places, TypeOK
  <2>5. armed' \in BOOLEAN /\ cont' \in BOOLEAN
    BY DEF pause_and_resume, TypeOK
  <2>6. TypeOK'
    BY <2>1, <2>2, <2>3, <2>4, <2>5 DEF mutexes, TypeOK
  <2>7. LocalsOK'
    <3>1. \A u \in TCB : pc'[u] \in {"user", pc[u]} /\ mutex'[u] = mutex[u]
      BY DEF TypeOK
    <3>2. QED
      BY <3>1 DEF LocalsOK
  <2>8. QED
    BY <2>6, <2>7 DEF mutexes, IdleMutexHasNoWaiters
<1>5. ASSUME NEW t \in TCB, NEW new \in Threads, CreateBeyondLimit(t, new) PROVE TypeInv'
  BY <1>5 DEF CreateBeyondLimit, queues, tables, fields, mutexes, clock, context,
       TypeOK, LocalsOK, IdleMutexHasNoWaiters
<1>6. ASSUME NEW t \in TCB, CreateFails(t) PROVE TypeInv'
  <2>1. pc' \in [TCB -> Places]
    BY <1>6 DEF CreateFails, Places, TypeOK
  <2>2. QED
    BY <1>6, <2>1 DEF CreateFails, pause_and_resume, queues, tables, fields, mutexes,
         TypeOK, LocalsOK, IdleMutexHasNoWaiters
<1>7. ASSUME NEW t \in TCB, Yield(t) PROVE TypeInv'
  <2>1. pc' \in [TCB -> Places] /\ status' \in [TCB -> Status]
    BY <1>7 DEF Yield, Places, Status, TypeOK
  <2>2. QED
    BY <1>7, <2>1 DEF Yield, queues, tables, mutexes, clock,
         TypeOK, LocalsOK, IdleMutexHasNoWaiters
<1>8. ASSUME NEW t \in TCB, Exit(t) PROVE TypeInv'
  <2> DEFINE st == [status EXCEPT ![t] = "thread_exit"]
  <2>1. scheduler_alarm_handler(t, st, FALSE)
    BY <1>8 DEF Exit
  <2>2. st \in [TCB -> Status] /\ pc' \in [TCB -> Places]
    BY <1>8 DEF Exit, Status, Places, TypeOK
  <2> HIDE DEF st
  <2>3. done' \in [Ids -> BOOLEAN]
    BY <1>8 DEF Exit, TypeOK
  <2>4. TypeOK'
    <3>1. ScheduleTyped'
      BY <2>1, <2>2, HandlerType
    <3>2. QED
      BY <1>8, <2>2, <2>3, <3>1 DEF Exit, ScheduleTyped, mutexes, TypeOK
  <2>5. QED
    BY <1>8, <2>4 DEF Exit, mutexes, LocalsOK, IdleMutexHasNoWaiters, TypeOK
<1>9. ASSUME NEW t \in TCB, NEW u \in Threads, Join(t, u) PROVE TypeInv'
  <2> USE <1>9 DEF Join
  <2>1. pc' \in [TCB -> Places] /\ thread_id' \in [TCB -> Ids]
    BY DEF Places, TypeOK, TCB
  <2>2. QED
    BY <2>1 DEF queues, tables, fields, mutexes, clock,
         TypeOK, LocalsOK, IdleMutexHasNoWaiters
<1>10. ASSUME NEW t \in TCB, JoinWait(t) PROVE TypeInv'
  <2> USE <1>10 DEF JoinWait
  <2>1. pc' \in [TCB -> Places] /\ status' \in [TCB -> Status]
    BY DEF Places, Status, join_status, TypeOK
  <2>2. waiting' \in [Ids -> TCB \cup {NULL}] /\ wait_id' \in [TCB -> Ids \cup {-1}]
    BY DEF TypeOK
  <2>3. QED
    BY <2>1, <2>2 DEF queues, mutexes, pause_and_resume,
         TypeOK, LocalsOK, IdleMutexHasNoWaiters
<1>11. ASSUME NEW t \in TCB, Reap(t) PROVE TypeInv'
  <2> USE <1>11 DEF Reap
  <2>1. tid_list' \in Seq(Ids)
    BY DEF free_ID, TypeOK
  <2>2. pc' \in [TCB -> Places]
    BY DEF Places, TypeOK
  <2>3. 0 \in Ids
    BY ConstantsAssumption DEF Ids
  <2>4. TypeOK'
    BY <2>1, <2>2, <2>3 DEF queues, fields, mutexes, pause_and_resume, TypeOK
  <2>5. QED
    BY <2>4 DEF mutexes, LocalsOK, IdleMutexHasNoWaiters, TypeOK
<1>12. ASSUME NEW t \in TCB, ReapUndefined(t) PROVE TypeInv'
  BY <1>12 DEF ReapUndefined, queues, tables, fields, mutexes, clock, context,
       TypeOK, LocalsOK, IdleMutexHasNoWaiters
<1>13. ASSUME NEW t \in TCB, NEW m \in Mutexes, MutexInit(t, m) PROVE TypeInv'
  <2> USE <1>13 DEF MutexInit
  <2>1. mutex_waiting' \in [Mutexes -> Seq(TCB)]
    BY DEF TypeOK
  <2>2. user' = user \/ user' = [user EXCEPT ![m] = NULL]
    OBVIOUS
  <2>3. user' \in [Mutexes -> TCB \cup {NULL}]
    BY <2>2 DEF TypeOK
  <2>4. \/ UNCHANGED <<pc, mutex, thread_id, slot>>
        \/ /\ pc' = [pc EXCEPT ![t] = "register"]
           /\ mutex' = [mutex EXCEPT ![t] = m]
           /\ \E i \in Slots : slot' = [slot EXCEPT ![t] = i]
           /\ thread_id' = thread_id
    BY DEF context
  <2>5. /\ pc' \in [TCB -> Places]
        /\ mutex' \in [TCB -> Mutexes \cup {NULL}]
        /\ thread_id' \in [TCB -> Ids]
        /\ slot' \in [TCB -> Slots]
    <3>1. CASE UNCHANGED <<pc, mutex, thread_id, slot>>
      BY <3>1 DEF TypeOK
    <3>2. CASE /\ pc' = [pc EXCEPT ![t] = "register"]
               /\ mutex' = [mutex EXCEPT ![t] = m]
               /\ \E i \in Slots : slot' = [slot EXCEPT ![t] = i]
               /\ thread_id' = thread_id
      BY <3>2 DEF Places, TypeOK
    <3>3. QED
      BY <2>4, <3>1, <3>2
  <2>6. live' \in SUBSET Mutexes
    BY DEF TypeOK
  <2>7. TypeOK'
    BY <2>1, <2>3, <2>5, <2>6 DEF queues, tables, fields, clock, TypeOK
  <2>8. LocalsOK'
    BY <2>4 DEF LocalsOK, TypeOK
  <2>9. IdleMutexHasNoWaiters'
    BY <2>2 DEF IdleMutexHasNoWaiters, TypeOK
  <2>10. QED
    BY <2>7, <2>8, <2>9
<1>14. ASSUME NEW t \in TCB, Register(t) PROVE TypeInv'
  <2> USE <1>14 DEF Register
  <2>1. mutex[t] \in Mutexes
    BY DEF Caller, Runs, LocalsOK
  <2>2. pc' \in [TCB -> Places] /\ 0 \in Slots
    BY ConstantsAssumption DEF Places, Slots, TypeOK
  <2>3. TypeOK'
    BY <2>1, <2>2 DEF queues, tables, fields, clock, TypeOK
  <2>4. QED
    BY <2>3 DEF LocalsOK, IdleMutexHasNoWaiters, TypeOK
<1>15. ASSUME NEW t \in TCB, NEW m \in Mutexes, Lock(t, m) PROVE TypeInv'
  <2> USE <1>15 DEF Lock
  <2>1. CASE LockFree(t, m)
    <3>1. user' \in [Mutexes -> TCB \cup {NULL}] /\ held' \in [Mutexes -> SUBSET TCB]
      BY <2>1 DEF LockFree, TypeOK
    <3>2. TypeOK'
      BY <2>1, <3>1 DEF LockFree, pause_and_resume, queues, tables, TypeOK
    <3>3. QED
      BY <2>1, <3>2 DEF LockFree, LocalsOK, IdleMutexHasNoWaiters, TypeOK
  <2>2. CASE LockWait(t, m)
    <3>1. pc' \in [TCB -> Places] /\ status' \in [TCB -> Status]
      BY <2>2 DEF LockWait, lock_status, Places, Status, TypeOK
    <3>2. mutex_waiting' \in [Mutexes -> Seq(TCB)]
      BY <2>2 DEF LockWait, enqueue, TypeOK
    <3>3. mutex' \in [TCB -> Mutexes \cup {NULL}] /\ user' = user /\ held' = held
      BY <2>2 DEF LockWait, TypeOK
    <3>. TypeOK'
      BY <3>1, <3>2, <3>3 DEF pause_and_resume, queues, tables, TypeOK
    <3>4. LocalsOK'
      BY <2>2 DEF LockWait, LocalsOK, TypeOK
    <3>5. IdleMutexHasNoWaiters'
      BY <2>2 DEF LockWait, enqueue, IdleMutexHasNoWaiters, TypeOK
    <3>6. QED
      BY <3>3, <3>4, <3>5
  <2>3. CASE LockRefused(t, m)
    BY <2>3 DEF LockRefused, pause_and_resume, queues, tables,
         TypeOK, LocalsOK, IdleMutexHasNoWaiters
  <2>4. QED
    BY <2>1, <2>2, <2>3
<1>16. ASSUME NEW t \in TCB, Claim(t) PROVE TypeInv'
  <2> USE <1>16 DEF Claim
  <2>1. mutex[t] \in Mutexes
    BY DEF Runs, LocalsOK
  <2>2. pc' \in [TCB -> Places]
    BY DEF Places, TypeOK
  <2>3. TypeOK'
    BY <2>1, <2>2 DEF queues, tables, fields, TypeOK
  <2>4. LocalsOK'
    BY DEF LocalsOK, TypeOK
  <2>5. t # NULL
    BY ConstantsAssumption DEF TCB
  <2>6. IdleMutexHasNoWaiters'
    BY <2>5 DEF IdleMutexHasNoWaiters, TypeOK
  <2>7. QED
    BY <2>3, <2>4, <2>6
<1>17. ASSUME NEW t \in TCB, NEW m \in Mutexes, Unlock(t, m) PROVE TypeInv'
  <2> USE <1>17 DEF Unlock
  <2>1. LocalsOK'
    BY DEF context, LocalsOK
  <2>2. CASE user[m] = t /\ mutex_waiting[m] # <<>>
    <3> DEFINE next == Head(mutex_waiting[m])
    <3>1. next \in TCB /\ Tail(mutex_waiting[m]) \in Seq(TCB)
      BY <2>2 DEF TypeOK
    <3>2. /\ user' = [user EXCEPT ![m] = next]
          /\ mutex_waiting' = [mutex_waiting EXCEPT ![m] = Tail(mutex_waiting[m])]
          /\ status' = [status EXCEPT ![next] = "active"]
          /\ priority_level' = enqueue(priority_level, priority[next], next)
      BY <2>2 DEF hand_off, pass_on
    <3> HIDE DEF next
    <3>3. priority_level' \in [Levels -> Seq(TCB)] /\ status' \in [TCB -> Status]
      BY <3>1, <3>2 DEF enqueue, Status, TypeOK
    <3>. user' \in [Mutexes -> TCB \cup {NULL}] /\ mutex_waiting' \in [Mutexes -> Seq(TCB)]
      BY <3>1, <3>2 DEF TypeOK
    <3>. held' \in [Mutexes -> SUBSET TCB]
      <4>1. held' = [held EXCEPT ![m] = held[m] \ {t}]
        BY <2>2
      <4>2. QED
        BY <4>1 DEF TypeOK
    <3>4. TypeOK'
      BY <3>3 DEF context, pause_and_resume, tables, TypeOK
    <3>5. IdleMutexHasNoWaiters'
      BY <3>1, <3>2, ConstantsAssumption DEF IdleMutexHasNoWaiters, TypeOK, TCB
    <3>6. QED
      BY <2>1, <3>4, <3>5
  <2>3. CASE user[m] = t /\ mutex_waiting[m] = <<>>
    <3>1. /\ user' = [user EXCEPT ![m] = NULL]
          /\ held' = [held EXCEPT ![m] = held[m] \ {t}]
          /\ UNCHANGED <<mutex_waiting, status, priority_level>>
      BY <2>3
    <3>2. user' \in [Mutexes -> TCB \cup {NULL}] /\ held' \in [Mutexes -> SUBSET TCB]
      BY <3>1 DEF TypeOK
    <3>3. TypeOK'
      BY <3>1, <3>2 DEF context, pause_and_resume, tables, TypeOK
    <3>4. IdleMutexHasNoWaiters'
      BY <2>3, <3>1 DEF TypeOK, IdleMutexHasNoWaiters
    <3>5. QED
      BY <2>1, <3>3, <3>4
  <2>4. CASE user[m] # t
    BY <2>1, <2>4 DEF context, pause_and_resume, tables, TypeOK, IdleMutexHasNoWaiters
  <2>5. QED
    BY <2>2, <2>3, <2>4
<1>18. ASSUME NEW t \in TCB, NEW m \in Mutexes, Destroy(t, m) PROVE TypeInv'
  <2> USE <1>18 DEF Destroy
  <2>1. CASE DestroyFree(t, m)
    <3>1. mutex_waiting[m] = <<>>
      BY <2>1 DEF DestroyFree, IdleMutexHasNoWaiters
    <3>2. priority_level' = priority_level
      BY <2>1, <3>1 DEF DestroyFree
    <3>3. status' \in [TCB -> Status]
      BY <2>1 DEF DestroyFree, TypeOK, Status
    <3>4. TypeOK'
      <4>1. mutex_waiting' \in [Mutexes -> Seq(TCB)] /\ live' \in SUBSET Mutexes
        BY <2>1 DEF DestroyFree, TypeOK
      <4>2. armed' = armed
        BY <2>1 DEF DestroyFree
      <4>3. QED
        BY <3>2, <3>3, <4>1, <4>2 DEF context, tables, TypeOK
    <3>5. QED
      BY <2>1, <3>4 DEF DestroyFree, context, LocalsOK, IdleMutexHasNoWaiters, TypeOK
  <2>2. CASE DestroyRefused(t, m)
    BY <2>2 DEF DestroyRefused, context, tables, TypeOK, LocalsOK, IdleMutexHasNoWaiters
  <2>3. QED
    BY <2>1, <2>2
<1>19. CASE Spin \/ Lost
  BY <1>0, <1>19 DEF Spin, Lost
<1>20. QED
  BY <1>0, <1>1, <1>2, <1>3, <1>4, <1>5, <1>6, <1>7, <1>8, <1>9, <1>10, <1>11, <1>12,
     <1>13, <1>14, <1>15, <1>16, <1>17, <1>18, <1>19
     DEF Next, ThreadCall, MutexCall, Continue

\* Every reachable state of the library is well typed: indices stay inside their arrays,
\* queues and tables hold threads, and the level arithmetic stays among the levels.
THEOREM TypeCorrect == Spec => []TypeOK
<1>1. Spec => []TypeInv
  BY TypeInit, TypeStep, PTL DEF Spec
<1>2. TypeInv => TypeOK
  BY DEF TypeInv
<1>3. QED
  BY <1>1, <1>2, PTL

-----------------------------------------------------------------------------
(***************************************************************************)
(* The IDs of MyPthread stay sound under every client, including one that  *)
(* joins a thread from several others.                                     *)
(*                                                                         *)
(* IdsAreSound needs bounds to be inductive: a fresh ID is new because     *)
(* every ID in use or on the list is below thread_count, and main's is not *)
(* issued again because all of them are above 0.  The table must also lead *)
(* back: whoever it has for an ID carries that ID and is not reaped.       *)
(***************************************************************************)

\* Before the first create nothing is scheduled, no mutex is taken and no thread exists.
IdleBeforeInit == ~init =>
    /\ running_thread = NULL
    /\ \A l \in Levels : priority_level[l] = <<>>
    /\ \A m \in Mutexes : user[m] = NULL
    /\ \A t \in Threads : pc[t] = "new"

\* Main is never the structure of a create or of a clean-up.
MainKeepsId ==
    /\ id[Main] = 0
    /\ pc[Main] \notin {"new", "reaped"}
    /\ init => thread_count >= 1

\* A thread is in the table under its ID, and whoever is in the table has that ID.
TableSound ==
    /\ \A t \in Threads : pc[t] \notin {"new", "reaped"} =>
         thread_table[id[t]] = t /\ 1 <= id[t] /\ id[t] < thread_count
    /\ \A i \in Ids : thread_table[i] # NULL =>
         id[thread_table[i]] = i /\ pc[thread_table[i]] \notin {"new", "reaped"}

\* An ID on the list is on it once, has been issued, and is nobody's.
ListSound ==
    /\ \A i \in Range(tid_list) : thread_table[i] = NULL /\ 1 <= i /\ i < thread_count
    /\ IsInjective(tid_list)

IdInv == TypeInv /\ IdleBeforeInit /\ MainKeepsId /\ TableSound /\ ListSound

\* The initial state satisfies the invariant.
LEMMA IdInit == Init => IdInv
<1> SUFFICES ASSUME Init PROVE IdInv
  OBVIOUS
<1>1. TypeInv
  BY TypeInit
<1>2. Main \in TCB /\ Threads \subseteq TCB /\ Main \notin Threads
  BY ConstantsAssumption DEF TCB
<1>3. IdleBeforeInit /\ MainKeepsId /\ TableSound
  BY <1>2 DEF Init, IdleBeforeInit, MainKeepsId, TableSound
<1>4. ListSound
  BY DEF Init, ListSound, Range, IsInjective
<1>5. QED
  BY <1>1, <1>3, <1>4 DEF IdInv

\* A running thread means that the scheduler is initialised.
LEMMA RunningIsInit == ASSUME IdleBeforeInit, NEW t \in TCB, Running(t) PROVE init
BY ConstantsAssumption DEF IdleBeforeInit, Running, TCB

\* Steps that leave the tables alone, and that move no thread into or out of the places
\* "new" and "reaped", keep what is said about IDs.
LEMMA IdFrame ==
    ASSUME IdInv, TypeInv', init, init',
           UNCHANGED <<id, thread_count, thread_table, tid_list>>,
           \A t \in TCB : pc'[t] \in {"new", "reaped"} <=> pc[t] \in {"new", "reaped"}
    PROVE  IdInv'
<1>0. Main \in TCB /\ Threads \subseteq TCB
  BY DEF TCB
<1>1. IdleBeforeInit'
  BY DEF IdleBeforeInit
<1>2. MainKeepsId'
  BY <1>0 DEF IdInv, MainKeepsId
<1>3. TableSound'
  <2>1. \A i \in Ids : thread_table[i] # NULL => thread_table[i] \in Threads
    BY DEF IdInv, TypeInv, TypeOK
  <2>2. QED
    BY <1>0, <2>1 DEF IdInv, TableSound
<1>4. ListSound'
  BY DEF IdInv, ListSound
<1>5. QED
  BY <1>1, <1>2, <1>3, <1>4 DEF IdInv

\* An ID that is taken off the list is the only one that leaves it.
LEMMA TailOfInjective ==
    ASSUME NEW S, NEW s \in Seq(S), s # <<>>, IsInjective(s)
    PROVE  /\ Head(s) \in Range(s)
           /\ IsInjective(Tail(s))
           /\ \A x \in Range(Tail(s)) : x \in Range(s) /\ x # Head(s)
<1>1. /\ DOMAIN s = 1..Len(s) /\ Len(s) \in Nat \ {0}
      /\ DOMAIN Tail(s) = 1..(Len(s) - 1)
      /\ \A i \in 1..(Len(s) - 1) : Tail(s)[i] = s[i + 1]
      /\ Head(s) = s[1]
  OBVIOUS
<1>2. /\ 1 \in 1..Len(s)
      /\ \A i \in 1..(Len(s) - 1) : i + 1 \in 1..Len(s) /\ i + 1 # 1
  BY <1>1
<1>3. \A i, j \in 1..Len(s) : s[i] = s[j] => i = j
  BY <1>1 DEF IsInjective
<1>4. IsInjective(Tail(s))
  <2>1. SUFFICES ASSUME NEW i \in 1..(Len(s) - 1), NEW j \in 1..(Len(s) - 1),
                        Tail(s)[i] = Tail(s)[j]
                 PROVE  i = j
    BY <1>1 DEF IsInjective
  <2>2. i + 1 = j + 1
    BY <1>1, <1>2, <1>3, <2>1
  <2>3. QED
    BY <2>2
<1>5. \A i \in 1..(Len(s) - 1) : Tail(s)[i] # Head(s) /\ Tail(s)[i] \in Range(s)
  BY <1>1, <1>2, <1>3 DEF Range
<1>6. Head(s) \in Range(s)
  BY <1>1, <1>2 DEF Range
<1>7. QED
  BY <1>1, <1>4, <1>5, <1>6 DEF Range

\* A new element in front of a list without repetition.
LEMMA PrependInjective ==
    ASSUME NEW S, NEW s \in Seq(S), NEW x \in S, IsInjective(s), x \notin Range(s)
    PROVE  /\ IsInjective(<<x>> \o s)
           /\ \A y \in Range(<<x>> \o s) : y = x \/ y \in Range(s)
<1> DEFINE p == <<x>> \o s
<1>1. /\ DOMAIN s = 1..Len(s) /\ Len(s) \in Nat
      /\ DOMAIN p = 1..(Len(s) + 1)
      /\ p[1] = x
      /\ \A i \in 2..(Len(s) + 1) : p[i] = s[i - 1] /\ i - 1 \in 1..Len(s)
  OBVIOUS
<1> HIDE DEF p
<1>2. \A i \in 1..(Len(s) + 1) : i = 1 \/ i \in 2..(Len(s) + 1)
  BY <1>1
<1>3. \A i \in 2..(Len(s) + 1) : p[i] # x /\ p[i] \in Range(s)
  BY <1>1 DEF Range
<1>4. \A i, j \in 2..(Len(s) + 1) : p[i] = p[j] => i - 1 = j - 1
  BY <1>1 DEF IsInjective
<1>5. \A i, j \in 2..(Len(s) + 1) : p[i] = p[j] => i = j
  BY <1>4
<1>6. IsInjective(p)
  BY <1>1, <1>2, <1>3, <1>5 DEF IsInjective
<1>7. \A y \in Range(p) : y = x \/ y \in Range(s)
  BY <1>1, <1>2, <1>3 DEF Range
<1>8. QED
  BY <1>6, <1>7 DEF p

\* Every step keeps the invariant; only create and the clean-up of join change the tables.
LEMMA IdStep == IdInv /\ [Next]_vars => IdInv'
<1> SUFFICES ASSUME IdInv, [Next]_vars PROVE IdInv'
  OBVIOUS
<1>0. TypeInv'
  BY TypeStep DEF IdInv
<1>t. /\ TypeOK /\ TypeInv /\ IdleBeforeInit
      /\ Main \in TCB /\ Threads \subseteq TCB /\ Main \notin Threads /\ NULL \notin TCB
      /\ pc \in [TCB -> Places]
  BY ConstantsAssumption DEF IdInv, TypeInv, TypeOK, TCB
<1>1. CASE UNCHANGED vars
  <2>1. UNCHANGED <<init, running_thread, priority_level, user, pc, id, thread_count,
                    thread_table, tid_list>>
    BY <1>1 DEF vars, queues, tables, fields, mutexes, context
  <2>2. QED
    BY <1>0, <2>1 DEF IdInv, IdleBeforeInit, MainKeepsId, TableSound, ListSound
<1>2. CASE scheduler_init
  <2>1. /\ init' /\ id'[Main] = 0 /\ thread_count' = 1
        /\ tid_list' = <<>>
        /\ thread_table' = [i \in Ids |-> NULL]
        /\ pc' = [pc EXCEPT ![Main] = "create"]
    <3>1. id \in [TCB -> Ids]
      BY <1>t DEF TypeOK
    <3>2. QED
      BY <1>2, <1>t, <3>1 DEF scheduler_init
  <2>2. \A t \in Threads : pc'[t] = "new"
    BY <1>2, <1>t, <2>1 DEF scheduler_init, IdleBeforeInit
  <2>3. IdleBeforeInit' /\ MainKeepsId' /\ TableSound'
    BY <1>t, <2>1, <2>2 DEF IdleBeforeInit, MainKeepsId, TableSound
  <2>4. ListSound'
    BY <2>1 DEF ListSound, Range, IsInjective
  <2>5. QED
    BY <1>0, <2>3, <2>4 DEF IdInv
<1>3. ASSUME NEW t \in TCB, Tick(t) \/ Raise(t) \/ Yield(t) \/ Exit(t) \/ CreateFails(t)
                            \/ JoinWait(t) \/ ReapUndefined(t) \/ Claim(t)
      PROVE  IdInv'
  <2>1. init /\ init' = init
    <3>1. Running(t)
      BY <1>3 DEF Tick, Raise, Yield, Exit, CreateFails, Creating, JoinWait, ReapUndefined,
                  Claim, Runs
    <3>2. QED
      BY <1>3, <1>t, <3>1, RunningIsInit DEF Tick, Raise, Yield, Exit, CreateFails, JoinWait,
                                       ReapUndefined, Claim
  <2>2. UNCHANGED <<id, thread_count, thread_table, tid_list>>
    BY <1>3 DEF Tick, Raise, Yield, Exit, CreateFails, JoinWait, ReapUndefined, Claim,
                tables, fields
  <2>3. pc' = pc \/ \E p \in Places \ {"new", "reaped"} :
                      pc[t] \notin {"new", "reaped"} /\ pc' = [pc EXCEPT ![t] = p]
    <3>1. CASE Raise(t)
      <4>1. /\ pc[t] \in {"yield_raise", "lock_raise", "join_raise"}
            /\ pc' = [pc EXCEPT ![t] = after_raise[pc[t]]]
        BY <3>1 DEF Raise, after_raise
      <4>2. after_raise[pc[t]] \in Places \ {"new", "reaped"}
        BY <4>1 DEF after_raise, Places
      <4>3. QED
        BY <4>1, <4>2
    <3>2. CASE Yield(t) \/ Exit(t) \/ CreateFails(t) \/ JoinWait(t) \/ Claim(t)
      BY <3>2 DEF Yield, Exit, CreateFails, JoinWait, Claim, Runs, Creating, Places
    <3>3. CASE Tick(t) \/ ReapUndefined(t)
      BY <3>3 DEF Tick, ReapUndefined, context
    <3>4. QED
      BY <1>3, <3>1, <3>2, <3>3
  <2>4. \A u \in TCB : pc'[u] \in {"new", "reaped"} <=> pc[u] \in {"new", "reaped"}
    BY <1>t, <2>3
  <2>5. QED
    BY <1>0, <2>1, <2>2, <2>4, IdFrame
<1>4. ASSUME NEW t \in TCB, NEW new \in Threads, Create(t, new) PROVE IdInv'
  <2>1. init /\ init'
    BY <1>4, <1>t, RunningIsInit DEF Create, Creating, Runs
  <2>2. next_ID \in Ids /\ thread_count \in Nat /\ tid_list \in Seq(Ids)
        /\ thread_table \in [Ids -> Threads \cup {NULL}] /\ id \in [TCB -> Ids]
    <3>1. thread_count \in Nat /\ tid_list \in Seq(Ids)
          /\ thread_table \in [Ids -> Threads \cup {NULL}] /\ id \in [TCB -> Ids]
      BY <1>t DEF TypeOK
    <3>2. QED
      BY <1>4, <3>1, ConstantsAssumption DEF Create, next_ID, Ids
  <2>3. /\ id' = [id EXCEPT ![new] = next_ID]
        /\ thread_table' = [thread_table EXCEPT ![next_ID] = new]
        /\ pc' = [pc EXCEPT ![t] = "user", ![new] = "user"]
        /\ pc[new] \in {"new", "reaped"}
        /\ pc[t] \in {"create", "user"}
    BY <1>4 DEF Create, Creating, Runs
  <2>4. /\ thread_table[next_ID] = NULL
        /\ 1 <= next_ID /\ next_ID < thread_count'
        /\ thread_count <= thread_count' /\ thread_count' \in Nat
    <3>1. CASE tid_list = <<>>
      <4>1. next_ID = thread_count /\ thread_count' = thread_count + 1
        BY <1>4, <3>1 DEF Create, get_ID, next_ID
      <4>2. thread_table[next_ID] = NULL
        <5>1. thread_table[next_ID] # NULL => thread_table[next_ID] \in Threads
          BY <2>2
        <5>2. QED
          BY <2>2, <4>1, <5>1 DEF IdInv, TableSound
      <4>3. QED
        BY <2>1, <2>2, <4>1, <4>2 DEF IdInv, MainKeepsId
    <3>2. CASE tid_list # <<>>
      <4>1. next_ID = Head(tid_list) /\ thread_count' = thread_count
        BY <1>4, <3>2 DEF Create, get_ID, next_ID
      <4>2. next_ID \in Range(tid_list)
        BY <2>2, <3>2, <4>1, TailOfInjective DEF IdInv, ListSound
      <4>3. QED
        BY <2>2, <4>1, <4>2 DEF IdInv, ListSound
    <3>3. QED
      BY <3>1, <3>2
  <2>5. MainKeepsId'
    <3>1. id'[Main] = 0
      BY <1>t, <2>2, <2>3 DEF IdInv, MainKeepsId
    <3>2. pc'[Main] \notin {"new", "reaped"}
      BY <1>t, <2>3 DEF IdInv, MainKeepsId
    <3>3. thread_count >= 1
      BY <2>1 DEF IdInv, MainKeepsId
    <3>4. thread_count' >= 1
      BY <2>2, <2>4, <3>3
    <3>5. QED
      BY <3>1, <3>2, <3>4 DEF MainKeepsId
  <2>6. TableSound'
    <3>1. ASSUME NEW u \in Threads, pc'[u] \notin {"new", "reaped"}
          PROVE  thread_table'[id'[u]] = u /\ 1 <= id'[u] /\ id'[u] < thread_count'
      <4>1. CASE u = new
        <5>1. id'[new] = next_ID
          BY <1>t, <2>2, <2>3
        <5>2. thread_table'[next_ID] = new
          BY <2>2, <2>3
        <5>3. QED
          BY <2>4, <4>1, <5>1, <5>2
      <4>2. CASE u # new
        <5>1. pc[u] \notin {"new", "reaped"} /\ id'[u] = id[u] /\ id[u] \in Ids
          BY <1>t, <2>2, <2>3, <3>1, <4>2
        <5>2. thread_table[id[u]] = u /\ 1 <= id[u] /\ id[u] < thread_count
          BY <5>1 DEF IdInv, TableSound
        <5>3. id[u] # next_ID
          BY <1>t, <2>4, <5>2
        <5>4. thread_table'[id[u]] = u
          BY <2>2, <2>3, <5>1, <5>2, <5>3
        <5>5. id[u] < thread_count'
          BY <2>2, <2>4, <5>1, <5>2 DEF Ids
        <5>6. QED
          BY <5>1, <5>2, <5>4, <5>5
      <4>3. QED
        BY <4>1, <4>2
    <3>2. ASSUME NEW i \in Ids, thread_table'[i] # NULL
          PROVE  id'[thread_table'[i]] = i /\ pc'[thread_table'[i]] \notin {"new", "reaped"}
      <4>1. CASE i = next_ID
        BY <1>t, <2>2, <2>3, <4>1
      <4>2. CASE i # next_ID
        <5>1. thread_table'[i] = thread_table[i] /\ thread_table[i] \in Threads
          BY <2>2, <2>3, <3>2, <4>2
        <5>2. id[thread_table[i]] = i /\ pc[thread_table[i]] \notin {"new", "reaped"}
          BY <3>2, <5>1 DEF IdInv, TableSound
        <5>3. QED
          BY <1>t, <2>2, <2>3, <5>1, <5>2
      <4>3. QED
        BY <4>1, <4>2
    <3>3. QED
      BY <3>1, <3>2 DEF TableSound
  <2>7. ListSound'
    <3>1. CASE tid_list = <<>>
      <4>1. tid_list' = <<>>
        BY <1>4, <3>1 DEF Create, get_ID
      <4>2. QED
        BY <4>1 DEF ListSound, Range, IsInjective
    <3>2. CASE tid_list # <<>>
      <4>1. tid_list' = Tail(tid_list) /\ next_ID = Head(tid_list)
        BY <1>4, <3>2 DEF Create, get_ID, next_ID
      <4>2. /\ IsInjective(Tail(tid_list))
            /\ \A x \in Range(Tail(tid_list)) : x \in Range(tid_list) /\ x # Head(tid_list)
        BY <2>2, <3>2, TailOfInjective DEF IdInv, ListSound
      <4>3. Range(tid_list) \subseteq Ids
        BY <2>2 DEF Range
      <4>4. \A x \in Range(tid_list') :
              thread_table'[x] = NULL /\ 1 <= x /\ x < thread_count'
        <5>1. SUFFICES ASSUME NEW x \in Range(Tail(tid_list))
                       PROVE  thread_table'[x] = NULL /\ 1 <= x /\ x < thread_count'
          BY <4>1
        <5>2. x \in Ids /\ x # next_ID /\ x \in Range(tid_list)
          BY <4>1, <4>2, <4>3
        <5>3. thread_table[x] = NULL /\ 1 <= x /\ x < thread_count
          BY <5>2 DEF IdInv, ListSound
        <5>4. thread_table'[x] = thread_table[x]
          BY <2>2, <2>3, <5>2
        <5>5. x \in Int
          BY <5>2 DEF Ids
        <5>6. QED
          BY <2>2, <2>4, <5>3, <5>4, <5>5
      <4>5. QED
        BY <4>1, <4>2, <4>4 DEF ListSound
    <3>3. QED
      BY <3>1, <3>2
  <2>8. IdleBeforeInit'
    BY <2>1 DEF IdleBeforeInit
  <2>9. QED
    BY <1>0, <2>5, <2>6, <2>7, <2>8 DEF IdInv
<1>5. ASSUME NEW t \in TCB, NEW new \in Threads, CreateBeyondLimit(t, new) PROVE IdInv'
  <2>1. UNCHANGED <<init, running_thread, priority_level, user, pc, id, thread_count,
                    thread_table, tid_list>>
    BY <1>5 DEF CreateBeyondLimit, queues, tables, fields, mutexes, context
  <2>2. QED
    BY <1>0, <2>1 DEF IdInv, IdleBeforeInit, MainKeepsId, TableSound, ListSound
<1>6. ASSUME NEW t \in TCB, NEW u \in Threads, Join(t, u) PROVE IdInv'
  <2>1. init /\ init'
    BY <1>6, <1>t, RunningIsInit DEF Join, Runs
  <2>2. UNCHANGED <<id, thread_count, thread_table, tid_list>>
    BY <1>6 DEF Join, tables, fields
  <2>3. \A v \in TCB : pc'[v] \in {"new", "reaped"} <=> pc[v] \in {"new", "reaped"}
    BY <1>6, <1>t DEF Join, Runs
  <2>4. QED
    BY <1>0, <2>1, <2>2, <2>3, IdFrame
<1>7. ASSUME NEW t \in TCB, Reap(t) PROVE IdInv'
  <2> DEFINE i == thread_id[t]
             u == thread_table[i]
  <2>1. init /\ init'
    BY <1>7, <1>t, RunningIsInit DEF Reap, Runs
  <2>2. /\ i \in Ids /\ tid_list \in Seq(Ids) /\ id \in [TCB -> Ids] /\ thread_count \in Nat
        /\ thread_table \in [Ids -> Threads \cup {NULL}]
    BY <1>t DEF TypeOK
  <2>3. u \in Threads /\ pc[u] = "dead" /\ pc[t] = "reap" /\ id[u] = i
    BY <1>7, <2>2 DEF Reap, Runs, IdInv, TableSound
  <2>4. /\ thread_table' = [thread_table EXCEPT ![i] = NULL]
        /\ tid_list' = <<i>> \o tid_list
        /\ pc' = [pc EXCEPT ![t] = "user", ![u] = "reaped"]
        /\ id' = id /\ thread_count' = thread_count
    BY <1>7 DEF Reap, free_ID, fields
  <2> HIDE DEF i, u
  <2>5. 1 <= i /\ i < thread_count
    BY <2>3 DEF IdInv, TableSound
  <2>6. thread_table[i] = u
    BY DEF u
  <2>7. MainKeepsId'
    BY <1>t, <2>1, <2>3, <2>4 DEF IdInv, MainKeepsId
  <2>8. TableSound'
    <3>1. ASSUME NEW v \in Threads, pc'[v] \notin {"new", "reaped"}
          PROVE  thread_table'[id'[v]] = v /\ 1 <= id'[v] /\ id'[v] < thread_count'
      <4>1. v # u /\ pc[v] \notin {"new", "reaped"}
        BY <1>t, <2>3, <2>4, <3>1
      <4>2. thread_table[id[v]] = v /\ 1 <= id[v] /\ id[v] < thread_count
        BY <4>1 DEF IdInv, TableSound
      <4>3. id[v] \in Ids /\ id[v] # i
        BY <1>t, <2>2, <2>6, <4>1, <4>2
      <4>4. QED
        BY <2>2, <2>4, <4>2, <4>3
    <3>2. ASSUME NEW j \in Ids, thread_table'[j] # NULL
          PROVE  id'[thread_table'[j]] = j /\ pc'[thread_table'[j]] \notin {"new", "reaped"}
      <4>1. j # i /\ thread_table'[j] = thread_table[j] /\ thread_table[j] \in Threads
        BY <2>2, <2>4, <3>2
      <4>2. id[thread_table[j]] = j /\ pc[thread_table[j]] \notin {"new", "reaped"}
        BY <3>2, <4>1 DEF IdInv, TableSound
      <4>3. thread_table[j] # u
        BY <2>3, <4>1, <4>2
      <4>4. QED
        BY <1>t, <2>4, <4>1, <4>2, <4>3
    <3>3. QED
      BY <3>1, <3>2 DEF TableSound
  <2>9. ListSound'
    <3>1. i \notin Range(tid_list) /\ IsInjective(tid_list)
      BY <1>t, <2>3, <2>6 DEF IdInv, ListSound
    <3>2. /\ IsInjective(<<i>> \o tid_list)
          /\ \A y \in Range(<<i>> \o tid_list) : y = i \/ y \in Range(tid_list)
      BY <2>2, <3>1, PrependInjective
    <3>3. ASSUME NEW y \in Range(tid_list')
          PROVE  thread_table'[y] = NULL /\ 1 <= y /\ y < thread_count'
      <4>1. CASE y = i
        BY <2>2, <2>4, <2>5, <4>1
      <4>2. CASE y \in Range(tid_list)
        <5>1. y \in Ids
          BY <2>2, <4>2 DEF Range
        <5>2. QED
          BY <2>2, <2>4, <4>2, <5>1 DEF IdInv, ListSound
      <4>3. QED
        BY <2>4, <3>2, <3>3, <4>1, <4>2
    <3>4. QED
      BY <2>4, <3>2, <3>3 DEF ListSound
  <2>10. IdleBeforeInit'
    BY <2>1 DEF IdleBeforeInit
  <2>11. QED
    BY <1>0, <2>7, <2>8, <2>9, <2>10 DEF IdInv
<1>8. ASSUME NEW t \in TCB, NEW m \in Mutexes, MutexInit(t, m) PROVE IdInv'
  <2>1. UNCHANGED <<init, running_thread, priority_level, id, thread_count, thread_table,
                    tid_list>>
    BY <1>8 DEF MutexInit, queues, tables, fields
  <2>2. user' = user \/ user' = [user EXCEPT ![m] = NULL]
    BY <1>8 DEF MutexInit
  <2>3. pc' = pc \/ (pc' = [pc EXCEPT ![t] = "register"] /\ pc[t] = "user")
    BY <1>8 DEF MutexInit, Caller, Runs, context
  <2>4. \A u \in TCB : pc'[u] \in {"new", "reaped"} <=> pc[u] \in {"new", "reaped"}
    BY <1>t, <2>3
  <2>5. CASE init
    BY <1>0, <2>1, <2>4, <2>5, IdFrame
  <2>6. CASE ~init
    <3>1. t = Main
      BY <1>8, <2>6 DEF MutexInit, Caller
    <3>2. \A u \in Threads : pc'[u] = pc[u]
      BY <1>t, <2>3, <3>1
    <3>3. user \in [Mutexes -> TCB \cup {NULL}]
      BY <1>t DEF TypeOK
    <3>4. IdleBeforeInit'
      BY <1>t, <2>1, <2>2, <2>6, <3>2, <3>3 DEF IdleBeforeInit
    <3>5. MainKeepsId'
      BY <1>t, <2>1, <2>3 DEF IdInv, MainKeepsId
    <3>6. TableSound'
      <4>1. \A i \in Ids : thread_table[i] # NULL => thread_table[i] \in Threads
        BY <1>t DEF TypeOK
      <4>2. QED
        BY <2>1, <3>2, <4>1 DEF IdInv, TableSound
    <3>7. ListSound'
      BY <2>1 DEF IdInv, ListSound
    <3>8. QED
      BY <1>0, <3>4, <3>5, <3>6, <3>7 DEF IdInv
  <2>7. QED
    BY <2>5, <2>6
<1>9. ASSUME NEW t \in TCB, Register(t) PROVE IdInv'
  <2>1. UNCHANGED <<init, running_thread, priority_level, user, id, thread_count,
                    thread_table, tid_list>>
    BY <1>9 DEF Register, queues, tables, fields
  <2>2. pc' = [pc EXCEPT ![t] = "user"] /\ pc[t] = "register"
    BY <1>9 DEF Register, Caller, Runs
  <2>3. \A u \in TCB : pc'[u] \in {"new", "reaped"} <=> pc[u] \in {"new", "reaped"}
    BY <1>t, <2>2
  <2>4. CASE init
    BY <1>0, <2>1, <2>3, <2>4, IdFrame
  <2>5. CASE ~init
    <3>1. \A u \in Threads : pc'[u] = pc[u]
      BY <1>9, <1>t, <2>2, <2>5 DEF Register, Caller
    <3>2. IdleBeforeInit'
      BY <1>t, <2>1, <2>5, <3>1 DEF IdleBeforeInit
    <3>3. MainKeepsId'
      BY <1>t, <2>1, <2>2 DEF IdInv, MainKeepsId
    <3>4. TableSound'
      <4>1. \A i \in Ids : thread_table[i] # NULL => thread_table[i] \in Threads
        BY <1>t DEF TypeOK
      <4>2. QED
        BY <2>1, <3>1, <4>1 DEF IdInv, TableSound
    <3>5. ListSound'
      BY <2>1 DEF IdInv, ListSound
    <3>6. QED
      BY <1>0, <3>2, <3>3, <3>4, <3>5 DEF IdInv
  <2>6. QED
    BY <2>4, <2>5
<1>10. ASSUME NEW t \in TCB, NEW m \in Mutexes, Lock(t, m) \/ Unlock(t, m) \/ Destroy(t, m)
       PROVE  IdInv'
  <2>1. init /\ init'
    BY <1>10, <1>t, RunningIsInit DEF Lock, Unlock, Destroy, Runs
  <2>2. UNCHANGED <<id, thread_count, thread_table, tid_list>>
    BY <1>10 DEF Lock, Unlock, Destroy, tables
  <2>3. pc' = pc \/ (pc' = [pc EXCEPT ![t] = "lock_raise"] /\ pc[t] = "user")
    BY <1>10 DEF Lock, LockFree, LockWait, LockRefused, Unlock, Destroy, Runs, context
  <2>4. \A u \in TCB : pc'[u] \in {"new", "reaped"} <=> pc[u] \in {"new", "reaped"}
    BY <1>t, <2>3
  <2>5. QED
    BY <1>0, <2>1, <2>2, <2>4, IdFrame
<1>11. CASE Spin \/ Lost
  BY <1>1, <1>11 DEF Spin, Lost
<1>12. QED
  BY <1>1, <1>2, <1>3, <1>4, <1>5, <1>6, <1>7, <1>8, <1>9, <1>10, <1>11
     DEF Next, ThreadCall, MutexCall, Continue

\* For every client and any limits, IDs in use are distinct and lead to their threads,
\* none is both in use and free, and none is free twice.
THEOREM IdsCorrect == Spec => []IdsAreSound
<1>1. Spec => []IdInv
  BY IdInit, IdStep, PTL DEF Spec
<1>2. IdInv => IdsAreSound
  <2> SUFFICES ASSUME IdInv PROVE IdsAreSound
    OBVIOUS
  <2>1. /\ id[Main] = 0
        /\ \A t \in Threads : pc[t] \notin {"new", "reaped"} =>
             thread_table[id[t]] = t /\ 1 <= id[t]
    BY DEF IdInv, MainKeepsId, TableSound
  <2>2. NULL \notin Threads
    BY ConstantsAssumption
  <2>3. \A i \in Range(tid_list) : thread_table[i] = NULL
    BY DEF IdInv, ListSound
  <2>4. id \in [TCB -> Ids] /\ Threads \subseteq TCB
    BY DEF IdInv, TypeInv, TypeOK, TCB
  <2>5. IsInjective(tid_list)
    BY DEF IdInv, ListSound
  <2>6. QED
    BY <2>1, <2>2, <2>3, <2>4, <2>5 DEF IdsAreSound
<1>3. QED
  BY <1>1, <1>2, PTL
=============================================================================
