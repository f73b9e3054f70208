-------------------------- MODULE MyPthreadDefined --------------------------
(***************************************************************************)
(* A client that joins no thread from two others, and declares fewer       *)
(* threads than there are IDs, never leads MyPthread to undefined          *)
(* behaviour.                                                              *)
(*                                                                         *)
(* Two places could: create without an ID left, and the clean-up of join.  *)
(* Create finds an ID because none is lost (IssuedAreHeld): with the list  *)
(* of recycled IDs empty, those issued belong to as many structures, and   *)
(* the one to be created is another.  The clean-up finds a dead thread     *)
(* because the target of a join stays in the table while the call lasts    *)
(* (JoinedStays, for which nobody else may be joining it, OneJoiner), and  *)
(* only its exit, which marks it as done, wakes the joiner (WokenByExit).  *)
(***************************************************************************)
EXTENDS MyPthreadSafety, FiniteSetTheorems

\* The rules of use: one joiner per thread, and an ID for each structure besides main's.
RulesOfUse ==
    /\ "join_shared" \notin Calls
    /\ IsFiniteSet(Threads)
    /\ Cardinality(Threads) < THREAD_LIM

\* A thread inside my_pthread_join.
InJoin(t) == pc[t] \in {"join_wait", "join_raise", "reap"}

OneJoiner ==
    \A t, u \in TCB : InJoin(t) /\ InJoin(u) /\ thread_id[t] = thread_id[u] => t = u

JoinedStays == \A t \in TCB : InJoin(t) => thread_table[thread_id[t]] # NULL

WokenByExit ==
    \A t \in TCB : pc[t] \in {"join_raise", "reap"} =>
      done[thread_id[t]] \/ status[t] = "wait_thread"

IssuedAreHeld ==
    init => \A i \in Ids : 1 <= i /\ i < thread_count =>
              thread_table[i] # NULL \/ i \in Range(tid_list)

DefinedInv == /\ SafetyInv
              /\ OneJoiner
              /\ JoinedStays
              /\ WokenByExit
              /\ IssuedAreHeld
              /\ ~undefined

\* Steps that leave the tables and the calls of join alone and wake nobody from join.
LEMMA JoinFrame ==
    ASSUME DefinedInv,
           UNCHANGED <<thread_id, thread_table, done, thread_count, tid_list>>,
           init' => init,
           \A t \in TCB : InJoin(t)' => InJoin(t),
           \A t \in TCB : pc'[t] \in {"join_raise", "reap"} => pc[t] \in {"join_raise", "reap"},
           \A t \in TCB : InJoin(t) /\ status[t] = "wait_thread" => status'[t] = "wait_thread"
    PROVE  OneJoiner' /\ JoinedStays' /\ WokenByExit' /\ IssuedAreHeld'
<1>1. OneJoiner' /\ JoinedStays'
  BY DEF DefinedInv, OneJoiner, JoinedStays
<1>2. WokenByExit'
  BY DEF DefinedInv, WokenByExit, InJoin
<1>3. IssuedAreHeld'
  BY DEF DefinedInv, IssuedAreHeld
<1>4. QED
  BY <1>1, <1>2, <1>3

\* Nobody is in join before the first create.
LEMMA NoJoinBeforeInit == ASSUME SafetyInv, ~init, pc[Main] = "user", NEW t \in TCB
                          PROVE  ~InJoin(t)
BY DEF SafetyInv, IdInv, IdleBeforeInit, InJoin, TCB

\* The handler, run for a thread that has not exited, wakes nobody.
LEMMA HandlerKeepsStatus ==
    ASSUME SafetyInv, NEW t \in TCB, Tick(t) \/ Raise(t) PROVE status' = status
<1>1. running_thread = t /\ status[t] # "thread_exit"
  <2>1. running_thread = t
    BY DEF Tick, Raise, Running
  <2>2. pc[t] \notin Gone
    BY <2>1 DEF SafetyInv, PlacesSound
  <2>3. QED
    BY <2>1, <2>2 DEF SafetyInv, StatusSound
<1>2. QED
  BY <1>1 DEF Tick, Raise, scheduler_alarm_handler, reschedule

\* exit wakes the joiner of the thread that exits, and marks that thread as done.
LEMMA ExitKeepsDefined ==
    ASSUME DefinedInv, NEW t \in TCB, Exit(t)
    PROVE  OneJoiner' /\ JoinedStays' /\ WokenByExit' /\ IssuedAreHeld'
<1>b. /\ TypeOK /\ SafetyInv /\ NULL \notin TCB
      /\ pc \in [TCB -> Places] /\ status \in [TCB -> Status]
      /\ id \in [TCB -> Ids] /\ done \in [Ids -> BOOLEAN] /\ thread_id \in [TCB -> Ids]
  BY Basics DEF DefinedInv, TypeOK
<1>1. /\ pc[t] = "user" /\ running_thread = t
      /\ done' = [done EXCEPT ![id[t]] = TRUE]
      /\ pc' = [pc EXCEPT ![t] = "dead"]
      /\ scheduler_alarm_handler(t, [status EXCEPT ![t] = "thread_exit"], FALSE)
      /\ UNCHANGED <<init, thread_count, tid_list, thread_table, thread_id>>
  BY DEF Exit, Runs, Running
<1>2. \A u \in TCB : u # t => pc'[u] = pc[u]
  BY <1>1, <1>b
<1>3. pc'[t] = "dead"
  BY <1>1, <1>b
<1>4. \A u \in TCB : InJoin(u)' => u # t /\ InJoin(u)
  BY <1>2, <1>3 DEF InJoin
<1>5. OneJoiner' /\ JoinedStays'
  BY <1>1, <1>4 DEF DefinedInv, OneJoiner, JoinedStays
<1>6. \A u \in TCB : u # t /\ status[u] = "wait_thread" =>
        status'[u] = "wait_thread" \/ u = waiting[id[t]]
  <2> DEFINE st == [status EXCEPT ![t] = "thread_exit"]
  <2>1. st[t] = "thread_exit" /\ \A u \in TCB : u # t => st[u] = status[u]
    BY <1>b
  <2>2. st \in [TCB -> Status]
    BY <1>b DEF Status
  <2> HIDE DEF st
  <2>3. scheduler_alarm_handler(t, st, FALSE)
    BY <1>1 DEF st
  <2>4. status' = st \/ status' = [st EXCEPT ![waiter(t)] = "active"]
    BY <2>1, <2>3 DEF scheduler_alarm_handler, reschedule
  <2>5. QED
    BY <2>1, <2>2, <2>4 DEF waiter
<1>7. WokenByExit'
  <2>1. SUFFICES ASSUME NEW u \in TCB, pc'[u] \in {"join_raise", "reap"}
                 PROVE  done'[thread_id[u]] \/ status'[u] = "wait_thread"
    BY <1>1 DEF WokenByExit
  <2>2. u # t /\ pc[u] \in {"join_raise", "reap"}
    BY <1>2, <1>3, <2>1
  <2>3. CASE done[thread_id[u]]
    BY <1>1, <1>b, <2>3
  <2>4. CASE status[u] = "wait_thread" /\ u # waiting[id[t]]
    BY <1>6, <2>2, <2>4
  <2>5. CASE u = waiting[id[t]]
    <3>1. waiting[id[t]] # NULL /\ id[t] \in Ids
      BY <1>b, <2>5
    <3>2. thread_id[u] = id[t]
      BY <1>b, <2>5, <3>1 DEF SafetyInv, Joiners
    <3>3. QED
      BY <1>1, <1>b, <3>2
  <2>6. QED
    BY <2>2, <2>3, <2>4, <2>5 DEF DefinedInv, WokenByExit
<1>8. IssuedAreHeld'
  BY <1>1 DEF DefinedInv, IssuedAreHeld
<1>9. QED
  BY <1>5, <1>7, <1>8

\* create takes an ID that nobody is joining, since it leads to no thread.
LEMMA CreateKeepsDefined ==
    ASSUME DefinedInv, NEW t \in TCB, NEW new \in Threads, Create(t, new)
    PROVE  OneJoiner' /\ JoinedStays' /\ WokenByExit' /\ IssuedAreHeld'
<1>b. /\ TypeOK /\ SafetyInv /\ new \in TCB /\ NULL \notin TCB
      /\ pc \in [TCB -> Places] /\ status \in [TCB -> Status]
      /\ done \in [Ids -> BOOLEAN] /\ thread_id \in [TCB -> Ids]
      /\ thread_table \in [Ids -> Threads \cup {NULL}]
      /\ thread_count \in Nat /\ tid_list \in Seq(Ids)
  BY Basics DEF DefinedInv, TypeOK
<1>1. /\ pc[t] \in {"create", "user"} /\ pc[new] \in {"new", "reaped"}
      /\ next_ID < THREAD_LIM
      /\ status' = [status EXCEPT ![new] = "active"]
      /\ pc' = [pc EXCEPT ![t] = "user", ![new] = "user"]
      /\ done' = [done EXCEPT ![next_ID] = FALSE]
      /\ thread_table' = [thread_table EXCEPT ![next_ID] = new]
      /\ get_ID
      /\ UNCHANGED <<init, thread_id>>
  BY DEF Create, Creating, Runs
<1>2. init
  BY <1>b, RunningIsInit DEF Create, Creating, Runs, SafetyInv, IdInv
<1>3. next_ID \in Ids
  BY <1>1, <1>b, ConstantsAssumption DEF next_ID, Ids
<1>4. thread_table[next_ID] = NULL
  <2>1. CASE tid_list = <<>>
    <3>1. next_ID = thread_count
      BY <2>1 DEF next_ID
    <3>2. \A u \in Threads : pc[u] \notin {"new", "reaped"} => id[u] < thread_count
      BY <1>b DEF SafetyInv, IdInv, TableSound
    <3>3. thread_table[next_ID] # NULL => /\ id[thread_table[next_ID]] = thread_count
                                          /\ thread_table[next_ID] \in Threads
                                          /\ pc[thread_table[next_ID]] \notin {"new", "reaped"}
      BY <1>3, <1>b, <3>1 DEF SafetyInv, IdInv, TableSound
    <3>4. ~(thread_count < thread_count)
      BY <1>b
    <3>5. QED
      BY <3>2, <3>3, <3>4
  <2>2. CASE tid_list # <<>>
    <3>1. next_ID \in Range(tid_list)
      BY <1>b, <2>2, TailFacts DEF next_ID
    <3>2. QED
      BY <1>b, <3>1 DEF SafetyInv, IdInv, ListSound
  <2>3. QED
    BY <2>1, <2>2
<1>5. \A u \in TCB : u # t /\ u # new => pc'[u] = pc[u] /\ status'[u] = status[u]
  BY <1>1, <1>b
<1>6. pc'[t] = "user" /\ pc'[new] = "user"
  BY <1>1, <1>b
<1>7. \A u \in TCB : InJoin(u)' => InJoin(u) /\ u # t /\ u # new
  BY <1>5, <1>6 DEF InJoin
<1>8. \A u \in TCB : InJoin(u) => thread_id[u] # next_ID /\ thread_id[u] \in Ids
  BY <1>4, <1>b DEF DefinedInv, JoinedStays
<1>9. OneJoiner'
  BY <1>1, <1>7 DEF DefinedInv, OneJoiner
<1>10. JoinedStays'
  <2>1. SUFFICES ASSUME NEW u \in TCB, InJoin(u)' PROVE thread_table'[thread_id[u]] # NULL
    BY <1>1 DEF JoinedStays
  <2>2. thread_table'[thread_id[u]] = thread_table[thread_id[u]]
    BY <1>1, <1>7, <1>8, <1>b, <2>1
  <2>3. QED
    BY <1>7, <2>1, <2>2 DEF DefinedInv, JoinedStays
<1>11. WokenByExit'
  <2>1. SUFFICES ASSUME NEW u \in TCB, pc'[u] \in {"join_raise", "reap"}
                 PROVE  done'[thread_id[u]] \/ status'[u] = "wait_thread"
    BY <1>1 DEF WokenByExit
  <2>2. u # t /\ u # new /\ InJoin(u) /\ pc[u] = pc'[u] /\ status'[u] = status[u]
    BY <1>5, <1>6, <2>1 DEF InJoin
  <2>3. done'[thread_id[u]] = done[thread_id[u]]
    BY <1>1, <1>8, <1>b, <2>2
  <2>4. QED
    BY <2>1, <2>2, <2>3 DEF DefinedInv, WokenByExit
<1>12. IssuedAreHeld'
  <2>1. SUFFICES ASSUME NEW i \in Ids, 1 <= i, i < thread_count'
                 PROVE  thread_table'[i] # NULL \/ i \in Range(tid_list')
    BY DEF IssuedAreHeld
  <2>2. CASE i = next_ID
    <3>1. thread_table'[i] = new
      BY <1>1, <1>b, <2>2
    <3>2. QED
      BY <1>b, <3>1
  <2>3. CASE i # next_ID
    <3>1. i < thread_count /\ i \in Int
      BY <1>1, <1>b, <2>1, <2>3 DEF get_ID, next_ID, Ids
    <3>2. thread_table'[i] = thread_table[i]
      BY <1>1, <1>b, <2>3
    <3>3. i \in Range(tid_list) => i \in Range(tid_list')
      <4>1. CASE tid_list = <<>>
        BY <4>1 DEF Range
      <4>2. CASE tid_list # <<>>
        <5>1. next_ID = Head(tid_list) /\ tid_list' = Tail(tid_list)
          BY <1>1, <4>2 DEF get_ID, next_ID
        <5>2. Range(tid_list) \subseteq Range(Tail(tid_list)) \cup {Head(tid_list)}
          BY <1>b, <4>2, TailFacts
        <5>3. QED
          BY <2>3, <5>1, <5>2
      <4>3. QED
        BY <4>1, <4>2
    <3>4. QED
      BY <1>2, <2>1, <3>1, <3>2, <3>3 DEF DefinedInv, IssuedAreHeld
  <2>4. QED
    BY <2>2, <2>3
<1>13. QED
  BY <1>9, <1>10, <1>11, <1>12

\* join enters with a target that is in the table and that nobody else is joining.
LEMMA JoinKeepsDefined ==
    ASSUME RulesOfUse, DefinedInv, NEW t \in TCB, NEW u \in Threads, Join(t, u)
    PROVE  OneJoiner' /\ JoinedStays' /\ WokenByExit' /\ IssuedAreHeld'
<1>b. /\ TypeOK /\ SafetyInv
      /\ pc \in [TCB -> Places] /\ thread_id \in [TCB -> Ids]
  BY Basics DEF DefinedInv, TypeOK
<1>1. /\ pc[t] = "user"
      /\ pc' = [pc EXCEPT ![t] = IF must_wait(id[u]) THEN "join_wait" ELSE "reap"]
      /\ thread_id' = [thread_id EXCEPT ![t] = id[u]]
      /\ \A v \in TCB : ~Joining(v, id[u])
      /\ thread_table[id[u]] # NULL
      /\ UNCHANGED <<init, thread_count, tid_list, thread_table, done, status>>
  BY DEF RulesOfUse, Join, Runs, MayJoin, join_result, tables, fields
<1>2. \A v \in TCB : v # t => pc'[v] = pc[v] /\ thread_id'[v] = thread_id[v]
  BY <1>1, <1>b
<1>3. /\ thread_id'[t] = id[u]
      /\ pc'[t] = "join_wait" \/ (pc'[t] = "reap" /\ done[id[u]])
  BY <1>1, <1>b DEF must_wait
<1>4. \A v \in TCB : InJoin(v) => thread_id[v] # id[u]
  BY <1>1 DEF InJoin, Joining
<1>5. \A v \in TCB : v # t /\ InJoin(v)' => InJoin(v)
  BY <1>2 DEF InJoin
<1>6. OneJoiner'
  <2>1. SUFFICES ASSUME NEW v \in TCB, NEW w \in TCB, InJoin(v)', InJoin(w)',
                        thread_id'[v] = thread_id'[w]
                 PROVE  v = w
    BY DEF OneJoiner
  <2>2. CASE v # t /\ w # t
    BY <1>2, <1>5, <2>1, <2>2 DEF DefinedInv, OneJoiner
  <2>3. CASE v = t \/ w = t
    BY <1>2, <1>3, <1>4, <1>5, <2>1, <2>3
  <2>4. QED
    BY <2>2, <2>3
<1>7. JoinedStays'
  BY <1>1, <1>2, <1>3, <1>5 DEF DefinedInv, JoinedStays
<1>8. WokenByExit'
  BY <1>1, <1>2, <1>3 DEF DefinedInv, WokenByExit
<1>9. IssuedAreHeld'
  BY <1>1 DEF DefinedInv, IssuedAreHeld
<1>10. QED
  BY <1>6, <1>7, <1>8, <1>9

\* The joiner of a thread that was not done goes to sleep.
LEMMA JoinWaitKeepsDefined ==
    ASSUME DefinedInv, NEW t \in TCB, JoinWait(t)
    PROVE  OneJoiner' /\ JoinedStays' /\ WokenByExit' /\ IssuedAreHeld'
<1>b. pc \in [TCB -> Places] /\ status \in [TCB -> Status]
  BY Basics DEF DefinedInv, TypeOK
<1>1. /\ pc[t] = "join_wait"
      /\ pc' = [pc EXCEPT ![t] = "join_raise"]
      /\ status' = [status EXCEPT ![t] = "wait_thread"]
      /\ UNCHANGED <<init, thread_count, tid_list, thread_table, done, thread_id>>
  BY DEF JoinWait, Runs, join_status
<1>2. /\ \A u \in TCB : u # t => pc'[u] = pc[u] /\ status'[u] = status[u]
      /\ pc'[t] = "join_raise" /\ status'[t] = "wait_thread"
  BY <1>1, <1>b
<1>3. \A u \in TCB : InJoin(u)' => InJoin(u)
  BY <1>1, <1>2 DEF InJoin
<1>4. OneJoiner' /\ JoinedStays'
  BY <1>1, <1>3 DEF DefinedInv, OneJoiner, JoinedStays
<1>5. WokenByExit'
  BY <1>1, <1>2 DEF DefinedInv, WokenByExit
<1>6. IssuedAreHeld'
  BY <1>1 DEF DefinedInv, IssuedAreHeld
<1>7. QED
  BY <1>4, <1>5, <1>6

\* The clean-up ends the only join of that thread, and puts its ID on the list.
LEMMA ReapKeepsDefined ==
    ASSUME DefinedInv, NEW t \in TCB, Reap(t)
    PROVE  OneJoiner' /\ JoinedStays' /\ WokenByExit' /\ IssuedAreHeld'
<1> DEFINE i == thread_id[t]
           d == thread_table[i]
<1>b. /\ TypeOK /\ SafetyInv /\ NULL \notin TCB
      /\ pc \in [TCB -> Places] /\ thread_id \in [TCB -> Ids]
      /\ thread_table \in [Ids -> Threads \cup {NULL}] /\ tid_list \in Seq(Ids)
      /\ Threads \subseteq TCB
  BY Basics DEF DefinedInv, TypeOK
<1>1. /\ pc[t] = "reap" /\ pc[d] = "dead" /\ d # NULL
      /\ pc' = [pc EXCEPT ![t] = "user", ![d] = "reaped"]
      /\ thread_table' = [thread_table EXCEPT ![i] = NULL]
      /\ thread_id' = [thread_id EXCEPT ![t] = 0]
      /\ tid_list' = <<i>> \o tid_list
      /\ UNCHANGED <<init, thread_count, done, status>>
  BY DEF Reap, Runs, free_ID, fields
<1>2. i \in Ids /\ d \in TCB
  BY <1>1, <1>b
<1> HIDE DEF d
<1>3. /\ \A u \in TCB : u # t /\ u # d => pc'[u] = pc[u]
      /\ \A u \in TCB : u # t => thread_id'[u] = thread_id[u]
      /\ pc'[t] = "user" /\ pc'[d] = "reaped"
  BY <1>1, <1>2, <1>b
<1>4. \A u \in TCB : InJoin(u)' => InJoin(u) /\ u # t /\ pc'[u] = pc[u]
  BY <1>3 DEF InJoin
<1>5. \A u \in TCB : InJoin(u)' => thread_id[u] # i
  BY <1>1, <1>4 DEF DefinedInv, OneJoiner, InJoin
<1>6. OneJoiner'
  BY <1>3, <1>4 DEF DefinedInv, OneJoiner
<1>7. JoinedStays'
  BY <1>1, <1>2, <1>3, <1>4, <1>5, <1>b DEF DefinedInv, JoinedStays
<1>8. WokenByExit'
  BY <1>1, <1>3 DEF DefinedInv, WokenByExit
<1>9. IssuedAreHeld'
  <2>1. SUFFICES ASSUME init, NEW j \in Ids, 1 <= j, j < thread_count
                 PROVE  thread_table'[j] # NULL \/ j \in Range(tid_list')
    BY <1>1 DEF IssuedAreHeld
  <2>2. i \in Range(tid_list') /\ Range(tid_list) \subseteq Range(tid_list')
    <3> HIDE DEF i
    <3>1. /\ DOMAIN tid_list = 1..Len(tid_list) /\ Len(tid_list) \in Nat
          /\ DOMAIN tid_list' = 1..(Len(tid_list) + 1)
          /\ tid_list'[1] = i
          /\ \A k \in 1..Len(tid_list) : tid_list'[k + 1] = tid_list[k]
      BY <1>1, <1>2, <1>b
    <3>2. /\ 1 \in 1..(Len(tid_list) + 1)
          /\ \A k \in 1..Len(tid_list) : k + 1 \in 1..(Len(tid_list) + 1)
      BY <3>1
    <3>3. QED
      BY <3>1, <3>2 DEF Range
  <2>3. CASE j = i
    BY <2>2, <2>3
  <2>4. CASE j # i
    <3>1. thread_table'[j] = thread_table[j]
      BY <1>1, <1>b, <2>4
    <3>2. QED
      BY <2>1, <2>2, <3>1 DEF DefinedInv, IssuedAreHeld
  <2>5. QED
    BY <2>3, <2>4
<1>10. QED
  BY <1>6, <1>7, <1>8, <1>9

\* With as many IDs as RulesOfUse asks for, create always finds one.
LEMMA IdsSuffice ==
    ASSUME RulesOfUse, DefinedInv, init, NEW new \in Threads, pc[new] \in {"new", "reaped"}
    PROVE  next_ID < THREAD_LIM
<1>b. /\ thread_table \in [Ids -> Threads \cup {NULL}]
      /\ thread_count \in Nat /\ tid_list \in Seq(Ids) /\ THREAD_LIM \in Nat \ {0}
      /\ NULL \notin Threads
  BY Basics, ConstantsAssumption DEF DefinedInv, TypeOK
<1>1. CASE tid_list # <<>>
  BY <1>1, <1>b DEF next_ID, Ids
<1>2. CASE tid_list = <<>> /\ thread_count < THREAD_LIM
  BY <1>2 DEF next_ID
<1>3. CASE tid_list = <<>> /\ thread_count >= THREAD_LIM
  <2> DEFINE I == 1..(THREAD_LIM - 1)
             S == Threads \ {new}
             f == [i \in I |-> thread_table[i]]
  <2>1. \A i \in I : i \in Ids /\ 1 <= i /\ i < thread_count
    BY <1>3, <1>b DEF Ids
  <2>2. Range(tid_list) = {}
    BY <1>3 DEF Range
  <2>3. \A i \in I : thread_table[i] \in Threads
    BY <1>b, <2>1, <2>2 DEF DefinedInv, IssuedAreHeld
  <2>4. \A i \in I : id[thread_table[i]] = i /\ pc[thread_table[i]] \notin {"new", "reaped"}
    BY <1>b, <2>1, <2>3 DEF DefinedInv, SafetyInv, IdInv, TableSound
  <2>5. f \in [I -> S]
    BY <2>3, <2>4
  <2>6. \A i, j \in I : f[i] = f[j] => i = j
    BY <2>4
  <2>7. f \in Injection(I, S)
    BY <2>5, <2>6 DEF Injection, IsInjective
  <2>8. /\ IsFiniteSet(S) /\ Cardinality(S) = Cardinality(Threads) - 1
        /\ Cardinality(Threads) \in Nat
    BY FS_RemoveElement, FS_CardinalityType DEF RulesOfUse
  <2> HIDE DEF f, S
  <2>9. Cardinality(I) <= Cardinality(S)
    BY <2>7, <2>8, FS_Injection
  <2>10. Cardinality(I) = THREAD_LIM - 1
    BY <1>b, FS_Interval
  <2>11. QED
    BY <1>b, <2>8, <2>9, <2>10 DEF RulesOfUse
<1>4. QED
  BY <1>1, <1>2, <1>3, <1>b

\* The clean-up of join finds a dead thread.
LEMMA ReapIsDefined ==
    ASSUME DefinedInv, NEW t \in TCB, Runs(t, "reap")
    PROVE  thread_table[thread_id[t]] # NULL /\ pc[thread_table[thread_id[t]]] = "dead"
<1> DEFINE i == thread_id[t]
           u == thread_table[i]
<1>1. /\ i \in Ids /\ u \in Threads \cup {NULL} /\ Threads \subseteq TCB
      /\ pc \in [TCB -> Places]
  BY Basics DEF DefinedInv, TypeOK
<1>2. u # NULL
  BY DEF DefinedInv, JoinedStays, Runs, InJoin
<1>3. done[i]
  <2>1. running_thread = t /\ pc[t] = "reap"
    BY DEF Runs, Running
  <2>2. status[t] # "wait_thread"
    BY <2>1 DEF DefinedInv, SafetyInv, PlacesSound
  <2>3. QED
    BY <2>1, <2>2 DEF DefinedInv, WokenByExit
<1>4. id[u] = i /\ pc[u] \notin {"new", "reaped"}
  BY <1>1, <1>2 DEF DefinedInv, SafetyInv, IdInv, TableSound
<1>5. pc[u] \in Gone
  BY <1>1, <1>2, <1>3, <1>4 DEF DefinedInv, SafetyInv, Joiners
<1>6. QED
  BY <1>2, <1>4, <1>5 DEF Gone

\* Calls of the mutex functions touch no call of join.
LEMMA MutexCallsKeepDefined ==
    ASSUME DefinedInv, NEW t \in TCB, MutexCall(t) \/ Register(t) \/ Claim(t)
    PROVE  OneJoiner' /\ JoinedStays' /\ WokenByExit' /\ IssuedAreHeld'
<1>b. /\ TypeOK /\ SafetyInv
      /\ pc \in [TCB -> Places] /\ status \in [TCB -> Status]
      /\ \A m \in Mutexes : mutex_waiting[m] \in Seq(TCB)
  BY Basics DEF DefinedInv, TypeOK
<1>1. UNCHANGED <<init, thread_id, thread_table, done, thread_count, tid_list>>
  BY DEF MutexCall, MutexInit, Lock, Unlock, Destroy, Register, Claim, tables, context
<1>2. pc' = pc \/ \E p \in {"user", "register", "lock_raise"} : pc' = [pc EXCEPT ![t] = p]
  BY DEF MutexCall, MutexInit, Lock, LockFree, LockWait, LockRefused, Unlock, Destroy,
         Register, Claim, context
<1>3. \A u \in TCB : pc'[u] \in {"join_wait", "join_raise", "reap"} => pc'[u] = pc[u]
  BY <1>2, <1>b
<1>4. ASSUME NEW u \in TCB, InJoin(u), status[u] = "wait_thread"
      PROVE  status'[u] = "wait_thread"
  <2>1. CASE \E m \in Mutexes : Lock(t, m)
    <3>1. pc[t] = "user"
      BY <2>1 DEF Lock, Runs
    <3>2. u # t
      BY <1>4, <3>1 DEF InJoin
    <3>3. status' = status \/ status' = [status EXCEPT ![t] = "wait_mutex"]
      BY <2>1 DEF Lock, LockFree, LockWait, LockRefused, lock_status
    <3>4. QED
      BY <1>4, <1>b, <3>2, <3>3
  <2>2. ASSUME NEW m \in Mutexes, Unlock(t, m) PROVE status'[u] = "wait_thread"
    <3>1. CASE status' = status
      BY <1>4, <3>1
    <3>2. CASE mutex_waiting[m] # <<>> /\ hand_off(m)
      <4>1. Head(mutex_waiting[m]) \in Range(mutex_waiting[m])
        BY <1>b, <3>2, TailFacts
      <4>2. status[Head(mutex_waiting[m])] = "wait_mutex"
        BY <1>b, <4>1 DEF SafetyInv, StatusSound
      <4>3. status' = [status EXCEPT ![Head(mutex_waiting[m])] = "active"]
        BY <3>2 DEF hand_off, pass_on
      <4>4. QED
        BY <1>4, <1>b, <4>2, <4>3
    <3>3. QED
      BY <2>2, <3>1, <3>2 DEF Unlock
  <2>3. ASSUME NEW m \in Mutexes, Destroy(t, m) PROVE status'[u] = "wait_thread"
    <3>1. CASE DestroyFree(t, m)
      <4>1. \A v \in Range(mutex_waiting[m]) : status[v] = "wait_mutex"
        BY <1>b DEF SafetyInv, StatusSound
      <4>2. QED
        BY <1>4, <3>1, <4>1 DEF DestroyFree
    <3>2. CASE DestroyRefused(t, m)
      BY <1>4, <3>2 DEF DestroyRefused
    <3>3. QED
      BY <2>3, <3>1, <3>2 DEF Destroy
  <2>4. CASE Register(t) \/ Claim(t) \/ \E m \in Mutexes : MutexInit(t, m)
    BY <1>4, <2>4 DEF Register, Claim, MutexInit, fields
  <2>5. QED
    BY <2>1, <2>2, <2>3, <2>4 DEF MutexCall
<1>5. QED
  <2>1. \A u \in TCB : InJoin(u)' => InJoin(u)
    BY <1>3 DEF InJoin
  <2>2. \A u \in TCB : pc'[u] \in {"join_raise", "reap"} => pc[u] \in {"join_raise", "reap"}
    BY <1>3
  <2>3. QED
    BY <1>1, <1>4, <2>1, <2>2, JoinFrame

\* Every step keeps the invariant.
LEMMA DefinedStep == RulesOfUse /\ DefinedInv /\ [Next]_vars => DefinedInv'
<1> SUFFICES ASSUME RulesOfUse, DefinedInv, [Next]_vars PROVE DefinedInv'
  OBVIOUS
<1>1. SafetyInv' /\ SafetyInv
  BY SafetyStep DEF DefinedInv
<1>b. /\ TypeOK /\ IdleBeforeInit /\ Main \in TCB /\ Threads \subseteq TCB
      /\ pc \in [TCB -> Places] /\ status \in [TCB -> Status]
  BY <1>1, Basics
<1>2. ~undefined'
  <2>1. ASSUME NEW t \in TCB, NEW u \in Threads, CreateBeyondLimit(t, u) PROVE FALSE
    <3>1. init /\ pc[u] \in {"new", "reaped"} /\ next_ID >= THREAD_LIM
      BY <1>b, <2>1, RunningIsInit DEF CreateBeyondLimit, Creating, Runs
    <3>2. next_ID < THREAD_LIM
      BY <3>1, IdsSuffice
    <3>3. next_ID \in Int /\ THREAD_LIM \in Int
      <4>1. thread_count \in Nat /\ tid_list \in Seq(Ids)
        BY <1>b DEF TypeOK
      <4>2. QED
        BY <4>1, ConstantsAssumption DEF next_ID, Ids
    <3>4. QED
      BY <3>1, <3>2, <3>3
  <2>2. ASSUME NEW t \in TCB, ReapUndefined(t) PROVE FALSE
    BY <2>2, ReapIsDefined DEF ReapUndefined
  <2>3. ASSUME NEW t \in TCB, Tick(t) \/ ThreadCall(t) \/ Continue(t) PROVE ~undefined'
    BY <2>1, <2>2, <2>3 DEF DefinedInv, Tick, ThreadCall, Continue, Yield, Exit, CreateFails,
       Create, Join, Raise, JoinWait, Reap, Register, Claim
  <2>4. ASSUME NEW t \in TCB, MutexCall(t) PROVE ~undefined'
    BY <2>4 DEF DefinedInv, MutexCall, MutexInit, Lock, Unlock, Destroy
  <2>5. CASE UNCHANGED vars \/ scheduler_init \/ Spin \/ Lost
    BY <2>5 DEF DefinedInv, vars, scheduler_init, Spin, Lost
  <2>6. QED
    BY <2>3, <2>4, <2>5 DEF Next
<1>3. SUFFICES OneJoiner' /\ JoinedStays' /\ WokenByExit' /\ IssuedAreHeld'
  BY <1>1, <1>2 DEF DefinedInv
<1>4. CASE UNCHANGED vars \/ Spin \/ Lost
  <2>1. UNCHANGED <<init, thread_id, thread_table, done, thread_count, tid_list, pc, status>>
    BY <1>4 DEF vars, Spin, Lost, tables, fields, context
  <2>2. QED
    BY <2>1, JoinFrame DEF InJoin
<1>5. CASE scheduler_init
  <2>1. \A t \in TCB : ~InJoin(t)
    BY <1>1, <1>5, NoJoinBeforeInit DEF scheduler_init
  <2>2. \A t \in TCB : ~InJoin(t)'
    BY <1>5, <1>b, <2>1 DEF scheduler_init, InJoin
  <2>3. OneJoiner' /\ JoinedStays' /\ WokenByExit'
    BY <2>2 DEF OneJoiner, JoinedStays, WokenByExit, InJoin
  <2>4. IssuedAreHeld'
    <3>1. thread_count' = 1
      BY <1>5 DEF scheduler_init
    <3>2. \A i \in Ids : ~(1 <= i /\ i < 1)
      BY DEF Ids
    <3>3. QED
      BY <3>1, <3>2 DEF IssuedAreHeld
  <2>5. QED
    BY <2>3, <2>4
<1>6. ASSUME NEW t \in TCB, Tick(t) \/ Raise(t) \/ Yield(t) \/ CreateFails(t) \/ ReapUndefined(t)
      PROVE  OneJoiner' /\ JoinedStays' /\ WokenByExit' /\ IssuedAreHeld'
  <2>1. UNCHANGED <<init, thread_id, thread_table, done, thread_count, tid_list>>
    BY <1>6 DEF Tick, Raise, Yield, CreateFails, ReapUndefined, tables, context
  <2>2. pc' = pc \/ (pc[t] = "join_raise" /\ pc' = [pc EXCEPT ![t] = "reap"])
        \/ \E p \in {"user", "claim", "yield_raise"} : pc' = [pc EXCEPT ![t] = p]
    BY <1>6 DEF Tick, Raise, Yield, CreateFails, ReapUndefined, context, after_raise
  <2>3. \A u \in TCB : InJoin(u)' => InJoin(u)
    BY <1>b, <2>2 DEF InJoin
  <2>4. \A u \in TCB : pc'[u] \in {"join_raise", "reap"} => pc[u] \in {"join_raise", "reap"}
    BY <1>b, <2>2
  <2>5. \A u \in TCB : InJoin(u) /\ status[u] = "wait_thread" => status'[u] = "wait_thread"
    <3>1. CASE Tick(t) \/ Raise(t)
      BY <1>1, <3>1, HandlerKeepsStatus
    <3>2. CASE Yield(t)
      BY <1>b, <3>2 DEF Yield, Runs, InJoin
    <3>3. CASE CreateFails(t) \/ ReapUndefined(t)
      BY <3>3 DEF CreateFails, ReapUndefined, fields
    <3>4. QED
      BY <1>6, <3>1, <3>2, <3>3
  <2>6. QED
    BY <2>1, <2>3, <2>4, <2>5, JoinFrame
<1>7. ASSUME NEW t \in TCB, NEW u \in Threads, CreateBeyondLimit(t, u)
      PROVE  OneJoiner' /\ JoinedStays' /\ WokenByExit' /\ IssuedAreHeld'
  <2>1. UNCHANGED <<init, thread_id, thread_table, done, thread_count, tid_list, pc, status>>
    BY <1>7 DEF CreateBeyondLimit, tables, fields, context
  <2>2. QED
    BY <2>1, JoinFrame DEF InJoin
<1>8. ASSUME NEW t \in TCB, ThreadCall(t)
      PROVE  OneJoiner' /\ JoinedStays' /\ WokenByExit' /\ IssuedAreHeld'
  BY <1>6, <1>7, <1>8, ExitKeepsDefined, CreateKeepsDefined, JoinKeepsDefined DEF ThreadCall
<1>9. ASSUME NEW t \in TCB, Continue(t)
      PROVE  OneJoiner' /\ JoinedStays' /\ WokenByExit' /\ IssuedAreHeld'
  BY <1>6, <1>9, JoinWaitKeepsDefined, ReapKeepsDefined, MutexCallsKeepDefined DEF Continue
<1>10. QED
  BY <1>4, <1>5, <1>6, <1>8, <1>9, MutexCallsKeepDefined DEF Next

\* A client that keeps the rules of use never reaches undefined behaviour: no create
\* writes outside the tables, and no join frees the stack of a live thread or follows
\* an empty entry of the table.
THEOREM NothingUndefinedHolds == ASSUME RulesOfUse PROVE Spec => []NothingUndefined
<1>1. Init => DefinedInv
  <2> SUFFICES ASSUME Init PROVE DefinedInv
    OBVIOUS
  <2>1. SafetyInv
    BY SafetyInit
  <2>2. \A t \in TCB : ~InJoin(t)
    BY DEF Init, InJoin
  <2>3. OneJoiner /\ JoinedStays /\ WokenByExit /\ IssuedAreHeld /\ ~undefined
    BY <2>2 DEF Init, OneJoiner, JoinedStays, WokenByExit, IssuedAreHeld, InJoin
  <2>4. QED
    BY <2>1, <2>3 DEF DefinedInv
<1>2. DefinedInv /\ [Next]_vars => DefinedInv'
  BY DefinedStep
<1>3. DefinedInv => NothingUndefined
  BY DEF DefinedInv, NothingUndefined
<1>4. QED
  BY <1>1, <1>2, <1>3, PTL DEF Spec
=============================================================================
