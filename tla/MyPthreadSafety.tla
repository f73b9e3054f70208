-------------------------- MODULE MyPthreadSafety ---------------------------
(***************************************************************************)
(* Where threads are, and who has a mutex: the safety of MyPthread for     *)
(* every client and any values of its constants.                           *)
(*                                                                         *)
(* None of NowhereTwice, NobodyLost, MutualExclusion and                   *)
(* LockWaitersAreServed is inductive, and they need one another.  An       *)
(* enqueue is of a thread that is nowhere else because its status says     *)
(* where it is (StatusSound): a waiter that unlock wakes is asleep in that *)
(* mutex's queue, a joiner that exit wakes is asleep in join (Joiners).    *)
(* The claim at the end of lock overwrites no other user because a thread  *)
(* that runs again after its wait has been handed the mutex (PlacesSound,  *)
(* MutexesSound).  SafetyInv is these together with the IDs of IdInv,      *)
(* without which exit could wake the joiner of another thread.             *)
(***************************************************************************)
EXTENDS MyPthreadProofs

\* The entries of an array of queues, and that no two places of it hold the same one.
Members(Q, I) == UNION {Range(Q[i]) : i \in I}
Distinct(Q, I) ==
    /\ \A i \in I : IsInjective(Q[i])
    /\ \A i, k \in I : i # k => Range(Q[i]) \cap Range(Q[k]) = {}

\* A structure without a thread that runs on it.
Gone == {"new", "dead", "reaped"}

\* A thread that has not exited is not marked as done, and whoever is registered as the
\* joiner of an ID stands in join for it, asleep until its thread is done.
Joiners ==
    /\ \A t \in TCB : pc[t] \notin Gone => ~done[id[t]]
    /\ \A i \in Ids : waiting[i] # NULL =>
         /\ pc[waiting[i]] \in {"join_raise", "reap"}
         /\ thread_id[waiting[i]] = i
         /\ ~done[i] => status[waiting[i]] = "wait_thread"

\* What the status of a thread says about where it is.
StatusSound ==
    /\ \A t \in Ready : status[t] \in {"active", "yield"} /\ pc[t] \notin Gone
    /\ \A m \in Mutexes : \A t \in Range(mutex_waiting[m]) :
         status[t] = "wait_mutex" /\ pc[t] \in {"lock_raise", "claim"} /\ mutex[t] = m
    /\ \A t \in TCB : /\ status[t] = "wait_mutex" => t \in Blocked
                      /\ status[t] = "thread_exit" => pc[t] \in Gone
                      /\ status[t] = "wait_thread" => pc[t] \in {"join_raise", "reap"}

\* Where threads are.
PlacesSound ==
    /\ Distinct(priority_level, Levels)
    /\ Distinct(mutex_waiting, Mutexes)
    /\ running_thread \notin Ready
    /\ running_thread \in TCB =>
         /\ pc[running_thread] \notin Gone
         /\ status[running_thread] = "wait_mutex" => pc[running_thread] = "lock_raise"
         /\ status[running_thread] = "wait_thread" => pc[running_thread] = "join_raise"
    /\ \A t \in TCB : init /\ pc[t] \notin Gone =>
         t = running_thread \/ t \in Ready \/ t \in Blocked \/ status[t] = "wait_thread"

\* Who has a mutex, and who waits for it.
MutexesSound ==
    /\ \A t \in TCB : pc[t] \in {"lock_raise", "claim"} =>
         status[t] = "wait_mutex" \/ user[mutex[t]] = t
    /\ \A m \in Mutexes :
         /\ user[m] \notin Range(mutex_waiting[m])
         /\ m \notin live => user[m] = NULL
         /\ held[m] \subseteq {user[m]}

SafetyInv == IdInv /\ Joiners /\ StatusSound /\ PlacesSound /\ MutexesSound

-----------------------------------------------------------------------------
\* What appending does to the range of a sequence and to its being free of repetition.
LEMMA AppendFacts ==
    ASSUME NEW S, NEW s \in Seq(S), NEW x \in S
    PROVE  /\ Append(s, x) \in Seq(S)
           /\ Range(Append(s, x)) = Range(s) \cup {x}
           /\ IsInjective(s) /\ x \notin Range(s) => IsInjective(Append(s, x))
<1>1. /\ Append(s, x) \in Seq(S)
      /\ DOMAIN s = 1..Len(s) /\ Len(s) \in Nat
      /\ DOMAIN Append(s, x) = 1..(Len(s) + 1)
      /\ \A i \in 1..Len(s) : Append(s, x)[i] = s[i]
      /\ Append(s, x)[Len(s) + 1] = x
  OBVIOUS
<1>2. Range(Append(s, x)) = Range(s) \cup {x}
  <2>1. \A i \in 1..(Len(s) + 1) : i \in 1..Len(s) \/ i = Len(s) + 1
    BY <1>1
  <2>2. Range(Append(s, x)) \subseteq Range(s) \cup {x}
    BY <1>1, <2>1 DEF Range
  <2>3. \A i \in 1..Len(s) : i \in 1..(Len(s) + 1)
    BY <1>1
  <2>4. Len(s) + 1 \in 1..(Len(s) + 1)
    BY <1>1
  <2>5. QED
    BY <1>1, <2>2, <2>3, <2>4 DEF Range
<1>3. ASSUME IsInjective(s), x \notin Range(s) PROVE IsInjective(Append(s, x))
  <2>1. \A i \in 1..Len(s) : s[i] # x
    BY <1>1, <1>3 DEF Range
  <2>2. QED
    BY <1>1, <1>3, <2>1 DEF IsInjective
<1>4. QED
  BY <1>1, <1>2, <1>3

\* What taking the head off does.
LEMMA TailFacts ==
    ASSUME NEW S, NEW s \in Seq(S), s # <<>>
    PROVE  /\ Head(s) \in Range(s)
           /\ Head(s) \in S
           /\ Tail(s) \in Seq(S)
           /\ Range(Tail(s)) \subseteq Range(s)
           /\ Range(s) \subseteq Range(Tail(s)) \cup {Head(s)}
           /\ IsInjective(s) => IsInjective(Tail(s)) /\ Head(s) \notin Range(Tail(s))
<1>1. /\ DOMAIN s = 1..Len(s) /\ Len(s) \in Nat \ {0}
      /\ Tail(s) \in Seq(S) /\ Head(s) \in S
      /\ DOMAIN Tail(s) = 1..(Len(s) - 1)
      /\ \A i \in 1..(Len(s) - 1) : Tail(s)[i] = s[i + 1]
      /\ Head(s) = s[1]
  OBVIOUS
<1>2. /\ 1 \in 1..Len(s)
      /\ \A i \in 1..(Len(s) - 1) : i + 1 \in 1..Len(s) /\ i + 1 # 1
      /\ \A i \in 1..Len(s) : i = 1 \/ (i - 1 \in 1..(Len(s) - 1) /\ (i - 1) + 1 = i)
  BY <1>1
<1>3. Head(s) \in Range(s) /\ Range(Tail(s)) \subseteq Range(s)
  BY <1>1, <1>2 DEF Range
<1>4. Range(s) \subseteq Range(Tail(s)) \cup {Head(s)}
  <2>1. SUFFICES ASSUME NEW i \in 1..Len(s) PROVE s[i] \in Range(Tail(s)) \cup {Head(s)}
    BY <1>1 DEF Range
  <2>2. CASE i = 1
    BY <1>1, <2>2
  <2>3. CASE i - 1 \in 1..(Len(s) - 1) /\ (i - 1) + 1 = i
    <3>1. Tail(s)[i - 1] = s[i] /\ i - 1 \in DOMAIN Tail(s)
      BY <1>1, <2>3
    <3>2. QED
      BY <3>1 DEF Range
  <2>4. QED
    BY <1>2, <2>2, <2>3
<1>5. ASSUME IsInjective(s) PROVE IsInjective(Tail(s)) /\ Head(s) \notin Range(Tail(s))
  <2>1. \A i, j \in 1..Len(s) : s[i] = s[j] => i = j
    BY <1>1, <1>5 DEF IsInjective
  <2>2. IsInjective(Tail(s))
    <3>1. SUFFICES ASSUME NEW i \in 1..(Len(s) - 1), NEW j \in 1..(Len(s) - 1),
                          Tail(s)[i] = Tail(s)[j]
                   PROVE  i = j
      BY <1>1 DEF IsInjective
    <3>2. i + 1 = j + 1
      BY <1>1, <1>2, <2>1, <3>1
    <3>3. QED
      BY <3>2
  <2>3. \A i \in 1..(Len(s) - 1) : Tail(s)[i] # Head(s)
    BY <1>1, <1>2, <2>1
  <2>4. QED
    BY <1>1, <2>2, <2>3 DEF Range
<1>6. QED
  BY <1>1, <1>3, <1>4, <1>5

\* enqueue of a thread that is in none of the queues keeps them free of repetition.
LEMMA EnqueueFacts ==
    ASSUME NEW I, NEW Q \in [I -> Seq(TCB)], Distinct(Q, I), NEW i \in I, NEW t \in TCB,
           t \notin Members(Q, I)
    PROVE  /\ enqueue(Q, i, t) \in [I -> Seq(TCB)]
           /\ Distinct(enqueue(Q, i, t), I)
           /\ Members(enqueue(Q, i, t), I) = Members(Q, I) \cup {t}
<1> DEFINE R == enqueue(Q, i, t)
<1>1. /\ R \in [I -> Seq(TCB)]
      /\ R[i] = Append(Q[i], t)
      /\ \A k \in I : k # i => R[k] = Q[k]
  BY DEF enqueue
<1>2. \A k \in I : Q[k] \in Seq(TCB) /\ t \notin Range(Q[k]) /\ IsInjective(Q[k])
  BY DEF Members, Distinct
<1>3. Range(R[i]) = Range(Q[i]) \cup {t} /\ IsInjective(R[i])
  BY <1>1, <1>2, AppendFacts
<1> HIDE DEF R
<1>4. Distinct(R, I)
  <2>1. \A k \in I : IsInjective(R[k])
    BY <1>1, <1>2, <1>3
  <2>2. \A k \in I : Range(R[k]) = IF k = i THEN Range(Q[k]) \cup {t} ELSE Range(Q[k])
    BY <1>1, <1>3
  <2>3. \A j, k \in I : j # k => Range(Q[j]) \cap Range(Q[k]) = {}
    BY DEF Distinct
  <2>4. \A j, k \in I : j # k => Range(R[j]) \cap Range(R[k]) = {}
    BY <1>2, <2>2, <2>3
  <2>5. QED
    BY <2>1, <2>4 DEF Distinct
<1>5. Members(R, I) = Members(Q, I) \cup {t}
  BY <1>1, <1>3 DEF Members
<1>6. QED
  BY <1>1, <1>4, <1>5 DEF R

\* An array of queues after get_next on one of them.
Dequeued(Q, i) == [Q EXCEPT ![i] = Tail(@)]

\* get_next takes the thread it returns out of the queues altogether.
LEMMA DequeueFacts ==
    ASSUME NEW I, NEW Q \in [I -> Seq(TCB)], Distinct(Q, I), NEW i \in I, Q[i] # <<>>
    PROVE  /\ Dequeued(Q, i) \in [I -> Seq(TCB)]
           /\ Distinct(Dequeued(Q, i), I)
           /\ Head(Q[i]) \in TCB
           /\ Head(Q[i]) \in Range(Q[i])
           /\ Head(Q[i]) \notin Members(Dequeued(Q, i), I)
           /\ Members(Q, I) = Members(Dequeued(Q, i), I) \cup {Head(Q[i])}
<1> DEFINE R == Dequeued(Q, i)
<1>1. Q[i] \in Seq(TCB) /\ IsInjective(Q[i])
  BY DEF Distinct
<1>2. /\ Head(Q[i]) \in Range(Q[i])
      /\ Head(Q[i]) \in TCB
      /\ Tail(Q[i]) \in Seq(TCB)
      /\ Range(Tail(Q[i])) \subseteq Range(Q[i])
      /\ Range(Q[i]) \subseteq Range(Tail(Q[i])) \cup {Head(Q[i])}
      /\ IsInjective(Tail(Q[i]))
      /\ Head(Q[i]) \notin Range(Tail(Q[i]))
  BY <1>1, TailFacts
<1>3. /\ R \in [I -> Seq(TCB)]
      /\ R[i] = Tail(Q[i])
      /\ \A k \in I : k # i => R[k] = Q[k]
  BY <1>2 DEF Dequeued
<1> HIDE DEF R
<1>4. \A k \in I : Range(R[k]) \subseteq Range(Q[k])
  BY <1>2, <1>3
<1>5. Distinct(R, I)
  BY <1>2, <1>3, <1>4 DEF Distinct
<1>6. \A k \in I : Head(Q[i]) \notin Range(R[k])
  BY <1>2, <1>3 DEF Distinct
<1>7. Head(Q[i]) \notin Members(R, I)
  BY <1>6 DEF Members
<1>8. Members(Q, I) = Members(R, I) \cup {Head(Q[i])}
  <2>1. \A k \in I : Range(Q[k]) \subseteq Range(R[k]) \cup {Head(Q[i])}
    BY <1>2, <1>3
  <2>2. QED
    BY <1>2, <1>4, <2>1 DEF Members
<1>9. QED
  BY <1>2, <1>3, <1>5, <1>7, <1>8 DEF R

-----------------------------------------------------------------------------
\* Ready and Blocked are the members of the two arrays of queues.
LEMMA ReadyIsMembers == Ready = Members(priority_level, Levels)
                        /\ Blocked = Members(mutex_waiting, Mutexes)
BY DEF Ready, Blocked, Members

\* The threads the handler makes ready when it runs for t with the statuses st.
Woken(t, st) ==
    IF st[t] \in {"active", "yield"} THEN {t}
    ELSE IF st[t] = "thread_exit" /\ waiter(t) # NULL THEN {waiter(t)}
    ELSE {}

\* What the handler does, in terms of sets of threads.
HandlerEffect(t, st) ==
    /\ Distinct(priority_level', Levels)
    /\ status' = [u \in TCB |->
                    IF st[t] = "thread_exit" /\ u \in Woken(t, st) THEN "active" ELSE st[u]]
    /\ running_thread' \notin Ready'
    /\ running_thread' \in TCB => running_thread' \in Ready \cup Woken(t, st)
    /\ Ready' \subseteq Ready \cup Woken(t, st)
    /\ Ready \cup Woken(t, st) \subseteq Ready' \cup {running_thread'}

\* The second half of the handler moves one thread from the queues to the processor.
LEMMA RescheduleEffect ==
    ASSUME NEW Q \in [Levels -> Seq(TCB)], Distinct(Q, Levels), NEW st, reschedule(Q, st)
    PROVE  /\ Distinct(priority_level', Levels)
           /\ status' = st
           /\ running_thread' \notin Ready'
           /\ running_thread' \in TCB => running_thread' \in Members(Q, Levels)
           /\ Ready' \subseteq Members(Q, Levels)
           /\ Members(Q, Levels) \subseteq Ready' \cup {running_thread'}
<1>0. Ready' = Members(priority_level', Levels)
  BY ReadyIsMembers DEF Ready, Members
<1>1. status' = st
  BY DEF reschedule
<1>2. CASE \E l \in Levels : /\ Q[l] # <<>>
                            /\ running_thread' = Head(Q[l])
                            /\ priority_level' = [Q EXCEPT ![l] = Tail(@)]
  <2>1. PICK l \in Levels : /\ Q[l] # <<>>
                            /\ running_thread' = Head(Q[l])
                            /\ priority_level' = [Q EXCEPT ![l] = Tail(@)]
    BY <1>2
  <2>2. Distinct(Dequeued(Q, l), Levels)
    BY <2>1, DequeueFacts
  <2>3. Head(Q[l]) \notin Members(Dequeued(Q, l), Levels)
    BY <2>1, DequeueFacts
  <2>4. Members(Q, Levels) = Members(Dequeued(Q, l), Levels) \cup {Head(Q[l])}
    BY <2>1, DequeueFacts
  <2>5. priority_level' = Dequeued(Q, l)
    BY <2>1 DEF Dequeued
  <2>6. QED
    BY <1>0, <1>1, <2>1, <2>2, <2>3, <2>4, <2>5
<1>3. CASE /\ \A l \in Levels : Q[l] = <<>>
           /\ running_thread' = NULL
           /\ priority_level' = Q
  <2>1. Members(Q, Levels) = {}
    BY <1>3 DEF Members, Range
  <2>2. QED
    BY <1>0, <1>1, <1>3, <2>1, ConstantsAssumption DEF TCB
<1>4. QED
  BY <1>2, <1>3 DEF reschedule, select_next

\* The handler makes ready whom it should, and nobody twice, provided that neither the
\* thread it runs for nor the joiner it wakes is ready already.
LEMMA HandlerFacts ==
    ASSUME TypeOK, Distinct(priority_level, Levels), NEW t \in TCB, running_thread = t,
           t \notin Ready, NEW st \in [TCB -> Status], NEW a \in BOOLEAN,
           st[t] = "thread_exit" => waiter(t) \notin Ready,
           scheduler_alarm_handler(t, st, a)
    PROVE  HandlerEffect(t, st)
<1> DEFINE R == Members(priority_level, Levels)
           W == Woken(t, st)
<1>0. /\ Ready = R
      /\ priority_level \in [Levels -> Seq(TCB)]
      /\ priority \in [TCB -> Levels]
      /\ t \notin R
  BY ReadyIsMembers DEF TypeOK
<1>1. ASSUME st[t] # "thread_exit"
      PROVE  st = [u \in TCB |-> IF st[t] = "thread_exit" /\ u \in W THEN "active" ELSE st[u]]
  BY <1>1
<1>2. CASE st[t] = "active" /\ ~slice_over(t)
  <2>1. /\ status' = st
        /\ UNCHANGED <<priority_level, running_thread>>
        /\ W = {t}
    BY <1>2 DEF scheduler_alarm_handler, queues, Woken
  <2>2. Ready' = Ready
    BY <2>1 DEF Ready
  <2>3. QED
    BY <1>0, <1>1, <1>2, <2>1, <2>2 DEF HandlerEffect
<1>3. CASE (st[t] = "active" /\ slice_over(t)) \/ st[t] = "yield"
  <2>1. PICK l \in Levels : reschedule(enqueue(priority_level, l, t), st)
    <3>1. dropped(priority[t]) \in Levels
      BY <1>0, LevelBelow DEF dropped
    <3>2. QED
      BY <1>0, <1>3, <3>1 DEF scheduler_alarm_handler
  <2> DEFINE Q == enqueue(priority_level, l, t)
  <2>2. /\ Q \in [Levels -> Seq(TCB)]
        /\ Distinct(Q, Levels)
        /\ Members(Q, Levels) = R \cup {t}
    <3>1. Q \in [Levels -> Seq(TCB)]
      BY <1>0 DEF enqueue
    <3>2. Distinct(Q, Levels)
      BY <1>0, EnqueueFacts
    <3>3. Members(Q, Levels) = R \cup {t}
      <4>1. priority_level \in [Levels -> Seq(TCB)] /\ t \notin R
        BY <1>0
      <4>2. QED
        BY ONLY <4>1, Distinct(priority_level, Levels), t \in TCB, l \in Levels, EnqueueFacts
    <3>4. QED
      BY <3>1, <3>2, <3>3
  <2> HIDE DEF Q
  <2>3. reschedule(Q, st)
    BY <2>1 DEF Q
  <2>4. W = {t}
    BY <1>3 DEF Woken
  <2>5. QED
    BY <1>0, <1>1, <1>3, <2>2, <2>3, <2>4, RescheduleEffect DEF HandlerEffect
<1>4. CASE \/ st[t] \in {"wait_mutex", "wait_thread"}
           \/ st[t] = "thread_exit" /\ waiter(t) = NULL
  <2>1. reschedule(priority_level, st)
    BY <1>4 DEF scheduler_alarm_handler
  <2>2. W = {}
    BY <1>4 DEF Woken
  <2>3. st = [u \in TCB |-> IF st[t] = "thread_exit" /\ u \in W THEN "active" ELSE st[u]]
    BY <2>2
  <2>4. QED
    BY <1>0, <2>1, <2>2, <2>3, RescheduleEffect DEF HandlerEffect
<1>5. CASE st[t] = "thread_exit" /\ waiter(t) # NULL
  <2>1. waiter(t) \in TCB /\ waiter(t) \notin R
    BY <1>0, <1>5 DEF waiter, TypeOK
  <2> DEFINE Q  == enqueue(priority_level, priority[waiter(t)], waiter(t))
             s2 == [st EXCEPT ![waiter(t)] = "active"]
  <2>2. /\ Q \in [Levels -> Seq(TCB)]
        /\ Distinct(Q, Levels)
        /\ Members(Q, Levels) = R \cup {waiter(t)}
    <3>1. priority[waiter(t)] \in Levels
      BY <1>0, <2>1
    <3>2. Q \in [Levels -> Seq(TCB)]
      BY <1>0, <2>1, <3>1 DEF enqueue
    <3>3. Distinct(Q, Levels)
      BY <1>0, <2>1, <3>1, EnqueueFacts
    <3>4. Members(Q, Levels) = R \cup {waiter(t)}
      <4>1. priority_level \in [Levels -> Seq(TCB)] /\ waiter(t) \in TCB /\ waiter(t) \notin R
        BY <1>0, <2>1
      <4>2. QED
        BY ONLY <3>1, <4>1, Distinct(priority_level, Levels), EnqueueFacts
    <3>5. QED
      BY <3>2, <3>3, <3>4
  <2>3. reschedule(Q, s2)
    BY <1>5 DEF scheduler_alarm_handler
  <2>4. W = {waiter(t)}
    BY <1>5 DEF Woken
  <2>5. s2 = [u \in TCB |-> IF st[t] = "thread_exit" /\ u \in W THEN "active" ELSE st[u]]
    BY <1>5, <2>4
  <2> HIDE DEF Q, s2
  <2>6. QED
    BY <1>0, <2>2, <2>3, <2>4, <2>5, RescheduleEffect DEF HandlerEffect
<1>6. QED
  BY <1>2, <1>3, <1>4, <1>5 DEF Status

-----------------------------------------------------------------------------
\* The initial state satisfies the invariant.
LEMMA SafetyInit == Init => SafetyInv
<1> SUFFICES ASSUME Init PROVE SafetyInv
  OBVIOUS
<1>1. IdInv
  BY IdInit
<1>2. /\ Ready = {} /\ Blocked = {}
      /\ \A l \in Levels : Range(priority_level[l]) = {} /\ IsInjective(priority_level[l])
      /\ \A m \in Mutexes : Range(mutex_waiting[m]) = {} /\ IsInjective(mutex_waiting[m])
  BY DEF Init, Ready, Blocked, Range, IsInjective
<1>3. /\ NULL \notin TCB
      /\ \A t \in TCB : status[t] = "active" /\ pc[t] \in {"user", "new"}
  BY ConstantsAssumption DEF Init, TCB
<1>4. Joiners
  <2>1. \A t \in TCB : id[t] = 0 /\ 0 \in Ids
    BY ConstantsAssumption DEF Init, Ids
  <2>2. QED
    BY <2>1 DEF Init, Joiners
<1>5. StatusSound
  BY <1>2, <1>3 DEF StatusSound
<1>6. PlacesSound
  BY <1>2, <1>3 DEF Init, PlacesSound, Distinct
<1>7. MutexesSound
  BY <1>2, <1>3 DEF Init, MutexesSound
<1>8. QED
  BY <1>1, <1>4, <1>5, <1>6, <1>7 DEF SafetyInv

\* Types and memberships that most steps below use.
LEMMA Basics ==
    ASSUME SafetyInv
    PROVE  /\ TypeOK /\ TypeInv /\ IdleBeforeInit
           /\ Main \in TCB /\ Threads \subseteq TCB /\ NULL \notin TCB
           /\ pc \in [TCB -> Places] /\ status \in [TCB -> Status]
           /\ mutex \in [TCB -> Mutexes \cup {NULL}]
           /\ Ready \subseteq TCB /\ Blocked \subseteq TCB
           /\ \A m \in Mutexes : Range(mutex_waiting[m]) \subseteq Blocked
<1>1. TypeOK /\ TypeInv /\ IdleBeforeInit
  BY DEF SafetyInv, IdInv, TypeInv
<1>2. /\ Main \in TCB /\ Threads \subseteq TCB /\ NULL \notin TCB
      /\ pc \in [TCB -> Places] /\ status \in [TCB -> Status]
      /\ mutex \in [TCB -> Mutexes \cup {NULL}]
  BY <1>1, ConstantsAssumption DEF TypeOK, TCB
<1>3. Ready \subseteq TCB
  BY <1>1 DEF TypeOK, Ready, Range
<1>4. Blocked \subseteq TCB
  BY <1>1 DEF TypeOK, Blocked, Range
<1>5. \A m \in Mutexes : Range(mutex_waiting[m]) \subseteq Blocked
  BY DEF Blocked
<1>6. QED
  BY <1>1, <1>2, <1>3, <1>4, <1>5

\* A thread outside the waiting paths of lock and join, or running on them after it was
\* woken, is active or yields.
LEMMA Awake ==
    ASSUME SafetyInv, NEW t \in TCB, pc[t] \notin Gone,
           \/ pc[t] \notin {"lock_raise", "join_raise", "claim", "reap"}
           \/ running_thread = t /\ pc[t] \notin {"lock_raise", "join_raise"}
    PROVE  status[t] \in {"active", "yield"} /\ t \notin Blocked
<1>1. status[t] \in Status
  BY Basics
<1>2. status[t] # "thread_exit"
  BY DEF SafetyInv, StatusSound
<1>3. status[t] # "wait_thread"
  BY DEF SafetyInv, StatusSound, PlacesSound
<1>4. t \in Blocked => status[t] = "wait_mutex" /\ pc[t] \in {"lock_raise", "claim"}
  BY DEF SafetyInv, StatusSound, Blocked
<1>5. status[t] # "wait_mutex"
  BY <1>4 DEF SafetyInv, StatusSound, PlacesSound
<1>6. QED
  BY <1>1, <1>2, <1>3, <1>4, <1>5 DEF Status

\* Steps that move threads between places where they are awake, or among those without
\* a thread, and leave the queues and statuses alone.
LEMMA QuietStep ==
    ASSUME SafetyInv,
           UNCHANGED <<init, running_thread, priority_level, mutex_waiting, status>>,
           \A u \in TCB :
             \/ pc'[u] = pc[u] /\ mutex'[u] = mutex[u]
             \/ /\ status[u] \in {"active", "yield"}
                /\ pc[u] \notin Gone
                /\ pc'[u] \notin Gone \cup {"lock_raise", "claim", "join_raise"}
             \/ pc[u] \in Gone /\ pc'[u] \in Gone
    PROVE  StatusSound' /\ PlacesSound'
<1>1. Ready' = Ready /\ Blocked' = Blocked
  BY DEF Ready, Blocked
<1>b. /\ Ready \subseteq TCB /\ Blocked \subseteq TCB
      /\ \A m \in Mutexes : Range(mutex_waiting[m]) \subseteq Blocked
  BY Basics
<1>2. \A u \in TCB : pc'[u] \in Gone <=> pc[u] \in Gone
  OBVIOUS
<1>3. StatusSound'
  <2>1. \A u \in Ready : status[u] \in {"active", "yield"} /\ pc'[u] \notin Gone
    BY <1>2, <1>b DEF SafetyInv, StatusSound
  <2>2. ASSUME NEW m \in Mutexes, NEW u \in Range(mutex_waiting[m])
        PROVE  status[u] = "wait_mutex" /\ pc'[u] \in {"lock_raise", "claim"} /\ mutex'[u] = m
    <3>1. u \in TCB /\ status[u] = "wait_mutex" /\ pc[u] \in {"lock_raise", "claim"}
          /\ mutex[u] = m
      BY <1>b, <2>2 DEF SafetyInv, StatusSound
    <3>2. pc'[u] = pc[u] /\ mutex'[u] = mutex[u]
      BY <3>1 DEF Gone
    <3>3. QED
      BY <3>1, <3>2
  <2>3. ASSUME NEW u \in TCB
        PROVE  /\ status[u] = "wait_mutex" => u \in Blocked
               /\ status[u] = "thread_exit" => pc'[u] \in Gone
               /\ status[u] = "wait_thread" => pc'[u] \in {"join_raise", "reap"}
    BY <1>2 DEF SafetyInv, StatusSound, Gone
  <2>4. QED
    BY <1>1, <2>1, <2>2, <2>3 DEF StatusSound
<1>4. PlacesSound'
  <2>1. ASSUME running_thread \in TCB
        PROVE  /\ pc'[running_thread] \notin Gone
               /\ status[running_thread] = "wait_mutex" => pc'[running_thread] = "lock_raise"
               /\ status[running_thread] = "wait_thread" => pc'[running_thread] = "join_raise"
    BY <1>2, <2>1 DEF SafetyInv, PlacesSound
  <2>2. QED
    BY <1>1, <1>2, <2>1 DEF SafetyInv, PlacesSound
<1>5. QED
  BY <1>3, <1>4

\* The handler entered by a thread that has not exited: it gives up the processor or
\* keeps it, and its place is that of the same call.
LEMMA SwitchStep ==
    ASSUME SafetyInv, NEW t \in TCB, running_thread = t, NEW a \in BOOLEAN,
           scheduler_alarm_handler(t, status, a),
           UNCHANGED <<init, mutex_waiting, mutex>>,
           \A u \in TCB : u # t => pc'[u] = pc[u],
           pc'[t] \notin Gone,
           pc[t] = "lock_raise" => pc'[t] \in {"lock_raise", "claim"},
           pc[t] = "join_raise" => pc'[t] \in {"join_raise", "reap"}
    PROVE  StatusSound' /\ PlacesSound' /\ status' = status
<1>b. /\ Ready \subseteq TCB /\ Blocked \subseteq TCB /\ status \in [TCB -> Status]
      /\ \A m \in Mutexes : Range(mutex_waiting[m]) \subseteq Blocked
      /\ TypeOK
  BY Basics
<1>1. /\ Distinct(priority_level, Levels) /\ t \notin Ready /\ pc[t] \notin Gone
      /\ status[t] # "thread_exit"
      /\ status[t] = "wait_mutex" => pc[t] = "lock_raise"
      /\ status[t] = "wait_thread" => pc[t] = "join_raise"
  BY DEF SafetyInv, PlacesSound, StatusSound
<1>2. HandlerEffect(t, status)
  BY <1>b, <1>1, HandlerFacts
<1>3. status' = status
  BY <1>b, <1>1, <1>2 DEF HandlerEffect
<1> DEFINE W == Woken(t, status)
<1>4. W = IF status[t] \in {"active", "yield"} THEN {t} ELSE {}
  BY <1>1 DEF Woken
<1> HIDE DEF W
<1>5. /\ Distinct(priority_level', Levels)
      /\ running_thread' \notin Ready'
      /\ running_thread' \in TCB => running_thread' \in Ready \cup W
      /\ Ready' \subseteq Ready \cup W
      /\ Ready \cup W \subseteq Ready' \cup {running_thread'}
  BY <1>2 DEF HandlerEffect, W
<1>6. Blocked' = Blocked
  BY DEF Blocked
<1>7. \A u \in TCB : pc'[u] \in Gone <=> pc[u] \in Gone
  BY <1>1
<1>8. \A u \in Ready \cup W : u \in TCB /\ status[u] \in {"active", "yield"} /\ pc'[u] \notin Gone
  BY <1>b, <1>4, <1>7 DEF SafetyInv, StatusSound
<1>9. StatusSound'
  <2>1. \A u \in Ready' : status[u] \in {"active", "yield"} /\ pc'[u] \notin Gone
    BY <1>5, <1>8
  <2>2. ASSUME NEW m \in Mutexes, NEW u \in Range(mutex_waiting[m])
        PROVE  status[u] = "wait_mutex" /\ pc'[u] \in {"lock_raise", "claim"} /\ mutex[u] = m
    <3>1. u \in TCB /\ status[u] = "wait_mutex" /\ pc[u] \in {"lock_raise", "claim"}
          /\ mutex[u] = m
      BY <1>b, <2>2 DEF SafetyInv, StatusSound
    <3>2. QED
      BY <1>1, <3>1
  <2>3. ASSUME NEW u \in TCB
        PROVE  /\ status[u] = "wait_mutex" => u \in Blocked
               /\ status[u] = "thread_exit" => pc'[u] \in Gone
               /\ status[u] = "wait_thread" => pc'[u] \in {"join_raise", "reap"}
    <3>1. /\ status[u] = "wait_mutex" => u \in Blocked
          /\ status[u] = "thread_exit" => pc[u] \in Gone
          /\ status[u] = "wait_thread" => pc[u] \in {"join_raise", "reap"}
      BY DEF SafetyInv, StatusSound
    <3>2. QED
      BY <1>1, <1>7, <3>1
  <2>4. QED
    BY <1>3, <1>6, <2>1, <2>2, <2>3 DEF StatusSound
<1>10. PlacesSound'
  <2>1. ASSUME running_thread' \in TCB
        PROVE  /\ pc'[running_thread'] \notin Gone
               /\ status[running_thread'] \in {"active", "yield"}
    BY <1>5, <1>8, <2>1
  <2>2. ASSUME NEW u \in TCB, init, pc'[u] \notin Gone
        PROVE  u = running_thread' \/ u \in Ready' \/ u \in Blocked \/ status[u] = "wait_thread"
    <3>1. u = t \/ u \in Ready \/ u \in Blocked \/ status[u] = "wait_thread"
      BY <1>7, <2>2 DEF SafetyInv, PlacesSound
    <3>2. status[t] \in {"active", "yield"} \/ status[t] = "wait_thread" \/ t \in Blocked
      BY <1>b, <1>1 DEF SafetyInv, StatusSound, Status
    <3>3. QED
      BY <1>4, <1>5, <3>1, <3>2
  <2>3. Distinct(mutex_waiting, Mutexes)
    BY DEF SafetyInv, PlacesSound
  <2>4. QED
    BY <1>3, <1>5, <1>6, <2>1, <2>2, <2>3 DEF PlacesSound
<1>11. QED
  BY <1>3, <1>9, <1>10

\* Steps that leave the joiners' records, and the threads in join, as they are.
LEMMA JoinersFrame ==
    ASSUME SafetyInv, UNCHANGED <<done, waiting, id>>,
           \A u \in TCB : pc'[u] \notin Gone => pc[u] \notin Gone,
           \A u \in TCB : pc[u] \in {"join_raise", "reap"} =>
             /\ pc'[u] \in {"join_raise", "reap"}
             /\ thread_id'[u] = thread_id[u]
             /\ status'[u] = status[u]
    PROVE  Joiners'
<1>1. \A i \in Ids : waiting[i] # NULL => waiting[i] \in TCB
  BY Basics DEF TypeOK
<1>2. QED
  BY <1>1 DEF SafetyInv, Joiners

\* Steps that leave the mutexes, and the threads in lock, as they are.
LEMMA MutexesFrame ==
    ASSUME SafetyInv, UNCHANGED <<user, mutex_waiting, held>>, live \subseteq live',
           \A u \in TCB : pc'[u] \in {"lock_raise", "claim"} =>
             /\ pc[u] \in {"lock_raise", "claim"}
             /\ mutex'[u] = mutex[u]
             /\ status[u] = "wait_mutex" => status'[u] = "wait_mutex"
    PROVE  MutexesSound'
BY DEF SafetyInv, MutexesSound

\* No two threads share an ID.
LEMMA IdsDiffer ==
    ASSUME SafetyInv, NEW t \in TCB, NEW u \in TCB, pc[t] \notin {"new", "reaped"},
           pc[u] \notin {"new", "reaped"}, id[t] = id[u]
    PROVE  t = u
<1>1. \A v \in TCB : v = Main \/ v \in Threads
  BY DEF TCB
<1>2. id[Main] = 0
  BY DEF SafetyInv, IdInv, MainKeepsId
<1>3. \A v \in Threads : pc[v] \notin {"new", "reaped"} => thread_table[id[v]] = v /\ 1 <= id[v]
  BY DEF SafetyInv, IdInv, TableSound
<1>4. QED
  BY <1>1, <1>2, <1>3

\* The timer's ticks keep the invariant.
LEMMA TickStep ==
    ASSUME SafetyInv, NEW t \in TCB, Tick(t)
    PROVE  Joiners' /\ StatusSound' /\ PlacesSound' /\ MutexesSound'
<1>1. /\ running_thread = t /\ armed \in BOOLEAN
      /\ scheduler_alarm_handler(t, status, armed)
      /\ UNCHANGED <<init, mutex_waiting, mutex, pc, thread_id, done, waiting, id, user, held,
                     live>>
  BY Basics DEF Tick, Running, tables, mutexes, context, TypeOK
<1>2. pc[t] \notin Gone
  BY <1>1 DEF SafetyInv, PlacesSound
<1>3. StatusSound' /\ PlacesSound' /\ status' = status
  BY <1>1, <1>2, SwitchStep
<1>4. Joiners'
  BY <1>1, <1>3, JoinersFrame
<1>5. MutexesSound'
  BY <1>1, <1>3, MutexesFrame
<1>6. QED
  BY <1>3, <1>4, <1>5

\* So do the signals that yield, lock and join raise.
LEMMA RaiseStep ==
    ASSUME SafetyInv, NEW t \in TCB, Raise(t)
    PROVE  Joiners' /\ StatusSound' /\ PlacesSound' /\ MutexesSound'
<1>1. /\ running_thread = t /\ armed \in BOOLEAN
      /\ scheduler_alarm_handler(t, status, armed)
      /\ UNCHANGED <<init, mutex_waiting, mutex, thread_id, done, waiting, id, user, held, live>>
  BY Basics DEF Raise, Running, tables, mutexes, TypeOK
<1>2. /\ pc[t] \in {"yield_raise", "lock_raise", "join_raise"}
      /\ pc' = [pc EXCEPT ![t] = after_raise[pc[t]]]
  BY DEF Raise, after_raise
<1>3. after_raise[pc[t]] = CASE pc[t] = "yield_raise" -> "user"
                             [] pc[t] = "lock_raise"  -> "claim"
                             [] pc[t] = "join_raise"  -> "reap"
  BY <1>2 DEF after_raise
<1>4. /\ \A u \in TCB : u # t => pc'[u] = pc[u]
      /\ pc[t] = "yield_raise" => pc'[t] = "user"
      /\ pc[t] = "lock_raise" => pc'[t] = "claim"
      /\ pc[t] = "join_raise" => pc'[t] = "reap"
  BY <1>2, <1>3, Basics

<1>5. pc'[t] \notin Gone
  BY <1>2, <1>4 DEF Gone
<1>6. StatusSound' /\ PlacesSound' /\ status' = status
  BY <1>1, <1>4, <1>5, SwitchStep
<1>7. Joiners'
  <2>1. \A u \in TCB : pc'[u] \notin Gone => pc[u] \notin Gone
    BY <1>2, <1>4 DEF Gone
  <2>2. \A u \in TCB : pc[u] \in {"join_raise", "reap"} => pc'[u] \in {"join_raise", "reap"}
    BY <1>2, <1>4
  <2>3. QED
    BY <1>1, <1>6, <2>1, <2>2, JoinersFrame
<1>8. MutexesSound'
  <2>1. \A u \in TCB : pc'[u] \in {"lock_raise", "claim"} => pc[u] \in {"lock_raise", "claim"}
    BY <1>2, <1>4
  <2>2. QED
    BY <1>1, <1>6, <2>1, MutexesFrame
<1>9. QED
  BY <1>6, <1>7, <1>8

\* exit: the thread leaves the scheduler, and its joiner, asleep until now, becomes ready.
LEMMA ExitStep ==
    ASSUME SafetyInv, NEW t \in TCB, Exit(t)
    PROVE  Joiners' /\ StatusSound' /\ PlacesSound' /\ MutexesSound'
<1> DEFINE st == [status EXCEPT ![t] = "thread_exit"]
           w  == waiting[id[t]]
<1>b. /\ Ready \subseteq TCB /\ Blocked \subseteq TCB /\ status \in [TCB -> Status]
      /\ \A m \in Mutexes : Range(mutex_waiting[m]) \subseteq Blocked
      /\ TypeOK /\ NULL \notin TCB /\ pc \in [TCB -> Places]
  BY Basics
<1>1. /\ running_thread = t /\ pc[t] = "user"
      /\ scheduler_alarm_handler(t, st, FALSE)
      /\ pc' = [pc EXCEPT ![t] = "dead"]
      /\ done' = [done EXCEPT ![id[t]] = TRUE]
      /\ UNCHANGED <<init, mutex_waiting, mutex, thread_id, waiting, id, user, held, live>>
  BY DEF Exit, Runs, Running, mutexes
<1>2. st \in [TCB -> Status] /\ id[t] \in Ids /\ w \in TCB \cup {NULL}
  BY <1>b DEF TypeOK, Status
<1>3. ~done[id[t]] /\ pc[t] \notin Gone
  BY <1>1 DEF SafetyInv, Joiners, Gone
<1>4. w # NULL => /\ pc[w] \in {"join_raise", "reap"} /\ thread_id[w] = id[t]
                  /\ status[w] = "wait_thread"
  BY <1>2, <1>3 DEF SafetyInv, Joiners
<1>5. w \notin Ready /\ w \notin Blocked
  BY <1>b, <1>4 DEF SafetyInv, StatusSound, Blocked
<1>6. Distinct(priority_level, Levels) /\ t \notin Ready
  BY <1>1 DEF SafetyInv, PlacesSound
<1>7. HandlerEffect(t, st)
  BY <1>b, <1>1, <1>2, <1>5, <1>6, HandlerFacts DEF waiter
<1> DEFINE W == Woken(t, st)
<1>8. W = IF w # NULL THEN {w} ELSE {}
  BY <1>b DEF Woken, waiter
<1>9. status' = [u \in TCB |-> IF u \in W THEN "active" ELSE st[u]]
  BY <1>b, <1>7 DEF HandlerEffect
<1>10. /\ Distinct(priority_level', Levels)
       /\ running_thread' \notin Ready'
       /\ running_thread' \in TCB => running_thread' \in Ready \cup W
       /\ Ready' \subseteq Ready \cup W
       /\ Ready \cup W \subseteq Ready' \cup {running_thread'}
  BY <1>7 DEF HandlerEffect
<1> HIDE DEF W
<1>11. /\ \A u \in TCB : u \notin W /\ u # t => status'[u] = status[u]
       /\ \A u \in TCB : u # t => pc'[u] = pc[u]
       /\ \A u \in W : u \in TCB /\ u = w /\ u # t /\ status'[u] = "active"
       /\ status'[t] = "thread_exit" /\ pc'[t] = "dead"
  BY <1>b, <1>1, <1>2, <1>4, <1>8, <1>9
<1> HIDE DEF w, st
<1>12. Blocked' = Blocked
  BY <1>1 DEF Blocked
<1>13. \A u \in Ready \cup W : /\ u \in TCB /\ status'[u] \in {"active", "yield"}
                               /\ pc'[u] \notin Gone
  <2>1. \A u \in Ready : u \in TCB /\ u # t /\ status[u] \in {"active", "yield"}
                         /\ pc[u] \notin Gone
    BY <1>b, <1>6 DEF SafetyInv, StatusSound
  <2>2. \A u \in W : pc[u] \notin Gone
    BY <1>4, <1>8 DEF Gone
  <2>3. QED
    BY <1>11, <2>1, <2>2
<1>14. StatusSound'
  <2>1. \A u \in Ready' : status'[u] \in {"active", "yield"} /\ pc'[u] \notin Gone
    BY <1>10, <1>13
  <2>2. ASSUME NEW m \in Mutexes, NEW u \in Range(mutex_waiting[m])
        PROVE  status'[u] = "wait_mutex" /\ pc'[u] \in {"lock_raise", "claim"} /\ mutex[u] = m
    <3>1. /\ u \in TCB /\ u \in Blocked /\ status[u] = "wait_mutex"
          /\ pc[u] \in {"lock_raise", "claim"} /\ mutex[u] = m
      BY <1>b, <2>2 DEF SafetyInv, StatusSound
    <3>2. u # t /\ u \notin W
      BY <1>1, <1>5, <1>11, <3>1
    <3>3. QED
      BY <1>11, <3>1, <3>2
  <2>3. ASSUME NEW u \in TCB
        PROVE  /\ status'[u] = "wait_mutex" => u \in Blocked
               /\ status'[u] = "thread_exit" => pc'[u] \in Gone
               /\ status'[u] = "wait_thread" => pc'[u] \in {"join_raise", "reap"}
    <3>1. CASE u = t
      BY <1>11, <3>1 DEF Gone
    <3>2. CASE u \in W
      BY <1>11, <3>2
    <3>3. CASE u # t /\ u \notin W
      BY <1>11, <3>3 DEF SafetyInv, StatusSound
    <3>4. QED
      BY <3>1, <3>2, <3>3
  <2>4. QED
    BY <1>1, <1>12, <2>1, <2>2, <2>3 DEF StatusSound
<1>15. PlacesSound'
  <2>1. ASSUME running_thread' \in TCB
        PROVE  pc'[running_thread'] \notin Gone /\ status'[running_thread'] \in {"active", "yield"}
    BY <1>10, <1>13, <2>1
  <2>2. ASSUME NEW u \in TCB, init, pc'[u] \notin Gone
        PROVE  u = running_thread' \/ u \in Ready' \/ u \in Blocked \/ status'[u] = "wait_thread"
    <3>1. u # t /\ pc[u] \notin Gone
      BY <1>11, <2>2 DEF Gone
    <3>2. u \in Ready \/ u \in Blocked \/ status[u] = "wait_thread"
      BY <1>1, <2>2, <3>1 DEF SafetyInv, PlacesSound
    <3>3. QED
      BY <1>10, <1>11, <3>1, <3>2
  <2>3. Distinct(mutex_waiting, Mutexes)
    BY DEF SafetyInv, PlacesSound
  <2>4. QED
    BY <1>1, <1>10, <1>12, <2>1, <2>2, <2>3 DEF PlacesSound
<1>16. Joiners'
  <2>1. ASSUME NEW u \in TCB, pc'[u] \notin Gone PROVE ~done'[id[u]]
    <3>1. u # t /\ pc[u] \notin Gone
      BY <1>11, <2>1 DEF Gone
    <3>2. id[u] # id[t]
      BY <1>3, <3>1, IdsDiffer DEF Gone
    <3>3. ~done[id[u]] /\ id[u] \in Ids
      BY <1>b, <3>1 DEF SafetyInv, Joiners, TypeOK
    <3>4. QED
      BY <1>1, <1>b, <3>2, <3>3 DEF TypeOK
  <2>2. ASSUME NEW i \in Ids, waiting[i] # NULL
        PROVE  /\ pc'[waiting[i]] \in {"join_raise", "reap"}
               /\ thread_id[waiting[i]] = i
               /\ ~done'[i] => status'[waiting[i]] = "wait_thread"
    <3>1. /\ waiting[i] \in TCB
          /\ pc[waiting[i]] \in {"join_raise", "reap"}
          /\ thread_id[waiting[i]] = i
          /\ ~done[i] => status[waiting[i]] = "wait_thread"
      BY <1>b, <2>2 DEF SafetyInv, Joiners, TypeOK
    <3>2. waiting[i] # t
      BY <1>1, <3>1
    <3>3. CASE i = id[t]
      <4>1. done'[i]
        BY <1>1, <1>b, <3>3 DEF TypeOK
      <4>2. QED
        BY <1>11, <3>1, <3>2, <4>1
    <3>4. CASE i # id[t]
      <4>1. done'[i] = done[i]
        BY <1>1, <1>b, <3>4 DEF TypeOK
      <4>2. waiting[i] \notin W
        BY <1>2, <1>4, <1>b, <1>11, <3>1, <3>4
      <4>3. QED
        BY <1>11, <3>1, <3>2, <4>1, <4>2
    <3>5. QED
      BY <3>3, <3>4
  <2>3. QED
    BY <1>1, <2>1, <2>2 DEF Joiners
<1>17. MutexesSound'
  <2>1. ASSUME NEW u \in TCB, pc'[u] \in {"lock_raise", "claim"}
        PROVE  /\ pc[u] \in {"lock_raise", "claim"}
               /\ status[u] = "wait_mutex" => status'[u] = "wait_mutex"
    <3>1. u # t /\ pc[u] = pc'[u]
      BY <1>11, <2>1
    <3>2. u \notin W
      BY <1>4, <1>8, <1>b, <1>11, <2>1, <3>1
    <3>3. QED
      BY <1>11, <2>1, <3>1, <3>2
  <2>2. QED
    BY <1>1, <2>1, MutexesFrame
<1>18. QED
  BY <1>14, <1>15, <1>16, <1>17

\* create: the new thread was nowhere, and becomes ready.
LEMMA CreateStep ==
    ASSUME SafetyInv, NEW t \in TCB, NEW new \in Threads, Create(t, new)
    PROVE  Joiners' /\ StatusSound' /\ PlacesSound' /\ MutexesSound'
<1>b. /\ Ready \subseteq TCB /\ Blocked \subseteq TCB /\ status \in [TCB -> Status]
      /\ \A m \in Mutexes : Range(mutex_waiting[m]) \subseteq Blocked
      /\ TypeOK /\ NULL \notin TCB /\ pc \in [TCB -> Places] /\ new \in TCB
  BY Basics
<1>1. /\ running_thread = t /\ pc[t] \in {"create", "user"} /\ pc[new] \in {"new", "reaped"}
      /\ status' = [status EXCEPT ![new] = "active"]
      /\ pc' = [pc EXCEPT ![t] = "user", ![new] = "user"]
      /\ id' = [id EXCEPT ![new] = next_ID]
      /\ done' = [done EXCEPT ![next_ID] = FALSE]
      /\ waiting' = [waiting EXCEPT ![next_ID] = NULL]
      /\ priority_level' = enqueue(priority_level, 0, new)
      /\ UNCHANGED <<init, running_thread, mutex_waiting, mutex, thread_id, user, held, live>>
  BY DEF Create, Creating, Runs, Running, mutexes
<1>2. next_ID \in Ids /\ 0 \in Levels
  <2>1. thread_count \in Nat /\ tid_list \in Seq(Ids) /\ next_ID < THREAD_LIM
    BY <1>b DEF Create, TypeOK
  <2>2. QED
    BY <2>1, ConstantsAssumption DEF next_ID, Ids, Levels
<1>3. new # t /\ pc[new] \in Gone /\ pc[t] \notin Gone
  BY <1>1 DEF Gone
<1>4. new \notin Ready /\ new \notin Blocked
  BY <1>3 DEF SafetyInv, StatusSound, Blocked, Gone
<1>5. Distinct(priority_level', Levels)
  BY <1>1, <1>2, <1>4, <1>b, EnqueueFacts, ReadyIsMembers DEF SafetyInv, PlacesSound, TypeOK
<1>6. Ready' = Ready \cup {new}
  <2>1. /\ priority_level \in [Levels -> Seq(TCB)] /\ Distinct(priority_level, Levels)
        /\ new \notin Members(priority_level, Levels)
    BY <1>4, <1>b, ReadyIsMembers DEF SafetyInv, PlacesSound, TypeOK
  <2>2. Members(enqueue(priority_level, 0, new), Levels)
          = Members(priority_level, Levels) \cup {new}
    BY ONLY <1>2, <1>b, <2>1, EnqueueFacts
  <2>3. Ready' = Members(priority_level', Levels)
    BY ReadyIsMembers DEF Ready, Members
  <2>4. QED
    BY <1>1, <2>2, <2>3, ReadyIsMembers
<1>7. Blocked' = Blocked
  BY <1>1 DEF Blocked
<1>8. /\ \A u \in TCB : u # new => status'[u] = status[u]
      /\ \A u \in TCB : u # new /\ u # t => pc'[u] = pc[u]
      /\ status'[new] = "active" /\ pc'[new] = "user" /\ pc'[t] = "user"
  BY <1>1, <1>3, <1>b
<1>9. \A u \in TCB : u # new => (pc'[u] \in Gone <=> pc[u] \in Gone)
  BY <1>3, <1>8 DEF Gone
<1>10. StatusSound'
  <2>1. \A u \in Ready' : status'[u] \in {"active", "yield"} /\ pc'[u] \notin Gone
    <3>1. ASSUME NEW u \in Ready PROVE status'[u] \in {"active", "yield"} /\ pc'[u] \notin Gone
      BY <1>4, <1>8, <1>9, <1>b, <3>1 DEF SafetyInv, StatusSound
    <3>2. QED
      BY <1>6, <1>8, <3>1 DEF Gone
  <2>2. ASSUME NEW m \in Mutexes, NEW u \in Range(mutex_waiting[m])
        PROVE  status'[u] = "wait_mutex" /\ pc'[u] \in {"lock_raise", "claim"} /\ mutex[u] = m
    <3>1. /\ u \in TCB /\ u \in Blocked /\ status[u] = "wait_mutex"
          /\ pc[u] \in {"lock_raise", "claim"} /\ mutex[u] = m
      BY <1>b, <2>2 DEF SafetyInv, StatusSound
    <3>2. u # t /\ u # new
      BY <1>1, <3>1
    <3>3. QED
      BY <1>8, <3>1, <3>2
  <2>3. ASSUME NEW u \in TCB
        PROVE  /\ status'[u] = "wait_mutex" => u \in Blocked
               /\ status'[u] = "thread_exit" => pc'[u] \in Gone
               /\ status'[u] = "wait_thread" => pc'[u] \in {"join_raise", "reap"}
    <3>1. CASE u = new
      BY <1>8, <3>1
    <3>2. CASE u # new
      <4>1. /\ status[u] = "wait_mutex" => u \in Blocked
            /\ status[u] = "thread_exit" => pc[u] \in Gone
            /\ status[u] = "wait_thread" => pc[u] \in {"join_raise", "reap"}
        BY DEF SafetyInv, StatusSound
      <4>2. QED
        BY <1>1, <1>8, <1>9, <3>2, <4>1
    <3>3. QED
      BY <3>1, <3>2
  <2>4. UNCHANGED <<mutex_waiting, mutex>>
    BY <1>1
  <2>5. QED
    BY <1>7, <2>1, <2>2, <2>3, <2>4 DEF StatusSound
<1>11. PlacesSound'
  <2>1. t \notin Ready' /\ status'[t] \in {"active", "yield"} /\ pc'[t] \notin Gone
    <3>1. t \notin Ready
      BY <1>1 DEF SafetyInv, PlacesSound
    <3>2. status[t] \in {"active", "yield"}
      BY <1>1, <1>3, Awake
    <3>3. QED
      BY <1>3, <1>6, <1>8, <3>1, <3>2 DEF Gone
  <2>2. ASSUME NEW u \in TCB, init, pc'[u] \notin Gone
        PROVE  u = running_thread \/ u \in Ready' \/ u \in Blocked \/ status'[u] = "wait_thread"
    BY <1>6, <1>8, <1>9, <2>2 DEF SafetyInv, PlacesSound
  <2>3. Distinct(mutex_waiting, Mutexes)
    BY DEF SafetyInv, PlacesSound
  <2>4. QED
    BY <1>1, <1>5, <1>7, <2>1, <2>2, <2>3 DEF PlacesSound
<1>12. Joiners'
  <2>1. ASSUME NEW u \in TCB, pc'[u] \notin Gone PROVE ~done'[id'[u]]
    <3>1. CASE u = new
      <4>1. id'[u] = next_ID
        BY <1>1, <1>b, <3>1 DEF TypeOK
      <4>2. QED
        BY <1>1, <1>2, <1>b, <4>1 DEF TypeOK
    <3>2. CASE u # new
      <4>1. id'[u] = id[u] /\ id[u] \in Ids
        BY <1>1, <1>b, <3>2 DEF TypeOK
      <4>2. ~done[id[u]]
        BY <1>9, <2>1, <3>2 DEF SafetyInv, Joiners
      <4>3. QED
        BY <1>1, <1>2, <1>b, <4>1, <4>2 DEF TypeOK
    <3>3. QED
      BY <3>1, <3>2
  <2>2. ASSUME NEW i \in Ids, waiting'[i] # NULL
        PROVE  /\ pc'[waiting'[i]] \in {"join_raise", "reap"}
               /\ thread_id[waiting'[i]] = i
               /\ ~done'[i] => status'[waiting'[i]] = "wait_thread"
    <3>1. i # next_ID /\ waiting'[i] = waiting[i] /\ done'[i] = done[i] /\ waiting[i] \in TCB
      BY <1>1, <1>2, <1>b, <2>2 DEF TypeOK
    <3>2. /\ pc[waiting[i]] \in {"join_raise", "reap"}
          /\ thread_id[waiting[i]] = i
          /\ ~done[i] => status[waiting[i]] = "wait_thread"
      BY <2>2, <3>1 DEF SafetyInv, Joiners
    <3>3. waiting[i] # t /\ waiting[i] # new
      BY <1>1, <3>2
    <3>4. QED
      BY <1>8, <3>1, <3>2, <3>3
  <2>3. QED
    BY <1>1, <2>1, <2>2 DEF Joiners
<1>13. MutexesSound'
  <2>1. \A u \in TCB : pc'[u] \in {"lock_raise", "claim"} =>
          pc[u] \in {"lock_raise", "claim"} /\ status'[u] = status[u]
    BY <1>8
  <2>2. QED
    BY <1>1, <2>1, MutexesFrame
<1>14. QED
  BY <1>10, <1>11, <1>12, <1>13

\* yield and the wait in join change the status of the running thread, and nobody else's.
LEMMA OwnStatusStep ==
    ASSUME SafetyInv, NEW t \in TCB, running_thread = t, pc[t] \in {"user", "join_wait"},
           UNCHANGED <<init, running_thread, priority_level, mutex_waiting, mutex>>,
           NEW s, NEW p, \/ s = "yield" /\ p = "yield_raise"
                         \/ s = "wait_thread" /\ p = "join_raise",
           status' = [status EXCEPT ![t] = s],
           pc' = [pc EXCEPT ![t] = p]
    PROVE  StatusSound' /\ PlacesSound'
<1>b. /\ Ready \subseteq TCB /\ Blocked \subseteq TCB /\ status \in [TCB -> Status]
      /\ \A m \in Mutexes : Range(mutex_waiting[m]) \subseteq Blocked
      /\ pc \in [TCB -> Places]
  BY Basics
<1>1. Ready' = Ready /\ Blocked' = Blocked
  BY DEF Ready, Blocked
<1>2. /\ \A u \in TCB : u # t => status'[u] = status[u] /\ pc'[u] = pc[u]
      /\ status'[t] = s /\ pc'[t] = p
      /\ pc[t] \notin Gone /\ p \notin Gone
  BY <1>b DEF Gone
<1>3. t \notin Ready /\ t \notin Blocked
  BY <1>2, Awake DEF SafetyInv, PlacesSound
<1>4. StatusSound'
  <2>1. \A u \in Ready : status'[u] \in {"active", "yield"} /\ pc'[u] \notin Gone
    BY <1>2, <1>3, <1>b DEF SafetyInv, StatusSound
  <2>2. \A m \in Mutexes : \A u \in Range(mutex_waiting[m]) :
          status'[u] = "wait_mutex" /\ pc'[u] \in {"lock_raise", "claim"} /\ mutex[u] = m
    BY <1>2, <1>3, <1>b DEF SafetyInv, StatusSound
  <2>3. \A u \in TCB : /\ status'[u] = "wait_mutex" => u \in Blocked
                       /\ status'[u] = "thread_exit" => pc'[u] \in Gone
                       /\ status'[u] = "wait_thread" => pc'[u] \in {"join_raise", "reap"}
    BY <1>2 DEF SafetyInv, StatusSound
  <2>4. QED
    BY <1>1, <2>1, <2>2, <2>3 DEF StatusSound
<1>5. PlacesSound'
  <2>1. \A u \in TCB : init /\ pc'[u] \notin Gone =>
          u = t \/ u \in Ready \/ u \in Blocked \/ status'[u] = "wait_thread"
    BY <1>2 DEF SafetyInv, PlacesSound
  <2>2. QED
    BY <1>1, <1>2, <1>3, <2>1 DEF SafetyInv, PlacesSound
<1>6. QED
  BY <1>4, <1>5

\* my_pthread_yield keeps the invariant.
LEMMA YieldStep ==
    ASSUME SafetyInv, NEW t \in TCB, Yield(t)
    PROVE  Joiners' /\ StatusSound' /\ PlacesSound' /\ MutexesSound'
<1>1. /\ running_thread = t /\ pc[t] = "user"
      /\ status' = [status EXCEPT ![t] = "yield"]
      /\ pc' = [pc EXCEPT ![t] = "yield_raise"]
      /\ UNCHANGED <<init, running_thread, priority_level, mutex_waiting, mutex, thread_id,
                     done, waiting, id, user, held, live>>
  BY DEF Yield, Runs, Running, queues, tables, mutexes
<1>2. StatusSound' /\ PlacesSound'
  BY <1>1, OwnStatusStep
<1>3. /\ \A u \in TCB : u # t => status'[u] = status[u] /\ pc'[u] = pc[u]
      /\ pc'[t] = "yield_raise" /\ pc[t] \notin Gone
  BY <1>1, Basics DEF Gone
<1>4. Joiners'
  BY <1>1, <1>3, JoinersFrame
<1>5. MutexesSound'
  BY <1>1, <1>3, MutexesFrame
<1>6. QED
  BY <1>2, <1>4, <1>5

\* So does join when it registers itself as the waiter of a thread.
LEMMA JoinWaitStep ==
    ASSUME SafetyInv, NEW t \in TCB, JoinWait(t)
    PROVE  Joiners' /\ StatusSound' /\ PlacesSound' /\ MutexesSound'
<1>1. /\ running_thread = t /\ pc[t] = "join_wait"
      /\ status' = [status EXCEPT ![t] = "wait_thread"]
      /\ pc' = [pc EXCEPT ![t] = "join_raise"]
      /\ waiting' = [waiting EXCEPT ![thread_id[t]] = t]
      /\ UNCHANGED <<init, running_thread, priority_level, mutex_waiting, mutex, thread_id,
                     done, id, user, held, live>>
  BY DEF JoinWait, join_status, Runs, Running, queues, mutexes
<1>2. StatusSound' /\ PlacesSound'
  BY <1>1, OwnStatusStep
<1>3. /\ \A u \in TCB : u # t => status'[u] = status[u] /\ pc'[u] = pc[u]
      /\ pc'[t] = "join_raise" /\ pc[t] \notin Gone /\ status'[t] = "wait_thread"
  BY <1>1, Basics DEF Gone
<1>4. Joiners'
  <2>1. waiting \in [Ids -> TCB \cup {NULL}] /\ thread_id[t] \in Ids
    BY Basics DEF TypeOK
  <2>2. \A u \in TCB : pc'[u] \notin Gone => ~done[id[u]]
    BY <1>3 DEF SafetyInv, Joiners
  <2>3. ASSUME NEW i \in Ids, waiting'[i] # NULL
        PROVE  /\ pc'[waiting'[i]] \in {"join_raise", "reap"}
               /\ thread_id[waiting'[i]] = i
               /\ ~done[i] => status'[waiting'[i]] = "wait_thread"
    <3>1. CASE i = thread_id[t]
      <4>1. waiting'[i] = t
        BY <1>1, <2>1, <3>1
      <4>2. QED
        BY <1>3, <3>1, <4>1
    <3>2. CASE i # thread_id[t]
      <4>1. waiting'[i] = waiting[i] /\ waiting[i] \in TCB
        BY <1>1, <2>1, <2>3, <3>2
      <4>2. /\ pc[waiting[i]] \in {"join_raise", "reap"}
            /\ thread_id[waiting[i]] = i
            /\ ~done[i] => status[waiting[i]] = "wait_thread"
        BY <2>3, <4>1 DEF SafetyInv, Joiners
      <4>3. QED
        BY <1>1, <1>3, <4>1, <4>2
    <3>3. QED
      BY <3>1, <3>2
  <2>4. QED
    BY <1>1, <2>2, <2>3 DEF Joiners
<1>5. MutexesSound'
  BY <1>1, <1>3, MutexesFrame
<1>6. QED
  BY <1>2, <1>4, <1>5

\* A failing create and the entry of join move one thread, which is awake.
LEMMA PlaceStep ==
    ASSUME SafetyInv, NEW t \in TCB, CreateFails(t) \/ (\E u \in Threads : Join(t, u))
    PROVE  Joiners' /\ StatusSound' /\ PlacesSound' /\ MutexesSound'
<1>1. /\ running_thread = t /\ pc[t] \in {"user", "create"}
      /\ \E p \in {"user", "join_wait", "reap"} : pc' = [pc EXCEPT ![t] = p]
      /\ UNCHANGED <<init, running_thread, priority_level, mutex_waiting, mutex, status,
                     done, waiting, id, user, held, live>>
  BY DEF CreateFails, Creating, Join, Runs, Running, queues, tables, fields, mutexes
<1>2. \A u \in TCB : u # t => thread_id'[u] = thread_id[u]
  BY Basics DEF CreateFails, Join, TypeOK
<1>3. /\ \A u \in TCB : u # t => pc'[u] = pc[u]
      /\ pc'[t] \in {"user", "join_wait", "reap"}
      /\ pc[t] \notin Gone /\ pc'[t] \notin Gone
  BY <1>1, Basics DEF Gone
<1>4. status[t] \in {"active", "yield"}
  BY <1>1, <1>3, Awake
<1>5. StatusSound' /\ PlacesSound'
  BY <1>1, <1>3, <1>4, QuietStep
<1>6. Joiners'
  BY <1>1, <1>2, <1>3, JoinersFrame
<1>7. MutexesSound'
  BY <1>1, <1>3, MutexesFrame
<1>8. QED
  BY <1>5, <1>6, <1>7

\* The clean-up of join ends the call of the thread that makes it, and the record of the
\* waiter with it.
LEMMA ReapStep ==
    ASSUME SafetyInv, NEW t \in TCB, Reap(t)
    PROVE  Joiners' /\ StatusSound' /\ PlacesSound' /\ MutexesSound'
<1> DEFINE i == thread_id[t]
           d == thread_table[i]
<1>1. /\ running_thread = t /\ pc[t] = "reap" /\ pc[d] = "dead" /\ d # NULL
      /\ pc' = [pc EXCEPT ![t] = "user", ![d] = "reaped"]
      /\ waiting' = [waiting EXCEPT ![i] = NULL]
      /\ thread_id' = [thread_id EXCEPT ![t] = 0]
      /\ UNCHANGED <<init, running_thread, priority_level, mutex_waiting, mutex, status,
                     done, id, user, held, live>>
  BY DEF Reap, Runs, Running, queues, tables, fields, mutexes
<1>2. /\ i \in Ids /\ d \in TCB
      /\ waiting \in [Ids -> TCB \cup {NULL}] /\ thread_id \in [TCB -> Ids]
  BY <1>1, Basics DEF TypeOK
<1> HIDE DEF d
<1>3. /\ \A u \in TCB : u # t /\ u # d => pc'[u] = pc[u]
      /\ \A u \in TCB : u # t => thread_id'[u] = thread_id[u]
      /\ pc'[t] = "user" /\ pc'[d] = "reaped" /\ d # t
      /\ pc[t] \notin Gone /\ pc'[t] \notin Gone /\ pc[d] \in Gone /\ pc'[d] \in Gone
  BY <1>1, <1>2, Basics DEF Gone
<1>4. status[t] \in {"active", "yield"}
  BY <1>1, <1>3, Awake
<1>5. StatusSound' /\ PlacesSound'
  BY <1>1, <1>3, <1>4, QuietStep
<1>6. Joiners'
  <2>1. \A u \in TCB : pc'[u] \notin Gone => ~done[id[u]]
    BY <1>3 DEF SafetyInv, Joiners
  <2>2. ASSUME NEW j \in Ids, waiting'[j] # NULL
        PROVE  /\ pc'[waiting'[j]] \in {"join_raise", "reap"}
               /\ thread_id'[waiting'[j]] = j
               /\ ~done[j] => status[waiting'[j]] = "wait_thread"
    <3>1. j # i /\ waiting'[j] = waiting[j] /\ waiting[j] \in TCB
      BY <1>1, <1>2, <2>2
    <3>2. /\ pc[waiting[j]] \in {"join_raise", "reap"}
          /\ thread_id[waiting[j]] = j
          /\ ~done[j] => status[waiting[j]] = "wait_thread"
      BY <2>2, <3>1 DEF SafetyInv, Joiners
    <3>3. waiting[j] # t /\ waiting[j] # d
      BY <1>1, <3>1, <3>2
    <3>4. QED
      BY <1>3, <3>1, <3>2, <3>3
  <2>3. QED
    BY <1>1, <2>1, <2>2 DEF Joiners
<1>7. MutexesSound'
  BY <1>1, <1>3, MutexesFrame
<1>8. QED
  BY <1>5, <1>6, <1>7

\* mutex_init: a mutex that is not in use has no user and nobody in its queue, so the new
\* queue and the cleared user change nothing.
LEMMA MutexInitStep ==
    ASSUME SafetyInv, NEW t \in TCB, NEW m \in Mutexes, MutexInit(t, m)
    PROVE  Joiners' /\ StatusSound' /\ PlacesSound' /\ MutexesSound'
<1>1. /\ pc[t] = "user" /\ m \notin live
      /\ mutex_waiting' = [mutex_waiting EXCEPT ![m] = <<>>]
      /\ user' = user \/ user' = [user EXCEPT ![m] = NULL]
      /\ live \subseteq live'
      /\ UNCHANGED <<init, running_thread, priority_level, status, done, waiting, id,
                     thread_id, held>>
  BY DEF MutexInit, Caller, Runs, queues, tables, fields, context
<1>2. UNCHANGED <<pc, mutex>> \/ (/\ pc' = [pc EXCEPT ![t] = "register"]
                                  /\ mutex' = [mutex EXCEPT ![t] = m])
  BY DEF MutexInit, context
<1>3. user[m] = NULL /\ mutex_waiting[m] = <<>>
  BY <1>1, Basics DEF SafetyInv, MutexesSound, TypeInv, IdleMutexHasNoWaiters
<1>4. user' = user /\ mutex_waiting' = mutex_waiting
  BY <1>1, <1>3, Basics DEF TypeOK
<1>5. \A u \in TCB : \/ pc'[u] = pc[u] /\ mutex'[u] = mutex[u]
                     \/ u = t /\ pc'[u] = "register"
  BY <1>2, Basics
<1>6. status[t] \in {"active", "yield"} /\ pc[t] \notin Gone
  <2>1. pc[t] \notin Gone
    BY <1>1 DEF Gone
  <2>2. QED
    BY <1>1, <2>1, Awake
<1>7. StatusSound' /\ PlacesSound'
  <2>1. \A u \in TCB :
             \/ pc'[u] = pc[u] /\ mutex'[u] = mutex[u]
             \/ /\ status[u] \in {"active", "yield"}
                /\ pc[u] \notin Gone
                /\ pc'[u] \notin Gone \cup {"lock_raise", "claim", "join_raise"}
    BY <1>5, <1>6 DEF Gone
  <2>2. QED
    BY <1>1, <1>4, <2>1, QuietStep
<1>8. Joiners'
  BY <1>1, <1>5, <1>6, JoinersFrame
<1>9. MutexesSound'
  BY <1>1, <1>4, <1>5, MutexesFrame
<1>10. QED
  BY <1>7, <1>8, <1>9

\* Its end, which fills the slot and makes the mutex usable.
LEMMA RegisterStep ==
    ASSUME SafetyInv, NEW t \in TCB, Register(t)
    PROVE  Joiners' /\ StatusSound' /\ PlacesSound' /\ MutexesSound'
<1>1. /\ pc[t] = "register"
      /\ pc' = [pc EXCEPT ![t] = "user"]
      /\ mutex' = [mutex EXCEPT ![t] = NULL]
      /\ live \subseteq live'
      /\ UNCHANGED <<init, running_thread, priority_level, mutex_waiting, user, status, done,
                     waiting, id, thread_id, held>>
  BY DEF Register, Caller, Runs, queues, tables, fields
<1>2. /\ \A u \in TCB : u # t => pc'[u] = pc[u] /\ mutex'[u] = mutex[u]
      /\ pc'[t] = "user" /\ pc[t] \notin Gone /\ pc'[t] \notin Gone
  BY <1>1, Basics DEF Gone
<1>3. status[t] \in {"active", "yield"}
  BY <1>1, <1>2, Awake
<1>4. StatusSound' /\ PlacesSound'
  BY <1>1, <1>2, <1>3, QuietStep
<1>5. Joiners'
  BY <1>1, <1>2, JoinersFrame
<1>6. MutexesSound'
  BY <1>1, <1>2, MutexesFrame
<1>7. QED
  BY <1>4, <1>5, <1>6

\* lock of a free mutex makes the caller its user and only holder.
LEMMA LockFreeStep ==
    ASSUME SafetyInv, NEW t \in TCB, NEW m \in Mutexes, Lock(t, m), LockFree(t, m)
    PROVE  Joiners' /\ StatusSound' /\ PlacesSound' /\ MutexesSound'
<1>1. /\ running_thread = t /\ pc[t] = "user" /\ m \in live /\ user[m] = NULL
      /\ user' = [user EXCEPT ![m] = t]
      /\ held' = [held EXCEPT ![m] = held[m] \cup {t}]
      /\ UNCHANGED <<init, running_thread, priority_level, mutex_waiting, status, done,
                     waiting, id, thread_id, live, pc, mutex>>
  BY DEF Lock, LockFree, Runs, Running, queues, tables
<1>2. StatusSound' /\ PlacesSound'
  BY <1>1, QuietStep
<1>3. Joiners'
  BY <1>1, JoinersFrame
<1>4. MutexesSound'
  <2>1. /\ user \in [Mutexes -> TCB \cup {NULL}] /\ held \in [Mutexes -> SUBSET TCB]
        /\ NULL \notin TCB /\ mutex_waiting[m] = <<>>
    BY <1>1, Basics DEF TypeOK, TypeInv, IdleMutexHasNoWaiters
  <2>2. held[m] = {}
    <3>1. held[m] \subseteq {NULL} /\ held[m] \subseteq TCB
      BY <1>1, <2>1 DEF SafetyInv, MutexesSound
    <3>2. QED
      BY <2>1, <3>1
  <2>3. /\ user'[m] = t /\ held'[m] = {t}
        /\ \A n \in Mutexes : n # m => user'[n] = user[n] /\ held'[n] = held[n]
    BY <1>1, <2>1, <2>2
  <2>4. ASSUME NEW u \in TCB, pc[u] \in {"lock_raise", "claim"}
        PROVE  status[u] = "wait_mutex" \/ user'[mutex[u]] = u
    <3>1. mutex[u] \in Mutexes
      BY <2>4, Basics DEF TypeInv, LocalsOK
    <3>2. status[u] = "wait_mutex" \/ user[mutex[u]] = u
      BY <2>4 DEF SafetyInv, MutexesSound
    <3>3. QED
      BY <1>1, <2>1, <2>3, <3>1, <3>2
  <2>5. Range(mutex_waiting[m]) = {}
    BY <2>1 DEF Range
  <2>6. \A n \in Mutexes : /\ user'[n] \notin Range(mutex_waiting[n])
                           /\ n \notin live => user'[n] = NULL
                           /\ held'[n] \subseteq {user'[n]}
    BY <1>1, <2>3, <2>5 DEF SafetyInv, MutexesSound
  <2>7. QED
    BY <1>1, <2>4, <2>6 DEF MutexesSound
<1>5. QED
  BY <1>2, <1>3, <1>4

\* The claim of a mutex after the wait in lock: the thread that gets here has been handed
\* the mutex, so claiming it overwrites nobody.
LEMMA ClaimStep ==
    ASSUME SafetyInv, NEW t \in TCB, Claim(t)
    PROVE  Joiners' /\ StatusSound' /\ PlacesSound' /\ MutexesSound' /\ user' = user
<1> DEFINE m == mutex[t]
<1>1. /\ running_thread = t /\ pc[t] = "claim"
      /\ user' = [user EXCEPT ![m] = t]
      /\ held' = [held EXCEPT ![m] = held[m] \cup {t}]
      /\ pc' = [pc EXCEPT ![t] = "user"]
      /\ mutex' = [mutex EXCEPT ![t] = NULL]
      /\ UNCHANGED <<init, running_thread, priority_level, mutex_waiting, status, done,
                     waiting, id, thread_id, live>>
  BY DEF Claim, Runs, Running, queues, tables, fields
<1>2. /\ m \in Mutexes
      /\ user \in [Mutexes -> TCB \cup {NULL}] /\ held \in [Mutexes -> SUBSET TCB]
  BY <1>1, Basics DEF TypeOK, TypeInv, LocalsOK
<1>3. /\ \A u \in TCB : u # t => pc'[u] = pc[u] /\ mutex'[u] = mutex[u]
      /\ pc'[t] = "user" /\ pc[t] \notin Gone /\ pc'[t] \notin Gone
  BY <1>1, Basics DEF Gone
<1>4. status[t] \in {"active", "yield"}
  BY <1>1, <1>3, Awake
<1>5. user[m] = t
  BY <1>1, <1>4 DEF SafetyInv, MutexesSound
<1> HIDE DEF m
<1>6. user' = user
  BY <1>1, <1>2, <1>5
<1>7. StatusSound' /\ PlacesSound'
  BY <1>1, <1>3, <1>4, QuietStep
<1>8. Joiners'
  BY <1>1, <1>3, JoinersFrame
<1>9. MutexesSound'
  <2>1. \A n \in Mutexes : held'[n] \subseteq {user[n]}
    <3>1. \A n \in Mutexes : held[n] \subseteq {user[n]}
      BY DEF SafetyInv, MutexesSound
    <3>2. \A n \in Mutexes : held'[n] = IF n = m THEN held[n] \cup {t} ELSE held[n]
      BY <1>1, <1>2
    <3>3. QED
      BY <1>5, <3>1, <3>2
  <2>2. \A u \in TCB : pc'[u] \in {"lock_raise", "claim"} =>
          pc[u] \in {"lock_raise", "claim"} /\ mutex'[u] = mutex[u]
    BY <1>3
  <2>3. QED
    BY <1>1, <1>6, <2>1, <2>2 DEF SafetyInv, MutexesSound
<1>10. QED
  BY <1>6, <1>7, <1>8, <1>9

\* lock of a mutex another thread has: the caller, nowhere else, joins its queue.
LEMMA LockWaitStep ==
    ASSUME SafetyInv, NEW t \in TCB, NEW m \in Mutexes, Lock(t, m), LockWait(t, m)
    PROVE  Joiners' /\ StatusSound' /\ PlacesSound' /\ MutexesSound'
<1>b. /\ Ready \subseteq TCB /\ Blocked \subseteq TCB /\ status \in [TCB -> Status]
      /\ \A n \in Mutexes : Range(mutex_waiting[n]) \subseteq Blocked
      /\ TypeOK /\ pc \in [TCB -> Places] /\ mutex_waiting \in [Mutexes -> Seq(TCB)]
  BY Basics DEF TypeOK
<1>1. /\ running_thread = t /\ pc[t] = "user" /\ user[m] \notin {NULL, t}
      /\ mutex_waiting' = enqueue(mutex_waiting, m, t)
      /\ status' = [status EXCEPT ![t] = "wait_mutex"]
      /\ pc' = [pc EXCEPT ![t] = "lock_raise"]
      /\ mutex' = [mutex EXCEPT ![t] = m]
      /\ UNCHANGED <<init, running_thread, priority_level, done, waiting, id, thread_id, live,
                     user, held>>
  BY DEF Lock, LockWait, lock_status, Runs, Running, queues, tables
<1>2. /\ \A u \in TCB : u # t => /\ status'[u] = status[u] /\ pc'[u] = pc[u]
                                 /\ mutex'[u] = mutex[u]
      /\ status'[t] = "wait_mutex" /\ pc'[t] = "lock_raise" /\ mutex'[t] = m
      /\ pc[t] \notin Gone /\ pc'[t] \notin Gone
  BY <1>1, <1>b DEF Gone, TypeOK
<1>3. t \notin Blocked /\ t \notin Ready
  BY <1>1, <1>2, Awake DEF SafetyInv, PlacesSound
<1>4. Distinct(mutex_waiting, Mutexes) /\ t \notin Members(mutex_waiting, Mutexes)
  BY <1>3, ReadyIsMembers DEF SafetyInv, PlacesSound
<1>5. Distinct(mutex_waiting', Mutexes)
  BY <1>1, <1>4, <1>b, EnqueueFacts
<1>6. \A n \in Mutexes : Range(mutex_waiting'[n]) =
         IF n = m THEN Range(mutex_waiting[n]) \cup {t} ELSE Range(mutex_waiting[n])
  <2>1. /\ mutex_waiting'[m] = Append(mutex_waiting[m], t)
        /\ \A n \in Mutexes : n # m => mutex_waiting'[n] = mutex_waiting[n]
    BY <1>1, <1>b DEF enqueue
  <2>2. Range(Append(mutex_waiting[m], t)) = Range(mutex_waiting[m]) \cup {t}
    BY <1>b, AppendFacts
  <2>3. QED
    BY <2>1, <2>2
<1>7. Blocked' = Blocked \cup {t}
  <2>1. Members(enqueue(mutex_waiting, m, t), Mutexes) = Members(mutex_waiting, Mutexes) \cup {t}
    BY ONLY <1>4, <1>b, t \in TCB, m \in Mutexes, EnqueueFacts
  <2>2. Blocked' = Members(mutex_waiting', Mutexes)
    BY DEF Blocked, Members
  <2>3. QED
    BY <1>1, <2>1, <2>2, ReadyIsMembers
<1>8. Ready' = Ready
  BY <1>1 DEF Ready
<1>9. StatusSound'
  <2>1. \A u \in Ready : status'[u] \in {"active", "yield"} /\ pc'[u] \notin Gone
    BY <1>2, <1>3, <1>b DEF SafetyInv, StatusSound
  <2>2. ASSUME NEW n \in Mutexes, NEW u \in Range(mutex_waiting'[n])
        PROVE  /\ status'[u] = "wait_mutex" /\ pc'[u] \in {"lock_raise", "claim"}
               /\ mutex'[u] = n
    <3>1. CASE u = t
      BY <1>2, <1>3, <1>6, <1>b, <3>1
    <3>2. CASE u # t
      <4>1. u \in Range(mutex_waiting[n]) /\ u \in TCB
        BY <1>6, <1>b, <3>2
      <4>2. status[u] = "wait_mutex" /\ pc[u] \in {"lock_raise", "claim"} /\ mutex[u] = n
        BY <4>1 DEF SafetyInv, StatusSound
      <4>3. QED
        BY <1>2, <3>2, <4>1, <4>2
    <3>3. QED
      BY <3>1, <3>2
  <2>3. \A u \in TCB : /\ status'[u] = "wait_mutex" => u \in Blocked'
                       /\ status'[u] = "thread_exit" => pc'[u] \in Gone
                       /\ status'[u] = "wait_thread" => pc'[u] \in {"join_raise", "reap"}
    BY <1>2, <1>7 DEF SafetyInv, StatusSound
  <2>4. QED
    BY <1>8, <2>1, <2>2, <2>3 DEF StatusSound
<1>10. PlacesSound'
  <2>1. \A u \in TCB : init /\ pc'[u] \notin Gone =>
          u = t \/ u \in Ready \/ u \in Blocked \/ status'[u] = "wait_thread"
    BY <1>1, <1>2 DEF SafetyInv, PlacesSound
  <2>2. UNCHANGED <<init, running_thread, priority_level>> /\ Distinct(priority_level, Levels)
    BY <1>1 DEF SafetyInv, PlacesSound
  <2>3. QED
    BY <1>1, <1>2, <1>3, <1>5, <1>7, <1>8, <2>1, <2>2 DEF PlacesSound
<1>11. Joiners'
  BY <1>1, <1>2, JoinersFrame
<1>12. MutexesSound'
  <2>1. \A u \in TCB : pc'[u] \in {"lock_raise", "claim"} =>
          status'[u] = "wait_mutex" \/ user[mutex'[u]] = u
    BY <1>2 DEF SafetyInv, MutexesSound
  <2>2. ASSUME NEW n \in Mutexes PROVE user[n] \notin Range(mutex_waiting'[n])
    <3>1. user[n] \notin Range(mutex_waiting[n])
      BY DEF SafetyInv, MutexesSound
    <3>2. CASE n = m
      BY <1>1, <1>6, <3>1, <3>2
    <3>3. CASE n # m
      BY <1>6, <3>1, <3>3
    <3>4. QED
      BY <3>2, <3>3
  <2>3. UNCHANGED <<user, held, live>>
    BY <1>1
  <2>4. QED
    BY <2>1, <2>2, <2>3 DEF SafetyInv, MutexesSound
<1>13. QED
  BY <1>9, <1>10, <1>11, <1>12

\* unlock of a mutex with waiters: the first in line, asleep in lock, becomes its user,
\* leaves the queue of the mutex and becomes ready.
LEMMA HandOffStep ==
    ASSUME SafetyInv, NEW t \in TCB, NEW m \in Mutexes, Unlock(t, m), user[m] = t,
           mutex_waiting[m] # <<>>
    PROVE  Joiners' /\ StatusSound' /\ PlacesSound' /\ MutexesSound'
<1> DEFINE next == Head(mutex_waiting[m])
<1>b. /\ Ready \subseteq TCB /\ Blocked \subseteq TCB /\ status \in [TCB -> Status]
      /\ \A n \in Mutexes : Range(mutex_waiting[n]) \subseteq Blocked
      /\ TypeOK /\ NULL \notin TCB /\ mutex_waiting \in [Mutexes -> Seq(TCB)]
      /\ priority_level \in [Levels -> Seq(TCB)] /\ priority \in [TCB -> Levels]
  BY Basics DEF TypeOK
<1>1. /\ running_thread = t /\ pc[t] = "user" /\ m \in live
      /\ user' = [user EXCEPT ![m] = next]
      /\ mutex_waiting' = Dequeued(mutex_waiting, m)
      /\ status' = [status EXCEPT ![next] = "active"]
      /\ priority_level' = enqueue(priority_level, priority[next], next)
      /\ held' = [held EXCEPT ![m] = held[m] \ {t}]
      /\ UNCHANGED <<init, running_thread, done, waiting, id, thread_id, live, pc, mutex>>
  BY DEF Unlock, hand_off, pass_on, Dequeued, Runs, Running, tables, context
<1>2. Distinct(mutex_waiting, Mutexes) /\ Distinct(priority_level, Levels)
  BY DEF SafetyInv, PlacesSound
<1>3. next \in TCB /\ next \in Range(mutex_waiting[m])
  BY <1>2, <1>b, DequeueFacts
<1>4. Distinct(mutex_waiting', Mutexes)
  BY <1>1, <1>2, <1>b, DequeueFacts
<1>5. Blocked = Blocked' \cup {next} /\ next \notin Blocked'
  <2>1. /\ Members(mutex_waiting, Mutexes) = Members(Dequeued(mutex_waiting, m), Mutexes)
                                               \cup {Head(mutex_waiting[m])}
        /\ Head(mutex_waiting[m]) \notin Members(Dequeued(mutex_waiting, m), Mutexes)
    <3>1. mutex_waiting \in [Mutexes -> Seq(TCB)] /\ Distinct(mutex_waiting, Mutexes)
      BY <1>2, <1>b
    <3>2. Members(mutex_waiting, Mutexes) = Members(Dequeued(mutex_waiting, m), Mutexes)
                                              \cup {Head(mutex_waiting[m])}
      BY ONLY <3>1, m \in Mutexes, mutex_waiting[m] # <<>>, DequeueFacts
    <3>3. Head(mutex_waiting[m]) \notin Members(Dequeued(mutex_waiting, m), Mutexes)
      BY ONLY <3>1, m \in Mutexes, mutex_waiting[m] # <<>>, DequeueFacts
    <3>4. QED
      BY <3>2, <3>3
  <2>2. Blocked' = Members(mutex_waiting', Mutexes)
    BY DEF Blocked, Members
  <2>3. QED
    BY <1>1, <2>1, <2>2, ReadyIsMembers
<1>6. /\ status[next] = "wait_mutex" /\ pc[next] \in {"lock_raise", "claim"}
      /\ mutex[next] = m /\ next # t /\ next \notin Ready
  BY <1>1, <1>3 DEF SafetyInv, StatusSound
<1>7. \A n \in Mutexes : Range(mutex_waiting'[n]) \subseteq Range(mutex_waiting[n])
  <2>1. /\ mutex_waiting'[m] = Tail(mutex_waiting[m])
        /\ \A n \in Mutexes : n # m => mutex_waiting'[n] = mutex_waiting[n]
    BY <1>1, <1>b DEF Dequeued
  <2>2. Range(Tail(mutex_waiting[m])) \subseteq Range(mutex_waiting[m])
    BY <1>b, TailFacts
  <2>3. QED
    BY <2>1, <2>2
<1> HIDE DEF next
<1>8. /\ \A u \in TCB : u # next => status'[u] = status[u]
      /\ status'[next] = "active"
  BY <1>1, <1>3, <1>b
<1>9. next \notin Members(priority_level, Levels) /\ priority[next] \in Levels
  BY <1>3, <1>6, <1>b, ReadyIsMembers
<1>10. Distinct(priority_level', Levels)
  BY <1>1, <1>2, <1>3, <1>9, <1>b, EnqueueFacts
<1>11. Ready' = Ready \cup {next}
  <2>1. Members(enqueue(priority_level, priority[next], next), Levels)
          = Members(priority_level, Levels) \cup {next}
    <3>1. /\ priority_level \in [Levels -> Seq(TCB)] /\ Distinct(priority_level, Levels)
          /\ next \in TCB /\ next \notin Members(priority_level, Levels)
      BY <1>2, <1>3, <1>9, <1>b
    <3>2. priority[next] \in Levels
      BY <1>9
    <3>3. QED
      BY ONLY <3>1, <3>2, EnqueueFacts
  <2>2. Ready' = Members(priority_level', Levels)
    BY DEF Ready, Members
  <2>3. QED
    BY <1>1, <2>1, <2>2, ReadyIsMembers
<1>12. \A n \in Mutexes : Range(mutex_waiting'[n]) \subseteq Blocked'
  BY DEF Blocked
<1>13. StatusSound'
  <2>1. \A u \in Ready' : status'[u] \in {"active", "yield"} /\ pc[u] \notin Gone
    <3>1. pc[next] \notin Gone
      BY <1>6 DEF Gone
    <3>2. QED
      BY <1>6, <1>8, <1>11, <1>b, <3>1 DEF SafetyInv, StatusSound
  <2>2. ASSUME NEW n \in Mutexes, NEW u \in Range(mutex_waiting'[n])
        PROVE  /\ status'[u] = "wait_mutex" /\ pc[u] \in {"lock_raise", "claim"}
               /\ mutex[u] = n
    <3>1. u # next /\ u \in Range(mutex_waiting[n]) /\ u \in TCB
      BY <1>5, <1>7, <1>12, <1>b
    <3>2. status[u] = "wait_mutex" /\ pc[u] \in {"lock_raise", "claim"} /\ mutex[u] = n
      BY <3>1 DEF SafetyInv, StatusSound
    <3>3. QED
      BY <1>8, <3>1, <3>2
  <2>3. \A u \in TCB : /\ status'[u] = "wait_mutex" => u \in Blocked'
                       /\ status'[u] = "thread_exit" => pc[u] \in Gone
                       /\ status'[u] = "wait_thread" => pc[u] \in {"join_raise", "reap"}
    BY <1>5, <1>8 DEF SafetyInv, StatusSound
  <2>4. UNCHANGED <<pc, mutex>>
    BY <1>1
  <2>5. QED
    BY <2>1, <2>2, <2>3, <2>4 DEF StatusSound
<1>14. PlacesSound'
  <2>1. \A u \in TCB : init /\ pc[u] \notin Gone =>
          u = t \/ u \in Ready' \/ u \in Blocked' \/ status'[u] = "wait_thread"
    BY <1>1, <1>5, <1>8, <1>11 DEF SafetyInv, PlacesSound
  <2>2. t \notin Ready' /\ pc[t] \notin Gone /\ status'[t] \in {"active", "yield"}
    <3>1. pc[t] \notin Gone /\ t \notin Ready
      BY <1>1 DEF SafetyInv, PlacesSound
    <3>2. status[t] \in {"active", "yield"}
      BY <1>1, <3>1, Awake
    <3>3. QED
      BY <1>6, <1>8, <1>11, <3>1, <3>2
  <2>3. UNCHANGED <<init, running_thread, pc>> /\ running_thread = t
    BY <1>1
  <2>4. QED
    BY <1>4, <1>10, <2>1, <2>2, <2>3 DEF PlacesSound
<1>15. Joiners'
  BY <1>1, <1>6, <1>8, JoinersFrame
<1>16. MutexesSound'
  <2>1. /\ user \in [Mutexes -> TCB \cup {NULL}] /\ held \in [Mutexes -> SUBSET TCB]
    BY <1>b DEF TypeOK
  <2>2. /\ user'[m] = next /\ held'[m] = held[m] \ {t}
        /\ \A n \in Mutexes : n # m => user'[n] = user[n] /\ held'[n] = held[n]
    BY <1>1, <2>1
  <2>3. ASSUME NEW u \in TCB, pc[u] \in {"lock_raise", "claim"}
        PROVE  status'[u] = "wait_mutex" \/ user'[mutex[u]] = u
    <3>1. mutex[u] \in Mutexes
      BY <2>3, Basics DEF TypeInv, LocalsOK
    <3>2. status[u] = "wait_mutex" \/ user[mutex[u]] = u
      BY <2>3 DEF SafetyInv, MutexesSound
    <3>3. CASE u = next
      BY <1>6, <2>2, <3>3
    <3>4. CASE u # next
      <4>1. u # t
        BY <1>1, <2>3
      <4>2. QED
        BY <1>8, <2>2, <3>1, <3>2, <3>4, <4>1
    <3>5. QED
      BY <3>3, <3>4
  <2>4. held[m] \subseteq {t}
    BY DEF SafetyInv, MutexesSound
  <2>5. ASSUME NEW n \in Mutexes
        PROVE  /\ user'[n] \notin Range(mutex_waiting'[n])
               /\ n \notin live => user'[n] = NULL
               /\ held'[n] \subseteq {user'[n]}
    <3>1. /\ user[n] \notin Range(mutex_waiting[n])
          /\ n \notin live => user[n] = NULL
          /\ held[n] \subseteq {user[n]}
      BY DEF SafetyInv, MutexesSound
    <3>2. CASE n = m
      <4>1. next \notin Range(mutex_waiting'[m])
        BY <1>5, <1>12
      <4>2. held'[m] = {}
        BY <2>2, <2>4
      <4>3. QED
        BY <1>1, <2>2, <3>2, <4>1, <4>2
    <3>3. CASE n # m
      BY <1>7, <2>2, <3>1, <3>3
    <3>4. QED
      BY <3>2, <3>3
  <2>6. UNCHANGED <<pc, mutex, live>>
    BY <1>1
  <2>7. QED
    BY <2>3, <2>5, <2>6 DEF MutexesSound
<1>17. QED
  BY <1>13, <1>14, <1>15, <1>16

\* unlock of a mutex nobody waits for leaves it free.
LEMMA UnlockFreeStep ==
    ASSUME SafetyInv, NEW t \in TCB, NEW m \in Mutexes, Unlock(t, m), user[m] = t,
           mutex_waiting[m] = <<>>
    PROVE  Joiners' /\ StatusSound' /\ PlacesSound' /\ MutexesSound'
<1>1. /\ running_thread = t /\ pc[t] = "user"
      /\ user' = [user EXCEPT ![m] = NULL]
      /\ held' = [held EXCEPT ![m] = held[m] \ {t}]
      /\ UNCHANGED <<init, running_thread, priority_level, mutex_waiting, status, done,
                     waiting, id, thread_id, live, pc, mutex>>
  BY DEF Unlock, Runs, Running, tables, context
<1>2. StatusSound' /\ PlacesSound'
  BY <1>1, QuietStep
<1>3. Joiners'
  BY <1>1, JoinersFrame
<1>4. MutexesSound'
  <2>1. /\ user \in [Mutexes -> TCB \cup {NULL}] /\ held \in [Mutexes -> SUBSET TCB]
    BY Basics DEF TypeOK
  <2>2. /\ user'[m] = NULL /\ held'[m] = {}
        /\ \A n \in Mutexes : n # m => user'[n] = user[n] /\ held'[n] = held[n]
    BY <1>1, <2>1 DEF SafetyInv, MutexesSound
  <2>3. ASSUME NEW u \in TCB, pc[u] \in {"lock_raise", "claim"}
        PROVE  status[u] = "wait_mutex" \/ user'[mutex[u]] = u
    <3>1. mutex[u] \in Mutexes /\ u # t
      BY <1>1, <2>3, Basics DEF TypeInv, LocalsOK
    <3>2. status[u] = "wait_mutex" \/ user[mutex[u]] = u
      BY <2>3 DEF SafetyInv, MutexesSound
    <3>3. QED
      BY <2>2, <3>1, <3>2
  <2>4. Range(mutex_waiting[m]) = {}
    BY DEF Range
  <2>5. \A n \in Mutexes : /\ user'[n] \notin Range(mutex_waiting[n])
                           /\ n \notin live => user'[n] = NULL
                           /\ held'[n] \subseteq {user'[n]}
    BY <2>2, <2>4 DEF SafetyInv, MutexesSound
  <2>6. QED
    BY <1>1, <2>3, <2>5 DEF MutexesSound
<1>5. QED
  BY <1>2, <1>3, <1>4

\* destroy finds a mutex without a user, and so without waiters: it moves nobody.
LEMMA DestroyStep ==
    ASSUME SafetyInv, NEW t \in TCB, NEW m \in Mutexes, Destroy(t, m)
    PROVE  Joiners' /\ StatusSound' /\ PlacesSound' /\ MutexesSound' /\ UNCHANGED mutex_waiting
<1>1. UNCHANGED <<init, running_thread, done, waiting, id, thread_id, pc, mutex, user, held>>
  BY DEF Destroy, tables, context
<1>2. UNCHANGED <<priority_level, status, mutex_waiting>>
  <2>1. CASE DestroyFree(t, m)
    <3>1. mutex_waiting[m] = <<>> /\ user[m] = NULL
      BY <2>1, Basics DEF DestroyFree, TypeInv, IdleMutexHasNoWaiters
    <3>2. Range(mutex_waiting[m]) = {}
      BY <3>1 DEF Range
    <3>3. priority_level' = priority_level
      BY <2>1, <3>1 DEF DestroyFree
    <3>4. mutex_waiting' = mutex_waiting
      BY <2>1, <3>1, Basics DEF DestroyFree, TypeOK
    <3>5. status' = status
      BY <2>1, <3>2, Basics DEF DestroyFree
    <3>6. QED
      BY <3>3, <3>4, <3>5
  <2>2. CASE DestroyRefused(t, m)
    BY <2>2 DEF DestroyRefused
  <2>3. QED
    BY <2>1, <2>2 DEF Destroy
<1>3. StatusSound' /\ PlacesSound'
  BY <1>1, <1>2, QuietStep
<1>4. Joiners'
  BY <1>1, <1>2, JoinersFrame
<1>5. MutexesSound'
  <2>1. \A n \in Mutexes : n \notin live' => user[n] = NULL
    <3>1. live' = live \/ (live' = live \ {m} /\ user[m] = NULL)
      BY DEF Destroy, DestroyFree, DestroyRefused
    <3>2. QED
      BY <3>1 DEF SafetyInv, MutexesSound
  <2>2. QED
    BY <1>1, <1>2, <2>1 DEF SafetyInv, MutexesSound
<1>6. QED
  BY <1>2, <1>3, <1>4, <1>5

\* The first create: main becomes the running thread of a scheduler that has no other.
LEMMA SchedulerInitStep ==
    ASSUME SafetyInv, scheduler_init
    PROVE  Joiners' /\ StatusSound' /\ PlacesSound' /\ MutexesSound'
<1>b. /\ status \in [TCB -> Status] /\ Main \in TCB /\ pc \in [TCB -> Places]
      /\ \A u \in TCB : u = Main \/ u \in Threads
      /\ id \in [TCB -> Ids]
  BY Basics DEF TCB, TypeOK
<1>1. /\ ~init /\ pc[Main] = "user"
      /\ priority_level' = [l \in Levels |-> <<>>]
      /\ running_thread' = Main
      /\ status' = [status EXCEPT ![Main] = "active"]
      /\ id' = [id EXCEPT ![Main] = 0]
      /\ pc' = [pc EXCEPT ![Main] = "create"]
      /\ UNCHANGED <<waiting, done, user, mutex_waiting, mutex, thread_id, held, live>>
  BY DEF scheduler_init
<1>2. id' = id
  BY <1>1, <1>b DEF SafetyInv, IdInv, MainKeepsId
<1>3. /\ \A u \in TCB : u # Main => status'[u] = status[u] /\ pc'[u] = pc[u] /\ pc[u] = "new"
      /\ status'[Main] = "active" /\ pc'[Main] = "create"
      /\ pc[Main] \notin Gone /\ pc'[Main] \notin Gone
  BY <1>1, <1>b, Basics DEF Gone, IdleBeforeInit
<1>4. Ready' = {}
  BY <1>1 DEF Ready, Range
<1>5. Blocked' = Blocked /\ Blocked = {}
  <2>1. \A m \in Mutexes : mutex_waiting[m] = <<>>
    BY <1>1, Basics DEF IdleBeforeInit, TypeInv, IdleMutexHasNoWaiters
  <2>2. QED
    BY <1>1, <2>1 DEF Blocked, Range
<1>6. StatusSound'
  <2>1. \A m \in Mutexes : Range(mutex_waiting[m]) = {}
    BY <1>5 DEF Blocked
  <2>2. \A u \in TCB : /\ status'[u] = "wait_mutex" => u \in Blocked
                       /\ status'[u] = "thread_exit" => pc'[u] \in Gone
                       /\ status'[u] = "wait_thread" => pc'[u] \in {"join_raise", "reap"}
    BY <1>3 DEF SafetyInv, StatusSound
  <2>3. UNCHANGED <<mutex_waiting, mutex>>
    BY <1>1
  <2>4. QED
    BY <1>4, <1>5, <2>1, <2>2, <2>3 DEF StatusSound
<1>7. PlacesSound'
  <2>1. Distinct(priority_level', Levels)
    BY <1>1 DEF Distinct, IsInjective, Range
  <2>2. \A u \in TCB : pc'[u] \notin Gone => u = Main
    BY <1>3 DEF Gone
  <2>3. mutex_waiting' = mutex_waiting /\ running_thread' = Main
    BY <1>1
  <2>4. QED
    BY <1>3, <1>4, <2>1, <2>2, <2>3 DEF SafetyInv, PlacesSound
<1>8. Joiners'
  BY <1>1, <1>2, <1>3, JoinersFrame
<1>9. MutexesSound'
  BY <1>1, <1>3, MutexesFrame
<1>10. QED
  BY <1>6, <1>7, <1>8, <1>9

\* Every step keeps the invariant.
LEMMA SafetyStep == SafetyInv /\ [Next]_vars => SafetyInv'
<1> SUFFICES ASSUME SafetyInv, [Next]_vars PROVE SafetyInv'
  OBVIOUS
<1>1. IdInv'
  BY IdStep DEF SafetyInv
<1>2. SUFFICES Joiners' /\ StatusSound' /\ PlacesSound' /\ MutexesSound'
  BY <1>1 DEF SafetyInv
<1>3. ASSUME UNCHANGED <<init, queues, tables, status, id, mutexes, pc, mutex, thread_id, held,
                         live>>
      PROVE  Joiners' /\ StatusSound' /\ PlacesSound' /\ MutexesSound'
  <2>1. UNCHANGED <<init, running_thread, priority_level, mutex_waiting, status, done, waiting,
                    id, thread_id, pc, mutex, user, held, live>>
    BY <1>3 DEF queues, tables, mutexes
  <2>2. StatusSound' /\ PlacesSound'
    BY <2>1, QuietStep
  <2>3. Joiners' /\ MutexesSound'
    BY <2>1, JoinersFrame, MutexesFrame
  <2>4. QED
    BY <2>2, <2>3
<1>4. CASE UNCHANGED vars \/ Spin \/ Lost
  BY <1>3, <1>4 DEF vars, Spin, Lost, fields, context
<1>5. ASSUME NEW t \in TCB, NEW u \in Threads, CreateBeyondLimit(t, u)
      PROVE  Joiners' /\ StatusSound' /\ PlacesSound' /\ MutexesSound'
  BY <1>3, <1>5 DEF CreateBeyondLimit, fields, context
<1>6. ASSUME NEW t \in TCB, ReapUndefined(t)
      PROVE  Joiners' /\ StatusSound' /\ PlacesSound' /\ MutexesSound'
  BY <1>3, <1>6 DEF ReapUndefined, fields, context
<1>7. ASSUME NEW t \in TCB, NEW m \in Mutexes, Lock(t, m)
      PROVE  Joiners' /\ StatusSound' /\ PlacesSound' /\ MutexesSound'
  <2>1. CASE LockRefused(t, m)
    BY <1>3, <1>7, <2>1 DEF Lock, LockRefused, mutexes
  <2>2. QED
    BY <1>7, <2>1, LockFreeStep, LockWaitStep DEF Lock
<1>8. ASSUME NEW t \in TCB, NEW m \in Mutexes, Unlock(t, m)
      PROVE  Joiners' /\ StatusSound' /\ PlacesSound' /\ MutexesSound'
  <2>1. CASE user[m] # t
    BY <1>3, <1>8, <2>1 DEF Unlock, queues, mutexes, context
  <2>2. QED
    BY <1>8, <2>1, HandOffStep, UnlockFreeStep
<1>9. ASSUME NEW t \in TCB, ThreadCall(t)
      PROVE  Joiners' /\ StatusSound' /\ PlacesSound' /\ MutexesSound'
  BY <1>5, <1>9, YieldStep, ExitStep, PlaceStep, CreateStep DEF ThreadCall
<1>10. ASSUME NEW t \in TCB, MutexCall(t)
       PROVE  Joiners' /\ StatusSound' /\ PlacesSound' /\ MutexesSound'
  BY <1>7, <1>8, <1>10, MutexInitStep, DestroyStep DEF MutexCall
<1>11. ASSUME NEW t \in TCB, Continue(t)
       PROVE  Joiners' /\ StatusSound' /\ PlacesSound' /\ MutexesSound'
  BY <1>6, <1>11, RaiseStep, JoinWaitStep, ReapStep, RegisterStep, ClaimStep DEF Continue
<1>12. QED
  BY <1>4, <1>9, <1>10, <1>11, TickStep, SchedulerInitStep DEF Next

\* The invariant holds in every reachable state.
LEMMA SafetyHolds == Spec => []SafetyInv
BY SafetyInit, SafetyStep, PTL DEF Spec

\* For every client and any limits, a thread is never in two places.
THEOREM NowhereTwiceHolds == Spec => []NowhereTwice
<1>1. SafetyInv => NowhereTwice
  <2> SUFFICES ASSUME SafetyInv PROVE NowhereTwice
    OBVIOUS
  <2>1. /\ \A l \in Levels : IsInjective(priority_level[l])
        /\ \A m \in Mutexes : IsInjective(mutex_waiting[m])
        /\ \A l, k \in Levels :
             l # k => Range(priority_level[l]) \cap Range(priority_level[k]) = {}
        /\ \A m, n \in Mutexes :
             m # n => Range(mutex_waiting[m]) \cap Range(mutex_waiting[n]) = {}
        /\ running_thread \notin Ready
    BY DEF SafetyInv, PlacesSound, Distinct
  <2>2. \A t \in Blocked : t \in TCB /\ status[t] = "wait_mutex"
    BY Basics DEF SafetyInv, StatusSound, Blocked
  <2>3. Ready \cap Blocked = {}
    BY <2>2 DEF SafetyInv, StatusSound
  <2>4. running_thread \in Blocked => pc[running_thread] = "lock_raise"
    BY <2>2 DEF SafetyInv, PlacesSound
  <2>5. QED
    BY <2>1, <2>3, <2>4 DEF NowhereTwice
<1>2. QED
  BY <1>1, SafetyHolds, PTL

\* No thread is lost by the scheduler, and none that has exited comes back.
THEOREM NobodyLostHolds == Spec => []NobodyLost
<1>1. SafetyInv => NobodyLost
  <2> SUFFICES ASSUME SafetyInv, NEW t \in TCB
               PROVE  IF t \in Alive
                      THEN t = running_thread \/ t \in Ready \cup Blocked
                           \/ status[t] = "wait_thread"
                      ELSE t # running_thread /\ t \notin Ready \cup Blocked
    BY DEF NobodyLost
  <2>1. CASE t \in Alive
    BY <2>1 DEF Alive, Gone, SafetyInv, PlacesSound
  <2>2. CASE t \notin Alive
    <3>1. CASE ~init
      <4>1. running_thread = NULL /\ \A l \in Levels : priority_level[l] = <<>>
        BY <3>1, Basics DEF IdleBeforeInit
      <4>2. \A m \in Mutexes : mutex_waiting[m] = <<>>
        BY <3>1, Basics DEF IdleBeforeInit, TypeInv, IdleMutexHasNoWaiters
      <4>3. Ready = {} /\ Blocked = {}
        BY <4>1, <4>2 DEF Ready, Blocked, Range
      <4>4. QED
        BY <2>2, <4>1, <4>3, Basics
    <3>2. CASE pc[t] \in Gone
      <4>1. t # running_thread /\ t \notin Ready
        BY <3>2 DEF SafetyInv, PlacesSound, StatusSound
      <4>2. t \notin Blocked
        BY <3>2 DEF SafetyInv, StatusSound, Blocked, Gone
      <4>3. QED
        BY <2>2, <4>1, <4>2
    <3>3. QED
      BY <2>2, <3>1, <3>2 DEF Alive, Gone
  <2>3. QED
    BY <2>1, <2>2
<1>2. QED
  BY <1>1, SafetyHolds, PTL

\* Two threads are never between lock and unlock of one mutex.
THEOREM MutualExclusionHolds == Spec => []MutualExclusion
<1>1. SafetyInv => MutualExclusion
  BY DEF SafetyInv, MutexesSound, MutualExclusion
<1>2. QED
  BY <1>1, SafetyHolds, PTL

\* A thread in lock is in line or has been handed the mutex, and a free mutex has no line.
THEOREM LockWaitersHold == Spec => []LockWaitersAreServed
<1>1. SafetyInv => LockWaitersAreServed
  <2> SUFFICES ASSUME SafetyInv PROVE LockWaitersAreServed
    OBVIOUS
  <2>1. ASSUME NEW t \in TCB, pc[t] \in {"lock_raise", "claim"}
        PROVE  \/ /\ t \in Range(mutex_waiting[mutex[t]])
                  /\ status[t] = "wait_mutex"
                  /\ user[mutex[t]] \notin {NULL, t}
               \/ /\ user[mutex[t]] = t
                  /\ t = running_thread \/ t \in Ready
    <3>1. mutex[t] \in Mutexes /\ pc[t] \notin Gone
      BY <2>1, Basics DEF TypeInv, LocalsOK, Gone
    <3>2. CASE status[t] = "wait_mutex"
      <4>1. t \in Blocked
        BY <3>2 DEF SafetyInv, StatusSound
      <4>2. t \in Range(mutex_waiting[mutex[t]])
        BY <4>1 DEF SafetyInv, StatusSound, Blocked
      <4>3. mutex_waiting[mutex[t]] # <<>>
        BY <4>2 DEF Range
      <4>4. user[mutex[t]] # NULL
        BY <3>1, <4>3, Basics DEF TypeInv, IdleMutexHasNoWaiters
      <4>5. user[mutex[t]] # t
        BY <3>1, <4>2 DEF SafetyInv, MutexesSound
      <4>6. QED
        BY <3>2, <4>2, <4>4, <4>5
    <3>3. CASE status[t] # "wait_mutex"
      <4>1. user[mutex[t]] = t
        BY <2>1, <3>3 DEF SafetyInv, MutexesSound
      <4>2. init
        BY <3>1, <4>1, Basics DEF IdleBeforeInit
      <4>3. t \notin Blocked /\ status[t] # "wait_thread"
        BY <2>1, <3>3 DEF SafetyInv, StatusSound, Blocked
      <4>4. QED
        BY <3>1, <4>1, <4>2, <4>3 DEF SafetyInv, PlacesSound
    <3>4. QED
      BY <3>2, <3>3
  <2>2. \A m \in Mutexes : user[m] = NULL => mutex_waiting[m] = <<>>
    BY Basics DEF TypeInv, IdleMutexHasNoWaiters
  <2>3. QED
    BY <2>1, <2>2 DEF LockWaitersAreServed
<1>2. QED
  BY <1>1, SafetyHolds, PTL

-----------------------------------------------------------------------------
(***************************************************************************)
(* The mutexes implement FifoLock.  user and mutex_waiting are the         *)
(* abstract owner and queue; SafetyInv says why the steps that touch them  *)
(* without being a step of the abstract lock change nothing: init and      *)
(* destroy find a mutex without user or waiters, and the claim after a     *)
(* wait finds the claimant in place.                                       *)
(***************************************************************************)
\* lock on a free mutex acquires it, lock on another's waits.
LEMMA LockRefines ==
    ASSUME SafetyInv, NEW t \in TCB, NEW m \in Mutexes, Lock(t, m)
    PROVE  lock!LockNext \/ UNCHANGED lock!lock_vars
<1>1. CASE LockFree(t, m)
  <2>1. mutex_waiting[m] = <<>>
    BY <1>1, Basics DEF LockFree, TypeInv, IdleMutexHasNoWaiters
  <2>2. lock!Acquire(t, m)
    BY <1>1, <2>1 DEF LockFree, lock!Acquire
  <2>3. QED
    BY <2>2 DEF lock!LockNext
<1>2. CASE LockWait(t, m)
  <2>1. running_thread = t /\ pc[t] = "user"
    BY DEF Lock, Runs, Running
  <2>2. t \notin Blocked
    BY <2>1, Awake DEF Gone
  <2>3. \A n \in Mutexes : t \notin Range(mutex_waiting[n])
    BY <2>2 DEF Blocked
  <2>4. lock!Wait(t, m)
    <3>1. /\ user[m] \notin {NULL, t} /\ user' = user
          /\ mutex_waiting' = [mutex_waiting EXCEPT ![m] = Append(mutex_waiting[m], t)]
      BY <1>2 DEF LockWait, enqueue
    <3>2. QED
      BY <2>3, <3>1 DEF Range, lock!Range, lock!Wait
  <2>5. QED
    BY <2>4 DEF lock!LockNext
<1>3. CASE LockRefused(t, m)
  BY <1>3 DEF LockRefused, lock!lock_vars
<1>4. QED
  BY <1>1, <1>2, <1>3 DEF Lock

\* unlock passes the mutex on or releases it.
LEMMA UnlockRefines ==
    ASSUME SafetyInv, NEW t \in TCB, NEW m \in Mutexes, Unlock(t, m)
    PROVE  lock!LockNext \/ UNCHANGED lock!lock_vars
<1>0. NULL \notin TCB
  BY Basics
<1>1. CASE user[m] = t /\ mutex_waiting[m] # <<>>
  <2>1. lock!PassOn(m)
    BY <1>0, <1>1 DEF Unlock, hand_off, pass_on, lock!PassOn
  <2>2. QED
    BY <2>1 DEF lock!LockNext
<1>2. CASE user[m] = t /\ mutex_waiting[m] = <<>>
  <2>1. lock!Release(m)
    BY <1>0, <1>2 DEF Unlock, lock!Release
  <2>2. QED
    BY <2>1 DEF lock!LockNext
<1>3. CASE user[m] # t
  BY <1>3 DEF Unlock, lock!lock_vars
<1>4. QED
  BY <1>1, <1>2, <1>3

\* A mutex that is initialised has neither user nor waiters already.
LEMMA MutexInitRefines ==
    ASSUME SafetyInv, NEW t \in TCB, NEW m \in Mutexes, MutexInit(t, m)
    PROVE  UNCHANGED lock!lock_vars
<1>1. user[m] = NULL /\ mutex_waiting[m] = <<>>
  BY Basics DEF MutexInit, SafetyInv, MutexesSound, TypeInv, IdleMutexHasNoWaiters
<1>2. /\ user' = user \/ user' = [user EXCEPT ![m] = NULL]
      /\ mutex_waiting' = [mutex_waiting EXCEPT ![m] = <<>>]
  BY DEF MutexInit
<1>3. user' = user /\ mutex_waiting' = mutex_waiting
  BY <1>1, <1>2, Basics DEF TypeOK
<1>4. QED
  BY <1>3 DEF lock!lock_vars

\* Every step is a step of the abstract lock, or none of its business.
LEMMA StepRefines == SafetyInv /\ [Next]_vars => [lock!LockNext]_lock!lock_vars
<1> SUFFICES ASSUME SafetyInv, [Next]_vars
             PROVE  lock!LockNext \/ UNCHANGED lock!lock_vars
  OBVIOUS
<1> USE DEF lock!lock_vars
<1>1. CASE UNCHANGED vars \/ scheduler_init \/ Spin \/ Lost
  BY <1>1 DEF vars, mutexes, scheduler_init, Spin, Lost
<1>2. ASSUME NEW t \in TCB, Tick(t) \/ ThreadCall(t) PROVE UNCHANGED lock!lock_vars
  BY <1>2 DEF Tick, ThreadCall, Yield, Exit, CreateFails, Create, CreateBeyondLimit, Join,
              mutexes
<1>3. ASSUME NEW t \in TCB, Continue(t) PROVE UNCHANGED lock!lock_vars
  <2>1. CASE Claim(t)
    BY <2>1, ClaimStep DEF Claim
  <2>2. CASE Raise(t) \/ JoinWait(t) \/ Reap(t) \/ ReapUndefined(t) \/ Register(t)
    BY <2>2 DEF Raise, JoinWait, Reap, ReapUndefined, Register, mutexes
  <2>3. QED
    BY <1>3, <2>1, <2>2 DEF Continue
<1>4. ASSUME NEW t \in TCB, NEW m \in Mutexes, Destroy(t, m) PROVE UNCHANGED lock!lock_vars
  BY <1>4, DestroyStep DEF Destroy
<1>5. ASSUME NEW t \in TCB, MutexCall(t) PROVE lock!LockNext \/ UNCHANGED lock!lock_vars
  BY <1>4, <1>5, LockRefines, UnlockRefines, MutexInitRefines DEF MutexCall
<1>6. QED
  BY <1>1, <1>2, <1>3, <1>5 DEF Next

\* lock and unlock implement the FIFO lock: nobody overtakes a waiter, no waiter is
\* dropped, and a mutex passes from its user to the one who has waited longest.
THEOREM FifoLockImplemented == Spec => ImplementsFifoLock
<1>1. Init => lock!LockInit
  BY DEF Init, lock!LockInit
<1>2. QED
  BY <1>1, StepRefines, SafetyHolds, PTL DEF Spec, ImplementsFifoLock, lock!LockSpec

-----------------------------------------------------------------------------
(***************************************************************************)
(* The records of a thread's level agree, for any number of levels.        *)
(*                                                                         *)
(* The induction rests on SafetyInv: the handler and create may rewrite    *)
(* the priority field of the running and of the new thread because neither *)
(* is in a ready queue.                                                    *)
(***************************************************************************)

\* Every thread in the queues Q stands at the level p gives it.
AtLevels(Q, p) == \A l \in Levels : \A t \in Range(Q[l]) : p[t] = l

\* The running thread's level is the level being run.
RunsAtItsLevel == running_thread # NULL => priority[running_thread] = current_priority

\* No thread has used more intervals than its level allows.
WithinSlice == \A t \in Alive : intervals_run[t] <= priority[t]

\* Main starts at the level the scheduler starts with.
StartsAtTop == ~init => current_priority = 0

LevelsInv == /\ SafetyInv
             /\ AtLevels(priority_level, priority)
             /\ RunsAtItsLevel
             /\ WithinSlice
             /\ StartsAtTop

\* A thread enqueued by its priority field stands at its level.
LEMMA EnqueueAtLevel ==
    ASSUME NEW Q \in [Levels -> Seq(TCB)], NEW p, AtLevels(Q, p), NEW l \in Levels,
           NEW t \in TCB, p[t] = l
    PROVE  AtLevels(enqueue(Q, l, t), p)
<1>1. /\ enqueue(Q, l, t)[l] = Append(Q[l], t)
      /\ \A k \in Levels : k # l => enqueue(Q, l, t)[k] = Q[k]
  BY DEF enqueue
<1>2. Range(Append(Q[l], t)) = Range(Q[l]) \cup {t}
  BY AppendFacts
<1>3. QED
  BY <1>1, <1>2 DEF AtLevels

\* The thread that is chosen has the level that becomes the current one.
LEMMA RescheduleAtLevel ==
    ASSUME NEW Q \in [Levels -> Seq(TCB)], NEW st, NEW p, AtLevels(Q, p), reschedule(Q, st)
    PROVE  /\ AtLevels(priority_level', p)
           /\ running_thread' # NULL => p[running_thread'] = current_priority'
<1>1. CASE /\ running_thread' = NULL
           /\ priority_level' = Q
  BY <1>1
<1>2. CASE \E l \in Levels : /\ Q[l] # <<>>
                             /\ running_thread' = Head(Q[l])
                             /\ priority_level' = [Q EXCEPT ![l] = Tail(@)]
                             /\ current_priority' = l
  <2>1. PICK l \in Levels : /\ Q[l] # <<>>
                            /\ running_thread' = Head(Q[l])
                            /\ priority_level' = [Q EXCEPT ![l] = Tail(@)]
                            /\ current_priority' = l
    BY <1>2
  <2>2. /\ Head(Q[l]) \in Range(Q[l])
        /\ Range(Tail(Q[l])) \subseteq Range(Q[l])
    BY <2>1, TailFacts
  <2>3. /\ priority_level'[l] = Tail(Q[l])
        /\ \A k \in Levels : k # l => priority_level'[k] = Q[k]
    BY <2>1
  <2>4. AtLevels(priority_level', p)
    BY <2>2, <2>3 DEF AtLevels
  <2>5. QED
    BY <2>1, <2>2, <2>4 DEF AtLevels
<1>3. QED
  BY <1>1, <1>2 DEF reschedule, select_next

\* The handler keeps the records of levels in agreement.
LEMMA HandlerAtLevel ==
    ASSUME LevelsInv, NEW t \in TCB, running_thread = t, NEW st, NEW a,
           st[t] \in Status, t \in Alive, scheduler_alarm_handler(t, st, a)
    PROVE  /\ AtLevels(priority_level', priority')
           /\ RunsAtItsLevel'
           /\ \A u \in Alive : intervals_run'[u] <= priority'[u]
<1>b. /\ TypeOK /\ NULL \notin TCB
      /\ priority_level \in [Levels -> Seq(TCB)] /\ priority \in [TCB -> Levels]
      /\ intervals_run \in [TCB -> Nat] /\ waiting \in [Ids -> TCB \cup {NULL}]
      /\ id \in [TCB -> Ids] /\ current_priority \in Levels
      /\ Alive \subseteq TCB
  BY Basics DEF LevelsInv, TypeOK, Alive
<1>1. /\ AtLevels(priority_level, priority)
      /\ priority[t] = current_priority
      /\ \A u \in Alive : intervals_run[u] <= priority[u]
  BY <1>b DEF LevelsInv, RunsAtItsLevel, WithinSlice
<1>2. CASE st[t] = "active" /\ ~slice_over(t)
  <2>1. /\ intervals_run' = [intervals_run EXCEPT ![t] = @ + 1]
        /\ UNCHANGED <<priority_level, current_priority, running_thread, priority>>
    BY <1>2 DEF scheduler_alarm_handler, queues
  <2>2. intervals_run[t] + 1 <= priority[t]
    BY <1>1, <1>2, <1>b DEF slice_over, Levels
  <2>3. \A u \in Alive : intervals_run'[u] <= priority[u]
    BY <1>1, <1>b, <2>1, <2>2
  <2>4. QED
    BY <1>1, <2>1, <2>3 DEF LevelsInv, RunsAtItsLevel
<1>3. CASE st[t] = "active" /\ slice_over(t)
  <2> DEFINE l == dropped(priority[t])
             Q == enqueue(priority_level, l, t)
  <2>1. l \in Levels
    BY <1>b, LevelBelow DEF dropped
  <2>2. /\ intervals_run' = [intervals_run EXCEPT ![t] = 0]
        /\ priority' = [priority EXCEPT ![t] = l]
        /\ reschedule(Q, st)
    BY <1>3 DEF scheduler_alarm_handler
  <2> HIDE DEF l
  <2>3. AtLevels(priority_level, priority') /\ priority'[t] = l
    <3>1. t \notin Ready
      BY DEF LevelsInv, SafetyInv, PlacesSound
    <3>2. \A k \in Levels : \A u \in Range(priority_level[k]) : u # t /\ u \in TCB
      BY <1>b, <3>1 DEF Ready, Range
    <3>3. priority'[t] = l /\ \A u \in TCB : u # t => priority'[u] = priority[u]
      BY <1>b, <2>2
    <3>4. QED
      BY <1>1, <3>2, <3>3 DEF AtLevels
  <2>4. AtLevels(Q, priority') /\ Q \in [Levels -> Seq(TCB)]
    <3>1. AtLevels(Q, priority')
      BY <1>b, <2>1, <2>3, EnqueueAtLevel
    <3>2. Q \in [Levels -> Seq(TCB)]
      BY <1>b, <2>1 DEF enqueue
    <3>3. QED
      BY <3>1, <3>2
  <2> HIDE DEF Q
  <2>5. /\ AtLevels(priority_level', priority')
        /\ running_thread' # NULL => priority'[running_thread'] = current_priority'
    BY <2>2, <2>4, RescheduleAtLevel
  <2>6. \A u \in Alive : intervals_run'[u] <= priority'[u]
    <3>1. 0 <= l
      BY <2>1 DEF Levels
    <3>2. QED
      BY <1>1, <1>b, <2>2, <3>1
  <2>7. QED
    BY <2>5, <2>6 DEF RunsAtItsLevel
<1>4. CASE st[t] = "yield"
  <2> DEFINE Q == enqueue(priority_level, priority[t], t)
  <2>1. reschedule(Q, st) /\ UNCHANGED <<intervals_run, priority>>
    BY <1>4 DEF scheduler_alarm_handler
  <2>2. AtLevels(Q, priority)
    BY <1>1, <1>b, EnqueueAtLevel
  <2>3. Q \in [Levels -> Seq(TCB)]
    BY <1>b DEF enqueue
  <2> HIDE DEF Q
  <2>4. QED
    BY <1>1, <2>1, <2>2, <2>3, RescheduleAtLevel DEF RunsAtItsLevel
<1>5. CASE \/ st[t] \in {"wait_mutex", "wait_thread"}
           \/ st[t] = "thread_exit" /\ waiter(t) = NULL
  <2>1. reschedule(priority_level, st) /\ UNCHANGED <<intervals_run, priority>>
    BY <1>5 DEF scheduler_alarm_handler
  <2>2. QED
    BY <1>1, <1>b, <2>1, RescheduleAtLevel DEF RunsAtItsLevel
<1>6. CASE st[t] = "thread_exit" /\ waiter(t) # NULL
  <2> DEFINE w == waiter(t)
             Q == enqueue(priority_level, priority[w], w)
             s2 == [st EXCEPT ![w] = "active"]
  <2>1. reschedule(Q, s2) /\ UNCHANGED <<intervals_run, priority>>
    BY <1>6 DEF scheduler_alarm_handler
  <2>2. w \in TCB
    BY <1>6, <1>b DEF waiter
  <2> HIDE DEF w
  <2>3. AtLevels(Q, priority)
    BY <1>1, <1>b, <2>2, EnqueueAtLevel
  <2>4. Q \in [Levels -> Seq(TCB)]
    BY <1>b, <2>2 DEF enqueue
  <2> HIDE DEF Q, s2
  <2>5. QED
    BY <1>1, <2>1, <2>3, <2>4, RescheduleAtLevel DEF RunsAtItsLevel
<1>7. QED
  BY <1>2, <1>3, <1>4, <1>5, <1>6 DEF Status

\* Every step keeps the levels in agreement.
LEMMA LevelsStep == LevelsInv /\ [Next]_vars => LevelsInv'
<1> SUFFICES ASSUME LevelsInv, [Next]_vars PROVE LevelsInv'
  OBVIOUS
<1>1. SafetyInv' /\ SafetyInv
  BY SafetyStep DEF LevelsInv
<1>b. /\ TypeOK /\ NULL \notin TCB /\ Main \in TCB /\ Threads \subseteq TCB
      /\ priority_level \in [Levels -> Seq(TCB)] /\ priority \in [TCB -> Levels]
      /\ intervals_run \in [TCB -> Nat] /\ pc \in [TCB -> Places]
      /\ IdleBeforeInit /\ Alive \subseteq TCB
  BY <1>1, Basics DEF TypeOK, Alive
<1>2. /\ AtLevels(priority_level, priority) /\ RunsAtItsLevel /\ WithinSlice /\ StartsAtTop
      /\ \A u \in Alive : intervals_run[u] <= priority[u]
  BY DEF LevelsInv, WithinSlice
<1>3. ASSUME UNCHANGED <<init, priority_level, current_priority, running_thread, priority,
                         intervals_run>>,
             Alive' \subseteq Alive
      PROVE  LevelsInv'
  BY <1>1, <1>2, <1>3 DEF LevelsInv, AtLevels, RunsAtItsLevel, WithinSlice, StartsAtTop
<1>4. CASE UNCHANGED vars \/ Spin \/ Lost
  <2>1. UNCHANGED <<init, priority_level, current_priority, running_thread, priority,
                    intervals_run, pc>>
    BY <1>4 DEF vars, Spin, Lost, queues, fields, context
  <2>2. QED
    BY <1>3, <2>1 DEF Alive
<1>5. CASE scheduler_init
  <2>1. /\ ~init /\ init' /\ running_thread' = Main /\ current_priority' = current_priority
        /\ priority_level' = [l \in Levels |-> <<>>]
        /\ priority' = [priority EXCEPT ![Main] = 0]
        /\ intervals_run' = [intervals_run EXCEPT ![Main] = 0]
        /\ pc' = [pc EXCEPT ![Main] = "create"]
    BY <1>5 DEF scheduler_init
  <2>2. AtLevels(priority_level', priority')
    BY <2>1 DEF AtLevels, Range
  <2>3. RunsAtItsLevel' /\ StartsAtTop'
    BY <1>2, <1>b, <2>1 DEF RunsAtItsLevel, StartsAtTop
  <2>4. \A u \in TCB : u # Main => pc'[u] = "new"
    BY <1>b, <2>1 DEF IdleBeforeInit, TCB
  <2>5. Alive' \subseteq {Main}
    BY <2>4 DEF Alive
  <2>6. intervals_run'[Main] = 0 /\ priority'[Main] = 0
    BY <1>b, <2>1
  <2>7. WithinSlice'
    BY <2>5, <2>6 DEF WithinSlice
  <2>8. QED
    BY <1>1, <2>2, <2>3, <2>7 DEF LevelsInv
<1>6. ASSUME NEW t \in TCB, Tick(t) \/ Raise(t) \/ Exit(t) PROVE LevelsInv'
  <2>1. running_thread = t /\ init /\ init' /\ pc[t] \notin Gone
    <3>1. running_thread = t /\ init' = init
      BY <1>6 DEF Tick, Raise, Exit, Runs, Running
    <3>2. QED
      BY <1>1, <1>b, <3>1 DEF IdleBeforeInit, SafetyInv, PlacesSound
  <2>2. t \in Alive
    BY <2>1 DEF Alive, Gone
  <2>3. PICK st, a : st[t] \in Status /\ scheduler_alarm_handler(t, st, a)
    <3>1. CASE Tick(t) \/ Raise(t)
      BY <1>b, <3>1 DEF Tick, Raise, TypeOK
    <3>2. CASE Exit(t)
      <4>1. scheduler_alarm_handler(t, [status EXCEPT ![t] = "thread_exit"], FALSE)
        BY <3>2 DEF Exit
      <4>2. [status EXCEPT ![t] = "thread_exit"][t] \in Status
        BY <1>b DEF TypeOK, Status
      <4>3. QED
        BY <4>1, <4>2
    <3>3. QED
      BY <1>6, <3>1, <3>2
  <2>4. /\ AtLevels(priority_level', priority')
        /\ RunsAtItsLevel'
        /\ \A u \in Alive : intervals_run'[u] <= priority'[u]
    BY <2>1, <2>2, <2>3, HandlerAtLevel
  <2>5. Alive' \subseteq Alive
    <3>1. \A u \in TCB : u # t => pc'[u] = pc[u]
      BY <1>6, <1>b DEF Tick, Raise, Exit, context
    <3>2. QED
      BY <2>1, <2>2, <3>1 DEF Alive
  <2>6. QED
    BY <1>1, <2>1, <2>4, <2>5 DEF LevelsInv, WithinSlice, StartsAtTop
<1>7. ASSUME NEW t \in TCB, NEW new \in Threads, Create(t, new) PROVE LevelsInv'
  <2>1. /\ running_thread = t /\ pc[new] \in {"new", "reaped"}
        /\ priority' = [priority EXCEPT ![new] = 0]
        /\ intervals_run' = [intervals_run EXCEPT ![new] = 0]
        /\ priority_level' = enqueue(priority_level, 0, new)
        /\ pc' = [pc EXCEPT ![t] = "user", ![new] = "user"]
        /\ pc[t] \in {"create", "user"}
        /\ UNCHANGED <<init, running_thread, current_priority>>
    BY <1>7 DEF Create, Creating, Runs, Running
  <2>2. new \in TCB /\ new \notin Ready /\ new # t /\ 0 \in Levels
    <3>1. new \notin Ready
      BY <1>1, <2>1 DEF SafetyInv, StatusSound, Gone
    <3>2. QED
      BY <1>b, <2>1, <3>1, ConstantsAssumption DEF Levels
  <2>3. /\ \A u \in TCB : u # new => priority'[u] = priority[u]
                                     /\ intervals_run'[u] = intervals_run[u]
        /\ priority'[new] = 0 /\ intervals_run'[new] = 0
    BY <1>b, <2>1, <2>2
  <2>4. AtLevels(priority_level', priority')
    <3>1. \A k \in Levels : \A u \in Range(priority_level[k]) : u # new /\ u \in TCB
      BY <1>b, <2>2 DEF Ready, Range
    <3>2. AtLevels(priority_level, priority')
      BY <1>2, <2>3, <3>1 DEF AtLevels
    <3>3. AtLevels(enqueue(priority_level, 0, new), priority')
      BY <1>b, <2>2, <2>3, <3>2, EnqueueAtLevel
    <3>4. QED
      BY <2>1, <3>3
  <2>5. RunsAtItsLevel'
    BY <1>2, <2>1, <2>2, <2>3 DEF RunsAtItsLevel
  <2>6. Alive' \subseteq Alive \cup {new}
    <3>1. \A u \in TCB : u # new => (pc'[u] \in Gone <=> pc[u] \in Gone)
      BY <1>b, <2>1 DEF Gone
    <3>2. QED
      BY <2>1, <3>1 DEF Alive, Gone
  <2>7. WithinSlice'
    <3>1. ASSUME NEW u \in Alive' PROVE intervals_run'[u] <= priority'[u]
      <4>1. CASE u = new
        BY <2>3, <4>1
      <4>2. CASE u # new
        BY <1>2, <1>b, <2>3, <2>6, <3>1, <4>2
      <4>3. QED
        BY <4>1, <4>2
    <3>2. QED
      BY <3>1 DEF WithinSlice
  <2>8. QED
    BY <1>1, <1>2, <2>1, <2>4, <2>5, <2>7 DEF LevelsInv, StartsAtTop
<1>8. ASSUME NEW t \in TCB, Yield(t) \/ CreateFails(t) \/ (\E u \in Threads : Join(t, u))
                            \/ JoinWait(t) \/ ReapUndefined(t) \/ Claim(t)
                            \/ (\E u \in Threads : CreateBeyondLimit(t, u))
      PROVE  LevelsInv'
  <2>1. UNCHANGED <<init, priority_level, current_priority, running_thread, priority,
                    intervals_run>>
    BY <1>8 DEF Yield, CreateFails, Join, JoinWait, ReapUndefined, Claim, CreateBeyondLimit,
                queues, fields
  <2>2. /\ \A u \in TCB : u # t => pc'[u] = pc[u]
        /\ pc[t] \notin Gone
    <3>1. \A u \in TCB : u # t => pc'[u] = pc[u]
      BY <1>8, <1>b DEF Yield, CreateFails, Join, JoinWait, ReapUndefined, Claim,
                        CreateBeyondLimit, context
    <3>2. running_thread = t
      BY <1>8 DEF Yield, CreateFails, Creating, Join, JoinWait, ReapUndefined, Claim,
                  CreateBeyondLimit, Runs, Running
    <3>3. QED
      BY <1>1, <3>1, <3>2 DEF SafetyInv, PlacesSound
  <2>3. QED
    BY <1>3, <2>1, <2>2 DEF Alive, Gone
<1>9. ASSUME NEW t \in TCB, Reap(t) PROVE LevelsInv'
  <2>1. /\ UNCHANGED <<init, priority_level, current_priority, running_thread, priority,
                       intervals_run>>
        /\ pc' = [pc EXCEPT ![t] = "user", ![thread_table[thread_id[t]]] = "reaped"]
        /\ pc[t] = "reap"
    BY <1>9 DEF Reap, Runs, queues, fields
  <2>2. \A u \in TCB : pc'[u] \notin Gone => pc[u] \notin Gone
    BY <1>b, <2>1 DEF Gone
  <2>3. QED
    BY <1>3, <2>1, <2>2 DEF Alive, Gone
<1>10. ASSUME NEW t \in TCB, Register(t) \/ (\E m \in Mutexes : MutexInit(t, m))
       PROVE  LevelsInv'
  <2>1. UNCHANGED <<init, priority_level, current_priority, running_thread, priority,
                    intervals_run>>
    BY <1>10 DEF Register, MutexInit, queues, fields
  <2>2. /\ \A u \in TCB : u # t => pc'[u] = pc[u]
        /\ pc[t] \in {"register", "user"}
    BY <1>10, <1>b DEF Register, MutexInit, Caller, Runs, context
  <2>3. QED
    BY <1>3, <2>1, <2>2 DEF Alive
<1>11. ASSUME NEW t \in TCB, NEW m \in Mutexes, Lock(t, m) PROVE LevelsInv'
  <2>1. UNCHANGED <<init, priority_level, current_priority, running_thread, priority,
                    intervals_run>>
    BY <1>11 DEF Lock, queues
  <2>2. /\ \A u \in TCB : u # t => pc'[u] = pc[u]
        /\ pc[t] = "user"
    BY <1>11, <1>b DEF Lock, LockFree, LockWait, LockRefused, Runs
  <2>3. QED
    BY <1>3, <2>1, <2>2 DEF Alive
<1>12. ASSUME NEW t \in TCB, NEW m \in Mutexes, Unlock(t, m) PROVE LevelsInv'
  <2>1. UNCHANGED <<init, current_priority, running_thread, priority, intervals_run, pc>>
    BY <1>12 DEF Unlock, context
  <2>2. AtLevels(priority_level', priority)
    <3>1. CASE user[m] = t /\ mutex_waiting[m] # <<>>
      <4> DEFINE next == Head(mutex_waiting[m])
      <4>1. priority_level' = enqueue(priority_level, priority[next], next)
        BY <1>12, <3>1 DEF Unlock, hand_off, pass_on
      <4>2. next \in TCB
        BY <1>b, <3>1 DEF TypeOK
      <4> HIDE DEF next
      <4>3. QED
        BY <1>2, <1>b, <4>1, <4>2, EnqueueAtLevel
    <3>2. CASE ~(user[m] = t /\ mutex_waiting[m] # <<>>)
      BY <1>2, <1>12, <3>2 DEF Unlock
    <3>3. QED
      BY <3>1, <3>2
  <2>3. QED
    BY <1>1, <1>2, <2>1, <2>2 DEF LevelsInv, RunsAtItsLevel, WithinSlice, StartsAtTop, Alive
<1>13. ASSUME NEW t \in TCB, NEW m \in Mutexes, Destroy(t, m) PROVE LevelsInv'
  <2>1. UNCHANGED <<init, current_priority, running_thread, priority, intervals_run, pc>>
    BY <1>13 DEF Destroy, context
  <2>2. priority_level' = priority_level
    BY <1>1, <1>13, Basics DEF Destroy, DestroyFree, DestroyRefused, TypeInv,
                               IdleMutexHasNoWaiters
  <2>3. QED
    BY <1>3, <2>1, <2>2 DEF Alive
<1>14. QED
  BY <1>4, <1>5, <1>6, <1>7, <1>8, <1>9, <1>10, <1>11, <1>12, <1>13
     DEF Next, ThreadCall, MutexCall, Continue

\* A queued thread is queued at the level of its priority field, the running thread's is
\* the level being run, and no thread overstays its slice.
THEOREM LevelsAgreeHolds == Spec => []LevelsAgree
<1>1. Init => LevelsInv
  <2> SUFFICES ASSUME Init PROVE LevelsInv
    OBVIOUS
  <2>1. SafetyInv
    BY SafetyInit
  <2>2. AtLevels(priority_level, priority)
    BY DEF Init, AtLevels, Range
  <2>3. RunsAtItsLevel /\ WithinSlice /\ StartsAtTop
    BY DEF Init, RunsAtItsLevel, WithinSlice, StartsAtTop, Alive
  <2>4. QED
    BY <2>1, <2>2, <2>3 DEF LevelsInv
<1>2. LevelsInv => LevelsAgree
  BY DEF LevelsInv, AtLevels, RunsAtItsLevel, WithinSlice, LevelsAgree
<1>3. QED
  BY <1>1, <1>2, LevelsStep, PTL DEF Spec
=============================================================================
