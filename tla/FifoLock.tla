------------------------------ MODULE FifoLock ------------------------------
(***************************************************************************)
(* What a my_pthread mutex promises (asst1/my_pthread.c, lock and unlock): *)
(* a mutex has at most one owner, a thread that finds it owned waits its   *)
(* turn, and unlock passes it to the thread that has waited longest, so    *)
(* nobody overtakes a waiter.  It says nothing of schedulers or timers.    *)
(***************************************************************************)
EXTENDS Naturals, Sequences, Functions

CONSTANTS Callers, Locks, Nobody

VARIABLES owner, queue

lock_vars == <<owner, queue>>

LockInit ==
    /\ owner = [m \in Locks |-> Nobody]
    /\ queue = [m \in Locks |-> <<>>]

\* t finds m without an owner, hence without waiters.
Acquire(t, m) ==
    /\ owner[m] = Nobody
    /\ queue[m] = <<>>
    /\ owner' = [owner EXCEPT ![m] = t]
    /\ UNCHANGED queue

\* t waits for nothing yet, finds m owned by another and takes the last place.
Wait(t, m) ==
    /\ owner[m] \notin {Nobody, t}
    /\ \A n \in Locks : t \notin Range(queue[n])
    /\ queue' = [queue EXCEPT ![m] = Append(@, t)]
    /\ UNCHANGED owner

\* The owner gives m to the first in line.
PassOn(m) ==
    /\ owner[m] # Nobody
    /\ queue[m] # <<>>
    /\ owner' = [owner EXCEPT ![m] = Head(queue[m])]
    /\ queue' = [queue EXCEPT ![m] = Tail(@)]

\* The owner gives m up, and nobody waits.
Release(m) ==
    /\ owner[m] # Nobody
    /\ queue[m] = <<>>
    /\ owner' = [owner EXCEPT ![m] = Nobody]
    /\ UNCHANGED queue

LockNext == \E m \in Locks :
    PassOn(m) \/ Release(m) \/ \E t \in Callers : Acquire(t, m) \/ Wait(t, m)

LockSpec == LockInit /\ [][LockNext]_lock_vars
=============================================================================
