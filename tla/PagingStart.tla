---------------------------- MODULE PagingStart ----------------------------
(***************************************************************************)
(* The first call of asst2's thread library, with its memory for threads:  *)
(* my_pthread_create finds init unset and runs scheduler_init, in which    *)
(* every malloc is page_malloc (my_pthread_t.h:35), which charges the      *)
(* pages to the running thread.                                            *)
(***************************************************************************)
EXTENDS Integers, Sequences

CONSTANT NumPages   \* NUM_PAGES

VARIABLES
    init,           \* scheduler_init has run
    page_init,      \* page_malloc has run before
    free,           \* how many entries of page_data are free
    running_thread, \* running_thread is not NULL
    stage,          \* how many of the mallocs of scheduler_init are done
    busy,           \* a call of my_pthread_create is under way
    dead            \* a signal nobody can handle has ended the process

vars == <<init, page_init, free, running_thread, stage, busy, dead>>

\* What scheduler_init allocates, in this order: five queues and death_row,
\* the thread for main, and three timers.  Each takes one page.
Mallocs == <<"queue", "queue", "queue", "queue", "queue", "queue", "main", "pause", "timer", "cont">>

Init ==
    /\ init = FALSE /\ page_init = FALSE /\ free = 0 /\ running_thread = FALSE
    /\ stage = 0 /\ busy = FALSE /\ dead = FALSE

my_pthread_create ==
    /\ ~dead /\ ~busy
    /\ busy' = TRUE
    /\ UNCHANGED <<init, page_init, free, running_thread, stage, dead>>

\* page_malloc_init makes every page free, on the first call.
FreePages == IF page_init THEN free ELSE NumPages

\* page_malloc for the next object of scheduler_init.  With no running thread
\* the line that sets TID reads address 0, and the handler of that signal reads
\* running_thread again, with the signal blocked.  Without a free page the
\* result is NULL: main, pause and timer are written through, the others not.
page_malloc ==
    LET object == Mallocs[stage + 1]
    IN  /\ ~dead /\ busy /\ ~init /\ stage < Len(Mallocs)
        /\ page_init' = TRUE
        /\ free' = IF FreePages = 0 THEN 0 ELSE FreePages - 1
        /\ dead' = IF FreePages = 0 THEN object \in {"main", "pause", "timer"} ELSE ~running_thread
        /\ stage' = stage + 1
        /\ running_thread' = (running_thread \/ (object = "main" /\ ~dead'))
        /\ UNCHANGED <<init, busy>>

\* The end of scheduler_init, and the rest of my_pthread_create.
scheduler_started ==
    /\ ~dead /\ busy /\ (init \/ stage = Len(Mallocs))
    /\ init' = TRUE
    /\ busy' = FALSE
    /\ UNCHANGED <<page_init, free, running_thread, stage, dead>>

Next == my_pthread_create \/ page_malloc \/ scheduler_started

Spec == Init /\ [][Next]_vars /\ WF_vars(Next)

\* my_pthread_create "creates a pthread that executes function"
\* (my_pthread_t.h:90): a call of it returns.
CreateReturns == busy ~> ~busy
=============================================================================
