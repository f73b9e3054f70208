--------------------------- MODULE PageAllocator ---------------------------
(***************************************************************************)
(* asst2's replacement of malloc and free, mymalloc.c: memory in pages,    *)
(* each with a descriptor; as its clients see it, who free what they were  *)
(* given and nothing else.  All of them call it with THREADREQ, so the     *)
(* part of the memory meant for the library is not set apart.              *)
(*                                                                         *)
(* The descriptor behind the last page has is_free 0, next NULL and no     *)
(* page.  A call that returns NULL and leaves the descriptors alone is a   *)
(* stuttering step and has no action.                                      *)
(***************************************************************************)
EXTENDS Integers

CONSTANTS
    NumPages,       \* descriptors with a page: 2029
    PageSize,       \* PAGE_SIZE
    MaxSize,        \* TOTSIZE/100, the largest request
    Cap,            \* how far from the first page an allocation may reach: 7920000
    Sizes           \* the sizes asked for

ASSUME AllocatorAssumption ==
    /\ NumPages \in Nat \ {0} /\ PageSize \in Nat \ {0}
    /\ MaxSize \in Nat /\ Cap \in Nat /\ Sizes \subseteq Nat

VARIABLES
    is_free, next_page,     \* the descriptors; next_page is that of the page behind, or NULL
    live,                   \* history: pages of the allocation that starts at a page, 0 for none
    large,                  \* history: more than a page was asked for at once
    crashed                 \* a NULL descriptor was used

vars == <<is_free, next_page, live, large, crashed>>

Pages == 0 .. NumPages - 1
NULL == -1

Init ==
    /\ is_free = [k \in Pages |-> TRUE]
    /\ next_page = [k \in Pages |-> NULL]
    /\ live = [k \in Pages |-> 0]
    /\ large = FALSE
    /\ crashed = FALSE

\* Pages for a request of more than one.
num_page_need(size) ==
    IF size % PageSize = 0 THEN size \div PageSize ELSE size \div PageSize + 1

\* The search at the start of every call ends at the first free page k, and
\* the call goes on if the request reaches no further than Cap from there.
Begins(k, size) ==
    /\ is_free[k] /\ \A j \in 0 .. k - 1 : ~ is_free[j]
    /\ size =< MaxSize /\ k * PageSize + size =< Cap

\* Faulty variant: the first page is given without a search.
malloc_page_first(size) ==
    /\ size =< PageSize
    /\ is_free' = [is_free EXCEPT ![0] = FALSE]
    /\ live' = [live EXCEPT ![0] = 1]
    /\ UNCHANGED <<next_page, large, crashed>>

\* A request that fits in a page gets the first free one.  When there is none
\* it gets the NULL of the last descriptor.
malloc_page(size) ==
    /\ size =< PageSize
    /\ \E k \in Pages :
        /\ Begins(k, size)
        /\ is_free' = [is_free EXCEPT ![k] = FALSE]
        /\ live' = [live EXCEPT ![k] = 1]
    /\ UNCHANGED <<next_page, large, crashed>>

\* Faulty variant: the pages may be taken.
Run_any(s, n) == s + n =< NumPages

\* n free pages from s on.
Run(s, n) == s + n =< NumPages /\ \A k \in s .. s + n - 1 : is_free[k]

\* Faulty variant: a page is linked past its neighbour.
mark_two(s, n) ==
    /\ is_free' = [k \in Pages |-> is_free[k] /\ k \notin s .. s + n]
    /\ next_page' = [k \in Pages |-> IF k \in s .. s + n THEN k + 2 ELSE next_page[k]]

\* The loop behind the search takes n + 1 pages from s on, one too many.
\* Beyond the last page it writes zeroes over zeroes.
mark(s, n) ==
    /\ is_free' = [k \in Pages |-> is_free[k] /\ k \notin s .. s + n]
    /\ next_page' = [k \in Pages |-> IF k \in s .. s + n THEN k + 1 ELSE next_page[k]]

malloc_pages(size) ==
    LET n == num_page_need(size)
    IN  /\ size > PageSize /\ \E k \in Pages : Begins(k, size)
        /\ \E s \in Pages :
            /\ Run(s, n) /\ \A t \in 0 .. s - 1 : ~ Run(t, n)
            /\ mark(s, n)
            /\ live' = [live EXCEPT ![s] = n]
        /\ large' = TRUE
        /\ UNCHANGED crashed

\* Where no run is long enough the call returns NULL, but the loop takes pages
\* all the same, from the start of the last run.
malloc_pages_fails(size) ==
    LET n == num_page_need(size)
        Starts(s) == is_free[s] /\ (s > 0 => ~ is_free[s - 1])
    IN  /\ size > PageSize /\ \E k \in Pages : Begins(k, size)
        /\ \A s \in Pages : ~ Run(s, n)
        /\ \E s \in Pages : Starts(s) /\ (\A t \in s + 1 .. NumPages - 1 : ~ Starts(t)) /\ mark(s, n)
        /\ large' = TRUE
        /\ UNCHANGED <<live, crashed>>

\* Where no page is free at all it starts from NULL.
malloc_pages_crashes(size) ==
    /\ size > PageSize /\ size =< MaxSize /\ \A k \in Pages : ~ is_free[k]
    /\ large' = TRUE /\ crashed' = TRUE
    /\ UNCHANGED <<is_free, next_page, live>>

\* The pages from p on up to the first one whose next_page is NULL.
Chained(p) == {k \in p .. NumPages - 1 : \A j \in p .. k : next_page[j] # NULL}

\* Faulty variant: the chained pages become free.
myfree_run(p) ==
    /\ live[p] > 0
    /\ is_free' = [k \in Pages |-> is_free[k] \/ k = p \/ k \in Chained(p)]
    /\ next_page' = [k \in Pages |-> IF k \in Chained(p) THEN NULL ELSE next_page[k]]
    /\ live' = [live EXCEPT ![p] = 0]
    /\ UNCHANGED <<large, crashed>>

\* Faulty variant: no page becomes free.
myfree_nothing(p) ==
    /\ live[p] > 0
    /\ live' = [live EXCEPT ![p] = 0]
    /\ UNCHANGED <<is_free, next_page, large, crashed>>

\* Only the first page of an allocation becomes free.  The loop that follows
\* clears next_page up to the first NULL, whoever has the pages.
myfree(p) ==
    /\ live[p] > 0
    /\ is_free' = [is_free EXCEPT ![p] = TRUE]
    /\ next_page' = [k \in Pages |-> IF k \in Chained(p) THEN NULL ELSE next_page[k]]
    /\ live' = [live EXCEPT ![p] = 0]
    /\ UNCHANGED <<large, crashed>>

Next ==
    /\ ~crashed
    /\ \/ \E size \in Sizes :
            \/ malloc_page(size)
            \/ malloc_pages(size)
            \/ malloc_pages_fails(size)
            \/ malloc_pages_crashes(size)
       \/ \E p \in Pages : myfree(p)

Spec == Init /\ [][Next]_vars

----------------------------------------------------------------------------
Extent(p) == p .. p + live[p] - 1

\* The descriptors and the history have their types.
TypeOK ==
    /\ is_free \in [Pages -> BOOLEAN]
    /\ next_page \in [Pages -> 1 .. NumPages \cup {NULL}]
    /\ live \in [Pages -> 0 .. NumPages]
    /\ large \in BOOLEAN /\ crashed \in BOOLEAN

\* No page belongs to two allocations, every page of an allocation is inside
\* the memory, and its descriptor is taken, so that no later call gives it
\* away, however pages were freed and lost in between (mymalloc.c:106-158,
\* 297-299).
ExtentsTaken == \A p \in Pages : \A k \in Extent(p) : k \in Pages /\ ~ is_free[k]
ExtentsDisjoint == \A p, q \in Pages : p # q => Extent(p) \cap Extent(q) = {}
NoOverlap == ExtentsTaken /\ ExtentsDisjoint

\* As long as no request is larger than a page nothing is lost: the pages that
\* are taken are those of the clients (mymalloc.c:106-111, 297).
NothingLostInSmall == ~large => \A k \in Pages : ~ is_free[k] => live[k] = 1

\* A page that is taken and no client's, the one behind a large allocation or
\* the rest of one that was freed, is never free again: the pages lost this way
\* add up (mymalloc.c:153, 297).
LostForGood ==
    [][\A k \in Pages : ~ is_free[k] /\ (\A p \in Pages : k \notin Extent(p)) => ~ is_free'[k]]_vars

\* To its clients the allocator is a Heap.
Clients == INSTANCE Heap
ImplementsHeap == Clients!Spec
=============================================================================
