------------------------ MODULE PageAllocatorProofs ------------------------
(***************************************************************************)
(* Proofs, for any number of pages and any sizes, of the properties of     *)
(* PageAllocator.                                                          *)
(***************************************************************************)
EXTENDS PageAllocator, TLAPS

\* A request of more than a page needs some number of pages
\* (mymalloc.c:122-127).
LEMMA NeedPositive ==
    ASSUME NEW size \in Nat, size > PageSize
    PROVE  num_page_need(size) \in Nat \ {0}
<1>1. PageSize \in Nat \ {0}
  BY AllocatorAssumption
<1>2. size = PageSize * (size \div PageSize) + (size % PageSize)
  BY <1>1, Z3
<1>3. size % PageSize \in 0 .. PageSize - 1 /\ size \div PageSize \in Int
  BY <1>1, Z3
<1>4. size \div PageSize > 0
  <2>1. SUFFICES ASSUME size \div PageSize =< 0 PROVE FALSE
    BY <1>3
  <2>2. PageSize * (size \div PageSize) =< 0
    BY <1>1, <1>3, <2>1, Z3
  <2>3. QED BY <1>1, <1>2, <1>3, <2>2
<1>5. QED BY <1>3, <1>4 DEF num_page_need

\* The strengthening of NoOverlap that is inductive: the types give the
\* extents their bounds.
IInv == TypeOK /\ ExtentsTaken /\ ExtentsDisjoint

\* What is taken with n pages from s on, when those are free, keeps to itself:
\* the argument malloc_page and malloc_pages share (mymalloc.c:106-158).
LEMMA TakingFreePages ==
    ASSUME IInv, NEW s \in Pages, NEW n \in 1 .. NumPages, Run(s, n),
           live' = [live EXCEPT ![s] = n],
           is_free' \in [Pages -> BOOLEAN],
           \A k \in Pages : is_free'[k] => is_free[k] /\ k \notin s .. s + n - 1
    PROVE  ExtentsTaken' /\ ExtentsDisjoint' /\ (\A p \in Pages : Extent(p) \cap (s .. s + n - 1) = {})
<1> USE AllocatorAssumption DEF Pages
<1>0. live \in [Pages -> 0 .. NumPages] /\ is_free \in [Pages -> BOOLEAN]
  BY DEF IInv, TypeOK
<1>1. \A p \in Pages : Extent(p) \cap (s .. s + n - 1) = {}
  BY <1>0 DEF IInv, ExtentsTaken, Extent, Run
<1>2. Extent(s)' = s .. s + n - 1 /\ \A p \in Pages : p # s => Extent(p)' = Extent(p)
  BY <1>0 DEF Extent
<1>3. ExtentsTaken'
  <2>1. ASSUME NEW p \in Pages, NEW k \in Extent(p)' PROVE k \in Pages /\ ~ is_free'[k]
    <3>1. CASE p = s BY <1>0, <1>2, <2>1, <3>1 DEF Run
    <3>2. CASE p # s BY <1>0, <1>2, <2>1, <3>2 DEF IInv, ExtentsTaken
    <3>3. QED BY <3>1, <3>2
  <2>2. QED BY <2>1 DEF ExtentsTaken
<1>4. ExtentsDisjoint'
  <2>1. ASSUME NEW p \in Pages, NEW q \in Pages, p # q PROVE Extent(p)' \cap Extent(q)' = {}
    BY <1>1, <1>2, <2>1 DEF IInv, ExtentsDisjoint
  <2>2. QED BY <2>1 DEF ExtentsDisjoint
<1>5. QED BY <1>1, <1>3, <1>4

\* The effect of malloc_page as TakingFreePages wants it.
LEMMA PageTaken ==
    ASSUME IInv, NEW size \in Sizes, malloc_page(size)
    PROVE  \E s \in Pages : \E n \in 1 .. NumPages :
            /\ Run(s, n) /\ live' = [live EXCEPT ![s] = n]
            /\ is_free' \in [Pages -> BOOLEAN]
            /\ \A k \in Pages : is_free'[k] => is_free[k] /\ k \notin s .. s + n - 1
<1> USE AllocatorAssumption DEF Pages
<1>1. PICK k \in Pages : Begins(k, size) /\ is_free' = [is_free EXCEPT ![k] = FALSE]
                         /\ live' = [live EXCEPT ![k] = 1]
  BY DEF malloc_page
<1>2. is_free \in [Pages -> BOOLEAN] BY DEF IInv, TypeOK
<1>3. Run(k, 1) BY <1>1 DEF Run, Begins
<1>4. is_free' \in [Pages -> BOOLEAN]
  BY <1>1, <1>2
<1>5. \A j \in Pages : is_free'[j] => is_free[j] /\ j \notin k .. k + 1 - 1
  BY <1>1, <1>2
<1>6. 1 \in 1 .. NumPages OBVIOUS
<1> WITNESS k \in Pages
<1> WITNESS 1 \in 1 .. NumPages
<1>7. QED BY <1>1, <1>3, <1>4, <1>5

\* The effect of malloc_pages as TakingFreePages wants it: the page taken too
\* many does no harm.
LEMMA PagesTaken ==
    ASSUME IInv, NEW size \in Sizes, malloc_pages(size)
    PROVE  \E s \in Pages : \E n \in 1 .. NumPages :
            /\ Run(s, n) /\ live' = [live EXCEPT ![s] = n]
            /\ is_free' \in [Pages -> BOOLEAN]
            /\ \A k \in Pages : is_free'[k] => is_free[k] /\ k \notin s .. s + n - 1
<1> DEFINE n == num_page_need(size)
<1> USE AllocatorAssumption DEF Pages
<1>0. size > PageSize BY DEF malloc_pages
<1>1. n \in Nat \ {0} BY <1>0, NeedPositive
<1>2. PICK s \in Pages : Run(s, n) /\ mark(s, n) /\ live' = [live EXCEPT ![s] = n]
  BY DEF malloc_pages
<1> HIDE DEF n
<1>3. n \in 1 .. NumPages BY <1>1, <1>2 DEF Run
<1>4. is_free \in [Pages -> BOOLEAN] BY DEF IInv, TypeOK
<1>5. is_free' \in [Pages -> BOOLEAN] BY <1>2, <1>4 DEF mark
<1>6. ASSUME NEW k \in Pages, is_free'[k] PROVE is_free[k] /\ k \notin s .. s + n - 1
  <2>1. is_free[k] /\ k \notin s .. s + n BY <1>2, <1>6 DEF mark
  <2>2. QED BY <1>1, <2>1
<1>7. QED BY <1>2, <1>3, <1>5, <1>6

\* The descriptors keep their types.
LEMMA TypeStep == TypeOK /\ [Next]_vars => TypeOK'
<1> SUFFICES ASSUME TypeOK, [Next]_vars PROVE TypeOK'
  OBVIOUS
<1> USE AllocatorAssumption DEF Pages, TypeOK
<1>1. ASSUME NEW s \in Pages, NEW n \in Nat, mark(s, n)
      PROVE  is_free' \in [Pages -> BOOLEAN] /\ next_page' \in [Pages -> 1 .. NumPages \cup {NULL}]
  <2>1. is_free' \in [Pages -> BOOLEAN] BY <1>1 DEF mark
  <2>2. next_page' \in [Pages -> 1 .. NumPages \cup {NULL}] BY <1>1 DEF mark
  <2>3. QED BY <2>1, <2>2
<1>2. ASSUME NEW size \in Sizes, malloc_page(size) PROVE TypeOK'
  BY <1>2 DEF malloc_page
<1>3. ASSUME NEW size \in Sizes, malloc_pages(size) PROVE TypeOK'
  <2>1. num_page_need(size) \in Nat \ {0} BY <1>3, NeedPositive DEF malloc_pages
  <2>2. PICK s \in Pages : Run(s, num_page_need(size)) /\ mark(s, num_page_need(size))
                           /\ live' = [live EXCEPT ![s] = num_page_need(size)]
    BY <1>3 DEF malloc_pages
  <2>3. num_page_need(size) \in 0 .. NumPages BY <2>1, <2>2 DEF Run
  <2>4. large' = TRUE /\ crashed' = crashed BY <1>3 DEF malloc_pages
  <2>5. QED BY <1>1, <2>1, <2>2, <2>3, <2>4
<1>4. ASSUME NEW size \in Sizes, malloc_pages_fails(size) PROVE TypeOK'
  <2>1. num_page_need(size) \in Nat \ {0} BY <1>4, NeedPositive DEF malloc_pages_fails
  <2>2. PICK s \in Pages : mark(s, num_page_need(size))
    BY <1>4 DEF malloc_pages_fails
  <2>3. large' = TRUE /\ crashed' = crashed /\ live' = live BY <1>4 DEF malloc_pages_fails
  <2>4. QED BY <1>1, <2>1, <2>2, <2>3
<1>5. ASSUME NEW size \in Sizes, malloc_pages_crashes(size) PROVE TypeOK'
  BY <1>5 DEF malloc_pages_crashes
<1>6. ASSUME NEW p \in Pages, myfree(p) PROVE TypeOK'
  BY <1>6 DEF myfree
<1>7. ASSUME UNCHANGED vars PROVE TypeOK'
  BY <1>7 DEF vars
<1>8. QED BY <1>2, <1>3, <1>4, <1>5, <1>6, <1>7 DEF Next

\* A failed request takes pages and gives none: extents stay taken and apart
\* (mymalloc.c:147-158).
LEMMA TakingForNobody ==
    ASSUME IInv, live' = live, \A k \in Pages : is_free'[k] => is_free[k]
    PROVE  ExtentsTaken' /\ ExtentsDisjoint'
BY DEF IInv, ExtentsTaken, ExtentsDisjoint, Extent

\* Freeing the first page of an allocation touches no other allocation, since
\* none overlaps (mymalloc.c:297-299).
LEMMA Freeing ==
    ASSUME IInv, NEW p \in Pages, myfree(p)
    PROVE  ExtentsTaken' /\ ExtentsDisjoint'
<1> USE AllocatorAssumption DEF Pages
<1>0. live \in [Pages -> 0 .. NumPages] /\ is_free \in [Pages -> BOOLEAN]
  BY DEF IInv, TypeOK
<1>1. live' = [live EXCEPT ![p] = 0] /\ is_free' = [is_free EXCEPT ![p] = TRUE] /\ live[p] > 0
  BY DEF myfree
<1>2. Extent(p)' = {} /\ \A q \in Pages : q # p => Extent(q)' = Extent(q)
  BY <1>0, <1>1 DEF Extent
<1>3. \A q \in Pages : q # p => p \notin Extent(q)
  <2>1. p \in Extent(p) BY <1>0, <1>1 DEF Extent
  <2>2. QED BY <2>1 DEF IInv, ExtentsDisjoint
<1>4. ExtentsTaken'
  BY <1>0, <1>1, <1>2, <1>3 DEF IInv, ExtentsTaken
<1>5. ExtentsDisjoint'
  BY <1>2 DEF IInv, ExtentsDisjoint
<1>6. QED BY <1>4, <1>5

\* Every call keeps the invariant (mymalloc.c:60-158, 268-300).
LEMMA InvStep == IInv /\ [Next]_vars => IInv'
<1> SUFFICES ASSUME IInv, [Next]_vars PROVE IInv'
  OBVIOUS
<1>0. TypeOK' BY TypeStep DEF IInv
<1>1. ASSUME NEW size \in Sizes, malloc_page(size) PROVE ExtentsTaken' /\ ExtentsDisjoint'
  BY <1>1, PageTaken, TakingFreePages
<1>2. ASSUME NEW size \in Sizes, malloc_pages(size) PROVE ExtentsTaken' /\ ExtentsDisjoint'
  BY <1>2, PagesTaken, TakingFreePages
<1>3. ASSUME NEW size \in Sizes, malloc_pages_fails(size) PROVE ExtentsTaken' /\ ExtentsDisjoint'
  BY <1>3, TakingForNobody DEF malloc_pages_fails, mark
<1>4. ASSUME NEW size \in Sizes, malloc_pages_crashes(size) PROVE ExtentsTaken' /\ ExtentsDisjoint'
  BY <1>4, TakingForNobody DEF malloc_pages_crashes
<1>5. ASSUME NEW p \in Pages, myfree(p) PROVE ExtentsTaken' /\ ExtentsDisjoint'
  BY <1>5, Freeing
<1>6. ASSUME UNCHANGED vars PROVE ExtentsTaken' /\ ExtentsDisjoint'
  BY <1>6, TakingForNobody DEF vars
<1>7. QED BY <1>0, <1>1, <1>2, <1>3, <1>4, <1>5, <1>6 DEF Next, IInv

\* The invariant holds once the descriptors are set up (mymalloc.c:39-57).
LEMMA InitInv == Init => IInv
<1> SUFFICES ASSUME Init PROVE IInv
  OBVIOUS
<1>1. TypeOK
  <2>1. live \in [Pages -> 0 .. NumPages] BY AllocatorAssumption DEF Init
  <2>2. is_free \in [Pages -> BOOLEAN] BY DEF Init
  <2>3. next_page \in [Pages -> 1 .. NumPages \cup {NULL}] BY DEF Init
  <2>4. large \in BOOLEAN /\ crashed \in BOOLEAN BY DEF Init
  <2>5. QED BY <2>1, <2>2, <2>3, <2>4 DEF TypeOK
<1>2. \A p \in Pages : Extent(p) = {} BY AllocatorAssumption DEF Init, Extent, Pages
<1>3. QED BY <1>1, <1>2 DEF IInv, ExtentsTaken, ExtentsDisjoint

\* The types of the descriptors are right for any number of pages.
THEOREM AllocatorTypes == Spec => []TypeOK
<1>1. Init => TypeOK BY InitInv DEF IInv
<1>2. QED BY <1>1, TypeStep, PTL DEF Spec

\* No two allocations of mymalloc that are live at a time share a page, for any
\* number of pages and any sequence of calls.
THEOREM AllocationsNeverOverlap == Spec => []NoOverlap
<1>1. IInv => NoOverlap BY DEF IInv, NoOverlap
<1>2. QED BY <1>1, InitInv, InvStep, PTL DEF Spec

\* A step in which nothing larger than a page is asked for takes no page but
\* for a client (mymalloc.c:106-111, 297).
LEMMA SmallStep == IInv /\ NothingLostInSmall /\ [Next]_vars => NothingLostInSmall'
<1> SUFFICES ASSUME IInv, NothingLostInSmall, [Next]_vars, ~large'
             PROVE  \A k \in Pages : ~ is_free'[k] => live'[k] = 1
  BY DEF NothingLostInSmall
<1>0. live \in [Pages -> 0 .. NumPages] /\ is_free \in [Pages -> BOOLEAN]
  BY DEF IInv, TypeOK
<1>1. ASSUME NEW size \in Sizes, malloc_page(size) PROVE \A k \in Pages : ~ is_free'[k] => live'[k] = 1
  <2>1. PICK p \in Pages : is_free' = [is_free EXCEPT ![p] = FALSE] /\ live' = [live EXCEPT ![p] = 1]
    BY <1>1 DEF malloc_page
  <2>2. large' = large BY <1>1 DEF malloc_page
  <2>3. QED BY <1>0, <2>1, <2>2 DEF NothingLostInSmall
<1>2. ASSUME NEW p \in Pages, myfree(p) PROVE \A k \in Pages : ~ is_free'[k] => live'[k] = 1
  <2>1. is_free' = [is_free EXCEPT ![p] = TRUE] /\ live' = [live EXCEPT ![p] = 0] /\ large' = large
    BY <1>2 DEF myfree
  <2>2. QED BY <1>0, <2>1 DEF NothingLostInSmall
<1>3. ASSUME UNCHANGED vars PROVE \A k \in Pages : ~ is_free'[k] => live'[k] = 1
  BY <1>3 DEF vars, NothingLostInSmall
<1>4. \A size \in Sizes : ~ malloc_pages(size) /\ ~ malloc_pages_fails(size) /\ ~ malloc_pages_crashes(size)
  BY DEF malloc_pages, malloc_pages_fails, malloc_pages_crashes
<1>5. QED BY <1>1, <1>2, <1>3, <1>4 DEF Next

\* As long as requests fit in a page no page is lost, for any number of pages.
THEOREM SmallRequestsLoseNothing == Spec => []NothingLostInSmall
<1>1. Init => NothingLostInSmall BY DEF Init, NothingLostInSmall
<1>2. QED BY <1>1, InitInv, InvStep, SmallStep, PTL DEF Spec

\* Once lost, a page is never free again: only the first page of a live
\* allocation is ever given back (mymalloc.c:297).
THEOREM LostPagesStayLost == Spec => LostForGood
<1> DEFINE Lost(k) == ~ is_free[k] /\ \A p \in Pages : k \notin Extent(p)
<1>1. ASSUME IInv, [Next]_vars, NEW k \in Pages, Lost(k) PROVE ~ is_free'[k]
  <2>0. live \in [Pages -> 0 .. NumPages] /\ is_free \in [Pages -> BOOLEAN]
    BY <1>1 DEF IInv, TypeOK
  <2>1. ASSUME NEW p \in Pages, myfree(p) PROVE ~ is_free'[k]
    <3>1. is_free' = [is_free EXCEPT ![p] = TRUE] /\ live[p] > 0 BY <2>1 DEF myfree
    <3>2. p \in Extent(p) BY <2>0, <3>1, AllocatorAssumption DEF Extent, Pages
    <3>3. QED BY <1>1, <2>0, <3>1, <3>2
  <2>2. ASSUME NEW size \in Sizes, malloc_page(size) PROVE ~ is_free'[k]
    BY <1>1, <2>0, <2>2 DEF malloc_page
  <2>3. ASSUME NEW size \in Sizes, malloc_pages(size) \/ malloc_pages_fails(size) \/ malloc_pages_crashes(size)
        PROVE  ~ is_free'[k]
    BY <1>1, <2>3 DEF malloc_pages, malloc_pages_fails, malloc_pages_crashes, mark
  <2>4. ASSUME UNCHANGED vars PROVE ~ is_free'[k]
    BY <1>1, <2>4 DEF vars
  <2>5. QED BY <1>1, <2>1, <2>2, <2>3, <2>4 DEF Next
<1>2. IInv /\ [Next]_vars => [\A k \in Pages : Lost(k) => ~ is_free'[k]]_vars
  BY <1>1
<1>3. QED BY <1>2, InitInv, InvStep, PTL DEF Spec, LostForGood

\* Every step of the allocator is an allocation or a release of the Heap, or
\* changes nothing its clients know of.
LEMMA HeapStep == IInv /\ [Next]_vars => [Clients!Next]_live
<1> SUFFICES ASSUME IInv, [Next]_vars PROVE Clients!Next \/ live' = live
  OBVIOUS
<1> USE DEF Clients!Next, Clients!Pages, Pages
<1>0. ASSUME NEW s \in Pages, NEW n \in 1 .. NumPages, Run(s, n), live' = [live EXCEPT ![s] = n],
             \A p \in Pages : Extent(p) \cap (s .. s + n - 1) = {}
      PROVE  Clients!Next
  BY <1>0 DEF Clients!Allocate, Clients!Extent, Extent, Run
<1>1. ASSUME NEW size \in Sizes, malloc_page(size) PROVE Clients!Next
  BY <1>0, <1>1, PageTaken, TakingFreePages
<1>2. ASSUME NEW size \in Sizes, malloc_pages(size) PROVE Clients!Next
  BY <1>0, <1>2, PagesTaken, TakingFreePages
<1>3. ASSUME NEW size \in Sizes, malloc_pages_fails(size) \/ malloc_pages_crashes(size) PROVE live' = live
  BY <1>3 DEF malloc_pages_fails, malloc_pages_crashes
<1>4. ASSUME NEW p \in Pages, myfree(p) PROVE Clients!Next
  BY <1>4 DEF myfree, Clients!Release
<1>5. QED BY <1>1, <1>2, <1>3, <1>4 DEF Next, vars

\* mymalloc and myfree implement the Heap for any number of pages: whatever
\* pages they lose, clients are only ever given pages of their own.
THEOREM AllocatorImplementsHeap == Spec => ImplementsHeap
<1>1. Init => Clients!Init BY DEF Init, Clients!Init, Clients!Pages, Pages
<1>2. QED BY <1>1, InitInv, InvStep, HeapStep, PTL DEF Spec, ImplementsHeap, Clients!Spec
=============================================================================
