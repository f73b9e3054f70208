------------------------ MODULE CircularQueueProofs ------------------------
(***************************************************************************)
(* The circular lists of asst1/my_pthread.c are rings, and first-in        *)
(* first-out queues, for any heap, any number of queues and any contents.  *)
(*                                                                         *)
(* RingsPartitionTheHeap speaks of a walk along the links, which is a      *)
(* recursive function of them and hard to follow through an assignment to  *)
(* a link.  The inductive invariant says instead that there are sequences  *)
(* of nodes that the links of each queue close to a ring; every operation  *)
(* says how they change, and a walk along a ring is shown to find the      *)
(* nodes of its sequence.                                                  *)
(***************************************************************************)
EXTENDS CircularQueue, Sequences, WellFoundedInduction, TLAPS

\* A set of numbers that is not empty has a least one.  This is induction in the form
\* the proofs use it: there is no least number that refutes a claim.
LEMMA LeastNumber ==
    ASSUME NEW T, T \subseteq Nat, T # {}
    PROVE  \E n \in T : \A m \in T : n <= m
<1> DEFINE R == OpToRel(<, Nat)
<1>1. IsWellFoundedOn(R, Nat)
  BY NatLessThanWellFounded
<1>2. \A x, y \in Nat : x < y => <<x, y>> \in R
  BY DEF OpToRel
<1> HIDE DEF R
<1>3. PICK n \in T : \A y \in T : ~ (<<y, n>> \in R)
  BY <1>1, WFMin
<1>4. \A m \in T : ~(m < n)
  BY <1>2, <1>3
<1>5. \A m \in T : n <= m
  BY <1>4
<1>6. QED
  BY <1>5

-----------------------------------------------------------------------------
\* c gives the nodes of each queue from its first to its last.
RingOf(q, s) ==
    /\ s \in [1..size[q] -> Nodes]
    /\ size[q] = 0 => back[q] = NULL
    /\ size[q] > 0 => back[q] = s[size[q]] /\ next[back[q]] = s[1]
    /\ \A i \in 1..(size[q] - 1) : next[s[i]] = s[i + 1]

\* Each queue has its ring, no node is in two rings or twice in one, and the nodes in
\* rings are the allocated ones.
Rings(c) ==
    /\ \A q \in Queues : RingOf(q, c[q])
    /\ \A q, r \in Queues : \A i \in 1..size[q], j \in 1..size[r] :
         c[q][i] = c[r][j] => q = r /\ i = j
    /\ \A q \in Queues : \A i \in 1..size[q] : c[q][i] \in allocated
    /\ \A n \in allocated : \E q \in Queues : \E i \in 1..size[q] : c[q][i] = n

\* The types of the fields.
FieldsOK ==
    /\ back \in [Queues -> Nodes \cup {NULL}]
    /\ size \in [Queues -> Nat]
    /\ thread \in [Nodes -> Threads \cup {NULL}]
    /\ next \in [Nodes -> Nodes \cup {NULL}]
    /\ allocated \subseteq Nodes

QueueInv == FieldsOK /\ \E c : Rings(c)

\* The function s without its first entry, and with one more at the end.
Shifted(s, n) == [i \in 1..(n - 1) |-> s[i + 1]]
Extended(s, n, x) == [i \in 1..(n + 1) |-> IF i = n + 1 THEN x ELSE s[i]]

\* The rings after the first node of q is taken out, and after x is put behind its last.
RingsWithout(c, q) == [r \in Queues |-> IF r = q THEN Shifted(c[q], size[q]) ELSE c[r]]
RingsWith(c, q, x) == [r \in Queues |-> IF r = q THEN Extended(c[q], size[q], x) ELSE c[r]]

\* make_queue makes empty rings.
LEMMA QueueInit == Init => QueueInv
<1> SUFFICES ASSUME Init PROVE QueueInv
  OBVIOUS
<1> DEFINE c == [q \in Queues |-> [i \in 1..0 |-> NULL]]
<1>1. FieldsOK
  BY DEF Init, FieldsOK
<1>2. ASSUME NEW q \in Queues PROVE RingOf(q, c[q]) /\ size[q] = 0
  BY DEF Init, RingOf
<1>3. Rings(c)
  <2>1. \A q \in Queues : size[q] = 0
    BY DEF Init
  <2>2. allocated = {}
    BY DEF Init
  <2> HIDE DEF c
  <2>3. QED
    BY <1>2, <2>1, <2>2 DEF Rings
<1>4. QED
  BY <1>1, <1>3 DEF QueueInv

\* What get_next does to the structure of a queue that is not empty, whichever of its
\* branches it takes: the first node goes, and the last one points to the second.
LEMMA GetEffect ==
    ASSUME FieldsOK, NEW c, Rings(c), NEW q \in Queues, GetOnly(q) \/ GetFirst(q)
    PROVE  /\ size[q] > 0
           /\ size' = [size EXCEPT ![q] = size[q] - 1]
           /\ back' = IF size[q] = 1 THEN [back EXCEPT ![q] = NULL] ELSE back
           /\ allocated' = allocated \ {c[q][1]}
           /\ next' \in [Nodes -> Nodes \cup {NULL}]
           /\ \A m \in Nodes \ {c[q][1], back[q]} : next'[m] = next[m]
           /\ size[q] > 1 => next'[back[q]] = c[q][2]
           /\ thread' = [thread EXCEPT ![c[q][1]] = NULL]
           /\ returned' = thread[c[q][1]]
<1>1. /\ RingOf(q, c[q])
      /\ size[q] \in Nat /\ next \in [Nodes -> Nodes \cup {NULL}]
  BY DEF FieldsOK, Rings
<1>2. CASE GetOnly(q)
  <2>1. size[q] = 1 /\ back[q] = c[q][1] /\ c[q][1] \in Nodes
    BY <1>1, <1>2 DEF GetOnly, RingOf
  <2>2. QED
    BY <1>1, <1>2, <2>1 DEF GetOnly, free
<1>3. CASE GetFirst(q)
  <2>1. /\ size[q] > 1 /\ next[back[q]] = c[q][1] /\ back[q] = c[q][size[q]]
        /\ c[q][1] \in Nodes /\ c[q][2] \in Nodes /\ back[q] \in Nodes
    BY <1>1, <1>3 DEF GetFirst, RingOf
  <2>2. back[q] # c[q][1]
    <3>1. 1 \in 1..size[q] /\ size[q] \in 1..size[q] /\ size[q] # 1
      BY <1>1, <2>1
    <3>2. QED
      BY <2>1, <3>1 DEF Rings
  <2>3. next[c[q][1]] = c[q][2]
    <3>1. 1 \in 1..(size[q] - 1)
      BY <1>1, <2>1
    <3>2. QED
      BY <1>1, <3>1 DEF RingOf
  <2>4. unlink_first(q) = [next EXCEPT ![back[q]] = c[q][2]]
    BY <2>1, <2>3 DEF unlink_first
  <2>5. next' = [[next EXCEPT ![back[q]] = c[q][2]] EXCEPT ![c[q][1]] = NULL]
    BY <1>3, <2>1, <2>4 DEF GetFirst, free
  <2>6. /\ next' \in [Nodes -> Nodes \cup {NULL}]
        /\ \A m \in Nodes \ {c[q][1], back[q]} : next'[m] = next[m]
        /\ next'[back[q]] = c[q][2]
    BY <1>1, <2>1, <2>2, <2>5
  <2>7. QED
    BY <1>1, <1>3, <2>1, <2>6 DEF GetFirst, free
<1>4. QED
  BY <1>2, <1>3

\* get_next leaves rings: that of q without its first node, and all others as they were.
LEMMA GetRings ==
    ASSUME FieldsOK, NEW c, Rings(c), NEW q \in Queues, GetOnly(q) \/ GetFirst(q),
           NEW d, d = RingsWithout(c, q)
    PROVE  FieldsOK' /\ Rings(d)'
<1> DEFINE n == c[q][1]
<1>1. /\ back \in [Queues -> Nodes \cup {NULL}] /\ size \in [Queues -> Nat]
      /\ \A r \in Queues : RingOf(r, c[r])
  BY DEF FieldsOK, Rings
<1>2. /\ size[q] > 0
      /\ size' = [size EXCEPT ![q] = size[q] - 1]
      /\ back' = IF size[q] = 1 THEN [back EXCEPT ![q] = NULL] ELSE back
      /\ allocated' = allocated \ {n}
      /\ next' \in [Nodes -> Nodes \cup {NULL}]
      /\ \A m \in Nodes \ {n, back[q]} : next'[m] = next[m]
      /\ size[q] > 1 => next'[back[q]] = c[q][2]
      /\ thread' = [thread EXCEPT ![n] = NULL]
  BY GetEffect
<1>3. FieldsOK'
  <2>1. size' \in [Queues -> Nat]
    BY <1>1, <1>2
  <2>2. back' \in [Queues -> Nodes \cup {NULL}]
    BY <1>1, <1>2
  <2>3. thread' \in [Nodes -> Threads \cup {NULL}] /\ allocated' \subseteq Nodes
    BY <1>2 DEF FieldsOK
  <2>4. QED
    BY <1>2, <2>1, <2>2, <2>3 DEF FieldsOK
<1>4. /\ size'[q] = size[q] - 1 /\ size'[q] \in Nat /\ size[q] \in Nat
      /\ \A r \in Queues : r # q => size'[r] = size[r] /\ back'[r] = back[r] /\ d[r] = c[r]
      /\ d[q] = [i \in 1..(size[q] - 1) |-> c[q][i + 1]]
      /\ \A r \in Queues : size[r] \in Nat
  BY <1>1, <1>2 DEF RingsWithout, Shifted
<1>5. /\ \A r, s \in Queues : \A i \in 1..size[r], j \in 1..size[s] :
            c[r][i] = c[s][j] => r = s /\ i = j
      /\ \A r \in Queues : \A i \in 1..size[r] : c[r][i] \in allocated
  BY DEF Rings
<1>6. \A r \in Queues : \A i \in 1..size[r] : c[r][i] \in Nodes
  BY <1>1 DEF RingOf
<1>7. 1 \in 1..size[q] /\ size[q] \in 1..size[q] /\ back[q] = c[q][size[q]] /\ n \in Nodes
  BY <1>1, <1>2, <1>4, <1>6 DEF RingOf
<1>8. ASSUME NEW r \in Queues, r # q PROVE RingOf(r, d[r])'
  <2>1. /\ c[r] \in [1..size[r] -> Nodes]
        /\ size[r] = 0 => back[r] = NULL
        /\ size[r] > 0 => back[r] = c[r][size[r]] /\ next[back[r]] = c[r][1]
        /\ \A i \in 1..(size[r] - 1) : next[c[r][i]] = c[r][i + 1]
    BY <1>1 DEF RingOf
  <2>2. \A i \in 1..size[r] : c[r][i] \in Nodes \ {n, back[q]}
    BY <1>5, <1>6, <1>7, <1>8
  <2>3. \A i \in 1..size[r] : next'[c[r][i]] = next[c[r][i]]
    BY <1>2, <2>2
  <2>4. /\ \A i \in 1..(size[r] - 1) : i \in 1..size[r]
        /\ size[r] > 0 => size[r] \in 1..size[r]
    BY <1>4
  <2>5. size'[r] = size[r] /\ back'[r] = back[r] /\ d[r] = c[r]
    BY <1>4, <1>8
  <2>6. d[r] \in [1..size'[r] -> Nodes] /\ (size'[r] = 0 => back'[r] = NULL)
    BY <2>1, <2>5
  <2>7. size'[r] > 0 => back'[r] = d[r][size'[r]] /\ next'[back'[r]] = d[r][1]
    BY <2>1, <2>3, <2>4, <2>5
  <2>8. \A i \in 1..(size'[r] - 1) : next'[d[r][i]] = d[r][i + 1]
    BY <2>1, <2>3, <2>4, <2>5
  <2>9. QED
    BY <2>6, <2>7, <2>8 DEF RingOf
<1>9. RingOf(q, d[q])'
  <2>1. /\ d[q] \in [1..size'[q] -> Nodes]
        /\ \A i \in 1..size'[q] : i + 1 \in 1..size[q] /\ d[q][i] = c[q][i + 1]
    <3>1. \A i \in 1..(size[q] - 1) : i + 1 \in 1..size[q]
      BY <1>4
    <3>2. QED
      BY <1>4, <1>6, <3>1
  <2>2. CASE size[q] = 1
    BY <1>1, <1>2, <1>4, <2>1, <2>2 DEF RingOf
  <2>3. CASE size[q] > 1
    <3>1. back'[q] = back[q] /\ size'[q] > 0 /\ (size[q] - 1) + 1 = size[q]
      BY <1>2, <1>4, <2>3
    <3>2. back'[q] = d[q][size'[q]] /\ next'[back'[q]] = d[q][1]
      BY <1>2, <1>4, <1>7, <2>1, <2>3, <3>1
    <3>3. ASSUME NEW i \in 1..(size'[q] - 1) PROVE next'[d[q][i]] = d[q][i + 1]
      <4>1. /\ i \in 1..size'[q] /\ i + 1 \in 1..size'[q]
            /\ i + 1 \in 1..(size[q] - 1) /\ i + 1 # 1 /\ i + 1 # size[q]
            /\ i + 1 \in 1..size[q]
        BY <1>4
      <4>2. d[q][i] = c[q][i + 1] /\ d[q][i + 1] = c[q][(i + 1) + 1]
        BY <2>1, <4>1
      <4>3. c[q][i + 1] \in Nodes \ {n, back[q]}
        BY <1>5, <1>6, <1>7, <4>1
      <4>4. next[c[q][i + 1]] = c[q][(i + 1) + 1]
        BY <1>1, <4>1 DEF RingOf
      <4>5. QED
        BY <1>2, <4>2, <4>3, <4>4
    <3>4. QED
      BY <2>1, <3>1, <3>2, <3>3 DEF RingOf
  <2>4. QED
    BY <1>2, <1>4, <2>2, <2>3
<1>10. \A r \in Queues : \A i \in 1..size'[r] :
         \E j \in 1..size[r] : /\ d[r][i] = c[r][j]
                               /\ j = (IF r = q THEN i + 1 ELSE i)
  <2>1. ASSUME NEW i \in 1..size'[q] PROVE i + 1 \in 1..size[q] /\ d[q][i] = c[q][i + 1]
    BY <1>4
  <2>2. QED
    BY <1>4, <2>1
<1>11. \A r, s \in Queues : \A i \in 1..size'[r], j \in 1..size'[s] :
         d[r][i] = d[s][j] => r = s /\ i = j
  <2>1. SUFFICES ASSUME NEW r \in Queues, NEW s \in Queues, NEW i \in 1..size'[r],
                        NEW j \in 1..size'[s], d[r][i] = d[s][j]
                 PROVE  r = s /\ i = j
    OBVIOUS
  <2>2. PICK k \in 1..size[r] : d[r][i] = c[r][k] /\ k = (IF r = q THEN i + 1 ELSE i)
    BY <1>10
  <2>3. PICK l \in 1..size[s] : d[s][j] = c[s][l] /\ l = (IF s = q THEN j + 1 ELSE j)
    BY <1>10
  <2>4. r = s /\ k = l
    <3>1. c[r][k] = c[s][l]
      BY <2>1, <2>2, <2>3
    <3>2. QED
      BY <1>5, <3>1
  <2>5. QED
    BY <2>2, <2>3, <2>4
<1>12. \A r \in Queues : \A i \in 1..size'[r] : d[r][i] \in allocated'
  <2>1. SUFFICES ASSUME NEW r \in Queues, NEW i \in 1..size'[r] PROVE d[r][i] \in allocated'
    OBVIOUS
  <2>2. PICK k \in 1..size[r] : d[r][i] = c[r][k] /\ k = (IF r = q THEN i + 1 ELSE i)
    BY <1>10
  <2>3. ~(r = q /\ k = 1)
    BY <1>4, <2>2
  <2>4. QED
    BY <1>2, <1>5, <1>7, <2>2, <2>3
<1>13. ASSUME NEW m \in allocated' PROVE \E r \in Queues : \E i \in 1..size'[r] : d[r][i] = m
  <2>1. PICK r \in Queues : \E k \in 1..size[r] : c[r][k] = m
    BY <1>2, <1>13 DEF Rings
  <2>p. PICK k \in 1..size[r] : c[r][k] = m
    BY <2>1
  <2>2. CASE r # q
    BY <1>4, <2>p, <2>2
  <2>3. CASE r = q
    <3>1. k # 1
      BY <1>2, <1>13, <2>p, <2>3
    <3>2. k - 1 \in 1..size'[q] /\ (k - 1) + 1 = k
      BY <1>4, <2>3, <3>1
    <3>3. d[q][k - 1] = m
      BY <1>4, <2>p, <2>3, <3>2
    <3>4. QED
      BY <3>2, <3>3
  <2>4. QED
    BY <2>2, <2>3
<1>14. QED
  BY <1>3, <1>8, <1>9, <1>11, <1>12, <1>13 DEF Rings

\* enqueue leaves rings: that of q with the new node behind its last, and all others as
\* they were.
LEMMA EnqueueRings ==
    ASSUME FieldsOK, NEW c, Rings(c), NEW q \in Queues, NEW x \in Threads,
           NEW new \in Nodes \ allocated,
           allocated' = allocated \cup {new},
           thread' = [thread EXCEPT ![new] = x],
           next' = linked(q, new),
           back' = [back EXCEPT ![q] = new],
           size' = [size EXCEPT ![q] = @ + 1],
           NEW d, d = RingsWith(c, q, new)
    PROVE  FieldsOK' /\ Rings(d)'
<1>1. /\ back \in [Queues -> Nodes \cup {NULL}] /\ size \in [Queues -> Nat]
      /\ next \in [Nodes -> Nodes \cup {NULL}]
      /\ \A r \in Queues : RingOf(r, c[r])
  BY DEF FieldsOK, Rings
<1>2. /\ size[q] \in Nat /\ size'[q] = size[q] + 1
      /\ back'[q] = new
      /\ \A r \in Queues : r # q => size'[r] = size[r] /\ back'[r] = back[r] /\ d[r] = c[r]
      /\ d[q] = [i \in 1..(size[q] + 1) |-> IF i = size[q] + 1 THEN new ELSE c[q][i]]
      /\ \A r \in Queues : size[r] \in Nat
  BY <1>1 DEF RingsWith, Extended
<1>3. /\ \A r, s \in Queues : \A i \in 1..size[r], j \in 1..size[s] :
            c[r][i] = c[s][j] => r = s /\ i = j
      /\ \A r \in Queues : \A i \in 1..size[r] : c[r][i] \in Nodes /\ c[r][i] # new
      /\ \A r \in Queues : \A i \in 1..size[r] : c[r][i] \in allocated
  <2>1. \A r, s \in Queues : \A i \in 1..size[r], j \in 1..size[s] :
          c[r][i] = c[s][j] => r = s /\ i = j
    BY DEF Rings
  <2>2. \A r \in Queues : \A i \in 1..size[r] : c[r][i] \in allocated
    BY DEF Rings
  <2>3. \A r \in Queues : \A i \in 1..size[r] : c[r][i] \in Nodes
    BY <1>1 DEF RingOf
  <2>4. QED
    BY <2>1, <2>2, <2>3
<1>4. size[q] > 0 => /\ size[q] \in 1..size[q] /\ 1 \in 1..size[q]
                     /\ back[q] = c[q][size[q]] /\ next[back[q]] = c[q][1]
                     /\ back[q] \in Nodes /\ back[q] # new
  BY <1>1, <1>2, <1>3 DEF RingOf
<1>5. /\ next' \in [Nodes -> Nodes \cup {NULL}]
      /\ \A m \in Nodes \ {new} : (size[q] > 0 => m # back[q]) => next'[m] = next[m]
      /\ size[q] > 0 => next'[back[q]] = new /\ next'[new] = c[q][1]
      /\ size[q] = 0 => next'[new] = new
  <2>1. CASE size[q] > 0
    <3>1. next' = [next EXCEPT ![new] = next[back[q]], ![back[q]] = new]
      BY <2>1 DEF linked
    <3>2. c[q][1] \in Nodes
      BY <1>3, <1>4, <2>1
    <3>3. QED
      BY <1>1, <1>4, <2>1, <3>1, <3>2
  <2>2. CASE size[q] = 0
    BY <1>1, <2>2 DEF linked
  <2>3. QED
    BY <1>2, <2>1, <2>2
<1>6. FieldsOK'
  <2>1. size' \in [Queues -> Nat] /\ back' \in [Queues -> Nodes \cup {NULL}]
    BY <1>1
  <2>2. thread' \in [Nodes -> Threads \cup {NULL}] /\ allocated' \subseteq Nodes
    BY DEF FieldsOK
  <2>3. QED
    BY <1>5, <2>1, <2>2 DEF FieldsOK
<1>7. ASSUME NEW r \in Queues, r # q PROVE RingOf(r, d[r])'
  <2>1. /\ c[r] \in [1..size[r] -> Nodes]
        /\ size[r] = 0 => back[r] = NULL
        /\ size[r] > 0 => back[r] = c[r][size[r]] /\ next[back[r]] = c[r][1]
        /\ \A i \in 1..(size[r] - 1) : next[c[r][i]] = c[r][i + 1]
    BY <1>1 DEF RingOf
  <2>2. \A i \in 1..size[r] : size[q] > 0 => c[r][i] # back[q]
    BY <1>3, <1>4, <1>7
  <2>3. \A i \in 1..size[r] : next'[c[r][i]] = next[c[r][i]]
    BY <1>3, <1>5, <2>2
  <2>4. /\ \A i \in 1..(size[r] - 1) : i \in 1..size[r]
        /\ size[r] > 0 => size[r] \in 1..size[r]
    BY <1>2
  <2>5. /\ d[r] \in [1..size'[r] -> Nodes]
        /\ size'[r] = 0 => back'[r] = NULL
    BY <1>2, <1>7, <2>1
  <2>6. size'[r] > 0 => back'[r] = d[r][size'[r]] /\ next'[back'[r]] = d[r][1]
    BY <1>2, <1>7, <2>1, <2>3, <2>4
  <2>7. \A i \in 1..(size'[r] - 1) : next'[d[r][i]] = d[r][i + 1]
    BY <1>2, <1>7, <2>1, <2>3, <2>4
  <2>8. QED
    BY <2>5, <2>6, <2>7 DEF RingOf
<1>8. RingOf(q, d[q])'
  <2>1. /\ d[q] \in [1..size'[q] -> Nodes]
        /\ d[q][size'[q]] = new
        /\ \A i \in 1..size[q] : i \in 1..size'[q] /\ d[q][i] = c[q][i]
    <3>1. \A i \in 1..(size[q] + 1) : i = size[q] + 1 \/ i \in 1..size[q]
      BY <1>2
    <3>2. \A i \in 1..size[q] : i \in 1..(size[q] + 1) /\ i # size[q] + 1
      BY <1>2
    <3>3. size[q] + 1 \in 1..(size[q] + 1)
      BY <1>2
    <3>4. QED
      BY <1>2, <1>3, <3>1, <3>2, <3>3
  <2>2. next'[back'[q]] = d[q][1]
    <3>1. CASE size[q] = 0
      BY <1>2, <1>5, <2>1, <3>1
    <3>2. CASE size[q] > 0
      BY <1>2, <1>4, <1>5, <2>1, <3>2
    <3>3. QED
      BY <1>2, <3>1, <3>2
  <2>3. ASSUME NEW i \in 1..(size'[q] - 1) PROVE next'[d[q][i]] = d[q][i + 1]
    <3>1. i \in 1..size[q] /\ size[q] > 0
      BY <1>2
    <3>2. d[q][i] = c[q][i] /\ c[q][i] \in Nodes \ {new}
      BY <1>3, <2>1, <3>1
    <3>3. CASE i = size[q]
      BY <1>2, <1>4, <1>5, <2>1, <3>1, <3>2, <3>3
    <3>4. CASE i # size[q]
      <4>1. i \in 1..(size[q] - 1) /\ i + 1 \in 1..size[q]
        BY <1>2, <3>1, <3>4
      <4>2. next[c[q][i]] = c[q][i + 1]
        BY <1>1, <4>1 DEF RingOf
      <4>3. c[q][i] # back[q]
        BY <1>3, <1>4, <3>1, <3>4
      <4>4. QED
        BY <1>5, <2>1, <3>2, <4>1, <4>2, <4>3
    <3>5. QED
      BY <3>3, <3>4
  <2>4. size'[q] # 0 /\ back'[q] = d[q][size'[q]]
    BY <1>2, <2>1
  <2>5. QED
    BY <2>1, <2>2, <2>3, <2>4 DEF RingOf
<1>9. \A r \in Queues : \A i \in 1..size'[r] :
         \/ r = q /\ i = size'[q] /\ d[r][i] = new
         \/ i \in 1..size[r] /\ d[r][i] = c[r][i]
  <2>1. ASSUME NEW i \in 1..size'[q] PROVE \/ i = size'[q] /\ d[q][i] = new
                                           \/ i \in 1..size[q] /\ d[q][i] = c[q][i]
    BY <1>2
  <2>2. QED
    BY <1>2, <2>1
<1>10. \A r, s \in Queues : \A i \in 1..size'[r], j \in 1..size'[s] :
         d[r][i] = d[s][j] => r = s /\ i = j
  BY <1>3, <1>9
<1>11. \A r \in Queues : \A i \in 1..size'[r] : d[r][i] \in allocated'
  BY <1>3, <1>9
<1>12. ASSUME NEW m \in allocated' PROVE \E r \in Queues : \E i \in 1..size'[r] : d[r][i] = m
  <2>1. CASE m = new
    <3>1. size'[q] \in 1..size'[q] /\ d[q][size'[q]] = new
      BY <1>2
    <3>2. QED
      BY <2>1, <3>1
  <2>2. CASE m # new
    <3>1. PICK r \in Queues : \E k \in 1..size[r] : c[r][k] = m
      BY <1>12, <2>2 DEF Rings
    <3>p. PICK k \in 1..size[r] : c[r][k] = m
      BY <3>1
    <3>2. k \in 1..size'[r] /\ d[r][k] = m
      BY <1>2, <3>p
    <3>3. QED
      BY <3>2
  <2>3. QED
    BY <2>1, <2>2
<1>13. QED
  BY <1>6, <1>7, <1>8, <1>10, <1>11, <1>12 DEF Rings

-----------------------------------------------------------------------------
\* f is a walk of n links along nx that starts at b.
IsWalk(f, n, b, nx) == f = [i \in 0..n |-> IF i = 0 THEN b ELSE nx[f[i - 1]]]

\* There is only one such walk.
LEMMA WalkUnique ==
    ASSUME NEW n \in Nat, NEW b, NEW nx, NEW f, NEW g, IsWalk(f, n, b, nx), IsWalk(g, n, b, nx)
    PROVE  f = g
<1> DEFINE T == {i \in 0..n : f[i] # g[i]}
<1>1. /\ f[0] = b /\ \A i \in 1..n : f[i] = nx[f[i - 1]]
      /\ DOMAIN f = 0..n
      /\ f = [i \in 0..n |-> f[i]]
  BY DEF IsWalk
<1>2. /\ g[0] = b /\ \A i \in 1..n : g[i] = nx[g[i - 1]]
      /\ DOMAIN g = 0..n
      /\ g = [i \in 0..n |-> g[i]]
  BY DEF IsWalk
<1>3. T = {}
  <2>1. SUFFICES ASSUME T # {} PROVE FALSE
    OBVIOUS
  <2>2. T \subseteq Nat
    OBVIOUS
  <2>3. PICK i \in T : \A j \in T : i <= j
    BY <2>1, <2>2, LeastNumber
  <2>4. i \in 1..n /\ i - 1 \in 0..n /\ ~(i <= i - 1)
    BY <1>1, <1>2
  <2>5. f[i - 1] = g[i - 1]
    BY <2>3, <2>4
  <2>6. QED
    BY <1>1, <1>2, <2>4, <2>5
<1>4. \A i \in 0..n : f[i] = g[i]
  BY <1>3
<1>5. QED
  BY <1>1, <1>2, <1>4

\* A walk along the links of a ring finds the nodes of its sequence.
LEMMA ChainOfRing ==
    ASSUME FieldsOK, NEW q \in Queues, NEW s, RingOf(q, s)
    PROVE  Chain(q) = s
<1> DEFINE f == [i \in 0..size[q] |-> IF i = 0 THEN back[q] ELSE s[i]]
<1>1. /\ size[q] \in Nat
      /\ s \in [1..size[q] -> Nodes]
      /\ size[q] > 0 => next[back[q]] = s[1]
      /\ \A i \in 1..(size[q] - 1) : next[s[i]] = s[i + 1]
  BY DEF FieldsOK, RingOf
<1>2. IsWalk(f, size[q], back[q], next)
  <2>1. ASSUME NEW i \in 1..size[q] PROVE s[i] = next[f[i - 1]]
    <3>1. CASE i = 1
      BY <1>1, <3>1
    <3>2. CASE i # 1
      <4>1. i - 1 \in 1..(size[q] - 1) /\ (i - 1) + 1 = i /\ i - 1 \in 0..size[q]
        BY <1>1, <3>2
      <4>2. f[i - 1] = s[i - 1]
        BY <4>1
      <4>3. QED
        BY <1>1, <4>1, <4>2
    <3>3. QED
      BY <3>1, <3>2
  <2>2. f = [i \in 0..size[q] |-> IF i = 0 THEN back[q] ELSE next[f[i - 1]]]
    <3>1. \A i \in 0..size[q] : i # 0 => i \in 1..size[q]
      BY <1>1
    <3>2. QED
      BY <2>1, <3>1
  <2>3. QED
    BY <2>2 DEF IsWalk
<1>3. Walk(q) = CHOOSE g : IsWalk(g, size[q], back[q], next)
  BY DEF Walk, IsWalk
<1>4. IsWalk(Walk(q), size[q], back[q], next)
  BY <1>2, <1>3
<1>5. Walk(q) = f
  BY <1>1, <1>2, <1>4, WalkUnique
<1>6. \A i \in 1..size[q] : Walk(q)[i] = s[i]
  BY <1>1, <1>5
<1>7. QED
  BY <1>1, <1>6 DEF Chain

\* Every step keeps the invariant.
LEMMA QueueStep == QueueInv /\ [Next]_vars => QueueInv'
<1> SUFFICES ASSUME QueueInv, [Next]_vars PROVE QueueInv'
  OBVIOUS
<1>1. PICK c : FieldsOK /\ Rings(c)
  BY DEF QueueInv
<1>2. CASE UNCHANGED vars \/ \E q \in Queues : GetNothing(q)
  <2>1. UNCHANGED <<back, size, thread, next, allocated>>
    BY <1>2 DEF vars, GetNothing
  <2>2. FieldsOK' /\ Rings(c)'
    BY <1>1, <2>1 DEF FieldsOK, Rings, RingOf
  <2>3. QED
    BY <2>2 DEF QueueInv
<1>3. ASSUME NEW q \in Queues, GetOnly(q) \/ GetFirst(q) PROVE QueueInv'
  <2>1. PICK d : d = RingsWithout(c, q)
    OBVIOUS
  <2>2. QED
    BY <1>1, <1>3, <2>1, GetRings DEF QueueInv
<1>4. ASSUME NEW q \in Queues, NEW x \in Threads, enqueue(x, q) PROVE QueueInv'
  <2>1. PICK new \in Nodes \ allocated :
          /\ allocated' = allocated \cup {new}
          /\ thread' = [thread EXCEPT ![new] = x]
          /\ next' = linked(q, new)
          /\ back' = [back EXCEPT ![q] = new]
          /\ size' = [size EXCEPT ![q] = @ + 1]
    BY <1>4 DEF enqueue
  <2>2. PICK d : d = RingsWith(c, q, new)
    OBVIOUS
  <2>3. QED
    BY <1>1, <2>1, <2>2, EnqueueRings DEF QueueInv
<1>5. QED
  BY <1>2, <1>3, <1>4 DEF Next, get_next

\* The links always form rings.
LEMMA QueueInvHolds == Spec => []QueueInv
BY QueueInit, QueueStep, PTL DEF Spec

\* get_next and enqueue keep every queue one closed ring of as many nodes as its size
\* says, with back at its last node; no node is shared, leaked, or used after free.
THEOREM RingsHold == Spec => []RingsPartitionTheHeap
<1>1. QueueInv => RingsPartitionTheHeap
  <2>1. SUFFICES ASSUME FieldsOK, NEW c, Rings(c) PROVE RingsPartitionTheHeap
    BY DEF QueueInv
  <2>2. \A q \in Queues : RingOf(q, c[q]) /\ Chain(q) = c[q] /\ size[q] \in Nat
    BY <2>1, ChainOfRing DEF Rings, FieldsOK
  <2>3. \A q \in Queues : DOMAIN Chain(q) = 1..size[q]
    BY DEF Chain
  <2>4. \A q \in Queues : size[q] = 0 => back[q] = NULL
    BY <2>2 DEF RingOf
  <2>5. \A q \in Queues : size[q] > 0 => Chain(q)[size[q]] = back[q]
    BY <2>2 DEF RingOf
  <2>6. \A q \in Queues : IsInjective(Chain(q))
    BY <2>1, <2>2, <2>3 DEF Rings, IsInjective
  <2>7. \A q \in Queues : Range(Chain(q)) \subseteq allocated
    BY <2>1, <2>2, <2>3 DEF Rings, Range
  <2>8. \A q, r \in Queues : q # r => Range(Chain(q)) \cap Range(Chain(r)) = {}
    BY <2>1, <2>2, <2>3 DEF Rings, Range
  <2>9. allocated = UNION {Range(Chain(q)) : q \in Queues}
    <3>1. ASSUME NEW n \in allocated PROVE \E q \in Queues : n \in Range(Chain(q))
      BY <2>1, <2>2, <2>3, <3>1 DEF Rings, Range
    <3>2. QED
      BY <2>7, <3>1
  <2>10. QED
    BY <2>4, <2>5, <2>6, <2>7, <2>8, <2>9 DEF RingsPartitionTheHeap
<1>2. QED
  BY <1>1, QueueInvHolds, PTL

-----------------------------------------------------------------------------
\* The contents of q, given its ring.
Held(q, s) == [i \in 1..size[q] |-> thread[s[i]]]

\* The contents of a queue are those of the nodes of its ring.
LEMMA ContentsOfRings ==
    ASSUME FieldsOK, NEW c, Rings(c)
    PROVE  /\ Contents = [q \in Queues |-> Held(q, c[q])]
           /\ \A q \in Queues : /\ Held(q, c[q]) \in Seq(Threads \cup {NULL})
                                /\ Len(Held(q, c[q])) = size[q]
<1>1. \A q \in Queues : Chain(q) = c[q]
  BY ChainOfRing DEF Rings
<1>2. Contents = [q \in Queues |-> Held(q, c[q])]
  BY <1>1 DEF Contents, Held
<1>3. ASSUME NEW q \in Queues
      PROVE  Held(q, c[q]) \in Seq(Threads \cup {NULL}) /\ Len(Held(q, c[q])) = size[q]
  <2>1. size[q] \in Nat /\ Held(q, c[q]) \in [1..size[q] -> Threads \cup {NULL}]
    BY DEF FieldsOK, Rings, RingOf, Held
  <2>2. QED
    BY <2>1
<1>4. QED
  BY <1>2, <1>3

\* The same for the state after a step.
LEMMA ContentsOfNewRings ==
    (\A d : FieldsOK /\ Rings(d) => Contents = [q \in Queues |-> Held(q, d[q])])'
<1>1. \A d : FieldsOK /\ Rings(d) => Contents = [q \in Queues |-> Held(q, d[q])]
  BY ContentsOfRings
<1>2. QED
  BY <1>1, PTL

\* Taking the first entry of a sequence that is given entry by entry.
LEMMA ShiftedIsTail ==
    ASSUME NEW S, NEW n \in Nat, n > 0, NEW s \in [1..n -> S]
    PROVE  s # <<>> /\ Tail(s) = Shifted(s, n) /\ Head(s) = s[1]
<1>1. s \in Seq(S) /\ Len(s) = n
  OBVIOUS
<1>2. s # <<>>
  BY <1>1
<1>3. /\ Tail(s) \in Seq(S) /\ Len(Tail(s)) = n - 1
      /\ \A i \in 1..(n - 1) : Tail(s)[i] = s[i + 1]
      /\ Head(s) = s[1]
  BY <1>1, <1>2
<1>4. Tail(s) \in [1..(n - 1) -> S] /\ Shifted(s, n) \in [1..(n - 1) -> S]
  <2>1. \A t \in Seq(S) : t \in [1..Len(t) -> S]
    OBVIOUS
  <2>2. Tail(s) \in [1..(n - 1) -> S]
    BY <1>3, <2>1
  <2>3. \A i \in 1..(n - 1) : i + 1 \in 1..n
    OBVIOUS
  <2>4. QED
    BY <2>2, <2>3 DEF Shifted
<1>5. \A i \in 1..(n - 1) : Tail(s)[i] = Shifted(s, n)[i]
  BY <1>3 DEF Shifted
<1>6. Tail(s) = Shifted(s, n)
  BY <1>4, <1>5
<1>7. QED
  BY <1>2, <1>3, <1>6

\* Adding an entry at the end.
LEMMA ExtendedIsAppend ==
    ASSUME NEW S, NEW n \in Nat, NEW s \in [1..n -> S], NEW x \in S
    PROVE  Append(s, x) = Extended(s, n, x)
<1>1. s \in Seq(S) /\ Len(s) = n
  OBVIOUS
<1>2. /\ Append(s, x) \in Seq(S) /\ Len(Append(s, x)) = n + 1
      /\ \A i \in 1..n : Append(s, x)[i] = s[i]
      /\ Append(s, x)[n + 1] = x
  BY <1>1
<1>3. \A i \in 1..(n + 1) : i = n + 1 \/ i \in 1..n
  OBVIOUS
<1>4. Append(s, x) \in [1..(n + 1) -> S] /\ Extended(s, n, x) \in [1..(n + 1) -> S]
  <2>1. \A t \in Seq(S) : t \in [1..Len(t) -> S]
    OBVIOUS
  <2>2. Append(s, x) \in [1..(n + 1) -> S]
    BY <1>2, <2>1
  <2>3. QED
    BY <1>3, <2>2 DEF Extended
<1>5. \A i \in 1..(n + 1) : Append(s, x)[i] = Extended(s, n, x)[i]
  BY <1>2, <1>3 DEF Extended
<1>6. QED
  BY <1>4, <1>5

\* get_next takes the oldest entry of its queue and touches no other.
LEMMA GetRefines ==
    ASSUME FieldsOK, NEW c, Rings(c), NEW q \in Queues, GetOnly(q) \/ GetFirst(q)
    PROVE  fifo!Take(q)
<1>1. PICK d : d = RingsWithout(c, q)
  OBVIOUS
<1>2. FieldsOK' /\ Rings(d)'
  BY <1>1, GetRings
<1>3. /\ size[q] > 0
      /\ size' = [size EXCEPT ![q] = size[q] - 1]
      /\ thread' = [thread EXCEPT ![c[q][1]] = NULL]
      /\ returned' = thread[c[q][1]]
  BY GetEffect
<1>4. /\ Contents = [r \in Queues |-> Held(r, c[r])]
      /\ Contents' = [r \in Queues |-> Held(r, d[r])']
  BY <1>2, ContentsOfRings, ContentsOfNewRings
<1>5. /\ size \in [Queues -> Nat] /\ size[q] \in Nat
      /\ thread \in [Nodes -> Threads \cup {NULL}]
      /\ \A r \in Queues : \A i \in 1..size[r] : c[r][i] \in Nodes
      /\ \A r, s \in Queues : \A i \in 1..size[r], j \in 1..size[s] :
           c[r][i] = c[s][j] => r = s /\ i = j
  BY DEF FieldsOK, Rings, RingOf
<1>6. 1 \in 1..size[q] /\ c[q][1] \in Nodes
  BY <1>3, <1>5
<1>7. ASSUME NEW r \in Queues, r # q PROVE Held(r, d[r])' = Held(r, c[r])
  <2>1. d[r] = c[r] /\ size'[r] = size[r]
    BY <1>1, <1>3, <1>5, <1>7 DEF RingsWithout
  <2>2. \A i \in 1..size[r] : thread'[c[r][i]] = thread[c[r][i]]
    BY <1>3, <1>5, <1>6, <1>7
  <2>3. QED
    BY <2>1, <2>2 DEF Held
<1>8. Held(q, d[q])' = Shifted(Held(q, c[q]), size[q])
  <2>1. d[q] = [i \in 1..(size[q] - 1) |-> c[q][i + 1]] /\ size'[q] = size[q] - 1
    BY <1>1, <1>3, <1>5 DEF RingsWithout, Shifted
  <2>2. ASSUME NEW i \in 1..(size[q] - 1)
        PROVE  thread'[d[q][i]] = thread[c[q][i + 1]] /\ i + 1 \in 1..size[q]
    <3>1. i + 1 \in 1..size[q] /\ i + 1 # 1
      BY <1>5
    <3>2. c[q][i + 1] # c[q][1] /\ c[q][i + 1] \in Nodes
      BY <1>5, <1>6, <3>1
    <3>3. QED
      BY <1>3, <1>5, <2>1, <3>1, <3>2
  <2>3. QED
    BY <2>1, <2>2 DEF Held, Shifted
<1>9. /\ Held(q, c[q]) # <<>>
      /\ Tail(Held(q, c[q])) = Shifted(Held(q, c[q]), size[q])
      /\ Head(Held(q, c[q])) = returned'
  <2>1. /\ Held(q, c[q]) \in [1..size[q] -> Threads \cup {NULL}]
        /\ Held(q, c[q])[1] = thread[c[q][1]]
    BY <1>5, <1>6 DEF Held
  <2>2. size[q] \in Nat /\ size[q] > 0
    BY <1>3, <1>5
  <2>3. /\ Held(q, c[q]) # <<>>
        /\ Tail(Held(q, c[q])) = Shifted(Held(q, c[q]), size[q])
        /\ Head(Held(q, c[q])) = Held(q, c[q])[1]
    BY <2>1, <2>2, ShiftedIsTail
  <2>4. QED
    BY <1>3, <2>1, <2>3
<1>10. Contents' = [Contents EXCEPT ![q] = Tail(Contents[q])]
  BY <1>4, <1>7, <1>8, <1>9
<1>11. QED
  BY <1>4, <1>9, <1>10 DEF fifo!Take

\* enqueue adds its thread as the newest entry of the queue and touches no other.
LEMMA EnqueueRefines ==
    ASSUME FieldsOK, NEW c, Rings(c), NEW q \in Queues, NEW x \in Threads, enqueue(x, q)
    PROVE  fifo!Put(q, x)
<1>1. PICK new \in Nodes \ allocated :
        /\ allocated' = allocated \cup {new}
        /\ thread' = [thread EXCEPT ![new] = x]
        /\ next' = linked(q, new)
        /\ back' = [back EXCEPT ![q] = new]
        /\ size' = [size EXCEPT ![q] = @ + 1]
        /\ returned' = NULL
  BY DEF enqueue
<1>2. PICK d : d = RingsWith(c, q, new)
  OBVIOUS
<1>3. FieldsOK' /\ Rings(d)'
  BY <1>1, <1>2, EnqueueRings
<1>4. /\ Contents = [r \in Queues |-> Held(r, c[r])]
      /\ Contents' = [r \in Queues |-> Held(r, d[r])']
  BY <1>3, ContentsOfRings, ContentsOfNewRings
<1>5. /\ size \in [Queues -> Nat] /\ size[q] \in Nat
      /\ thread \in [Nodes -> Threads \cup {NULL}]
      /\ \A r \in Queues : \A i \in 1..size[r] : c[r][i] \in Nodes /\ c[r][i] \in allocated
  BY DEF FieldsOK, Rings, RingOf
<1>6. \A r \in Queues : \A i \in 1..size[r] : thread'[c[r][i]] = thread[c[r][i]]
  BY <1>1, <1>5
<1>7. ASSUME NEW r \in Queues, r # q PROVE Held(r, d[r])' = Held(r, c[r])
  <2>1. d[r] = c[r] /\ size'[r] = size[r]
    BY <1>1, <1>2, <1>5, <1>7 DEF RingsWith
  <2>2. QED
    BY <1>6, <2>1 DEF Held
<1>8. Held(q, d[q])' = Extended(Held(q, c[q]), size[q], x)
  <2>1. /\ d[q] = [i \in 1..(size[q] + 1) |-> IF i = size[q] + 1 THEN new ELSE c[q][i]]
        /\ size'[q] = size[q] + 1
    BY <1>1, <1>2, <1>5 DEF RingsWith, Extended
  <2>2. ASSUME NEW i \in 1..(size[q] + 1)
        PROVE  thread'[d[q][i]] = IF i = size[q] + 1 THEN x ELSE Held(q, c[q])[i]
    <3>1. CASE i = size[q] + 1
      BY <1>1, <1>5, <2>1, <3>1
    <3>2. CASE i # size[q] + 1
      <4>1. i \in 1..size[q]
        BY <1>5, <3>2
      <4>2. QED
        BY <1>6, <2>1, <3>2, <4>1 DEF Held
    <3>3. QED
      BY <3>1, <3>2
  <2>3. QED
    BY <2>1, <2>2 DEF Held, Extended
<1>9. Append(Held(q, c[q]), x) = Extended(Held(q, c[q]), size[q], x)
  <2>1. Held(q, c[q]) \in [1..size[q] -> Threads \cup {NULL}]
    BY <1>5 DEF Held
  <2>2. size[q] \in Nat /\ x \in Threads \cup {NULL}
    BY <1>5
  <2>3. QED
    BY <2>1, <2>2, ExtendedIsAppend
<1>10. Contents' = [Contents EXCEPT ![q] = Append(Contents[q], x)]
  BY <1>4, <1>7, <1>8, <1>9
<1>11. QED
  BY <1>1, <1>10 DEF fifo!Put

\* get_next on an empty queue is that of an empty first-in first-out queue.
LEMMA GetNothingRefines ==
    ASSUME FieldsOK, NEW c, Rings(c), NEW q \in Queues, GetNothing(q)
    PROVE  fifo!TakeNothing(q)
<1>1. UNCHANGED <<back, size, thread, next>> /\ size[q] = 0 /\ returned' = NULL
  BY DEF GetNothing
<1>2. Contents' = Contents
  BY <1>1 DEF Contents, Chain, Walk
<1>3. Contents[q] = <<>>
  BY <1>1, ContentsOfRings DEF Held
<1>4. QED
  BY <1>1, <1>2, <1>3 DEF fifo!TakeNothing

\* The circular lists implement first-in first-out queues: get_next returns what was
\* enqueued first and has not been returned, each queue on its own.
THEOREM FifoQueueImplemented == Spec => ImplementsFifoQueue
<1>1. Init => fifo!QueueInit
  <2>1. SUFFICES ASSUME Init PROVE fifo!QueueInit
    OBVIOUS
  <2>2. \A q \in Queues : size[q] = 0
    BY <2>1 DEF Init
  <2>3. \A q \in Queues : [i \in 1..size[q] |-> thread[Chain(q)[i]]] = <<>>
    BY <2>2
  <2>4. QED
    BY <2>1, <2>3 DEF Init, fifo!QueueInit, Contents
<1>2. QueueInv /\ [Next]_vars => [fifo!QueueNext]_<<Contents, returned>>
  <2>1. SUFFICES ASSUME FieldsOK, NEW c, Rings(c), [Next]_vars
                 PROVE  fifo!QueueNext \/ UNCHANGED <<Contents, returned>>
    BY DEF QueueInv
  <2>2. CASE UNCHANGED vars
    BY <2>2 DEF vars, Contents, Chain, Walk
  <2>3. CASE Next
    BY <2>1, <2>3, GetRefines, GetNothingRefines, EnqueueRefines
       DEF Next, get_next, fifo!QueueNext
  <2>4. QED
    BY <2>1, <2>2, <2>3
<1>3. QED
  BY <1>1, <1>2, QueueInvHolds, PTL DEF Spec, ImplementsFifoQueue, fifo!QueueSpec
=============================================================================
