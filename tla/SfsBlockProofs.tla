--------------------------- MODULE SfsBlockProofs ---------------------------
(**************************************************************************)
(* In every state before a crash each block of the disk has one use: it   *)
(* is free, it is marked and lost, or one place, in an inode or in a      *)
(* table of block numbers, holds its number.                              *)
(*                                                                        *)
(* BlocksHeldOnce says so only of the places that are in use, and is not  *)
(* inductive: that a table written to is one inode's, and holds nothing   *)
(* of another's, depends on what every other block is used for.  The      *)
(* invariant is HeldInv: there is a map (own) from blocks to their uses   *)
(* (Role) that the inode table and the tables of block numbers agree with *)
(* (Held), and at unmount the tables fit into what is left (Fits).  A     *)
(* lemma per operator says how it changes that map: it finds a use for    *)
(* the blocks it takes (Acts), keeps every use that something has (Goes), *)
(* or gives up all of an inode's (Drops).                                 *)
(**************************************************************************)
EXTENDS SfsProofs

-----------------------------------------------------------------------------
\* Arithmetic and sequences.

LEMMA Division ==
    ASSUME NEW x \in Int, NEW b \in Nat \ {0}
    PROVE  /\ x \div b \in Int
           /\ x % b \in 0..b - 1
           /\ x = b * (x \div b) + (x % b)
  OBVIOUS

LEMMA DivisionUnique ==
    ASSUME NEW b \in Nat \ {0}, NEW q \in Int, NEW r \in 0..b - 1, NEW x \in Int, x = b * q + r
    PROVE  x \div b = q /\ x % b = r
<1> DEFINE p == x \div b
           s == x % b
<1>1. p \in Int /\ s \in 0..b - 1 /\ x = b * p + s
  BY Division
<1> HIDE DEF p, s
<1>2. ASSUME p < q PROVE FALSE
  <2>1. b * p =< b * (q - 1)
    BY <1>1, <1>2
  <2>2. b * (q - 1) = b * q - b
    OBVIOUS
  <2>3. QED
    BY <1>1, <2>1, <2>2
<1>3. ASSUME p > q PROVE FALSE
  <2>1. b * (q + 1) =< b * p
    BY <1>1, <1>3
  <2>2. b * (q + 1) = b * q + b
    OBVIOUS
  <2>3. QED
    BY <1>1, <2>1, <2>2
<1>4. p = q
  BY <1>1, <1>2, <1>3
<1>5. s = r
  BY <1>1, <1>4
<1>6. QED
  BY <1>4, <1>5 DEF p, s

LEMMA Concat ==
    ASSUME NEW a \in Nat, NEW b \in Nat, NEW s, NEW t, s = [k \in 1..a |-> s[k]], t = [k \in 1..b |-> t[k]]
    PROVE  s \o t = [k \in 1..a + b |-> IF k =< a THEN s[k] ELSE t[k - a]]
<1> DEFINE S == {s[k] : k \in 1..a} \cup {t[k] : k \in 1..b}
<1>1. s \in Seq(S) /\ t \in Seq(S)
  <2>1. s \in [1..a -> S] /\ t \in [1..b -> S]
    <3>1. (\A k \in 1..a : s[k] \in S) /\ (\A k \in 1..b : t[k] \in S)
      OBVIOUS
    <3> HIDE DEF S
    <3>2. QED
      BY <3>1
  <2> HIDE DEF S
  <2>2. QED
    BY <2>1, SeqDef
<1>2. Len(s) = a /\ Len(t) = b
  OBVIOUS
<1>3. QED
  BY <1>1, <1>2

LEMMA SubSequence ==
    ASSUME NEW S, NEW N \in Nat, NEW f \in [1..N -> S], NEW a \in 1 .. N + 1, NEW b \in Int,
           a =< b + 1, b =< N
    PROVE  SubSeq(f, a, b) = [k \in 1 .. b - a + 1 |-> f[a + k - 1]]
  BY SMT

LEMMA Slice ==
    ASSUME NEW N \in Nat, NEW f, f = [k \in 1..N |-> f[k]],
           NEW skip \in Nat, NEW len \in Nat, skip + len =< N
    PROVE  SubSeq(f, skip + 1, skip + len) = [k \in 1..len |-> f[skip + k]]
<1> DEFINE S == {f[k] : k \in 1..N}
           a == skip + 1
           b == skip + len
<1>1. \A k \in 1..N : f[k] \in S
  OBVIOUS
<1>2. a \in 1 .. N + 1 /\ b \in Int /\ a =< b + 1 /\ b =< N
  OBVIOUS
<1>3. b - a + 1 = len /\ \A k \in 1..len : a + k - 1 = skip + k
  OBVIOUS
<1> HIDE DEF S, a, b
<1>4. f \in [1..N -> S]
  BY <1>1
<1>5. SubSeq(f, a, b) = [k \in 1 .. b - a + 1 |-> f[a + k - 1]]
  BY <1>2, <1>4, SubSequence
<1>6. SubSeq(f, a, b) = [k \in 1..len |-> f[skip + k]]
  BY <1>3, <1>5
<1>7. QED
  BY <1>6 DEF a, b

-----------------------------------------------------------------------------
\* What the blocks of a disk are used for, and steps that keep it in order.

\* What a block is used for: for entry n of inode i, as Role("slot", i, n, 0), which is a
\* table for the last two; for entry k of the single indirect table of i, or of its double
\* one, as Role("single", i, k, 0) and Role("outer", i, k, 0); for entry l of the table in
\* entry k of that one, as Role("inner", i, k, l); for nothing although it is marked; or not
\* at all.
Role(kind, i, k, l) == <<kind, i, k, l>>
Free == Role("free", -1, 0, 0)
Lost == Role("lost", -1, 0, 0)
Real(role) == role # Free /\ role # Lost

\* A place that holds v holds nothing, or a block that is used for this.
Points(v, own, role) == v = -1 \/ (v \in Blocks /\ own[v] = role)

InodeHolds(blocks, own, i) ==
    \A n \in 0 .. NumDirect + 1 : Points(blocks[n], own, Role("slot", i, n, 0))

\* The roles of tables, their entries, and what a block in entry k is used for.
IsTable(role) == role[1] = "outer" \/ (role[1] = "slot" /\ role[3] \in {NumDirect, NumDirect + 1})
EntriesOf(role) == IF role[1] = "slot" /\ role[3] = NumDirect + 1 THEN 0..NumDouble ELSE 0 .. PerBlock - 1
ChildRole(role, k) ==
    IF role[1] = "outer" THEN Role("inner", role[2], role[3], k)
    ELSE IF role[3] = NumDirect THEN Role("single", role[2], k, 0) ELSE Role("outer", role[2], k, 0)

TableHolds(c, own, role) ==
    IsTable(role) => \A k \in EntriesOf(role) : Points(AsShort(c[k + 1]), own, ChildRole(role, k))

\* A cell that read as a short is no block but 0.
Plain(c) == AsShort(c) \in {-1, 0, NumBlocks}

\* The blocks marked are those used, every block number kept in an inode or a table is that
\* of a block used for this, and block 0, which is read as a table where there is none, is
\* that of the root and holds no block numbers.
Held(m, own) ==
    /\ own = [b \in Blocks |-> own[b]]
    /\ \A b \in Blocks : m.map[b] <=> own[b] # Free
    /\ \A i \in Inodes : m.inode[i].avail => InodeHolds(m.inode[i].blocks, own, i)
    /\ \A b \in Blocks : TableHolds(m.disk[b], own, own[b])
    /\ own[0] = Role("slot", 0, 0, 0) /\ m.inode[0].avail /\ m.inode[0].dir
    /\ \A k \in 1..BlockSize : Plain(m.disk[0][k])

\* Blocks in use keep their uses.
Refines(own, own2) ==
    \A b \in Blocks : (Real(own[b]) => own2[b] = own[b]) /\ (own[b] # Free => own2[b] # Free)

\* From m to r blocks are given to inode i, and nothing else is written but blocks of i and
\* the data of the root.
Acts(m, own, r, own2, i) ==
    /\ Held(r, own2) /\ Refines(own, own2)
    /\ \A b \in Blocks :
        /\ own2[b] = Free => r.disk[b] = m.disk[b]
        /\ Real(own[b]) /\ own[b][2] # i /\ b # 0 => r.disk[b] = m.disk[b]
    /\ \A j \in Inodes : /\ r.inode[j].avail = m.inode[j].avail /\ r.inode[j].dir = m.inode[j].dir
                         /\ j # i => r.inode[j].blocks = m.inode[j].blocks

\* As long as the behaviour is defined.
Sticks(m, r) == r.ub = "" => m.ub = ""
Goes(m, own, r, i) == r.ub = "" => \E own2 : Acts(m, own, r, own2, i)

\* A block of data of inode i, or of nothing yet.
DataOf(role, i) == ~IsTable(role) /\ (role = Lost \/ (Real(role) /\ role[2] = i))

\* The same, with block b as data of i in the end.
Places(m, own, r, i, b) == r.ub = "" => \E own2 : Acts(m, own, r, own2, i) /\ DataOf(own2[b], i)

LEMMA RoleEq ==
    \A a, b, c, d, e, f, g, h :
        Role(a, b, c, d) = Role(e, f, g, h) <=> a = e /\ b = f /\ c = g /\ d = h
  BY DEF Role

LEMMA RoleParts ==
    \A a, b, c, d : /\ Role(a, b, c, d)[1] = a /\ Role(a, b, c, d)[2] = b /\ Role(a, b, c, d)[3] = c
                    /\ Role(a, b, c, d)[4] = d
  BY DEF Role

LEMMA RealRoles ==
    /\ ~Real(Free) /\ ~Real(Lost) /\ Free # Lost
    /\ \A a, b, c, d : a \notin {"free", "lost"} => Real(Role(a, b, c, d))
  BY RoleEq DEF Free, Lost, Real

LEMMA PointsStay ==
    ASSUME NEW own, NEW own2, Refines(own, own2), NEW v, NEW role, Real(role), Points(v, own, role)
    PROVE  Points(v, own2, role)
  BY DEF Refines, Points

LEMMA InodeHoldsStay ==
    ASSUME NEW own, NEW own2, Refines(own, own2), NEW blocks, NEW i, InodeHolds(blocks, own, i)
    PROVE  InodeHolds(blocks, own2, i)
<1>1. \A n : Real(Role("slot", i, n, 0))
  BY RealRoles
<1>2. QED
  BY <1>1, PointsStay DEF InodeHolds

LEMMA TableHoldsStay ==
    ASSUME NEW own, NEW own2, Refines(own, own2), NEW c, NEW role, TableHolds(c, own, role)
    PROVE  TableHolds(c, own2, role)
<1>1. \A k : Real(ChildRole(role, k))
  BY RealRoles DEF ChildRole
<1>2. QED
  BY <1>1, PointsStay DEF TableHolds

LEMMA NoTableHolds ==
    ASSUME NEW c, NEW own, NEW role, ~IsTable(role)
    PROVE  TableHolds(c, own, role)
  BY DEF TableHolds

LEMMA HeldStep ==
    ASSUME NEW m, NEW own, Held(m, own), NEW i \in Inodes, NEW r, NEW own2,
           own2 = [b \in Blocks |-> own2[b]], Refines(own, own2),
           \A b \in Blocks : r.map[b] <=> own2[b] # Free,
           \A j \in Inodes : /\ r.inode[j].avail = m.inode[j].avail /\ r.inode[j].dir = m.inode[j].dir
                             /\ j # i => r.inode[j].blocks = m.inode[j].blocks,
           m.inode[i].avail => InodeHolds(r.inode[i].blocks, own2, i),
           \A b \in Blocks : \/ r.disk[b] = m.disk[b] /\ own2[b] = own[b]
                             \/ TableHolds(r.disk[b], own2, own2[b]),
           \A b \in Blocks : own2[b] = Free => r.disk[b] = m.disk[b],
           \A b \in Blocks : Real(own[b]) /\ own[b][2] # i /\ b # 0 => r.disk[b] = m.disk[b],
           \A k \in 1..BlockSize : Plain(r.disk[0][k])
    PROVE  Acts(m, own, r, own2, i)
<1>1. \A j \in Inodes : r.inode[j].avail => InodeHolds(r.inode[j].blocks, own2, j)
  <2>1. \A j \in Inodes : m.inode[j].avail => InodeHolds(m.inode[j].blocks, own2, j)
    BY InodeHoldsStay DEF Held
  <2>2. QED
    BY <2>1
<1>2. \A b \in Blocks : TableHolds(r.disk[b], own2, own2[b])
  <2>1. \A b \in Blocks : TableHolds(m.disk[b], own2, own[b])
    BY TableHoldsStay DEF Held
  <2>2. QED
    BY <2>1, Zenon
<1>3. own2[0] = Role("slot", 0, 0, 0) /\ r.inode[0].avail /\ r.inode[0].dir
  <2>1. 0 \in Blocks /\ 0 \in Inodes
    BY ConstantTypes DEF Blocks, Inodes
  <2>2. Real(Role("slot", 0, 0, 0))
    BY RealRoles
  <2>3. QED
    BY <2>1, <2>2 DEF Held, Refines
<1>4. Held(r, own2)
  BY <1>1, <1>2, <1>3 DEF Held
<1>5. QED
  BY <1>4 DEF Acts

LEMMA ActsTwice ==
    ASSUME NEW m, NEW r, NEW s, NEW own, NEW own1, NEW own2, NEW i,
           Acts(m, own, r, own1, i), Acts(r, own1, s, own2, i)
    PROVE  Acts(m, own, s, own2, i)
<1>1. Refines(own, own2)
  BY DEF Acts, Refines
<1>2. \A b \in Blocks : own2[b] = Free => s.disk[b] = m.disk[b]
  BY DEF Acts, Refines
<1>3. \A b \in Blocks : Real(own[b]) /\ own[b][2] # i /\ b # 0 => s.disk[b] = m.disk[b]
  BY DEF Acts, Refines
<1>4. QED
  BY <1>1, <1>2, <1>3 DEF Acts

LEMMA ActsSelf ==
    ASSUME NEW m, NEW own, NEW i, Held(m, own)
    PROVE  Acts(m, own, m, own, i)
  BY DEF Acts, Refines

\* What Held and Acts are about.
LEMMA ActsSame ==
    ASSUME NEW m, NEW own, NEW r, NEW own2, NEW i, Acts(m, own, r, own2, i), NEW s,
           s.map = r.map, s.disk = r.disk,
           \A j \in Inodes : /\ s.inode[j].avail = r.inode[j].avail /\ s.inode[j].dir = r.inode[j].dir
                             /\ s.inode[j].blocks = r.inode[j].blocks
    PROVE  Acts(m, own, s, own2, i)
<1>1. 0 \in Inodes
  BY ConstantTypes DEF Inodes
<1>2. Held(s, own2)
  BY <1>1 DEF Held, Acts
<1>3. QED
  BY <1>2 DEF Acts

LEMMA GoesTwice ==
    ASSUME NEW m, NEW r, NEW s, NEW own, NEW i, Goes(m, own, r, i), Sticks(r, s),
           \A own1 : Acts(m, own, r, own1, i) => Goes(r, own1, s, i)
    PROVE  Goes(m, own, s, i)
<1>1. SUFFICES ASSUME s.ub = "" PROVE \E own2 : Acts(m, own, s, own2, i)
  BY DEF Goes
<1>2. PICK own1 : Acts(m, own, r, own1, i)
  BY <1>1 DEF Goes, Sticks
<1>3. PICK own2 : Acts(r, own1, s, own2, i)
  BY <1>1, <1>2 DEF Goes
<1>4. Acts(m, own, s, own2, i)
  BY <1>2, <1>3, ActsTwice
<1>5. QED
  BY <1>4

LEMMA GetBlockParts ==
    ASSUME NEW m, MemoryOK(m)
    PROVE  LET new == first_block(m)
               r == get_block(m)
           IN  /\ new = -1 => r.ub = "disk full"
               /\ new # -1 => new \in Blocks /\ ~m.map[new] /\ r.map = [m.map EXCEPT ![new] = TRUE] /\ r.ub = m.ub
               /\ r.inode = m.inode /\ r.disk = m.disk /\ r.names = m.names /\ r.open = m.open
<1> DEFINE S == {b \in Blocks : ~ m.map[b]}
           new == first_block(m)
<1>1. S \subseteq Nat
  BY ConstantTypes DEF Blocks
<1>2. new # -1 => new \in S
  BY <1>1, FirstFound DEF first_block
<1> HIDE DEF new
<1>3. CASE new = -1
  BY <1>3 DEF get_block, MemoryOK, TableNames, new
<1>4. CASE new # -1
  BY <1>2, <1>4 DEF get_block, MemoryOK, TableNames, new
<1>5. QED
  BY <1>3, <1>4 DEF new

LEMMA GetBlockSticks ==
    ASSUME NEW m, MemoryOK(m)
    PROVE  Sticks(m, get_block(m))
  BY GetBlockParts DEF Sticks

\* A block is taken and not used yet.
LEMMA GetBlockActs ==
    ASSUME NEW m, MemoryOK(m), NEW own, Held(m, own), NEW i \in Inodes, first_block(m) # -1
    PROVE  /\ Acts(m, own, get_block(m), [own EXCEPT ![first_block(m)] = Lost], i)
           /\ first_block(m) \in Blocks /\ own[first_block(m)] = Free
<1> DEFINE new == first_block(m)
           r == get_block(m)
           own2 == [own EXCEPT ![new] = Lost]
<1>1. /\ new \in Blocks /\ ~m.map[new] /\ r.map = [m.map EXCEPT ![new] = TRUE]
      /\ r.inode = m.inode /\ r.disk = m.disk
  BY GetBlockParts
<1> HIDE DEF new, r
<1>2. own[new] = Free
  BY <1>1 DEF Held
<1>3. own2 = [b \in Blocks |-> own2[b]] /\ own2[new] = Lost /\ \A b \in Blocks \ {new} : own2[b] = own[b]
  BY <1>1 DEF Held
<1> HIDE DEF own2
<1>4. Refines(own, own2)
  BY <1>2, <1>3, RealRoles DEF Refines
<1>5. \A b \in Blocks : r.map[b] <=> own2[b] # Free
  <2>1. m.map = [b \in Blocks |-> m.map[b]]
    BY DEF MemoryOK, TablesOK
  <2>2. QED
    BY <1>1, <1>3, <2>1, RealRoles DEF Held
<1>6. InodeHolds(m.inode[i].blocks, own, i) => InodeHolds(r.inode[i].blocks, own2, i)
  BY <1>1, <1>4, InodeHoldsStay
<1>7. TableHolds(r.disk[new], own2, own2[new])
  <2>1. ~IsTable(Lost)
    BY RoleParts DEF IsTable, Lost
  <2>2. QED
    BY <1>3, <2>1, NoTableHolds
<1>8. Acts(m, own, r, own2, i)
  BY <1>1, <1>3, <1>4, <1>5, <1>6, <1>7, HeldStep DEF Held
<1>9. QED
  BY <1>1, <1>2, <1>8 DEF new, r, own2

-----------------------------------------------------------------------------
\* Linking a new block into an inode or a table.

\* Block b, which is used for nothing yet, is given a use.
Gives(own, b, role) == [own EXCEPT ![b] = role]

LEMMA GivesParts ==
    ASSUME NEW own, own = [x \in Blocks |-> own[x]], NEW b \in Blocks, own[b] = Lost, NEW role, Real(role)
    PROVE  LET own2 == Gives(own, b, role)
           IN  /\ own2 = [x \in Blocks |-> own2[x]] /\ own2[b] = role
               /\ \A x \in Blocks \ {b} : own2[x] = own[x]
               /\ Refines(own, own2)
               /\ \A x \in Blocks : own2[x] = Free <=> own[x] = Free
<1> DEFINE own2 == Gives(own, b, role)
<1>1. /\ own2 = [x \in Blocks |-> own2[x]] /\ own2[b] = role
      /\ \A x \in Blocks \ {b} : own2[x] = own[x]
  BY DEF Gives
<1> HIDE DEF own2
<1>2. Refines(own, own2) /\ \A x \in Blocks : own2[x] = Free <=> own[x] = Free
  BY <1>1, RealRoles DEF Refines, Real
<1>3. QED
  BY <1>1, <1>2 DEF own2

\* r is m with b in entry n of inode i.
SetsSlot(m, r, i, n, b) ==
    /\ r.map = m.map /\ r.disk = m.disk /\ r.ub = m.ub /\ r.names = m.names /\ r.open = m.open
    /\ \A j \in Inodes : /\ r.inode[j].avail = m.inode[j].avail /\ r.inode[j].dir = m.inode[j].dir
                         /\ r.inode[j].size = m.inode[j].size
                         /\ r.inode[j].nblocks = m.inode[j].nblocks
                         /\ j # i => r.inode[j].blocks = m.inode[j].blocks
    /\ r.inode[i].blocks[n] = b
    /\ \A k \in 0 .. NumDirect + 1 : k # n => r.inode[i].blocks[k] = m.inode[i].blocks[k]

LEMMA SlotParts ==
    ASSUME NEW m, MemoryOK(m), NEW i \in Inodes, NEW n \in 0 .. NumDirect + 1, NEW b
    PROVE  SetsSlot(m, [m EXCEPT !.inode[i].blocks[n] = b], i, n, b)
<1> DEFINE r == [m EXCEPT !.inode[i].blocks[n] = b]
<1>1. /\ r.map = m.map /\ r.disk = m.disk /\ r.ub = m.ub /\ r.names = m.names /\ r.open = m.open
      /\ r.inode = [m.inode EXCEPT ![i].blocks[n] = b]
  BY DEF MemoryOK, TableNames
<1>2. DOMAIN m.inode = Inodes /\ InodeOK(m.inode[i])
  BY DEF MemoryOK, TablesOK
<1> HIDE DEF r
<1>3. /\ r.inode[i] = [m.inode[i] EXCEPT !.blocks[n] = b]
      /\ \A j \in Inodes : j # i => r.inode[j] = m.inode[j]
  BY <1>1, <1>2
<1>4. /\ r.inode[i].avail = m.inode[i].avail /\ r.inode[i].dir = m.inode[i].dir
      /\ r.inode[i].size = m.inode[i].size /\ r.inode[i].nblocks = m.inode[i].nblocks
      /\ r.inode[i].blocks = [m.inode[i].blocks EXCEPT ![n] = b]
  BY <1>2, <1>3 DEF InodeOK, Fields
<1>5. DOMAIN m.inode[i].blocks = 0 .. NumDirect + 1
  BY <1>2 DEF InodeOK
<1>6. QED
  <2>1. SetsSlot(m, r, i, n, b)
    BY <1>1, <1>3, <1>4, <1>5 DEF SetsSlot
  <2>2. QED
    BY <2>1 DEF r

\* A block of data is put into an inode.
LEMMA SlotSet ==
    ASSUME NEW m, MemoryOK(m), NEW own, Held(m, own), NEW i \in Inodes, m.inode[i].avail,
           NEW n \in 0 .. NumDirect - 1, NEW b \in Blocks, own[b] = Lost
    PROVE  Acts(m, own, [m EXCEPT !.inode[i].blocks[n] = b], Gives(own, b, Role("slot", i, n, 0)), i)
<1> DEFINE r == [m EXCEPT !.inode[i].blocks[n] = b]
           role == Role("slot", i, n, 0)
           own2 == Gives(own, b, role)
<1>1. /\ own2 = [x \in Blocks |-> own2[x]] /\ own2[b] = role
      /\ \A x \in Blocks \ {b} : own2[x] = own[x]
      /\ Refines(own, own2)
      /\ \A x \in Blocks : own2[x] = Free <=> own[x] = Free
  BY GivesParts, RealRoles DEF Held
<1>2. SetsSlot(m, r, i, n, b)
  <2>1. n \in 0 .. NumDirect + 1
    BY ConstantTypes
  <2>2. QED
    BY <2>1, SlotParts
<1> HIDE DEF r, own2
<1>3. InodeHolds(r.inode[i].blocks, own2, i)
  <2>1. InodeHolds(m.inode[i].blocks, own2, i)
    BY <1>1, InodeHoldsStay DEF Held
  <2>2. Points(b, own2, role)
    BY <1>1 DEF Points
  <2>3. QED
    BY <1>2, <2>1, <2>2 DEF InodeHolds, SetsSlot
<1>4. TableHolds(r.disk[b], own2, own2[b])
  <2>1. ~IsTable(role)
    BY ConstantTypes, RoleParts DEF IsTable
  <2>2. QED
    BY <1>1, <2>1, NoTableHolds
<1>5. Acts(m, own, r, own2, i)
  BY <1>1, <1>2, <1>3, <1>4, HeldStep DEF Held, SetsSlot
<1>6. QED
  BY <1>5 DEF r, own2

LEMMA Shorts ==
    /\ \A x : AsShort(Short(x)) = x
    /\ Plain(Nul) /\ Plain(Garbage)
    /\ \A x : Plain(Token(x))
    /\ \A x, y : Plain(Byte(x, y))
<1>1. \A x : AsShort(Short(x)) = x
  BY DEF AsShort, Short, Nul
<1>2. Plain(Nul) /\ Plain(Garbage)
  BY DEF Plain, AsShort, Nul, Garbage
<1>3. \A x : Plain(Token(x))
  BY DEF Plain, AsShort, Nul, Garbage, Token
<1>4. \A x, y : Plain(Byte(x, y))
  BY DEF Plain, AsShort, Nul, Garbage, Byte
<1>5. QED
  BY <1>1, <1>2, <1>3, <1>4

\* The cells of a table: unset, and with an entry put in.
WithEntry(c, k, x) == [c EXCEPT ![k + 1] = Short(x)]

LEMMA EntryPut ==
    ASSUME NEW c, IsBlock(c), NEW k \in 0 .. BlockSize - 1, NEW x
    PROVE  /\ IsBlock(WithEntry(c, k, x)) /\ AsShort(WithEntry(c, k, x)[k + 1]) = x
           /\ \A l \in 0 .. BlockSize - 1 : l # k => WithEntry(c, k, x)[l + 1] = c[l + 1]
<1> DEFINE e == [c EXCEPT ![k + 1] = Short(x)]
<1>1. k + 1 \in 1..BlockSize /\ \A l \in 0 .. BlockSize - 1 : l + 1 \in 1..BlockSize /\ (l # k => l + 1 # k + 1)
  BY ConstantTypes
<1>2. e[k + 1] = Short(x) /\ (\A l \in 0 .. BlockSize - 1 : l # k => e[l + 1] = c[l + 1]) /\ IsBlock(e)
  BY <1>1 DEF IsBlock
<1>3. QED
  BY <1>2, Shorts DEF WithEntry

LEMMA UnsetCells ==
    ASSUME NEW c, NEW n \in Nat, n =< BlockSize
    PROVE  /\ \A k \in 0 .. n - 1 : AsShort(Unset(c, n)[k + 1]) = -1
           /\ \A k \in 0 .. BlockSize - 1 : k >= n => Unset(c, n)[k + 1] = c[k + 1]
<1>1. \A k \in 0 .. n - 1 : k + 1 \in 1..BlockSize /\ k + 1 =< n
  BY ConstantTypes
<1>2. \A k \in 0 .. n - 1 : Unset(c, n)[k + 1] = Short(-1)
  BY <1>1 DEF Unset
<1>3. \A k \in 0 .. BlockSize - 1 : k >= n => k + 1 \in 1..BlockSize /\ ~(k + 1 =< n)
  BY ConstantTypes
<1>4. \A k \in 0 .. BlockSize - 1 : k >= n => Unset(c, n)[k + 1] = c[k + 1]
  BY <1>3 DEF Unset
<1>5. QED
  BY <1>2, <1>4, Shorts

LEMMA EntriesInBlock ==
    ASSUME NEW role
    PROVE  /\ EntriesOf(role) \subseteq 0 .. BlockSize - 1
           /\ \A k : Real(ChildRole(role, k))
  BY RealRoles, ConstantTypes, BlockAssumption DEF EntriesOf, ChildRole

LEMMA ChildData ==
    ASSUME NEW role, NEW k, ~IsTable(ChildRole(role, k))
    PROVE  DataOf(ChildRole(role, k), role[2])
<1>1. ChildRole(role, k)[2] = role[2]
  BY RoleParts DEF ChildRole
<1>2. QED
  BY <1>1, EntriesInBlock DEF DataOf

\* The table in block t is written.
LEMMA TableWritten ==
    ASSUME NEW m, MemoryOK(m), NEW own, Held(m, own), NEW i \in Inodes, NEW t \in Blocks, t # 0, NEW c,
           NEW own2, own2 = [x \in Blocks |-> own2[x]], Refines(own, own2),
           \A x \in Blocks : own2[x] = Free <=> own[x] = Free,
           own2[t] # Free, Real(own[t]) => own[t][2] = i,
           \A x \in Blocks \ {t} : own2[x] = own[x] \/ ~IsTable(own2[x]),
           TableHolds(c, own2, own2[t]),
           NEW r, r.map = m.map, r.inode = m.inode, r.disk = [m.disk EXCEPT ![t] = c]
    PROVE  Acts(m, own, r, own2, i)
<1>1. r.disk[t] = c /\ \A x \in Blocks \ {t} : r.disk[x] = m.disk[x]
  BY DEF MemoryOK, DiskOK
<1>2. m.inode[i].avail => InodeHolds(r.inode[i].blocks, own2, i)
  BY InodeHoldsStay DEF Held
<1>3. \A x \in Blocks : \/ r.disk[x] = m.disk[x] /\ own2[x] = own[x]
                        \/ TableHolds(r.disk[x], own2, own2[x])
  BY <1>1, NoTableHolds
<1>4. \A k \in 1..BlockSize : Plain(r.disk[0][k])
  <2>1. 0 \in Blocks \ {t}
    BY ConstantTypes DEF Blocks
  <2>2. QED
    BY <1>1, <2>1 DEF Held
<1>5. QED
  BY <1>1, <1>2, <1>3, <1>4, HeldStep DEF Held

\* A table no place leads to yet: nothing is in it.
LEMMA TableMade ==
    ASSUME NEW m, MemoryOK(m), NEW own, Held(m, own), NEW i \in Inodes, NEW t \in Blocks, own[t] = Lost,
           NEW role, IsTable(role), Real(role), NEW c,
           \A k \in EntriesOf(role) : AsShort(c[k + 1]) = -1,
           NEW r, r.map = m.map, r.inode = m.inode, r.disk = [m.disk EXCEPT ![t] = c]
    PROVE  Acts(m, own, r, Gives(own, t, role), i)
<1> DEFINE own2 == Gives(own, t, role)
<1>1. /\ own2 = [x \in Blocks |-> own2[x]] /\ own2[t] = role
      /\ \A x \in Blocks \ {t} : own2[x] = own[x]
      /\ Refines(own, own2)
      /\ \A x \in Blocks : own2[x] = Free <=> own[x] = Free
  BY GivesParts, RealRoles DEF Held
<1> HIDE DEF own2
<1>2. TableHolds(c, own2, role)
  BY DEF TableHolds, Points
<1>3. t # 0
  BY RoleEq DEF Held, Lost
<1>4. own2[t] # Free
  BY <1>1 DEF Real
<1>5. ~Real(own[t])
  BY RealRoles
<1>6. Acts(m, own, r, own2, i)
  BY <1>1, <1>2, <1>3, <1>4, <1>5, TableWritten
<1>7. QED
  BY <1>6 DEF own2

\* From m to r inode i is acted on so that these blocks have these roles in the end.
Leads(m, own, r, i, t, role, b, child) ==
    \E own2 : Acts(m, own, r, own2, i) /\ own2[t] = role /\ own2[b] = child

\* A block is put into an entry of a table; it is new or has its role already.
LEMMA EntrySet ==
    ASSUME NEW m, MemoryOK(m), NEW own, Held(m, own), NEW i \in Inodes, NEW t \in Blocks, IsTable(own[t]),
           Real(own[t]), own[t][2] = i, NEW k \in EntriesOf(own[t]), NEW b \in Blocks,
           own[b] = ChildRole(own[t], k) \/ (own[b] = Lost /\ ~IsTable(ChildRole(own[t], k))),
           NEW r, r.map = m.map, r.inode = m.inode,
           r.disk = [m.disk EXCEPT ![t] = WithEntry(m.disk[t], k, b)]
    PROVE  Leads(m, own, r, i, t, own[t], b, ChildRole(own[t], k))
<1> DEFINE role == own[t]
           child == ChildRole(role, k)
           own2 == IF own[b] = child THEN own ELSE Gives(own, b, child)
           c == m.disk[t]
           e == WithEntry(c, k, b)
<1>1. own[b] # child => own[b] = Lost /\ t # b /\ ~IsTable(child)
  BY RealRoles
<1>2. /\ own2 = [x \in Blocks |-> own2[x]] /\ own2[b] = child
      /\ \A x \in Blocks \ {b} : own2[x] = own[x]
      /\ Refines(own, own2)
      /\ \A x \in Blocks : own2[x] = Free <=> own[x] = Free
  <2>1. CASE own[b] = child
    BY <2>1 DEF Held, Refines
  <2>2. CASE own[b] # child
    <3>1. own[b] = Lost /\ Real(child) /\ own = [x \in Blocks |-> own[x]]
      BY <1>1, <2>2, EntriesInBlock DEF Held
    <3> HIDE DEF child
    <3>2. QED
      BY <2>2, <3>1, GivesParts
  <2>3. QED
    BY <2>1, <2>2
<1>3. own2[t] = role
  BY <1>1, <1>2
<1>4. \A x \in Blocks \ {t} : own2[x] = own[x] \/ ~IsTable(own2[x])
  BY <1>1, <1>2
<1> HIDE DEF own2
<1>5. TableHolds(e, own2, role)
  <2>1. TableHolds(c, own2, role)
    BY <1>2, TableHoldsStay DEF Held
  <2>2. IsBlock(c)
    BY DEF MemoryOK, DiskOK
  <2>3. k \in 0 .. BlockSize - 1
    BY EntriesInBlock
  <2> HIDE DEF c
  <2>4. AsShort(e[k + 1]) = b /\ \A l \in 0 .. BlockSize - 1 : l # k => e[l + 1] = c[l + 1]
    BY <2>2, <2>3, EntryPut
  <2> HIDE DEF e
  <2>5. \A l \in EntriesOf(role) : Points(AsShort(e[l + 1]), own2, ChildRole(role, l))
    <3>1. SUFFICES ASSUME NEW l \in EntriesOf(role)
                   PROVE  Points(AsShort(e[l + 1]), own2, ChildRole(role, l))
      OBVIOUS
    <3>2. CASE l = k
      BY <1>2, <2>4, <3>2 DEF Points
    <3>3. CASE l # k
      <4>1. l \in 0 .. BlockSize - 1
        BY EntriesInBlock
      <4>2. e[l + 1] = c[l + 1]
        BY <2>4, <3>3, <4>1
      <4>3. Points(AsShort(c[l + 1]), own2, ChildRole(role, l))
        BY <2>1 DEF TableHolds
      <4>4. QED
        BY <4>2, <4>3
    <3>4. QED
      BY <3>2, <3>3
  <2>6. QED
    BY <2>5 DEF TableHolds
<1>6. t # 0
  <2>1. ~IsTable(Role("slot", 0, 0, 0))
    BY RoleParts, ConstantTypes DEF IsTable
  <2>2. QED
    BY <2>1 DEF Held
<1>7. own2[t] # Free
  BY <1>3 DEF Real
<1>8. Acts(m, own, r, own2, i)
  BY <1>2, <1>3, <1>4, <1>5, <1>6, <1>7, TableWritten
<1>9. QED
  BY <1>2, <1>3, <1>8 DEF Leads

\* An inode is led to a block that has its role already.
LEMMA SlotLinked ==
    ASSUME NEW m, MemoryOK(m), NEW own, Held(m, own), NEW i \in Inodes, m.inode[i].avail,
           NEW n \in 0 .. NumDirect + 1, NEW b, Points(b, own, Role("slot", i, n, 0)), NEW r, SetsSlot(m, r, i, n, b)
    PROVE  Acts(m, own, r, own, i)
<1>1. Refines(own, own)
  BY DEF Refines
<1>2. InodeHolds(r.inode[i].blocks, own, i)
  BY DEF InodeHolds, SetsSlot, Held
<1>3. QED
  BY <1>1, <1>2, HeldStep DEF Held, SetsSlot

\* r is m with x in entry k of the table in block b, which held c so far.
PutsEntry(m, r, b, c, k, x) ==
    /\ r.map = m.map /\ r.inode = m.inode /\ r.ub = m.ub /\ r.names = m.names /\ r.open = m.open
    /\ r.disk = IF b \in Blocks THEN [m.disk EXCEPT ![b] = WithEntry(c, k, x)] ELSE m.disk

LEMMA PutEntryParts ==
    ASSUME NEW m, MemoryOK(m), NEW b, NEW c, NEW k, NEW x
    PROVE  PutsEntry(m, put_entry(m, b, c, k, x), b, c, k, x)
  BY DEF put_entry, MemoryOK, TableNames, block_write, WithEntry, PutsEntry

\* m with block b written.
Written(m, b, c) == [m EXCEPT !.disk = [m.disk EXCEPT ![b] = c]]

LEMMA WrittenParts ==
    ASSUME NEW m, MemoryOK(m), NEW b \in Blocks, NEW c, IsBlock(c)
    PROVE  /\ MemoryOK(Written(m, b, c)) /\ Written(m, b, c).map = m.map /\ Written(m, b, c).inode = m.inode
           /\ Written(m, b, c).ub = m.ub /\ Written(m, b, c).disk = [m.disk EXCEPT ![b] = c]
           /\ Written(m, b, c).names = m.names /\ Written(m, b, c).open = m.open
<1>1. DiskOK([m.disk EXCEPT ![b] = c])
  BY WriteBlock DEF block_write, MemoryOK
<1>2. MemoryOK(Written(m, b, c))
  BY <1>1, DiskKeeps DEF Written, Keeps
<1>3. QED
  BY <1>2 DEF Written, MemoryOK, TableNames

\* A table is made in block t, with b in entry k.
LEMMA TableFilled ==
    ASSUME NEW m, MemoryOK(m), NEW own, Held(m, own), NEW i \in Inodes, NEW t \in Blocks, own[t] = Lost,
           NEW role, IsTable(role), Real(role), role[2] = i, NEW c, IsBlock(c),
           \A l \in EntriesOf(role) : AsShort(c[l + 1]) = -1,
           NEW k \in EntriesOf(role), ~IsTable(ChildRole(role, k)), NEW b \in Blocks, b # t, own[b] = Lost
    PROVE  Leads(m, own, Written(m, t, WithEntry(c, k, b)), i, t, role, b, ChildRole(role, k))
<1> DEFINE m1 == Written(m, t, c)
           own1 == Gives(own, t, role)
           r == Written(m, t, WithEntry(c, k, b))
<1>1. MemoryOK(m1) /\ m1.map = m.map /\ m1.inode = m.inode /\ m1.disk = [m.disk EXCEPT ![t] = c]
  BY WrittenParts
<1>2. own1[t] = role /\ own1[b] = Lost
  BY GivesParts DEF Held
<1>3. Acts(m, own, m1, own1, i)
  <2> HIDE DEF m1
  <2>1. QED
    BY <1>1, TableMade
<1>4. Held(m1, own1)
  BY <1>3 DEF Acts
<1>5. IsBlock(WithEntry(c, k, b))
  BY EntriesInBlock, EntryPut
<1>6. /\ r.map = m.map /\ r.inode = m.inode /\ r.disk = [m.disk EXCEPT ![t] = WithEntry(c, k, b)]
  BY <1>5, WrittenParts
<1> HIDE DEF m1, r, own1
<1>7. m1.disk[t] = c /\ r.disk = [m1.disk EXCEPT ![t] = WithEntry(m1.disk[t], k, b)]
  BY <1>1, <1>6 DEF MemoryOK, DiskOK
<1>8. Leads(m1, own1, r, i, t, own1[t], b, ChildRole(own1[t], k))
  <2>1. /\ IsTable(own1[t]) /\ Real(own1[t]) /\ own1[t][2] = i /\ k \in EntriesOf(own1[t])
        /\ own1[b] = Lost /\ ~IsTable(ChildRole(own1[t], k))
        /\ r.map = m1.map /\ r.inode = m1.inode
    BY <1>1, <1>2, <1>6
  <2>2. QED
    BY <1>1, <1>4, <1>7, <2>1, EntrySet
<1>9. PICK own2 : Acts(m1, own1, r, own2, i) /\ own2[t] = role /\ own2[b] = ChildRole(role, k)
  BY <1>2, <1>8 DEF Leads
<1>10. Acts(m, own, r, own2, i)
  BY <1>3, <1>9, ActsTwice
<1>11. QED
  BY <1>9, <1>10 DEF r, Leads

LEMMA SetSingleGoes ==
    ASSUME NEW m, MemoryOK(m), NEW own, Held(m, own), NEW i \in Inodes, m.inode[i].avail,
           NEW n \in NumDirect .. NumDirect + PerBlock - 1, NEW index \in Blocks, own[index] = Lost
    PROVE  Places(m, own, set_single(m, i, n, index), i, index)
<1> DEFINE old == m.inode[i].blocks[NumDirect]
           new == first_block(m)
           m1 == get_block(m)
           c == Unset(block_read(m.disk, new), PerBlock)
           k == InSingle(n)
           role == Role("slot", i, NumDirect, 0)
           m1s == [m1 EXCEPT !.inode[i].blocks[NumDirect] = new]
           r1 == put_entry(m1s, new, c, k, index)
           r2 == put_entry(m, old, block_read(m.disk, old), k, index)
<1>1. NumDirect \in 0 .. NumDirect + 1 /\ k \in 0 .. PerBlock - 1
  BY ConstantTypes DEF InSingle
<1>2. /\ IsTable(role) /\ Real(role) /\ role[2] = i /\ EntriesOf(role) = 0 .. PerBlock - 1
      /\ ChildRole(role, k) = Role("single", i, k, 0) /\ ~IsTable(ChildRole(role, k))
  BY RoleParts, RealRoles, ConstantTypes DEF IsTable, EntriesOf, ChildRole
<1>3. old \in Blocks \cup {-1} /\ Points(old, own, role)
  BY <1>1 DEF MemoryOK, TablesOK, InodeOK, Held, InodeHolds
<1>4. set_single(m, i, n, index) = IF old < 0 THEN r1 ELSE r2
  BY DEF set_single
<1> HIDE DEF k, role
<1>5. CASE old < 0
  <2>1. MemoryOK(m1)
    BY GetBlockKeeps DEF Keeps
  <2> HIDE DEF new, m1, c
  <2>2. new \in Blocks \cup {-1}
    BY FirstBlock DEF new
  <2>3. SetsSlot(m1, m1s, i, NumDirect, new) /\ MemoryOK(m1s)
    BY <1>1, <2>1, <2>2, SlotParts, BlocksKeep DEF Keeps
  <2> HIDE DEF m1s
  <2>4. /\ r1.map = m1.map /\ r1.inode = m1s.inode /\ r1.ub = m1.ub
        /\ new \in Blocks => r1.disk = [m1.disk EXCEPT ![new] = WithEntry(c, k, index)]
    <3>1. PutsEntry(m1s, r1, new, c, k, index)
      BY <2>3, PutEntryParts
    <3> HIDE DEF r1
    <3>2. QED
      BY <2>3, <3>1 DEF SetsSlot, PutsEntry
  <2> HIDE DEF r1
  <2>5. SUFFICES ASSUME r1.ub = "" PROVE \E own2 : Acts(m, own, r1, own2, i) /\ DataOf(own2[index], i)
    BY <1>4, <1>5 DEF Places
  <2>6. new # -1
    BY <2>4, <2>5, GetBlockParts DEF new, m1
  <2> DEFINE own1 == [own EXCEPT ![new] = Lost]
  <2>7. Acts(m, own, m1, own1, i) /\ new \in Blocks /\ own[new] = Free
    BY <2>6, GetBlockActs DEF new, m1
  <2>8. Held(m1, own1) /\ own1[new] = Lost /\ own1[index] = Lost /\ index # new
    BY <2>7, RealRoles DEF Acts, Held
  <2> HIDE DEF own1
  <2>9. IsBlock(c) /\ \A l \in 0 .. PerBlock - 1 : AsShort(c[l + 1]) = -1
    BY UnsetIsBlock, UnsetCells, BlockAssumption, ConstantTypes DEF c
  <2> DEFINE m2 == Written(m1, new, WithEntry(c, k, index))
  <2>10. PICK own2 : Acts(m1, own1, m2, own2, i) /\ own2[new] = role /\ DataOf(own2[index], i)
    <3>1. k \in EntriesOf(role) /\ \A l \in EntriesOf(role) : AsShort(c[l + 1]) = -1
      BY <1>1, <1>2, <2>9
    <3>2. Leads(m1, own1, m2, i, new, role, index, ChildRole(role, k))
      BY <1>2, <2>1, <2>7, <2>8, <2>9, <3>1, TableFilled
    <3>3. DataOf(ChildRole(role, k), i)
      BY <1>2, ChildData
    <3>4. QED
      BY <3>2, <3>3 DEF Leads
  <2>11. MemoryOK(m2) /\ m2.map = m1.map /\ m2.inode = m1.inode /\ m2.disk = [m1.disk EXCEPT ![new] = WithEntry(c, k, index)]
    <3>1. k \in 0 .. BlockSize - 1
      BY <1>1, <1>2, EntriesInBlock
    <3>2. IsBlock(WithEntry(c, k, index))
      BY <2>9, <3>1, EntryPut
    <3>3. QED
      BY <2>1, <2>7, <3>2, WrittenParts
  <2> HIDE DEF m2
  <2> DEFINE m3 == [m2 EXCEPT !.inode[i].blocks[NumDirect] = new]
  <2>12. SetsSlot(m2, m3, i, NumDirect, new)
    BY <1>1, <2>11, SlotParts
  <2> HIDE DEF m3
  <2>13. Acts(m2, own2, m3, own2, i)
    <3>1. Points(new, own2, Role("slot", i, NumDirect, 0))
      BY <2>7, <2>10 DEF Points, role
    <3>2. m2.inode[i].avail /\ Held(m2, own2)
      BY <2>7, <2>10, <2>11 DEF Acts
    <3>3. QED
      BY <1>1, <2>11, <2>12, <3>1, <3>2, SlotLinked
  <2>14. Acts(m, own, m3, own2, i)
    BY <2>7, <2>10, <2>13, ActsTwice
  <2>15. /\ r1.map = m3.map /\ r1.disk = m3.disk
         /\ \A j \in Inodes : /\ r1.inode[j].avail = m3.inode[j].avail /\ r1.inode[j].dir = m3.inode[j].dir
                              /\ r1.inode[j].blocks = m3.inode[j].blocks
    <3>1. /\ r1.map = m3.map /\ r1.disk = m3.disk
          /\ \A j \in Inodes : /\ r1.inode[j].avail = m3.inode[j].avail /\ r1.inode[j].dir = m3.inode[j].dir
                               /\ j # i => r1.inode[j].blocks = m3.inode[j].blocks
      BY <2>3, <2>4, <2>7, <2>11, <2>12 DEF SetsSlot
    <3>2. \A l \in 0 .. NumDirect + 1 : r1.inode[i].blocks[l] = m3.inode[i].blocks[l]
      BY <2>3, <2>4, <2>11, <2>12 DEF SetsSlot
    <3>3. /\ r1.inode[i].blocks = [l \in 0 .. NumDirect + 1 |-> r1.inode[i].blocks[l]]
          /\ m3.inode[i].blocks = [l \in 0 .. NumDirect + 1 |-> m3.inode[i].blocks[l]]
      <4>1. MemoryOK(m3)
        BY <1>1, <2>2, <2>11, BlocksKeep DEF Keeps, m3
      <4>2. QED
        BY <2>3, <2>4, <4>1 DEF MemoryOK, TablesOK, InodeOK
    <3>4. r1.inode[i].blocks = m3.inode[i].blocks
      BY <3>2, <3>3
    <3>5. QED
      BY <3>1, <3>4
  <2>16. Acts(m, own, r1, own2, i)
    BY <2>14, <2>15, ActsSame
  <2>17. QED
    BY <2>10, <2>16
<1>6. CASE ~(old < 0)
  <2>1. old \in Blocks /\ own[old] = role /\ block_read(m.disk, old) = m.disk[old]
    BY <1>3, <1>6, ConstantTypes DEF Points, block_read, Blocks
  <2>2. r2.map = m.map /\ r2.inode = m.inode /\ r2.disk = [m.disk EXCEPT ![old] = WithEntry(m.disk[old], k, index)]
    <3>1. PutsEntry(m, r2, old, block_read(m.disk, old), k, index)
      BY PutEntryParts
    <3> HIDE DEF r2, old
    <3>2. QED
      BY <2>1, <3>1 DEF PutsEntry
  <2> HIDE DEF r2, old
  <2>3. \E own2 : Acts(m, own, r2, own2, i) /\ DataOf(own2[index], i)
    <3>1. /\ IsTable(own[old]) /\ Real(own[old]) /\ own[old][2] = i /\ k \in EntriesOf(own[old])
          /\ ~IsTable(ChildRole(own[old], k))
      BY <1>1, <1>2, <2>1
    <3>2. Leads(m, own, r2, i, old, own[old], index, ChildRole(own[old], k))
      BY <2>1, <2>2, <3>1, EntrySet
    <3>3. DataOf(ChildRole(own[old], k), i)
      BY <3>1, ChildData
    <3>4. QED
      BY <3>2, <3>3 DEF Leads
  <2>4. QED
    BY <1>4, <1>6, <2>3 DEF Places
<1>7. QED
  BY <1>5, <1>6

-----------------------------------------------------------------------------
\* set_block_index through the double indirect block.

LEMMA OuterRoles ==
    ASSUME NEW i, NEW role, role = Role("slot", i, NumDirect + 1, 0)
    PROVE  /\ IsTable(role) /\ Real(role) /\ role[2] = i /\ EntriesOf(role) = 0..NumDouble
           /\ \A k : ChildRole(role, k) = Role("outer", i, k, 0)
  BY RoleParts, RealRoles, ConstantTypes DEF IsTable, EntriesOf, ChildRole

LEMMA InnerRoles ==
    ASSUME NEW i, NEW k, NEW role, role = Role("outer", i, k, 0)
    PROVE  /\ IsTable(role) /\ Real(role) /\ role[2] = i /\ EntriesOf(role) = 0 .. PerBlock - 1
           /\ \A l : ChildRole(role, l) = Role("inner", i, k, l) /\ ~IsTable(ChildRole(role, l))
<1>1. /\ IsTable(role) /\ Real(role) /\ role[2] = i /\ EntriesOf(role) = 0 .. PerBlock - 1
      /\ \A l : ChildRole(role, l) = Role("inner", i, k, l)
  BY RoleParts, RealRoles DEF IsTable, EntriesOf, ChildRole
<1>2. \A l : ~IsTable(Role("inner", i, k, l))
  BY RoleParts DEF IsTable
<1>3. QED
  BY <1>1, <1>2, Zenon

\* The outer table is there, and no other block that is used for nothing is used.
OuterLeads(m, own, r, i) ==
    r.ub = "" => /\ r.inode[i].blocks[NumDirect + 1] \in Blocks
                 /\ \E own2 : /\ Acts(m, own, r, own2, i)
                              /\ \A x \in Blocks : own[x] = Lost => own2[x] = Lost

LEMMA WithOuterSticks ==
    ASSUME NEW m, MemoryOK(m), NEW i
    PROVE  Sticks(m, with_outer(m, i))
<1> DEFINE old == m.inode[i].blocks[NumDirect + 1]
           new == first_block(m)
           m1 == get_block(m)
           c == Unset([k \in 1..BlockSize |-> Garbage], NumDouble)
           r == [m1 EXCEPT !.inode[i].blocks[NumDirect + 1] = new, !.disk = block_write(@, new, c)]
<1>1. with_outer(m, i) = IF old >= 0 THEN m ELSE r
  BY Zenon DEF with_outer
<1>2. MemoryOK(m1) /\ Sticks(m, m1)
  BY GetBlockKeeps, GetBlockSticks DEF Keeps
<1> HIDE DEF m1, new, c
<1>3. r.ub = m1.ub
  BY <1>2 DEF MemoryOK, TableNames
<1> HIDE DEF r
<1>4. QED
  BY <1>1, <1>2, <1>3 DEF Sticks

LEMMA WithOuterLeads ==
    ASSUME NEW m, MemoryOK(m), NEW own, Held(m, own), NEW i \in Inodes, m.inode[i].avail
    PROVE  OuterLeads(m, own, with_outer(m, i), i) /\ Sticks(m, with_outer(m, i))
<1> DEFINE old == m.inode[i].blocks[NumDirect + 1]
           new == first_block(m)
           m1 == get_block(m)
           g == [k \in 1..BlockSize |-> Garbage]
           c == Unset(g, NumDouble)
           role == Role("slot", i, NumDirect + 1, 0)
           r == [m1 EXCEPT !.inode[i].blocks[NumDirect + 1] = new, !.disk = block_write(@, new, c)]
<1>1. NumDirect + 1 \in 0 .. NumDirect + 1
  BY ConstantTypes
<1>2. old \in Blocks \cup {-1}
  BY <1>1 DEF MemoryOK, TablesOK, InodeOK
<1>3. with_outer(m, i) = IF old >= 0 THEN m ELSE r
  BY Zenon DEF with_outer
<1>4. CASE old >= 0
  <2>1. old \in Blocks
    BY <1>2, <1>4
  <2>2. QED
    BY <1>3, <1>4, <2>1, ActsSelf DEF OuterLeads, Sticks
<1>5. CASE ~(old >= 0)
  <2>1. MemoryOK(m1)
    BY GetBlockKeeps DEF Keeps
  <2> HIDE DEF new, m1, role
  <2>2. new \in Blocks \cup {-1}
    BY FirstBlock DEF new
  <2>3. IsBlock(c) /\ \A k \in 0..NumDouble : AsShort(c[k + 1]) = -1
    <3>1. NumDouble \in Nat /\ NumDouble =< BlockSize /\ NumDouble \in 0 .. BlockSize - 1 /\ NumDouble + 1 \in 1..BlockSize
      BY BlockAssumption, ConstantTypes
    <3>2. /\ \A k \in 0 .. NumDouble - 1 : AsShort(c[k + 1]) = -1
          /\ \A k \in 0 .. BlockSize - 1 : k >= NumDouble => c[k + 1] = g[k + 1]
      BY <3>1, UnsetCells
    <3>3. AsShort(c[NumDouble + 1]) = -1
      <4>1. c[NumDouble + 1] = g[NumDouble + 1] /\ g[NumDouble + 1] = Garbage
        <5>1. g[NumDouble + 1] = Garbage
          BY <3>1
        <5> HIDE DEF c, g
        <5>2. QED
          BY <3>1, <3>2, <5>1
      <4>2. AsShort(Garbage) = -1
        BY DEF AsShort, Garbage, Nul
      <4>3. QED
        BY <4>1, <4>2
    <3>4. IsBlock(c)
      BY UnsetIsBlock
    <3> HIDE DEF c
    <3>5. QED
      BY <3>1, <3>2, <3>3, <3>4
  <2> HIDE DEF c
  <2> DEFINE m2 == [m1 EXCEPT !.inode[i].blocks[NumDirect + 1] = new]
  <2>4. SetsSlot(m1, m2, i, NumDirect + 1, new) /\ MemoryOK(m2)
    BY <1>1, <2>1, <2>2, SlotParts, BlocksKeep DEF Keeps
  <2>5. /\ r.map = m1.map /\ r.inode = m2.inode /\ r.ub = m1.ub
        /\ new \in Blocks => r.disk = [m1.disk EXCEPT ![new] = c]
    BY <2>1 DEF MemoryOK, TableNames, block_write
  <2> HIDE DEF r, m2
  <2>6. Sticks(m, r)
    BY <2>5, GetBlockSticks DEF Sticks, m1
  <2>7. SUFFICES ASSUME r.ub = ""
                 PROVE  /\ r.inode[i].blocks[NumDirect + 1] \in Blocks
                        /\ \E own2 : /\ Acts(m, own, r, own2, i)
                                     /\ \A x \in Blocks : own[x] = Lost => own2[x] = Lost
    BY <1>3, <1>5, <2>6 DEF OuterLeads
  <2>8. new # -1
    BY <2>5, <2>7, GetBlockParts DEF new, m1
  <2> DEFINE own1 == [own EXCEPT ![new] = Lost]
             own2 == Gives(own1, new, role)
  <2>9. Acts(m, own, m1, own1, i) /\ new \in Blocks /\ own[new] = Free
    BY <2>8, GetBlockActs DEF new, m1
  <2>10. Held(m1, own1) /\ own1[new] = Lost /\ \A x \in Blocks : x # new => own1[x] = own[x]
    BY <2>9 DEF Acts, Held
  <2> HIDE DEF own1
  <2>11. IsTable(role) /\ Real(role) /\ role[2] = i /\ EntriesOf(role) = 0..NumDouble
    BY OuterRoles DEF role
  <2>12. own2[new] = role /\ \A x \in Blocks \ {new} : own2[x] = own1[x]
    BY <2>9, <2>10, <2>11, GivesParts DEF Held
  <2> DEFINE m3 == Written(m1, new, c)
  <2>13. MemoryOK(m3) /\ m3.map = m1.map /\ m3.inode = m1.inode /\ m3.disk = [m1.disk EXCEPT ![new] = c]
    BY <2>1, <2>3, <2>9, WrittenParts
  <2> HIDE DEF m3, own2
  <2>14. Acts(m1, own1, m3, own2, i)
    <3>1. \A k \in EntriesOf(role) : AsShort(c[k + 1]) = -1
      BY <2>3, <2>11
    <3>2. QED
      BY <2>1, <2>9, <2>10, <2>11, <2>13, <3>1, TableMade DEF own2
  <2> DEFINE m4 == [m3 EXCEPT !.inode[i].blocks[NumDirect + 1] = new]
  <2>15. SetsSlot(m3, m4, i, NumDirect + 1, new) /\ MemoryOK(m4)
    BY <1>1, <2>2, <2>13, SlotParts, BlocksKeep DEF Keeps
  <2> HIDE DEF m4
  <2>16. Acts(m3, own2, m4, own2, i)
    <3>1. Points(new, own2, Role("slot", i, NumDirect + 1, 0))
      BY <2>9, <2>12 DEF Points, role
    <3>2. m3.inode[i].avail /\ Held(m3, own2)
      BY <2>9, <2>13, <2>14 DEF Acts
    <3>3. QED
      BY <1>1, <2>13, <2>15, <3>1, <3>2, SlotLinked
  <2>17. Acts(m, own, m4, own2, i)
    BY <2>9, <2>14, <2>16, ActsTwice
  <2>18. /\ r.map = m4.map /\ r.disk = m4.disk
         /\ \A j \in Inodes : /\ r.inode[j].avail = m4.inode[j].avail /\ r.inode[j].dir = m4.inode[j].dir
                              /\ r.inode[j].blocks = m4.inode[j].blocks
    <3>1. /\ r.map = m4.map /\ r.disk = m4.disk
          /\ \A j \in Inodes : /\ r.inode[j].avail = m4.inode[j].avail /\ r.inode[j].dir = m4.inode[j].dir
                               /\ j # i => r.inode[j].blocks = m4.inode[j].blocks
      BY <2>4, <2>5, <2>9, <2>13, <2>15 DEF SetsSlot
    <3>2. \A l \in 0 .. NumDirect + 1 : r.inode[i].blocks[l] = m4.inode[i].blocks[l]
      BY <2>4, <2>5, <2>13, <2>15 DEF SetsSlot
    <3>3. /\ r.inode[i].blocks = [l \in 0 .. NumDirect + 1 |-> r.inode[i].blocks[l]]
          /\ m4.inode[i].blocks = [l \in 0 .. NumDirect + 1 |-> m4.inode[i].blocks[l]]
      BY <2>4, <2>5, <2>15 DEF MemoryOK, TablesOK, InodeOK
    <3>4. r.inode[i].blocks = m4.inode[i].blocks
      BY <3>2, <3>3
    <3>5. QED
      BY <3>1, <3>4
  <2>19. Acts(m, own, r, own2, i)
    BY <2>17, <2>18, ActsSame
  <2>20. r.inode[i].blocks[NumDirect + 1] \in Blocks
    BY <2>4, <2>5, <2>9 DEF SetsSlot
  <2>21. \A x \in Blocks : own[x] = Lost => own2[x] = Lost
    BY <2>9, <2>10, <2>12, RealRoles
  <2>22. QED
    BY <2>19, <2>20, <2>21
<1>6. QED
  BY <1>4, <1>5

LEMMA SetSingleSticks ==
    ASSUME NEW m, MemoryOK(m), NEW i \in Inodes, NEW n, NEW index
    PROVE  Sticks(m, set_single(m, i, n, index))
<1> DEFINE old == m.inode[i].blocks[NumDirect]
           new == first_block(m)
           m1 == get_block(m)
           c == Unset(block_read(m.disk, new), PerBlock)
           k == InSingle(n)
           m1s == [m1 EXCEPT !.inode[i].blocks[NumDirect] = new]
           r1 == put_entry(m1s, new, c, k, index)
           r2 == put_entry(m, old, block_read(m.disk, old), k, index)
<1>1. set_single(m, i, n, index) = IF old < 0 THEN r1 ELSE r2
  BY DEF set_single
<1>2. r2.ub = m.ub
  <2>1. PutsEntry(m, r2, old, block_read(m.disk, old), k, index)
    BY PutEntryParts
  <2>2. QED
    BY <2>1 DEF PutsEntry
<1>3. MemoryOK(m1) /\ Sticks(m, m1)
  BY GetBlockKeeps, GetBlockSticks DEF Keeps
<1>4. MemoryOK(m1s) /\ m1s.ub = m1.ub
  <2>1. NumDirect \in 0 .. NumDirect + 1 /\ new \in Blocks \cup {-1}
    BY FirstBlock, ConstantTypes
  <2> HIDE DEF m1, new
  <2>2. QED
    <3>1. SetsSlot(m1, m1s, i, NumDirect, new)
      BY <1>3, <2>1, SlotParts
    <3>2. Keeps(m1, m1s)
      BY <1>3, <2>1, BlocksKeep
    <3>3. QED
      BY <3>1, <3>2 DEF Keeps, SetsSlot
<1> HIDE DEF m1s, m1, c, k, new
<1>5. r1.ub = m1s.ub
  <2>1. PutsEntry(m1s, r1, new, c, k, index)
    BY <1>4, PutEntryParts
  <2>2. QED
    BY <2>1 DEF PutsEntry
<1> HIDE DEF r1, r2
<1>6. QED
  BY <1>1, <1>2, <1>3, <1>4, <1>5 DEF Sticks

LEMMA QuotientAtMost ==
    ASSUME NEW x \in Nat, NEW b \in Nat \ {0}, NEW q \in Nat, x =< q * b
    PROVE  x \div b \in 0..q
<1> DEFINE p == x \div b
           s == x % b
<1>1. p \in Int /\ s \in 0..b - 1 /\ x = b * p + s
  OBVIOUS
<1> HIDE DEF p, s
<1>2. ASSUME p < 0 PROVE FALSE
  <2>1. b * p =< b * (-1)
    BY <1>1, <1>2
  <2>2. QED
    BY <1>1, <2>1
<1>3. ASSUME p > q PROVE FALSE
  <2>1. p - q - 1 \in Nat
    BY <1>1, <1>3
  <2>2. b * (p - q - 1) \in Nat
    BY <2>1
  <2>3. b * (p - q - 1) = b * p - q * b - b
    BY <1>1
  <2>4. q * b \in Nat /\ b * p \in Int
    BY <1>1
  <2>5. QED
    BY <1>1, <2>2, <2>3, <2>4
<1>4. QED
  BY <1>1, <1>2, <1>3 DEF p

\* The positions in the tables of the double indirect block: also for one block more than
\* the largest file has.
LEMMA DoublePositions ==
    ASSUME NEW n \in NumDirect + PerBlock .. MaxFileBlocks
    PROVE  InOuter(n) \in 0..NumDouble /\ InInner(n) \in 0 .. PerBlock - 1
<1> DEFINE x == n - NumDirect - PerBlock
           most == NumDouble * PerBlock
<1>1. most \in Nat
  BY ConstantTypes
<1> HIDE DEF most
<1>2. x \in Nat /\ x =< most
  BY <1>1, ConstantTypes DEF MaxFileBlocks, most
<1> HIDE DEF x
<1>3. x \div PerBlock \in 0..NumDouble /\ x % PerBlock \in 0 .. PerBlock - 1
  BY <1>2, ConstantTypes, QuotientAtMost DEF most
<1>4. QED
  BY <1>3 DEF InOuter, InInner, x

LEMMA SetDoubleSticks ==
    ASSUME NEW m0, MemoryOK(m0), NEW i \in Inodes, NEW n, NEW index
    PROVE  Sticks(with_outer(m0, i), set_double(m0, i, n, index))
<1> DEFINE m == with_outer(m0, i)
           outer == m.inode[i].blocks[NumDirect + 1]
           c == block_read(m.disk, outer)
           inner == AsShort(c[InOuter(n) + 1])
           new == first_block(m)
           m1 == get_block(m)
           m2 == put_entry(m1, outer, c, InOuter(n), new)
           r1 == put_entry(m2, new, Unset(c, PerBlock), InInner(n), index)
           r2 == put_entry(m, inner, block_read(m.disk, inner), InInner(n), index)
<1>1. set_double(m0, i, n, index) = IF inner < 0 THEN r1 ELSE r2
  BY DEF set_double
<1>2. MemoryOK(m)
  BY WithOuterKeeps DEF Keeps
<1> HIDE DEF m
<1>3. MemoryOK(m1) /\ Sticks(m, m1)
  BY <1>2, GetBlockKeeps, GetBlockSticks DEF Keeps
<1>4. IsBlock(c)
  BY <1>2, ReadBlock DEF MemoryOK
<1> HIDE DEF m1, c, outer, inner, new
<1>5. MemoryOK(m2) /\ m2.ub = m1.ub
  <2>1. Keeps(m1, m2)
    BY <1>3, <1>4, PutEntryKeeps
  <2>2. PutsEntry(m1, m2, outer, c, InOuter(n), new)
    BY <1>3, PutEntryParts
  <2>3. QED
    BY <2>1, <2>2 DEF Keeps, PutsEntry
<1> HIDE DEF m2
<1>6. r1.ub = m2.ub
  <2>1. PutsEntry(m2, r1, new, Unset(c, PerBlock), InInner(n), index)
    BY <1>5, PutEntryParts
  <2>2. QED
    BY <2>1 DEF PutsEntry
<1>7. r2.ub = m.ub
  <2>1. PutsEntry(m, r2, inner, block_read(m.disk, inner), InInner(n), index)
    BY <1>2, PutEntryParts
  <2>2. QED
    BY <2>1 DEF PutsEntry
<1> HIDE DEF r1, r2
<1>8. QED
  BY <1>1, <1>3, <1>5, <1>6, <1>7 DEF Sticks, m

\* What set_double does once the outer table is there.
PutInner(m, outer, k, l, inner, index) ==
    IF inner < 0
    THEN put_entry(put_entry(get_block(m), outer, m.disk[outer], k, first_block(m)),
                   first_block(m), Unset(m.disk[outer], PerBlock), l, index)
    ELSE put_entry(m, inner, block_read(m.disk, inner), l, index)

LEMMA NoBlock ==
    /\ \A b \in Blocks : b # -1 /\ ~(b < 0)
    /\ -1 \notin Blocks /\ -1 < 0 /\ NumDirect \in 0 .. NumDirect + 1 /\ NumDirect + 1 \in 0 .. NumDirect + 1
  BY ConstantTypes DEF Blocks

LEMMA InnerSet ==
    ASSUME NEW m, MemoryOK(m), NEW own, Held(m, own), NEW i \in Inodes, m.inode[i].avail,
           NEW outer \in Blocks, outer = m.inode[i].blocks[NumDirect + 1],
           NEW k \in 0..NumDouble, NEW l \in 0 .. PerBlock - 1, NEW index \in Blocks, own[index] = Lost,
           NEW inner, inner = AsShort(m.disk[outer][k + 1]), NEW r,
           r = PutInner(m, outer, k, l, inner, index)
    PROVE  Places(m, own, r, i, index)
<1> DEFINE top == Role("slot", i, NumDirect + 1, 0)
           role == Role("outer", i, k, 0)
<1>1. own[outer] = top /\ IsBlock(m.disk[outer])
  <2>1. NumDirect + 1 \in 0 .. NumDirect + 1 /\ outer # -1
    BY NoBlock, Zenon
  <2>2. Points(outer, own, top)
    BY <2>1 DEF Held, InodeHolds
  <2>3. QED
    BY <2>1, <2>2 DEF Points, MemoryOK, DiskOK
<1>2. /\ IsTable(top) /\ Real(top) /\ top[2] = i /\ EntriesOf(top) = 0..NumDouble
      /\ ChildRole(top, k) = role
  BY OuterRoles
<1>3. /\ IsTable(role) /\ Real(role) /\ role[2] = i /\ EntriesOf(role) = 0 .. PerBlock - 1
      /\ ~IsTable(ChildRole(role, l))
  BY InnerRoles
<1>4. Points(inner, own, role)
  <2>1. TableHolds(m.disk[outer], own, top)
    BY <1>1, Zenon DEF Held
  <2>2. QED
    BY <1>2, <2>1, Zenon DEF TableHolds
<1> HIDE DEF top, role
<1>5. CASE inner < 0
  <2> DEFINE new == first_block(m)
             m1 == get_block(m)
             c == m.disk[outer]
             m2 == put_entry(m1, outer, c, k, new)
             e == Unset(c, PerBlock)
  <2>1. r = put_entry(m2, new, e, l, index)
    BY <1>5 DEF PutInner
  <2>2. MemoryOK(m1)
    BY GetBlockKeeps DEF Keeps
  <2> HIDE DEF new, m1, c
  <2>3. PutsEntry(m1, m2, outer, c, k, new) /\ MemoryOK(m2)
    <3>1. Keeps(m1, m2)
      BY <1>1, <2>2, PutEntryKeeps DEF c
    <3>2. QED
      BY <2>2, <3>1, PutEntryParts DEF Keeps
  <2> HIDE DEF m2
  <2>4. PutsEntry(m2, r, new, e, l, index)
    BY <2>1, <2>3, PutEntryParts
  <2>5. SUFFICES ASSUME r.ub = "" PROVE \E own2 : Acts(m, own, r, own2, i) /\ DataOf(own2[index], i)
    BY DEF Places
  <2>6. new # -1
    <3>1. m1.ub = ""
      BY <2>3, <2>4, <2>5, Zenon DEF PutsEntry
    <3>2. first_block(m) = -1 => m1.ub = "disk full"
      BY GetBlockParts, Zenon DEF m1
    <3>3. QED
      BY <3>1, <3>2 DEF new
  <2> DEFINE own1 == [own EXCEPT ![new] = Lost]
  <2>7. Acts(m, own, m1, own1, i) /\ new \in Blocks /\ own[new] = Free /\ m1.disk = m.disk
    BY <2>6, GetBlockActs, GetBlockParts DEF new, m1
  <2>8. /\ Held(m1, own1) /\ own1[new] = Lost /\ own1[index] = Lost /\ index # new
        /\ own1[outer] = top /\ outer # new
    BY <1>1, <1>2, <2>7, RealRoles DEF Acts, Held
  <2> HIDE DEF own1
  <2>9. IsBlock(e) /\ \A x \in EntriesOf(role) : AsShort(e[x + 1]) = -1
    BY <1>3, UnsetIsBlock, UnsetCells, BlockAssumption, ConstantTypes
  <2> HIDE DEF e
  <2> DEFINE m3 == Written(m1, new, WithEntry(e, l, index))
  <2>10. PICK own2 : Acts(m1, own1, m3, own2, i) /\ own2[new] = role /\ own2[index] = ChildRole(role, l)
    <3>1. Leads(m1, own1, m3, i, new, role, index, ChildRole(role, l))
      BY <1>3, <2>2, <2>7, <2>8, <2>9, TableFilled
    <3>2. QED
      BY <3>1 DEF Leads
  <2>11. MemoryOK(m3) /\ m3.map = m1.map /\ m3.inode = m1.inode /\ m3.disk = [m1.disk EXCEPT ![new] = WithEntry(e, l, index)]
    <3>1. l \in 0 .. BlockSize - 1
      BY <1>3, EntriesInBlock
    <3>2. IsBlock(WithEntry(e, l, index))
      BY <2>9, <3>1, EntryPut
    <3> DEFINE w == WithEntry(e, l, index)
    <3>3. new \in Blocks /\ IsBlock(w)
      BY <2>7, <3>2
    <3> HIDE DEF w
    <3>4. /\ MemoryOK(Written(m1, new, w)) /\ Written(m1, new, w).map = m1.map
          /\ Written(m1, new, w).inode = m1.inode /\ Written(m1, new, w).disk = [m1.disk EXCEPT ![new] = w]
      BY ONLY <2>2, <3>3, WrittenParts, SMT
    <3>5. QED
      BY <3>4, Zenon DEF w
  <2> HIDE DEF m3
  <2>12. Held(m3, own2) /\ own2[outer] = top
    BY <1>2, <2>8, <2>10 DEF Acts, Refines
  <2>13. /\ r.map = m3.map /\ r.inode = m3.inode
         /\ r.disk = [m3.disk EXCEPT ![outer] = WithEntry(m3.disk[outer], k, new)]
    <3>1. /\ r.map = m1.map /\ r.inode = m1.inode
          /\ r.disk = [[m1.disk EXCEPT ![outer] = WithEntry(c, k, new)] EXCEPT ![new] = WithEntry(e, l, index)]
      BY <2>3, <2>4, <2>7 DEF PutsEntry
    <3>2. m3.disk[outer] = c /\ DOMAIN m1.disk = Blocks
      BY <2>2, <2>7, <2>8, <2>11 DEF c, MemoryOK, DiskOK
    <3>3. [[m1.disk EXCEPT ![outer] = WithEntry(c, k, new)] EXCEPT ![new] = WithEntry(e, l, index)]
          = [[m1.disk EXCEPT ![new] = WithEntry(e, l, index)] EXCEPT ![outer] = WithEntry(c, k, new)]
      BY <2>8
    <3>4. QED
      BY <2>11, <3>1, <3>2, <3>3
  <2>14. Leads(m3, own2, r, i, outer, own2[outer], new, ChildRole(own2[outer], k))
    <3>1. /\ IsTable(own2[outer]) /\ Real(own2[outer]) /\ own2[outer][2] = i /\ k \in EntriesOf(own2[outer])
          /\ own2[new] = ChildRole(own2[outer], k)
      BY <1>2, <2>10, <2>12
    <3>2. QED
      BY <2>7, <2>11, <2>12, <2>13, <3>1, EntrySet
  <2>15. PICK own3 : Acts(m3, own2, r, own3, i)
    BY <2>14 DEF Leads
  <2>16. Acts(m, own, r, own3, i)
    <3>1. Acts(m, own, m3, own2, i)
      BY <2>7, <2>10, ActsTwice, Zenon
    <3>2. QED
      BY <2>15, <3>1, ActsTwice, Zenon
  <2>17. DataOf(own3[index], i)
    <3>1. Real(ChildRole(role, l)) /\ DataOf(ChildRole(role, l), i)
      BY <1>3, EntriesInBlock, ChildData
    <3>2. own3[index] = ChildRole(role, l)
      BY <2>10, <2>15, <3>1 DEF Acts, Refines
    <3>3. QED
      BY <3>1, <3>2
  <2>18. QED
    BY <2>16, <2>17
<1>6. CASE ~(inner < 0)
  <2>1. inner \in Blocks /\ own[inner] = role /\ block_read(m.disk, inner) = m.disk[inner]
    <3>1. inner # -1
      BY <1>6, NoBlock
    <3>2. QED
      BY <1>4, <3>1, Zenon DEF Points, block_read
  <2>2. PutsEntry(m, r, inner, m.disk[inner], l, index)
    <3>1. r = put_entry(m, inner, m.disk[inner], l, index)
      BY <1>6, <2>1 DEF PutInner
    <3>2. QED
      BY <3>1, PutEntryParts
  <2>3. r.map = m.map /\ r.inode = m.inode /\ r.disk = [m.disk EXCEPT ![inner] = WithEntry(m.disk[inner], l, index)]
    BY <2>1, <2>2 DEF PutsEntry
  <2>4. /\ IsTable(own[inner]) /\ Real(own[inner]) /\ own[inner][2] = i /\ l \in EntriesOf(own[inner])
        /\ ~IsTable(ChildRole(own[inner], l))
    BY <1>3, <2>1
  <2>5. Leads(m, own, r, i, inner, own[inner], index, ChildRole(own[inner], l))
    BY <2>1, <2>3, <2>4, EntrySet
  <2>6. DataOf(ChildRole(own[inner], l), i)
    BY <2>4, ChildData
  <2>7. QED
    BY <2>5, <2>6 DEF Leads, Places
<1>7. QED
  BY <1>5, <1>6

LEMMA SetDoubleGoes ==
    ASSUME NEW m, MemoryOK(m), NEW own, Held(m, own), NEW i \in Inodes, m.inode[i].avail,
           NEW n \in NumDirect + PerBlock .. MaxFileBlocks, NEW index \in Blocks, own[index] = Lost
    PROVE  Places(m, own, set_double(m, i, n, index), i, index)
<1> DEFINE s == with_outer(m, i)
           outer == s.inode[i].blocks[NumDirect + 1]
           inner == AsShort(s.disk[outer][InOuter(n) + 1])
           r == set_double(m, i, n, index)
<1>1. MemoryOK(s)
  BY WithOuterKeeps DEF Keeps
<1>2. OuterLeads(m, own, s, i) /\ Sticks(s, r)
  BY WithOuterLeads, SetDoubleSticks
<1>3. SUFFICES ASSUME r.ub = "" PROVE \E own2 : Acts(m, own, r, own2, i) /\ DataOf(own2[index], i)
  BY DEF Places
<1>4. s.ub = ""
  BY <1>2, <1>3 DEF Sticks
<1>5. outer \in Blocks
  BY <1>2, <1>4 DEF OuterLeads
<1>6. PICK own1 : Acts(m, own, s, own1, i) /\ own1[index] = Lost
  BY <1>2, <1>4 DEF OuterLeads
<1>7. r = PutInner(s, outer, InOuter(n), InInner(n), inner, index)
  <2>1. block_read(s.disk, outer) = s.disk[outer]
    BY <1>5 DEF block_read
  <2>2. QED
    BY <2>1, Zenon DEF set_double, PutInner
<1> HIDE DEF s, r
<1>8. Held(s, own1) /\ s.inode[i].avail
  BY <1>6 DEF Acts
<1>9. Places(s, own1, r, i, index)
  <2>1. InOuter(n) \in 0..NumDouble /\ InInner(n) \in 0 .. PerBlock - 1
    BY DoublePositions
  <2>2. PICK k, l : k = InOuter(n) /\ l = InInner(n)
    OBVIOUS
  <2>3. PICK o, x : o = outer /\ x = inner
    OBVIOUS
  <2>4. /\ k \in 0..NumDouble /\ l \in 0 .. PerBlock - 1 /\ o \in Blocks /\ o = s.inode[i].blocks[NumDirect + 1]
        /\ x = AsShort(s.disk[o][k + 1])
        /\ r = PutInner(s, o, k, l, x, index)
    BY <1>5, <1>7, <2>1, <2>2, <2>3, Zenon
  <2>5. QED
    BY <1>1, <1>6, <1>8, <2>4, InnerSet
<1>10. PICK own2 : Acts(s, own1, r, own2, i) /\ DataOf(own2[index], i)
  BY <1>3, <1>9 DEF Places
<1>11. Acts(m, own, r, own2, i)
  BY <1>6, <1>10, ActsTwice
<1>12. QED
  BY <1>10, <1>11

\* A block that is used for nothing is put in its place.
LEMMA SetBlockIndexGoes ==
    ASSUME NEW m, MemoryOK(m), NEW own, Held(m, own), NEW i \in Inodes, m.inode[i].avail,
           NEW n \in Nat, NEW index \in Blocks, own[index] = Lost
    PROVE  Places(m, own, set_block_index(m, i, n, index), i, index)
<1> USE ConstantTypes
<1>1. CASE n < NumDirect
  <2>1. set_block_index(m, i, n, index) = [m EXCEPT !.inode[i].blocks[n] = index]
    BY <1>1 DEF set_block_index
  <2>2. n \in 0 .. NumDirect - 1
    BY <1>1
  <2>3. Acts(m, own, [m EXCEPT !.inode[i].blocks[n] = index], Gives(own, index, Role("slot", i, n, 0)), i)
    BY <2>2, SlotSet
  <2>4. DataOf(Gives(own, index, Role("slot", i, n, 0))[index], i)
    <3>1. Gives(own, index, Role("slot", i, n, 0))[index] = Role("slot", i, n, 0)
      BY RealRoles, GivesParts DEF Held
    <3>2. DataOf(Role("slot", i, n, 0), i)
      BY <2>2, RealRoles, RoleParts DEF DataOf, IsTable
    <3>3. QED
      BY <3>1, <3>2
  <2>5. QED
    BY <2>1, <2>3, <2>4, Zenon DEF Places
<1>2. CASE n >= NumDirect /\ n < NumDirect + PerBlock
  <2>1. set_block_index(m, i, n, index) = set_single(m, i, n, index)
    BY <1>2 DEF set_block_index
  <2>2. n \in NumDirect .. NumDirect + PerBlock - 1
    BY <1>2
  <2>3. QED
    BY <2>1, <2>2, SetSingleGoes
<1>3. CASE n >= NumDirect + PerBlock /\ n =< MaxFileBlocks
  <2>1. set_block_index(m, i, n, index) = set_double(m, i, n, index)
    BY <1>3 DEF set_block_index
  <2>2. n \in NumDirect + PerBlock .. MaxFileBlocks
    BY <1>3
  <2>3. QED
    BY <2>1, <2>2, SetDoubleGoes
<1>4. CASE n > MaxFileBlocks
  <2>1. set_block_index(m, i, n, index) = m
    BY <1>4 DEF set_block_index
  <2>2. QED
    <3>1. DataOf(Lost, i)
      BY RoleParts DEF DataOf, IsTable, Lost
    <3>2. QED
      BY <2>1, <3>1, ActsSelf DEF Places
<1>5. QED
  BY <1>1, <1>2, <1>3, <1>4

LEMMA SetBlockIndexSticks ==
    ASSUME NEW m, MemoryOK(m), NEW i \in Inodes, NEW n \in Nat, NEW index
    PROVE  Sticks(m, set_block_index(m, i, n, index))
<1> USE ConstantTypes
<1>1. CASE n < NumDirect
  <2>1. set_block_index(m, i, n, index) = [m EXCEPT !.inode[i].blocks[n] = index]
    BY <1>1 DEF set_block_index
  <2>2. n \in 0 .. NumDirect + 1
    BY <1>1
  <2>3. SetsSlot(m, [m EXCEPT !.inode[i].blocks[n] = index], i, n, index)
    BY <2>2, SlotParts
  <2>4. set_block_index(m, i, n, index).ub = m.ub
    BY <2>1, <2>3, Zenon DEF SetsSlot
  <2>5. QED
    BY <2>4 DEF Sticks
<1>2. CASE n >= NumDirect /\ n < NumDirect + PerBlock
  <2>1. set_block_index(m, i, n, index) = set_single(m, i, n, index)
    BY <1>2 DEF set_block_index
  <2>2. QED
    BY <2>1, SetSingleSticks
<1>3. CASE n >= NumDirect + PerBlock /\ n =< MaxFileBlocks
  <2>1. set_block_index(m, i, n, index) = set_double(m, i, n, index)
    BY <1>3 DEF set_block_index
  <2>2. QED
    <3>1. Sticks(m, with_outer(m, i)) /\ Sticks(with_outer(m, i), set_double(m, i, n, index))
      BY WithOuterSticks, SetDoubleSticks, Zenon
    <3>2. Sticks(m, set_double(m, i, n, index))
      BY <3>1 DEF Sticks
    <3>3. QED
      BY <2>1, <3>2, Zenon
<1>4. CASE n > MaxFileBlocks
  <2>1. set_block_index(m, i, n, index) = m
    BY <1>4 DEF set_block_index
  <2>2. QED
    BY <2>1 DEF Sticks
<1>5. QED
  BY <1>1, <1>2, <1>3, <1>4

-----------------------------------------------------------------------------
\* What get_block_index finds.

\* No block, block 0, or a block of data of inode i.
DataIndex(v, own, i) == v \in {-1, 0, NumBlocks} \/ (v \in Blocks /\ Real(own[v]) /\ DataOf(own[v], i))

LEMMA PointsToData ==
    ASSUME NEW v, NEW own, NEW role, NEW i, Points(v, own, role), Real(role), DataOf(role, i)
    PROVE  DataIndex(v, own, i)
  BY DEF Points, DataIndex

\* A table that is not there is read as zeroes.
LEMMA NoEntries ==
    ASSUME NEW m, NEW k \in 0 .. BlockSize - 1
    PROVE  Entry(m, -1, k) = 0
<1>1. block_read(m.disk, -1) = Zero
  BY NoBlock DEF block_read
<1>2. Zero[k + 1] = Nul
  BY ConstantTypes DEF Zero
<1>3. QED
  BY <1>1, <1>2 DEF Entry, AsShort

LEMMA EntryPoints ==
    ASSUME NEW m, MemoryOK(m), NEW own, Held(m, own), NEW t \in Blocks, IsTable(own[t]), NEW k \in EntriesOf(own[t])
    PROVE  Points(Entry(m, t, k), own, ChildRole(own[t], k))
<1>1. Entry(m, t, k) = AsShort(m.disk[t][k + 1])
  BY DEF Entry, block_read
<1>2. QED
  BY <1>1 DEF Held, TableHolds

\* What get_block_index finds; also through tables that are not there.
LEMMA IndexIsData ==
    ASSUME NEW m, MemoryOK(m), NEW own, Held(m, own), NEW i \in Inodes, m.inode[i].avail, NEW n \in Nat
    PROVE  DataIndex(get_block_index(m, i, n), own, i)
<1> USE ConstantTypes
<1> DEFINE blocks == m.inode[i].blocks
           v == get_block_index(m, i, n)
<1>1. \A x \in 0 .. NumDirect + 1 : Points(blocks[x], own, Role("slot", i, x, 0))
  BY DEF Held, InodeHolds
<1>2. CASE n < NumDirect
  <2>1. v = blocks[n]
    BY <1>2 DEF get_block_index
  <2>2. n \in 0 .. NumDirect - 1 /\ n \in 0 .. NumDirect + 1
    BY <1>2
  <2>3. DataOf(Role("slot", i, n, 0), i) /\ Real(Role("slot", i, n, 0))
    BY <2>2, RealRoles, RoleParts DEF DataOf, IsTable
  <2>4. Points(v, own, Role("slot", i, n, 0))
    BY <1>1, <2>1, <2>2, Zenon
  <2>5. QED
    BY <2>3, <2>4, PointsToData, Zenon
<1>3. CASE n >= NumDirect /\ n < NumDirect + PerBlock
  <2> DEFINE t == blocks[NumDirect]
             k == InSingle(n)
             role == Role("slot", i, NumDirect, 0)
  <2>1. v = Entry(m, t, k)
    BY <1>3 DEF get_block_index
  <2>2. k \in 0 .. PerBlock - 1
    BY <1>3 DEF InSingle
  <2>3. Points(t, own, role)
    BY <1>1, NoBlock, Zenon
  <2>4. /\ IsTable(role) /\ role[2] = i /\ EntriesOf(role) = 0 .. PerBlock - 1
        /\ ~IsTable(ChildRole(role, k))
    BY RoleParts, RealRoles DEF IsTable, EntriesOf, ChildRole
  <2> HIDE DEF t, k, role, v
  <2>5. DataOf(ChildRole(role, k), i) /\ Real(ChildRole(role, k)) /\ k \in 0 .. BlockSize - 1
    BY <2>2, <2>4, ChildData, EntriesInBlock
  <2>6. CASE t = -1
    BY <2>1, <2>5, <2>6, NoEntries DEF DataIndex, v
  <2>7. CASE t \in Blocks /\ own[t] = role
    <3>1. Points(v, own, ChildRole(role, k))
      BY <2>1, <2>2, <2>4, <2>7, EntryPoints
    <3>2. QED
      BY <2>5, <3>1, PointsToData DEF v
  <2>8. QED
    BY <2>3, <2>6, <2>7 DEF Points, v
<1>4. CASE n >= NumDirect + PerBlock /\ n < MaxFileBlocks
  <2> DEFINE t == blocks[NumDirect + 1]
             k == InOuter(n)
             l == InInner(n)
             s == Entry(m, t, k)
             top == Role("slot", i, NumDirect + 1, 0)
             role == Role("outer", i, k, 0)
  <2>1. v = Entry(m, s, l)
    BY <1>4 DEF get_block_index
  <2>2. k \in 0..NumDouble /\ l \in 0 .. PerBlock - 1
    <3>1. n \in NumDirect + PerBlock .. MaxFileBlocks
      BY <1>4
    <3>2. QED
      BY <3>1, DoublePositions
  <2>3. Points(t, own, top)
    BY <1>1, NoBlock, Zenon
  <2>4. IsTable(top) /\ EntriesOf(top) = 0..NumDouble /\ ChildRole(top, k) = role
    BY OuterRoles
  <2>5. IsTable(role) /\ role[2] = i /\ EntriesOf(role) = 0 .. PerBlock - 1 /\ ~IsTable(ChildRole(role, l))
    BY InnerRoles
  <2> HIDE DEF t, k, l, s, top, role, v
  <2>6. k \in 0 .. BlockSize - 1 /\ l \in 0 .. BlockSize - 1 /\ Real(ChildRole(role, l)) /\ DataOf(ChildRole(role, l), i)
    BY <2>2, <2>4, <2>5, EntriesInBlock, ChildData
  <2>7. s = 0 \/ Points(s, own, role)
    <3>1. CASE t = -1
      BY <2>6, <3>1, NoEntries DEF s
    <3>2. CASE t \in Blocks /\ own[t] = top
      BY <2>2, <2>4, <3>2, EntryPoints DEF s
    <3>3. QED
      BY <2>3, <3>1, <3>2 DEF Points
  <2>8. CASE s = 0
    <3>1. 0 \in Blocks /\ l + 1 \in 1..BlockSize
      BY <2>6 DEF Blocks
    <3>2. v = AsShort(m.disk[0][l + 1])
      BY <2>1, <2>8, <3>1 DEF Entry, block_read
    <3>3. QED
      BY <3>1, <3>2 DEF Held, Plain, DataIndex, v
  <2>9. CASE s = -1
    BY <2>1, <2>6, <2>9, NoEntries DEF DataIndex, v
  <2>10. CASE s \in Blocks /\ own[s] = role
    <3>1. Points(v, own, ChildRole(role, l))
      BY <2>1, <2>2, <2>5, <2>10, EntryPoints
    <3>2. QED
      BY <2>6, <3>1, PointsToData DEF v
  <2>11. QED
    BY <2>7, <2>8, <2>9, <2>10 DEF Points
<1>5. CASE n >= MaxFileBlocks
  <2>1. v = -1
    BY <1>5 DEF get_block_index
  <2>2. QED
    BY <2>1 DEF DataIndex
<1>6. QED
  BY <1>2, <1>3, <1>4, <1>5

\* A block of data is written; block 0 with no block numbers.
LEMMA DataWritten ==
    ASSUME NEW m, MemoryOK(m), NEW own, Held(m, own), NEW i \in Inodes, NEW v,
           v \in Blocks => v = 0 \/ DataOf(own[v], i),
           NEW c, v = 0 => \A k \in 1..BlockSize : Plain(c[k]), NEW r, r.map = m.map,
           \A j \in Inodes : /\ r.inode[j].avail = m.inode[j].avail /\ r.inode[j].dir = m.inode[j].dir
                             /\ r.inode[j].blocks = m.inode[j].blocks,
           r.disk = block_write(m.disk, v, c), v \in Blocks => own[v] # Free
    PROVE  Acts(m, own, r, own, i)
<1>1. Refines(own, own) /\ own = [b \in Blocks |-> own[b]]
  BY DEF Refines, Held
<1>2. \A b \in Blocks : r.disk[b] = IF b = v THEN c ELSE m.disk[b]
  <2>1. CASE v \in Blocks
    BY <2>1 DEF block_write, MemoryOK, DiskOK
  <2>2. CASE v \notin Blocks
    BY <2>2 DEF block_write
  <2>3. QED
    BY <2>1, <2>2
<1>3. v \in Blocks => ~IsTable(own[v])
  <2>1. ~IsTable(Role("slot", 0, 0, 0))
    BY RoleParts, ConstantTypes DEF IsTable
  <2>2. QED
    BY <2>1 DEF Held, DataOf
<1>4. \A b \in Blocks : TableHolds(r.disk[b], own, own[b])
  BY <1>2, <1>3, NoTableHolds DEF Held
<1>5. \A b \in Blocks : Real(own[b]) /\ own[b][2] # i /\ b # 0 => r.disk[b] = m.disk[b]
  BY <1>2, RealRoles DEF DataOf
<1>6. \A k \in 1..BlockSize : Plain(r.disk[0][k])
  <2>1. 0 \in Blocks
    BY ConstantTypes DEF Blocks
  <2>2. QED
    BY <1>2, <2>1 DEF Held
<1>7. \A b \in Blocks : own[b] = Free => r.disk[b] = m.disk[b]
  BY <1>2
<1>8. m.inode[i].avail => InodeHolds(r.inode[i].blocks, own, i)
  BY DEF Held
<1>9. \A b \in Blocks : r.map[b] <=> own[b] # Free
  BY DEF Held
<1>10. QED
  BY <1>1, <1>4, <1>5, <1>6, <1>7, <1>8, <1>9, HeldStep

\* The same at what get_block_index finds.
LEMMA IndexWritten ==
    ASSUME NEW m, MemoryOK(m), NEW own, Held(m, own), NEW i \in Inodes, NEW v, DataIndex(v, own, i),
           NEW c, v = 0 => \A k \in 1..BlockSize : Plain(c[k]), NEW r, r.map = m.map,
           \A j \in Inodes : /\ r.inode[j].avail = m.inode[j].avail /\ r.inode[j].dir = m.inode[j].dir
                             /\ r.inode[j].blocks = m.inode[j].blocks,
           r.disk = block_write(m.disk, v, c)
    PROVE  Acts(m, own, r, own, i)
<1>1. 0 \in Blocks /\ NumBlocks \notin Blocks /\ -1 \notin Blocks
  BY ConstantTypes DEF Blocks
<1>2. v \in Blocks => v = 0 \/ DataOf(own[v], i)
  BY <1>1 DEF DataIndex
<1>3. v \in Blocks => own[v] # Free
  <2>1. own[0] # Free
    BY RealRoles DEF Held, Real
  <2>2. QED
    BY <1>1, <2>1 DEF DataIndex, Real
<1>4. QED
  BY <1>2, <1>3, DataWritten

-----------------------------------------------------------------------------
\* Growing a directory: add_dir_entry.

\* The cells of a sequence are no block numbers.
AllPlain(s, n) == \A k \in 1..n : Plain(s[k])

LEMMA TextIsPart ==
    ASSUME NEW c, IsBlock(c)
    PROVE  \E n \in 0..BlockSize : Text(c) = [k \in 1..n |-> c[k]]
<1>1. CASE Ends(c) = {}
  <2>1. Text(c) = [k \in 1..BlockSize |-> c[k]] /\ BlockSize \in 0..BlockSize
    BY <1>1, ConstantTypes DEF Text, IsBlock
  <2>2. QED
    BY <2>1
<1>2. CASE Ends(c) # {}
  <2> DEFINE e == Min(Ends(c))
             len == e - 1
  <2>1. e \in 1..BlockSize
    <3>1. Ends(c) \subseteq Nat /\ Ends(c) \subseteq 1..BlockSize
      BY ConstantTypes DEF Ends
    <3>2. \E x \in Ends(c) : \A y \in Ends(c) : x =< y
      BY <1>2, <3>1, LeastNumber
    <3>3. Min(Ends(c)) \in Ends(c)
      BY <3>2 DEF Min
    <3>4. QED
      BY <3>1, <3>3
  <2>2. Text(c) = SubSeq(c, 1, len)
    BY <1>2 DEF Text
  <2> HIDE DEF e
  <2>3. /\ BlockSize \in Nat /\ c = [k \in 1..BlockSize |-> c[k]] /\ 0 \in Nat /\ len \in Nat
        /\ 0 + len =< BlockSize /\ 0 + 1 = 1 /\ 0 + len = len /\ len \in 0..BlockSize
    BY <2>1, ConstantTypes DEF IsBlock
  <2> HIDE DEF len
  <2>4. SubSeq(c, 0 + 1, 0 + len) = [k \in 1..len |-> c[0 + k]]
    BY ONLY <2>3, Slice, SMT
  <2>5. \A k \in 1..len : 0 + k = k
    OBVIOUS
  <2>6. SubSeq(c, 1, len) = [k \in 1..len |-> c[k]]
    BY <2>3, <2>4, <2>5
  <2>7. QED
    BY <2>2, <2>3, <2>6
<1>3. QED
  BY <1>1, <1>2

LEMMA Halves ==
    ASSUME NEW n \in Nat, NEW f, f = [k \in 1 .. 2 * n |-> f[k]]
    PROVE  /\ SubSeq(f, 1, n) = [k \in 1..n |-> f[k]]
           /\ SubSeq(f, n + 1, 2 * n) = [k \in 1..n |-> f[n + k]]
<1> DEFINE N == 2 * n
<1>1. N \in Nat /\ 0 \in Nat /\ 0 + n =< N /\ n + n =< N /\ 0 + 1 = 1 /\ 0 + n = n /\ n + n = N
  OBVIOUS
<1> HIDE DEF N
<1>2. f = [k \in 1..N |-> f[k]]
  BY DEF N
<1>3. SubSeq(f, 0 + 1, 0 + n) = [k \in 1..n |-> f[0 + k]]
  BY ONLY n \in Nat, <1>1, <1>2, Slice, SMT
<1>4. SubSeq(f, n + 1, n + n) = [k \in 1..n |-> f[n + k]]
  <2>1. PICK a : a = n
    OBVIOUS
  <2>2. a \in Nat /\ a + n =< N
    BY <1>1, <2>1
  <2>3. SubSeq(f, a + 1, a + n) = [k \in 1..n |-> f[a + k]]
    BY ONLY n \in Nat, <1>1, <1>2, <2>2, Slice, SMT
  <2>4. QED
    BY <2>1, <2>3
<1>5. \A k \in 1..n : 0 + k = k
  OBVIOUS
<1>6. QED
  BY <1>1, <1>3, <1>4, <1>5 DEF N

\* The cells of a directory's block with an entry put in, and of what lies behind it.
EntryCells(c, name, i) == {c[k] : k \in 1..BlockSize} \cup {Token(name), Token(ToString(i)), Nul, Garbage}
HasCells(c, S) == \A k \in 1..BlockSize : c[k] \in S

LEMMA BufferCells ==
    ASSUME NEW c, IsBlock(c), NEW name, NEW i, NEW text,
           text = Text(c) \o DirEntry(name, i) \o <<Nul>>, NEW buf,
           buf = [k \in 1 .. 2 * BlockSize |->
                    IF k =< Len(text) THEN text[k] ELSE IF k =< BlockSize THEN c[k] ELSE Garbage]
    PROVE  /\ HasCells(SubSeq(buf, 1, BlockSize), EntryCells(c, name, i))
           /\ HasCells(SubSeq(buf, BlockSize + 1, 2 * BlockSize), EntryCells(c, name, i))
<1> DEFINE S == EntryCells(c, name, i)
<1>1. Token(name) \in S /\ Token(ToString(i)) \in S /\ Nul \in S /\ Garbage \in S
  BY DEF EntryCells
<1>2. \A k \in 1..BlockSize : c[k] \in S
  BY DEF EntryCells
<1> HIDE DEF S
<1>3. Text(c) \in Seq(S) /\ DirEntry(name, i) \in Seq(S) /\ <<Nul>> \in Seq(S)
  <2>1. PICK n \in 0..BlockSize : Text(c) = [k \in 1..n |-> c[k]]
    BY TextIsPart
  <2>2. \A k \in 1..n : c[k] \in S
    BY <1>2, <2>1, ConstantTypes
  <2>3. Text(c) \in Seq(S)
    <3>1. n \in Nat /\ [k \in 1..n |-> c[k]] \in [1..n -> S]
      BY <2>1, <2>2, ConstantTypes
    <3>2. \A k \in Nat : \A f \in [1..k -> S] : f \in Seq(S)
      OBVIOUS
    <3>3. QED
      BY <2>1, <3>1, <3>2
  <2>4. DirEntry(name, i) \in Seq(S)
    BY <1>1 DEF DirEntry
  <2>5. <<Nul>> \in Seq(S)
    BY <1>1
  <2>6. QED
    BY <2>3, <2>4, <2>5
<1>4. text \in Seq(S)
  <2>1. \A t, u, w \in Seq(S) : t \o u \o w \in Seq(S)
    OBVIOUS
  <2>2. QED
    BY <1>3, <2>1, Zenon
<1>5. \A k \in 1 .. 2 * BlockSize : buf[k] \in S
  <2>1. Len(text) \in Nat /\ \A k \in 1..Len(text) : text[k] \in S
    BY <1>4
  <2>2. SUFFICES ASSUME NEW k \in 1 .. 2 * BlockSize PROVE buf[k] \in S
    OBVIOUS
  <2>3. k \in Nat /\ k >= 1
    BY ConstantTypes
  <2>4. CASE k =< Len(text)
    <3>1. buf[k] = text[k] /\ k \in 1..Len(text)
      BY <2>1, <2>3, <2>4
    <3>2. QED
      BY <2>1, <3>1
  <2>5. CASE ~(k =< Len(text)) /\ k =< BlockSize
    BY <1>2, <2>3, <2>5
  <2>6. CASE ~(k =< Len(text)) /\ ~(k =< BlockSize)
    BY <1>1, <2>6
  <2>7. QED
    BY <2>4, <2>5, <2>6
<1>6. /\ SubSeq(buf, 1, BlockSize) = [k \in 1..BlockSize |-> buf[k]]
      /\ SubSeq(buf, BlockSize + 1, 2 * BlockSize) = [k \in 1..BlockSize |-> buf[BlockSize + k]]
  <2>1. BlockSize \in Nat /\ buf = [k \in 1 .. 2 * BlockSize |-> buf[k]]
    BY ConstantTypes
  <2>2. QED
    BY ONLY <2>1, Halves
<1>7. \A k \in 1..BlockSize : k \in 1 .. 2 * BlockSize /\ BlockSize + k \in 1 .. 2 * BlockSize
  BY ConstantTypes
<1>8. QED
  BY <1>5, <1>6, <1>7 DEF HasCells, S

\* The first half of the buffer of create holds block numbers only where the block did.
LEMMA BufferPlain ==
    ASSUME NEW c, IsBlock(c), AllPlain(c, BlockSize), NEW name, NEW i, NEW text,
           text = Text(c) \o DirEntry(name, i) \o <<Nul>>, NEW buf,
           buf = [k \in 1 .. 2 * BlockSize |->
                    IF k =< Len(text) THEN text[k] ELSE IF k =< BlockSize THEN c[k] ELSE Garbage]
    PROVE  AllPlain(SubSeq(buf, 1, BlockSize), BlockSize)
<1>1. \A x \in EntryCells(c, name, i) : Plain(x)
  BY Shorts DEF AllPlain, EntryCells
<1>2. HasCells(SubSeq(buf, 1, BlockSize), EntryCells(c, name, i))
  BY BufferCells
<1>3. QED
  BY <1>1, <1>2 DEF HasCells, AllPlain

\* A block is marked and put in place n of inode i.
Lengthened(m, i, n) == set_block_index(get_block(m), i, n, first_block(m))

Lengthens(m, own, r, i) ==
    /\ Sticks(m, r) /\ MemoryOK(r)
    /\ r.ub = "" => /\ first_block(m) \in Blocks \ {0}
                    /\ \E own2 : Acts(m, own, r, own2, i) /\ DataOf(own2[first_block(m)], i)

LEMMA LengthenedSticks ==
    ASSUME NEW m, MemoryOK(m), NEW i \in Inodes, NEW n \in Nat
    PROVE  MemoryOK(Lengthened(m, i, n)) /\ Sticks(m, Lengthened(m, i, n)) /\ Sticks(get_block(m), Lengthened(m, i, n))
<1> DEFINE new == first_block(m)
           g == get_block(m)
           r == set_block_index(g, i, n, new)
<1>1. MemoryOK(g) /\ new \in Blocks \cup {-1} /\ Sticks(m, g)
  BY GetBlockKeeps, GetBlockSticks, FirstBlock DEF Keeps
<1>2. Lengthened(m, i, n) = r
  BY DEF Lengthened
<1> HIDE DEF g, new
<1>3. Keeps(g, r)
  BY <1>1, SetBlockIndexKeeps
<1>4. Sticks(g, r)
  BY <1>1, SetBlockIndexSticks
<1> HIDE DEF r
<1>5. MemoryOK(r) /\ Sticks(m, r)
  BY <1>1, <1>3, <1>4 DEF Keeps, Sticks
<1>6. QED
  BY <1>2, <1>4, <1>5 DEF g

LEMMA LengthenedGoes ==
    ASSUME NEW m, MemoryOK(m), NEW own, Held(m, own), NEW i \in Inodes, m.inode[i].avail, NEW n \in Nat
    PROVE  Lengthens(m, own, Lengthened(m, i, n), i)
<1> DEFINE new == first_block(m)
           g == get_block(m)
           r == Lengthened(m, i, n)
<1>1. MemoryOK(g) /\ g.inode = m.inode
  BY GetBlockKeeps, GetBlockParts DEF Keeps
<1>2. MemoryOK(r) /\ Sticks(m, r) /\ Sticks(g, r)
  BY LengthenedSticks
<1>3. r = set_block_index(g, i, n, new)
  BY DEF Lengthened
<1> HIDE DEF r
<1>4. ASSUME r.ub = "" PROVE new \in Blocks \ {0} /\ \E own2 : Acts(m, own, r, own2, i) /\ DataOf(own2[new], i)
  <2>1. g.ub = ""
    BY <1>2, <1>4 DEF Sticks
  <2>2. new # -1
    BY <2>1, GetBlockParts
  <2> DEFINE own1 == [own EXCEPT ![new] = Lost]
  <2>3. Acts(m, own, g, own1, i) /\ new \in Blocks /\ own[new] = Free
    BY <2>2, GetBlockActs
  <2>4. own1[new] = Lost /\ Held(g, own1) /\ g.inode[i].avail
    BY <1>1, <2>3 DEF Held, Acts
  <2>5. new # 0
    BY <2>3, RealRoles DEF Held, Real
  <2> HIDE DEF own1, g, new
  <2>6. Places(g, own1, r, i, new)
    BY <1>1, <1>3, <2>3, <2>4, SetBlockIndexGoes
  <2>7. PICK own2 : Acts(g, own1, r, own2, i) /\ DataOf(own2[new], i)
    BY <1>4, <2>6 DEF Places
  <2>8. Acts(m, own, r, own2, i)
    BY <2>3, <2>7, ActsTwice
  <2>9. QED
    BY <2>3, <2>5, <2>7, <2>8
<1>5. QED
  BY <1>2, <1>4 DEF Lengthens, r

\* The same, and cells c are written to the new block.
Extends(m, i, n, c) ==
    LET r == set_block_index(get_block(m), i, n, first_block(m))
    IN  [r EXCEPT !.disk = block_write(@, first_block(m), c)]

LEMMA ExtendsGoes ==
    ASSUME NEW m, MemoryOK(m), NEW own, Held(m, own), NEW i \in Inodes, m.inode[i].avail, NEW n \in Nat,
           NEW c, IsBlock(c)
    PROVE  /\ Goes(m, own, Extends(m, i, n, c), i) /\ Sticks(m, Extends(m, i, n, c))
           /\ MemoryOK(Extends(m, i, n, c))
<1> DEFINE new == first_block(m)
           r == Lengthened(m, i, n)
           s == [r EXCEPT !.disk = block_write(r.disk, new, c)]
<1>1. Lengthens(m, own, r, i)
  BY LengthenedGoes
<1>2. Extends(m, i, n, c) = s
  BY DEF Extends, Lengthened
<1> HIDE DEF r
<1>3. MemoryOK(r) /\ Sticks(m, r)
  BY <1>1 DEF Lengthens
<1>5. s.ub = r.ub /\ s.map = r.map /\ s.inode = r.inode /\ s.disk = block_write(r.disk, new, c) /\ MemoryOK(s)
  <2>1. s.ub = r.ub /\ s.map = r.map /\ s.inode = r.inode /\ s.disk = block_write(r.disk, new, c)
    BY <1>3 DEF MemoryOK, TableNames
  <2>2. DiskOK(block_write(r.disk, new, c))
    BY <1>3, WriteBlock DEF MemoryOK
  <2>3. Keeps(r, s)
    BY <1>3, <2>2, DiskKeeps
  <2>4. QED
    BY <2>1, <2>3 DEF Keeps
<1> HIDE DEF s
<1>6. Sticks(m, s)
  BY <1>3, <1>5 DEF Sticks
<1>7. ASSUME s.ub = "" PROVE \E own2 : Acts(m, own, s, own2, i)
  <2>1. new \in Blocks \ {0}
    BY <1>1, <1>5, <1>7 DEF Lengthens
  <2>2. PICK own2 : Acts(m, own, r, own2, i) /\ DataOf(own2[new], i)
    BY <1>1, <1>5, <1>7 DEF Lengthens
  <2>3. own2[new] # Free
    BY <2>2, RealRoles DEF DataOf
  <2>4. Held(r, own2)
    BY <2>2 DEF Acts
  <2> HIDE DEF new
  <2>5. Acts(r, own2, s, own2, i)
    <3>1. \A j \in Inodes : /\ s.inode[j].avail = r.inode[j].avail /\ s.inode[j].dir = r.inode[j].dir
                            /\ s.inode[j].blocks = r.inode[j].blocks
      BY <1>5
    <3>2. new \in Blocks => new = 0 \/ DataOf(own2[new], i)
      BY <2>2
    <3>3. new = 0 => \A k \in 1..BlockSize : Plain(c[k])
      BY <2>1
    <3>4. QED
      BY <1>3, <1>5, <2>3, <2>4, <3>1, <3>2, <3>3, DataWritten
  <2>6. Acts(m, own, s, own2, i)
    BY <2>2, <2>5, ActsTwice
  <2>7. QED
    BY <2>6
<1>8. QED
  BY <1>2, <1>5, <1>6, <1>7 DEF Goes

LEMMA AddEntryGoes ==
    ASSUME NEW m, MemoryOK(m), NEW own, Held(m, own), NEW dir \in Inodes, m.inode[dir].avail, m.inode[dir].dir,
           NEW name, NEW i, NEW wide
    PROVE  Goes(m, own, add_entry(m, dir, name, i, wide), dir) /\ Sticks(m, add_entry(m, dir, name, i, wide))
<1> DEFINE at == Min({n \in 0..MaxFileBlocks : Ends(DirBlock(m, dir, n)) # {}})
           c == DirBlock(m, dir, at)
           text == Text(c) \o DirEntry(name, i) \o <<Nul>>
           buf == [k \in 1 .. 2 * BlockSize |->
                    IF k =< Len(text) THEN text[k] ELSE IF k =< BlockSize THEN c[k] ELSE Garbage]
           b == get_block_index(m, dir, at)
           u == IF Len(text) > BlockSize /\ ~wide THEN "buffer overrun" ELSE m.ub
           low == SubSeq(buf, 1, BlockSize)
           high == SubSeq(buf, BlockSize + 1, 2 * BlockSize)
           m1 == [m EXCEPT !.disk = block_write(@, b, low), !.ub = u]
           m3 == Extends(m1, dir, at + 1, high)
           grows == CRem(m.inode[dir].size, BlockSize) + 3 > BlockSize
           last == IF grows THEN m3 ELSE m1
           r == [last EXCEPT !.inode[dir].size = @ + 3, !.inode[dir].nlink = @ + 1]
<1>1. IsBlock(low) /\ IsBlock(high)
  <2>1. buf = [k \in 1 .. 2 * BlockSize |-> buf[k]]
    OBVIOUS
  <2> HIDE DEF buf
  <2>2. QED
    BY <2>1, HalvesAreBlocks
<1>2. at \in Nat /\ at + 1 \in Nat
  <2>1. at \in 0..MaxFileBlocks
    BY EndFound
  <2> HIDE DEF at
  <2>2. QED
    BY <2>1, ConstantTypes
<1>3. b = 0 => AllPlain(low, BlockSize)
  <2>1. SUFFICES ASSUME b = 0 PROVE AllPlain(low, BlockSize)
    OBVIOUS
  <2>2. 0 \in Blocks
    BY ConstantTypes DEF Blocks
  <2>3. c = m.disk[0]
    BY <2>1, <2>2 DEF DirBlock, block_read
  <2>4. IsBlock(c) /\ AllPlain(c, BlockSize)
    BY <2>2, <2>3 DEF MemoryOK, DiskOK, Held, AllPlain
  <2> HIDE DEF c
  <2>5. QED
    BY <2>4, BufferPlain
<1>4. DataIndex(b, own, dir)
  <2> HIDE DEF at
  <2>1. QED
    BY <1>2, IndexIsData
<1>5. r = add_entry(m, dir, name, i, wide)
  BY DEF add_entry, Extends
<1> HIDE DEF at, low, high, u, b
<1>6. m1.map = m.map /\ m1.inode = m.inode /\ m1.disk = block_write(m.disk, b, low) /\ m1.ub = u /\ MemoryOK(m1)
  <2>1. DiskOK(block_write(m.disk, b, low))
    BY <1>1, WriteBlock DEF MemoryOK
  <2>2. Keeps(m, [m EXCEPT !.disk = block_write(m.disk, b, low), !.ub = u])
    BY <2>1, BehaviourKeeps
  <2>3. MemoryOK(m1)
    BY <2>2 DEF Keeps
  <2>4. QED
    BY <2>3 DEF MemoryOK, TableNames
<1> HIDE DEF m1
<1>7. Acts(m, own, m1, own, dir)
  <2>1. b = 0 => \A k \in 1..BlockSize : Plain(low[k])
    BY <1>3 DEF AllPlain
  <2>2. \A j \in Inodes : /\ m1.inode[j].avail = m.inode[j].avail /\ m1.inode[j].dir = m.inode[j].dir
                          /\ m1.inode[j].blocks = m.inode[j].blocks
    BY <1>6
  <2>3. QED
    BY <1>4, <1>6, <2>1, <2>2, IndexWritten
<1>8. Sticks(m, m1)
  BY <1>6 DEF Sticks, u
<1>9. Held(m1, own) /\ m1.inode[dir].avail
  BY <1>6, <1>7 DEF Acts
<1>10. Goes(m1, own, m3, dir) /\ Sticks(m1, m3) /\ MemoryOK(m3)
  BY <1>1, <1>2, <1>6, <1>9, ExtendsGoes
<1> HIDE DEF m3, grows
<1>11. Goes(m, own, m1, dir)
  BY <1>7 DEF Goes
<1>12. Goes(m, own, m3, dir) /\ Sticks(m, m3)
  <2>1. Sticks(m, m3)
    BY <1>8, <1>10 DEF Sticks
  <2>2. ASSUME m3.ub = "" PROVE \E own2 : Acts(m, own, m3, own2, dir)
    <3>1. PICK own2 : Acts(m1, own, m3, own2, dir)
      BY <1>10, <2>2 DEF Goes
    <3>2. Acts(m, own, m3, own2, dir)
      BY <1>7, <3>1, ActsTwice
    <3>3. QED
      BY <3>2
  <2>3. QED
    BY <2>1, <2>2 DEF Goes
<1>13. Goes(m, own, last, dir) /\ Sticks(m, last) /\ MemoryOK(last)
  BY <1>6, <1>8, <1>10, <1>11, <1>12
<1> HIDE DEF last
<1>14. /\ r.map = last.map /\ r.disk = last.disk /\ r.ub = last.ub
       /\ \A j \in Inodes : /\ r.inode[j].avail = last.inode[j].avail /\ r.inode[j].dir = last.inode[j].dir
                            /\ r.inode[j].blocks = last.inode[j].blocks
  BY <1>13 DEF MemoryOK, TablesOK, InodeOK, TableNames, Fields
<1> HIDE DEF r
<1>15. Goes(m, own, r, dir)
  <2>1. ASSUME r.ub = "" PROVE \E own2 : Acts(m, own, r, own2, dir)
    <3>1. PICK own2 : Acts(m, own, last, own2, dir)
      BY <1>13, <1>14, <2>1 DEF Goes
    <3>2. Acts(m, own, r, own2, dir)
      BY <1>14, <3>1, ActsSame
    <3>3. QED
      BY <3>2
  <2>2. QED
    BY <2>1 DEF Goes
<1>16. Sticks(m, r)
  BY <1>13, <1>14 DEF Sticks
<1>17. QED
  BY <1>5, <1>15, <1>16

-----------------------------------------------------------------------------
\* Shrinking one, and giving up blocks: remove_dir_entry, free_inode.

LEMMA TwoDirect == NumDirect >= 2
  BY BlockAssumption

\* The elements of a set of positions, counted from the left.
LEMMA CountReaches ==
    ASSUME NEW L \in Nat, NEW left \in SUBSET (1..L), NEW n \in 1..Cardinality(left)
    PROVE  \E k \in left : Cardinality({j \in left : j =< k}) = n
<1> DEFINE Upto(k) == {j \in left : j =< k}
           T == {k \in Nat : Cardinality(Upto(k)) >= n}
<1>1. IsFiniteSet(left) /\ Cardinality(left) \in Nat
  <2>1. IsFiniteSet(1..L)
    BY FS_Interval
  <2>2. IsFiniteSet(left)
    BY <2>1, FS_Subset
  <2>3. QED
    BY <2>2, FS_CardinalityType
<1>2. \A k \in Nat : IsFiniteSet(Upto(k)) /\ Cardinality(Upto(k)) \in Nat
  <2>1. \A k \in Nat : Upto(k) \in SUBSET left
    OBVIOUS
  <2> HIDE DEF Upto
  <2>2. \A k \in Nat : IsFiniteSet(Upto(k))
    BY <1>1, <2>1, FS_Subset
  <2>3. QED
    BY <2>2, FS_CardinalityType
<1>3. Upto(L) = left /\ Upto(0) = {}
  <2>1. \A j \in left : j \in Nat /\ j =< L /\ ~(j =< 0)
    OBVIOUS
  <2>2. QED
    BY <2>1
<1>4. \A k \in Nat \ {0} : Upto(k) = IF k \in left THEN Upto(k - 1) \cup {k} ELSE Upto(k - 1)
  <2>1. \A j \in left : j \in Nat
    OBVIOUS
  <2>2. \A k \in Nat \ {0} : \A j \in left : j =< k <=> j =< k - 1 \/ j = k
    BY <2>1
  <2>3. ASSUME NEW k \in Nat \ {0}, k \in left PROVE Upto(k) = Upto(k - 1) \cup {k}
    BY <2>2, <2>3
  <2>4. ASSUME NEW k \in Nat \ {0}, k \notin left PROVE Upto(k) = Upto(k - 1)
    <3>1. \A j \in left : j # k
      BY <2>4
    <3>2. \A j \in left : j =< k <=> j =< k - 1
      BY <2>2, <3>1
    <3>3. QED
      BY <3>2
  <2> HIDE DEF Upto
  <2>5. QED
    BY <2>3, <2>4
<1>5. \A k \in Nat \ {0} : k \notin Upto(k - 1)
  OBVIOUS
<1> HIDE DEF Upto
<1>6. L \in T
  BY <1>1, <1>3
<1>7. PICK k \in T : \A j \in T : k =< j
  BY <1>6, LeastNumber
<1>8. k # 0
  BY <1>3, FS_EmptySet
<1>9. k \in Nat \ {0} /\ k - 1 \in Nat /\ ~(k =< k - 1)
  BY <1>8
<1>10. k - 1 \notin T
  BY <1>7, <1>9
<1>11. Cardinality(Upto(k - 1)) < n
  BY <1>1, <1>2, <1>9, <1>10
<1>12. k \in left
  <2>1. ASSUME k \notin left PROVE FALSE
    <3>1. Upto(k) = Upto(k - 1)
      BY <1>4, <1>9, <2>1
    <3>2. Cardinality(Upto(k)) >= n
      BY <1>7
    <3>3. QED
      BY <1>1, <1>2, <1>9, <1>11, <3>1, <3>2
  <2>2. QED
    BY <2>1
<1>13. Cardinality(Upto(k)) = Cardinality(Upto(k - 1)) + 1
  <2>1. Upto(k) = Upto(k - 1) \cup {k} /\ k \notin Upto(k - 1) /\ IsFiniteSet(Upto(k - 1))
    BY <1>2, <1>4, <1>5, <1>9, <1>12
  <2>2. QED
    BY <2>1, FS_AddElement
<1>14. Cardinality(Upto(k)) = n
  <2>1. Cardinality(Upto(k)) >= n /\ Cardinality(Upto(k - 1)) \in Nat
    BY <1>2, <1>7, <1>9
  <2>2. QED
    BY <1>1, <1>11, <1>13, <2>1
<1>15. QED
  BY <1>12, <1>14 DEF Upto

LEMMA LengthOf ==
    ASSUME NEW n \in Nat, NEW f, f = [k \in 1..n |-> f[k]]
    PROVE  Len(f) = n
  OBVIOUS

\* What removeSubstring leaves are cells of the text.
HasLength(s, n) == s = [k \in 1..n |-> s[k]]
PartOf(rest, s, n) == Len(rest) \in Nat /\ \A j \in 1..Len(rest) : \E k \in 1..n : rest[j] = s[k]

LEMMA RestIsPart ==
    ASSUME NEW N \in Nat, NEW text, HasLength(text, N), NEW entry, NEW rest, rest = removeSubstring(text, entry)
    PROVE  PartOf(rest, text, N)
<1> DEFINE hits == {k \in 1 .. Len(text) - 1 : SubSeq(text, k, k + 1) = entry}
           left == {k \in 1 .. Len(text) : k \notin hits /\ k - 1 \notin hits}
           Pick(n) == CHOOSE k \in left : Cardinality({j \in left : j =< k}) = n
           size == Cardinality(left)
<1>1. Len(text) = N
  BY LengthOf DEF HasLength
<1>2. rest = [n \in 1..size |-> text[Pick(n)]]
  BY DEF removeSubstring
<1>3. left \in SUBSET (1..N)
  BY <1>1
<1> HIDE DEF left
<1>4. \A n \in 1..size : Pick(n) \in left
  BY <1>3, CountReaches
<1>5. size \in Nat
  <2>1. IsFiniteSet(1..N)
    BY FS_Interval
  <2>2. IsFiniteSet(left)
    BY <1>3, <2>1, FS_Subset
  <2>3. QED
    BY <2>2, FS_CardinalityType
<1> HIDE DEF size, Pick
<1>6. Len(rest) = size /\ \A n \in 1..size : rest[n] = text[Pick(n)]
  BY <1>2, <1>5, LengthOf
<1>7. QED
  BY <1>3, <1>4, <1>5, <1>6 DEF PartOf

\* A block of a directory from which an entry is taken out holds no block numbers if it did not.
LEMMA RestCells ==
    ASSUME NEW c, IsBlock(c), NEW entry
    PROVE  HasCells(Padded(removeSubstring(Text(c), entry)), {c[k] : k \in 1..BlockSize} \cup {Nul})
<1>1. PICK n \in 0..BlockSize : Text(c) = [k \in 1..n |-> c[k]]
  BY TextIsPart
<1>2. n \in Nat /\ \A k \in 1..n : k \in 1..BlockSize
  BY ConstantTypes
<1> DEFINE text == Text(c)
           rest == removeSubstring(text, entry)
           S == {c[k] : k \in 1..BlockSize} \cup {Nul}
<1>3. text = [k \in 1..n |-> text[k]] /\ (\A k \in 1..n : text[k] \in S) /\ Nul \in S
  BY <1>1, <1>2
<1> HIDE DEF text, S
<1>4. PartOf(rest, text, n)
  BY <1>2, <1>3, RestIsPart DEF HasLength
<1> HIDE DEF rest
<1>5. \A j \in 1..Len(rest) : rest[j] \in S
  BY <1>3, <1>4 DEF PartOf
<1>6. ASSUME NEW j \in 1..BlockSize PROVE Padded(rest)[j] \in S
  <2>1. CASE j =< Len(rest)
    <3>1. Padded(rest)[j] = rest[j] /\ j \in 1..Len(rest)
      BY <1>4, <2>1, ConstantTypes DEF Padded, PartOf
    <3>2. QED
      BY <1>5, <3>1
  <2>2. CASE ~(j =< Len(rest))
    <3>1. Padded(rest)[j] = Nul
      BY <2>2 DEF Padded
    <3>2. QED
      BY <1>3, <3>1
  <2>3. QED
    BY <2>1, <2>2
<1>7. QED
  BY <1>6 DEF HasCells, rest, text, S

LEMMA RestPlain ==
    ASSUME NEW c, IsBlock(c), AllPlain(c, BlockSize), NEW entry
    PROVE  AllPlain(Padded(removeSubstring(Text(c), entry)), BlockSize)
<1>1. \A x \in {c[k] : k \in 1..BlockSize} \cup {Nul} : Plain(x)
  BY Shorts DEF AllPlain
<1>2. HasCells(Padded(removeSubstring(Text(c), entry)), {c[k] : k \in 1..BlockSize} \cup {Nul})
  BY RestCells
<1>3. QED
  BY <1>1, <1>2, Zenon DEF HasCells, AllPlain

\* From m to r blocks of the inodes in I are given up, and nothing else is written but
\* blocks of these inodes and the data of the root.
Drops(m, own, r, own2, I) ==
    /\ Held(r, own2)
    /\ \A b \in Blocks :
        /\ own[b] = Free => own2[b] = Free /\ r.disk[b] = m.disk[b]
        /\ Real(own[b]) /\ own[b][2] \notin I /\ b # 0 => own2[b] = own[b] /\ r.disk[b] = m.disk[b]
    /\ \A j \in Inodes \ I : /\ r.inode[j].avail = m.inode[j].avail /\ r.inode[j].dir = m.inode[j].dir
                              /\ r.inode[j].blocks = m.inode[j].blocks

LEMMA DropsTwice ==
    ASSUME NEW m, NEW own, NEW r, NEW own1, NEW s, NEW own2, NEW I, NEW J,
           Drops(m, own, r, own1, I), Drops(r, own1, s, own2, J)
    PROVE  Drops(m, own, s, own2, I \cup J)
  BY DEF Drops

LEMMA ActsDrops ==
    ASSUME NEW m, NEW own, Held(m, own), NEW r, NEW i, Acts(m, own, r, own, i)
    PROVE  Drops(m, own, r, own, {i})
  BY DEF Drops, Acts

\* The uses when the blocks in F are given back and those in G are lost.
Without(own, F, G) == [x \in Blocks |-> IF x \in F THEN Free ELSE IF x \in G THEN Lost ELSE own[x]]

LEMMA HeldFreed ==
    ASSUME NEW m, NEW own, Held(m, own), NEW F, NEW G, 0 \notin F, 0 \notin G,
           \A x \in Blocks : x \in F \cup G => Real(own[x]),
           NEW s, \A x \in Blocks : s.map[x] <=> m.map[x] /\ x \notin F,
           s.disk = m.disk, s.inode[0].avail, s.inode[0].dir,
           \A j \in Inodes : s.inode[j].avail => InodeHolds(s.inode[j].blocks, Without(own, F, G), j),
           \A t \in Blocks \ (F \cup G) : IsTable(own[t]) =>
                \A k : \A x \in Blocks : x \in F \cup G => own[x] # ChildRole(own[t], k)
    PROVE  Held(s, Without(own, F, G))
<1> DEFINE own2 == Without(own, F, G)
<1>1. /\ own2 = [x \in Blocks |-> own2[x]]
      /\ \A x \in Blocks : /\ x \in F => own2[x] = Free
                           /\ x \in G /\ x \notin F => own2[x] = Lost
                           /\ x \notin F /\ x \notin G => own2[x] = own[x]
  BY DEF Without
<1> HIDE DEF own2
<1>2. \A x \in Blocks : s.map[x] <=> own2[x] # Free
  BY <1>1, RealRoles DEF Held
<1>3. ASSUME NEW t \in Blocks PROVE TableHolds(s.disk[t], own2, own2[t])
  <2>1. CASE t \in F \cup G
    <3>1. ~IsTable(Free) /\ ~IsTable(Lost)
      BY RoleParts DEF IsTable, Lost, Free
    <3>2. own2[t] = Free \/ own2[t] = Lost
      BY <1>1, <2>1
    <3>3. ~IsTable(own2[t])
      BY <3>1, <3>2, Zenon
    <3>4. QED
      BY <3>3, NoTableHolds
  <2>2. CASE t \notin F \cup G
    <3>1. own2[t] = own[t] /\ TableHolds(m.disk[t], own, own[t])
      BY <1>1, <2>2 DEF Held
    <3>2. SUFFICES ASSUME IsTable(own[t]), NEW k \in EntriesOf(own[t])
                   PROVE  Points(AsShort(m.disk[t][k + 1]), own2, ChildRole(own[t], k))
      BY <3>1 DEF TableHolds
    <3> DEFINE v == AsShort(m.disk[t][k + 1])
               role == ChildRole(own[t], k)
    <3>3. Points(v, own, role)
      BY <3>1, <3>2 DEF TableHolds
    <3>4. \A x \in Blocks : x \in F \cup G => own[x] # role
      BY <2>2, <3>2
    <3> HIDE DEF v, role
    <3>5. Points(v, own2, role)
      BY <1>1, <3>3, <3>4 DEF Points
    <3>6. QED
      BY <3>5 DEF v, role
  <2>3. QED
    BY <2>1, <2>2
<1>4. 0 \in Blocks
  BY ConstantTypes DEF Blocks
<1>5. own2[0] = Role("slot", 0, 0, 0)
  BY <1>1, <1>4 DEF Held
<1>6. \A j \in Inodes : s.inode[j].avail => InodeHolds(s.inode[j].blocks, own2, j)
  BY DEF own2
<1>7. Held(s, own2)
  BY <1>1, <1>2, <1>3, <1>5, <1>6 DEF Held
<1>8. QED
  BY <1>7 DEF own2

\* A direct block of a directory is given back.
LEMMA SlotFreed ==
    ASSUME NEW m, MemoryOK(m), NEW own, Held(m, own), NEW i \in Inodes, m.inode[i].avail,
           NEW n \in 1 .. NumDirect - 1, NEW b, b = m.inode[i].blocks[n], NEW g, NEW s,
           g.map = [x \in Blocks |-> m.map[x] /\ x # b], g.inode = m.inode, g.disk = m.disk,
           SetsSlot(g, s, i, n, -1)
    PROVE  \E own2 : Drops(m, own, s, own2, {i})
<1> DEFINE own2 == Without(own, {b}, {})
           role == Role("slot", i, n, 0)
<1>1. n \in 0 .. NumDirect + 1 /\ n # 0 /\ ~(n = NumDirect) /\ ~(n = NumDirect + 1)
  BY ConstantTypes
<1>2. Points(b, own, role)
  BY <1>1 DEF Held, InodeHolds
<1>3. Real(role)
  BY RealRoles
<1>4. b # 0
  <2>1. ASSUME b = 0 PROVE FALSE
    <3>1. own[0] = role /\ own[0] = Role("slot", 0, 0, 0)
      BY <1>2, <2>1, NoBlock DEF Points, Held
    <3>2. QED
      BY <1>1, <3>1, RoleEq
  <2>2. QED
    BY <2>1
<1>5. \A x \in Blocks : x \in {b} \cup {} => own[x] = role /\ Real(own[x])
  BY <1>2, <1>3, NoBlock DEF Points
<1>6. \A x \in Blocks : s.map[x] <=> m.map[x] /\ x \notin {b}
  BY DEF SetsSlot
<1>7. \A x \in Blocks : x # b => own2[x] = own[x]
  BY DEF Without
<1>8. 0 \in Inodes
  BY ConstantTypes DEF Inodes
<1>9. s.disk = m.disk /\ s.inode[0].avail /\ s.inode[0].dir
  BY <1>8 DEF SetsSlot, Held
<1>10. ASSUME NEW j \in Inodes, s.inode[j].avail PROVE InodeHolds(s.inode[j].blocks, own2, j)
  <2>1. m.inode[j].avail /\ InodeHolds(m.inode[j].blocks, own, j)
    BY <1>10 DEF SetsSlot, Held
  <2>2. ASSUME NEW k \in 0 .. NumDirect + 1 PROVE Points(s.inode[j].blocks[k], own2, Role("slot", j, k, 0))
    <3>1. CASE j = i /\ k = n
      BY <3>1 DEF SetsSlot, Points
    <3>2. CASE ~(j = i /\ k = n)
      <4>1. s.inode[j].blocks[k] = m.inode[j].blocks[k]
        BY <3>2 DEF SetsSlot
      <4>2. Points(m.inode[j].blocks[k], own, Role("slot", j, k, 0))
        BY <2>1 DEF InodeHolds
      <4>3. Role("slot", j, k, 0) # role
        BY <3>2, RoleEq
      <4> HIDE DEF role, own2
      <4>4. QED
        BY <1>5, <1>7, <4>1, <4>2, <4>3 DEF Points
    <3>3. QED
      BY <3>1, <3>2
  <2>3. QED
    BY <2>2 DEF InodeHolds
<1>11. ASSUME NEW t \in Blocks \ ({b} \cup {}), IsTable(own[t]), NEW k, NEW x \in Blocks, x \in {b} \cup {}
       PROVE  own[x] # ChildRole(own[t], k)
  <2>1. own[x] = role
    BY <1>5, <1>11
  <2>2. ChildRole(own[t], k) # role
    BY RoleEq DEF ChildRole
  <2>3. QED
    BY <2>1, <2>2
<1>12. Held(s, own2)
  <2> DEFINE F == {b}
             G == {}
  <2>1. 0 \notin F /\ 0 \notin G
    BY <1>4
  <2>2. \A x \in Blocks : x \in F \cup G => Real(own[x])
    BY <1>5
  <2>3. \A t \in Blocks \ (F \cup G) : IsTable(own[t]) =>
                \A k : \A x \in Blocks : x \in F \cup G => own[x] # ChildRole(own[t], k)
    BY <1>11
  <2>4. \A j \in Inodes : s.inode[j].avail => InodeHolds(s.inode[j].blocks, Without(own, F, G), j)
    BY <1>10
  <2>5. \A x \in Blocks : s.map[x] <=> m.map[x] /\ x \notin F
    BY <1>6
  <2> HIDE DEF F, G
  <2>6. Held(s, Without(own, F, G))
    BY <1>9, <2>1, <2>2, <2>3, <2>4, <2>5, HeldFreed
  <2>7. QED
    BY <2>6 DEF F, G
<1>13. Drops(m, own, s, own2, {i})
  <2>1. \A x \in Blocks : own[x] = Free => own2[x] = Free
    BY DEF Without
  <2>2. \A x \in Blocks : own[x][2] \notin {i} => own2[x] = own[x]
    <3>1. role[2] = i
      BY RoleParts
    <3>2. QED
      BY <1>5, <1>7, <3>1
  <2>3. \A j \in Inodes \ {i} : /\ s.inode[j].avail = m.inode[j].avail /\ s.inode[j].dir = m.inode[j].dir
                                 /\ s.inode[j].blocks = m.inode[j].blocks
    BY DEF SetsSlot
  <2> HIDE DEF own2
  <2>4. QED
    BY <1>9, <1>12, <2>1, <2>2, <2>3 DEF Drops
<1>14. QED
  BY <1>13

LEMMA DirectGet ==
    ASSUME NEW m, NEW i, NEW n \in Nat, n < NumDirect
    PROVE  get_block_index(m, i, n) = m.inode[i].blocks[n]
<1>1. /\ ~(n >= NumDirect /\ n < NumDirect + PerBlock) /\ ~(n >= NumDirect + PerBlock /\ n < MaxFileBlocks)
      /\ ~(n >= MaxFileBlocks)
  BY ConstantTypes
<1>2. QED
  BY <1>1 DEF get_block_index

LEMMA DirectSet ==
    ASSUME NEW m, MemoryOK(m), NEW i \in Inodes, NEW n \in Nat, n < NumDirect, NEW b \in Blocks \cup {-1}
    PROVE  /\ SetsSlot(m, set_block_index(m, i, n, b), i, n, b)
           /\ MemoryOK(set_block_index(m, i, n, b))
<1>1. /\ ~(n >= NumDirect /\ n < NumDirect + PerBlock) /\ ~(n >= NumDirect + PerBlock /\ n =< MaxFileBlocks)
      /\ ~(n > MaxFileBlocks) /\ n \in 0 .. NumDirect + 1
  BY ConstantTypes
<1>2. set_block_index(m, i, n, b) = [m EXCEPT !.inode[i].blocks[n] = b]
  BY <1>1 DEF set_block_index
<1>3. SetsSlot(m, [m EXCEPT !.inode[i].blocks[n] = b], i, n, b)
  BY <1>1, SlotParts
<1>4. Keeps(m, [m EXCEPT !.inode[i].blocks[n] = b])
  BY <1>1, BlocksKeep
<1>5. QED
  BY <1>2, <1>3, <1>4 DEF Keeps

LEMMA RemoveEntryDrops ==
    ASSUME NEW m, MemoryOK(m), NEW own, Held(m, own), NEW dir \in Inodes, m.inode[dir].avail, m.inode[dir].dir,
           NEW name, NEW i
    PROVE  /\ \E own2 : Drops(m, own, remove_entry(m, dir, name, i), own2, {dir})
           /\ Sticks(m, remove_entry(m, dir, name, i))
<1> DEFINE size == m.inode[dir].size
           c == DirBlock(m, dir, 0)
           text == removeSubstring(Text(c), DirEntry(name, i))
           low == Padded(text)
           resize == BlockSize - Len(text)
           b == get_block_index(m, dir, 0)
           u == IF size = 0 \/ Ends(c) = {} THEN "buffer overrun" ELSE m.ub
           m1 == [m EXCEPT !.disk = block_write(@, b, low), !.ub = u]
           second == get_block_index(m1, dir, 1)
           m2 == [m1 EXCEPT !.map = [x \in Blocks |-> @[x] /\ x # second]]
           m3 == set_block_index(m2, dir, 1, -1)
           shrinks == CDiv(size, BlockSize) > CDiv(size - resize, BlockSize)
           last == IF shrinks THEN m3 ELSE m1
           r == [last EXCEPT !.inode[dir].size = @ - resize, !.inode[dir].nlink = @ - 1]
<1>1. r = remove_entry(m, dir, name, i)
  BY DEF remove_entry
<1>2. IsBlock(low)
  BY PaddedIsBlock
<1>3. b = 0 => AllPlain(low, BlockSize)
  <2>1. SUFFICES ASSUME b = 0 PROVE AllPlain(low, BlockSize)
    OBVIOUS
  <2>2. 0 \in Blocks
    BY ConstantTypes DEF Blocks
  <2>3. c = m.disk[0]
    BY <2>1, <2>2 DEF DirBlock, block_read
  <2>4. IsBlock(c) /\ AllPlain(c, BlockSize)
    BY <2>2, <2>3 DEF MemoryOK, DiskOK, Held, AllPlain
  <2> HIDE DEF c
  <2>5. QED
    BY <2>4, RestPlain
<1>4. DataIndex(b, own, dir)
  BY IndexIsData
<1> HIDE DEF low, u, b, resize
<1>5. m1.map = m.map /\ m1.inode = m.inode /\ m1.disk = block_write(m.disk, b, low) /\ m1.ub = u /\ MemoryOK(m1)
  <2>1. DiskOK(block_write(m.disk, b, low))
    BY <1>2, WriteBlock DEF MemoryOK
  <2>2. Keeps(m, [m EXCEPT !.disk = block_write(m.disk, b, low), !.ub = u])
    BY <2>1, BehaviourKeeps
  <2>3. MemoryOK(m1)
    BY <2>2 DEF Keeps
  <2>4. QED
    BY <2>3 DEF MemoryOK, TableNames
<1> HIDE DEF m1
<1>6. Acts(m, own, m1, own, dir)
  <2>1. b = 0 => \A k \in 1..BlockSize : Plain(low[k])
    BY <1>3 DEF AllPlain
  <2>2. \A j \in Inodes : /\ m1.inode[j].avail = m.inode[j].avail /\ m1.inode[j].dir = m.inode[j].dir
                          /\ m1.inode[j].blocks = m.inode[j].blocks
    BY <1>5
  <2>3. QED
    BY <1>4, <1>5, <2>1, <2>2, IndexWritten
<1>7. Drops(m, own, m1, own, {dir}) /\ Held(m1, own) /\ m1.inode[dir].avail
  BY <1>5, <1>6, ActsDrops DEF Acts
<1>8. Sticks(m, m1)
  BY <1>5 DEF Sticks, u
<1>9. 1 \in 1 .. NumDirect - 1 /\ 1 \in 0 .. NumDirect + 1 /\ 1 < NumDirect
  BY TwoDirect, ConstantTypes
<1>10. second = m1.inode[dir].blocks[1]
  BY <1>9, DirectGet
<1> HIDE DEF second
<1>11. /\ m2.map = [x \in Blocks |-> m1.map[x] /\ x # second] /\ m2.inode = m1.inode /\ m2.disk = m1.disk
       /\ m2.ub = m1.ub /\ MemoryOK(m2)
  BY <1>5 DEF MemoryOK, TablesOK, TableNames
<1> HIDE DEF m2
<1>12. SetsSlot(m2, m3, dir, 1, -1) /\ MemoryOK(m3)
  BY <1>9, <1>11, DirectSet
<1> HIDE DEF m3, shrinks
<1>13. PICK own2 : Drops(m1, own, m3, own2, {dir})
  BY <1>5, <1>7, <1>9, <1>10, <1>11, <1>12, SlotFreed
<1>14. Drops(m, own, m3, own2, {dir})
  <2>1. {dir} \cup {dir} = {dir}
    OBVIOUS
  <2>2. Drops(m, own, m3, own2, {dir} \cup {dir})
    BY <1>7, <1>13, DropsTwice
  <2>3. QED
    BY <2>1, <2>2
<1>15. MemoryOK(last) /\ last.ub = m1.ub /\ \E own3 : Drops(m, own, last, own3, {dir})
  BY <1>5, <1>7, <1>11, <1>12, <1>14 DEF SetsSlot
<1> HIDE DEF last
<1>16. /\ r.map = last.map /\ r.disk = last.disk /\ r.ub = last.ub
       /\ \A j \in Inodes : /\ r.inode[j].avail = last.inode[j].avail /\ r.inode[j].dir = last.inode[j].dir
                            /\ r.inode[j].blocks = last.inode[j].blocks
  BY <1>15 DEF MemoryOK, TablesOK, InodeOK, TableNames, Fields
<1> HIDE DEF r
<1>17. PICK own3 : Drops(m, own, last, own3, {dir})
  BY <1>15
<1>18. Drops(m, own, r, own3, {dir})
  <2>1. 0 \in Inodes
    BY ConstantTypes DEF Inodes
  <2>2. Held(r, own3)
    BY <1>16, <1>17, <2>1 DEF Drops, Held
  <2>3. QED
    BY <1>16, <1>17, <2>2 DEF Drops
<1>19. Sticks(m, r)
  BY <1>8, <1>15, <1>16 DEF Sticks
<1>20. QED
  BY <1>1, <1>18, <1>19

OwnedBy(v, own, i) == v \in Blocks /\ Real(own[v]) /\ own[v][2] = i

LEMMA ChildOwner ==
    ASSUME NEW role, NEW k
    PROVE  ChildRole(role, k)[2] = role[2] /\ Real(ChildRole(role, k))
  BY RoleParts, RealRoles DEF ChildRole

LEMMA PointsOwned ==
    ASSUME NEW v, NEW own, NEW role, NEW i, Points(v, own, role), Real(role), role[2] = i
    PROVE  v = -1 \/ (OwnedBy(v, own, i) /\ own[v] = role)
  BY DEF Points, OwnedBy

\* The blocks in a table are those of the inode of the table.
LEMMA ChainOwned ==
    ASSUME NEW m, MemoryOK(m), NEW own, Held(m, own), NEW t \in Blocks, IsTable(own[t]), NEW n \in Nat,
           \A k \in 0 .. n - 1 : k \in EntriesOf(own[t]), NEW v \in Chain(m, t, n)
    PROVE  OwnedBy(v, own, own[t][2]) /\ \E k \in 0 .. n - 1 : own[v] = ChildRole(own[t], k)
<1>1. PICK k \in 0 .. n - 1 : v = Entry(m, t, k) /\ \A j \in 0..k : Entry(m, t, j) > 0
  BY DEF Chain
<1>2. Points(v, own, ChildRole(own[t], k))
  BY <1>1, EntryPoints
<1>3. v > 0
  BY <1>1
<1>4. v # -1
  BY <1>3
<1>5. ChildRole(own[t], k)[2] = own[t][2] /\ Real(ChildRole(own[t], k))
  BY ChildOwner
<1>6. OwnedBy(v, own, own[t][2]) /\ own[v] = ChildRole(own[t], k)
  BY <1>2, <1>4, <1>5, PointsOwned
<1>7. QED
  BY <1>6

LEMMA FreedOwned ==
    ASSUME NEW m, MemoryOK(m), NEW own, Held(m, own), NEW i \in Inodes, m.inode[i].avail, NEW v \in freed(m, i)
    PROVE  v = -1 \/ OwnedBy(v, own, i)
<1> DEFINE blocks == m.inode[i].blocks
           single == blocks[NumDirect]
           double == blocks[NumDirect + 1]
           inners == Chain(m, double, NumDouble)
<1>1. \A n \in 0 .. NumDirect + 1 : /\ Points(blocks[n], own, Role("slot", i, n, 0))
                                    /\ Real(Role("slot", i, n, 0)) /\ Role("slot", i, n, 0)[2] = i
  BY RealRoles, RoleParts DEF Held, InodeHolds
<1>2. \A n \in 0 .. NumDirect + 1 : blocks[n] = -1 \/ (OwnedBy(blocks[n], own, i) /\ own[blocks[n]] = Role("slot", i, n, 0))
  BY <1>1, PointsOwned
<1>3. NumDirect \in 0 .. NumDirect + 1 /\ NumDirect + 1 \in 0 .. NumDirect + 1
  BY NoBlock
<1>4. \A k \in 0 .. NumDouble - 1 : k \in 0..NumDouble
  BY ConstantTypes
<1>5. \A k : IsTable(Role("outer", i, k, 0)) /\ EntriesOf(Role("outer", i, k, 0)) = 0 .. PerBlock - 1
  BY InnerRoles
<1>6. PerBlock \in Nat /\ NumDouble \in Nat
  BY ConstantTypes
<1>7. CASE v \in Direct(m, i)
  <2>1. PICK n \in 0 .. NumDirect - 1 : v = blocks[n]
    BY <1>7 DEF Direct
  <2>2. n \in 0 .. NumDirect + 1
    BY ConstantTypes
  <2>3. QED
    BY <1>2, <2>1, <2>2
<1>8. CASE single > 0 /\ v \in {single} \cup Chain(m, single, PerBlock)
  <2>1. single # -1
    BY <1>8
  <2>2. OwnedBy(single, own, i) /\ own[single] = Role("slot", i, NumDirect, 0)
    BY <1>2, <1>3, <2>1
  <2>3. IsTable(own[single]) /\ EntriesOf(own[single]) = 0 .. PerBlock - 1 /\ own[single][2] = i
    <3>1. NumDirect # NumDirect + 1
      BY ConstantTypes
    <3>2. QED
      BY <2>2, <3>1, RoleParts DEF IsTable, EntriesOf
  <2>4. single \in Blocks
    BY <2>2 DEF OwnedBy
  <2> HIDE DEF single
  <2>5. CASE v = single
    BY <2>2, <2>5
  <2>6. CASE v \in Chain(m, single, PerBlock)
    BY <1>6, <2>3, <2>4, <2>6, ChainOwned
  <2>7. QED
    BY <1>8, <2>5, <2>6
<1>9. CASE double > 0 /\ v \in {double} \cup inners \cup UNION {Chain(m, b, PerBlock) : b \in inners}
  <2>1. double # -1
    BY <1>9
  <2>2. OwnedBy(double, own, i) /\ own[double] = Role("slot", i, NumDirect + 1, 0)
    BY <1>2, <1>3, <2>1
  <2>3. /\ IsTable(own[double]) /\ EntriesOf(own[double]) = 0 .. NumDouble /\ own[double][2] = i
        /\ \A k : ChildRole(own[double], k) = Role("outer", i, k, 0)
    BY <2>2, OuterRoles
  <2>4. double \in Blocks
    BY <2>2 DEF OwnedBy
  <2> HIDE DEF double
  <2>5. CASE v = double
    BY <2>2, <2>5
  <2>6. \A w \in inners : OwnedBy(w, own, i) /\ \E k \in 0 .. NumDouble - 1 : own[w] = ChildRole(own[double], k)
    BY <1>4, <1>6, <2>3, <2>4, ChainOwned
  <2>7. \A w \in inners : w \in Blocks /\ IsTable(own[w]) /\ EntriesOf(own[w]) = 0 .. PerBlock - 1 /\ own[w][2] = i
    BY <1>5, <2>3, <2>6 DEF OwnedBy
  <2> HIDE DEF inners
  <2>8. CASE v \in UNION {Chain(m, b, PerBlock) : b \in inners}
    <3>1. PICK b \in inners : v \in Chain(m, b, PerBlock)
      BY <2>8
    <3>2. b \in Blocks /\ IsTable(own[b]) /\ own[b][2] = i /\ \A k \in 0 .. PerBlock - 1 : k \in EntriesOf(own[b])
      BY <2>7
    <3>3. QED
      BY <1>6, <3>1, <3>2, ChainOwned
  <2>9. QED
    BY <1>9, <2>5, <2>6, <2>8
<1>10. QED
  BY <1>7, <1>8, <1>9 DEF freed, Indirect

\* What free_inode leaves: an inode with one link less, or one that is free, and its blocks.
FreesBlocks(m, r, i) ==
    /\ r.disk = m.disk
    /\ m.inode[i].nlink > 1 => r.map = m.map /\ r.ub = m.ub /\ r.inode[i].blocks = m.inode[i].blocks
    /\ ~(m.inode[i].nlink > 1) => /\ r.map = [b \in Blocks |-> m.map[b] /\ b \notin freed(m, i)]
                                  /\ r.ub = IF NumBlocks \in freed(m, i) THEN "wild block" ELSE m.ub

LEMMA FreeInodeParts ==
    ASSUME NEW m, MemoryOK(m), NEW i \in Inodes, NEW r, r = free_inode(m, i)
    PROVE  FreesBlocks(m, r, i)
<1>1. InodeOK(m.inode[i])
  BY DEF MemoryOK, TablesOK
<1>2. CASE m.inode[i].nlink > 1
  <2> DEFINE e == [m.inode[i] EXCEPT !.nlink = @ - 1]
  <2>1. e.blocks = m.inode[i].blocks
    BY <1>1 DEF InodeOK, Fields
  <2>2. r = [m EXCEPT !.inode[i] = e]
    BY <1>2 DEF free_inode
  <2> HIDE DEF e
  <2>3. QED
    BY <1>2, <2>1, <2>2 DEF MemoryOK, TablesOK, TableNames, FreesBlocks
<1>3. CASE ~(m.inode[i].nlink > 1)
  <2> DEFINE bs == [n \in 0 .. NumDirect + 1 |-> IF n < NumDirect THEN -1 ELSE m.inode[i].blocks[n]]
             e == [ZeroInode EXCEPT !.blocks = bs]
             map == [b \in Blocks |-> m.map[b] /\ b \notin freed(m, i)]
             u == IF NumBlocks \in freed(m, i) THEN "wild block" ELSE m.ub
  <2>1. r = [m EXCEPT !.inode[i] = e, !.map = map, !.ub = u]
    BY <1>3 DEF free_inode, ZeroInode
  <2> HIDE DEF e, map, u
  <2>2. r.disk = m.disk /\ r.map = map /\ r.ub = u
    BY <2>1 DEF MemoryOK, TableNames
  <2>3. QED
    BY <1>3, <2>2 DEF map, u, FreesBlocks
<1>4. QED
  BY <1>2, <1>3

\* free_inode gives back blocks of the inode only, and never runs off the map of blocks.
LEMMA FreeInodeDrops ==
    ASSUME NEW m, MemoryOK(m), NEW own, Held(m, own), NEW i \in Inodes, m.inode[i].avail,
           i # 0 \/ m.inode[i].nlink > 1
    PROVE  /\ \E own2 : Drops(m, own, free_inode(m, i), own2, {i})
           /\ free_inode(m, i).ub = m.ub
<1>1. PICK r : r = free_inode(m, i)
  OBVIOUS
<1>2. Frees(m, r, i)
  BY <1>1, FreeInode
<1>0. FreesBlocks(m, r, i)
  BY <1>1, FreeInodeParts
<1>3. 0 \in Inodes /\ 0 \in Blocks
  BY ConstantTypes DEF Inodes, Blocks
<1>4. CASE m.inode[i].nlink > 1
  <2>1. r.disk = m.disk /\ r.map = m.map /\ r.ub = m.ub /\ r.inode[i].blocks = m.inode[i].blocks
    BY <1>0, <1>4 DEF FreesBlocks
  <2>2. \A j \in Inodes : /\ r.inode[j].avail = m.inode[j].avail /\ r.inode[j].dir = m.inode[j].dir
                          /\ r.inode[j].blocks = m.inode[j].blocks
    BY <1>2, <1>4, <2>1 DEF Frees
  <2>3. Held(r, own)
    BY <1>3, <2>1, <2>2 DEF Held
  <2>4. Drops(m, own, r, own, {i})
    BY <2>1, <2>2, <2>3 DEF Drops
  <2>5. QED
    BY <1>1, <2>1, <2>4
<1>5. CASE ~(m.inode[i].nlink > 1)
  <2> DEFINE F == freed(m, i)
             G == {x \in Blocks : Real(own[x]) /\ own[x][2] = i}
             own2 == Without(own, F, G)
  <2>1. /\ r.disk = m.disk /\ r.map = [b \in Blocks |-> m.map[b] /\ b \notin F]
        /\ r.ub = IF NumBlocks \in F THEN "wild block" ELSE m.ub
    BY <1>0, <1>5 DEF FreesBlocks
  <2>2. \A v \in F : v = -1 \/ OwnedBy(v, own, i)
    BY FreedOwned
  <2> HIDE DEF F
  <2>3. NumBlocks \notin F
    <3>1. NumBlocks # -1 /\ NumBlocks \notin Blocks
      BY ConstantTypes DEF Blocks
    <3>2. QED
      BY <2>2, <3>1 DEF OwnedBy
  <2>4. \A x \in Blocks : x \in F \cup G <=> Real(own[x]) /\ own[x][2] = i
    BY <2>2, NoBlock DEF OwnedBy
  <2> HIDE DEF G
  <2>5. 0 \notin F /\ 0 \notin G
    <3>1. own[0][2] = 0 /\ i # 0
      BY <1>5, RoleParts DEF Held
    <3>2. QED
      BY <1>3, <2>4, <3>1
  <2>6. \A x \in Blocks : own[x][2] # i => own2[x] = own[x]
    BY <2>4 DEF Without
  <2>7. r.inode[0].avail /\ r.inode[0].dir
    BY <1>2, <1>3, <1>5 DEF Frees, Held
  <2>8. ASSUME NEW j \in Inodes, r.inode[j].avail PROVE InodeHolds(r.inode[j].blocks, own2, j)
    <3>1. j # i
      BY <1>2, <1>5, <2>8 DEF Frees
    <3>2. InodeHolds(r.inode[j].blocks, own, j)
      BY <1>2, <2>8, <3>1 DEF Frees, Held
    <3>3. \A n : Role("slot", j, n, 0)[2] # i
      BY <3>1, RoleParts
    <3> HIDE DEF own2
    <3>4. QED
      BY <2>6, <3>2, <3>3 DEF InodeHolds, Points
  <2>9. ASSUME NEW t \in Blocks \ (F \cup G), IsTable(own[t]), NEW k, NEW x \in Blocks, x \in F \cup G
        PROVE  own[x] # ChildRole(own[t], k)
    <3>1. Real(own[t])
      BY <2>9, RoleParts DEF IsTable, Real, Free, Lost
    <3>2. own[t][2] # i
      BY <2>4, <2>9, <3>1
    <3>3. ChildRole(own[t], k)[2] # i
      BY <3>2, ChildOwner
    <3>4. own[x][2] = i
      BY <2>4, <2>9
    <3>5. QED
      BY <3>3, <3>4
  <2>10. Held(r, own2)
    <3>1. \A x \in Blocks : x \in F \cup G => Real(own[x])
      BY <2>4
    <3>2. \A t \in Blocks \ (F \cup G) : IsTable(own[t]) =>
                \A k : \A x \in Blocks : x \in F \cup G => own[x] # ChildRole(own[t], k)
      BY <2>9
    <3>3. \A x \in Blocks : r.map[x] <=> m.map[x] /\ x \notin F
      BY <2>1
    <3>4. \A j \in Inodes : r.inode[j].avail => InodeHolds(r.inode[j].blocks, Without(own, F, G), j)
      BY <2>8
    <3>5. QED
      BY <2>1, <2>5, <2>7, <3>1, <3>2, <3>3, <3>4, HeldFreed
  <2>11. Drops(m, own, r, own2, {i})
    <3>1. \A x \in Blocks : own[x] = Free => own2[x] = Free
      <4>1. \A x \in Blocks : own[x] = Free => x \notin F \cup G
        BY <2>4, RealRoles
      <4>2. QED
        BY <4>1 DEF Without
    <3>2. \A j \in Inodes \ {i} : /\ r.inode[j].avail = m.inode[j].avail /\ r.inode[j].dir = m.inode[j].dir
                                   /\ r.inode[j].blocks = m.inode[j].blocks
      BY <1>2 DEF Frees
    <3> HIDE DEF own2
    <3>3. QED
      BY <2>1, <2>6, <2>10, <3>1, <3>2 DEF Drops
  <2>12. QED
    BY <1>1, <2>1, <2>3, <2>11
<1>6. QED
  BY <1>4, <1>5

\* A new inode holds no blocks.
HoldsNew(m, own, r, i, nlink) ==
    /\ Held(r, own) /\ r.map = m.map /\ r.disk = m.disk /\ r.ub = m.ub
    /\ r.inode[i].avail /\ r.inode[i].nlink = nlink
    /\ \A j \in Inodes \ {i} : r.inode[j] = m.inode[j]
    /\ \A n \in 0 .. NumDirect + 1 : r.inode[i].blocks[n] = -1

LEMMA NewInodeHeld ==
    ASSUME NEW m, MemoryOK(m), NEW own, Held(m, own), NEW i \in Inodes, ~m.inode[i].avail,
           NEW dir, NEW nlink, NEW size, NEW nblocks, NEW r, r = new_inode(m, i, dir, nlink, size, nblocks)
    PROVE  HoldsNew(m, own, r, i, nlink)
<1> DEFINE e == [avail |-> TRUE, dir |-> dir, nlink |-> nlink, size |-> size,
                 nblocks |-> nblocks, blocks |-> [n \in 0 .. NumDirect + 1 |-> -1]]
<1>1. r = [m EXCEPT !.inode[i] = e]
  BY DEF new_inode
<1>2. e.avail /\ e.nlink = nlink /\ \A n \in 0 .. NumDirect + 1 : e.blocks[n] = -1
  OBVIOUS
<1> HIDE DEF e
<1>3. /\ r.map = m.map /\ r.disk = m.disk /\ r.ub = m.ub /\ r.inode[i] = e
      /\ \A j \in Inodes \ {i} : r.inode[j] = m.inode[j]
  BY <1>1 DEF MemoryOK, TablesOK, TableNames
<1>4. i # 0
  BY DEF Held
<1>5. 0 \in Inodes
  BY ConstantTypes DEF Inodes
<1>6. \A j \in Inodes : r.inode[j].avail => InodeHolds(r.inode[j].blocks, own, j)
  BY <1>2, <1>3 DEF Held, InodeHolds, Points
<1>7. Held(r, own)
  BY <1>3, <1>4, <1>5, <1>6 DEF Held
<1>8. QED
  BY <1>2, <1>3, <1>7 DEF HoldsNew

-----------------------------------------------------------------------------
\* Growing and writing a file: add_block, write_back.

\* What a turn of the loop that makes a file longer leaves.
GrowGoes(m, own, i, g) == GrowOK(m, i, g) /\ Goes(m, own, g.m, i) /\ Sticks(m, g.m)

LEMMA AddBlockGoes ==
    ASSUME NEW m, NEW own, NEW i \in Inodes, m.inode[i].avail, NEW g, GrowGoes(m, own, i, g)
    PROVE  GrowGoes(m, own, i, add_block(g))
<1> DEFINE n == g.m.inode[i].nblocks
           m1 == get_block(g.m)
           m2 == Lengthened(g.m, i, n)
           m3 == [m2 EXCEPT !.inode[i].nblocks = @ + 1]
<1>1. MemoryOK(g.m) /\ g.i = i /\ DOMAIN g = {"m", "i", "ok"} /\ g.m.inode[i].avail
  BY DEF GrowGoes, GrowOK, Writes
<1>2. n \in 0 .. MaxFileBlocks + 1 /\ n \in Nat
  BY <1>1, ConstantTypes DEF MemoryOK, TablesOK, InodeOK
<1>3. GrowOK(m, i, add_block(g))
  BY AddBlockGrows DEF GrowGoes
<1>4. CASE n > MaxFileBlocks
  <2>1. add_block(g) = IF ~g.ok THEN g ELSE [g EXCEPT !.m = m1, !.ok = FALSE]
    BY <1>1, <1>4 DEF add_block
  <2>2. Sticks(g.m, m1)
    BY <1>1, GetBlockSticks
  <2>3. \A own1 : Held(g.m, own1) => Goes(g.m, own1, m1, i)
    <3>1. SUFFICES ASSUME NEW own1, Held(g.m, own1), m1.ub = ""
                   PROVE  \E own2 : Acts(g.m, own1, m1, own2, i)
      BY DEF Goes
    <3>2. first_block(g.m) # -1
      BY <1>1, <3>1, GetBlockParts
    <3>3. QED
      BY <1>1, <3>1, <3>2, GetBlockActs
  <2> HIDE DEF m1
  <2>4. Goes(m, own, m1, i) /\ Sticks(m, m1)
    <3>1. \A own1 : Acts(m, own, g.m, own1, i) => Goes(g.m, own1, m1, i)
      BY <2>3 DEF Acts
    <3>2. Goes(m, own, m1, i)
      BY <2>2, <3>1, GoesTwice DEF GrowGoes
    <3>3. QED
      BY <2>2, <3>2 DEF GrowGoes, Sticks
  <2>5. add_block(g).m = IF ~g.ok THEN g.m ELSE m1
    BY <1>1, <2>1
  <2>6. QED
    BY <1>3, <2>4, <2>5 DEF GrowGoes
<1>5. CASE n =< MaxFileBlocks
  <2>1. add_block(g) = IF ~g.ok THEN g ELSE [g EXCEPT !.m = m3]
    <3>1. ~ (g.m.inode[i].nblocks > MaxFileBlocks)
      BY <1>2, <1>5, ConstantTypes
    <3>2. QED
      BY <1>1, <3>1 DEF add_block, Lengthened
  <2>2. MemoryOK(m2) /\ Sticks(g.m, m2)
    BY <1>1, <1>2, LengthenedSticks
  <2>3. \A own1 : Held(g.m, own1) => Lengthens(g.m, own1, m2, i)
    BY <1>1, <1>2, LengthenedGoes
  <2> HIDE DEF m2, n
  <2>4. /\ m3.map = m2.map /\ m3.disk = m2.disk /\ m3.ub = m2.ub
        /\ \A j \in Inodes : /\ m3.inode[j].avail = m2.inode[j].avail /\ m3.inode[j].dir = m2.inode[j].dir
                             /\ m3.inode[j].blocks = m2.inode[j].blocks
    BY <2>2 DEF MemoryOK, TablesOK, InodeOK, TableNames, Fields
  <2> HIDE DEF m3
  <2>5. ASSUME NEW own1, Held(g.m, own1) PROVE Goes(g.m, own1, m3, i)
    <3>1. SUFFICES ASSUME m3.ub = "" PROVE \E own2 : Acts(g.m, own1, m3, own2, i)
      BY DEF Goes
    <3>2. PICK own2 : Acts(g.m, own1, m2, own2, i)
      BY <2>3, <2>4, <2>5, <3>1 DEF Lengthens
    <3>3. Acts(g.m, own1, m3, own2, i)
      BY <2>4, <3>2, ActsSame
    <3>4. QED
      BY <3>3
  <2>6. Sticks(g.m, m3)
    BY <2>2, <2>4 DEF Sticks
  <2>7. Goes(m, own, m3, i) /\ Sticks(m, m3)
    <3>1. \A own1 : Acts(m, own, g.m, own1, i) => Goes(g.m, own1, m3, i)
      BY <2>5 DEF Acts
    <3>2. Goes(m, own, m3, i)
      BY <2>6, <3>1, GoesTwice DEF GrowGoes
    <3>3. QED
      BY <2>6, <3>2 DEF GrowGoes, Sticks
  <2>8. add_block(g).m = IF ~g.ok THEN g.m ELSE m3
    BY <1>1, <2>1
  <2>9. QED
    BY <1>3, <2>7, <2>8 DEF GrowGoes
<1>6. QED
  BY <1>2, <1>4, <1>5, ConstantTypes

LEMMA GrowActs ==
    ASSUME NEW m, MemoryOK(m), NEW own, Held(m, own), NEW i \in Inodes, m.inode[i].avail, NEW more \in Nat
    PROVE  GrowGoes(m, own, i, grow(m, i, more))
<1>0. PICK g : g = [m |-> m, i |-> i, ok |-> TRUE]
  OBVIOUS
<1> DEFINE turn[k \in 0..more] == IF k = 0 THEN g ELSE add_block(turn[k - 1])
<1>1. turn = [k \in 0..more |-> IF k = 0 THEN g ELSE add_block(turn[k - 1])]
  <2>1. \E f : IsGrow(f, g, more)
    BY GrowTurns
  <2>2. QED
    BY <2>1, Zenon DEF turn, IsGrow
<1>2. grow(m, i, more) = turn[more]
  BY <1>0, Zenon DEF grow
<1> HIDE DEF turn
<1>3. GrowGoes(m, own, i, g)
  <2>1. g.m = m /\ GrowOK(m, i, g)
    BY <1>0 DEF GrowOK, Writes
  <2>2. QED
    BY <2>1, ActsSelf DEF GrowGoes, Goes, Sticks
<1> DEFINE T == {k \in 0..more : ~GrowGoes(m, own, i, turn[k])}
<1>4. SUFFICES ASSUME T # {} PROVE FALSE
  BY <1>2
<1>5. PICK k \in T : \A l \in T : k =< l
  <2>1. T \subseteq Nat
    OBVIOUS
  <2>2. QED
    BY <1>4, <2>1, LeastNumber
<1>6. k # 0
  BY <1>1, <1>3
<1>7. k - 1 \in 0..more /\ ~(k =< k - 1)
  BY <1>6
<1>8. GrowGoes(m, own, i, turn[k - 1])
  BY <1>5, <1>7
<1>9. turn[k] = add_block(turn[k - 1])
  BY <1>1, <1>6
<1>10. QED
  BY <1>5, <1>8, <1>9, AddBlockGoes

\* The buffer put_data writes back.
DataBuffer(first, skip, data, count) ==
    [k \in 1 .. count * BlockSize |->
        IF k > skip /\ k =< skip + Len(data) THEN data[k - skip]
        ELSE IF k =< BlockSize THEN first[k] ELSE Nul]

LEMMA PositionInBuffer ==
    ASSUME NEW b \in Nat \ {0}, NEW count \in Nat, NEW k \in 1..count, NEW c \in 1..b
    PROVE  (k - 1) * b + c \in 1 .. count * b /\ (k # 1 => (k - 1) * b + c > b) /\ (k = 1 => (k - 1) * b + c = c)
<1> DEFINE d == count - k
           e == k - 1
<1>1. d \in Nat /\ e \in Nat /\ count = e + 1 + d
  OBVIOUS
<1> HIDE DEF d
<1>2. d * b >= 0 /\ d * b \in Nat /\ e * b \in Nat
  BY <1>1
<1>3. count * b = e * b + b + d * b
  BY <1>1
<1>4. e # 0 => e * b >= b
  BY <1>1
<1>5. e = 0 => e * b = 0
  OBVIOUS
<1>6. (e = 0 <=> k = 1) /\ k - 1 = e
  OBVIOUS
<1> HIDE DEF e
<1>7. PICK p \in Nat : p = e * b
  BY <1>2
<1>8. p + c \in 1 .. count * b /\ (k # 1 => p + c > b) /\ (k = 1 => p + c = c)
  BY <1>2, <1>3, <1>4, <1>5, <1>6, <1>7
<1>9. QED
  BY <1>6, <1>7, <1>8

\* Of the parts of the buffer only the first holds block numbers, and only where the block did.
LEMMA PartPlain ==
    ASSUME NEW first, NEW skip \in Nat, NEW data, Len(data) \in Nat, AllPlain(data, Len(data)),
           NEW count \in Nat, NEW k \in 1..count, k = 1 => AllPlain(first, BlockSize)
    PROVE  AllPlain(Part(DataBuffer(first, skip, data, count), k), BlockSize)
<1>1. SUFFICES ASSUME NEW c \in 1..BlockSize PROVE Plain(Part(DataBuffer(first, skip, data, count), k)[c])
  BY DEF AllPlain
<1>2. PICK p : p = (k - 1) * BlockSize + c
  OBVIOUS
<1>3. p \in 1 .. count * BlockSize /\ (k # 1 => p > BlockSize) /\ (k = 1 => p = c)
  BY <1>2, PositionInBuffer, ConstantTypes
<1>4. Part(DataBuffer(first, skip, data, count), k)[c] = DataBuffer(first, skip, data, count)[p]
  BY <1>2 DEF Part
<1>5. PICK v : v = DataBuffer(first, skip, data, count)[p]
  OBVIOUS
<1>6. v = IF p > skip /\ p =< skip + Len(data) THEN data[p - skip]
          ELSE IF p =< BlockSize THEN first[p] ELSE Nul
  BY <1>3, <1>5 DEF DataBuffer
<1>7. p \in Nat
  <2>1. count * BlockSize \in Nat
    BY ConstantTypes
  <2>2. QED
    BY <1>3, <2>1
<1>8. CASE p > skip /\ p =< skip + Len(data)
  <2>1. p - skip \in 1..Len(data)
    BY <1>7, <1>8
  <2>2. QED
    BY <1>4, <1>5, <1>6, <1>8, <2>1 DEF AllPlain
<1>9. CASE ~(p > skip /\ p =< skip + Len(data)) /\ p =< BlockSize
  <2>1. k = 1 /\ p \in 1..BlockSize
    BY <1>3, <1>7, <1>9, ConstantTypes
  <2>2. QED
    BY <1>4, <1>5, <1>6, <1>9, <2>1 DEF AllPlain
<1>10. CASE ~(p > skip /\ p =< skip + Len(data)) /\ ~(p =< BlockSize)
  BY <1>4, <1>5, <1>6, <1>10, Shorts
<1>11. QED
  BY <1>8, <1>9, <1>10

\* One block written back.
PutsBlock(m, r, v, c) ==
    /\ MemoryOK(r) /\ r.map = m.map /\ r.inode = m.inode /\ r.ub = m.ub
    /\ r.disk = block_write(m.disk, v, c)

LEMMA PutBlockParts ==
    ASSUME NEW m, MemoryOK(m), NEW i, NEW n, NEW c, IsBlock(c), NEW v, v = get_block_index(m, i, n)
    PROVE  PutsBlock(m, put_block(m, i, n, c), v, c)
<1>1. MemoryOK(put_block(m, i, n, c))
  BY PutBlockKeeps DEF Keeps
<1>2. QED
  BY <1>1 DEF PutsBlock, put_block, MemoryOK, TableNames

Backs(m, own, r, i) ==
    MemoryOK(r) /\ r.map = m.map /\ r.inode = m.inode /\ r.ub = m.ub /\ Acts(m, own, r, own, i)

LEMMA PutBlockBacks ==
    ASSUME NEW m, NEW own, NEW i \in Inodes, m.inode[i].avail, NEW r, Backs(m, own, r, i),
           NEW n \in Nat, NEW c, IsBlock(c), get_block_index(r, i, n) = 0 => AllPlain(c, BlockSize)
    PROVE  Backs(m, own, put_block(r, i, n, c), i)
<1> DEFINE s == put_block(r, i, n, c)
           v == get_block_index(r, i, n)
<1>1. MemoryOK(r) /\ Held(r, own) /\ r.inode[i].avail
  BY DEF Backs, Acts
<1>2. PutsBlock(r, s, v, c)
  BY <1>1, PutBlockParts
<1>3. DataIndex(v, own, i)
  BY <1>1, IndexIsData
<1> HIDE DEF s, v
<1>4. /\ s.map = r.map /\ s.disk = block_write(r.disk, v, c)
      /\ \A j \in Inodes : /\ s.inode[j].avail = r.inode[j].avail /\ s.inode[j].dir = r.inode[j].dir
                           /\ s.inode[j].blocks = r.inode[j].blocks
  BY <1>2 DEF PutsBlock
<1>5. v = 0 => \A k \in 1..BlockSize : Plain(c[k])
  BY DEF AllPlain, v
<1>6. Acts(r, own, s, own, i)
  BY <1>1, <1>3, <1>4, <1>5, IndexWritten
<1>7. Acts(m, own, s, own, i)
  BY <1>6, ActsTwice DEF Backs
<1>8. QED
  BY <1>2, <1>7 DEF Backs, PutsBlock, s

LEMMA WriteBackActs ==
    ASSUME NEW m, MemoryOK(m), NEW own, Held(m, own), NEW i \in Inodes, m.inode[i].avail, NEW start \in Nat,
           NEW count \in Nat, NEW buf,
           \A k \in 1..count : (k = 1 => get_block_index(m, i, start) = 0) => AllPlain(Part(buf, k), BlockSize)
    PROVE  Backs(m, own, write_back(m, i, start, count, buf), i)
<1> DEFINE turn[k \in 0..count] == IF k = 0 THEN m ELSE put_block(turn[k - 1], i, start + k - 1, Part(buf, k))
<1>1. turn = [k \in 0..count |-> IF k = 0 THEN m ELSE put_block(turn[k - 1], i, start + k - 1, Part(buf, k))]
  <2>1. \E f : IsWriteBack(f, m, i, start, buf, count)
    BY WriteTurns
  <2>2. QED
    BY <2>1, Zenon DEF turn, IsWriteBack
<1>2. write_back(m, i, start, count, buf) = turn[count]
  BY DEF write_back
<1> HIDE DEF turn
<1>3. \A k : IsBlock(Part(buf, k))
  BY DEF IsBlock, Part
<1>4. turn[0] = m /\ Backs(m, own, m, i)
  BY <1>1, ActsSelf DEF Backs
<1> DEFINE T == {k \in 0..count : ~Backs(m, own, turn[k], i)}
<1>5. SUFFICES ASSUME T # {} PROVE FALSE
  BY <1>2
<1>6. PICK k \in T : \A l \in T : k =< l
  <2>1. T \subseteq Nat
    OBVIOUS
  <2> HIDE DEF T
  <2>2. QED
    BY <1>5, <2>1, LeastNumber
<1>7. k # 0 /\ k - 1 \in 0..count /\ ~(k =< k - 1) /\ k \in 1..count /\ start + k - 1 \in Nat
  BY <1>4, <1>6
<1>8. Backs(m, own, turn[k - 1], i)
  BY <1>6, <1>7
<1>9. turn[k] = put_block(turn[k - 1], i, start + k - 1, Part(buf, k))
  BY <1>1, <1>6, <1>7
<1>10. get_block_index(turn[k - 1], i, start + k - 1) = 0 => AllPlain(Part(buf, k), BlockSize)
  <2>1. CASE k = 1
    <3>1. k - 1 = 0 /\ start + k - 1 = start
      BY <2>1
    <3>2. turn[k - 1] = m
      BY <1>4, <3>1
    <3>3. get_block_index(turn[k - 1], i, start + k - 1) = get_block_index(m, i, start)
      BY <3>1, <3>2, Zenon
    <3>4. QED
      BY <1>7, <3>3
  <2>2. CASE k # 1
    BY <1>7, <2>2
  <2>3. QED
    BY <2>1, <2>2
<1>11. Backs(m, own, put_block(turn[k - 1], i, start + k - 1, Part(buf, k)), i)
  BY <1>3, <1>7, <1>8, <1>10, PutBlockBacks
<1>12. QED
  BY <1>6, <1>9, <1>11

LEMMA WriteBackUb ==
    ASSUME NEW m, MemoryOK(m), NEW i, NEW start, NEW count \in Nat, NEW buf
    PROVE  write_back(m, i, start, count, buf).ub = m.ub
<1> DEFINE turn[k \in 0..count] == IF k = 0 THEN m ELSE put_block(turn[k - 1], i, start + k - 1, Part(buf, k))
<1>1. turn = [k \in 0..count |-> IF k = 0 THEN m ELSE put_block(turn[k - 1], i, start + k - 1, Part(buf, k))]
  <2>1. \E f : IsWriteBack(f, m, i, start, buf, count)
    BY WriteTurns
  <2>2. QED
    BY <2>1, Zenon DEF turn, IsWriteBack
<1>2. write_back(m, i, start, count, buf) = turn[count]
  BY DEF write_back
<1> HIDE DEF turn
<1> DEFINE Same(k) == MemoryOK(turn[k]) /\ turn[k].ub = m.ub
           T == {k \in 0..count : ~Same(k)}
<1>3. Same(0)
  BY <1>1
<1>4. SUFFICES ASSUME T # {} PROVE FALSE
  BY <1>2
<1>5. PICK k \in T : \A l \in T : k =< l
  <2>1. T \subseteq Nat
    OBVIOUS
  <2> HIDE DEF T
  <2>2. QED
    BY <1>4, <2>1, LeastNumber
<1>6. k # 0 /\ k - 1 \in 0..count /\ ~(k =< k - 1) /\ k \in 0..count
  BY <1>3, <1>5
<1>7. Same(k - 1)
  BY <1>5, <1>6
<1>8. turn[k] = put_block(turn[k - 1], i, start + k - 1, Part(buf, k))
  BY <1>1, <1>6
<1>9. PutsBlock(turn[k - 1], turn[k], get_block_index(turn[k - 1], i, start + k - 1), Part(buf, k))
  <2>1. IsBlock(Part(buf, k))
    BY DEF IsBlock, Part
  <2>2. QED
    BY <1>7, <1>8, <2>1, PutBlockParts
<1>10. Same(k)
  BY <1>7, <1>9 DEF PutsBlock
<1>11. QED
  BY <1>5, <1>10

LEMMA PutDataUb ==
    ASSUME NEW m, MemoryOK(m), NEW i, NEW off \in Nat, NEW data, Len(data) \in Nat \ {0}
    PROVE  put_data(m, i, off, data).ub = m.ub
<1> DEFINE start == off \div BlockSize
           skip == off % BlockSize
           count == BlockCount(off, Len(data))
           first == block_read(m.disk, get_block_index(m, i, start))
           buf == DataBuffer(first, skip, data, count)
           m1 == write_back(m, i, start, count, buf)
           r == [m1 EXCEPT !.inode[i].size = @ + Len(data)]
<1>1. count \in Nat
  BY CountIsNat
<1>2. r = put_data(m, i, off, data)
  BY DEF put_data, DataBuffer
<1> HIDE DEF buf, count, start
<1>3. m1.ub = m.ub /\ MemoryOK(m1)
  BY <1>1, WriteBackUb, WriteBackKeeps DEF Keeps
<1> HIDE DEF m1
<1>4. r.ub = m1.ub
  BY <1>3 DEF MemoryOK, TableNames
<1>5. QED
  BY <1>2, <1>3, <1>4

LEMMA PutDataActs ==
    ASSUME NEW m, MemoryOK(m), NEW own, Held(m, own), NEW i \in Inodes, m.inode[i].avail, NEW off \in Nat,
           NEW data, Len(data) \in Nat \ {0}, AllPlain(data, Len(data))
    PROVE  Acts(m, own, put_data(m, i, off, data), own, i) /\ put_data(m, i, off, data).ub = m.ub
<1> DEFINE start == off \div BlockSize
           skip == off % BlockSize
           count == BlockCount(off, Len(data))
           v == get_block_index(m, i, start)
           first == block_read(m.disk, v)
           buf == DataBuffer(first, skip, data, count)
           m1 == write_back(m, i, start, count, buf)
           r == [m1 EXCEPT !.inode[i].size = @ + Len(data)]
<1>1. count \in Nat
  BY CountIsNat
<1>2. start \in Nat /\ skip \in Nat
  BY ConstantTypes
<1>3. r = put_data(m, i, off, data)
  BY DEF put_data, DataBuffer
<1>4. v = 0 => AllPlain(first, BlockSize)
  <2>1. 0 \in Blocks
    BY ConstantTypes DEF Blocks
  <2> HIDE DEF v
  <2>2. QED
    BY <2>1 DEF block_read, Held, AllPlain
<1> HIDE DEF count, start, skip, first
<1>5. \A k \in 1..count : (k = 1 => v = 0) => AllPlain(Part(buf, k), BlockSize)
  <2>1. SUFFICES ASSUME NEW k \in 1..count, k = 1 => v = 0 PROVE AllPlain(Part(buf, k), BlockSize)
    OBVIOUS
  <2>2. k = 1 => AllPlain(first, BlockSize)
    BY <1>4, <2>1
  <2>3. QED
    BY <1>1, <1>2, <2>2, PartPlain
<1> HIDE DEF buf
<1>6. Backs(m, own, m1, i)
  BY <1>1, <1>2, <1>5, WriteBackActs
<1> HIDE DEF m1
<1>7. MemoryOK(m1) /\ Acts(m, own, m1, own, i) /\ m1.ub = m.ub
  BY <1>6 DEF Backs
<1>8. /\ r.map = m1.map /\ r.disk = m1.disk /\ r.ub = m1.ub
      /\ \A j \in Inodes : /\ r.inode[j].avail = m1.inode[j].avail /\ r.inode[j].dir = m1.inode[j].dir
                           /\ r.inode[j].blocks = m1.inode[j].blocks
  BY <1>7 DEF MemoryOK, TablesOK, InodeOK, TableNames, Fields
<1> HIDE DEF r
<1>9. Acts(m, own, r, own, i)
  BY <1>7, <1>8, ActsSame
<1>10. QED
  BY <1>3, <1>7, <1>8, <1>9

\* A write gives blocks to the file it is for.
LEMMA WriteGoes ==
    ASSUME SfsInv, NEW own, Held(Now, own), NEW fh \in DOMAIN fds, NEW n \in WriteSizes,
           NEW off \in {0, SizeOf(fh)}, write(fh, off, n)
    PROVE  \E m : /\ Hold(m) /\ Fits(m) /\ MemoryOK(m) /\ view' = Contents(m)
                  /\ Goes(Now, own, m, open_files[fh]) /\ Sticks(Now, m)
<1> DEFINE i == open_files[fh]
           size == inode_table[i].size
           more == Max({0, BlocksFor(off + n) - BlocksFor(size)})
           grown == grow(Now, i, more)
           data == [k \in 1..n |-> Byte(fds[fh], off + k - 1)]
           m == IF grown.ok THEN put_data(grown.m, i, off, data) ELSE grown.m
<1>1. i \in Inodes /\ size \in Nat /\ inode_table[i].avail
  <2>1. i \in Inodes /\ size \in Nat
    BY OpenFile
  <2>2. inode_table[i].avail
    BY NowParts DEF SfsInv, NameInv, NamesOK, HandlesOK, Taken
  <2>3. QED
    BY <2>1, <2>2
<1>2. off \in Nat /\ n \in Nat \ {0} /\ off + n \in Nat
  BY <1>1, SfsAssumption DEF SizeOf
<1>3. more \in Nat
  <2>1. BlocksFor(off + n) - BlocksFor(size) \in Int
    BY <1>1, <1>2, BlocksForIsInt
  <2>2. QED
    BY <2>1, MaxIsNat
<1>4. Len(data) = n /\ AllPlain(data, Len(data))
  <2>1. Len(data) = n
    BY <1>2, LenData
  <2>2. \A k \in 1..n : data[k] = Byte(fds[fh], off + k - 1)
    OBVIOUS
  <2> HIDE DEF data
  <2>3. QED
    BY <2>1, <2>2, Shorts DEF AllPlain
<1>5. Hold(m) /\ Fits(m) /\ view' = Contents(m)
  BY DEF write, Become
<1> HIDE DEF more, data, size
<1>6. MemoryOK(Now) /\ Now.inode[i].avail
  BY <1>1, NowParts DEF SfsInv
<1>7. GrowGoes(Now, own, i, grown)
  BY <1>1, <1>3, <1>6, GrowActs
<1> HIDE DEF grown, i
<1>8. MemoryOK(grown.m) /\ grown.m.inode[i].avail /\ Goes(Now, own, grown.m, i) /\ Sticks(Now, grown.m)
  BY <1>1, <1>6, <1>7 DEF GrowGoes, GrowOK, Writes
<1> DEFINE r == put_data(grown.m, i, off, data)
<1>9. MemoryOK(r)
  BY <1>1, <1>2, <1>4, <1>8, PutDataWrites DEF Writes
<1>10. \A own1 : Held(grown.m, own1) => Acts(grown.m, own1, r, own1, i) /\ r.ub = grown.m.ub
  BY <1>1, <1>2, <1>4, <1>8, PutDataActs
<1>10a. r.ub = grown.m.ub
  BY <1>2, <1>4, <1>8, PutDataUb
<1> HIDE DEF r
<1>11. Goes(Now, own, r, i) /\ Sticks(Now, r)
  <2>1. Sticks(grown.m, r)
    BY <1>10a DEF Sticks
  <2>2. \A own1 : Acts(Now, own, grown.m, own1, i) => Goes(grown.m, own1, r, i)
    BY <1>10 DEF Acts, Goes
  <2>3. Goes(Now, own, r, i)
    BY <1>8, <2>1, <2>2, GoesTwice
  <2>4. QED
    BY <1>8, <2>1, <2>3 DEF Sticks
<1>12. MemoryOK(m) /\ Goes(Now, own, m, i) /\ Sticks(Now, m)
  BY <1>8, <1>9, <1>11 DEF r
<1>13. QED
  BY <1>5, <1>12 DEF i

-----------------------------------------------------------------------------
\* What the handlers of FUSE's calls do.

\* What a handler does: the blocks of the inodes in I change their uses and what is in
\* them, and nothing else is written but the data of the root.
Changes(m, own, r, own2, I) ==
    /\ Held(r, own2)
    /\ \A b \in Blocks :
        /\ own[b] = Free /\ own2[b] = Free => r.disk[b] = m.disk[b]
        /\ Real(own[b]) /\ own[b][2] \notin I /\ b # 0 => own2[b] = own[b] /\ r.disk[b] = m.disk[b]
    /\ \A j \in Inodes \ I : /\ r.inode[j].avail = m.inode[j].avail /\ r.inode[j].dir = m.inode[j].dir
                              /\ r.inode[j].blocks = m.inode[j].blocks

ChangesTo(m, own, r, I) == r.ub = "" => \E own2 : Changes(m, own, r, own2, I)

LEMMA ActsChange ==
    ASSUME NEW m, NEW own, NEW r, NEW own2, NEW i, Acts(m, own, r, own2, i), NEW I, i \in I
    PROVE  Changes(m, own, r, own2, I)
  BY DEF Changes, Acts, Refines

LEMMA DropsChange ==
    ASSUME NEW m, NEW own, NEW r, NEW own2, NEW I, Drops(m, own, r, own2, I)
    PROVE  Changes(m, own, r, own2, I)
  BY DEF Changes, Drops

LEMMA ChangesThenActs ==
    ASSUME NEW m, NEW own, NEW r, NEW own1, NEW s, NEW own2, NEW I, NEW i, i \in I,
           Changes(m, own, r, own1, I), Acts(r, own1, s, own2, i)
    PROVE  Changes(m, own, s, own2, I)
<1>1. Held(s, own2) /\ \A b \in Blocks : own2[b] = Free => own1[b] = Free /\ s.disk[b] = r.disk[b]
  BY DEF Acts, Refines
<1>2. \A b \in Blocks : Real(own1[b]) /\ own1[b][2] # i /\ b # 0 => own2[b] = own1[b] /\ s.disk[b] = r.disk[b]
  BY DEF Acts, Refines
<1>3. \A j \in Inodes \ I : /\ s.inode[j].avail = r.inode[j].avail /\ s.inode[j].dir = r.inode[j].dir
                             /\ s.inode[j].blocks = r.inode[j].blocks
  BY DEF Acts
<1>4. QED
  BY <1>1, <1>2, <1>3 DEF Changes

\* Only names and handles differ.
SameBlocks(m, r) == r.map = m.map /\ r.disk = m.disk /\ r.inode = m.inode /\ r.ub = m.ub

LEMMA SameHeld ==
    ASSUME NEW m, NEW r, SameBlocks(m, r), NEW own, Held(m, own)
    PROVE  Held(r, own)
  BY DEF Held, SameBlocks

LEMMA SameChange ==
    ASSUME NEW m, NEW own, NEW r, NEW own2, NEW I, Changes(m, own, r, own2, I), NEW s, SameBlocks(r, s)
    PROVE  Changes(m, own, s, own2, I)
<1>1. Held(s, own2)
  BY SameHeld DEF Changes
<1>2. QED
  BY <1>1 DEF Changes, SameBlocks

LEMMA NewInodeChanges ==
    ASSUME NEW m, NEW own, NEW i, NEW nlink, NEW r, HoldsNew(m, own, r, i, nlink), NEW I, i \in I
    PROVE  Changes(m, own, r, own, I) /\ r.ub = m.ub
  BY DEF Changes, HoldsNew

LEMMA EnterNameSame ==
    ASSUME NEW m, MemoryOK(m), NEW p, NEW i
    PROVE  SameBlocks(m, enter_name(m, p, i))
  BY DEF enter_name, SameBlocks, MemoryOK, TableNames

\* An entry for inode i in its directory, behind which there is nothing but handles.
LEMMA EntryChanges ==
    ASSUME NEW m, NEW own, NEW s, MemoryOK(s), NEW own1, NEW i, NEW parent \in Inodes,
           Changes(m, own, s, own1, {i, parent}), s.inode[parent].avail, s.inode[parent].dir,
           NEW name, NEW wide, NEW r, r = add_entry(s, parent, name, i, wide)
    PROVE  ChangesTo(m, own, r, {i, parent}) /\ Sticks(s, r)
<1>1. Held(s, own1)
  BY DEF Changes
<1>2. Goes(s, own1, r, parent) /\ Sticks(s, r)
  BY <1>1, AddEntryGoes
<1>3. ASSUME r.ub = "" PROVE \E own2 : Changes(m, own, r, own2, {i, parent})
  <2>1. PICK own2 : Acts(s, own1, r, own2, parent)
    BY <1>2, <1>3 DEF Goes
  <2>2. parent \in {i, parent}
    OBVIOUS
  <2>3. Changes(m, own, r, own2, {i, parent})
    BY <2>1, <2>2, ChangesThenActs
  <2>4. QED
    BY <2>3
<1>4. QED
  BY <1>2, <1>3 DEF ChangesTo

LEMMA CreateChanges ==
    ASSUME NEW m, MemoryOK(m), NEW own, Held(m, own), NEW i \in Inodes, ~m.inode[i].avail,
           NEW parent \in Inodes, m.inode[parent].avail, m.inode[parent].dir, NEW name, NEW p, NEW n,
           n = new_inode(m, i, FALSE, 1, 0, 0), NEW s, s = enter_name(n, p, i), MemoryOK(s),
           NEW r, r = add_entry(s, parent, name, i, TRUE)
    PROVE  ChangesTo(m, own, r, {i, parent}) /\ Sticks(m, r)
<1>1. i # parent /\ i \in {i, parent}
  OBVIOUS
<1>2. MemoryOK(n)
  BY NewFile DEF HasNew
<1>3. Changes(m, own, n, own, {i, parent}) /\ n.ub = m.ub /\ n.inode[parent] = m.inode[parent]
  <2>1. HoldsNew(m, own, n, i, 1)
    BY NewInodeHeld, Zenon
  <2>2. QED
    BY <1>1, <2>1, NewInodeChanges DEF HoldsNew
<1>4. SameBlocks(n, s)
  BY <1>2, EnterNameSame
<1>5. Changes(m, own, s, own, {i, parent})
  BY <1>3, <1>4, SameChange
<1>6. s.ub = m.ub /\ s.inode[parent].avail /\ s.inode[parent].dir
  BY <1>3, <1>4 DEF SameBlocks
<1>7. ChangesTo(m, own, r, {i, parent}) /\ Sticks(s, r)
  BY <1>5, <1>6, EntryChanges
<1>8. QED
  BY <1>6, <1>7 DEF Sticks

\* A name was missing: the inode is given back.
LEMMA NoMappingChanges ==
    ASSUME NEW m, MemoryOK(m), NEW own, Held(m, own), NEW i \in Inodes, ~m.inode[i].avail, NEW n,
           n = new_inode(m, i, FALSE, 1, 0, 0), NEW r, r = free_inode(n, i)
    PROVE  ChangesTo(m, own, r, {i}) /\ r.ub = m.ub
<1>1. i # 0 /\ i \in {i}
  BY DEF Held
<1>2. MemoryOK(n)
  BY NewFile DEF HasNew
<1>3. Held(n, own) /\ n.disk = m.disk /\ n.inode[i].avail /\ n.ub = m.ub /\ \A j \in Inodes \ {i} : n.inode[j] = m.inode[j]
  <2>1. HoldsNew(m, own, n, i, 1)
    BY NewInodeHeld, Zenon
  <2>2. QED
    BY <2>1 DEF HoldsNew
<1>4. Drops(m, own, n, own, {i})
  BY <1>3 DEF Drops
<1>5. r.ub = n.ub
  BY <1>1, <1>2, <1>3, FreeInodeDrops
<1>6. PICK own2 : Drops(n, own, r, own2, {i})
  BY <1>1, <1>2, <1>3, FreeInodeDrops
<1>7. Drops(m, own, r, own2, {i} \cup {i}) /\ {i} \cup {i} = {i}
  BY <1>4, <1>6, DropsTwice
<1>8. Changes(m, own, r, own2, {i})
  BY <1>7, DropsChange
<1>9. QED
  BY <1>3, <1>5, <1>8 DEF ChangesTo

LEMMA FreeInodeSticks ==
    ASSUME NEW m, MemoryOK(m), NEW i \in Inodes
    PROVE  Sticks(m, free_inode(m, i))
<1>1. PICK r : r = free_inode(m, i)
  OBVIOUS
<1>2. FreesBlocks(m, r, i)
  BY <1>1, FreeInodeParts
<1>3. Sticks(m, r)
  BY <1>2 DEF FreesBlocks, Sticks
<1>4. QED
  BY <1>1, <1>3

LEMMA RemoveChanges ==
    ASSUME NEW m, MemoryOK(m), NEW own, Held(m, own), NEW i \in Inodes, m.inode[i].avail,
           NEW parent \in Inodes, m.inode[parent].avail, m.inode[parent].dir, i # parent,
           ~m.inode[i].dir \/ m.inode[i].nlink > 1,
           NEW name, NEW k, NEW q, q = remove_entry(m, parent, name, i), NEW t, t = free_inode(q, i),
           NEW r, r = free_mapping(t, k)
    PROVE  ChangesTo(m, own, r, {i, parent}) /\ Sticks(m, r)
<1>1. Relinks(m, q, parent, m.inode[parent].nlink - 1)
  BY RemoveEntryRelinks
<1>2. MemoryOK(q) /\ q.inode[i].avail /\ (i # 0 \/ q.inode[i].nlink > 1)
  BY <1>1 DEF Relinks, Held
<1>3. (\E own1 : Drops(m, own, q, own1, {parent})) /\ Sticks(m, q)
  BY RemoveEntryDrops
<1>4. MemoryOK(t) /\ Sticks(q, t)
  BY <1>2, FreeInode, FreeInodeSticks DEF Frees
<1>5. SameBlocks(t, r)
  BY <1>4 DEF free_mapping, SameBlocks, MemoryOK, TableNames
<1>6. Sticks(m, r)
  BY <1>3, <1>4, <1>5 DEF Sticks, SameBlocks
<1>7. ASSUME r.ub = "" PROVE \E own2 : Changes(m, own, r, own2, {i, parent})
  <2>1. q.ub = ""
    BY <1>4, <1>5, <1>7 DEF Sticks, SameBlocks
  <2>2. PICK own1 : Drops(m, own, q, own1, {parent})
    BY <1>3
  <2>3. Held(q, own1)
    BY <2>2 DEF Drops
  <2>4. PICK own2 : Drops(q, own1, t, own2, {i})
    BY <1>2, <2>3, FreeInodeDrops
  <2>5. {parent} \cup {i} = {i, parent}
    OBVIOUS
  <2>6. Drops(m, own, t, own2, {parent} \cup {i})
    BY <2>2, <2>4, DropsTwice
  <2>7. Changes(m, own, t, own2, {i, parent})
    BY <2>5, <2>6, DropsChange
  <2>8. Changes(m, own, r, own2, {i, parent})
    BY <1>5, <2>7, SameChange
  <2>9. QED
    BY <2>8
<1>8. QED
  BY <1>6, <1>7 DEF ChangesTo

LEMMA AddEntrySticks ==
    ASSUME NEW m, MemoryOK(m), NEW dir \in Inodes, NEW name, NEW i, NEW wide
    PROVE  Sticks(m, add_entry(m, dir, name, i, wide))
<1> DEFINE at == Min({n \in 0..MaxFileBlocks : Ends(DirBlock(m, dir, n)) # {}})
           c == DirBlock(m, dir, at)
           text == Text(c) \o DirEntry(name, i) \o <<Nul>>
           buf == [k \in 1 .. 2 * BlockSize |->
                    IF k =< Len(text) THEN text[k] ELSE IF k =< BlockSize THEN c[k] ELSE Garbage]
           b == get_block_index(m, dir, at)
           u == IF Len(text) > BlockSize /\ ~wide THEN "buffer overrun" ELSE m.ub
           low == SubSeq(buf, 1, BlockSize)
           high == SubSeq(buf, BlockSize + 1, 2 * BlockSize)
           m1 == [m EXCEPT !.disk = block_write(@, b, low), !.ub = u]
           m2 == Lengthened(m1, dir, at + 1)
           m3 == [m2 EXCEPT !.disk = block_write(@, first_block(m1), high)]
           grows == CRem(m.inode[dir].size, BlockSize) + 3 > BlockSize
           last == IF grows THEN m3 ELSE m1
           r == [last EXCEPT !.inode[dir].size = @ + 3, !.inode[dir].nlink = @ + 1]
<1>1. IsBlock(low) /\ IsBlock(high)
  <2>1. buf = [k \in 1 .. 2 * BlockSize |-> buf[k]]
    OBVIOUS
  <2> HIDE DEF buf
  <2>2. QED
    BY <2>1, HalvesAreBlocks
<1>2. at + 1 \in Nat
  <2>1. at \in 0..MaxFileBlocks
    BY EndFound
  <2> HIDE DEF at
  <2>2. QED
    BY <2>1, ConstantTypes
<1>3. r = add_entry(m, dir, name, i, wide)
  BY DEF add_entry, Lengthened
<1> HIDE DEF at, low, high, b
<1>4. MemoryOK(m1) /\ m1.ub = u
  <2>1. DiskOK(block_write(m.disk, b, low))
    BY <1>1, WriteBlock DEF MemoryOK
  <2>2. Keeps(m, [m EXCEPT !.disk = block_write(m.disk, b, low), !.ub = u])
    BY <2>1, BehaviourKeeps
  <2>3. MemoryOK(m1)
    BY <2>2 DEF Keeps
  <2>4. QED
    BY <2>3 DEF MemoryOK, TableNames
<1> HIDE DEF m1
<1>5. MemoryOK(m2) /\ Sticks(m1, m2)
  BY <1>2, <1>4, LengthenedSticks
<1> HIDE DEF m2, grows
<1>6. MemoryOK(m3) /\ m3.ub = m2.ub
  <2>1. DiskOK(block_write(m2.disk, first_block(m1), high))
    BY <1>1, <1>5, WriteBlock DEF MemoryOK
  <2>2. Keeps(m2, m3)
    BY <1>5, <2>1, DiskKeeps
  <2>3. m3.ub = m2.ub
    BY <1>5 DEF MemoryOK, TableNames
  <2>4. QED
    BY <2>2, <2>3 DEF Keeps
<1> HIDE DEF m3
<1>7. MemoryOK(last) /\ Sticks(m1, last)
  BY <1>4, <1>5, <1>6 DEF Sticks
<1> HIDE DEF last
<1>8. r.ub = last.ub
  BY <1>7 DEF MemoryOK, TableNames
<1> HIDE DEF r
<1>9. QED
  BY <1>3, <1>4, <1>7, <1>8 DEF Sticks, u

\* The inode of a new directory, and the block its text goes to.
NewDir(m, i) == [new_inode(get_block(m), i, TRUE, 2, BlockSize, 1) EXCEPT !.inode[i].blocks[0] = first_block(m)]

HoldsDir(m, own, n, i, b) ==
    /\ b \in Blocks \ {0} /\ n.ub = m.ub /\ n.inode[i].avail
    /\ \A j \in Inodes \ {i} : n.inode[j].avail = m.inode[j].avail /\ n.inode[j].dir = m.inode[j].dir
    /\ \E own2 : Changes(m, own, n, own2, {i}) /\ own2[b] = Role("slot", i, 0, 0)

LEMMA DirSlot == 0 \in 0 .. NumDirect + 1 /\ 0 \in 0 .. NumDirect - 1 /\ 0 # NumDirect /\ 0 # NumDirect + 1
  BY ConstantTypes

LEMMA NewDirMade ==
    ASSUME NEW m, MemoryOK(m), NEW i \in Inodes, NEW n, n = NewDir(m, i)
    PROVE  MemoryOK(n) /\ n.inode[i].nlink = 2 /\ n.inode[i].avail /\ (first_block(m) = -1 => n.ub = "disk full")
<1>1. first_block(m) \in Blocks \cup {-1}
  BY FirstBlock
<1>2. HasNew(m, n, i, 2)
  BY <1>1, NewDirectory DEF NewDir
<1>3. PICK g : g = get_block(m)
  OBVIOUS
<1>4. MemoryOK(g) /\ (first_block(m) = -1 => g.ub = "disk full")
  BY <1>3, GetBlockKeeps, GetBlockParts DEF Keeps
<1>5. n.ub = g.ub
  BY <1>3, <1>4 DEF NewDir, new_inode, MemoryOK, TableNames
<1>6. QED
  BY <1>2, <1>4, <1>5 DEF HasNew

LEMMA NewDirHeld ==
    ASSUME NEW m, MemoryOK(m), NEW own, Held(m, own), NEW i \in Inodes, ~m.inode[i].avail,
           NEW n, n = NewDir(m, i), NEW b, b = first_block(m), b # -1
    PROVE  HoldsDir(m, own, n, i, b)
<1> DEFINE role == Role("slot", i, 0, 0)
<1>1. PICK g : g = get_block(m)
  OBVIOUS
<1>2. PICK own1 : own1 = [own EXCEPT ![b] = Lost]
  OBVIOUS
<1>3. Acts(m, own, g, own1, i) /\ b \in Blocks /\ own[b] = Free
  BY <1>1, <1>2, GetBlockActs
<1>4. MemoryOK(g) /\ g.inode = m.inode /\ g.disk = m.disk /\ g.ub = m.ub
  BY <1>1, GetBlockKeeps, GetBlockParts DEF Keeps
<1>5. Held(g, own1)
  BY <1>3 DEF Acts
<1>6. PICK n1 : n1 = new_inode(g, i, TRUE, 2, BlockSize, 1)
  OBVIOUS
<1>7. ~g.inode[i].avail
  BY <1>4
<1>8. HoldsNew(g, own1, n1, i, 2)
  BY <1>4, <1>5, <1>6, <1>7, NewInodeHeld, Zenon
<1>9. n = [n1 EXCEPT !.inode[i].blocks[0] = b]
  BY <1>1, <1>6 DEF NewDir
<1>10. MemoryOK(n1)
  <2>1. InodeOK([avail |-> TRUE, dir |-> TRUE, nlink |-> 2, size |-> BlockSize, nblocks |-> 1,
                 blocks |-> [k \in 0 .. NumDirect + 1 |-> -1]])
    BY ConstantTypes DEF InodeOK, Fields
  <2>2. QED
    BY <1>4, <1>6, <2>1, InodeSet DEF new_inode, SetsInode
<1>11. own1 = [x \in Blocks |-> own1[x]] /\ own1[b] = Lost
  BY <1>2, <1>3 DEF Held
<1>12. Acts(n1, own1, n, Gives(own1, b, role), i)
  BY <1>3, <1>8, <1>9, <1>10, <1>11, DirSlot, SlotSet DEF HoldsNew
<1>13. SetsSlot(n1, n, i, 0, b)
  BY <1>9, <1>10, DirSlot, SlotParts
<1>14. Real(role)
  BY RealRoles
<1>15. PICK own2 : own2 = Gives(own1, b, role)
  OBVIOUS
<1>16. own2[b] = role /\ \A x \in Blocks \ {b} : own2[x] = own[x]
  BY <1>2, <1>3, <1>11, <1>14, <1>15, GivesParts DEF Held
<1>17. Held(n, own2)
  BY <1>12, <1>15 DEF Acts
<1>18. n.disk = m.disk
  BY <1>4, <1>8, <1>13 DEF HoldsNew, SetsSlot
<1>19. \A j \in Inodes \ {i} : n.inode[j].avail = m.inode[j].avail /\ n.inode[j].dir = m.inode[j].dir
            /\ n.inode[j].blocks = m.inode[j].blocks
  BY <1>4, <1>8, <1>13 DEF HoldsNew, SetsSlot
<1>20. Changes(m, own, n, own2, {i})
  <2>1. \A x \in Blocks : Real(own[x]) => own2[x] = own[x]
    BY <1>3, <1>16, RealRoles
  <2>2. QED
    BY <1>17, <1>18, <1>19, <2>1 DEF Changes
<1>21. n.ub = m.ub /\ n.inode[i].avail
  BY <1>4, <1>8, <1>13 DEF HoldsNew, SetsSlot
<1>22. b # 0
  BY <1>3, RealRoles DEF Held
<1>23. QED
  BY <1>3, <1>16, <1>19, <1>20, <1>21, <1>22 DEF HoldsDir

\* No name was left for it: only its count of links goes down.
LEMMA NoDirMappingChanges ==
    ASSUME NEW m, MemoryOK(m), NEW own, Held(m, own), NEW i \in Inodes, ~m.inode[i].avail,
           NEW n, n = NewDir(m, i), NEW r, r = free_inode(n, i)
    PROVE  ChangesTo(m, own, r, {i})
<1>1. SUFFICES ASSUME r.ub = "" PROVE \E own3 : Changes(m, own, r, own3, {i})
  BY DEF ChangesTo
<1>2. PICK b : b = first_block(m)
  OBVIOUS
<1>3. MemoryOK(n) /\ n.inode[i].nlink = 2 /\ (b = -1 => n.ub = "disk full")
  BY <1>2, NewDirMade
<1>4. n.inode[i].nlink > 1
  <2>1. \A x : x = 2 => x > 1
    OBVIOUS
  <2>2. QED
    BY <1>3, <2>1, Zenon
<1>5. FreesBlocks(n, r, i)
  BY <1>3, FreeInodeParts
<1>6. r.ub = n.ub /\ b # -1
  BY <1>1, <1>3, <1>4, <1>5 DEF FreesBlocks
<1>7. HoldsDir(m, own, n, i, b)
  BY <1>2, <1>6, NewDirHeld
<1>8. PICK own2 : Changes(m, own, n, own2, {i})
  BY <1>7 DEF HoldsDir
<1>9. Held(n, own2) /\ n.inode[i].avail
  BY <1>7, <1>8 DEF Changes, HoldsDir
<1>10. Frees(n, r, i)
  BY <1>3, FreeInode
<1>11. \A j \in Inodes : /\ r.inode[j].avail = n.inode[j].avail /\ r.inode[j].dir = n.inode[j].dir
                          /\ r.inode[j].blocks = n.inode[j].blocks
  BY <1>4, <1>5, <1>10 DEF Frees, FreesBlocks
<1>12. Acts(n, own2, n, own2, i)
  BY <1>9, ActsSelf
<1>13. Acts(n, own2, r, own2, i)
  <2>1. r.map = n.map /\ r.disk = n.disk
    BY <1>4, <1>5 DEF FreesBlocks
  <2>2. QED
    BY <1>11, <1>12, <2>1, ActsSame
<1>14. Changes(m, own, r, own2, {i})
  BY <1>8, <1>13, ChangesThenActs
<1>15. QED
  BY <1>14

LEMMA ChangesMore ==
    ASSUME NEW m, NEW own, NEW r, NEW own2, NEW I, NEW J, I \subseteq J, Changes(m, own, r, own2, I)
    PROVE  Changes(m, own, r, own2, J)
  BY DEF Changes

\* The two dots in the block of the new directory.
LEMMA DotsWritten ==
    ASSUME NEW m, MemoryOK(m), NEW own, Held(m, own), NEW i \in Inodes, NEW b \in Blocks \ {0},
           own[b] = Role("slot", i, 0, 0), NEW c, IsBlock(c), NEW s, s = [m EXCEPT !.disk[b] = c]
    PROVE  Acts(m, own, s, own, i) /\ s.ub = m.ub /\ s.inode = m.inode
<1>1. s.map = m.map /\ s.inode = m.inode /\ s.ub = m.ub /\ s.disk = [m.disk EXCEPT ![b] = c]
  BY DEF MemoryOK, TableNames
<1>2. s.disk = block_write(m.disk, b, c)
  BY <1>1 DEF block_write
<1>3. DataOf(own[b], i) /\ own[b] # Free
  BY DirSlot, RoleParts, RealRoles DEF DataOf, IsTable, Real
<1>4. Acts(m, own, s, own, i)
  BY <1>1, <1>2, <1>3, DataWritten
<1>5. QED
  BY <1>1, <1>4

LEMMA MkdirChanges ==
    ASSUME NEW m, MemoryOK(m), NEW own, Held(m, own), NEW i \in Inodes, ~m.inode[i].avail,
           NEW parent \in Inodes, m.inode[parent].avail, m.inode[parent].dir, NEW name, NEW p,
           NEW n, n = NewDir(m, i), NEW e, e = enter_name(n, p, i), MemoryOK(e),
           NEW s, s = [e EXCEPT !.disk[first_block(m)] = Padded(Dots(i, parent))], MemoryOK(s),
           NEW r, r = add_entry(s, parent, name, i, FALSE)
    PROVE  ChangesTo(m, own, r, {i, parent})
<1>1. SUFFICES ASSUME r.ub = "" PROVE \E own3 : Changes(m, own, r, own3, {i, parent})
  BY DEF ChangesTo
<1>2. PICK b : b = first_block(m)
  OBVIOUS
<1>3. MemoryOK(n) /\ (b = -1 => n.ub = "disk full")
  BY <1>2, NewDirMade
<1>4. SameBlocks(n, e)
  BY <1>3, EnterNameSame
<1>5. s.ub = e.ub
  BY DEF MemoryOK, TableNames
<1>6. Sticks(s, r)
  BY AddEntrySticks
<1>7. b # -1
  BY <1>1, <1>3, <1>4, <1>5, <1>6 DEF Sticks, SameBlocks
<1>8. HoldsDir(m, own, n, i, b)
  BY <1>2, <1>7, NewDirHeld
<1>9. PICK own2 : Changes(m, own, n, own2, {i}) /\ own2[b] = Role("slot", i, 0, 0)
  BY <1>8 DEF HoldsDir
<1>10. Changes(m, own, e, own2, {i})
  BY <1>4, <1>9, SameChange
<1>11. Held(e, own2) /\ b \in Blocks \ {0}
  BY <1>8, <1>10 DEF Changes, HoldsDir
<1>12. IsBlock(Padded(Dots(i, parent)))
  BY PaddedIsBlock
<1>13. Acts(e, own2, s, own2, i) /\ s.inode = e.inode
  BY <1>2, <1>9, <1>11, <1>12, DotsWritten
<1>14. Changes(m, own, s, own2, {i})
  BY <1>10, <1>13, ChangesThenActs
<1>15. Changes(m, own, s, own2, {i, parent})
  BY <1>14, ChangesMore
<1>16. s.inode[parent].avail /\ s.inode[parent].dir
  BY <1>4, <1>8, <1>13 DEF HoldsDir, SameBlocks
<1>17. ChangesTo(m, own, r, {i, parent})
  BY <1>15, <1>16, EntryChanges, Zenon
<1>18. QED
  BY <1>1, <1>17 DEF ChangesTo

-----------------------------------------------------------------------------
\* Every step of a mounted file system keeps its blocks in order.

\* A call of a handler: it ends in defined behaviour only with the blocks in order.
Moves(own) == \E m, I : Hold(m) /\ Fits(m) /\ ChangesTo(Now, own, m, I)

\* The directory in which something is created or removed.
IsParent(p, j) == j \in Inodes /\ Now.inode[j].avail /\ Now.inode[j].dir /\ j = InodeOf(Now, Front(p))

LEMMA ParentSeen ==
    ASSUME SfsInv, NEW p \in Paths, Sees(Front(p), TRUE)
    PROVE  IsParent(p, InodeOf(Now, Front(p)))
<1> DEFINE k == path_lookup(Now, Front(p))
<1>1. k \in Inodes /\ Taken(Now, k) /\ name_table[k].path = Front(p) /\ InodeOf(Now, Front(p)) = name_table[k].ino
  BY SeenDirectory DEF SfsInv
<1> HIDE DEF k
<1>2. NamesOK(Now) /\ Front(p) \notin Files
  BY PathFacts DEF SfsInv, NameInv
<1>3. name_table[k].ino \in Inodes /\ Now.inode[name_table[k].ino].avail /\ Now.inode[name_table[k].ino].dir
  BY <1>1, <1>2, NowParts DEF NamesOK
<1>4. QED
  BY <1>1, <1>3 DEF IsParent

\* What a first-fit search for an inode or a name finds is free.
LEMMA FreshEntry ==
    ASSUME NEW m
    PROVE  /\ get_inode(m) # -1 => get_inode(m) \in Inodes /\ ~m.inode[get_inode(m)].avail
           /\ get_mapping(m) # -1 => get_mapping(m) \in Inodes /\ ~m.names[get_mapping(m)].avail
<1>1. {x \in Inodes : ~ m.inode[x].avail} \subseteq Nat /\ {x \in Inodes : ~ m.names[x].avail} \subseteq Nat
  BY ConstantTypes DEF Inodes
<1>2. QED
  BY <1>1, FirstFound DEF get_inode, get_mapping

LEMMA FailMoves ==
    ASSUME NEW own, NEW u, u # "", NEW m, m = Fail(u), Hold(m), Fits(m)
    PROVE  Moves(own)
<1>1. m.ub = u
  BY DEF Fail, Now, Memory
<1>2. ChangesTo(Now, own, m, {})
  BY <1>1 DEF ChangesTo
<1>3. QED
  BY <1>2 DEF Moves

LEMMA CreateMoves ==
    ASSUME SfsInv, NEW own, Held(Now, own), NEW p \in Files, sfs_create(p)
    PROVE  Moves(own)
<1>1. PICK now : now = Now
  OBVIOUS
<1>2. MemoryOK(now) /\ p \in Paths /\ Held(now, own)
  BY <1>1 DEF SfsInv, Paths
<1> DEFINE i == get_inode(now)
           fh == get_fh(now)
           k == get_mapping(now)
           j == InodeOf(now, Front(p))
           n == new_inode(now, i, FALSE, 1, 0, 0)
           s == enter_name(n, p, i)
           ok == i # -1 /\ fh # -1 /\ k # -1
           r == add_entry(s, j, Last(p), i, TRUE)
           next == CASE fh = -1 -> Fail("no handle")
                     [] fh # -1 /\ i = -1 -> Fail("no inode")
                     [] ~ok /\ fh # -1 /\ i # -1 -> free_inode(n, i)
                     [] ok -> [r EXCEPT !.open[fh] = i]
<1>3. Sees(Front(p), TRUE) /\ Become(next)
  BY <1>1 DEF sfs_create, Creatable
<1>4. PICK m : m = next /\ Hold(m) /\ Fits(m)
  BY <1>3 DEF Become
<1>5. j \in Inodes /\ now.inode[j].avail /\ now.inode[j].dir
  BY <1>1, <1>2, <1>3, ParentSeen DEF IsParent
<1>6. (i # -1 => i \in Inodes /\ ~now.inode[i].avail) /\ (k # -1 => k \in Inodes /\ k = get_mapping(now))
  BY FreshEntry
<1> HIDE DEF i, k, fh, j, next
<1>7. CASE fh = -1 \/ i = -1
  <2>1. m = Fail("no handle") \/ m = Fail("no inode")
    BY <1>4, <1>7 DEF next
  <2>2. QED
    BY <1>4, <2>1, FailMoves
<1>8. CASE ~ok /\ fh # -1 /\ i # -1
  <2>1. m = free_inode(n, i)
    BY <1>4, <1>8 DEF next
  <2>2. i \in Inodes /\ ~now.inode[i].avail
    BY <1>6, <1>8
  <2>3. ChangesTo(now, own, m, {i})
    BY <1>2, <2>1, <2>2, NoMappingChanges
  <2>4. QED
    BY <1>1, <1>4, <2>3 DEF Moves
<1>9. CASE ok
  <2>1. m = [r EXCEPT !.open[fh] = i]
    BY <1>4, <1>9 DEF next
  <2>2. i \in Inodes /\ ~now.inode[i].avail /\ k \in Inodes /\ k = get_mapping(now)
    BY <1>6, <1>9
  <2>3. HasNew(now, n, i, 1) /\ ~ n.inode[i].dir
    BY <1>2, <2>2, NewFile
  <2>4. MemoryOK(s)
    <3>1. HasNew(now, n, i, IF p \in Files THEN 1 ELSE 2) /\ (n.inode[i].dir <=> p \notin Files) /\ MemoryOK(n)
      BY <2>3 DEF HasNew
    <3> HIDE DEF n
    <3>2. QED
      BY <2>2, <3>1, NameFilled DEF Filled
  <2> HIDE DEF n
  <2>5. PICK n1, s1, r1 : n1 = n /\ s1 = s /\ r1 = r
    OBVIOUS
  <2>6. ChangesTo(now, own, r1, {i, j})
    <3>1. n1 = new_inode(now, i, FALSE, 1, 0, 0) /\ s1 = enter_name(n1, p, i) /\ MemoryOK(s1)
      BY <2>4, <2>5 DEF n
    <3>2. r1 = add_entry(s1, j, Last(p), i, TRUE)
      BY <2>5
    <3>3. QED
      BY <1>2, <1>5, <2>2, <3>1, <3>2, CreateChanges, Zenon
  <2>7. SameBlocks(r1, m)
    <3>1. n.inode[j].dir
      BY <1>5, <2>2, <2>3 DEF HasNew
    <3>2. SameBlocks(n, s) /\ s.inode[j].dir
      BY <2>3, <3>1, EnterNameSame DEF HasNew, SameBlocks
    <3> HIDE DEF s
    <3>3. Relinks(s, r, j, s.inode[j].nlink + 1)
      BY <1>5, <2>4, <3>2, AddEntryRelinks
    <3>4. MemoryOK(r)
      BY <3>3 DEF Relinks
    <3> HIDE DEF r
    <3>5. QED
      BY <2>1, <2>5, <3>4 DEF MemoryOK, TableNames, SameBlocks
  <2>8. ChangesTo(now, own, m, {i, j})
    <3>1. m.ub = r1.ub
      BY <2>7 DEF SameBlocks
    <3>2. QED
      BY <2>6, <2>7, <3>1, SameChange DEF ChangesTo
  <2>9. QED
    BY <1>1, <1>4, <2>8 DEF Moves
<1>10. QED
  BY <1>7, <1>8, <1>9

LEMMA MkdirMoves ==
    ASSUME SfsInv, NEW own, Held(Now, own), NEW p \in Dirs, sfs_mkdir(p)
    PROVE  Moves(own)
<1>1. PICK now : now = Now
  OBVIOUS
<1>2. MemoryOK(now) /\ p \in Paths /\ p \notin Files /\ Held(now, own)
  BY <1>1, PathAssumption DEF SfsInv, Paths
<1> DEFINE i == get_inode(now)
           k == get_mapping(now)
           j == InodeOf(now, Front(p))
           b == first_block(now)
           n == NewDir(now, i)
           e == enter_name(n, p, i)
           s == [e EXCEPT !.disk[b] = Padded(Dots(i, j))]
           r == add_entry(s, j, Last(p), i, FALSE)
           next == IF i = -1 THEN Fail("no inode") ELSE IF k = -1 THEN free_inode(n, i) ELSE r
<1>3. Sees(Front(p), TRUE) /\ Become(next)
  BY <1>1 DEF sfs_mkdir, Creatable, NewDir
<1>4. PICK m : m = next /\ Hold(m) /\ Fits(m)
  BY <1>3 DEF Become
<1>5. j \in Inodes /\ now.inode[j].avail /\ now.inode[j].dir
  BY <1>1, <1>2, <1>3, ParentSeen DEF IsParent
<1>6. (i # -1 => i \in Inodes /\ ~now.inode[i].avail) /\ (k # -1 => k \in Inodes /\ k = get_mapping(now))
  BY FreshEntry
<1> HIDE DEF i, k, j, next
<1>7. CASE i = -1
  <2>1. m = Fail("no inode")
    BY <1>4, <1>7 DEF next
  <2>2. QED
    BY <1>4, <2>1, FailMoves
<1>8. CASE i # -1 /\ k = -1
  <2>1. m = free_inode(n, i)
    BY <1>4, <1>8 DEF next
  <2>2. i \in Inodes /\ ~now.inode[i].avail
    BY <1>6, <1>8
  <2>3. ChangesTo(now, own, m, {i})
    BY <1>2, <2>1, <2>2, NoDirMappingChanges
  <2>4. QED
    BY <1>1, <1>4, <2>3 DEF Moves
<1>9. CASE i # -1 /\ k # -1
  <2>1. m = r
    BY <1>4, <1>9 DEF next
  <2>2. i \in Inodes /\ ~now.inode[i].avail /\ k \in Inodes /\ k = get_mapping(now)
    BY <1>6, <1>9
  <2>3. HasNew(now, n, i, 2) /\ n.inode[i].dir
    BY <1>2, <2>2, FirstBlock, NewDirectory DEF NewDir
  <2>4. MemoryOK(e)
    <3>1. HasNew(now, n, i, IF p \in Files THEN 1 ELSE 2) /\ (n.inode[i].dir <=> p \notin Files) /\ MemoryOK(n)
      BY <1>2, <2>3 DEF HasNew
    <3> HIDE DEF n
    <3>2. QED
      BY <2>2, <3>1, NameFilled DEF Filled
  <2> HIDE DEF n
  <2>5. MemoryOK(s)
    <3>1. IsBlock(Padded(Dots(i, j)))
      BY PaddedIsBlock
    <3> HIDE DEF e
    <3>2. Keeps(e, s)
      BY <2>4, <3>1, PutKeeps
    <3>3. QED
      BY <3>2 DEF Keeps
  <2>6. ChangesTo(now, own, r, {i, j})
    <3>1. PICK n1, e1, s1, r1 : n1 = n /\ e1 = e /\ s1 = s /\ r1 = r
      OBVIOUS
    <3>2. n1 = NewDir(now, i) /\ e1 = enter_name(n1, p, i) /\ MemoryOK(e1)
      BY <2>4, <3>1 DEF n
    <3>3. s1 = [e1 EXCEPT !.disk[first_block(now)] = Padded(Dots(i, j))] /\ MemoryOK(s1)
      BY <2>5, <3>1
    <3>4. r1 = add_entry(s1, j, Last(p), i, FALSE)
      BY <3>1
    <3>5. ChangesTo(now, own, r1, {i, j})
      BY <1>2, <1>5, <2>2, <3>2, <3>3, <3>4, MkdirChanges, Zenon
    <3>6. QED
      BY <3>1, <3>5
  <2>7. QED
    BY <1>1, <1>4, <2>1, <2>6 DEF Moves
<1>10. QED
  BY <1>7, <1>8, <1>9

LEMMA RemoveMoves ==
    ASSUME SfsInv, NEW own, Held(Now, own), NEW p \in Paths, Named(Now, p), remove(p)
    PROVE  Moves(own)
<1>1. PICK now : now = Now
  OBVIOUS
<1>2. MemoryOK(now) /\ NamesOK(now) /\ LinksOK(now) /\ Held(now, own)
  BY <1>1 DEF SfsInv, NameInv
<1> DEFINE k == path_lookup(now, p)
           i == InodeOf(now, p)
           j == InodeOf(now, Front(p))
           q == remove_entry(now, j, Last(p), i)
           t == free_inode(q, i)
           next == free_mapping(t, k)
<1>3. Sees(Front(p), TRUE) /\ Become(next)
  BY <1>1 DEF remove
<1>4. PICK m : m = next /\ Hold(m) /\ Fits(m)
  BY <1>3 DEF Become
<1>5. j \in Inodes /\ now.inode[j].avail /\ now.inode[j].dir
  BY <1>1, <1>3, ParentSeen DEF IsParent
<1>6. k \in Inodes /\ Taken(now, k) /\ now.names[k].path = p /\ i = now.names[k].ino
  BY <1>1, <1>2, LookupFinds DEF InodeOf
<1>7. i \in Inodes /\ now.inode[i].avail /\ (p \in Files => ~now.inode[i].dir)
  <2>1. i \in Inodes /\ now.inode[i].avail /\ (now.inode[i].dir <=> p \notin Files)
    BY <1>2, <1>6 DEF NamesOK
  <2>2. QED
    BY <2>1
<1>8. p \notin Files => now.inode[i].nlink > 1
  <2>1. p \notin Files => now.inode[i].nlink = 2 + Cardinality(Kids(now, p))
    BY <1>2, <1>6 DEF LinksOK
  <2>2. Cardinality(Kids(now, p)) \in Nat
    BY KidsFinite
  <2>3. QED
    BY <2>1, <2>2
<1>9. i # j
  <2>1. PICK l : l = path_lookup(Now, Front(p))
    OBVIOUS
  <2>2. l \in Inodes /\ Taken(now, l) /\ now.names[l].path = Front(p) /\ j = now.names[l].ino
    BY <1>1, <1>3, <2>1, SeenDirectory, NowParts DEF SfsInv
  <2>3. l # k
    BY <1>6, <2>2, PathFacts
  <2>4. QED
    BY <1>2, <1>6, <2>2, <2>3 DEF NamesOK
<1>10. ~now.inode[i].dir \/ now.inode[i].nlink > 1
  BY <1>7, <1>8
<1> HIDE DEF i, j, k
<1>11. ChangesTo(now, own, next, {i, j})
  <2>1. PICK q1, t1, r1 : q1 = q /\ t1 = t /\ r1 = next
    OBVIOUS
  <2>2. q1 = remove_entry(now, j, Last(p), i) /\ t1 = free_inode(q1, i) /\ r1 = free_mapping(t1, k)
    BY <2>1
  <2>3. ChangesTo(now, own, r1, {i, j})
    BY <1>2, <1>5, <1>7, <1>9, <1>10, <2>2, RemoveChanges, Zenon
  <2>4. QED
    BY <2>1, <2>3
<1>12. QED
  BY <1>1, <1>4, <1>11 DEF Moves

\* Handles have no blocks.
LEMMA HandleMoves ==
    ASSUME NEW own, Held(Now, own), NEW m, Hold(m), Fits(m), SameBlocks(Now, m)
    PROVE  Moves(own)
<1>1. PICK now : now = Now
  OBVIOUS
<1>2. Held(m, own)
  BY SameHeld
<1>3. Changes(now, own, m, own, {})
  BY <1>1, <1>2 DEF Changes, SameBlocks
<1>4. QED
  BY <1>1, <1>3 DEF Moves, ChangesTo

LEMMA WriteMoves ==
    ASSUME SfsInv, NEW own, Held(Now, own), NEW fh \in DOMAIN fds, NEW n \in WriteSizes,
           NEW off \in {0, SizeOf(fh)}, write(fh, off, n)
    PROVE  Moves(own)
<1>1. PICK i : i = open_files[fh]
  OBVIOUS
<1>2. PICK m : Hold(m) /\ Fits(m) /\ Goes(Now, own, m, i)
  BY <1>1, WriteGoes
<1>3. ChangesTo(Now, own, m, {i})
  BY <1>2, ActsChange DEF Goes, ChangesTo
<1>4. QED
  BY <1>2, <1>3 DEF Moves

LEMMA CarelessMoves ==
    ASSUME SfsInv, NEW own, Held(Now, own), NEW fh \in DOMAIN fds, NEW n \in WriteSizes,
           NEW off \in {0, SizeOf(fh)}, sfs_write_careless(fh, n, off)
    PROVE  Moves(own)
<1>1. write(fh, off, n) \/ Become(Fail("wild block"))
  BY DEF sfs_write_careless
<1>2. CASE write(fh, off, n)
  BY <1>2, WriteMoves
<1>3. CASE Become(Fail("wild block"))
  <2>1. PICK m : m = Fail("wild block") /\ Hold(m) /\ Fits(m)
    BY <1>3 DEF Become
  <2>2. QED
    BY <2>1, FailMoves
<1>4. QED
  BY <1>1, <1>2, <1>3

LEMMA OpenMoves ==
    ASSUME NEW own, Held(Now, own), NEW p, sfs_open(p)
    PROVE  Moves(own)
<1> DEFINE next == [Now EXCEPT !.open[get_fh(Now)] = InodeOf(Now, p)]
<1>1. PICK m : m = next /\ Hold(m) /\ Fits(m)
  BY DEF sfs_open, Become
<1>2. SameBlocks(Now, m)
  BY <1>1 DEF SameBlocks, Now, Memory
<1>3. QED
  BY <1>1, <1>2, HandleMoves

LEMMA ReleaseMoves ==
    ASSUME NEW own, Held(Now, own), NEW fh, sfs_release(fh)
    PROVE  Moves(own)
<1>1. PICK m : m = free_fh(Now, fh) /\ Hold(m) /\ Fits(m)
  BY DEF sfs_release, Become
<1>2. SameBlocks(Now, m)
  BY <1>1 DEF SameBlocks, Now, Memory, free_fh
<1>3. QED
  BY <1>1, <1>2, HandleMoves

\* The calls of the handlers.
Handler ==
    \/ \E p \in Files : sfs_create(p)
    \/ \E p \in Dirs : sfs_mkdir(p)
    \/ \E p \in Paths \ Opened : sfs_open(p) \/ sfs_unlink(p) \/ sfs_rmdir(p)
    \/ \E fh \in DOMAIN fds : sfs_release(fh)
    \/ \E fh \in DOMAIN fds, n \in WriteSizes : sfs_write(fh, n)
    \/ \E fh \in DOMAIN fds, n \in WriteSizes : \E off \in {0, SizeOf(fh)} : sfs_write_careless(fh, n, off)

LEMMA HandlerMoves ==
    ASSUME SfsInv, NEW own, Held(Now, own), Handler
    PROVE  Moves(own)
<1>1. ASSUME NEW p \in Paths, sfs_unlink(p) \/ sfs_rmdir(p) PROVE Moves(own)
  <2>1. Named(Now, p) /\ remove(p)
    BY <1>1 DEF sfs_unlink, sfs_rmdir, Sees
  <2>2. QED
    BY <2>1, RemoveMoves
<1>2. ASSUME NEW fh \in DOMAIN fds, NEW n \in WriteSizes, sfs_write(fh, n) PROVE Moves(own)
  <2>1. PICK off : off = SizeOf(fh)
    OBVIOUS
  <2>2. off \in {0, SizeOf(fh)} /\ write(fh, off, n)
    BY <1>2, <2>1 DEF sfs_write
  <2>3. QED
    BY <2>2, WriteMoves
<1>3. QED
  BY <1>1, <1>2, CreateMoves, MkdirMoves, OpenMoves, ReleaseMoves, CarelessMoves DEF Handler

LEMMA HandlerServes ==
    ASSUME Handler
    PROVE  mounted /\ undefined = "" /\ mounted' = mounted /\ saved' = saved
           /\ (faults' = faults \/ faults' = faults \cup {"careless"})
<1>1. ASSUME NEW p, sfs_create(p) \/ sfs_mkdir(p) \/ sfs_open(p)
      PROVE  mounted /\ undefined = "" /\ mounted' = mounted /\ saved' = saved /\ faults' = faults
  BY <1>1 DEF sfs_create, sfs_mkdir, sfs_open, Settled, Serving, history
<1>2. ASSUME NEW p, sfs_unlink(p) \/ sfs_rmdir(p)
      PROVE  mounted /\ undefined = "" /\ mounted' = mounted /\ saved' = saved /\ faults' = faults
  BY <1>2 DEF sfs_unlink, sfs_rmdir, remove, Settled, Serving
<1>3. ASSUME NEW fh, sfs_release(fh) \/ \E n : sfs_write(fh, n)
      PROVE  mounted /\ undefined = "" /\ mounted' = mounted /\ saved' = saved /\ faults' = faults
  BY <1>3 DEF sfs_release, sfs_write, write, Settled, Serving, history
<1>4. ASSUME NEW fh, NEW n, NEW off, sfs_write_careless(fh, n, off)
      PROVE  mounted /\ undefined = "" /\ mounted' = mounted /\ saved' = saved
             /\ faults' = faults \cup {"careless"}
  BY <1>4 DEF sfs_write_careless, write, Settled, Serving
<1>5. QED
  BY <1>1, <1>2, <1>3, <1>4 DEF Handler

\* Every block has one use, and the blocks of the tables at unmount have none.
InOrder(m) == Fits(m) /\ \E own : Held(m, own)

\* As long as the process is not killed the blocks are in order, also while the
\* tables are only on the disk.
HeldInv ==
    "crash" \notin faults /\ undefined = "" =>
        /\ mounted => InOrder(Now)
        /\ ~mounted /\ KeyFound => InOrder(Memory(saved, disk, ""))

LEMMA OrderNext ==
    ASSUME NEW m, Hold(m), Fits(m), mounted', m.ub = "" => \E own : Held(m, own)
    PROVE  HeldInv'
<1>1. PICK next : next = Now'
  OBVIOUS
<1>2. SameBlocks(m, next) /\ next.ub = undefined'
  BY <1>1 DEF Hold, SameBlocks, Now, Memory, Tables
<1>3. Fits(next)
  BY <1>2 DEF Fits, SameBlocks
<1>4. undefined' = "" => InOrder(next)
  BY <1>2, <1>3, SameHeld DEF InOrder, SameBlocks
<1>5. QED
  BY <1>1, <1>4, Zenon DEF HeldInv

LEMMA HandlerInOrder ==
    ASSUME SfsInv, HeldInv, Handler
    PROVE  HeldInv'
<1>1. mounted /\ undefined = "" /\ mounted' /\ ("crash" \in faults => "crash" \in faults')
  <2>1. mounted /\ undefined = "" /\ mounted' = mounted /\ (faults' = faults \/ faults' = faults \cup {"careless"})
    BY HandlerServes
  <2>2. mounted'
    BY <2>1, Zenon
  <2>3. QED
    BY <2>1, <2>2, Zenon
<1>2. CASE "crash" \in faults
  BY <1>1, <1>2 DEF HeldInv
<1>3. CASE "crash" \notin faults
  <2>1. PICK own : Held(Now, own)
    BY <1>1, <1>3 DEF HeldInv, InOrder
  <2>2. Moves(own)
    BY <2>1, HandlerMoves
  <2>3. PICK m, I : Hold(m) /\ Fits(m) /\ ChangesTo(Now, own, m, I)
    BY <2>2 DEF Moves
  <2>4. m.ub = "" => \E own2 : Held(m, own2)
    BY <2>3 DEF ChangesTo, Changes
  <2>5. QED
    BY <1>1, <2>3, <2>4, OrderNext
<1>4. QED
  BY <1>2, <1>3

\* After a first mount one block is in use: that of the root directory.
LEMMA FirstMountHeld ==
    ASSUME DiskOK(disk)
    PROVE  \E own : Held(first_mount, own)
<1>1. PICK z : z = Memory(ZeroTables, disk, "")
  OBVIOUS
<1>2. PICK n : n = new_inode(z, 0, TRUE, 2, 5, 1)
  OBVIOUS
<1>3. PICK e : e = enter_name(n, Root, 0)
  OBVIOUS
<1> DEFINE c == [k \in 1..BlockSize |-> IF k =< 4 THEN Dots(0, 0)[k] ELSE IF k = 5 THEN Nul ELSE Garbage]
<1>4. PICK f : f = first_mount
  OBVIOUS
<1>5. f = [e EXCEPT !.inode[0].blocks[0] = 0, !.map[0] = TRUE, !.disk[0] = c]
  BY <1>1, <1>2, <1>3, <1>4 DEF first_mount
<1>6. 0 \in Inodes /\ 0 \in Blocks
  BY ConstantTypes DEF Inodes, Blocks
<1>7. MemoryOK(z)
  BY <1>1, ZeroInv
<1>8. MemoryOK(n)
  <2>1. InodeOK([avail |-> TRUE, dir |-> TRUE, nlink |-> 2, size |-> 5, nblocks |-> 1,
                 blocks |-> [k \in 0 .. NumDirect + 1 |-> -1]])
    BY ConstantTypes DEF InodeOK, Fields
  <2>2. SetsInode(z, n, 0, [avail |-> TRUE, dir |-> TRUE, nlink |-> 2, size |-> 5, nblocks |-> 1,
                 blocks |-> [k \in 0 .. NumDirect + 1 |-> -1]])
    BY <1>2, <1>6, <1>7, <2>1, InodeSet DEF new_inode
  <2>3. QED
    BY <2>2 DEF SetsInode
<1>9. SameBlocks(n, e) /\ DOMAIN e = TableNames \cup {"disk", "ub"}
  <2>1. SameBlocks(n, e)
    BY <1>3, <1>8, EnterNameSame
  <2>2. DOMAIN e = TableNames \cup {"disk", "ub"}
    BY <1>3, <1>8 DEF enter_name, MemoryOK
  <2>3. QED
    BY <2>1, <2>2
<1>10. /\ n.map = [b \in Blocks |-> FALSE] /\ n.inode[0].avail /\ n.inode[0].dir
       /\ n.inode[0].blocks = [k \in 0 .. NumDirect + 1 |-> -1]
       /\ \A j \in Inodes \ {0} : ~ n.inode[j].avail
       /\ DOMAIN n.inode = Inodes /\ DOMAIN n.inode[0] = Fields /\ DiskOK(n.disk)
  <2>1. z.map = [b \in Blocks |-> FALSE] /\ \A j \in Inodes : z.inode[j] = ZeroInode
    BY <1>1 DEF Memory, ZeroTables
  <2>2. n.map = z.map /\ n.inode = [z.inode EXCEPT ![0] = [avail |-> TRUE, dir |-> TRUE, nlink |-> 2, size |-> 5,
                 nblocks |-> 1, blocks |-> [k \in 0 .. NumDirect + 1 |-> -1]]]
    BY <1>2, <1>7 DEF new_inode, MemoryOK, TableNames
  <2>3. DOMAIN z.inode = Inodes
    BY <1>7 DEF MemoryOK, TablesOK
  <2>4. \A j \in Inodes : ~ ZeroInode.avail
    BY DEF ZeroInode
  <2>5. n.inode[0] = [avail |-> TRUE, dir |-> TRUE, nlink |-> 2, size |-> 5,
                 nblocks |-> 1, blocks |-> [k \in 0 .. NumDirect + 1 |-> -1]]
    BY <1>6, <2>2, <2>3
  <2>6. \A j \in Inodes \ {0} : n.inode[j] = z.inode[j]
    BY <2>2, <2>3
  <2>7. n.inode[0].avail /\ n.inode[0].dir /\ n.inode[0].blocks = [k \in 0 .. NumDirect + 1 |-> -1]
    BY <2>5
  <2>8. DOMAIN n.inode = Inodes /\ DOMAIN n.inode[0] = Fields /\ DiskOK(n.disk)
    BY <1>6, <1>8 DEF MemoryOK, TablesOK, InodeOK
  <2>9. QED
    BY <2>1, <2>2, <2>4, <2>6, <2>7, <2>8
<1>11. /\ f.map = [[b \in Blocks |-> FALSE] EXCEPT ![0] = TRUE]
       /\ f.disk = [n.disk EXCEPT ![0] = c]
       /\ f.inode = [n.inode EXCEPT ![0].blocks[0] = 0]
  BY <1>5, <1>9, <1>10 DEF SameBlocks, TableNames
<1> HIDE DEF c
<1>12. /\ f.inode[0].avail /\ f.inode[0].dir
       /\ f.inode[0].blocks = [[k \in 0 .. NumDirect + 1 |-> -1] EXCEPT ![0] = 0]
       /\ \A j \in Inodes \ {0} : ~ f.inode[j].avail
  BY <1>6, <1>10, <1>11 DEF Fields
<1>13. PICK own : own = [[b \in Blocks |-> Free] EXCEPT ![0] = Role("slot", 0, 0, 0)]
  OBVIOUS
<1>14. own = [b \in Blocks |-> own[b]] /\ own[0] = Role("slot", 0, 0, 0)
       /\ \A b \in Blocks \ {0} : own[b] = Free
  BY <1>6, <1>13
<1>15. InodeHolds(f.inode[0].blocks, own, 0)
  <2>1. \A k \in 0 .. NumDirect + 1 : f.inode[0].blocks[k] = IF k = 0 THEN 0 ELSE -1
    BY <1>12
  <2>2. QED
    BY <1>6, <1>14, <2>1 DEF InodeHolds, Points
<1>16. \A b \in Blocks : ~IsTable(own[b])
  BY <1>14, DirSlot, RoleParts DEF IsTable, Free
<1>17. \A b \in Blocks : f.map[b] <=> own[b] # Free
  <2>1. own[0] # Free
    BY <1>14, RealRoles DEF Real
  <2>2. \A b \in Blocks : f.map[b] = (b = 0)
    BY <1>6, <1>11
  <2>3. QED
    BY <1>14, <2>1, <2>2
<1>18. \A k \in 1..BlockSize : Plain(f.disk[0][k])
  <2>1. f.disk[0] = c
    BY <1>6, <1>10, <1>11 DEF DiskOK
  <2>2. Dots(0, 0)[1] = Token(".") /\ Dots(0, 0)[2] = Token(ToString(0)) /\ Dots(0, 0)[3] = Token("..")
        /\ Dots(0, 0)[4] = Token(ToString(0))
    BY DEF Dots
  <2>3. \A k \in 1..BlockSize : c[k] = IF k =< 4 THEN Dots(0, 0)[k] ELSE IF k = 5 THEN Nul ELSE Garbage
    BY DEF c
  <2>4. \A k \in 1..BlockSize : k =< 4 => k = 1 \/ k = 2 \/ k = 3 \/ k = 4
    BY ConstantTypes
  <2>5. \A k \in 1..BlockSize : c[k] = Nul \/ c[k] = Garbage \/ \E x : c[k] = Token(x)
    BY <2>2, <2>3, <2>4
  <2>6. QED
    BY <2>1, <2>5, Shorts
<1>19. Held(f, own)
  BY <1>12, <1>14, <1>15, <1>16, <1>17, <1>18, NoTableHolds DEF Held
<1>20. QED
  BY <1>4, <1>19

-----------------------------------------------------------------------------
\* Mounting, unmounting and crashing; the invariant.

LEMMA MountInOrder ==
    ASSUME SfsInv, HeldInv, sfs_init
    PROVE  HeldInv'
<1> DEFINE u == IF TablesIntact THEN "" ELSE "tables overwritten"
           next == IF ~KeyFound THEN first_mount ELSE Memory(saved, disk, u)
<1>1. ~mounted /\ mounted' /\ Become(next) /\ faults' = faults /\ undefined = ""
  BY DEF sfs_init
<1>2. PICK m : m = next /\ Hold(m) /\ Fits(m)
  BY <1>1 DEF Become
<1>3. CASE "crash" \in faults
  BY <1>1, <1>3 DEF HeldInv
<1>4. CASE "crash" \notin faults /\ ~KeyFound
  <2>1. DiskOK(disk)
    BY NowParts DEF SfsInv, MemoryOK
  <2>2. \E own : Held(m, own)
    BY <1>2, <1>4, <2>1, FirstMountHeld
  <2>3. QED
    BY <1>1, <1>2, <2>2, OrderNext
<1>5. CASE "crash" \notin faults /\ KeyFound
  <2>1. PICK old : old = Memory(saved, disk, "")
    OBVIOUS
  <2>2. PICK own : Held(old, own)
    BY <1>1, <1>5, <2>1 DEF HeldInv, InOrder
  <2>3. Held(m, own)
    <3>1. m.map = old.map /\ m.disk = old.disk /\ m.inode = old.inode
      BY <1>2, <1>5, <2>1 DEF Memory
    <3>2. QED
      BY <2>2, <3>1 DEF Held
  <2>4. QED
    BY <1>1, <1>2, <2>3, OrderNext
<1>6. QED
  BY <1>3, <1>4, <1>5

\* The tables are written over blocks that have no use.
LEMMA TablesOverFree ==
    ASSUME NEW m, DiskOK(m.disk), NEW own, Held(m, own), Fits(m), NEW r, r.map = m.map, r.inode = m.inode,
           r.disk = [b \in Blocks |-> IF b >= SystemBlock THEN SystemCells(b) ELSE m.disk[b]]
    PROVE  InOrder(r)
<1>1. \A b \in Blocks : b >= SystemBlock => own[b] = Free
  <2>1. \A b \in Blocks : b >= SystemBlock => b \in SystemBlock .. NumBlocks - 1
    BY ConstantTypes, SfsAssumption DEF Blocks, SystemBlock
  <2>2. QED
    BY <2>1 DEF Held, Fits
<1>2. \A b \in Blocks : own[b] # Free => r.disk[b] = m.disk[b]
  BY <1>1
<1>3. \A b \in Blocks : TableHolds(r.disk[b], own, own[b])
  <2>1. ~IsTable(Free)
    BY RoleParts DEF IsTable, Free
  <2>2. QED
    BY <1>2, <2>1, NoTableHolds DEF Held
<1>4. r.disk[0] = m.disk[0]
  BY <1>2, ConstantTypes, RealRoles DEF Held, Blocks, Real
<1>5. Held(r, own)
  BY <1>3, <1>4 DEF Held
<1>6. Fits(r)
  BY DEF Fits
<1>7. QED
  BY <1>5, <1>6 DEF InOrder

LEMMA UnmountInOrder ==
    ASSUME SfsInv, HeldInv, sfs_destroy
    PROVE  HeldInv'
<1> DEFINE d == [b \in Blocks |-> IF b >= SystemBlock THEN SystemCells(b) ELSE disk[b]]
<1>1. mounted /\ undefined = "" /\ ~mounted' /\ saved' = Tables /\ disk' = d /\ faults' = faults
  BY DEF sfs_destroy, Serving, Gone, Hold, Memory
<1>2. ASSUME "crash" \notin faults PROVE InOrder(Memory(saved, disk, "")')
  <2>1. PICK own : Held(Now, own) /\ Fits(Now)
    BY <1>1, <1>2 DEF HeldInv, InOrder
  <2>2. PICK r, now : r = Memory(saved, disk, "")' /\ now = Now
    OBVIOUS
  <2>3. r.map = now.map /\ r.inode = now.inode
        /\ r.disk = [b \in Blocks |-> IF b >= SystemBlock THEN SystemCells(b) ELSE now.disk[b]]
    BY <1>1, <2>2 DEF Memory, Tables, Now
  <2>4. DiskOK(now.disk)
    BY <2>2 DEF SfsInv, MemoryOK
  <2>5. InOrder(r)
    BY <2>1, <2>2, <2>3, <2>4, TablesOverFree
  <2>6. QED
    BY <2>2, <2>5
<1>3. QED
  BY <1>1, <1>2, Zenon DEF HeldInv

LEMMA CrashInOrder ==
    ASSUME Crash
    PROVE  HeldInv'
  BY DEF Crash, HeldInv

LEMMA OrderStarts ==
    ASSUME Init
    PROVE  HeldInv
<1>1. ~mounted /\ disk = [b \in Blocks |-> Zero]
  BY DEF Init
<1>2. \A b \in Blocks : disk[b][1] # <<"key">>
  <2>1. Zero[1] = Nul
    BY ConstantTypes DEF Zero
  <2>2. Nul # <<"key">>
    BY DEF Nul
  <2>3. QED
    BY <1>1, <2>1, <2>2
<1>3. ~KeyFound
  BY <1>2 DEF KeyFound
<1>4. QED
  BY <1>1, <1>3 DEF HeldInv

LEMMA OrderStep ==
    ASSUME SfsInv, HeldInv, [Next]_vars
    PROVE  HeldInv'
<1>1. CASE Handler
  BY <1>1, HandlerInOrder
<1>2. CASE sfs_init
  BY <1>2, MountInOrder
<1>3. CASE sfs_destroy
  BY <1>3, UnmountInOrder
<1>4. CASE Crash
  BY <1>4, CrashInOrder
<1>5. CASE UNCHANGED vars
  <2>1. Now' = Now /\ Memory(saved, disk, "")' = Memory(saved, disk, "") /\ (KeyFound' <=> KeyFound)
        /\ mounted' = mounted /\ faults' = faults /\ undefined' = undefined
    BY <1>5 DEF vars, Now, Tables, Memory, KeyFound
  <2>2. QED
    BY <2>1, Zenon DEF HeldInv
<1>6. Handler \/ sfs_init \/ sfs_destroy \/ Crash \/ UNCHANGED vars
  BY DEF Next, Handler
<1>7. QED
  BY <1>1, <1>2, <1>3, <1>4, <1>5, <1>6

LEMMA OrderInvariant == Spec => []HeldInv
<1>1. Init => HeldInv
  BY OrderStarts
<1>2. SfsInv /\ HeldInv /\ [Next]_vars => HeldInv'
  BY OrderStep
<1>3. QED
  BY <1>1, <1>2, SfsInvariant, PTL DEF Spec

-----------------------------------------------------------------------------
\* Every block is held once.

\* A block in slot n of inode i, and the inner table in entry k of its outer one.
IsHead(own, t, i, n) ==
    t \in Blocks /\ t = inode_table[i].blocks[n] /\ own[t] = Role("slot", i, n, 0)
IsInner(own, t, i, k) ==
    /\ t \in Blocks /\ t = Entry(Now, inode_table[i].blocks[NumDirect + 1], k)
    /\ own[t] = Role("outer", i, k, 0)

LEMMA SlotHeld ==
    ASSUME NEW own, Held(Now, own), NEW i \in Allocated, NEW n \in 0 .. NumDirect + 1, inode_table[i].blocks[n] # -1
    PROVE  IsHead(own, inode_table[i].blocks[n], i, n)
<1>1. i \in Inodes /\ Now.inode[i].avail
  BY NowParts DEF Allocated
<1>2. Points(inode_table[i].blocks[n], own, Role("slot", i, n, 0))
  BY <1>1, NowParts DEF Held, InodeHolds
<1>3. QED
  BY <1>2 DEF Points, IsHead

LEMMA EntryHeld ==
    ASSUME MemoryOK(Now), NEW own, Held(Now, own), NEW t \in Blocks, IsTable(own[t]), NEW k \in EntriesOf(own[t]),
           Entry(Now, t, k) # -1
    PROVE  Entry(Now, t, k) \in Blocks /\ own[Entry(Now, t, k)] = ChildRole(own[t], k)
  BY EntryPoints DEF Points

LEMMA SingleRoles ==
    ASSUME NEW i, NEW role, role = Role("slot", i, NumDirect, 0)
    PROVE  IsTable(role) /\ EntriesOf(role) = 0 .. PerBlock - 1
<1>1. NumDirect # NumDirect + 1
  BY ConstantTypes
<1>2. QED
  BY <1>1, RoleParts DEF IsTable, EntriesOf

LEMMA OuterHeld ==
    ASSUME MemoryOK(Now), NEW own, Held(Now, own), NEW b \in Outers
    PROVE  \E i \in Allocated : IsHead(own, b, i, NumDirect + 1)
  BY SlotHeld, NoBlock DEF Outers

LEMMA SingleHeld ==
    ASSUME MemoryOK(Now), NEW own, Held(Now, own), NEW b \in Singles
    PROVE  \E i \in Allocated : IsHead(own, b, i, NumDirect)
  BY SlotHeld, NoBlock DEF Singles

LEMMA InnerHeld ==
    ASSUME MemoryOK(Now), NEW own, Held(Now, own), NEW b \in Inners
    PROVE  \E i \in Allocated, k \in 0..NumDouble : IsInner(own, b, i, k)
<1>1. PICK t \in Outers, k \in 0..NumDouble : b = Entry(Now, t, k) /\ b # -1
  BY DEF Inners
<1>2. PICK i \in Allocated : IsHead(own, t, i, NumDirect + 1)
  BY OuterHeld
<1>3. IsTable(own[t]) /\ k \in EntriesOf(own[t]) /\ ChildRole(own[t], k) = Role("outer", i, k, 0)
  BY <1>2, OuterRoles DEF IsHead
<1>4. b \in Blocks /\ own[b] = Role("outer", i, k, 0)
  BY <1>1, <1>2, <1>3, EntryHeld DEF IsHead
<1>5. QED
  BY <1>1, <1>2, <1>4 DEF IsHead, IsInner

TableBlocks == Singles \cup Outers \cup Inners

LEMMA TableBlockHeld ==
    ASSUME MemoryOK(Now), NEW own, Held(Now, own), NEW t \in TableBlocks
    PROVE  \/ \E i \in Allocated, n \in {NumDirect, NumDirect + 1} : IsHead(own, t, i, n)
           \/ \E i \in Allocated, k \in 0..NumDouble : IsInner(own, t, i, k)
  BY OuterHeld, SingleHeld, InnerHeld DEF TableBlocks

LEMMA TableBlockOnce ==
    ASSUME MemoryOK(Now), NEW own, Held(Now, own), NEW t \in TableBlocks, NEW s \in TableBlocks, own[t] = own[s]
    PROVE  t = s
<1>1. \A i, n, j, k : ~(IsHead(own, t, i, n) /\ IsInner(own, s, j, k))
      /\ ~(IsHead(own, s, i, n) /\ IsInner(own, t, j, k))
  BY RoleParts DEF IsHead, IsInner
<1>2. \A i, n, j, k : IsHead(own, t, i, n) /\ IsHead(own, s, j, k) => t = s
  <2>1. SUFFICES ASSUME NEW i, NEW n, NEW j, NEW k, IsHead(own, t, i, n), IsHead(own, s, j, k) PROVE t = s
    OBVIOUS
  <2>2. i = j /\ n = k
    BY <2>1, RoleEq DEF IsHead
  <2>3. QED
    BY <2>1, <2>2 DEF IsHead
<1>3. \A i, n, j, k : IsInner(own, t, i, n) /\ IsInner(own, s, j, k) => t = s
  <2>1. SUFFICES ASSUME NEW i, NEW n, NEW j, NEW k, IsInner(own, t, i, n), IsInner(own, s, j, k) PROVE t = s
    OBVIOUS
  <2>2. i = j /\ n = k
    BY <2>1, RoleEq DEF IsInner
  <2>3. QED
    BY <2>1, <2>2 DEF IsInner
<1>4. QED
  BY <1>1, <1>2, <1>3, TableBlockHeld

\* What a place holds has the role of the place.
PlaceRole(own, u) == IF u[1] = "inode" THEN Role("slot", u[2], u[3], 0) ELSE ChildRole(own[u[2]], u[3])
PlaceHeld(own, u) == Kept(u) \in Blocks /\ own[Kept(u)] = PlaceRole(own, u)

IsEntry(own, u) ==
    u[1] = "entry" /\ u[2] \in TableBlocks /\ u[2] \in Blocks /\ IsTable(own[u[2]]) /\ u[3] \in EntriesOf(own[u[2]])
    /\ u = <<"entry", u[2], u[3]>>
IsSlot(u) == u[1] = "inode" /\ u[2] \in Allocated /\ u[3] \in 0 .. NumDirect + 1 /\ u = <<"inode", u[2], u[3]>>

LEMMA PlaceKinds ==
    ASSUME MemoryOK(Now), NEW own, Held(Now, own), NEW u \in Uses
    PROVE  IsSlot(u) \/ IsEntry(own, u)
<1>1. CASE \E i \in Allocated, n \in 0 .. NumDirect + 1 : u = <<"inode", i, n>>
  BY <1>1 DEF IsSlot
<1>2. CASE \E b \in Singles, k \in 0 .. PerBlock - 1 : u = <<"entry", b, k>>
  <2>1. PICK b \in Singles, k \in 0 .. PerBlock - 1 : u = <<"entry", b, k>>
    BY <1>2
  <2>2. b \in Blocks /\ IsTable(own[b]) /\ k \in EntriesOf(own[b])
    <3>1. PICK i : b \in Blocks /\ own[b] = Role("slot", i, NumDirect, 0)
      BY SingleHeld DEF IsHead
    <3>2. IsTable(own[b]) /\ k \in EntriesOf(own[b])
      BY <3>1, SingleRoles
    <3>3. QED
      BY <3>1, <3>2
  <2>3. QED
    BY <2>1, <2>2 DEF IsEntry, TableBlocks
<1>3. CASE \E b \in Inners, k \in 0 .. PerBlock - 1 : u = <<"entry", b, k>>
  <2>1. PICK b \in Inners, k \in 0 .. PerBlock - 1 : u = <<"entry", b, k>>
    BY <1>3
  <2>2. b \in Blocks /\ IsTable(own[b]) /\ k \in EntriesOf(own[b])
    <3>1. PICK i, l : b \in Blocks /\ own[b] = Role("outer", i, l, 0)
      BY InnerHeld DEF IsInner
    <3>2. IsTable(own[b]) /\ k \in EntriesOf(own[b])
      BY <3>1, InnerRoles
    <3>3. QED
      BY <3>1, <3>2
  <2>3. QED
    BY <2>1, <2>2 DEF IsEntry, TableBlocks
<1>4. CASE \E b \in Outers, k \in 0..NumDouble : u = <<"entry", b, k>>
  <2>1. PICK b \in Outers, k \in 0..NumDouble : u = <<"entry", b, k>>
    BY <1>4
  <2>2. b \in Blocks /\ IsTable(own[b]) /\ k \in EntriesOf(own[b])
    <3>1. PICK i : b \in Blocks /\ own[b] = Role("slot", i, NumDirect + 1, 0)
      BY OuterHeld DEF IsHead
    <3>2. IsTable(own[b]) /\ k \in EntriesOf(own[b])
      BY <3>1, OuterRoles
    <3>3. QED
      BY <3>1, <3>2
  <2>3. QED
    BY <2>1, <2>2 DEF IsEntry, TableBlocks
<1>5. \/ \E i \in Allocated, n \in 0 .. NumDirect + 1 : u = <<"inode", i, n>>
      \/ \E b \in Singles, k \in 0 .. PerBlock - 1 : u = <<"entry", b, k>>
      \/ \E b \in Inners, k \in 0 .. PerBlock - 1 : u = <<"entry", b, k>>
      \/ \E b \in Outers, k \in 0..NumDouble : u = <<"entry", b, k>>
  BY DEF Uses
<1>6. QED
  BY <1>1, <1>2, <1>3, <1>4, <1>5

LEMMA PlaceHolds ==
    ASSUME MemoryOK(Now), NEW own, Held(Now, own), NEW u \in InUse
    PROVE  PlaceHeld(own, u)
<1>1. (IsSlot(u) \/ IsEntry(own, u)) /\ Kept(u) # -1
  <2>1. u \in Uses /\ Kept(u) # -1
    BY DEF InUse
  <2>2. QED
    BY <2>1, PlaceKinds
<1>2. CASE IsSlot(u)
  <2>1. Kept(u) = inode_table[u[2]].blocks[u[3]]
    BY <1>2 DEF Kept, IsSlot
  <2>2. IsHead(own, Kept(u), u[2], u[3])
    BY <1>1, <1>2, <2>1, SlotHeld DEF IsSlot
  <2>3. QED
    BY <1>2, <2>2 DEF IsHead, PlaceHeld, PlaceRole, IsSlot
<1>3. CASE IsEntry(own, u)
  <2>1. Kept(u) = Entry(Now, u[2], u[3])
    BY <1>3 DEF Kept, IsEntry
  <2>2. Kept(u) \in Blocks /\ own[Kept(u)] = ChildRole(own[u[2]], u[3])
    BY <1>1, <1>3, <2>1, EntryHeld DEF IsEntry
  <2>3. QED
    BY <1>3, <2>2 DEF PlaceHeld, PlaceRole, IsEntry
<1>4. QED
  BY <1>1, <1>2, <1>3

LEMMA PlaceOnce ==
    ASSUME MemoryOK(Now), NEW own, Held(Now, own), NEW u \in InUse, NEW v \in InUse, Kept(u) = Kept(v)
    PROVE  u = v
<1>1. PlaceRole(own, u) = PlaceRole(own, v)
  BY PlaceHolds DEF PlaceHeld
<1>2. (IsSlot(u) \/ IsEntry(own, u)) /\ (IsSlot(v) \/ IsEntry(own, v))
  <2>1. u \in Uses /\ v \in Uses
    BY DEF InUse
  <2>2. QED
    BY <2>1, PlaceKinds
<1>3. CASE IsSlot(u) /\ IsSlot(v)
  <2>1. Role("slot", u[2], u[3], 0) = Role("slot", v[2], v[3], 0)
    BY <1>1, <1>3 DEF PlaceRole, IsSlot
  <2>2. u[2] = v[2] /\ u[3] = v[3]
    BY <2>1, RoleEq
  <2>3. QED
    BY <1>3, <2>2 DEF IsSlot
<1>4. \A x, y : IsSlot(x) /\ IsEntry(own, y) => PlaceRole(own, x) # PlaceRole(own, y)
  BY RoleParts DEF PlaceRole, IsSlot, IsEntry, ChildRole
<1>5. CASE IsEntry(own, u) /\ IsEntry(own, v)
  <2>1. PICK t, s, k, l : t = own[u[2]] /\ s = own[v[2]] /\ k = u[3] /\ l = v[3]
    OBVIOUS
  <2>2. ChildRole(t, k) = ChildRole(s, l)
    BY <1>1, <1>5, <2>1 DEF PlaceRole, IsEntry
  <2>3. /\ \E i, n : (n \in {NumDirect, NumDirect + 1} /\ t = Role("slot", i, n, 0)) \/ t = Role("outer", i, n, 0)
        /\ \E i, n : (n \in {NumDirect, NumDirect + 1} /\ s = Role("slot", i, n, 0)) \/ s = Role("outer", i, n, 0)
    BY <1>5, <2>1, TableBlockHeld DEF IsEntry, IsHead, IsInner
  <2>4. t = s /\ k = l
    BY <2>2, <2>3, RoleEq, RoleParts DEF ChildRole
  <2>5. u[2] = v[2] /\ u[3] = v[3]
    BY <1>5, <2>1, <2>4, TableBlockOnce DEF IsEntry
  <2>6. QED
    BY <1>5, <2>5 DEF IsEntry
<1>6. QED
  BY <1>1, <1>2, <1>3, <1>4, <1>5

\* As long as the process is not killed no block is in use in two places and
\* every one in use is marked, for files of any size that reach into every level
\* of tables (set_block_index, free_inode, the directories' second blocks).
THEOREM BlocksHeldOnceHolds == Spec => []BlocksHeldOnce
<1>1. SfsInv /\ HeldInv => BlocksHeldOnce
  <2>1. SUFFICES ASSUME SfsInv, HeldInv, mounted, undefined = "", "crash" \notin faults, NEW u \in InUse, NEW v \in InUse
                 PROVE  Kept(u) \in Marked /\ (Kept(u) = Kept(v) => u = v)
    BY DEF BlocksHeldOnce
  <2>2. PICK own : Held(Now, own)
    BY <2>1 DEF HeldInv, InOrder
  <2>3. MemoryOK(Now)
    BY <2>1 DEF SfsInv
  <2>4. Kept(u) \in Blocks /\ own[Kept(u)] = PlaceRole(own, u)
    BY <2>2, <2>3, PlaceHolds DEF PlaceHeld
  <2>5. Real(PlaceRole(own, u))
    BY RealRoles, ChildOwner DEF PlaceRole
  <2>6. Kept(u) \in Marked
    BY <2>2, <2>4, <2>5, NowParts DEF Held, Marked, Real
  <2>7. QED
    BY <2>2, <2>3, <2>6, PlaceOnce
<1>2. QED
  BY <1>1, SfsInvariant, OrderInvariant, PTL

=============================================================================
