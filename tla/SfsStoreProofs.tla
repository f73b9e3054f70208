--------------------------- MODULE SfsStoreProofs ---------------------------
(**************************************************************************)
(* What sfs_read returns is what the file's blocks hold (ReadsAreExact),  *)
(* and why the program may leave defined behaviour (UndefinedHasACause).  *)
(*                                                                        *)
(* The view of a mounted file system holds, for every file, the cells of  *)
(* its blocks in order; a read puts together parts of blocks, which are   *)
(* parts of that (ReadsAreExactHolds).                                    *)
(*                                                                        *)
(* Of where numbers of blocks and cells come from, what the functions on  *)
(* blocks promise is relative (Follows, Tends): as long as the map fits,  *)
(* a step writes into inodes and blocks only what was there before, or    *)
(* what is not the key and not the number of a block kept for the tables. *)
(* So the key is found where the tables are, and only there (CauseInv).   *)
(**************************************************************************)
EXTENDS SfsBlockProofs, FunctionTheorems

-----------------------------------------------------------------------------
\* The cells of a file.

\* The cells of a sequence of blocks, one after the other.
CellOf(s, k) == s[((k - 1) \div BlockSize) + 1][((k - 1) % BlockSize) + 1]
Cells(s, n) == [k \in 1 .. n * BlockSize |-> CellOf(s, k)]

LEMMA NextBlock ==
    ASSUME NEW n \in Nat \ {0}, NEW s, IsBlock(s[n])
    PROVE  Cells(s, n) = Cells(s, n - 1) \o s[n]
<1> DEFINE a == (n - 1) * BlockSize
           t == Cells(s, n - 1)
<1>1. a \in Nat /\ n * BlockSize = a + BlockSize /\ BlockSize \in Nat \ {0}
  BY ConstantTypes
<1>2. t = [k \in 1..a |-> t[k]] /\ \A k \in 1..a : t[k] = CellOf(s, k)
  BY DEF Cells
<1>3. s[n] = [k \in 1..BlockSize |-> s[n][k]]
  BY DEF IsBlock
<1> HIDE DEF t, a
<1>4. t \o s[n] = [k \in 1..a + BlockSize |-> IF k =< a THEN t[k] ELSE s[n][k - a]]
  BY <1>1, <1>2, <1>3, Concat, SMTT(30)
<1>5. ASSUME NEW k \in 1..a + BlockSize
      PROVE  CellOf(s, k) = IF k =< a THEN t[k] ELSE s[n][k - a]
  <2>1. CASE k =< a
    BY <1>1, <1>2, <2>1
  <2>2. CASE ~(k =< a)
    <3>1. k - 1 = BlockSize * (n - 1) + (k - 1 - a) /\ k - 1 - a \in 0..BlockSize - 1
      BY <1>1, <2>2 DEF a
    <3>2. (k - 1) \div BlockSize = n - 1 /\ (k - 1) % BlockSize = k - 1 - a
      <4> DEFINE x == k - 1
                 q == n - 1
                 r == k - 1 - a
      <4>1. x \in Int /\ q \in Int /\ r \in 0..BlockSize - 1 /\ x = BlockSize * q + r
        BY <1>1, <3>1
      <4> HIDE DEF x, q, r
      <4>2. x \div BlockSize = q /\ x % BlockSize = r
        BY <1>1, <4>1, DivisionUnique
      <4>3. QED
        BY <4>2 DEF x, q, r
    <3>3. CellOf(s, k) = s[(n - 1) + 1][(k - 1 - a) + 1]
      BY <3>2 DEF CellOf
    <3>4. (n - 1) + 1 = n /\ (k - 1 - a) + 1 = k - a
      BY <1>1
    <3>5. QED
      BY <2>2, <3>3, <3>4
  <2>3. QED
    BY <2>1, <2>2
<1>6. Cells(s, n) = [k \in 1..a + BlockSize |-> CellOf(s, k)]
  BY <1>1 DEF Cells
<1>7. QED
  BY <1>4, <1>5, <1>6 DEF t

LEMMA FlattenBlocks ==
    ASSUME NEW n \in Nat, NEW s, s = [j \in 1..n |-> s[j]], \A j \in 1..n : IsBlock(s[j])
    PROVE  FlattenSeq(s) = Cells(s, n)
<1> DEFINE flat[i \in 1..n] == IF i = 1 THEN s[i] ELSE flat[i - 1] \o s[i]
           closed == [i \in 1..n |-> Cells(s, i)]
           T == {i \in 1..n : flat[i] # Cells(s, i)}
<1>1. Len(s) = n
  OBVIOUS
<1>2. CASE n = 0
  <2>1. s = <<>>
    BY <1>2
  <2>2. Cells(s, n) = <<>>
    BY <1>2, ConstantTypes DEF Cells
  <2>3. QED
    BY <1>1, <1>2, <2>1, <2>2 DEF FlattenSeq
<1>3. CASE n # 0
  <2>1. \A i \in 1..n : i # 1 => Cells(s, i) = Cells(s, i - 1) \o s[i]
    <3>1. SUFFICES ASSUME NEW i \in 1..n, i # 1
                   PROVE  Cells(s, i) = Cells(s, i - 1) \o s[i]
      OBVIOUS
    <3>2. i \in Nat \ {0} /\ IsBlock(s[i])
      OBVIOUS
    <3>3. QED
      BY <3>2, NextBlock
  <2>2. 1 \in 1..n /\ Cells(s, 1) = s[1]
    <3>1. IsBlock(s[1])
      BY <1>3
    <3>2. Cells(s, 1) = [k \in 1..BlockSize |-> CellOf(s, k)]
      BY ConstantTypes DEF Cells
    <3>3. \A k \in 1..BlockSize : CellOf(s, k) = s[1][k]
      <4>1. SUFFICES ASSUME NEW k \in 1..BlockSize PROVE CellOf(s, k) = s[1][k]
        OBVIOUS
      <4>2. k - 1 = BlockSize * 0 + (k - 1) /\ k - 1 \in 0..BlockSize - 1 /\ k - 1 \in Int
        BY ConstantTypes
      <4>3. (k - 1) \div BlockSize = 0 /\ (k - 1) % BlockSize = k - 1
        <5> DEFINE x == k - 1
                   q == 0
        <5>1. x \in Int /\ q \in Int /\ x \in 0..BlockSize - 1 /\ x = BlockSize * q + x
          BY <4>2
        <5> HIDE DEF x, q
        <5>2. x \div BlockSize = q /\ x % BlockSize = x
          BY <5>1, ConstantTypes, DivisionUnique, SMTT(30)
        <5>3. QED
          BY <5>2 DEF x, q
      <4>4. ((k - 1) \div BlockSize) + 1 = 1 /\ ((k - 1) % BlockSize) + 1 = k
        BY <4>3
      <4>5. QED
        BY <4>4, Zenon DEF CellOf
    <3>4. Cells(s, 1) = s[1]
      BY <3>1, <3>2, <3>3 DEF IsBlock
    <3>5. QED
      BY <1>3, <3>4
  <2>3. closed = [i \in 1..n |-> IF i = 1 THEN s[i] ELSE closed[i - 1] \o s[i]]
    <3>1. SUFFICES ASSUME NEW i \in 1..n
                   PROVE  closed[i] = IF i = 1 THEN s[i] ELSE closed[i - 1] \o s[i]
      <4> HIDE DEF closed
      <4>1. closed = [i \in 1..n |-> closed[i]]
        BY DEF closed
      <4>2. QED
        BY <4>1
    <3>2. CASE i = 1
      BY <2>2, <3>2
    <3>3. CASE i # 1
      <4>1. i - 1 \in 1..n
        BY <3>3
      <4>2. QED
        BY <2>1, <3>3, <4>1
    <3>4. QED
      BY <3>2, <3>3
  <2>4. flat = [i \in 1..n |-> IF i = 1 THEN s[i] ELSE flat[i - 1] \o s[i]]
    <3> HIDE DEF closed
    <3>1. QED
      BY <2>3, Zenon DEF flat
  <2>5. FlattenSeq(s) = flat[n]
    BY <1>1, <1>3 DEF FlattenSeq
  <2> HIDE DEF flat, closed
  <2>6. T = {}
    <3>1. SUFFICES ASSUME T # {} PROVE FALSE
      OBVIOUS
    <3>2. PICK i \in T : \A l \in T : i =< l
      <4>1. T \subseteq Nat
        OBVIOUS
      <4> HIDE DEF T
      <4>2. QED
        BY <3>1, <4>1, LeastNumber
    <3>3. i # 1
      BY <2>2, <2>4, <3>2
    <3>4. i - 1 \in 1..n /\ ~(i =< i - 1)
      BY <3>2, <3>3
    <3>5. flat[i - 1] = Cells(s, i - 1)
      BY <3>2, <3>4
    <3>6. flat[i] = flat[i - 1] \o s[i]
      BY <2>4, <3>2, <3>3
    <3>7. QED
      BY <2>1, <3>2, <3>3, <3>5, <3>6
  <2>7. n \in 1..n
    BY <1>3
  <2>8. QED
    BY <2>5, <2>6, <2>7
<1>4. QED
  BY <1>2, <1>3

\* The blocks that positions off .. off + n - 1 lie in are counted right, also when
\* the first block has more left than n.
LEMMA CountCovers ==
    ASSUME NEW off \in Nat, NEW n \in Nat \ {0}
    PROVE  /\ BlockCount(off, n) \in Nat \ {0}
           /\ BlockSize * (BlockCount(off, n) - 1) < (off % BlockSize) + n
           /\ (off % BlockSize) + n =< BlockSize * BlockCount(off, n)
<1> DEFINE start == off \div BlockSize
           skip == off % BlockSize
           x == IF skip > 0 THEN n - (BlockSize - skip) ELSE n
           one == IF skip > 0 THEN 1 ELSE 0
           q == x \div BlockSize
           r == x % BlockSize
           tail == IF (off + n) % BlockSize > 0 THEN 1 ELSE 0
           c == BlockCount(off, n)
<1> USE ConstantTypes
<1>1. start \in Int /\ skip \in 0..BlockSize - 1 /\ off = BlockSize * start + skip
  BY Division
<1>2. c = one + q + tail
  <2>1. n - (IF skip > 0 THEN BlockSize - skip ELSE 0) = x
    BY <1>1
  <2>2. QED
    BY <2>1 DEF BlockCount
<1>3. c \in Nat
  BY CountIsNat
<1> HIDE DEF start, skip
<1>4. x \in Int /\ x = n + skip - BlockSize * one /\ one \in {0, 1}
  BY <1>1
<1> HIDE DEF x
<1>5. q \in Int /\ r \in 0..BlockSize - 1 /\ x = BlockSize * q + r
  BY <1>4, Division
<1> HIDE DEF q, r, one
<1>6. (off + n) % BlockSize = r
  <2> DEFINE y == off + n
             p == start + one + q
  <2>1. y = BlockSize * start + BlockSize * one + BlockSize * q + r
    BY <1>1, <1>4, <1>5
  <2>2. BlockSize * p = BlockSize * start + BlockSize * one + BlockSize * q
    BY <1>1, <1>4, <1>5
  <2>3. y \in Int /\ p \in Int /\ y = BlockSize * p + r
    BY <1>1, <1>4, <1>5, <2>1, <2>2
  <2> HIDE DEF y, p
  <2>4. y % BlockSize = r
    BY <1>5, <2>3, DivisionUnique
  <2>5. QED
    BY <2>4 DEF y
<1>7. tail = IF r > 0 THEN 1 ELSE 0
  BY <1>6
<1> HIDE DEF tail, c
<1>8. skip + n = BlockSize * one + BlockSize * q + r
  BY <1>1, <1>4, <1>5
<1>9. CASE r > 0
  <2>1. BlockSize * c = BlockSize * one + BlockSize * q + BlockSize
    BY <1>2, <1>4, <1>5, <1>7, <1>9
  <2>2. BlockSize * (c - 1) = BlockSize * c - BlockSize
    BY <1>3
  <2>3. BlockSize * (c - 1) < skip + n /\ skip + n =< BlockSize * c
    BY <1>1, <1>3, <1>4, <1>5, <1>8, <1>9, <2>1, <2>2
  <2>4. c # 0
    BY <1>1, <2>3
  <2>5. QED
    BY <1>3, <2>3, <2>4 DEF c, skip
<1>10. CASE r = 0
  <2>1. BlockSize * c = BlockSize * one + BlockSize * q
    BY <1>2, <1>4, <1>5, <1>7, <1>10
  <2>2. BlockSize * (c - 1) = BlockSize * c - BlockSize
    BY <1>3
  <2>3. BlockSize * (c - 1) < skip + n /\ skip + n =< BlockSize * c
    BY <1>1, <1>3, <1>4, <1>5, <1>8, <1>10, <2>1, <2>2
  <2>4. c # 0
    BY <1>1, <2>3
  <2>5. QED
    BY <1>3, <2>3, <2>4 DEF c, skip
<1>11. QED
  BY <1>5, <1>9, <1>10

\* What is at position pos of the file of inode i.
Cell(m, i, pos) == block_read(m.disk, get_block_index(m, i, pos \div BlockSize))[(pos % BlockSize) + 1]

\* What is in the len positions of the file from off on.
FileCells(m, i, off, len) == [k \in 1..len |-> Cell(m, i, off + k - 1)]

LEMMA MinOfTwo ==
    ASSUME NEW a \in Int, NEW b \in Int
    PROVE  Min({a, b}) = IF a =< b THEN a ELSE b
<1>1. CASE a =< b
  BY <1>1 DEF Min
<1>2. CASE ~(a =< b)
  BY <1>2 DEF Min
<1>3. QED
  BY <1>1, <1>2

LEMMA ReadCells ==
    ASSUME NEW m, DiskOK(m.disk), NEW i, NEW off \in Nat, NEW n \in Nat \ {0},
           m.inode[i].size \in Nat, off < m.inode[i].size
    PROVE  sfs_read(m, i, off, n) = FileCells(m, i, off, Min({n, m.inode[i].size - off}))
<1> DEFINE len == Min({n, m.inode[i].size - off})
           start == off \div BlockSize
           skip == off % BlockSize
           count == BlockCount(off, len)
           s == [j \in 1..count |-> block_read(m.disk, get_block_index(m, i, start + j - 1))]
<1> USE ConstantTypes
<1>1. len \in Nat \ {0}
  <2> DEFINE a == m.inode[i].size - off
  <2>1. a \in Nat \ {0}
    OBVIOUS
  <2> HIDE DEF a
  <2>2. Min({n, a}) \in Nat \ {0}
    BY <2>1, MinOfTwo
  <2>3. QED
    BY <2>2 DEF a
<1>2. sfs_read(m, i, off, n) = SubSeq(FlattenSeq(s), skip + 1, skip + len)
  <2>1. ~(off >= m.inode[i].size)
    OBVIOUS
  <2>2. QED
    BY <2>1, Zenon DEF sfs_read
<1>3. start \in Int /\ skip \in 0..BlockSize - 1 /\ off = BlockSize * start + skip
  BY Division
<1> HIDE DEF len
<1>4. count \in Nat /\ skip + len =< BlockSize * count
  BY <1>1, CountCovers
<1> HIDE DEF count, skip, start
<1>5. FlattenSeq(s) = Cells(s, count)
  <2>1. \A j \in 1..count : IsBlock(s[j])
    BY ReadBlock
  <2>2. s = [j \in 1..count |-> s[j]]
    OBVIOUS
  <2> HIDE DEF s
  <2>3. QED
    BY <1>4, <2>1, <2>2, FlattenBlocks
<1>6. ASSUME NEW k \in 1..len
      PROVE  CellOf(s, skip + k) = Cell(m, i, off + k - 1)
  <2> DEFINE y == skip + k - 1
             q == y \div BlockSize
             t == y % BlockSize
             pos == off + k - 1
             p == start + q
  <2>1. y \in Nat /\ y < BlockSize * count
    BY <1>1, <1>3, <1>4
  <2>2. q \in Int /\ t \in 0..BlockSize - 1 /\ y = BlockSize * q + t
    <3>1. y \in Int
      BY <2>1
    <3> HIDE DEF y
    <3>2. QED
      BY <3>1, Division
  <2>3. pos \in Int /\ pos = BlockSize * start + y
    BY <1>1, <1>3
  <2>4. skip + k - 1 = y
    OBVIOUS
  <2> HIDE DEF y, q, t, pos
  <2>5. q \in 0..count - 1
    <3>1. ASSUME q < 0 PROVE FALSE
      <4>1. BlockSize * q =< BlockSize * (-1)
        BY <2>2, <3>1
      <4>2. QED
        BY <2>1, <2>2, <4>1
    <3>2. ASSUME q >= count PROVE FALSE
      <4>1. BlockSize * count =< BlockSize * q
        <5>1. q - count \in Nat
          BY <1>4, <2>2, <3>2
        <5>2. BlockSize * (q - count) \in Nat
          BY <5>1
        <5>3. BlockSize * (q - count) = BlockSize * q - BlockSize * count
          BY <1>4, <2>2
        <5>4. QED
          BY <1>4, <2>2, <5>2, <5>3
      <4>2. QED
        BY <1>4, <2>1, <2>2, <4>1
    <3>3. QED
      BY <1>4, <2>2, <3>1, <3>2
  <2>6. BlockSize * p = BlockSize * start + BlockSize * q
    BY <1>3, <2>2
  <2>7. p \in Int /\ pos = BlockSize * p + t
    BY <1>3, <2>2, <2>3, <2>6
  <2> HIDE DEF p
  <2>8. pos \div BlockSize = p /\ pos % BlockSize = t
    <3>1. BlockSize \in Nat \ {0}
      OBVIOUS
    <3>2. p \in Int /\ t \in 0..BlockSize - 1 /\ pos \in Int /\ pos = BlockSize * p + t
      BY <2>2, <2>3, <2>7
    <3> HIDE ConstantTypes
    <3>3. QED
      BY <3>1, <3>2, DivisionUnique
  <2>9. CellOf(s, skip + k) = s[q + 1][t + 1]
    <3>1. (skip + k) - 1 = y
      BY <1>1, <1>3, <2>4
    <3>2. QED
      BY <3>1, Zenon DEF CellOf, q, t
  <2>10. s[q + 1] = block_read(m.disk, get_block_index(m, i, p))
    <3>1. q + 1 \in 1..count /\ start + (q + 1) - 1 = p
      BY <1>3, <1>4, <2>5 DEF p
    <3>2. QED
      BY <3>1
  <2> HIDE DEF s
  <2>11. Cell(m, i, pos) = block_read(m.disk, get_block_index(m, i, p))[t + 1]
    BY <2>8, Zenon DEF Cell
  <2>12. QED
    BY <2>9, <2>10, <2>11, Zenon DEF pos
<1> HIDE DEF s
<1>7. Cells(s, count) = [k \in 1 .. BlockSize * count |-> CellOf(s, k)]
  <2>1. count * BlockSize = BlockSize * count
    BY <1>4
  <2>2. QED
    BY <2>1, Zenon DEF Cells
<1>8. SubSeq(Cells(s, count), skip + 1, skip + len) = [k \in 1..len |-> CellOf(s, skip + k)]
  <2> DEFINE N == BlockSize * count
             f == [k \in 1..N |-> CellOf(s, k)]
  <2>1. N \in Nat /\ skip + len =< N
    BY <1>4
  <2> HIDE DEF N
  <2>2. f = [k \in 1..N |-> f[k]]
    OBVIOUS
  <2>3. \A k \in 1..len : skip + k \in 1..N
    BY <1>1, <1>3, <2>1
  <2>4. \A k \in 1..len : f[skip + k] = CellOf(s, skip + k)
    BY <2>3
  <2> HIDE DEF f
  <2>5. SubSeq(f, skip + 1, skip + len) = [k \in 1..len |-> f[skip + k]]
    <3>1. N \in Nat /\ f = [k \in 1..N |-> f[k]] /\ skip \in Nat /\ len \in Nat /\ skip + len =< N
      BY <1>1, <1>3, <2>1, <2>2
    <3> HIDE ConstantTypes
    <3>2. QED
      BY ONLY <3>1, Slice, SMT
  <2>6. QED
    BY <1>7, <2>4, <2>5, Zenon DEF N, f
<1>9. QED
  BY <1>2, <1>5, <1>6, <1>8 DEF len, FileCells

-----------------------------------------------------------------------------
\* A read returns what the view holds.

\* What there is to read is in the inodes, the names and the disk.
LEMMA SameContents ==
    ASSUME NEW m, NEW r, r.inode = m.inode, r.names = m.names, r.disk = m.disk
    PROVE  Contents(r) = Contents(m)
<1>1. \A b, k : Entry(r, b, k) = Entry(m, b, k)
  BY Zenon DEF Entry
<1>2. ASSUME NEW i, NEW n PROVE get_block_index(r, i, n) = get_block_index(m, i, n)
  BY <1>1, SMT DEF get_block_index
<1>3. \A i, off, n : sfs_read(r, i, off, n) = sfs_read(m, i, off, n)
  <2>1. SUFFICES ASSUME NEW i, NEW off, NEW n
                 PROVE  sfs_read(r, i, off, n) = sfs_read(m, i, off, n)
    OBVIOUS
  <2> DEFINE J == 1 .. BlockCount(off, Min({n, m.inode[i].size - off}))
             start == off \div BlockSize
  <2>2. [j \in J |-> block_read(r.disk, get_block_index(r, i, start + j - 1))]
        = [j \in J |-> block_read(m.disk, get_block_index(m, i, start + j - 1))]
    BY <1>2, Zenon
  <2>3. QED
    BY <2>2, Zenon DEF sfs_read
<1>4. \A p : path_lookup(r, p) = path_lookup(m, p)
  BY Zenon DEF path_lookup
<1>5. \A p : InodeOf(r, p) = InodeOf(m, p) /\ (Named(r, p) <=> Named(m, p))
  BY <1>4, Zenon DEF InodeOf, Named
<1>6. {p \in Files : Named(r, p)} = {p \in Files : Named(m, p)}
  BY <1>5
<1>7. \A p : sfs_read(r, InodeOf(r, p), 0, r.inode[InodeOf(r, p)].size)
             = sfs_read(m, InodeOf(m, p), 0, m.inode[InodeOf(m, p)].size)
  <2>1. \A p : InodeOf(r, p) = InodeOf(m, p)
    BY <1>5
  <2>2. \A p : sfs_read(r, InodeOf(m, p), 0, m.inode[InodeOf(m, p)].size)
              = sfs_read(m, InodeOf(m, p), 0, m.inode[InodeOf(m, p)].size)
    BY <1>3
  <2>3. QED
    BY <2>1, <2>2, Zenon
<1>8. QED
  BY <1>6, <1>7, Zenon DEF Contents

\* What is recorded of the contents is what there is to read.
ViewInv == mounted => view = Contents(Now)

LEMMA BecomeView ==
    ASSUME NEW m, Become(m)
    PROVE  view' = Contents(Now')
<1>1. Hold(m) /\ view' = Contents(m)
  BY DEF Become
<1>2. Now'.inode = m.inode /\ Now'.names = m.names /\ Now'.disk = m.disk
  BY <1>1 DEF Hold, Now, Memory, Tables
<1>3. QED
  BY <1>1, <1>2, SameContents

LEMMA ViewStep ==
    ASSUME ViewInv, [Next]_vars
    PROVE  ViewInv'
<1>1. ASSUME \E m : Become(m) PROVE ViewInv'
  BY <1>1, BecomeView DEF ViewInv
<1>2. ASSUME NEW p \in Files, sfs_create(p) PROVE ViewInv'
  BY <1>1, <1>2 DEF sfs_create
<1>3. ASSUME NEW p \in Dirs, sfs_mkdir(p) PROVE ViewInv'
  BY <1>1, <1>3 DEF sfs_mkdir
<1>4. ASSUME NEW p, sfs_open(p) PROVE ViewInv'
  BY <1>1, <1>4 DEF sfs_open
<1>5. ASSUME NEW p, sfs_unlink(p) \/ sfs_rmdir(p) PROVE ViewInv'
  <2>1. remove(p)
    BY <1>5 DEF sfs_unlink, sfs_rmdir
  <2>2. QED
    BY <1>1, <2>1 DEF remove
<1>6. ASSUME NEW fh, sfs_release(fh) PROVE ViewInv'
  BY <1>1, <1>6 DEF sfs_release
<1>7. ASSUME NEW fh, NEW off, NEW n, write(fh, off, n) PROVE ViewInv'
  BY <1>1, <1>7 DEF write
<1>8. ASSUME NEW fh, NEW n, sfs_write(fh, n) PROVE ViewInv'
  BY <1>7, <1>8 DEF sfs_write
<1>9. ASSUME NEW fh, NEW n, NEW off, sfs_write_careless(fh, n, off) PROVE ViewInv'
  BY <1>1, <1>7, <1>9 DEF sfs_write_careless
<1>10. ASSUME sfs_init PROVE ViewInv'
  BY <1>1, <1>10 DEF sfs_init
<1>11. ASSUME sfs_destroy \/ Crash PROVE ViewInv'
  BY <1>11 DEF sfs_destroy, Crash, Gone, ViewInv
<1>12. ASSUME UNCHANGED vars PROVE ViewInv'
  <2>1. /\ Now'.inode = Now.inode /\ Now'.names = Now.names /\ Now'.disk = Now.disk
        /\ mounted' = mounted /\ view' = view
    BY <1>12 DEF vars, Now, Memory, Tables
  <2>2. PICK now, next : now = Now /\ next = Now'
    OBVIOUS
  <2>3. Contents(next) = Contents(now)
    BY <2>1, <2>2, SameContents
  <2>4. QED
    BY <2>1, <2>2, <2>3 DEF ViewInv
<1>13. QED
  BY <1>2, <1>3, <1>4, <1>5, <1>6, <1>8, <1>9, <1>10, <1>11, <1>12 DEF Next

LEMMA ViewInvariant == Spec => []ViewInv
<1>1. Init => ViewInv
  BY DEF Init, ViewInv
<1>2. ViewInv /\ [Next]_vars => ViewInv'
  BY ViewStep
<1>3. QED
  BY <1>1, <1>2, PTL DEF Spec

\* What is read from position off of a file is that part of all there is to read.
ReadsPart(m, i, off, n, size) ==
    sfs_read(m, i, off, n) = SubSeq(sfs_read(m, i, 0, size), off + 1, Min({off + n, size}))

LEMMA ReadPart ==
    ASSUME NEW m, DiskOK(m.disk), NEW i, NEW size \in Nat, m.inode[i].size = size,
           NEW off \in 0 .. size - 1, NEW n \in Nat \ {0}
    PROVE  ReadsPart(m, i, off, n, size)
<1> DEFINE all == sfs_read(m, i, 0, size)
           len == Min({n, size - off})
<1>1. all = [k \in 1..size |-> Cell(m, i, k - 1)]
  <2>1. 0 \in Nat /\ size \in Nat \ {0} /\ 0 < size /\ size - 0 = size
    OBVIOUS
  <2>2. sfs_read(m, i, 0, size) = FileCells(m, i, 0, Min({size, size - 0}))
    <3>1. /\ DiskOK(m.disk) /\ 0 \in Nat /\ size \in Nat \ {0} /\ m.inode[i].size \in Nat
          /\ 0 < m.inode[i].size /\ m.inode[i].size = size
      BY <2>1
    <3>2. sfs_read(m, i, 0, size) = FileCells(m, i, 0, Min({size, m.inode[i].size - 0}))
      BY ONLY <3>1, ReadCells, Zenon
    <3>3. QED
      BY <3>1, <3>2, Zenon
  <2>3. Min({size, size - 0}) = size
    BY <2>1, MinOfTwo
  <2>4. \A k \in 1..size : 0 + k - 1 = k - 1
    OBVIOUS
  <2>5. QED
    BY <2>2, <2>3, <2>4 DEF FileCells
<1>2. sfs_read(m, i, off, n) = [k \in 1..len |-> Cell(m, i, off + k - 1)]
  <2>1. /\ DiskOK(m.disk) /\ off \in Nat /\ n \in Nat \ {0} /\ m.inode[i].size \in Nat
        /\ off < m.inode[i].size
    OBVIOUS
  <2>2. sfs_read(m, i, off, n) = FileCells(m, i, off, Min({n, m.inode[i].size - off}))
    BY ONLY <2>1, ReadCells, Zenon
  <2>3. QED
    BY <2>2, Zenon DEF FileCells
<1>3. len \in Nat /\ off + len =< size /\ off \in Nat /\ Min({off + n, size}) = off + len
  <2>1. size - off \in Int /\ off + n \in Int /\ size \in Int /\ n \in Int
    OBVIOUS
  <2>2. len = IF n =< size - off THEN n ELSE size - off
    BY <2>1, MinOfTwo
  <2>3. Min({off + n, size}) = IF off + n =< size THEN off + n ELSE size
    BY <2>1, MinOfTwo
  <2> HIDE DEF len
  <2>4. QED
    BY <2>2, <2>3
<1> HIDE DEF len, all
<1>4. all = [k \in 1..size |-> all[k]]
  BY <1>1
<1>5. SubSeq(all, off + 1, off + len) = [k \in 1..len |-> all[off + k]]
  <2>1. size \in Nat /\ all = [k \in 1..size |-> all[k]] /\ off \in Nat /\ len \in Nat /\ off + len =< size
    BY <1>3, <1>4
  <2>2. QED
    BY ONLY <2>1, Slice, SMTT(30)
<1>6. \A k \in 1..len : all[off + k] = Cell(m, i, off + k - 1)
  <2>1. \A k \in 1..len : off + k \in 1..size /\ (off + k) - 1 = off + k - 1
    BY <1>3
  <2>2. QED
    BY <1>1, <2>1
<1>7. QED
  BY <1>2, <1>3, <1>5, <1>6 DEF all, ReadsPart

\* A read from any position of any file returns the part of the file that is there.
THEOREM ReadsAreExactHolds == Spec => []ReadsAreExact
<1>1. SfsInv /\ ViewInv => ReadsAreExact
  <2>1. SUFFICES ASSUME SfsInv, ViewInv, mounted, NEW p \in DOMAIN view,
                        NEW off \in 0 .. Len(view[p]) - 1, NEW n \in {3, BlockSize + 1}
                 PROVE  sfs_read(Now, InodeOf(Now, p), off, n)
                            = SubSeq(view[p], off + 1, Min({off + n, Len(view[p])}))
    BY DEF ReadsAreExact
  <2> DEFINE i == InodeOf(Now, p)
             size == Now.inode[i].size
  <2>2. view = Contents(Now)
    BY <2>1 DEF ViewInv
  <2>3. p \in Files /\ Named(Now, p) /\ view[p] = sfs_read(Now, i, 0, size)
    BY <2>1, <2>2 DEF Contents
  <2>4. size \in Nat
    <3>1. NamesOK(Now) /\ MemoryOK(Now) /\ p \in Paths \cup {Root}
      BY <2>1, <2>3 DEF SfsInv, NameInv, Paths
    <3>2. /\ path_lookup(Now, p) \in Inodes /\ Taken(Now, path_lookup(Now, p))
          /\ Now.names[path_lookup(Now, p)].path = p
      BY <2>3, <3>1, LookupFinds
    <3>3. i \in Inodes /\ ~ Now.inode[i].dir
      BY <2>3, <3>1, <3>2 DEF NamesOK, InodeOf
    <3>4. QED
      BY <3>1, <3>3 DEF MemoryOK, TablesOK, InodeOK
  <2>5. DiskOK(Now.disk)
    BY <2>1 DEF SfsInv, MemoryOK
  <2> HIDE DEF i
  <2>6. PICK m : m = Now
    OBVIOUS
  <2>7. Len(view[p]) = size
    <3>1. CASE size = 0
      <4>1. sfs_read(m, i, 0, size) = <<>>
        <5>1. 0 >= m.inode[i].size
          BY <2>6, <3>1
        <5>2. QED
          BY <5>1, Zenon DEF sfs_read
      <4>2. QED
        BY <2>3, <2>6, <3>1, <4>1
    <3>2. CASE size # 0
      <4>1. /\ 0 \in Nat /\ size \in Nat \ {0} /\ m.inode[i].size = size
              /\ m.inode[i].size \in Nat /\ 0 < m.inode[i].size /\ DiskOK(m.disk)
        BY <2>4, <2>5, <2>6, <3>2
      <4> HIDE DEF size
      <4>2. sfs_read(m, i, 0, size) = FileCells(m, i, 0, Min({size, m.inode[i].size - 0}))
        BY ONLY <4>1, ReadCells, Zenon
      <4>3. Min({size, m.inode[i].size - 0}) = size
        BY <4>1, MinOfTwo
      <4>4. QED
        BY <2>3, <2>6, <4>1, <4>2, <4>3 DEF FileCells
    <3>3. QED
      BY <3>1, <3>2
  <2>8. off \in 0 .. size - 1 /\ n \in Nat \ {0}
    BY <2>1, <2>7, ConstantTypes
  <2>9. m.inode[i].size = size /\ DiskOK(m.disk)
    BY <2>5, <2>6
  <2> HIDE DEF size
  <2>10. sfs_read(m, i, off, n) = SubSeq(sfs_read(m, i, 0, size), off + 1, Min({off + n, size}))
    <3>1. /\ DiskOK(m.disk) /\ size \in Nat /\ m.inode[i].size = size /\ off \in 0 .. size - 1
          /\ n \in Nat \ {0}
      BY <2>4, <2>8, <2>9
    <3>2. ReadsPart(m, i, off, n, size)
      BY ONLY <3>1, ReadPart, Zenon
    <3>3. QED
      BY <3>2, Zenon DEF ReadsPart
  <2>11. QED
    BY <2>3, <2>6, <2>7, <2>10 DEF i
<1>2. QED
  BY <1>1, SfsInvariant, ViewInvariant, PTL

-----------------------------------------------------------------------------
\* Where cells and numbers of blocks come from.

\* A cell that is not the key and does not read as the number of a block kept for the tables.
Harmless(c) == c # <<"key">> /\ AsShort(c) \notin SystemBlock .. NumBlocks - 1

\* Cells and blocks that hold such cells or cells of disk d.
From(d, c) == Harmless(c) \/ \E b \in Blocks, k \in 1..BlockSize : c = d[b][k]
BlockFrom(d, c) == \A k \in 1..BlockSize : From(d, c[k])
DiskFrom(d, e) == \A b \in Blocks : BlockFrom(d, e[b])

\* From m to r nothing comes from the blocks kept for the tables, and the only thing that may
\* have gone wrong is that a buffer was too small.
Below == -1 .. SystemBlock - 1
SlotsFrom(m, r) ==
    \A i \in Inodes, n \in 0 .. NumDirect + 1 :
        r.inode[i].blocks[n] \in Below \/ r.inode[i].blocks[n] = m.inode[i].blocks[n]
Follows(m, r) == r.ub \in {m.ub, "buffer overrun"} /\ DiskFrom(m.disk, r.disk) /\ SlotsFrom(m, r)

\* From m to r blocks are marked for inode i and no other inode changes; and all is well if
\* none of the blocks is one of those kept for the tables.
Marks(m, r) == \A b \in Blocks : m.map[b] => r.map[b]
Others(m, r, i) == \A j \in Inodes \ {i} : r.inode[j] = m.inode[j]
Tends(m, r, i) == Marks(m, r) /\ Others(m, r, i) /\ (Fits(r) => Follows(m, r))

\* The same, if index is none of them.
TendsIf(m, r, i, index) ==
    Marks(m, r) /\ Others(m, r, i) /\ (Fits(r) /\ index \in Below => Follows(m, r))

LEMMA Spaces ==
    /\ SystemBlock \in Nat \ {0} /\ SystemBlock =< NumBlocks - 1
    /\ \A b : b \in SystemBlock .. NumBlocks - 1 => b \in Blocks /\ b \notin Below
    /\ SystemBlock \in Blocks
    /\ -1 \in Below /\ 0 \in Below /\ NumBlocks \notin SystemBlock .. NumBlocks - 1
    /\ \A b \in Blocks : b \in Below \/ b \in SystemBlock .. NumBlocks - 1
    /\ \A b \in Below : b \notin SystemBlock .. NumBlocks - 1
<1>1. Reserve \in Nat \ {0} /\ Reserve < NumBlocks /\ NumBlocks \in Nat \ {0}
  BY SfsAssumption, ConstantTypes
<1>2. QED
  BY <1>1 DEF SystemBlock, Below, Blocks

LEMMA HarmlessCells ==
    /\ Harmless(Nul) /\ Harmless(Garbage)
    /\ \A s : Harmless(Token(s))
    /\ \A p, k : Harmless(Byte(p, k))
    /\ \A x \in Below : Harmless(Short(x))
<1>1. Nul # <<"key">> /\ Garbage # <<"key">>
  BY DEF Nul, Garbage
<1>2. \A s, p, k : Token(s) # <<"key">> /\ Short(s) # <<"key">> /\ Byte(p, k) # <<"key">>
  BY DEF Token, Short, Byte
<1>3. AsShort(Nul) = 0 /\ AsShort(Garbage) = -1 /\ \A x : AsShort(Short(x)) = x
  BY DEF AsShort, Nul, Garbage, Short
<1>4. \A s, p, k : AsShort(Token(s)) = NumBlocks /\ AsShort(Byte(p, k)) = NumBlocks
  BY DEF AsShort, Nul, Garbage, Token, Byte
<1>5. QED
  BY <1>1, <1>2, <1>3, <1>4, Spaces DEF Harmless

LEMMA FollowsTwice ==
    ASSUME NEW m, NEW r, NEW s, Follows(m, r), Follows(r, s)
    PROVE  Follows(m, s)
<1>1. s.ub \in {m.ub, "buffer overrun"} /\ SlotsFrom(m, s)
  BY DEF Follows, SlotsFrom
<1>2. DiskFrom(m.disk, s.disk)
  <2>1. SUFFICES ASSUME NEW b \in Blocks, NEW k \in 1..BlockSize PROVE From(m.disk, s.disk[b][k])
    BY DEF DiskFrom, BlockFrom
  <2>2. From(r.disk, s.disk[b][k])
    BY DEF Follows, DiskFrom, BlockFrom
  <2>3. \A x \in Blocks, y \in 1..BlockSize : From(m.disk, r.disk[x][y])
    BY DEF Follows, DiskFrom, BlockFrom
  <2>4. CASE Harmless(s.disk[b][k])
    BY <2>4 DEF From
  <2>5. CASE ~Harmless(s.disk[b][k])
    <3>1. PICK x \in Blocks, y \in 1..BlockSize : s.disk[b][k] = r.disk[x][y]
      BY <2>2, <2>5 DEF From
    <3>2. QED
      BY <2>3, <3>1
  <2>6. QED
    BY <2>4, <2>5
<1>3. QED
  BY <1>1, <1>2 DEF Follows

LEMMA DiskFromSelf ==
    ASSUME NEW d
    PROVE  DiskFrom(d, d)
  BY DEF DiskFrom, BlockFrom, From

LEMMA FollowsSame ==
    ASSUME NEW m, NEW r, r.disk = m.disk, r.ub = m.ub, SlotsFrom(m, r)
    PROVE  Follows(m, r)
  BY DiskFromSelf DEF Follows

LEMMA MarksFit ==
    ASSUME NEW m, NEW r, Marks(m, r), Fits(r)
    PROVE  Fits(m)
  BY Spaces DEF Marks, Fits

LEMMA TendsThen ==
    ASSUME NEW m, NEW r, NEW s, NEW i, NEW index, Tends(m, r, i), TendsIf(r, s, i, index)
    PROVE  TendsIf(m, s, i, index)
<1>1. Marks(m, s) /\ Others(m, s, i)
  BY DEF Tends, TendsIf, Marks, Others
<1>2. ASSUME Fits(s), index \in Below PROVE Follows(m, s)
  <2>1. Fits(r)
    BY <1>2, MarksFit DEF TendsIf
  <2>2. Follows(m, r) /\ Follows(r, s)
    BY <1>2, <2>1 DEF Tends, TendsIf
  <2>3. QED
    BY <2>2, FollowsTwice
<1>3. QED
  BY <1>1, <1>2 DEF TendsIf

LEMMA TendsTwice ==
    ASSUME NEW m, NEW r, NEW s, NEW i, Tends(m, r, i), Tends(r, s, i)
    PROVE  Tends(m, s, i)
<1>1. TendsIf(r, s, i, -1)
  BY DEF Tends, TendsIf
<1>2. TendsIf(m, s, i, -1)
  BY <1>1, TendsThen
<1>3. QED
  BY <1>2, Spaces DEF Tends, TendsIf

LEMMA TendsSelf ==
    ASSUME NEW m, NEW i
    PROVE  Tends(m, m, i)
<1>1. SlotsFrom(m, m)
  BY DEF SlotsFrom
<1>2. QED
  BY <1>1, FollowsSame DEF Tends, Marks, Others

LEMMA ReadFrom ==
    ASSUME NEW d, NEW b
    PROVE  BlockFrom(d, block_read(d, b))
<1>1. CASE b \in Blocks
  BY <1>1, DiskFromSelf DEF DiskFrom, block_read
<1>2. CASE b \notin Blocks
  BY <1>2, HarmlessCells DEF BlockFrom, From, block_read, Zero
<1>3. QED
  BY <1>1, <1>2

LEMMA UnsetFrom ==
    ASSUME NEW d, NEW c, BlockFrom(d, c), NEW n
    PROVE  BlockFrom(d, Unset(c, n))
<1>1. SUFFICES ASSUME NEW k \in 1..BlockSize PROVE From(d, Unset(c, n)[k])
  BY DEF BlockFrom
<1>2. Unset(c, n)[k] = Short(-1) \/ Unset(c, n)[k] = c[k]
  BY DEF Unset
<1>3. From(d, Short(-1))
  BY HarmlessCells, Spaces DEF From
<1>4. From(d, c[k])
  BY DEF BlockFrom
<1>5. QED
  BY <1>2, <1>3, <1>4

LEMMA EntryFrom ==
    ASSUME NEW d, NEW c, IsBlock(c), BlockFrom(d, c), NEW k, NEW x \in Below
    PROVE  BlockFrom(d, WithEntry(c, k, x))
<1>1. SUFFICES ASSUME NEW j \in 1..BlockSize PROVE From(d, WithEntry(c, k, x)[j])
  BY DEF BlockFrom
<1>2. WithEntry(c, k, x)[j] = Short(x) \/ WithEntry(c, k, x)[j] = c[j]
  BY DEF WithEntry, IsBlock
<1>3. From(d, Short(x))
  BY HarmlessCells DEF From
<1>4. From(d, c[j])
  BY DEF BlockFrom
<1>5. QED
  BY <1>2, <1>3, <1>4

LEMMA DiskWrittenFrom ==
    ASSUME NEW d0, NEW d, DiskOK(d), DiskFrom(d0, d), NEW c, BlockFrom(d0, c), NEW b
    PROVE  DiskFrom(d0, block_write(d, b, c))
<1>1. SUFFICES ASSUME NEW x \in Blocks PROVE BlockFrom(d0, block_write(d, b, c)[x])
  BY DEF DiskFrom
<1>2. block_write(d, b, c)[x] = c \/ block_write(d, b, c)[x] = d[x]
  BY DEF block_write, DiskOK
<1>3. BlockFrom(d0, d[x])
  BY DEF DiskFrom
<1>4. QED
  BY <1>2, <1>3

LEMMA GetBlockTends ==
    ASSUME NEW m, MemoryOK(m), NEW i
    PROVE  /\ Tends(m, get_block(m), i)
           /\ Fits(get_block(m)) => first_block(m) \in Below /\ first_block(m) # -1
<1> DEFINE new == first_block(m)
           r == get_block(m)
<1>1. /\ new # -1 => new \in Blocks /\ ~m.map[new] /\ r.map = [m.map EXCEPT ![new] = TRUE] /\ r.ub = m.ub
      /\ r.inode = m.inode /\ r.disk = m.disk
  BY GetBlockParts
<1>2. m.map = [b \in Blocks |-> m.map[b]]
  BY DEF MemoryOK, TablesOK
<1>3. SlotsFrom(m, r) /\ Others(m, r, i)
  BY <1>1 DEF SlotsFrom, Others
<1>4. CASE new = -1
  <2>1. \A b \in Blocks : m.map[b]
    BY <1>4, FirstFound DEF first_block, Blocks
  <2>2. r.map = m.map
    BY <1>4 DEF get_block, MemoryOK, TableNames
  <2>3. ~Fits(r)
    BY <2>1, <2>2, Spaces DEF Fits
  <2>4. QED
    BY <1>3, <2>2, <2>3 DEF Tends, Marks
<1>5. CASE new # -1
  <2> HIDE DEF new, r
  <2>1. Marks(m, r) /\ r.map[new] /\ new \in Blocks
    BY <1>1, <1>2, <1>5 DEF Marks
  <2>2. Fits(r) => new \in Below
    BY <2>1, Spaces DEF Fits
  <2>3. Follows(m, r)
    BY <1>1, <1>3, <1>5, FollowsSame
  <2>4. QED
    BY <1>3, <1>5, <2>1, <2>2, <2>3 DEF Tends, new, r
<1>6. QED
  BY <1>4, <1>5

LEMMA DiskTends ==
    ASSUME NEW m0, NEW m, NEW i, Tends(m0, m, i), DiskOK(m.disk), NEW b, NEW c, BlockFrom(m0.disk, c),
           NEW r, r.map = m.map, r.inode = m.inode, r.ub = m.ub, r.disk = block_write(m.disk, b, c)
    PROVE  Tends(m0, r, i)
<1>1. Marks(m0, r) /\ Others(m0, r, i) /\ (Fits(r) => Fits(m))
  BY DEF Tends, Marks, Others, Fits
<1>2. ASSUME Follows(m0, m) PROVE Follows(m0, r)
  <2>1. SlotsFrom(m0, r) /\ r.ub \in {m0.ub, "buffer overrun"}
    BY <1>2 DEF Follows, SlotsFrom
  <2>2. DiskFrom(m0.disk, r.disk)
    BY <1>2, DiskWrittenFrom DEF Follows
  <2>3. QED
    BY <2>1, <2>2 DEF Follows
<1>3. QED
  BY <1>1, <1>2 DEF Tends

\* An entry put in a table made of cells that were on the disk.
LEMMA PutEntryTends ==
    ASSUME NEW m0, NEW m, NEW i, Tends(m0, m, i), MemoryOK(m), NEW b, NEW c, IsBlock(c), BlockFrom(m0.disk, c),
           NEW k, NEW x, NEW r, r = put_entry(m, b, c, k, x)
    PROVE  TendsIf(m0, r, i, x)
<1>1. PutsEntry(m, r, b, c, k, x)
  BY PutEntryParts
<1>2. r.disk = block_write(m.disk, b, WithEntry(c, k, x)) /\ r.map = m.map /\ r.inode = m.inode /\ r.ub = m.ub
  BY <1>1 DEF PutsEntry, block_write
<1>3. Marks(m0, r) /\ Others(m0, r, i)
  BY <1>2 DEF Tends, Marks, Others
<1>4. ASSUME x \in Below PROVE Tends(m0, r, i)
  <2>1. BlockFrom(m0.disk, WithEntry(c, k, x))
    BY <1>4, EntryFrom
  <2>2. DiskOK(m.disk)
    BY DEF MemoryOK
  <2>3. QED
    BY <1>2, <2>1, <2>2, DiskTends
<1>5. QED
  BY <1>3, <1>4 DEF Tends, TendsIf

LEMMA SlotTends ==
    ASSUME NEW m, MemoryOK(m), NEW i \in Inodes, NEW n \in 0 .. NumDirect + 1, NEW b,
           NEW r, r.inode = [m.inode EXCEPT ![i].blocks[n] = b], r.map = m.map, r.disk = m.disk, r.ub = m.ub
    PROVE  TendsIf(m, r, i, b)
<1>1. Marks(m, r)
  BY DEF Marks
<1>2. Others(m, r, i)
  BY DEF Others, MemoryOK, TablesOK
<1>3. \A j \in Inodes, k \in 0 .. NumDirect + 1 :
        r.inode[j].blocks[k] = b \/ r.inode[j].blocks[k] = m.inode[j].blocks[k]
  <2>1. SUFFICES ASSUME NEW j \in Inodes, NEW k \in 0 .. NumDirect + 1
                 PROVE  r.inode[j].blocks[k] = b \/ r.inode[j].blocks[k] = m.inode[j].blocks[k]
    OBVIOUS
  <2>2. DOMAIN m.inode = Inodes /\ InodeOK(m.inode[i])
    BY DEF MemoryOK, TablesOK
  <2>3. r.inode[j] = IF j = i THEN [m.inode[i] EXCEPT !.blocks[n] = b] ELSE m.inode[j]
    BY <2>2
  <2>4. [m.inode[i] EXCEPT !.blocks[n] = b].blocks = [m.inode[i].blocks EXCEPT ![n] = b]
    BY <2>2 DEF InodeOK, Fields
  <2>5. QED
    BY <2>2, <2>3, <2>4 DEF InodeOK
<1>4. b \in Below => SlotsFrom(m, r)
  BY <1>3 DEF SlotsFrom
<1>5. b \in Below => Follows(m, r)
  BY <1>4, FollowsSame
<1>6. QED
  BY <1>1, <1>2, <1>5 DEF TendsIf

\* A new block put in an entry of an inode.
LEMMA SlotTaken ==
    ASSUME NEW m, MemoryOK(m), NEW i \in Inodes, NEW n \in 0 .. NumDirect + 1,
           NEW r, r = [get_block(m) EXCEPT !.inode[i].blocks[n] = first_block(m)]
    PROVE  /\ Tends(m, r, i) /\ MemoryOK(r) /\ r.disk = m.disk
           /\ Fits(r) => first_block(m) \in Below
<1> DEFINE g == get_block(m)
           new == first_block(m)
<1>1. MemoryOK(g) /\ Tends(m, g, i) /\ (Fits(g) => new \in Below) /\ g.disk = m.disk
  BY GetBlockKeeps, GetBlockTends, GetBlockParts DEF Keeps
<1>2. new \in Blocks \cup {-1}
  BY FirstBlock
<1> HIDE DEF g, new
<1>3. r = [g EXCEPT !.inode[i].blocks[n] = new]
  BY DEF g, new
<1>4. /\ r.inode = [g.inode EXCEPT ![i].blocks[n] = new]
      /\ r.map = g.map /\ r.disk = g.disk /\ r.ub = g.ub
  BY <1>1, <1>3 DEF MemoryOK, TableNames
<1>5. TendsIf(g, r, i, new)
  BY <1>1, <1>4, SlotTends
<1>6. TendsIf(m, r, i, new)
  BY <1>1, <1>5, TendsThen
<1>7. Fits(r) => new \in Below
  BY <1>1, <1>4 DEF Fits
<1>8. MemoryOK(r)
  <2>1. Keeps(g, [g EXCEPT !.inode[i].blocks[n] = new])
    BY <1>1, <1>2, BlocksKeep
  <2>2. QED
    BY <1>3, <2>1 DEF Keeps
<1>9. QED
  BY <1>1, <1>4, <1>6, <1>7, <1>8 DEF Tends, TendsIf, new

LEMMA SetSingleTends ==
    ASSUME NEW m, MemoryOK(m), NEW i \in Inodes, NEW n, NEW index
    PROVE  TendsIf(m, set_single(m, i, n, index), i, index)
<1> DEFINE old == m.inode[i].blocks[NumDirect]
           new == first_block(m)
           m1 == [get_block(m) EXCEPT !.inode[i].blocks[NumDirect] = new]
           c == Unset(block_read(m.disk, new), PerBlock)
           d == block_read(m.disk, old)
           k == InSingle(n)
           r1 == put_entry(m1, new, c, k, index)
           r2 == put_entry(m, old, d, k, index)
<1>1. set_single(m, i, n, index) = IF old < 0 THEN r1 ELSE r2
  BY DEF set_single
<1>2. IsBlock(c) /\ IsBlock(d) /\ BlockFrom(m.disk, c) /\ BlockFrom(m.disk, d)
  BY UnsetIsBlock, ReadBlock, ReadFrom, UnsetFrom DEF MemoryOK
<1>3. Tends(m, m1, i) /\ MemoryOK(m1)
  <2>1. NumDirect \in 0 .. NumDirect + 1
    BY ConstantTypes
  <2>2. QED
    BY <2>1, SlotTaken
<1> HIDE DEF m1, new, old, c, d, k
<1>4. TendsIf(m, r1, i, index)
  BY <1>2, <1>3, PutEntryTends
<1>5. TendsIf(m, r2, i, index)
  BY <1>2, TendsSelf, PutEntryTends
<1>6. QED
  BY <1>1, <1>4, <1>5

LEMMA WithOuterTends ==
    ASSUME NEW m, MemoryOK(m), NEW i \in Inodes
    PROVE  Tends(m, with_outer(m, i), i)
<1> DEFINE new == first_block(m)
           m1 == [get_block(m) EXCEPT !.inode[i].blocks[NumDirect + 1] = new]
           g == [k \in 1..BlockSize |-> Garbage]
           c == Unset(g, NumDouble)
           r == [get_block(m) EXCEPT !.inode[i].blocks[NumDirect + 1] = new, !.disk = block_write(@, new, c)]
<1>1. with_outer(m, i) = IF m.inode[i].blocks[NumDirect + 1] >= 0 THEN m ELSE r
  BY Zenon DEF with_outer
<1>2. Tends(m, m1, i) /\ MemoryOK(m1) /\ m1.disk = m.disk
  <2>1. NumDirect + 1 \in 0 .. NumDirect + 1
    BY ConstantTypes
  <2>2. QED
    BY <2>1, SlotTaken
<1>3. BlockFrom(m.disk, c)
  <2>1. BlockFrom(m.disk, g)
    BY HarmlessCells DEF BlockFrom, From
  <2> HIDE DEF g
  <2>2. QED
    BY <2>1, UnsetFrom
<1>4. r.map = m1.map /\ r.inode = m1.inode /\ r.ub = m1.ub /\ r.disk = block_write(m1.disk, new, c)
  <2>1. MemoryOK(get_block(m))
    BY GetBlockKeeps DEF Keeps
  <2> HIDE DEF new, c
  <2>2. QED
    BY <2>1 DEF MemoryOK, TableNames
<1> HIDE DEF r, m1, new, c
<1>5. DiskOK(m1.disk)
  BY <1>2 DEF MemoryOK
<1>6. Tends(m, r, i)
  BY <1>2, <1>3, <1>4, <1>5, DiskTends
<1>7. QED
  BY <1>1, <1>6, TendsSelf

LEMMA SetDoubleTends ==
    ASSUME NEW m0, MemoryOK(m0), NEW i \in Inodes, NEW n, NEW index
    PROVE  TendsIf(m0, set_double(m0, i, n, index), i, index)
<1> DEFINE m == with_outer(m0, i)
           outer == m.inode[i].blocks[NumDirect + 1]
           c == block_read(m.disk, outer)
           inner == AsShort(c[InOuter(n) + 1])
           d == block_read(m.disk, inner)
           u == Unset(c, PerBlock)
           new == first_block(m)
           m1 == get_block(m)
           m2 == put_entry(m1, outer, c, InOuter(n), new)
           r1 == put_entry(m2, new, u, InInner(n), index)
           r2 == put_entry(m, inner, d, InInner(n), index)
<1>1. set_double(m0, i, n, index) = IF inner < 0 THEN r1 ELSE r2
  BY DEF set_double
<1>2. MemoryOK(m) /\ Tends(m0, m, i)
  BY WithOuterKeeps, WithOuterTends DEF Keeps
<1> HIDE DEF m
<1>3. /\ IsBlock(c) /\ IsBlock(d) /\ IsBlock(u)
      /\ BlockFrom(m.disk, c) /\ BlockFrom(m.disk, d) /\ BlockFrom(m.disk, u)
  BY <1>2, UnsetIsBlock, ReadBlock, ReadFrom, UnsetFrom DEF MemoryOK
<1>4. MemoryOK(m1) /\ Tends(m, m1, i) /\ (Fits(m1) => new \in Below)
  BY <1>2, GetBlockKeeps, GetBlockTends DEF Keeps
<1> HIDE DEF m1, c, outer, inner, new, d, u
<1>5. Tends(m, m2, i) /\ MemoryOK(m2)
  <2>1. TendsIf(m, m2, i, new)
    BY <1>3, <1>4, PutEntryTends
  <2>2. Keeps(m1, m2)
    BY <1>3, <1>4, PutEntryKeeps
  <2>3. PutsEntry(m1, m2, outer, c, InOuter(n), new)
    BY <1>4, PutEntryParts
  <2>4. Fits(m2) => new \in Below
    BY <1>4, <2>3 DEF PutsEntry, Fits
  <2>5. QED
    BY <2>1, <2>2, <2>4 DEF Tends, TendsIf, Keeps
<1> HIDE DEF m2
<1>6. TendsIf(m, r1, i, index)
  BY <1>3, <1>5, PutEntryTends
<1>7. TendsIf(m, r2, i, index)
  BY <1>2, <1>3, TendsSelf, PutEntryTends
<1> HIDE DEF r1, r2
<1>8. TendsIf(m, set_double(m0, i, n, index), i, index)
  BY <1>1, <1>6, <1>7
<1>9. QED
  BY <1>2, <1>8, TendsThen

LEMMA SetBlockIndexTends ==
    ASSUME NEW m, MemoryOK(m), NEW i \in Inodes, NEW n \in Nat, NEW index
    PROVE  TendsIf(m, set_block_index(m, i, n, index), i, index)
<1> DEFINE r == set_block_index(m, i, n, index)
<1>1. CASE n < NumDirect
  <2>1. r = [m EXCEPT !.inode[i].blocks[n] = index]
    BY <1>1, ConstantTypes DEF set_block_index
  <2>2. /\ r.inode = [m.inode EXCEPT ![i].blocks[n] = index]
        /\ r.map = m.map /\ r.disk = m.disk /\ r.ub = m.ub
    BY <2>1 DEF MemoryOK, TableNames
  <2>3. n \in 0 .. NumDirect + 1
    BY <1>1, ConstantTypes
  <2> HIDE DEF r
  <2>4. TendsIf(m, r, i, index)
    BY <2>2, <2>3, SlotTends
  <2>5. QED
    BY <2>4 DEF r
<1>2. CASE n >= NumDirect /\ n < NumDirect + PerBlock
  <2>1. r = set_single(m, i, n, index)
    BY <1>2, ConstantTypes DEF set_block_index
  <2>2. QED
    BY <2>1, SetSingleTends
<1>3. CASE n >= NumDirect + PerBlock /\ n =< MaxFileBlocks
  <2>1. r = set_double(m, i, n, index)
    BY <1>3, ConstantTypes DEF set_block_index
  <2>2. QED
    BY <2>1, SetDoubleTends
<1>4. CASE n > MaxFileBlocks
  <2>1. r = m
    BY <1>4, ConstantTypes DEF set_block_index
  <2>2. QED
    BY <2>1, TendsSelf DEF Tends, TendsIf
<1>5. QED
  BY <1>1, <1>2, <1>3, <1>4, ConstantTypes

LEMMA LengthenedTends ==
    ASSUME NEW m, MemoryOK(m), NEW i \in Inodes, NEW n \in Nat
    PROVE  Tends(m, Lengthened(m, i, n), i)
<1> DEFINE g == get_block(m)
           new == first_block(m)
           r == set_block_index(g, i, n, new)
<1>1. MemoryOK(g) /\ Tends(m, g, i) /\ (Fits(g) => new \in Below)
  BY GetBlockKeeps, GetBlockTends DEF Keeps
<1> HIDE DEF g, new
<1>2. TendsIf(g, r, i, new)
  BY <1>1, SetBlockIndexTends
<1> HIDE DEF r
<1>3. TendsIf(m, r, i, new)
  BY <1>1, <1>2, TendsThen
<1>4. Fits(r) => new \in Below
  BY <1>1, <1>2, MarksFit DEF TendsIf
<1>5. Tends(m, r, i)
  BY <1>3, <1>4 DEF Tends, TendsIf
<1>6. QED
  BY <1>5 DEF r, g, new, Lengthened

-----------------------------------------------------------------------------
\* What growing and shrinking directories and files leaves.

LEMMA EntryCellsFrom ==
    ASSUME NEW d, NEW c, BlockFrom(d, c), NEW name, NEW i, NEW s, HasCells(s, EntryCells(c, name, i))
    PROVE  BlockFrom(d, s)
<1>1. \A x \in EntryCells(c, name, i) : From(d, x)
  BY HarmlessCells DEF EntryCells, BlockFrom, From
<1>2. QED
  BY <1>1 DEF HasCells, BlockFrom

LEMMA RestCellsFrom ==
    ASSUME NEW d, NEW c, BlockFrom(d, c), NEW s, HasCells(s, {c[k] : k \in 1..BlockSize} \cup {Nul})
    PROVE  BlockFrom(d, s)
<1>1. \A x \in {c[k] : k \in 1..BlockSize} \cup {Nul} : From(d, x)
  BY HarmlessCells DEF BlockFrom, From
<1>2. QED
  BY <1>1 DEF HasCells, BlockFrom

\* The counts in an inode say nothing about blocks.
SameButCounts(m, r, i) ==
    /\ r.map = m.map /\ r.disk = m.disk /\ r.ub = m.ub
    /\ \A j \in Inodes \ {i} : r.inode[j] = m.inode[j]
    /\ \A j \in Inodes : r.inode[j].blocks = m.inode[j].blocks

LEMMA CountsTend ==
    ASSUME NEW m0, NEW m, NEW i, Tends(m0, m, i), NEW r, SameButCounts(m, r, i)
    PROVE  Tends(m0, r, i)
  BY DEF Tends, SameButCounts, Marks, Others, Fits, Follows, SlotsFrom

LEMMA DirCounts ==
    ASSUME NEW m, MemoryOK(m), NEW i, NEW s, NEW n,
           NEW r, r = [m EXCEPT !.inode[i].size = s, !.inode[i].nlink = n]
    PROVE  SameButCounts(m, r, i)
<1>1. r.map = m.map /\ r.disk = m.disk /\ r.ub = m.ub
  BY DEF MemoryOK, TableNames
<1>2. r.inode = [j \in Inodes |-> IF j = i THEN [m.inode[i] EXCEPT !.size = s, !.nlink = n] ELSE m.inode[j]]
  BY DEF MemoryOK, TablesOK, TableNames
<1>3. i \in Inodes => [m.inode[i] EXCEPT !.size = s, !.nlink = n].blocks = m.inode[i].blocks
  BY DEF MemoryOK, TablesOK, InodeOK, Fields
<1>4. QED
  BY <1>1, <1>2, <1>3 DEF SameButCounts

LEMMA AddEntryTends ==
    ASSUME NEW m, MemoryOK(m), NEW dir \in Inodes, NEW name, NEW i, NEW wide
    PROVE  Tends(m, add_entry(m, dir, name, i, wide), dir)
<1> DEFINE at == Min({n \in 0..MaxFileBlocks : Ends(DirBlock(m, dir, n)) # {}})
           c == DirBlock(m, dir, at)
           text == Text(c) \o DirEntry(name, i) \o <<Nul>>
           buf == [k \in 1 .. 2 * BlockSize |->
                    IF k =< Len(text) THEN text[k] ELSE IF k =< BlockSize THEN c[k] ELSE Garbage]
           b == get_block_index(m, dir, at)
           u == IF Len(text) > BlockSize /\ ~wide THEN "buffer overrun" ELSE m.ub
           low == SubSeq(buf, 1, BlockSize)
           high == SubSeq(buf, BlockSize + 1, 2 * BlockSize)
           m1 == [m EXCEPT !.disk = block_write(@, b, low), !.ub = u]
           m2 == Lengthened(m1, dir, at + 1)
           m3 == [m2 EXCEPT !.disk = block_write(@, first_block(m1), high)]
           grows == CRem(m.inode[dir].size, BlockSize) + 3 > BlockSize
           last == IF grows THEN m3 ELSE m1
           r == [last EXCEPT !.inode[dir].size = @ + 3, !.inode[dir].nlink = @ + 1]
<1>1. IsBlock(low) /\ IsBlock(high)
  <2>1. buf = [k \in 1 .. 2 * BlockSize |-> buf[k]]
    OBVIOUS
  <2> HIDE DEF buf
  <2>2. QED
    BY <2>1, HalvesAreBlocks
<1>2. at + 1 \in Nat
  <2>1. at \in 0..MaxFileBlocks
    BY EndFound
  <2> HIDE DEF at
  <2>2. QED
    BY <2>1, ConstantTypes
<1>3. r = add_entry(m, dir, name, i, wide)
  BY DEF add_entry, Lengthened
<1>4. BlockFrom(m.disk, low) /\ BlockFrom(m.disk, high)
  <2>1. IsBlock(c) /\ BlockFrom(m.disk, c)
    BY ReadBlock, ReadFrom DEF DirBlock, MemoryOK
  <2> HIDE DEF c
  <2>2. HasCells(low, EntryCells(c, name, i)) /\ HasCells(high, EntryCells(c, name, i))
    BY <2>1, BufferCells
  <2> HIDE DEF low, high
  <2>3. QED
    BY <2>1, <2>2, EntryCellsFrom
<1> HIDE DEF at, low, high, b
<1>5. MemoryOK(m1) /\ m1.ub = u /\ m1.map = m.map /\ m1.inode = m.inode /\ m1.disk = block_write(m.disk, b, low)
  <2>1. DiskOK(block_write(m.disk, b, low))
    BY <1>1, WriteBlock DEF MemoryOK
  <2>2. Keeps(m, [m EXCEPT !.disk = block_write(m.disk, b, low), !.ub = u])
    BY <2>1, BehaviourKeeps
  <2>3. MemoryOK(m1)
    BY <2>2 DEF Keeps
  <2>4. QED
    BY <2>3 DEF MemoryOK, TableNames
<1> HIDE DEF m1
<1>6. Tends(m, m1, dir)
  <2>1. Marks(m, m1) /\ Others(m, m1, dir) /\ SlotsFrom(m, m1)
    BY <1>5 DEF Marks, Others, SlotsFrom
  <2>2. DiskFrom(m.disk, m1.disk)
    BY <1>4, <1>5, DiskFromSelf, DiskWrittenFrom DEF MemoryOK
  <2>3. m1.ub \in {m.ub, "buffer overrun"}
    BY <1>5
  <2>4. QED
    BY <2>1, <2>2, <2>3 DEF Tends, Follows
<1>7. MemoryOK(m2) /\ Tends(m, m2, dir)
  <2>1. MemoryOK(m2) /\ Tends(m1, m2, dir)
    BY <1>2, <1>5, LengthenedSticks, LengthenedTends
  <2> HIDE DEF m2
  <2>2. QED
    BY <1>6, <2>1, TendsTwice
<1> HIDE DEF m2, grows
<1>8. MemoryOK(m3) /\ Tends(m, m3, dir)
  <2> DEFINE f == first_block(m1)
  <2>1. DiskOK(block_write(m2.disk, f, high)) /\ DiskOK(m2.disk)
    BY <1>1, <1>7, WriteBlock DEF MemoryOK
  <2>2. Keeps(m2, m3)
    BY <1>7, <2>1, DiskKeeps
  <2>3. m3.ub = m2.ub /\ m3.map = m2.map /\ m3.inode = m2.inode /\ m3.disk = block_write(m2.disk, f, high)
    BY <1>7 DEF MemoryOK, TableNames
  <2> HIDE DEF m3, f
  <2>4. Tends(m, m3, dir)
    BY <1>4, <1>7, <2>1, <2>3, DiskTends
  <2>5. QED
    BY <2>2, <2>4 DEF Keeps
<1> HIDE DEF m3
<1>9. MemoryOK(last) /\ Tends(m, last, dir)
  BY <1>5, <1>6, <1>7, <1>8
<1> HIDE DEF last
<1>10. SameButCounts(last, r, dir)
  <2>1. PICK s : s = last.inode[dir].size + 3
    OBVIOUS
  <2>2. PICK n : n = last.inode[dir].nlink + 1
    OBVIOUS
  <2>3. r = [last EXCEPT !.inode[dir].size = s, !.inode[dir].nlink = n]
    BY <1>9, <2>1, <2>2 DEF MemoryOK, TablesOK, InodeOK, TableNames, Fields
  <2>4. QED
    BY <1>9, <2>3, DirCounts
<1> HIDE DEF r
<1>11. QED
  BY <1>3, <1>9, <1>10, CountsTend

\* From m to r blocks are given back and no inode but i changes.
Relents(m, r, i) == Follows(m, r) /\ Others(m, r, i) /\ \A b \in Blocks : r.map[b] => m.map[b]

LEMMA RemoveEntryRelents ==
    ASSUME NEW m, MemoryOK(m), NEW dir \in Inodes, NEW name, NEW i
    PROVE  Relents(m, remove_entry(m, dir, name, i), dir)
<1> DEFINE size == m.inode[dir].size
           c == DirBlock(m, dir, 0)
           text == removeSubstring(Text(c), DirEntry(name, i))
           low == Padded(text)
           resize == BlockSize - Len(text)
           b == get_block_index(m, dir, 0)
           u == IF size = 0 \/ Ends(c) = {} THEN "buffer overrun" ELSE m.ub
           m1 == [m EXCEPT !.disk = block_write(@, b, low), !.ub = u]
           second == get_block_index(m1, dir, 1)
           m2 == [m1 EXCEPT !.map = [x \in Blocks |-> @[x] /\ x # second]]
           m3 == set_block_index(m2, dir, 1, -1)
           shrinks == CDiv(size, BlockSize) > CDiv(size - resize, BlockSize)
           last == IF shrinks THEN m3 ELSE m1
           r == [last EXCEPT !.inode[dir].size = @ - resize, !.inode[dir].nlink = @ - 1]
<1>1. r = remove_entry(m, dir, name, i)
  BY DEF remove_entry
<1>2. IsBlock(low)
  BY PaddedIsBlock
<1>3. BlockFrom(m.disk, low)
  <2>1. IsBlock(c) /\ BlockFrom(m.disk, c)
    BY ReadBlock, ReadFrom DEF DirBlock, MemoryOK
  <2> HIDE DEF c
  <2>2. HasCells(low, {c[k] : k \in 1..BlockSize} \cup {Nul})
    BY <2>1, RestCells
  <2> HIDE DEF low
  <2>3. QED
    BY <2>1, <2>2, RestCellsFrom
<1> HIDE DEF low, u, b, resize
<1>4. /\ m1.map = m.map /\ m1.inode = m.inode /\ m1.disk = block_write(m.disk, b, low) /\ m1.ub = u
      /\ MemoryOK(m1)
  <2>1. DiskOK(block_write(m.disk, b, low))
    BY <1>2, WriteBlock DEF MemoryOK
  <2>2. Keeps(m, [m EXCEPT !.disk = block_write(m.disk, b, low), !.ub = u])
    BY <2>1, BehaviourKeeps
  <2>3. MemoryOK(m1)
    BY <2>2 DEF Keeps
  <2>4. QED
    BY <2>3 DEF MemoryOK, TableNames
<1> HIDE DEF m1
<1>5. Relents(m, m1, dir)
  <2>1. DiskFrom(m.disk, m1.disk)
    BY <1>3, <1>4, DiskFromSelf, DiskWrittenFrom DEF MemoryOK
  <2>2. m1.ub \in {m.ub, "buffer overrun"}
    BY <1>4 DEF u
  <2>3. QED
    BY <1>4, <2>1, <2>2 DEF Relents, Follows, Others, SlotsFrom
<1> HIDE DEF second
<1>6. /\ m2.map = [x \in Blocks |-> m1.map[x] /\ x # second] /\ m2.inode = m1.inode /\ m2.disk = m1.disk
      /\ m2.ub = m1.ub /\ MemoryOK(m2)
  BY <1>4 DEF MemoryOK, TablesOK, TableNames
<1> HIDE DEF m2
<1>7. Relents(m, m2, dir)
  BY <1>5, <1>6, ZenonT(40) DEF Relents, Follows, Others, SlotsFrom
<1>8. Relents(m2, m3, dir) /\ MemoryOK(m3)
  <2>1. 1 \in 0 .. NumDirect + 1 /\ 1 < NumDirect /\ 1 \in Nat
    BY TwoDirect, ConstantTypes
  <2>2. m3 = [m2 EXCEPT !.inode[dir].blocks[1] = -1]
    <3>1. /\ ~(1 >= NumDirect /\ 1 < NumDirect + PerBlock) /\ ~(1 >= NumDirect + PerBlock /\ 1 =< MaxFileBlocks)
          /\ ~(1 > MaxFileBlocks)
      BY <2>1, ConstantTypes
    <3>2. QED
      BY <2>1, <3>1 DEF set_block_index
  <2>3. MemoryOK(m3)
    BY <1>6, <2>1, DirectSet
  <2> HIDE DEF m3
  <2>4. m3.inode = [m2.inode EXCEPT ![dir].blocks[1] = -1] /\ m3.map = m2.map /\ m3.disk = m2.disk /\ m3.ub = m2.ub
    BY <1>6, <2>2 DEF MemoryOK, TableNames
  <2>5. \A j \in Inodes, k \in 0 .. NumDirect + 1 :
          m3.inode[j].blocks[k] = -1 \/ m3.inode[j].blocks[k] = m2.inode[j].blocks[k]
    <3>1. DOMAIN m2.inode = Inodes /\ InodeOK(m2.inode[dir])
      BY <1>6 DEF MemoryOK, TablesOK
    <3>2. [m2.inode[dir] EXCEPT !.blocks[1] = -1].blocks = [m2.inode[dir].blocks EXCEPT ![1] = -1]
      BY <3>1 DEF InodeOK, Fields
    <3>3. \A j \in Inodes : m3.inode[j] = IF j = dir THEN [m2.inode[dir] EXCEPT !.blocks[1] = -1] ELSE m2.inode[j]
      BY <2>4, <3>1
    <3>4. SUFFICES ASSUME NEW j \in Inodes, NEW k \in 0 .. NumDirect + 1
                   PROVE  m3.inode[j].blocks[k] = -1 \/ m3.inode[j].blocks[k] = m2.inode[j].blocks[k]
      OBVIOUS
    <3>5. CASE j = dir
      <4>1. m3.inode[j].blocks = [m2.inode[dir].blocks EXCEPT ![1] = -1]
        BY <3>2, <3>3, <3>5
      <4>2. QED
        BY <3>1, <3>5, <4>1 DEF InodeOK
    <3>6. QED
      BY <3>3, <3>5
  <2>6. SlotsFrom(m2, m3)
    BY <2>5, Spaces DEF SlotsFrom
  <2>7. Follows(m2, m3)
    BY <2>4, <2>6, FollowsSame
  <2>8. Others(m2, m3, dir)
    BY <1>6, <2>4 DEF Others, MemoryOK, TablesOK
  <2>9. QED
    BY <2>3, <2>4, <2>7, <2>8 DEF Relents
<1> HIDE DEF m3, shrinks
<1>9. Relents(m, m3, dir)
  BY <1>7, <1>8, FollowsTwice DEF Relents, Others
<1>10. MemoryOK(last) /\ Relents(m, last, dir)
  BY <1>4, <1>5, <1>8, <1>9
<1> HIDE DEF last
<1>11. SameButCounts(last, r, dir)
  <2>1. PICK s : s = last.inode[dir].size - resize
    OBVIOUS
  <2>2. PICK n : n = last.inode[dir].nlink - 1
    OBVIOUS
  <2>3. r = [last EXCEPT !.inode[dir].size = s, !.inode[dir].nlink = n]
    BY <1>10, <2>1, <2>2 DEF MemoryOK, TablesOK, InodeOK, TableNames, Fields
  <2>4. QED
    BY <1>10, <2>3, DirCounts
<1> HIDE DEF r
<1>12. Relents(m, r, dir)
  <2>1. SlotsFrom(m, r)
    BY <1>10, <1>11 DEF Relents, Follows, SlotsFrom, SameButCounts
  <2>2. Follows(m, r)
    BY <1>10, <1>11, <2>1 DEF Relents, Follows, SameButCounts
  <2>3. Others(m, r, dir)
    BY <1>10, <1>11 DEF Relents, Others, SameButCounts
  <2>4. \A x \in Blocks : r.map[x] => m.map[x]
    BY <1>10, <1>11 DEF Relents, SameButCounts
  <2>5. QED
    BY <2>2, <2>3, <2>4 DEF Relents
<1>13. QED
  BY <1>1, <1>12

\* What a turn of the loop that makes a file longer leaves.
GrowTends(m, i, g) == GrowOK(m, i, g) /\ Tends(m, g.m, i)

LEMMA AddBlockTends ==
    ASSUME NEW m, NEW i \in Inodes, NEW g, GrowTends(m, i, g)
    PROVE  GrowTends(m, i, add_block(g))
<1> DEFINE n == g.m.inode[i].nblocks
           m1 == get_block(g.m)
           m2 == Lengthened(g.m, i, n)
           m3 == [m2 EXCEPT !.inode[i].nblocks = @ + 1]
<1>1. MemoryOK(g.m) /\ g.i = i /\ DOMAIN g = {"m", "i", "ok"} /\ Tends(m, g.m, i)
  BY DEF GrowTends, GrowOK, Writes
<1>2. n \in 0 .. MaxFileBlocks + 1 /\ n \in Nat
  BY <1>1, ConstantTypes DEF MemoryOK, TablesOK, InodeOK
<1>3. GrowOK(m, i, add_block(g))
  BY AddBlockGrows DEF GrowTends
<1>4. CASE n > MaxFileBlocks
  <2>1. add_block(g).m = IF ~g.ok THEN g.m ELSE m1
    BY <1>1, <1>4 DEF add_block
  <2>2. Tends(g.m, m1, i)
    BY <1>1, GetBlockTends
  <2> HIDE DEF m1
  <2>3. Tends(m, m1, i)
    BY <1>1, <2>2, TendsTwice
  <2>4. QED
    BY <1>1, <1>3, <2>1, <2>3 DEF GrowTends
<1>5. CASE n =< MaxFileBlocks
  <2>1. add_block(g).m = IF ~g.ok THEN g.m ELSE m3
    <3>1. ~ (g.m.inode[i].nblocks > MaxFileBlocks)
      BY <1>2, <1>5, ConstantTypes
    <3>2. QED
      BY <1>1, <3>1 DEF add_block, Lengthened
  <2>2. MemoryOK(m2) /\ Tends(g.m, m2, i)
    BY <1>1, <1>2, LengthenedSticks, LengthenedTends
  <2> HIDE DEF m2, n
  <2>3. Tends(m, m2, i)
    BY <1>1, <2>2, TendsTwice
  <2>4. m3.map = m2.map /\ m3.disk = m2.disk /\ m3.ub = m2.ub
    BY <2>2 DEF MemoryOK, TableNames
  <2>5. \A j \in Inodes : m3.inode[j].blocks = m2.inode[j].blocks /\ (j # i => m3.inode[j] = m2.inode[j])
    BY <2>2 DEF MemoryOK, TablesOK, InodeOK, TableNames, Fields
  <2> HIDE DEF m3
  <2>6. SameButCounts(m2, m3, i)
    BY <2>4, <2>5 DEF SameButCounts
  <2>7. Tends(m, m3, i)
    BY <2>3, <2>6, CountsTend
  <2>8. QED
    BY <1>1, <1>3, <2>1, <2>7 DEF GrowTends
<1>6. QED
  BY <1>2, <1>4, <1>5, ConstantTypes

LEMMA GrowTendsOn ==
    ASSUME NEW m, MemoryOK(m), NEW i \in Inodes, NEW more \in Nat
    PROVE  GrowTends(m, i, grow(m, i, more))
<1>0. PICK g : g = [m |-> m, i |-> i, ok |-> TRUE]
  OBVIOUS
<1> DEFINE turn[k \in 0..more] == IF k = 0 THEN g ELSE add_block(turn[k - 1])
<1>1. turn = [k \in 0..more |-> IF k = 0 THEN g ELSE add_block(turn[k - 1])]
  <2>1. \E f : IsGrow(f, g, more)
    BY GrowTurns
  <2>2. QED
    BY <2>1, Zenon DEF turn, IsGrow
<1>2. grow(m, i, more) = turn[more]
  BY <1>0, Zenon DEF grow
<1> HIDE DEF turn
<1>3. GrowTends(m, i, g)
  <2>1. g.m = m /\ GrowOK(m, i, g)
    BY <1>0 DEF GrowOK, Writes
  <2>2. QED
    BY <2>1, TendsSelf DEF GrowTends
<1> DEFINE T == {k \in 0..more : ~GrowTends(m, i, turn[k])}
<1>4. SUFFICES ASSUME T # {} PROVE FALSE
  BY <1>2
<1>5. PICK k \in T : \A l \in T : k =< l
  <2>1. T \subseteq Nat
    OBVIOUS
  <2>2. QED
    BY <1>4, <2>1, LeastNumber
<1>6. k # 0
  BY <1>1, <1>3
<1>7. k - 1 \in 0..more /\ ~(k =< k - 1)
  BY <1>6
<1>8. GrowTends(m, i, turn[k - 1])
  BY <1>5, <1>7
<1>9. turn[k] = add_block(turn[k - 1])
  BY <1>1, <1>6
<1>10. QED
  BY <1>5, <1>8, <1>9, AddBlockTends

LEMMA PartFrom ==
    ASSUME NEW d, NEW first, BlockFrom(d, first), NEW skip \in Nat, NEW data, Len(data) \in Nat,
           \A k \in 1..Len(data) : Harmless(data[k]), NEW count \in Nat, NEW k \in 1..count
    PROVE  BlockFrom(d, Part(DataBuffer(first, skip, data, count), k))
<1>1. SUFFICES ASSUME NEW c \in 1..BlockSize PROVE From(d, Part(DataBuffer(first, skip, data, count), k)[c])
  BY DEF BlockFrom
<1>2. PICK p : p = (k - 1) * BlockSize + c
  OBVIOUS
<1>3. p \in 1 .. count * BlockSize
  BY <1>2, PositionInBuffer, ConstantTypes
<1>4. Part(DataBuffer(first, skip, data, count), k)[c] = DataBuffer(first, skip, data, count)[p]
  BY <1>2 DEF Part
<1>5. PICK v : v = DataBuffer(first, skip, data, count)[p]
  OBVIOUS
<1>6. v = IF p > skip /\ p =< skip + Len(data) THEN data[p - skip]
          ELSE IF p =< BlockSize THEN first[p] ELSE Nul
  BY <1>3, <1>5 DEF DataBuffer
<1>7. p \in Nat
  <2>1. count * BlockSize \in Nat
    BY ConstantTypes
  <2>2. QED
    BY <1>3, <2>1
<1>8. CASE p > skip /\ p =< skip + Len(data)
  <2>1. p - skip \in 1..Len(data)
    BY <1>7, <1>8
  <2>2. QED
    BY <1>4, <1>5, <1>6, <1>8, <2>1 DEF From
<1>9. CASE ~(p > skip /\ p =< skip + Len(data)) /\ p =< BlockSize
  <2>1. p \in 1..BlockSize
    BY <1>3, <1>7, <1>9, ConstantTypes
  <2>2. QED
    BY <1>4, <1>5, <1>6, <1>9, <2>1 DEF BlockFrom
<1>10. CASE ~(p > skip /\ p =< skip + Len(data)) /\ ~(p =< BlockSize)
  BY <1>4, <1>5, <1>6, <1>10, HarmlessCells DEF From
<1>11. QED
  BY <1>8, <1>9, <1>10

\* What the loop that writes blocks back leaves.
BacksFrom(m, r, i) ==
    MemoryOK(r) /\ r.map = m.map /\ r.inode = m.inode /\ r.ub = m.ub /\ Tends(m, r, i)

LEMMA WriteBackTends ==
    ASSUME NEW m, MemoryOK(m), NEW i, NEW start, NEW count \in Nat, NEW buf,
           \A k \in 1..count : BlockFrom(m.disk, Part(buf, k))
    PROVE  BacksFrom(m, write_back(m, i, start, count, buf), i)
<1> DEFINE turn[k \in 0..count] == IF k = 0 THEN m ELSE put_block(turn[k - 1], i, start + k - 1, Part(buf, k))
<1>1. turn = [k \in 0..count |-> IF k = 0 THEN m ELSE put_block(turn[k - 1], i, start + k - 1, Part(buf, k))]
  <2>1. \E f : IsWriteBack(f, m, i, start, buf, count)
    BY WriteTurns
  <2>2. QED
    BY <2>1, Zenon DEF turn, IsWriteBack
<1>2. write_back(m, i, start, count, buf) = turn[count]
  BY DEF write_back
<1> HIDE DEF turn
<1>3. \A k : IsBlock(Part(buf, k))
  BY DEF IsBlock, Part
<1>4. turn[0] = m /\ BacksFrom(m, m, i)
  BY <1>1, TendsSelf DEF BacksFrom
<1> DEFINE T == {k \in 0..count : ~BacksFrom(m, turn[k], i)}
<1>5. SUFFICES ASSUME T # {} PROVE FALSE
  BY <1>2
<1>6. PICK k \in T : \A l \in T : k =< l
  <2>1. T \subseteq Nat
    OBVIOUS
  <2> HIDE DEF T
  <2>2. QED
    BY <1>5, <2>1, LeastNumber
<1>7. k # 0 /\ k - 1 \in 0..count /\ ~(k =< k - 1) /\ k \in 1..count
  BY <1>4, <1>6
<1>8. BacksFrom(m, turn[k - 1], i)
  BY <1>6, <1>7
<1>9. PICK v : v = get_block_index(turn[k - 1], i, start + k - 1)
  OBVIOUS
<1>10. PutsBlock(turn[k - 1], turn[k], v, Part(buf, k))
  <2>1. turn[k] = put_block(turn[k - 1], i, start + k - 1, Part(buf, k))
    BY <1>1, <1>6, <1>7
  <2>2. QED
    BY <1>3, <1>8, <1>9, <2>1, PutBlockParts DEF BacksFrom
<1>11. BacksFrom(m, turn[k], i)
  <2>1. PICK r, s, c : r = turn[k - 1] /\ s = turn[k] /\ c = Part(buf, k)
    OBVIOUS
  <2>2. Tends(m, r, i) /\ DiskOK(r.disk) /\ BlockFrom(m.disk, c) /\ PutsBlock(r, s, v, c)
    BY <1>7, <1>8, <1>10, <2>1 DEF BacksFrom, MemoryOK
  <2>3. Tends(m, s, i)
    BY <2>2, DiskTends DEF PutsBlock
  <2>4. QED
    BY <1>8, <2>1, <2>2, <2>3 DEF BacksFrom, PutsBlock
<1>12. QED
  BY <1>6, <1>11

LEMMA PutDataTends ==
    ASSUME NEW m, MemoryOK(m), NEW i \in Inodes, NEW off \in Nat, NEW data, Len(data) \in Nat \ {0},
           \A k \in 1..Len(data) : Harmless(data[k])
    PROVE  Tends(m, put_data(m, i, off, data), i)
<1> DEFINE start == off \div BlockSize
           skip == off % BlockSize
           count == BlockCount(off, Len(data))
           first == block_read(m.disk, get_block_index(m, i, start))
           buf == DataBuffer(first, skip, data, count)
           m1 == write_back(m, i, start, count, buf)
           r == [m1 EXCEPT !.inode[i].size = @ + Len(data)]
<1>1. count \in Nat
  BY CountIsNat
<1>2. start \in Nat /\ skip \in Nat
  BY ConstantTypes
<1>3. r = put_data(m, i, off, data)
  BY DEF put_data, DataBuffer
<1>4. BlockFrom(m.disk, first)
  BY ReadFrom
<1> HIDE DEF count, start, skip, first
<1>5. \A k \in 1..count : BlockFrom(m.disk, Part(buf, k))
  BY <1>1, <1>2, <1>4, PartFrom
<1> HIDE DEF buf
<1>6. BacksFrom(m, m1, i)
  BY <1>1, <1>5, WriteBackTends
<1> HIDE DEF m1
<1>7. MemoryOK(m1) /\ Tends(m, m1, i)
  BY <1>6 DEF BacksFrom
<1>8. r.map = m1.map /\ r.disk = m1.disk /\ r.ub = m1.ub
  BY <1>7 DEF MemoryOK, TableNames
<1>9. \A j \in Inodes : r.inode[j].blocks = m1.inode[j].blocks /\ (j # i => r.inode[j] = m1.inode[j])
  BY <1>7 DEF MemoryOK, TablesOK, InodeOK, TableNames, Fields
<1> HIDE DEF r
<1>10. SameButCounts(m1, r, i)
  BY <1>8, <1>9 DEF SameButCounts
<1>11. QED
  BY <1>3, <1>7, <1>10, CountsTend

-----------------------------------------------------------------------------
\* What creating and removing leaves.

LEMMA SameFollows ==
    ASSUME NEW m, NEW r, SameBlocks(m, r)
    PROVE  Follows(m, r)
<1>1. SlotsFrom(m, r)
  BY DEF SameBlocks, SlotsFrom
<1>2. QED
  BY <1>1, FollowsSame DEF SameBlocks

\* A new inode, whose slots are all unset.
NewOnly(m, n, i) ==
    /\ n.map = m.map /\ n.disk = m.disk /\ n.ub = m.ub
    /\ \A j \in Inodes \ {i} : n.inode[j] = m.inode[j]
    /\ \A k \in 0 .. NumDirect + 1 : n.inode[i].blocks[k] = -1

LEMMA NewInodeOnly ==
    ASSUME NEW m, MemoryOK(m), NEW i \in Inodes, NEW dir, NEW nlink, NEW size, NEW nblocks,
           NEW n, n = new_inode(m, i, dir, nlink, size, nblocks)
    PROVE  NewOnly(m, n, i)
<1> DEFINE e == [avail |-> TRUE, dir |-> dir, nlink |-> nlink, size |-> size,
                 nblocks |-> nblocks, blocks |-> [k \in 0 .. NumDirect + 1 |-> -1]]
<1>1. n = [m EXCEPT !.inode[i] = e]
  BY DEF new_inode
<1>2. \A k \in 0 .. NumDirect + 1 : e.blocks[k] = -1
  OBVIOUS
<1> HIDE DEF e
<1>3. QED
  BY <1>1, <1>2 DEF MemoryOK, TablesOK, TableNames, NewOnly

LEMMA NewInodeFollows ==
    ASSUME NEW m, NEW n, NEW i \in Inodes, NewOnly(m, n, i)
    PROVE  Follows(m, n)
<1>1. SlotsFrom(m, n)
  BY Spaces DEF NewOnly, SlotsFrom
<1>2. QED
  BY <1>1, FollowsSame DEF NewOnly

\* create, when there is room for all of it.
LEMMA CreateFollows ==
    ASSUME NEW m, MemoryOK(m), NEW i \in Inodes, NEW parent \in Inodes, NEW name, NEW p, NEW n,
           n = new_inode(m, i, FALSE, 1, 0, 0), NEW s, s = enter_name(n, p, i), MemoryOK(s),
           NEW r, r = add_entry(s, parent, name, i, TRUE), Fits(r)
    PROVE  Follows(m, r)
<1>1. MemoryOK(n)
  BY NewFile DEF HasNew
<1>2. Follows(m, n)
  <2>1. NewOnly(m, n, i)
    BY NewInodeOnly, Zenon
  <2>2. QED
    BY <2>1, NewInodeFollows
<1>3. Follows(n, s)
  BY <1>1, EnterNameSame, SameFollows
<1>4. Tends(s, r, parent)
  BY AddEntryTends
<1>5. Follows(s, r)
  BY <1>4 DEF Tends
<1>6. QED
  BY <1>2, <1>3, <1>5, FollowsTwice

LEMMA FreeInodeFollows ==
    ASSUME NEW m, MemoryOK(m), NEW i \in Inodes, NEW r, r = free_inode(m, i), r.ub = m.ub
    PROVE  Follows(m, r) /\ \A b \in Blocks : r.map[b] => m.map[b]
<1>1. Frees(m, r, i) /\ FreesBlocks(m, r, i)
  BY FreeInode, FreeInodeParts
<1>2. r.disk = m.disk /\ \A b \in Blocks : r.map[b] => m.map[b]
  BY <1>1 DEF FreesBlocks
<1>3. \A n \in 0 .. NumDirect + 1 : r.inode[i].blocks[n] = -1 \/ r.inode[i].blocks[n] = m.inode[i].blocks[n]
  <2>1. CASE m.inode[i].nlink > 1
    BY <1>1, <2>1 DEF FreesBlocks
  <2>2. CASE ~(m.inode[i].nlink > 1)
    <3> DEFINE bs == [n \in DOMAIN ZeroInode.blocks |-> IF n < NumDirect THEN -1 ELSE m.inode[i].blocks[n]]
    <3>1. r.inode = [m.inode EXCEPT ![i] = [ZeroInode EXCEPT !.blocks = bs]]
      BY <2>2 DEF free_inode, MemoryOK, TableNames
    <3>2. r.inode[i].blocks = bs
      BY <3>1 DEF ZeroInode, MemoryOK, TablesOK
    <3>3. DOMAIN ZeroInode.blocks = 0 .. NumDirect + 1
      BY DEF ZeroInode
    <3>4. QED
      BY <3>2, <3>3
  <2>3. QED
    BY <2>1, <2>2
<1>4. SlotsFrom(m, r)
  <2>1. SUFFICES ASSUME NEW j \in Inodes, NEW n \in 0 .. NumDirect + 1
                 PROVE  r.inode[j].blocks[n] \in Below \/ r.inode[j].blocks[n] = m.inode[j].blocks[n]
    BY DEF SlotsFrom
  <2>2. CASE j = i
    BY <1>3, <2>2, Spaces
  <2>3. CASE j # i
    BY <1>1, <2>3 DEF Frees
  <2>4. QED
    BY <2>2, <2>3
<1>5. QED
  BY <1>2, <1>4, FollowsSame

\* A directory has a block of its own before it has a name.
LEMMA NewDirFollows ==
    ASSUME NEW m, MemoryOK(m), NEW i \in Inodes, NEW n, n = NewDir(m, i), Fits(n)
    PROVE  Follows(m, n) /\ n.ub = m.ub
<1>1. PICK g, b : g = get_block(m) /\ b = first_block(m)
  OBVIOUS
<1>2. MemoryOK(g) /\ Tends(m, g, i) /\ (Fits(g) => b \in Below /\ b # -1)
  BY <1>1, GetBlockKeeps, GetBlockTends DEF Keeps
<1>3. PICK h : h = new_inode(g, i, TRUE, 2, BlockSize, 1)
  OBVIOUS
<1>4. NewOnly(g, h, i)
  BY <1>2, <1>3, NewInodeOnly, Zenon
<1>5. MemoryOK(h)
  <2>1. InodeOK([avail |-> TRUE, dir |-> TRUE, nlink |-> 2, size |-> BlockSize, nblocks |-> 1,
                 blocks |-> [k \in 0 .. NumDirect + 1 |-> -1]])
    BY ConstantTypes DEF InodeOK, Fields
  <2>2. QED
    BY <1>2, <1>3, <2>1, InodeSet DEF new_inode, SetsInode
<1>6. n = [h EXCEPT !.inode[i].blocks[0] = b]
  BY <1>1, <1>3 DEF NewDir
<1>7. n.inode = [h.inode EXCEPT ![i].blocks[0] = b] /\ n.map = h.map /\ n.disk = h.disk /\ n.ub = h.ub
  BY <1>5, <1>6 DEF MemoryOK, TableNames
<1>8. TendsIf(h, n, i, b)
  BY <1>5, <1>7, DirSlot, SlotTends
<1>9. Fits(g)
  BY <1>4, <1>7 DEF NewOnly, Fits
<1>10. Follows(m, g) /\ Follows(g, h) /\ Follows(h, n)
  BY <1>2, <1>4, <1>8, <1>9, NewInodeFollows DEF Tends, TendsIf
<1>11. g.ub = m.ub
  BY <1>1, <1>2, <1>9, GetBlockParts
<1>12. QED
  BY <1>4, <1>7, <1>10, <1>11, FollowsTwice DEF NewOnly

LEMMA MkdirFollows ==
    ASSUME NEW m, MemoryOK(m), NEW i \in Inodes, NEW parent \in Inodes, NEW name, NEW p,
           NEW n, n = NewDir(m, i), NEW e, e = enter_name(n, p, i), MemoryOK(e), NEW b,
           NEW s, s = [e EXCEPT !.disk[b] = Padded(Dots(i, parent))], MemoryOK(s),
           NEW r, r = add_entry(s, parent, name, i, FALSE), Fits(r)
    PROVE  Follows(m, r)
<1>1. MemoryOK(n)
  BY NewDirMade
<1>2. SameBlocks(n, e)
  BY <1>1, EnterNameSame
<1>3. PICK c : c = Padded(Dots(i, parent))
  OBVIOUS
<1>4. IsBlock(c) /\ BlockFrom(e.disk, c)
  <2>1. IsBlock(c)
    BY <1>3, PaddedIsBlock
  <2>2. \A k \in 1..BlockSize : Harmless(c[k])
    <3>1. \A k \in 1 .. Len(Dots(i, parent)) : Harmless(Dots(i, parent)[k])
      BY HarmlessCells DEF Dots
    <3>2. QED
      BY <1>3, <3>1, HarmlessCells DEF Padded, Dots
  <2>3. QED
    BY <2>1, <2>2 DEF BlockFrom, From
<1>5. s.map = e.map /\ s.inode = e.inode /\ s.ub = e.ub /\ s.disk = block_write(e.disk, b, c)
  <2>1. s.map = e.map /\ s.inode = e.inode /\ s.ub = e.ub /\ s.disk = [e.disk EXCEPT ![b] = c]
    BY <1>3 DEF MemoryOK, TableNames
  <2>2. b \notin Blocks => [e.disk EXCEPT ![b] = c] = e.disk
    BY DEF MemoryOK, DiskOK
  <2>3. QED
    BY <2>1, <2>2 DEF block_write
<1>6. Follows(e, s)
  <2>1. DiskFrom(e.disk, s.disk)
    BY <1>4, <1>5, DiskFromSelf, DiskWrittenFrom DEF MemoryOK
  <2>2. SlotsFrom(e, s)
    BY <1>5 DEF SlotsFrom
  <2>3. QED
    BY <1>5, <2>1, <2>2 DEF Follows
<1>7. Tends(s, r, parent)
  BY AddEntryTends
<1>8. Fits(s) /\ Follows(s, r)
  BY <1>7, MarksFit DEF Tends
<1>9. Fits(n)
  BY <1>2, <1>5, <1>8 DEF Fits, SameBlocks
<1>10. Follows(m, n) /\ Follows(n, e)
  BY <1>2, <1>9, NewDirFollows, SameFollows
<1>11. QED
  BY <1>6, <1>8, <1>10, FollowsTwice

\* unlink and rmdir.
LEMMA RemoveFollows ==
    ASSUME NEW m, MemoryOK(m), NEW own, Held(m, own), NEW i \in Inodes, m.inode[i].avail,
           NEW parent \in Inodes, m.inode[parent].avail, m.inode[parent].dir, i # parent,
           ~m.inode[i].dir \/ m.inode[i].nlink > 1,
           NEW name, NEW k, NEW q, q = remove_entry(m, parent, name, i), NEW t, t = free_inode(q, i),
           NEW r, r = free_mapping(t, k)
    PROVE  Follows(m, r)
<1>1. Relents(m, q, parent)
  BY RemoveEntryRelents
<1>2. Relinks(m, q, parent, m.inode[parent].nlink - 1)
  BY RemoveEntryRelinks
<1>3. MemoryOK(q) /\ q.inode[i].avail /\ (i # 0 \/ q.inode[i].nlink > 1)
  BY <1>2 DEF Relinks, Held
<1>4. PICK own1 : Drops(m, own, q, own1, {parent})
  BY RemoveEntryDrops
<1>5. Held(q, own1)
  BY <1>4 DEF Drops
<1>6. t.ub = q.ub
  BY <1>3, <1>5, FreeInodeDrops
<1>7. MemoryOK(t)
  BY <1>3, FreeInode DEF Frees
<1>8. SameBlocks(t, r)
  BY <1>7 DEF free_mapping, SameBlocks, MemoryOK, TableNames
<1>9. Follows(q, t) /\ Follows(t, r)
  BY <1>3, <1>6, <1>8, FreeInodeFollows, SameFollows
<1>10. QED
  BY <1>1, <1>9, FollowsTwice DEF Relents

-----------------------------------------------------------------------------
\* How the handlers end.

\* What a step of the program leaves, and what one into undefined behaviour does.
HandleInUse == ~(open_files[0] < 0) => 0 \in DOMAIN fds
Carries ==
    \E m : /\ Hold(m) /\ Fits(m) /\ Follows(Now, m)
           /\ HandleInUse => (~(m.open[0] < 0) => 0 \in DOMAIN fds')
Fails(u) == Fits(Now) /\ Hold(Fail(u)) /\ fds' = fds

LEMMA FailParts ==
    ASSUME NEW u
    PROVE  /\ Fail(u).inode = Now.inode /\ Fail(u).names = Now.names /\ Fail(u).open = Now.open
           /\ Fail(u).map = Now.map /\ Fail(u).disk = Now.disk /\ Fail(u).ub = u
  BY DEF Fail, Now, Memory

LEMMA SameCarries ==
    ASSUME NEW m, Hold(m), Fits(m), Follows(Now, m), m.open = Now.open, fds' = fds
    PROVE  Carries
  BY NowParts DEF Carries, HandleInUse

LEMMA FailFails ==
    ASSUME NEW u, NEW m, m = Fail(u), Hold(m), Fits(m), fds' = fds
    PROVE  Fails(u)
  BY FailParts DEF Fits, Fails

LEMMA CreateCarries ==
    ASSUME SfsInv, NEW own, Held(Now, own), NEW p \in Files, sfs_create(p)
    PROVE  \/ Carries
           \/ Fails("no handle") /\ get_fh(Now) = -1
           \/ Fails("no inode") /\ get_inode(Now) = -1
<1>1. PICK now : now = Now
  OBVIOUS
<1>2. MemoryOK(now) /\ p \in Paths /\ Held(now, own)
  BY <1>1 DEF SfsInv, Paths
<1> DEFINE i == get_inode(now)
           fh == get_fh(now)
           k == get_mapping(now)
           j == InodeOf(now, Front(p))
           n == new_inode(now, i, FALSE, 1, 0, 0)
           s == enter_name(n, p, i)
           ok == i # -1 /\ fh # -1 /\ k # -1
           r == add_entry(s, j, Last(p), i, TRUE)
           next == CASE fh = -1 -> Fail("no handle")
                     [] fh # -1 /\ i = -1 -> Fail("no inode")
                     [] ~ok /\ fh # -1 /\ i # -1 -> free_inode(n, i)
                     [] ok -> [r EXCEPT !.open[fh] = i]
<1>3. Sees(Front(p), TRUE) /\ Become(next)
  BY <1>1 DEF sfs_create, Creatable
<1>4. PICK m : m = next /\ Hold(m) /\ Fits(m)
  BY <1>3 DEF Become
<1>5. j \in Inodes /\ now.inode[j].avail /\ now.inode[j].dir
  BY <1>1, <1>2, <1>3, ParentSeen DEF IsParent
<1>6. (i # -1 => i \in Inodes /\ ~now.inode[i].avail) /\ (k # -1 => k \in Inodes /\ k = get_mapping(now))
  BY FreshEntry
<1>7. (fh = -1 <=> get_fh(Now) = -1) /\ (i = -1 <=> get_inode(Now) = -1)
  BY <1>1
<1> HIDE DEF i, k, fh, j, next
<1>8. CASE fh = -1
  <2>1. m = Fail("no handle")
    BY <1>4, <1>8 DEF next
  <2>2. fds' = fds
    BY <1>1, <1>8 DEF sfs_create, i, k, fh
  <2>3. QED
    BY <1>4, <1>7, <1>8, <2>1, <2>2, FailFails
<1>9. CASE fh # -1 /\ i = -1
  <2>1. m = Fail("no inode")
    BY <1>4, <1>9 DEF next
  <2>2. fds' = fds
    BY <1>1, <1>9 DEF sfs_create, i, k, fh
  <2>3. QED
    BY <1>4, <1>7, <1>9, <2>1, <2>2, FailFails
<1>10. CASE ~ok /\ fh # -1 /\ i # -1
  <2>1. m = free_inode(n, i)
    BY <1>4, <1>10 DEF next
  <2>2. i \in Inodes /\ ~now.inode[i].avail
    BY <1>6, <1>10
  <2>3. PICK n1 : n1 = n
    OBVIOUS
  <2>4. MemoryOK(n1) /\ NewOnly(now, n1, i)
    <3>1. MemoryOK(n)
      BY <1>2, <2>2, NewFile DEF HasNew
    <3>2. NewOnly(now, n, i)
      BY <1>2, <2>2, NewInodeOnly, Zenon
    <3>3. QED
      BY <2>3, <3>1, <3>2
  <2>5. m.ub = now.ub
    <3>1. n1 = new_inode(now, i, FALSE, 1, 0, 0) /\ m = free_inode(n1, i)
      BY <2>1, <2>3
    <3> HIDE DEF n
    <3>2. QED
      BY <1>2, <2>2, <3>1, NoMappingChanges, ZenonT(40)
  <2>6. Follows(now, n1) /\ Follows(n1, m)
    <3>1. n1.ub = now.ub /\ m = free_inode(n1, i)
      BY <2>1, <2>3, <2>4 DEF NewOnly
    <3> HIDE DEF n
    <3>2. QED
      BY <2>2, <2>4, <2>5, <3>1, NewInodeFollows, FreeInodeFollows
  <2>7. m.open = now.open
    <3>1. m.open = n.open
      <4>1. Frees(n1, m, i)
        BY <2>1, <2>2, <2>3, <2>4, FreeInode
      <4>2. QED
        BY <2>3, <4>1 DEF Frees
    <3>2. QED
      BY <1>2, <2>2, <3>1, NewFile DEF HasNew
  <2>8. fds' = fds
    BY <1>1, <1>10 DEF sfs_create, i, k, fh
  <2>9. Follows(now, m)
    BY <2>6, FollowsTwice
  <2>10. QED
    BY <1>1, <1>4, <2>7, <2>8, <2>9, SameCarries
<1>11. CASE ok
  <2>1. m = [r EXCEPT !.open[fh] = i]
    BY <1>4, <1>11 DEF next
  <2>2. i \in Inodes /\ ~now.inode[i].avail /\ k \in Inodes /\ k = get_mapping(now)
    BY <1>6, <1>11
  <2>3. HasNew(now, n, i, 1) /\ ~ n.inode[i].dir
    BY <1>2, <2>2, NewFile
  <2>4. MemoryOK(s)
    <3>1. HasNew(now, n, i, IF p \in Files THEN 1 ELSE 2) /\ (n.inode[i].dir <=> p \notin Files) /\ MemoryOK(n)
      BY <2>3 DEF HasNew
    <3> HIDE DEF n
    <3>2. QED
      BY <2>2, <3>1, NameFilled DEF Filled
  <2> HIDE DEF n
  <2>5. PICK n1, s1, r1 : n1 = n /\ s1 = s /\ r1 = r
    OBVIOUS
  <2>6. SameBlocks(r1, m) /\ m.open = [now.open EXCEPT ![fh] = i]
    <3>1. n.inode[j].dir
      BY <1>5, <2>2, <2>3 DEF HasNew
    <3>2. SameBlocks(n, s) /\ s.inode[j].dir
      BY <2>3, <3>1, EnterNameSame DEF HasNew, SameBlocks
    <3>3. s.open = now.open
      BY <2>3 DEF HasNew, enter_name, MemoryOK, TableNames
    <3> HIDE DEF s
    <3>4. Relinks(s, r, j, s.inode[j].nlink + 1)
      BY <1>5, <2>4, <3>2, AddEntryRelinks
    <3>5. MemoryOK(r) /\ r.open = now.open
      BY <3>3, <3>4 DEF Relinks
    <3> HIDE DEF r
    <3>6. QED
      BY <2>1, <2>5, <3>5 DEF MemoryOK, TableNames, SameBlocks
  <2>7. Fits(r1)
    BY <1>4, <2>6 DEF Fits, SameBlocks
  <2>8. Follows(now, r1)
    <3>1. n1 = new_inode(now, i, FALSE, 1, 0, 0) /\ s1 = enter_name(n1, p, i) /\ MemoryOK(s1)
      BY <2>4, <2>5 DEF n
    <3>2. r1 = add_entry(s1, j, Last(p), i, TRUE)
      BY <2>5
    <3>3. QED
      BY <1>2, <1>5, <2>2, <2>7, <3>1, <3>2, CreateFollows, Zenon
  <2>9. Follows(now, m)
    BY <2>6, <2>8, SameFollows, FollowsTwice
  <2>10. DOMAIN fds' = DOMAIN fds \cup {fh}
    <3>1. fds' = handle(fh, p)
      BY <1>1, <1>11 DEF sfs_create, i, k, fh
    <3>2. QED
      BY <3>1 DEF handle
  <2>11. fh # 0 => m.open[0] = open_files[0]
    BY <1>1, <1>2, <2>6, NowParts DEF MemoryOK, TablesOK
  <2>12. HandleInUse => (~(m.open[0] < 0) => 0 \in DOMAIN fds')
    BY <2>10, <2>11 DEF HandleInUse
  <2>13. QED
    BY <1>1, <1>4, <2>9, <2>12 DEF Carries
<1>12. QED
  BY <1>8, <1>9, <1>10, <1>11

LEMMA MkdirCarries ==
    ASSUME SfsInv, NEW p \in Dirs, sfs_mkdir(p)
    PROVE  Carries \/ (Fails("no inode") /\ get_inode(Now) = -1)
<1>1. PICK now : now = Now
  OBVIOUS
<1>2. MemoryOK(now) /\ p \in Paths /\ p \notin Files
  BY <1>1, PathAssumption DEF SfsInv, Paths
<1> DEFINE i == get_inode(now)
           k == get_mapping(now)
           j == InodeOf(now, Front(p))
           b == first_block(now)
           n == NewDir(now, i)
           e == enter_name(n, p, i)
           s == [e EXCEPT !.disk[b] = Padded(Dots(i, j))]
           r == add_entry(s, j, Last(p), i, FALSE)
           next == IF i = -1 THEN Fail("no inode") ELSE IF k = -1 THEN free_inode(n, i) ELSE r
<1>3. Sees(Front(p), TRUE) /\ Become(next)
  BY <1>1 DEF sfs_mkdir, Creatable, NewDir
<1>4. PICK m : m = next /\ Hold(m) /\ Fits(m)
  BY <1>3 DEF Become
<1>5. j \in Inodes /\ now.inode[j].avail /\ now.inode[j].dir
  BY <1>1, <1>2, <1>3, ParentSeen DEF IsParent
<1>6. (i # -1 => i \in Inodes /\ ~now.inode[i].avail) /\ (k # -1 => k \in Inodes /\ k = get_mapping(now))
  BY FreshEntry
<1>7. i = -1 <=> get_inode(Now) = -1
  BY <1>1
<1>13. fds' = fds
  BY DEF sfs_mkdir
<1> HIDE DEF i, k, j, b, next
<1>8. CASE i = -1
  <2>1. m = Fail("no inode")
    BY <1>4, <1>8 DEF next
  <2>2. QED
    BY <1>4, <1>7, <1>13, <1>8, <2>1, FailFails
<1>9. CASE i # -1 /\ k = -1
  <2>1. PICK n1 : n1 = n
    OBVIOUS
  <2>2. m = free_inode(n1, i)
    BY <1>4, <1>9, <2>1 DEF next
  <2>3. i \in Inodes
    BY <1>6, <1>9
  <2>4. MemoryOK(n1) /\ n1.inode[i].nlink > 1
    <3>1. MemoryOK(n1) /\ n1.inode[i].nlink = 2
      BY <1>2, <2>1, <2>3, NewDirMade
    <3>2. \A x : x = 2 => x > 1
      OBVIOUS
    <3>3. QED
      BY <3>1, <3>2, Zenon
  <2>5. m.map = n1.map /\ m.ub = n1.ub
    BY <2>2, <2>3, <2>4, FreeInodeParts, ZenonT(40) DEF FreesBlocks
  <2>6. Fits(n1)
    BY <1>4, <2>5 DEF Fits
  <2>7. Follows(now, n1) /\ Follows(n1, m)
    <3>1. n1 = NewDir(now, i)
      BY <2>1
    <3> HIDE DEF n
    <3>2. QED
      BY <1>2, <2>2, <2>3, <2>4, <2>5, <2>6, <3>1, NewDirFollows, FreeInodeFollows
  <2>8. m.open = now.open
    <3>1. m.open = n.open
      <4>1. Frees(n1, m, i)
        BY <2>2, <2>3, <2>4, FreeInode
      <4>2. QED
        BY <2>1, <4>1 DEF Frees
    <3>2. QED
      BY <1>2, <2>3, <3>1, FirstBlock, NewDirectory DEF HasNew, NewDir
  <2>9. Follows(now, m)
    BY <2>7, FollowsTwice
  <2>10. QED
    BY <1>1, <1>4, <1>13, <2>8, <2>9, SameCarries
<1>10. CASE i # -1 /\ k # -1
  <2>1. m = r
    BY <1>4, <1>10 DEF next
  <2>2. i \in Inodes /\ ~now.inode[i].avail /\ k \in Inodes /\ k = get_mapping(now)
    BY <1>6, <1>10
  <2>3. HasNew(now, n, i, 2) /\ n.inode[i].dir
    BY <1>2, <2>2, FirstBlock, NewDirectory DEF NewDir
  <2>4. MemoryOK(e)
    <3>1. HasNew(now, n, i, IF p \in Files THEN 1 ELSE 2) /\ (n.inode[i].dir <=> p \notin Files) /\ MemoryOK(n)
      BY <1>2, <2>3 DEF HasNew
    <3> HIDE DEF n
    <3>2. QED
      BY <2>2, <3>1, NameFilled DEF Filled
  <2> HIDE DEF n
  <2>5. MemoryOK(s)
    <3>1. IsBlock(Padded(Dots(i, j)))
      BY PaddedIsBlock
    <3> HIDE DEF e
    <3>2. Keeps(e, s)
      BY <2>4, <3>1, PutKeeps
    <3>3. QED
      BY <3>2 DEF Keeps
  <2>6. Follows(now, m)
    <3>1. PICK n1, e1, s1 : n1 = n /\ e1 = e /\ s1 = s
      OBVIOUS
    <3>2. n1 = NewDir(now, i) /\ e1 = enter_name(n1, p, i) /\ MemoryOK(e1)
      BY <2>4, <3>1 DEF n
    <3>3. s1 = [e1 EXCEPT !.disk[b] = Padded(Dots(i, j))] /\ MemoryOK(s1)
      BY <2>5, <3>1
    <3>4. m = add_entry(s1, j, Last(p), i, FALSE)
      BY <2>1, <3>1
    <3>5. QED
      BY <1>2, <1>4, <1>5, <2>2, <3>2, <3>3, <3>4, MkdirFollows, Zenon
  <2>7. m.open = now.open
    <3>1. e.inode = n.inode /\ e.open = n.open
      BY <2>3 DEF HasNew, enter_name, MemoryOK, TableNames
    <3> HIDE DEF e
    <3>2. s.inode = n.inode /\ s.open = n.open
      BY <2>4, <3>1 DEF MemoryOK, TableNames
    <3>3. s.inode[j].dir /\ s.open = now.open
      BY <1>5, <2>2, <2>3, <3>2 DEF HasNew
    <3> HIDE DEF s
    <3>4. Relinks(s, r, j, s.inode[j].nlink + 1)
      BY <1>5, <2>5, <3>3, AddEntryRelinks
    <3>5. QED
      BY <2>1, <3>3, <3>4 DEF Relinks
  <2>8. QED
    BY <1>1, <1>4, <1>13, <2>6, <2>7, SameCarries
<1>11. QED
  BY <1>8, <1>9, <1>10

LEMMA RemoveCarries ==
    ASSUME SfsInv, NEW own, Held(Now, own), NEW p \in Paths, Named(Now, p), remove(p)
    PROVE  Carries
<1>1. PICK now : now = Now
  OBVIOUS
<1>2. MemoryOK(now) /\ NamesOK(now) /\ LinksOK(now) /\ Held(now, own)
  BY <1>1 DEF SfsInv, NameInv
<1> DEFINE k == path_lookup(now, p)
           i == InodeOf(now, p)
           j == InodeOf(now, Front(p))
           q == remove_entry(now, j, Last(p), i)
           t == free_inode(q, i)
           next == free_mapping(t, k)
<1>3. Sees(Front(p), TRUE) /\ Become(next) /\ fds' = fds
  BY <1>1 DEF remove
<1>4. PICK m : m = next /\ Hold(m) /\ Fits(m)
  BY <1>3 DEF Become
<1>5. j \in Inodes /\ now.inode[j].avail /\ now.inode[j].dir
  BY <1>1, <1>3, ParentSeen DEF IsParent
<1>6. k \in Inodes /\ Taken(now, k) /\ now.names[k].path = p /\ i = now.names[k].ino
  BY <1>1, <1>2, LookupFinds DEF InodeOf
<1>7. i \in Inodes /\ now.inode[i].avail /\ (p \in Files => ~now.inode[i].dir)
  <2>1. i \in Inodes /\ now.inode[i].avail /\ (now.inode[i].dir <=> p \notin Files)
    BY <1>2, <1>6 DEF NamesOK
  <2>2. QED
    BY <2>1
<1>8. p \notin Files => now.inode[i].nlink > 1
  <2>1. p \notin Files => now.inode[i].nlink = 2 + Cardinality(Kids(now, p))
    BY <1>2, <1>6 DEF LinksOK
  <2>2. Cardinality(Kids(now, p)) \in Nat
    BY KidsFinite
  <2>3. QED
    BY <2>1, <2>2
<1>9. i # j
  <2>1. PICK l : l = path_lookup(Now, Front(p))
    OBVIOUS
  <2>2. l \in Inodes /\ Taken(now, l) /\ now.names[l].path = Front(p) /\ j = now.names[l].ino
    BY <1>1, <1>3, <2>1, SeenDirectory, NowParts DEF SfsInv
  <2>3. l # k
    BY <1>6, <2>2, PathFacts
  <2>4. QED
    BY <1>2, <1>6, <2>2, <2>3 DEF NamesOK
<1>10. ~now.inode[i].dir \/ now.inode[i].nlink > 1
  BY <1>7, <1>8
<1> HIDE DEF i, j, k
<1>11. PICK q1, t1 : q1 = q /\ t1 = t
  OBVIOUS
<1>12. q1 = remove_entry(now, j, Last(p), i) /\ t1 = free_inode(q1, i) /\ m = free_mapping(t1, k)
  BY <1>4, <1>11
<1>13. Follows(now, m)
  BY <1>2, <1>5, <1>7, <1>9, <1>10, <1>12, RemoveFollows, Zenon
<1>14. m.open = now.open
  <2>1. Relinks(now, q1, j, now.inode[j].nlink - 1)
    BY <1>2, <1>5, <1>12, RemoveEntryRelinks
  <2>2. Frees(q1, t1, i)
    BY <1>7, <1>12, <2>1, FreeInode DEF Relinks
  <2>3. m.open = t1.open
    BY <1>12, <2>2 DEF free_mapping, Frees, MemoryOK, TableNames
  <2>4. QED
    BY <2>1, <2>2, <2>3 DEF Relinks, Frees
<1>15. QED
  BY <1>1, <1>3, <1>4, <1>13, <1>14, SameCarries

LEMMA WriteCarries ==
    ASSUME SfsInv, NEW fh \in DOMAIN fds, NEW n \in WriteSizes, NEW off \in {0, SizeOf(fh)}, write(fh, off, n),
           fds' = fds
    PROVE  Carries
<1> DEFINE i == open_files[fh]
           size == inode_table[i].size
           more == Max({0, BlocksFor(off + n) - BlocksFor(size)})
           grown == grow(Now, i, more)
           data == [k \in 1..n |-> Byte(fds[fh], off + k - 1)]
           m == IF grown.ok THEN put_data(grown.m, i, off, data) ELSE grown.m
<1>1. i \in Inodes /\ size \in Nat
  BY OpenFile
<1>2. off \in Nat /\ n \in Nat \ {0} /\ off + n \in Nat
  BY <1>1, SfsAssumption DEF SizeOf
<1>3. more \in Nat
  <2>1. BlocksFor(off + n) - BlocksFor(size) \in Int
    BY <1>1, <1>2, BlocksForIsInt
  <2>2. QED
    BY <2>1, MaxIsNat
<1>4. Len(data) = n /\ \A k \in 1..Len(data) : Harmless(data[k])
  <2>1. Len(data) = n
    BY <1>2, LenData
  <2>2. \A k \in 1..n : data[k] = Byte(fds[fh], off + k - 1)
    OBVIOUS
  <2> HIDE DEF data
  <2>3. QED
    BY <2>1, <2>2, HarmlessCells
<1>5. Hold(m) /\ Fits(m)
  BY DEF write, Become
<1>6. m.open = Now.open
  <2>1. MemoryOK(Now) /\ Writes(Now, grown.m)
    BY <1>1, <1>3, GrowWrites DEF SfsInv
  <2> HIDE DEF grown, more, i
  <2>2. Writes(grown.m, put_data(grown.m, i, off, data))
    <3>1. MemoryOK(grown.m)
      BY <2>1 DEF Writes
    <3> HIDE DEF data
    <3>2. QED
      BY <1>1, <1>2, <1>4, <3>1, PutDataWrites
  <2>3. QED
    BY <2>1, <2>2 DEF Writes
<1> HIDE DEF more, data, size
<1>7. MemoryOK(Now)
  BY DEF SfsInv
<1>8. GrowTends(Now, i, grown)
  BY <1>1, <1>3, <1>7, GrowTendsOn
<1> HIDE DEF grown, i
<1>9. MemoryOK(grown.m) /\ Tends(Now, grown.m, i)
  BY <1>8 DEF GrowTends, GrowOK, Writes
<1> DEFINE r == put_data(grown.m, i, off, data)
<1>10. Tends(grown.m, r, i)
  BY <1>1, <1>2, <1>4, <1>9, PutDataTends
<1>11. Tends(Now, r, i)
  <2> HIDE DEF r
  <2>1. QED
    BY <1>9, <1>10, TendsTwice
<1>12. Follows(Now, m)
  BY <1>5, <1>9, <1>11 DEF Tends
<1> HIDE DEF m
<1>13. QED
  BY <1>5, <1>6, <1>12, SameCarries

LEMMA CarelessCarries ==
    ASSUME SfsInv, NEW fh \in DOMAIN fds, NEW n \in WriteSizes, NEW off \in {0, SizeOf(fh)},
           sfs_write_careless(fh, n, off)
    PROVE  Carries \/ (Fails("wild block") /\ "careless" \in faults')
<1>1. (write(fh, off, n) \/ Become(Fail("wild block"))) /\ fds' = fds /\ "careless" \in faults'
  BY DEF sfs_write_careless
<1>2. CASE write(fh, off, n)
  BY <1>1, <1>2, WriteCarries
<1>3. CASE Become(Fail("wild block"))
  <2>1. PICK m : m = Fail("wild block") /\ Hold(m) /\ Fits(m)
    BY <1>3 DEF Become
  <2>2. QED
    BY <1>1, <2>1, FailFails
<1>4. QED
  BY <1>1, <1>2, <1>3

LEMMA OpenCarries ==
    ASSUME MemoryOK(Now), NEW p, sfs_open(p)
    PROVE  Carries
<1> DEFINE fh == get_fh(Now)
           next == [Now EXCEPT !.open[fh] = InodeOf(Now, p)]
<1>1. PICK m : m = next /\ Hold(m) /\ Fits(m)
  BY DEF sfs_open, Become
<1>2. SameBlocks(Now, m) /\ m.open = [Now.open EXCEPT ![fh] = InodeOf(Now, p)]
  BY <1>1 DEF SameBlocks, Now, Memory
<1>3. fds' = IF fh = 0 THEN handle(fh, p) ELSE fds
  BY DEF sfs_open
<1> HIDE DEF fh
<1>4. fh # 0 => m.open[0] = open_files[0]
  BY <1>2, NowParts DEF MemoryOK, TablesOK
<1>5. fh = 0 => 0 \in DOMAIN fds'
  BY <1>3 DEF handle
<1>6. HandleInUse => (~(m.open[0] < 0) => 0 \in DOMAIN fds')
  BY <1>3, <1>4, <1>5 DEF HandleInUse
<1>7. Follows(Now, m)
  BY <1>2, SameFollows
<1>8. QED
  BY <1>1, <1>6, <1>7 DEF Carries

LEMMA ReleaseCarries ==
    ASSUME MemoryOK(Now), NEW fh \in DOMAIN fds, sfs_release(fh)
    PROVE  Carries /\ disk' = disk
<1>1. PICK m : m = free_fh(Now, fh) /\ Hold(m) /\ Fits(m)
  BY DEF sfs_release, Become
<1>2. SameBlocks(Now, m) /\ m.open = [Now.open EXCEPT ![fh] = -1]
  BY <1>1 DEF SameBlocks, Now, Memory, free_fh
<1>3. DOMAIN fds' = DOMAIN fds \ {fh}
  BY DEF sfs_release
<1>4. 0 \in DOMAIN Now.open
  BY ConstantTypes, SfsAssumption DEF MemoryOK, TablesOK, Handles
<1>5. HandleInUse => (~(m.open[0] < 0) => 0 \in DOMAIN fds')
  <2>1. CASE fh = 0
    BY <1>2, <1>4, <2>1
  <2>2. CASE fh # 0
    BY <1>2, <1>3, <1>4, <2>2, NowParts DEF HandleInUse
  <2>3. QED
    BY <2>1, <2>2
<1>6. Follows(Now, m)
  BY <1>2, SameFollows
<1>7. QED
  BY <1>1, <1>2, <1>5, <1>6, NowParts DEF Carries, Hold, SameBlocks

-----------------------------------------------------------------------------
\* The key, the tables and what went wrong: the invariant.

LEMMA RemovedCarries ==
    ASSUME SfsInv, NEW own, Held(Now, own), NEW p \in Paths, sfs_unlink(p) \/ sfs_rmdir(p)
    PROVE  Carries
<1>1. Named(Now, p) /\ remove(p)
  BY DEF sfs_unlink, sfs_rmdir, Sees
<1>2. QED
  BY <1>1, RemoveCarries

LEMMA AppendCarries ==
    ASSUME SfsInv, NEW fh \in DOMAIN fds, NEW n \in WriteSizes, sfs_write(fh, n)
    PROVE  Carries
<1>1. PICK off : off = SizeOf(fh)
  OBVIOUS
<1>2. off \in {0, SizeOf(fh)} /\ write(fh, off, n) /\ fds' = fds
  BY <1>1 DEF sfs_write
<1>3. QED
  BY <1>2, WriteCarries

\* How a handler may end.
Outcome ==
    \/ Carries
    \/ Fails("no handle") /\ get_fh(Now) = -1
    \/ Fails("no inode") /\ get_inode(Now) = -1
    \/ Fails("wild block") /\ "careless" \in faults'

\* After a crash clients only look, and let go of what they have opened.
LEMMA AfterCrash ==
    ASSUME Handler, "crash" \in faults
    PROVE  \E fh \in DOMAIN fds : sfs_release(fh)
<1>1. ~Settled
  BY DEF Settled
<1>2. \A p : ~sfs_create(p) /\ ~sfs_mkdir(p) /\ ~sfs_open(p) /\ ~sfs_unlink(p) /\ ~sfs_rmdir(p)
  BY <1>1 DEF sfs_create, sfs_mkdir, sfs_open, sfs_unlink, sfs_rmdir
<1>3. \A fh, n, off : ~write(fh, off, n)
  BY <1>1 DEF write
<1>4. \A fh, n, off : ~sfs_write(fh, n) /\ ~sfs_write_careless(fh, n, off)
  BY <1>1, <1>3, Zenon DEF sfs_write, sfs_write_careless
<1>5. QED
  BY <1>2, <1>4 DEF Handler

LEMMA HandlerOutcome ==
    ASSUME SfsInv, HeldInv, Handler
    PROVE  Outcome /\ ("crash" \in faults => disk' = disk)
<1>1. MemoryOK(Now) /\ mounted /\ undefined = ""
  BY HandlerServes DEF SfsInv
<1>2. CASE "crash" \in faults
  BY <1>1, <1>2, AfterCrash, ReleaseCarries DEF Outcome
<1>3. CASE "crash" \notin faults
  <2>1. PICK own : Held(Now, own)
    BY <1>1, <1>3 DEF HeldInv, InOrder
  <2>2. ASSUME NEW p \in Files, sfs_create(p) PROVE Outcome
    BY <2>1, <2>2, CreateCarries DEF Outcome
  <2>3. ASSUME NEW p \in Dirs, sfs_mkdir(p) PROVE Outcome
    BY <2>3, MkdirCarries DEF Outcome
  <2>4. ASSUME NEW p \in Paths \ Opened, sfs_open(p) \/ sfs_unlink(p) \/ sfs_rmdir(p) PROVE Outcome
    BY <1>1, <2>1, <2>4, OpenCarries, RemovedCarries DEF Outcome
  <2>5. ASSUME NEW fh \in DOMAIN fds, sfs_release(fh) PROVE Outcome
    BY <1>1, <2>5, ReleaseCarries DEF Outcome
  <2>6. ASSUME NEW fh \in DOMAIN fds, NEW n \in WriteSizes, sfs_write(fh, n) PROVE Outcome
    BY <2>6, AppendCarries DEF Outcome
  <2>7. ASSUME NEW fh \in DOMAIN fds, NEW n \in WriteSizes, NEW off \in {0, SizeOf(fh)}, sfs_write_careless(fh, n, off)
        PROVE  Outcome
    BY <2>7, CarelessCarries DEF Outcome
  <2>8. QED
    BY <1>3, <2>2, <2>3, <2>4, <2>5, <2>6, <2>7 DEF Handler
<1>4. QED
  BY <1>2, <1>3

\* No block but the first of those kept for the tables looks like it.
NoKey(d) == \A b \in Blocks, k \in 1..BlockSize : d[b][k] # <<"key">>

\* Nothing has been put into the blocks kept for the tables, and what left defined behaviour
\* did so for want of a handle or an inode, in a directory, or on a client's account.
CauseInv ==
    /\ Fits(Now) /\ HandleInUse /\ saved.open[0] < 0
    /\ undefined = "" => NoKey(disk) \/ TablesIntact
    /\ undefined \in {"", "no handle", "no inode", "buffer overrun", "wild block"}
    /\ undefined = "no handle" => get_fh(Now) = -1
    /\ undefined = "no inode" => get_inode(Now) = -1
    /\ undefined = "wild block" => "careless" \in faults

LEMMA NoKeyFollows ==
    ASSUME NEW d, NEW e, NoKey(d), DiskFrom(d, e)
    PROVE  NoKey(e)
<1>1. \A c : Harmless(c) => c # <<"key">>
  BY DEF Harmless
<1>2. \A c : From(d, c) => c # <<"key">>
  BY <1>1 DEF From, NoKey
<1>3. QED
  BY <1>2 DEF NoKey, DiskFrom, BlockFrom

LEMMA TablesStay ==
    ASSUME SfsInv, HeldInv, TablesIntact, Handler
    PROVE  undefined' = "" => TablesIntact'
<1>1. ASSUME disk' = disk PROVE TablesIntact'
  BY <1>1 DEF TablesIntact
<1>2. CASE "crash" \in faults
  BY <1>1, <1>2, HandlerOutcome
<1>3. ASSUME "crash" \notin faults, undefined' = "" PROVE TablesIntact'
  <2>1. mounted /\ undefined = ""
    BY HandlerServes
  <2>2. PICK own : Held(Now, own) /\ Fits(Now)
    BY <1>3, <2>1 DEF HeldInv, InOrder
  <2>3. Moves(own)
    BY <2>2, HandlerMoves
  <2>4. PICK m, I : Hold(m) /\ Fits(m) /\ ChangesTo(Now, own, m, I)
    BY <2>3 DEF Moves
  <2>5. m.disk = disk' /\ m.ub = ""
    BY <1>3, <2>4 DEF Hold
  <2>6. PICK own2 : Changes(Now, own, m, own2, I)
    BY <2>4, <2>5 DEF ChangesTo
  <2>7. \A b \in SystemBlock .. NumBlocks - 1 : m.disk[b] = disk[b]
    <3>1. SUFFICES ASSUME NEW b \in SystemBlock .. NumBlocks - 1 PROVE m.disk[b] = disk[b]
      OBVIOUS
    <3>2. b \in Blocks /\ ~Now.map[b] /\ ~m.map[b]
      BY <2>2, <2>4, Spaces DEF Fits
    <3>3. own[b] = Free /\ own2[b] = Free
      BY <2>2, <2>6, <3>2 DEF Changes, Held
    <3>4. m.disk[b] = Now.disk[b]
      BY <2>6, <3>2, <3>3 DEF Changes
    <3>5. QED
      BY <3>4, NowParts
  <2>8. QED
    BY <2>5, <2>7 DEF TablesIntact
<1>4. QED
  BY <1>2, <1>3

\* The parts of CauseInv that are about what is in use, and about what went wrong.
Steady(m) == Fits(m) /\ (undefined' = "" => NoKey(disk') \/ TablesIntact') /\ (~(m.open[0] < 0) => 0 \in DOMAIN fds')
Explained(m) ==
    /\ m.ub \in {"", "no handle", "no inode", "buffer overrun", "wild block"}
    /\ m.ub = "no handle" => get_fh(m) = -1
    /\ m.ub = "no inode" => get_inode(m) = -1
    /\ m.ub = "wild block" => "careless" \in faults'

LEMMA CauseNext ==
    ASSUME NEW m, Hold(m), Steady(m), Explained(m), saved'.open[0] < 0
    PROVE  CauseInv'
<1>1. PICK next : next = Now'
  OBVIOUS
<1>2. /\ next.inode = m.inode /\ next.open = m.open /\ next.map = m.map
      /\ next.open = open_files' /\ undefined' = m.ub
  BY <1>1 DEF Hold, Now, Memory, Tables
<1>3. Fits(next) /\ (get_fh(m) = -1 => get_fh(next) = -1) /\ (get_inode(m) = -1 => get_inode(next) = -1)
  BY <1>2 DEF Steady, Fits, get_fh, get_inode
<1>4. Fits(Now)' /\ (get_fh(m) = -1 => (get_fh(Now) = -1)') /\ (get_inode(m) = -1 => (get_inode(Now) = -1)')
  BY <1>1, <1>3
<1>5. HandleInUse'
  BY <1>2 DEF Steady, HandleInUse
<1>6. (undefined = "" => NoKey(disk) \/ TablesIntact)'
  BY DEF Steady
<1>7. QED
  BY <1>2, <1>4, <1>5, <1>6 DEF CauseInv, Explained

LEMMA HandlerCause ==
    ASSUME SfsInv, HeldInv, CauseInv, Handler
    PROVE  CauseInv'
<1>1. undefined = "" /\ saved' = saved
  BY HandlerServes
<1>2. saved'.open[0] < 0
  BY <1>1 DEF CauseInv
<1>3. HandleInUse /\ (NoKey(disk) \/ TablesIntact) /\ (~(open_files[0] < 0) => 0 \in DOMAIN fds)
  BY <1>1 DEF CauseInv, HandleInUse
<1>4. Now.ub = "" /\ Now.open = open_files
  BY <1>1 DEF Now, Memory, Tables
<1>5. CASE Carries
  <2>1. PICK m : /\ Hold(m) /\ Fits(m) /\ Follows(Now, m)
                 /\ HandleInUse => (~(m.open[0] < 0) => 0 \in DOMAIN fds')
    BY <1>5 DEF Carries
  <2>2. m.ub \in {"", "buffer overrun"} /\ DiskFrom(disk, disk')
    BY <1>4, <2>1, NowParts DEF Follows, Hold
  <2>3. Explained(m)
    BY <2>2 DEF Explained
  <2>4. undefined' = "" => NoKey(disk') \/ TablesIntact'
    BY <1>3, <2>2, NoKeyFollows, TablesStay
  <2>5. Steady(m)
    BY <1>3, <2>1, <2>4 DEF Steady
  <2>6. QED
    BY <1>2, <2>1, <2>3, <2>5, CauseNext
<1>6. ASSUME NEW u, u # "", Fails(u) PROVE \E m : m = Fail(u) /\ Hold(m) /\ Steady(m)
  <2>1. PICK m : m = Fail(u)
    OBVIOUS
  <2>2. m.open = open_files /\ m.map = Now.map /\ m.ub = u
    BY <1>4, <2>1, FailParts
  <2>3. Hold(m) /\ Fits(m) /\ fds' = fds /\ undefined' # ""
    BY <1>6, <2>1, <2>2 DEF Fails, Fits, Hold
  <2>4. Steady(m)
    BY <1>3, <2>2, <2>3 DEF Steady
  <2>5. QED
    BY <2>1, <2>3, <2>4
<1>7. CASE Fails("no handle") /\ get_fh(Now) = -1
  <2>1. PICK m : m = Fail("no handle") /\ Hold(m) /\ Steady(m)
    BY <1>6, <1>7
  <2>2. m.open = Now.open /\ m.ub = "no handle"
    BY <2>1, FailParts
  <2>3. Explained(m)
    BY <1>7, <2>2 DEF Explained, get_fh
  <2>4. QED
    BY <1>2, <2>1, <2>3, CauseNext
<1>8. CASE Fails("no inode") /\ get_inode(Now) = -1
  <2>1. PICK m : m = Fail("no inode") /\ Hold(m) /\ Steady(m)
    BY <1>6, <1>8
  <2>2. m.inode = Now.inode /\ m.ub = "no inode"
    BY <2>1, FailParts
  <2>3. Explained(m)
    BY <1>8, <2>2 DEF Explained, get_inode
  <2>4. QED
    BY <1>2, <2>1, <2>3, CauseNext
<1>9. CASE Fails("wild block") /\ "careless" \in faults'
  <2>1. PICK m : m = Fail("wild block") /\ Hold(m) /\ Steady(m)
    BY <1>6, <1>9
  <2>2. m.ub = "wild block"
    BY <2>1, FailParts
  <2>3. Explained(m)
    BY <1>9, <2>2 DEF Explained
  <2>4. QED
    BY <1>2, <2>1, <2>3, CauseNext
<1>10. QED
  BY <1>5, <1>7, <1>8, <1>9, HandlerOutcome DEF Outcome

LEMMA KeyOrNot ==
    /\ NoKey(disk) => ~KeyFound
    /\ TablesIntact => KeyFound
<1>1. SystemBlock \in Blocks \ {0} /\ SystemBlock \in SystemBlock .. NumBlocks - 1 /\ 1 \in 1..BlockSize
  BY Spaces, ConstantTypes
<1>2. SystemCells(SystemBlock)[1] = <<"key">>
  BY <1>1 DEF SystemCells
<1>3. QED
  BY <1>1, <1>2 DEF NoKey, TablesIntact, KeyFound

LEMMA ZeroHandle ==
    ASSUME NEW f, f = [fh \in Handles |-> -1]
    PROVE  f[0] < 0
<1>1. 0 \in Handles
  BY ConstantTypes, SfsAssumption DEF Handles
<1>2. QED
  BY <1>1

\* What a first mount writes is no key.
LEMMA FirstMountParts ==
    ASSUME DiskOK(disk)
    PROVE  /\ first_mount.ub = "" /\ first_mount.open = [fh \in Handles |-> -1]
           /\ DiskFrom(disk, first_mount.disk)
<1> DEFINE z == Memory(ZeroTables, disk, "")
           n == new_inode(z, 0, TRUE, 2, 5, 1)
           e == enter_name(n, Root, 0)
           c == [k \in 1..BlockSize |-> IF k =< 4 THEN Dots(0, 0)[k] ELSE IF k = 5 THEN Nul ELSE Garbage]
<1>1. PICK f : f = first_mount
  OBVIOUS
<1>2. z.ub = "" /\ z.disk = disk /\ z.open = [fh \in Handles |-> -1]
      /\ DOMAIN z = TableNames \cup {"disk", "ub"}
  BY DEF Memory, ZeroTables, TableNames
<1> HIDE DEF z
<1>3. n.ub = "" /\ n.disk = disk /\ n.open = z.open /\ DOMAIN n = TableNames \cup {"disk", "ub"}
  BY <1>2 DEF new_inode, TableNames
<1> HIDE DEF n
<1>4. e.ub = "" /\ e.disk = disk /\ e.open = z.open /\ DOMAIN e = TableNames \cup {"disk", "ub"}
  BY <1>3 DEF enter_name, TableNames
<1> HIDE DEF e
<1>5. f = [e EXCEPT !.inode[0].blocks[0] = 0, !.map[0] = TRUE, !.disk[0] = c]
  BY <1>1 DEF first_mount, e, n, z
<1> HIDE DEF c
<1>6. f.ub = "" /\ f.open = z.open /\ f.disk = [disk EXCEPT ![0] = c]
  BY <1>4, <1>5 DEF TableNames
<1>7. \A k \in 1..BlockSize : Harmless(c[k])
  <2>1. Dots(0, 0)[1] = Token(".") /\ Dots(0, 0)[2] = Token(ToString(0)) /\ Dots(0, 0)[3] = Token("..")
        /\ Dots(0, 0)[4] = Token(ToString(0))
    BY DEF Dots
  <2>2. \A k \in 1..BlockSize : c[k] = IF k =< 4 THEN Dots(0, 0)[k] ELSE IF k = 5 THEN Nul ELSE Garbage
    BY DEF c
  <2>3. \A k \in 1..BlockSize : k =< 4 => k = 1 \/ k = 2 \/ k = 3 \/ k = 4
    BY ConstantTypes
  <2>4. \A k \in 1..BlockSize : c[k] = Nul \/ c[k] = Garbage \/ \E x : c[k] = Token(x)
    BY <2>1, <2>2, <2>3
  <2>5. QED
    BY <2>4, HarmlessCells
<1>8. DiskFrom(disk, f.disk)
  <2>1. SUFFICES ASSUME NEW b \in Blocks, NEW k \in 1..BlockSize PROVE From(disk, f.disk[b][k])
    BY DEF DiskFrom, BlockFrom
  <2>2. CASE b = 0
    BY <1>6, <1>7, <2>2 DEF From, DiskOK
  <2>3. CASE b # 0
    BY <1>6, <2>3 DEF From, DiskOK
  <2>4. QED
    BY <2>2, <2>3
<1>9. QED
  BY <1>1, <1>2, <1>6, <1>8

LEMMA MountCause ==
    ASSUME SfsInv, CauseInv, sfs_init
    PROVE  CauseInv'
<1> DEFINE u == IF TablesIntact THEN "" ELSE "tables overwritten"
           next == IF ~KeyFound THEN first_mount ELSE Memory(saved, disk, u)
<1>1. undefined = "" /\ Become(next) /\ saved' = saved
  BY DEF sfs_init
<1>2. PICK m : m = next /\ Hold(m) /\ Fits(m)
  BY <1>1 DEF Become
<1>3. saved'.open[0] < 0 /\ saved.open[0] < 0 /\ (NoKey(disk) \/ TablesIntact)
  BY <1>1 DEF CauseInv
<1>4. CASE NoKey(disk)
  <2>1. m = first_mount
    BY <1>2, <1>4, KeyOrNot
  <2>2. DiskOK(disk)
    BY NowParts DEF SfsInv, MemoryOK
  <2>3. m.ub = "" /\ m.open = [fh \in Handles |-> -1] /\ DiskFrom(disk, m.disk)
    BY <2>1, <2>2, FirstMountParts
  <2>4. m.open[0] < 0
    BY <2>3, ZeroHandle
  <2>5. NoKey(disk')
    BY <1>2, <1>4, <2>3, NoKeyFollows DEF Hold
  <2>6. Steady(m)
    BY <1>2, <2>4, <2>5 DEF Steady
  <2>7. Explained(m)
    BY <2>3 DEF Explained
  <2>8. QED
    BY <1>2, <1>3, <2>6, <2>7, CauseNext
<1>5. CASE TablesIntact
  <2>1. m = Memory(saved, disk, "")
    BY <1>2, <1>5, KeyOrNot
  <2>2. m.ub = "" /\ m.open = saved.open /\ m.disk = disk
    BY <2>1 DEF Memory
  <2>3. TablesIntact'
    BY <1>2, <1>5, <2>2 DEF TablesIntact, Hold
  <2>4. Steady(m)
    BY <1>2, <1>3, <2>2, <2>3 DEF Steady
  <2>5. Explained(m)
    BY <2>2 DEF Explained
  <2>6. QED
    BY <1>2, <1>3, <2>4, <2>5, CauseNext
<1>6. QED
  BY <1>3, <1>4, <1>5

\* Between an unmount or a crash and the next mount nothing is in use.
LEMMA GoneCause ==
    ASSUME NEW tables, NEW d, Gone(tables, d), tables.open[0] < 0, NoKey(d) \/ TablesIntact'
    PROVE  CauseInv'
<1>1. PICK m : m = Memory(ZeroTables, d, "") /\ Hold(m)
  BY DEF Gone
<1>2. m.ub = "" /\ m.open = [fh \in Handles |-> -1] /\ m.map = [b \in Blocks |-> FALSE] /\ m.disk = d
  BY <1>1 DEF Memory, ZeroTables
<1>3. disk' = d /\ saved' = tables
  BY <1>1, <1>2 DEF Gone, Hold
<1>4. Fits(m)
  BY <1>2, Spaces DEF Fits
<1>5. m.open[0] < 0
  BY <1>2, ZeroHandle
<1>6. Steady(m)
  BY <1>3, <1>4, <1>5 DEF Steady
<1>7. Explained(m)
  BY <1>2 DEF Explained
<1>8. QED
  BY <1>1, <1>3, <1>6, <1>7, CauseNext

LEMMA UnmountCause ==
    ASSUME CauseInv, sfs_destroy
    PROVE  CauseInv'
<1> DEFINE d == [b \in Blocks |-> IF b >= SystemBlock THEN SystemCells(b) ELSE disk[b]]
<1>1. fds = <<>> /\ Gone(Tables, d) /\ disk' = d
  BY DEF sfs_destroy, Gone, Hold, Memory
<1>2. TablesIntact'
  <2>1. \A b \in SystemBlock .. NumBlocks - 1 : b \in Blocks /\ b >= SystemBlock
    BY Spaces
  <2>2. QED
    BY <1>1, <2>1 DEF TablesIntact
<1>3. Tables.open[0] < 0
  <2>1. DOMAIN fds = {}
    BY <1>1
  <2>2. QED
    BY <2>1 DEF CauseInv, HandleInUse, Tables
<1>4. PICK tables, e : tables = Tables /\ e = d
  OBVIOUS
<1>5. QED
  BY <1>1, <1>2, <1>3, <1>4, GoneCause

LEMMA CrashCause ==
    ASSUME CauseInv, Crash
    PROVE  CauseInv'
<1>1. PICK tables, e : tables = saved /\ e = disk
  OBVIOUS
<1>2. Gone(tables, e) /\ disk' = disk /\ undefined = ""
  BY <1>1 DEF Crash, Gone, Hold, Memory, Serving
<1>3. tables.open[0] < 0 /\ (NoKey(e) \/ TablesIntact')
  BY <1>1, <1>2 DEF CauseInv, TablesIntact
<1>4. QED
  BY <1>2, <1>3, GoneCause

LEMMA CauseStarts ==
    ASSUME Init
    PROVE  CauseInv
<1>1. disk = [b \in Blocks |-> Zero] /\ saved = ZeroTables /\ undefined = "" /\ open_files = ZeroTables.open
      /\ disk_blocks = ZeroTables.map
  BY DEF Init
<1>2. NoKey(disk)
  <2>1. \A k \in 1..BlockSize : Zero[k] = Nul
    BY DEF Zero
  <2>2. QED
    BY <1>1, <2>1, HarmlessCells DEF NoKey, Harmless
<1>3. ZeroTables.open = [fh \in Handles |-> -1] /\ ZeroTables.map = [b \in Blocks |-> FALSE]
  BY DEF ZeroTables
<1>4. Fits(Now)
  <2>1. Now.map = [b \in Blocks |-> FALSE]
    BY <1>1, <1>3, NowParts
  <2>2. QED
    BY <2>1, Spaces DEF Fits
<1>5. HandleInUse /\ saved.open[0] < 0
  <2>1. PICK f, g : f = open_files /\ g = saved.open
    OBVIOUS
  <2>2. f = [fh \in Handles |-> -1] /\ g = [fh \in Handles |-> -1]
    BY <1>1, <1>3, <2>1
  <2>3. f[0] < 0 /\ g[0] < 0
    BY <2>2, ZeroHandle
  <2>4. QED
    BY <2>1, <2>3 DEF HandleInUse
<1>6. QED
  BY <1>1, <1>2, <1>4, <1>5 DEF CauseInv

LEMMA CauseStep ==
    ASSUME SfsInv, HeldInv, CauseInv, [Next]_vars
    PROVE  CauseInv'
<1>1. CASE Handler
  BY <1>1, HandlerCause
<1>2. CASE sfs_init
  BY <1>2, MountCause
<1>3. CASE sfs_destroy
  BY <1>3, UnmountCause
<1>4. CASE Crash
  BY <1>4, CrashCause
<1>5. CASE UNCHANGED vars
  <2>1. /\ Now' = Now /\ undefined' = undefined /\ fds' = fds /\ saved' = saved /\ faults' = faults /\ disk' = disk
        /\ open_files' = open_files
    BY <1>5 DEF vars, Now, Tables, Memory
  <2>2. (Fits(Now)' <=> Fits(Now)) /\ (HandleInUse' <=> HandleInUse) /\ (NoKey(disk)' <=> NoKey(disk))
        /\ (TablesIntact' <=> TablesIntact) /\ get_fh(Now)' = get_fh(Now) /\ get_inode(Now)' = get_inode(Now)
    BY <2>1 DEF HandleInUse, TablesIntact
  <2>3. QED
    BY <2>1, <2>2 DEF CauseInv
<1>6. Handler \/ sfs_init \/ sfs_destroy \/ Crash \/ UNCHANGED vars
  BY DEF Next, Handler
<1>7. QED
  BY <1>1, <1>2, <1>3, <1>4, <1>5, <1>6

-----------------------------------------------------------------------------
\* Undefined behaviour has a cause.

LEMMA CauseInvariant == Spec => []CauseInv
<1>1. Init => CauseInv
  BY CauseStarts
<1>2. SfsInv /\ HeldInv /\ CauseInv /\ [Next]_vars => CauseInv'
  BY CauseStep
<1>3. QED
  BY <1>1, <1>2, SfsInvariant, OrderInvariant, PTL DEF Spec

\* Every name has an inode of its own.
LEMMA NamesCountInodes ==
    ASSUME NamesOK(Now)
    PROVE  /\ NamedInodes \subseteq Inodes
           /\ Cardinality(NamedPaths) = Cardinality(NamedInodes)
<1> DEFINE f == [p \in NamedPaths |-> InodeOf(Now, p)]
<1>1. \A p \in NamedPaths : InodeOf(Now, p) = Now.names[path_lookup(Now, p)].ino
  BY DEF InodeOf
<1>2. \A p \in NamedPaths : InodeOf(Now, p) \in Inodes
  BY <1>1, NamedEntry DEF NamesOK
<1>3. NamedInodes \subseteq Inodes
  BY <1>2 DEF NamedInodes
<1>4. \A p, q \in NamedPaths : f[p] = f[q] => p = q
  <2>1. SUFFICES ASSUME NEW p \in NamedPaths, NEW q \in NamedPaths, InodeOf(Now, p) = InodeOf(Now, q) PROVE p = q
    OBVIOUS
  <2>2. PICK k, j : k = path_lookup(Now, p) /\ j = path_lookup(Now, q)
    OBVIOUS
  <2>3. k \in Inodes /\ Taken(Now, k) /\ Now.names[k].path = p /\ j \in Inodes /\ Taken(Now, j) /\ Now.names[j].path = q
    BY <2>2, NamedEntry
  <2>4. Now.names[k].ino = Now.names[j].ino
    BY <1>1, <2>1, <2>2
  <2>5. QED
    BY <2>3, <2>4 DEF NamesOK
<1>5. f \in [NamedPaths -> NamedInodes] /\ \A i \in NamedInodes : \E p \in NamedPaths : f[p] = i
  BY DEF NamedInodes
<1> HIDE DEF f
<1>6. f \in Bijection(NamedPaths, NamedInodes)
  BY <1>4, <1>5 DEF Bijection, Injection, Surjection, IsInjective
<1>7. ExistsBijection(NamedInodes, NamedPaths)
  BY <1>6, Fun_ExistsBijSymmetric DEF ExistsBijection
<1>8. IsFiniteSet(NamedInodes)
  <2>1. IsFiniteSet(Inodes)
    BY ConstantTypes, FS_Interval DEF Inodes
  <2>2. QED
    BY <1>3, <2>1, FS_Subset
<1>9. QED
  BY <1>3, <1>7, <1>8, FS_Bijection

LEMMA NoneFound ==
    ASSUME NEW S, S \subseteq Nat, FirstOf(S) = -1
    PROVE  S = {}
<1>1. FirstOf(S) \notin S
  OBVIOUS
<1>2. QED
  BY <1>1, FirstFound

LEMMA NoInodeCounts ==
    ASSUME NamesOK(Now), get_inode(Now) = -1
    PROVE  Cardinality(NamedPaths) + Cardinality(Leaked) = MaxNodes
<1>1. Allocated = Inodes
  <2>1. \A i \in Inodes : inode_table[i].avail
    <3> DEFINE S == {i \in Inodes : ~Now.inode[i].avail}
    <3>1. S \subseteq Nat /\ FirstOf(S) = -1
      BY ConstantTypes DEF Inodes, get_inode
    <3> HIDE DEF S
    <3>2. S = {}
      BY <3>1, NoneFound
    <3>3. QED
      BY <3>2, NowParts DEF S
  <2>2. QED
    BY <2>1 DEF Allocated
<1>2. MaxNodes \in Nat /\ IsFiniteSet(Inodes) /\ Cardinality(Inodes) = MaxNodes
  <2>1. MaxNodes \in Nat \ {0} /\ 0 \in Int /\ MaxNodes - 1 \in Int /\ ~(0 > MaxNodes - 1) /\ MaxNodes - 1 - 0 + 1 = MaxNodes
    BY ConstantTypes
  <2>2. QED
    BY <2>1, FS_Interval DEF Inodes
<1>3. NamedInodes \subseteq Inodes /\ Cardinality(NamedPaths) = Cardinality(NamedInodes)
  BY NamesCountInodes
<1>4. PICK N, L, I : N = NamedInodes /\ L = Leaked /\ I = Inodes
  OBVIOUS
<1>5. L = I \ N /\ N \subseteq I /\ N \cup L = I /\ N \cap L = {}
  BY <1>1, <1>3, <1>4 DEF Leaked
<1>6. IsFiniteSet(N) /\ IsFiniteSet(L)
  BY <1>2, <1>4, <1>5, FS_Subset
<1>7. Cardinality(I) = Cardinality(N) + Cardinality(L) - Cardinality({})
  BY <1>5, <1>6, FS_Union
<1>8. Cardinality(N) \in Nat /\ Cardinality(L) \in Nat /\ Cardinality({}) = 0
  BY <1>6, FS_CardinalityType, FS_EmptySet
<1>9. Cardinality(N) + Cardinality(L) = Cardinality(I)
  BY <1>7, <1>8
<1>10. QED
  BY <1>2, <1>3, <1>4, <1>9

LEMMA NoHandleFree ==
    ASSUME MemoryOK(Now), HandleInUse, get_fh(Now) = -1
    PROVE  0 \in DOMAIN fds
<1>1. 0 \in Handles /\ Handles \subseteq Nat
  BY ConstantTypes, SfsAssumption DEF Handles
<1> DEFINE S == {fh \in Handles : Now.open[fh] < 0}
<1>2. S \subseteq Nat /\ FirstOf(S) = -1
  BY <1>1 DEF get_fh
<1> HIDE DEF S
<1>3. S = {}
  BY <1>2, NoneFound
<1>4. ~(open_files[0] < 0)
  BY <1>1, <1>3, NowParts DEF S
<1>5. QED
  BY <1>4 DEF HandleInUse

\* However large the disk and the tables are, whatever clients do and wherever the process is
\* killed, the program leaves defined behaviour only for want of a handle while the first one
\* is in use, for want of an inode when names and removed directories have them all, where a
\* directory's buffer is too small, or where a client goes past the largest file.  It takes no
\* block for free that is not on the disk, and finds at every mount the tables of the last
\* unmount (sfs.c:337-364, 391-396, 158-236).
THEOREM UndefinedHasACauseHolds == Spec => []UndefinedHasACause
<1>1. SfsInv /\ CauseInv => UndefinedHasACause
  <2>1. SUFFICES ASSUME SfsInv, CauseInv PROVE UndefinedHasACause
    OBVIOUS
  <2>2. MemoryOK(Now) /\ NamesOK(Now)
    BY <2>1 DEF SfsInv, NameInv
  <2>3. undefined = "no handle" => 0 \in DOMAIN fds
    BY <2>1, <2>2, NoHandleFree DEF CauseInv
  <2>4. undefined = "no inode" => Cardinality(NamedPaths) + Cardinality(Leaked) = MaxNodes
    BY <2>1, <2>2, NoInodeCounts DEF CauseInv
  <2>5. QED
    BY <2>1, <2>3, <2>4 DEF CauseInv, UndefinedHasACause
<1>2. QED
  BY <1>1, SfsInvariant, CauseInvariant, PTL

=============================================================================
