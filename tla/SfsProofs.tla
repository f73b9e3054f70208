----------------------------- MODULE SfsProofs -----------------------------
(***************************************************************************)
(* The types, the names and the links of asst3's file system, for disks,   *)
(* files and tables of any size and any paths.                             *)
(***************************************************************************)
EXTENDS SfsProperties, FiniteSetTheorems, SequenceTheorems, WellFoundedInduction, TLAPS

\* A set of numbers that is not empty has a least one.
LEMMA LeastNumber ==
    ASSUME NEW T, T \subseteq Nat, T # {}
    PROVE  \E n \in T : \A m \in T : n <= m
<1> DEFINE R == OpToRel(<, Nat)
<1>1. IsWellFoundedOn(R, Nat)
  BY NatLessThanWellFounded
<1>2. \A x, y \in Nat : x < y => <<x, y>> \in R
  BY DEF OpToRel
<1> HIDE DEF R
<1>3. PICK n \in T : \A y \in T : ~ (<<y, n>> \in R)
  BY <1>1, WFMin
<1>4. \A m \in T : ~(m < n)
  BY <1>2, <1>3
<1>5. QED
  BY <1>4

\* What the searches for a free entry find.
LEMMA FirstFound ==
    ASSUME NEW S, S \subseteq Nat
    PROVE  /\ S = {} => FirstOf(S) = -1
           /\ S # {} => FirstOf(S) \in S
<1>1. CASE S = {}
  BY <1>1 DEF FirstOf
<1>2. CASE S # {}
  <2>1. \E x \in S : \A y \in S : x =< y
    BY <1>2, LeastNumber
  <2>2. Min(S) \in S
    BY <2>1 DEF Min
  <2>3. QED
    BY <1>2, <2>2 DEF FirstOf
<1>3. QED
  BY <1>1, <1>2

-----------------------------------------------------------------------------
(* The inductive invariant. *)

Fields == {"avail", "dir", "nlink", "size", "nblocks", "blocks"}
TableNames == {"inode", "names", "open", "map"}

\* The fields of an inode have their types; the size is known to be a number for files.
InodeOK(r) ==
    /\ DOMAIN r = Fields
    /\ r.avail \in BOOLEAN /\ r.dir \in BOOLEAN /\ r.nlink \in Int
    /\ r.nblocks \in 0 .. MaxFileBlocks + 1
    /\ r.blocks \in [0 .. NumDirect + 1 -> Blocks \cup {-1}]
    /\ ~r.dir => r.size \in Nat

IsBlock(c) == c = [k \in 1..BlockSize |-> c[k]]
DiskOK(d) == d = [b \in Blocks |-> d[b]] /\ \A b \in Blocks : IsBlock(d[b])

\* The tables of m have their types, apart from the names, of which NamesOK speaks.
TablesOK(m) ==
    /\ DOMAIN m.inode = Inodes /\ \A i \in Inodes : InodeOK(m.inode[i])
    /\ DOMAIN m.open = Handles
    /\ m.map \in [Blocks -> BOOLEAN]

\* m is a record like Now, of well-typed tables and disk.
MemoryOK(m) == DOMAIN m = TableNames \cup {"disk", "ub"} /\ TablesOK(m) /\ DiskOK(m.disk)

\* What an entry of name_table may be.
NameEntries == [avail : BOOLEAN, ino : Int, path : Paths \cup {Root, NoPath}]

\* Entry k of the names is that of a path.
Taken(m, k) == m.names[k].avail

\* The entries of the children of directory d.
Kids(m, d) == {k \in Inodes : Taken(m, k) /\ m.names[k].path # Root /\ Front(m.names[k].path) = d}

\* Paths and inodes of the entries taken are distinct, and the inodes are allocated, as
\* directories or as files.
NamesOK(m) ==
    /\ m.names \in [Inodes -> NameEntries]
    /\ \A k \in Inodes :
        /\ Taken(m, k) <=> m.names[k].path # NoPath
        /\ Taken(m, k) => /\ m.names[k].ino \in Inodes
                          /\ m.inode[m.names[k].ino].avail
                          /\ m.inode[m.names[k].ino].dir <=> m.names[k].path \notin Files
    /\ \A k, j \in Inodes : Taken(m, k) /\ Taken(m, j) /\ k # j =>
        m.names[k].path # m.names[j].path /\ m.names[k].ino # m.names[j].ino
    /\ \A i \in Inodes : m.inode[i].dir => m.inode[i].avail

\* The links of the inodes: what a directory has beyond its two are its children.  An
\* inode without a name has one at most.
LinksOK(m) ==
    /\ \A k \in Inodes : Taken(m, k) =>
        m.inode[m.names[k].ino].nlink =
            IF m.names[k].path \in Files THEN 1 ELSE 2 + Cardinality(Kids(m, m.names[k].path))
    /\ \A i \in Inodes : (\A k \in Inodes : Taken(m, k) => m.names[k].ino # i) => m.inode[i].nlink \in {0, 1}

\* The root has a name if anything has, and so has the directory of every path.  Where
\* that has its name, there is the inode of some directory: getattr called it one when the
\* child was made, and directories keep their inodes.
ParentsOK(m) ==
    \A k \in Inodes : Taken(m, k) =>
        /\ \E j \in Inodes : Taken(m, j) /\ m.names[j].path = Root
        /\ m.names[k].path # Root =>
            \E j \in Inodes : /\ Taken(m, j) /\ m.names[j].path = Front(m.names[k].path)
                              /\ m.inode[j].dir

\* Names and inodes are numbered alike as long as every inode has a name.
NumberedAlike(m) ==
    (\A i \in Inodes : m.inode[i].avail => \E k \in Inodes : Taken(m, k) /\ m.names[k].ino = i)
        => \A k \in Inodes : Taken(m, k) => m.names[k].ino = k

NameInv(m) == NamesOK(m) /\ LinksOK(m) /\ ParentsOK(m) /\ NumberedAlike(m)

\* A handle the kernel holds is of the inode of the file it was opened on.
HandlesOK ==
    /\ ~mounted => DOMAIN fds = {}
    /\ \A fh \in DOMAIN fds :
        /\ fh \in Handles
        /\ fds[fh] \in Files
        /\ \E k \in Inodes : /\ name_table[k].avail /\ name_table[k].path = fds[fh]
                             /\ name_table[k].ino = open_files[fh]

SfsInv ==
    /\ MemoryOK(Now) /\ NameInv(Now)
    /\ DOMAIN saved = TableNames /\ TablesOK(saved) /\ NameInv(saved)
    /\ HandlesOK

-----------------------------------------------------------------------------
(* What the functions on blocks leave alone. *)

\* r has the types of m, and in r all that names and links are about is as in m.
Keeps(m, r) ==
    /\ MemoryOK(r) /\ r.names = m.names /\ r.open = m.open
    /\ \A i \in Inodes : /\ r.inode[i].avail = m.inode[i].avail
                         /\ r.inode[i].dir = m.inode[i].dir
                         /\ r.inode[i].nlink = m.inode[i].nlink
                         /\ r.inode[i].nblocks = m.inode[i].nblocks

LEMMA ConstantTypes ==
    /\ BlockSize \in Nat \ {0} /\ NumBlocks \in Nat \ {0} /\ NumDirect \in Nat \ {0}
    /\ PerBlock \in Nat \ {0} /\ NumDouble \in Nat \ {0} /\ MaxNodes \in Nat \ {0}
    /\ MaxFileBlocks \in Nat /\ MaxFileBlocks >= NumDirect + PerBlock
<1>1. NumDouble * PerBlock \in Nat
  BY BlockAssumption
<1>2. QED
  BY <1>1, BlockAssumption, SfsAssumption DEF MaxFileBlocks

LEMMA KeepsTwice ==
    ASSUME NEW m, NEW r, NEW s, Keeps(m, r), Keeps(r, s)
    PROVE  Keeps(m, s)
  BY DEF Keeps

LEMMA KeepsSelf ==
    ASSUME NEW m, MemoryOK(m)
    PROVE  Keeps(m, m)
  BY DEF Keeps

LEMMA FirstBlock ==
    ASSUME NEW m
    PROVE  first_block(m) \in Blocks \cup {-1}
<1>1. {b \in Blocks : ~ m.map[b]} \subseteq Nat
  BY ConstantTypes DEF Blocks
<1>2. QED
  BY <1>1, FirstFound DEF first_block

LEMMA GetBlockKeeps ==
    ASSUME NEW m, MemoryOK(m)
    PROVE  Keeps(m, get_block(m))
<1>1. CASE first_block(m) = -1
  BY <1>1 DEF get_block, MemoryOK, TablesOK, Keeps, TableNames
<1>2. CASE first_block(m) # -1
  BY <1>2, FirstBlock DEF get_block, MemoryOK, TablesOK, Keeps, TableNames
<1>3. QED
  BY <1>1, <1>2

LEMMA ReadBlock ==
    ASSUME NEW d, DiskOK(d), NEW b
    PROVE  IsBlock(block_read(d, b))
  BY DEF DiskOK, block_read, IsBlock, Zero

LEMMA WriteBlock ==
    ASSUME NEW d, DiskOK(d), NEW b, NEW c, IsBlock(c)
    PROVE  DiskOK(block_write(d, b, c))
<1>1. CASE b \notin Blocks
  BY <1>1 DEF block_write
<1>2. CASE b \in Blocks
  <2> DEFINE e == [d EXCEPT ![b] = c]
  <2>1. \A x \in Blocks : IsBlock(e[x])
    BY <1>2 DEF DiskOK
  <2>2. e = [x \in Blocks |-> e[x]]
    BY DEF DiskOK
  <2>3. QED
    BY <1>2, <2>1, <2>2 DEF block_write, DiskOK
<1>3. QED
  BY <1>1, <1>2

\* A block is written.
LEMMA DiskKeeps ==
    ASSUME NEW m, MemoryOK(m), NEW d, DiskOK(d)
    PROVE  Keeps(m, [m EXCEPT !.disk = d])
  BY DEF MemoryOK, TablesOK, Keeps, TableNames

\* A block number is put into an inode.
LEMMA BlocksKeep ==
    ASSUME NEW m, MemoryOK(m), NEW i \in Inodes, NEW n \in 0 .. NumDirect + 1, NEW b \in Blocks \cup {-1}
    PROVE  Keeps(m, [m EXCEPT !.inode[i].blocks[n] = b])
<1> DEFINE r == [m EXCEPT !.inode[i].blocks[n] = b]
<1>1. /\ DOMAIN r = TableNames \cup {"disk", "ub"} /\ r.disk = m.disk /\ r.names = m.names
      /\ r.open = m.open /\ r.map = m.map /\ DOMAIN r.inode = Inodes
  BY DEF MemoryOK, TablesOK, TableNames
<1>2. r.inode[i] = [m.inode[i] EXCEPT !.blocks[n] = b]
  BY DEF MemoryOK, TablesOK, TableNames
<1>3. \A j \in Inodes : j # i => r.inode[j] = m.inode[j]
  BY DEF MemoryOK, TablesOK, TableNames
<1> HIDE DEF r
<1>4. InodeOK(m.inode[i])
  BY DEF MemoryOK, TablesOK
<1>5. InodeOK(r.inode[i]) /\ r.inode[i].avail = m.inode[i].avail
      /\ r.inode[i].dir = m.inode[i].dir /\ r.inode[i].nlink = m.inode[i].nlink
      /\ r.inode[i].nblocks = m.inode[i].nblocks
  BY <1>2, <1>4 DEF InodeOK, Fields
<1>6. QED
  BY <1>1, <1>3, <1>5 DEF MemoryOK, TablesOK, Keeps, r

LEMMA UnsetIsBlock ==
    ASSUME NEW c, NEW n
    PROVE  IsBlock(Unset(c, n))
  BY DEF IsBlock, Unset

LEMMA PutEntryKeeps ==
    ASSUME NEW m, MemoryOK(m), NEW b, NEW c, IsBlock(c), NEW k, NEW index
    PROVE  Keeps(m, put_entry(m, b, c, k, index))
<1>1. IsBlock([c EXCEPT ![k + 1] = Short(index)])
  BY DEF IsBlock
<1>2. DiskOK(block_write(m.disk, b, [c EXCEPT ![k + 1] = Short(index)]))
  BY <1>1, WriteBlock DEF MemoryOK
<1>3. QED
  BY <1>2, DiskKeeps DEF put_entry

LEMMA SetSingleKeeps ==
    ASSUME NEW m, MemoryOK(m), NEW i \in Inodes, NEW n, NEW index
    PROVE  Keeps(m, set_single(m, i, n, index))
<1> DEFINE old == m.inode[i].blocks[NumDirect]
           new == first_block(m)
           m1 == [get_block(m) EXCEPT !.inode[i].blocks[NumDirect] = new]
           c1 == Unset(block_read(m.disk, new), PerBlock)
<1>1. Keeps(m, m1)
  <2>1. Keeps(m, get_block(m)) /\ MemoryOK(get_block(m))
    BY GetBlockKeeps DEF Keeps
  <2>2. NumDirect \in 0 .. NumDirect + 1
    BY ConstantTypes
  <2>3. Keeps(get_block(m), m1)
    BY <2>1, <2>2, FirstBlock, BlocksKeep
  <2>4. QED
    BY <2>1, <2>3, KeepsTwice
<1>2. IsBlock(c1)
  BY UnsetIsBlock
<1>3. Keeps(m, put_entry(m1, new, c1, InSingle(n), index))
  <2>1. MemoryOK(m1)
    BY <1>1 DEF Keeps
  <2> HIDE DEF m1, c1, new
  <2>2. Keeps(m1, put_entry(m1, new, c1, InSingle(n), index))
    BY <1>2, <2>1, PutEntryKeeps
  <2>3. QED
    BY <1>1, <2>2, KeepsTwice
<1>4. Keeps(m, put_entry(m, old, block_read(m.disk, old), InSingle(n), index))
  <2>1. IsBlock(block_read(m.disk, old))
    BY ReadBlock DEF MemoryOK
  <2>2. QED
    BY <2>1, PutEntryKeeps
<1>5. QED
  BY <1>3, <1>4 DEF set_single

LEMMA WithOuterKeeps ==
    ASSUME NEW m, MemoryOK(m), NEW i \in Inodes
    PROVE  Keeps(m, with_outer(m, i))
<1> DEFINE new == first_block(m)
           m1 == get_block(m)
           m2 == [m1 EXCEPT !.inode[i].blocks[NumDirect + 1] = new]
           c == Unset([k \in 1..BlockSize |-> Garbage], NumDouble)
           m3 == [m1 EXCEPT !.inode[i].blocks[NumDirect + 1] = new, !.disk = block_write(@, new, c)]
<1>1. Keeps(m, m1) /\ MemoryOK(m1)
  BY GetBlockKeeps DEF Keeps
<1>2. NumDirect + 1 \in 0 .. NumDirect + 1
  BY ConstantTypes
<1>3. Keeps(m1, m2)
  BY <1>1, <1>2, FirstBlock, BlocksKeep
<1>4. IsBlock(c)
  BY UnsetIsBlock
<1>5. DiskOK(block_write(m1.disk, new, c))
  BY <1>1, <1>4, WriteBlock DEF MemoryOK
<1>6. MemoryOK(m2) /\ Keeps(m, m2)
  BY <1>1, <1>3, KeepsTwice DEF Keeps
<1>7. m3 = [m2 EXCEPT !.disk = block_write(m1.disk, new, c)]
  BY <1>1 DEF MemoryOK, TablesOK, TableNames
<1> HIDE DEF m2, m1, c, new
<1>8. Keeps(m2, m3)
  BY <1>5, <1>6, <1>7, DiskKeeps
<1>9. Keeps(m, m3)
  BY <1>6, <1>8, KeepsTwice
<1>10. Keeps(m, m)
  BY KeepsSelf
<1>11. QED
  BY <1>9, <1>10 DEF with_outer, m3, m2, m1, new, c

LEMMA SetDoubleKeeps ==
    ASSUME NEW m0, MemoryOK(m0), NEW i \in Inodes, NEW n, NEW index
    PROVE  Keeps(m0, set_double(m0, i, n, index))
<1> DEFINE m == with_outer(m0, i)
           outer == m.inode[i].blocks[NumDirect + 1]
           c == block_read(m.disk, outer)
           inner == AsShort(c[InOuter(n) + 1])
           new == first_block(m)
           m1 == put_entry(get_block(m), outer, c, InOuter(n), new)
           m2 == put_entry(m1, new, Unset(c, PerBlock), InInner(n), index)
           m3 == put_entry(m, inner, block_read(m.disk, inner), InInner(n), index)
<1>1. Keeps(m0, m) /\ MemoryOK(m)
  BY WithOuterKeeps DEF Keeps
<1> HIDE DEF m
<1>2. IsBlock(c) /\ IsBlock(block_read(m.disk, inner))
  BY <1>1, ReadBlock DEF MemoryOK
<1>3. Keeps(m, get_block(m)) /\ MemoryOK(get_block(m))
  BY <1>1, GetBlockKeeps DEF Keeps
<1>4. IsBlock(Unset(c, PerBlock))
  BY UnsetIsBlock
<1> HIDE DEF c, new, inner, outer
<1>5. Keeps(get_block(m), m1)
  BY <1>2, <1>3, PutEntryKeeps
<1>6. Keeps(m, m1) /\ MemoryOK(m1)
  BY <1>3, <1>5, KeepsTwice DEF Keeps
<1> HIDE DEF m1
<1>7. Keeps(m1, m2)
  BY <1>4, <1>6, PutEntryKeeps
<1>8. Keeps(m0, m2)
  BY <1>1, <1>6, <1>7, KeepsTwice
<1>9. Keeps(m, m3)
  BY <1>1, <1>2, PutEntryKeeps
<1>10. Keeps(m0, m3)
  BY <1>1, <1>9, KeepsTwice
<1>11. QED
  BY <1>8, <1>10 DEF set_double, m, c, new, inner, outer, m1

LEMMA SetBlockIndexKeeps ==
    ASSUME NEW m, MemoryOK(m), NEW i \in Inodes, NEW n \in Nat, NEW index \in Blocks \cup {-1}
    PROVE  Keeps(m, set_block_index(m, i, n, index))
<1>1. CASE n < NumDirect
  <2>1. n \in 0 .. NumDirect + 1
    BY <1>1, ConstantTypes
  <2>2. set_block_index(m, i, n, index) = [m EXCEPT !.inode[i].blocks[n] = index]
    BY <1>1, ConstantTypes DEF set_block_index
  <2>3. QED
    BY <2>1, <2>2, BlocksKeep
<1>2. CASE n >= NumDirect /\ n < NumDirect + PerBlock
  <2>1. set_block_index(m, i, n, index) = set_single(m, i, n, index)
    BY <1>2, ConstantTypes DEF set_block_index
  <2>2. QED
    BY <2>1, SetSingleKeeps
<1>3. CASE n >= NumDirect + PerBlock /\ n =< MaxFileBlocks
  <2>1. set_block_index(m, i, n, index) = set_double(m, i, n, index)
    BY <1>3, ConstantTypes DEF set_block_index
  <2>2. QED
    BY <2>1, SetDoubleKeeps
<1>4. CASE n > MaxFileBlocks
  <2>1. set_block_index(m, i, n, index) = m
    BY <1>4, ConstantTypes DEF set_block_index
  <2>2. QED
    BY <2>1, KeepsSelf
<1>5. QED
  BY <1>1, <1>2, <1>3, <1>4, ConstantTypes

-----------------------------------------------------------------------------
(* The entries of directories. *)

\* r is m but for blocks, sizes and the links of inode dir, which are now n.
Relinks(m, r, dir, n) ==
    /\ MemoryOK(r) /\ r.names = m.names /\ r.open = m.open
    /\ \A i \in Inodes : /\ r.inode[i].avail = m.inode[i].avail
                         /\ r.inode[i].dir = m.inode[i].dir
                         /\ r.inode[i].nlink = IF i = dir THEN n ELSE m.inode[i].nlink

LEMMA DirectoryRelinks ==
    ASSUME NEW m, MemoryOK(m), NEW dir \in Inodes, m.inode[dir].dir, NEW size, NEW n \in Int
    PROVE  Relinks(m, [m EXCEPT !.inode[dir].size = size, !.inode[dir].nlink = n], dir, n)
<1> DEFINE r == [m EXCEPT !.inode[dir].size = size, !.inode[dir].nlink = n]
<1>1. /\ DOMAIN r = TableNames \cup {"disk", "ub"} /\ r.disk = m.disk /\ r.names = m.names
      /\ r.open = m.open /\ r.map = m.map /\ DOMAIN r.inode = Inodes
  BY DEF MemoryOK, TablesOK, TableNames
<1>2. r.inode[dir] = [m.inode[dir] EXCEPT !.size = size, !.nlink = n]
  BY DEF MemoryOK, TablesOK, TableNames, InodeOK, Fields
<1>3. \A j \in Inodes : j # dir => r.inode[j] = m.inode[j]
  BY DEF MemoryOK, TablesOK, TableNames
<1> HIDE DEF r
<1>4. InodeOK(m.inode[dir])
  BY DEF MemoryOK, TablesOK
<1>5. InodeOK(r.inode[dir]) /\ r.inode[dir].avail = m.inode[dir].avail
      /\ r.inode[dir].dir = m.inode[dir].dir /\ r.inode[dir].nlink = n
  BY <1>2, <1>4 DEF InodeOK, Fields
<1>6. QED
  BY <1>1, <1>3, <1>5 DEF MemoryOK, TablesOK, Relinks, r

LEMMA KeepsRelinks ==
    ASSUME NEW m, NEW r, NEW s, NEW dir, NEW n, Keeps(m, r), Relinks(r, s, dir, n)
    PROVE  Relinks(m, s, dir, n)
  BY DEF Keeps, Relinks

\* ub is what left defined behaviour.
LEMMA BehaviourKeeps ==
    ASSUME NEW m, MemoryOK(m), NEW d, DiskOK(d), NEW u
    PROVE  Keeps(m, [m EXCEPT !.disk = d, !.ub = u])
  BY DEF MemoryOK, TablesOK, Keeps, TableNames

LEMMA PartOfBuffer ==
    ASSUME NEW S, NEW n \in Nat, NEW f \in [1..n -> S], NEW a \in Nat, NEW e \in Nat,
           NEW w \in Nat, 1 =< a, a =< e, e =< n, w = e - a + 1
    PROVE  SubSeq(f, a, e) \in [1..w -> S]
<1>1. f \in Seq(S) /\ Len(f) = n
  OBVIOUS
<1>2. SubSeq(f, a, e) \in Seq(S)
  BY <1>1
<1>3. Len(SubSeq(f, a, e)) = w
  BY <1>1
<1>4. \A t \in Seq(S) : t \in [1..Len(t) -> S]
  OBVIOUS
<1>5. QED
  BY <1>2, <1>3, <1>4, Zenon

LEMMA HalfSizes ==
    ASSUME NEW n \in Nat, n # 0
    PROVE  /\ 2 * n \in Nat /\ n + 1 \in Nat /\ 1 \in Nat
           /\ 1 =< 1 /\ 1 =< n /\ n =< 2 * n /\ n = n - 1 + 1
           /\ 1 =< n + 1 /\ n + 1 =< 2 * n /\ 2 * n =< 2 * n /\ n = 2 * n - (n + 1) + 1
  OBVIOUS

\* The two halves of create's buffer.
LEMMA HalvesAreBlocks ==
    ASSUME NEW f, f = [k \in 1 .. 2 * BlockSize |-> f[k]]
    PROVE  IsBlock(SubSeq(f, 1, BlockSize)) /\ IsBlock(SubSeq(f, BlockSize + 1, 2 * BlockSize))
<1> DEFINE S == {f[k] : k \in 1 .. 2 * BlockSize}
<1>1. f \in [1 .. 2 * BlockSize -> S]
  BY Zenon
<1>2. BlockSize \in Nat /\ BlockSize # 0
  BY BlockAssumption
<1> HIDE DEF S
<1>3. \A c \in [1..BlockSize -> S] : IsBlock(c)
  BY DEF IsBlock
<1>4. /\ 2 * BlockSize \in Nat /\ BlockSize + 1 \in Nat /\ 1 \in Nat
      /\ 1 =< 1 /\ 1 =< BlockSize /\ BlockSize =< 2 * BlockSize /\ BlockSize = BlockSize - 1 + 1
      /\ 1 =< BlockSize + 1 /\ BlockSize + 1 =< 2 * BlockSize /\ 2 * BlockSize =< 2 * BlockSize
      /\ BlockSize = 2 * BlockSize - (BlockSize + 1) + 1
  BY <1>2, HalfSizes, Zenon
<1>5. SubSeq(f, 1, BlockSize) \in [1..BlockSize -> S]
  BY <1>1, <1>2, <1>4, PartOfBuffer, Zenon
<1>6. SubSeq(f, BlockSize + 1, 2 * BlockSize) \in [1..BlockSize -> S]
  <2> DEFINE a == BlockSize + 1
             e == 2 * BlockSize
  <2>1. f \in [1..e -> S] /\ a \in Nat /\ e \in Nat /\ 1 =< a /\ a =< e /\ e =< e /\ BlockSize = e - a + 1
    BY <1>1, <1>4, Zenon
  <2> HIDE DEF a, e
  <2>2. SubSeq(f, a, e) \in [1..BlockSize -> S]
    BY <1>2, <2>1, PartOfBuffer, Zenon
  <2>3. QED
    BY <2>2 DEF a, e
<1>7. QED
  BY <1>3, <1>5, <1>6, Zenon

LEMMA EndFound ==
    ASSUME NEW m, NEW dir
    PROVE  Min({n \in 0..MaxFileBlocks : Ends(DirBlock(m, dir, n)) # {}}) \in 0..MaxFileBlocks
<1> DEFINE S == {n \in 0..MaxFileBlocks : Ends(DirBlock(m, dir, n)) # {}}
<1>1. get_block_index(m, dir, MaxFileBlocks) = -1
  BY ConstantTypes DEF get_block_index
<1>2. -1 \notin Blocks
  BY ConstantTypes DEF Blocks
<1>3. Ends(DirBlock(m, dir, MaxFileBlocks)) # {}
  <2>1. DirBlock(m, dir, MaxFileBlocks) = Zero
    BY <1>1, <1>2 DEF DirBlock, block_read
  <2>2. 1 \in 1..BlockSize /\ Zero[1] = Nul
    BY ConstantTypes DEF Zero
  <2>3. QED
    BY <2>1, <2>2 DEF Ends
<1>4. S \subseteq Nat /\ MaxFileBlocks \in S
  BY <1>3, ConstantTypes
<1>5. \E x \in S : \A y \in S : x =< y
  BY <1>4, LeastNumber
<1>6. Min(S) \in S
  BY <1>5 DEF Min
<1>7. QED
  BY <1>6

LEMMA AddEntryRelinks ==
    ASSUME NEW m, MemoryOK(m), NEW dir \in Inodes, m.inode[dir].dir, NEW name, NEW i, NEW wide
    PROVE  Relinks(m, add_entry(m, dir, name, i, wide), dir, m.inode[dir].nlink + 1)
<1> DEFINE at == Min({n \in 0..MaxFileBlocks : Ends(DirBlock(m, dir, n)) # {}})
           c == DirBlock(m, dir, at)
           text == Text(c) \o DirEntry(name, i) \o <<Nul>>
           buf == [k \in 1 .. 2 * BlockSize |->
                    IF k =< Len(text) THEN text[k] ELSE IF k =< BlockSize THEN c[k] ELSE Garbage]
           b == get_block_index(m, dir, at)
           u == IF Len(text) > BlockSize /\ ~wide THEN "buffer overrun" ELSE m.ub
           low == SubSeq(buf, 1, BlockSize)
           high == SubSeq(buf, BlockSize + 1, 2 * BlockSize)
           m1 == [m EXCEPT !.disk = block_write(@, b, low), !.ub = u]
           new == first_block(m1)
           m2 == set_block_index(get_block(m1), dir, at + 1, new)
           m3 == [m2 EXCEPT !.disk = block_write(@, new, high)]
           grows == CRem(m.inode[dir].size, BlockSize) + 3 > BlockSize
           last == IF grows THEN m3 ELSE m1
<1>1. IsBlock(low) /\ IsBlock(high)
  <2>1. buf = [k \in 1 .. 2 * BlockSize |-> buf[k]]
    OBVIOUS
  <2> HIDE DEF buf
  <2>2. QED
    BY <2>1, HalvesAreBlocks
<1>2. at + 1 \in Nat
  <2>1. at \in 0..MaxFileBlocks
    BY EndFound
  <2> HIDE DEF at
  <2>2. QED
    BY <2>1, ConstantTypes
<1> HIDE DEF at, low, high, u, b
<1>3. Keeps(m, m1) /\ MemoryOK(m1)
  <2>1. DiskOK(block_write(m.disk, b, low))
    BY <1>1, WriteBlock DEF MemoryOK
  <2>2. Keeps(m, [m EXCEPT !.disk = block_write(m.disk, b, low), !.ub = u])
    BY <2>1, BehaviourKeeps
  <2>3. Keeps(m, m1)
    BY <2>2
  <2>4. QED
    BY <2>3 DEF Keeps
<1> HIDE DEF m1
<1>4. Keeps(m, m2) /\ MemoryOK(m2)
  <2>1. Keeps(m1, get_block(m1)) /\ MemoryOK(get_block(m1))
    BY <1>3, GetBlockKeeps DEF Keeps
  <2>2. new \in Blocks \cup {-1}
    BY FirstBlock
  <2> HIDE DEF new
  <2>3. Keeps(get_block(m1), m2)
    BY <1>2, <2>1, <2>2, SetBlockIndexKeeps
  <2>4. QED
    BY <1>3, <2>1, <2>3, KeepsTwice DEF Keeps
<1> HIDE DEF m2, new
<1>5. Keeps(m, m3) /\ MemoryOK(m3)
  <2>1. DiskOK(block_write(m2.disk, new, high))
    BY <1>1, <1>4, WriteBlock DEF MemoryOK
  <2>2. Keeps(m2, m3)
    BY <1>4, <2>1, DiskKeeps
  <2>3. QED
    BY <1>4, <2>2, KeepsTwice DEF Keeps
<1> HIDE DEF m3, grows
<1>6. Keeps(m, last) /\ MemoryOK(last)
  BY <1>3, <1>5
<1> HIDE DEF last
<1>7. last.inode[dir].dir /\ last.inode[dir].nlink = m.inode[dir].nlink /\ m.inode[dir].nlink + 1 \in Int
  BY <1>6 DEF Keeps, MemoryOK, TablesOK, InodeOK
<1> DEFINE r == [last EXCEPT !.inode[dir].size = @ + 3, !.inode[dir].nlink = @ + 1]
<1>8. r = [last EXCEPT !.inode[dir].size = last.inode[dir].size + 3,
                       !.inode[dir].nlink = last.inode[dir].nlink + 1]
  BY <1>6 DEF MemoryOK, TablesOK, InodeOK, TableNames, Fields
<1>9. Relinks(last, r, dir, m.inode[dir].nlink + 1)
  BY <1>6, <1>7, <1>8, DirectoryRelinks
<1>10. Relinks(m, r, dir, m.inode[dir].nlink + 1)
  BY <1>6, <1>9, KeepsRelinks
<1>11. r = add_entry(m, dir, name, i, wide)
  BY DEF add_entry, last, grows, m3, m2, new, m1, at, low, high, u, b
<1>12. QED
  BY <1>10, <1>11

LEMMA PaddedIsBlock ==
    ASSUME NEW text
    PROVE  IsBlock(Padded(text))
  BY DEF IsBlock, Padded

LEMMA RemoveEntryRelinks ==
    ASSUME NEW m, MemoryOK(m), NEW dir \in Inodes, m.inode[dir].dir, NEW name, NEW i
    PROVE  Relinks(m, remove_entry(m, dir, name, i), dir, m.inode[dir].nlink - 1)
<1> DEFINE size == m.inode[dir].size
           c == DirBlock(m, dir, 0)
           text == removeSubstring(Text(c), DirEntry(name, i))
           resize == BlockSize - Len(text)
           b == get_block_index(m, dir, 0)
           u == IF size = 0 \/ Ends(c) = {} THEN "buffer overrun" ELSE m.ub
           m1 == [m EXCEPT !.disk = block_write(@, b, Padded(text)), !.ub = u]
           second == get_block_index(m1, dir, 1)
           map == [x \in Blocks |-> m1.map[x] /\ x # second]
           m2 == [m1 EXCEPT !.map = [x \in Blocks |-> @[x] /\ x # second]]
           m3 == set_block_index(m2, dir, 1, -1)
           shrinks == CDiv(size, BlockSize) > CDiv(size - resize, BlockSize)
           last == IF shrinks THEN m3 ELSE m1
<1> HIDE DEF text, u, b
<1>1. Keeps(m, m1) /\ MemoryOK(m1)
  <2>1. DiskOK(block_write(m.disk, b, Padded(text)))
    BY PaddedIsBlock, WriteBlock DEF MemoryOK
  <2>2. Keeps(m, [m EXCEPT !.disk = block_write(m.disk, b, Padded(text)), !.ub = u])
    BY <2>1, BehaviourKeeps
  <2>3. Keeps(m, m1)
    BY <2>2
  <2>4. QED
    BY <2>3 DEF Keeps
<1> HIDE DEF m1, second
<1>2. Keeps(m1, m2)
  <2>1. m2 = [m1 EXCEPT !.map = map]
    OBVIOUS
  <2>2. map \in [Blocks -> BOOLEAN]
    BY <1>1 DEF MemoryOK, TablesOK
  <2> HIDE DEF map, m2
  <2>3. QED
    BY <1>1, <2>1, <2>2 DEF MemoryOK, TablesOK, Keeps, TableNames
<1>3. Keeps(m, m2) /\ MemoryOK(m2)
  BY <1>1, <1>2, KeepsTwice DEF Keeps
<1> HIDE DEF m2
<1>4. Keeps(m, m3) /\ MemoryOK(m3)
  <2>1. Keeps(m2, m3)
    BY <1>3, SetBlockIndexKeeps
  <2>2. QED
    BY <1>3, <2>1, KeepsTwice DEF Keeps
<1> HIDE DEF m3, shrinks
<1>5. Keeps(m, last) /\ MemoryOK(last)
  BY <1>1, <1>4
<1> HIDE DEF last, resize
<1>6. last.inode[dir].dir /\ last.inode[dir].nlink = m.inode[dir].nlink /\ m.inode[dir].nlink - 1 \in Int
  BY <1>5 DEF Keeps, MemoryOK, TablesOK, InodeOK
<1> DEFINE r == [last EXCEPT !.inode[dir].size = @ - resize, !.inode[dir].nlink = @ - 1]
<1>7. r = [last EXCEPT !.inode[dir].size = last.inode[dir].size - resize,
                       !.inode[dir].nlink = last.inode[dir].nlink - 1]
  BY <1>5 DEF MemoryOK, TablesOK, InodeOK, TableNames, Fields
<1>8. Relinks(last, r, dir, m.inode[dir].nlink - 1)
  BY <1>5, <1>6, <1>7, DirectoryRelinks
<1>9. Relinks(m, r, dir, m.inode[dir].nlink - 1)
  BY <1>5, <1>8, KeepsRelinks
<1>10. r = remove_entry(m, dir, name, i)
  BY DEF remove_entry, last, shrinks, m3, m2, second, m1, text, u, b, resize
<1>11. QED
  BY <1>9, <1>10

-----------------------------------------------------------------------------
(* Writing to a file. *)

\* r has the types of m, and names, links and handles are as in m.
Writes(m, r) ==
    /\ MemoryOK(r) /\ r.names = m.names /\ r.open = m.open
    /\ \A i \in Inodes : /\ r.inode[i].avail = m.inode[i].avail
                         /\ r.inode[i].dir = m.inode[i].dir
                         /\ r.inode[i].nlink = m.inode[i].nlink

\* A number in an inode is set: the blocks or the size of a file.
LEMMA NumbersWrite ==
    ASSUME NEW m, MemoryOK(m), NEW i \in Inodes, NEW n \in 0 .. MaxFileBlocks + 1, NEW s,
           ~m.inode[i].dir => s \in Nat
    PROVE  /\ Writes(m, [m EXCEPT !.inode[i].nblocks = n])
           /\ Writes(m, [m EXCEPT !.inode[i].size = s])
<1>1. ASSUME NEW e, InodeOK(e), e.avail = m.inode[i].avail, e.dir = m.inode[i].dir, e.nlink = m.inode[i].nlink
      PROVE  Writes(m, [m EXCEPT !.inode[i] = e])
  BY <1>1 DEF MemoryOK, TablesOK, TableNames, Writes
<1> DEFINE e1 == [m.inode[i] EXCEPT !.nblocks = n]
           e2 == [m.inode[i] EXCEPT !.size = s]
<1>2. InodeOK(m.inode[i])
  BY DEF MemoryOK, TablesOK
<1>3. InodeOK(e1) /\ e1.avail = m.inode[i].avail /\ e1.dir = m.inode[i].dir /\ e1.nlink = m.inode[i].nlink
  BY <1>2 DEF InodeOK, Fields
<1>4. InodeOK(e2) /\ e2.avail = m.inode[i].avail /\ e2.dir = m.inode[i].dir /\ e2.nlink = m.inode[i].nlink
  BY <1>2 DEF InodeOK, Fields
<1>5. /\ [m EXCEPT !.inode[i].nblocks = n] = [m EXCEPT !.inode[i] = e1]
      /\ [m EXCEPT !.inode[i].size = s] = [m EXCEPT !.inode[i] = e2]
  OBVIOUS
<1> HIDE DEF e1, e2
<1>6. QED
  BY <1>1, <1>3, <1>4, <1>5

\* What a turn of the loop that makes a file longer starts from, and leaves.
GrowOK(m, i, g) == g = [m |-> g.m, i |-> i, ok |-> g.ok] /\ Writes(m, g.m)

LEMMA AddBlockGrows ==
    ASSUME NEW m, NEW i \in Inodes, NEW g, GrowOK(m, i, g)
    PROVE  GrowOK(m, i, add_block(g))
<1> DEFINE n == g.m.inode[i].nblocks
           m1 == get_block(g.m)
           m2 == set_block_index(m1, i, n, first_block(g.m))
           m3 == [m2 EXCEPT !.inode[i].nblocks = @ + 1]
<1>1. MemoryOK(g.m) /\ g.i = i /\ DOMAIN g = {"m", "i", "ok"}
  BY DEF GrowOK, Writes
<1>2. n \in 0 .. MaxFileBlocks + 1
  BY <1>1 DEF MemoryOK, TablesOK, InodeOK
<1>3. Keeps(g.m, m1) /\ MemoryOK(m1)
  BY <1>1, GetBlockKeeps DEF Keeps
<1>4. Writes(m, m1)
  BY <1>3 DEF GrowOK, Writes, Keeps
<1>5. CASE n > MaxFileBlocks
  <2>1. add_block(g) = IF ~g.ok THEN g ELSE [g EXCEPT !.m = m1, !.ok = FALSE]
    BY <1>1, <1>5 DEF add_block
  <2>2. QED
    BY <1>1, <1>4, <2>1 DEF GrowOK
<1>6. CASE n =< MaxFileBlocks
  <2>1. Keeps(m1, m2)
    <3>1. n \in Nat
      BY <1>2, ConstantTypes
    <3>2. first_block(g.m) \in Blocks \cup {-1}
      BY FirstBlock
    <3> HIDE DEF m1, n
    <3>3. QED
      BY <1>3, <3>1, <3>2, SetBlockIndexKeeps
  <2>2. MemoryOK(m2) /\ m2.inode[i].nblocks + 1 = n + 1 /\ Keeps(g.m, m2)
    <3>1. Keeps(g.m, m2)
      BY <1>3, <2>1, KeepsTwice
    <3> HIDE DEF m2
    <3>2. QED
      BY <3>1 DEF Keeps
  <2>3. n + 1 \in 0 .. MaxFileBlocks + 1
    BY <1>2, <1>6, ConstantTypes
  <2> HIDE DEF m1, m2, n
  <2>4. m3 = [m2 EXCEPT !.inode[i].nblocks = n + 1]
    BY <2>2
  <2>5. Writes(m2, [m2 EXCEPT !.inode[i].nblocks = n + 1])
    <3>1. ~m2.inode[i].dir => m2.inode[i].size \in Nat
      BY <2>2 DEF MemoryOK, TablesOK, InodeOK
    <3>2. QED
      BY <2>2, <2>3, <3>1, NumbersWrite
  <2>6. Writes(m, m3)
    BY <2>2, <2>4, <2>5 DEF Writes, Keeps, GrowOK
  <2> HIDE DEF m3
  <2>7. add_block(g) = IF ~g.ok THEN g ELSE [g EXCEPT !.m = m3]
    <3>1. ~ (g.m.inode[i].nblocks > MaxFileBlocks)
      BY <1>2, <1>6, ConstantTypes DEF n
    <3>2. QED
      BY <1>1, <3>1 DEF add_block, m3, m2, m1, n
  <2>8. QED
    BY <1>1, <2>6, <2>7 DEF GrowOK
<1>7. QED
  BY <1>2, <1>5, <1>6, ConstantTypes

\* The loop has its turns, one after the other.
IsGrow(f, g, n) == f = [k \in 0..n |-> IF k = 0 THEN g ELSE add_block(f[k - 1])]

LEMMA GrowTurns ==
    ASSUME NEW g, NEW n \in Nat
    PROVE  \E f : IsGrow(f, g, n)
<1> USE DEF IsGrow
<1> DEFINE P(j) == \E f : f = [k \in 0..j |-> IF k = 0 THEN g ELSE add_block(f[k - 1])]
           T == {j \in Nat : ~P(j)}
<1>1. SUFFICES ASSUME T # {} PROVE FALSE
  OBVIOUS
<1>2. PICK j \in T : \A l \in T : j =< l
  BY <1>1, LeastNumber
<1>3. CASE j = 0
  <2> DEFINE f == [k \in 0..0 |-> g]
  <2>1. f = [k \in 0..0 |-> IF k = 0 THEN g ELSE add_block(f[k - 1])]
    OBVIOUS
  <2>2. QED
    BY <1>2, <1>3, <2>1
<1>4. CASE j # 0
  <2>1. j - 1 \in Nat /\ ~(j =< j - 1)
    BY <1>2, <1>4
  <2>2. P(j - 1)
    BY <1>2, <2>1
  <2>3. PICK f : f = [k \in 0..j - 1 |-> IF k = 0 THEN g ELSE add_block(f[k - 1])]
    BY <2>2
  <2> DEFINE h == [k \in 0..j |-> IF k = j THEN add_block(f[j - 1]) ELSE f[k]]
  <2>4. \A k \in 0..j : h[k] = IF k = 0 THEN g ELSE add_block(h[k - 1])
    <3>1. SUFFICES ASSUME NEW k \in 0..j PROVE h[k] = IF k = 0 THEN g ELSE add_block(h[k - 1])
      OBVIOUS
    <3>2. CASE k = j
      <4>1. h[k - 1] = f[j - 1] /\ k # 0 /\ h[k] = add_block(f[j - 1])
        BY <1>4, <2>1, <3>2
      <4>2. QED
        BY <4>1, <3>2
    <3>3. CASE k = 0
      <4>1. 0 \in 0..j - 1 /\ 0 # j
        BY <1>4, <2>1
      <4>2. f[0] = g
        BY <2>3, <4>1
      <4>3. QED
        BY <3>3, <4>1, <4>2
    <3>4. CASE k # j /\ k # 0
      <4>1. k \in 0..j - 1 /\ k - 1 \in 0..j /\ k - 1 # j
        BY <3>4, <2>1
      <4>2. f[k] = add_block(f[k - 1])
        BY <2>3, <3>4, <4>1
      <4>3. h[k] = f[k] /\ h[k - 1] = f[k - 1]
        BY <3>4, <4>1
      <4>4. QED
        BY <3>4, <4>2, <4>3
    <3>5. QED
      BY <3>2, <3>3, <3>4
  <2>5. h = [k \in 0..j |-> h[k]]
    OBVIOUS
  <2> HIDE DEF h
  <2>6. h = [k \in 0..j |-> IF k = 0 THEN g ELSE add_block(h[k - 1])]
    BY <2>4, <2>5
  <2>7. P(j)
    BY <2>6
  <2>8. QED
    BY <1>2, <2>7
<1>5. QED
  BY <1>3, <1>4

LEMMA GrowWrites ==
    ASSUME NEW m, MemoryOK(m), NEW i \in Inodes, NEW more \in Nat
    PROVE  Writes(m, grow(m, i, more).m)
<1> DEFINE g == [m |-> m, i |-> i, ok |-> TRUE]
           turn[k \in 0..more] == IF k = 0 THEN g ELSE add_block(turn[k - 1])
<1>1. turn = [k \in 0..more |-> IF k = 0 THEN g ELSE add_block(turn[k - 1])]
  <2>1. \E f : IsGrow(f, g, more)
    BY GrowTurns
  <2>2. QED
    BY <2>1, Zenon DEF turn, IsGrow
<1>2. grow(m, i, more) = turn[more]
  BY DEF grow
<1> HIDE DEF turn
<1>3. GrowOK(m, i, g)
  BY DEF GrowOK, Writes
<1> HIDE DEF g
<1> DEFINE T == {k \in 0..more : ~GrowOK(m, i, turn[k])}
<1>4. T = {}
  <2>1. SUFFICES ASSUME T # {} PROVE FALSE
    OBVIOUS
  <2>2. PICK k \in T : \A l \in T : k =< l
    <3>1. T \subseteq Nat
      OBVIOUS
    <3> HIDE DEF T
    <3>2. QED
      BY <2>1, <3>1, LeastNumber
  <2>3. k # 0 /\ k - 1 \in 0..more /\ ~(k =< k - 1)
    BY <1>1, <1>3, <2>2
  <2>4. GrowOK(m, i, turn[k - 1])
    BY <2>2, <2>3
  <2>5. turn[k] = add_block(turn[k - 1])
    BY <1>1, <2>2, <2>3
  <2>6. GrowOK(m, i, turn[k])
    BY <2>4, <2>5, AddBlockGrows
  <2>7. QED
    BY <2>2, <2>6
<1>5. GrowOK(m, i, turn[more])
  BY <1>4
<1>6. QED
  BY <1>2, <1>5 DEF GrowOK

LEMMA PutBlockKeeps ==
    ASSUME NEW m, MemoryOK(m), NEW i, NEW n, NEW c, IsBlock(c)
    PROVE  Keeps(m, put_block(m, i, n, c))
<1>1. DiskOK(block_write(m.disk, get_block_index(m, i, n), c))
  BY WriteBlock DEF MemoryOK
<1>2. QED
  BY <1>1, DiskKeeps DEF put_block

\* f is the sequence of the turns of the loop that writes a buffer back.
IsWriteBack(f, m, i, start, buf, n) ==
    f = [k \in 0..n |-> IF k = 0 THEN m ELSE put_block(f[k - 1], i, start + k - 1, Part(buf, k))]

LEMMA WriteTurns ==
    ASSUME NEW m, NEW i, NEW start, NEW buf, NEW n \in Nat
    PROVE  \E f : IsWriteBack(f, m, i, start, buf, n)
<1> DEFINE Put(r, k) == put_block(r, i, start + k - 1, Part(buf, k))
           P(j) == \E f : f = [k \in 0..j |-> IF k = 0 THEN m ELSE Put(f[k - 1], k)]
           T == {j \in Nat : ~P(j)}
<1> SUFFICES P(n)
  BY DEF IsWriteBack
<1> HIDE DEF Put
<1>1. SUFFICES ASSUME T # {} PROVE FALSE
  OBVIOUS
<1>2. PICK j \in T : \A l \in T : j =< l
  <2>1. T \subseteq Nat
    OBVIOUS
  <2> HIDE DEF T
  <2>2. QED
    BY <1>1, <2>1, LeastNumber
<1>3. CASE j = 0
  <2> DEFINE f == [k \in 0..0 |-> m]
  <2>1. f = [k \in 0..0 |-> IF k = 0 THEN m ELSE Put(f[k - 1], k)]
    OBVIOUS
  <2>2. QED
    BY <1>2, <1>3, <2>1
<1>4. CASE j # 0
  <2>1. j - 1 \in Nat /\ ~(j =< j - 1)
    BY <1>2, <1>4
  <2>2. P(j - 1)
    BY <1>2, <2>1
  <2>3. PICK f : f = [k \in 0..j - 1 |-> IF k = 0 THEN m ELSE Put(f[k - 1], k)]
    BY <2>2
  <2> DEFINE h == [k \in 0..j |-> IF k = j THEN Put(f[j - 1], j) ELSE f[k]]
  <2>4. \A k \in 0..j : h[k] = IF k = 0 THEN m ELSE Put(h[k - 1], k)
    <3>1. SUFFICES ASSUME NEW k \in 0..j PROVE h[k] = IF k = 0 THEN m ELSE Put(h[k - 1], k)
      OBVIOUS
    <3>2. CASE k = j
      <4>1. h[k - 1] = f[j - 1] /\ k # 0 /\ h[k] = Put(f[j - 1], j)
        BY <1>4, <2>1, <3>2
      <4>2. QED
        BY <4>1, <3>2
    <3>3. CASE k = 0
      <4>1. 0 \in 0..j - 1 /\ 0 # j
        BY <1>4, <2>1
      <4>2. f[0] = m
        BY <2>3, <4>1
      <4>3. QED
        BY <3>3, <4>1, <4>2
    <3>4. CASE k # j /\ k # 0
      <4>1. k \in 0..j - 1 /\ k - 1 \in 0..j /\ k - 1 # j
        BY <3>4, <2>1
      <4>2. f[k] = Put(f[k - 1], k)
        BY <2>3, <3>4, <4>1
      <4>3. h[k] = f[k] /\ h[k - 1] = f[k - 1]
        BY <3>4, <4>1
      <4>4. QED
        BY <3>4, <4>2, <4>3
    <3>5. QED
      BY <3>2, <3>3, <3>4
  <2>5. h = [k \in 0..j |-> h[k]]
    OBVIOUS
  <2> HIDE DEF h
  <2>6. h = [k \in 0..j |-> IF k = 0 THEN m ELSE Put(h[k - 1], k)]
    BY <2>4, <2>5
  <2>7. P(j)
    BY <2>6
  <2>8. QED
    BY <1>2, <2>7
<1>5. QED
  BY <1>3, <1>4

LEMMA WriteBackKeeps ==
    ASSUME NEW m, MemoryOK(m), NEW i, NEW start, NEW count \in Nat, NEW buf
    PROVE  Keeps(m, write_back(m, i, start, count, buf))
<1> DEFINE turn[k \in 0..count] == IF k = 0 THEN m ELSE put_block(turn[k - 1], i, start + k - 1, Part(buf, k))
<1>1. turn = [k \in 0..count |-> IF k = 0 THEN m ELSE put_block(turn[k - 1], i, start + k - 1, Part(buf, k))]
  <2>1. \E f : IsWriteBack(f, m, i, start, buf, count)
    BY WriteTurns
  <2>2. QED
    BY <2>1, Zenon DEF turn, IsWriteBack
<1>2. write_back(m, i, start, count, buf) = turn[count]
  BY DEF write_back
<1> HIDE DEF turn
<1>3. \A k : IsBlock(Part(buf, k))
  BY DEF IsBlock, Part
<1> DEFINE T == {k \in 0..count : ~Keeps(m, turn[k])}
<1>4. T = {}
  <2>1. SUFFICES ASSUME T # {} PROVE FALSE
    OBVIOUS
  <2>2. PICK k \in T : \A l \in T : k =< l
    <3>1. T \subseteq Nat
      OBVIOUS
    <3> HIDE DEF T
    <3>2. QED
      BY <2>1, <3>1, LeastNumber
  <2>3. Keeps(m, m) /\ turn[0] = m
    BY <1>1, KeepsSelf
  <2>4. k # 0 /\ k - 1 \in 0..count /\ ~(k =< k - 1)
    BY <2>2, <2>3
  <2>5. Keeps(m, turn[k - 1]) /\ MemoryOK(turn[k - 1])
    BY <2>2, <2>4 DEF Keeps
  <2>6. turn[k] = put_block(turn[k - 1], i, start + k - 1, Part(buf, k))
    BY <1>1, <2>2, <2>4
  <2>7. Keeps(turn[k - 1], turn[k])
    BY <1>3, <2>5, <2>6, PutBlockKeeps
  <2>8. Keeps(m, turn[k])
    BY <2>5, <2>7, KeepsTwice
  <2>9. QED
    BY <2>2, <2>8
<1>5. QED
  BY <1>2, <1>4

\* A quotient that is no less than -1.
LEMMA QuotientBound ==
    ASSUME NEW x \in Int, NEW b \in Nat \ {0}, x >= -b
    PROVE  x \div b \in Int /\ x \div b >= -1
<1>1. x \div b \in Int /\ x % b \in 0..b - 1 /\ x = b * (x \div b) + (x % b)
  OBVIOUS
<1> DEFINE q == x \div b
           r == x % b
<1> HIDE DEF q, r
<1>2. q \in Int /\ r \in 0..b - 1 /\ x = b * q + r
  BY <1>1 DEF q, r
<1>3. ASSUME q =< -2 PROVE FALSE
  <2>1. b * q =< b * (-2)
    BY <1>2, <1>3
  <2>2. QED
    BY <1>2, <2>1
<1>4. QED
  BY <1>2, <1>3 DEF q

LEMMA CountIsNat ==
    ASSUME NEW off \in Nat, NEW n \in Nat \ {0}
    PROVE  BlockCount(off, n) \in Nat
<1> DEFINE skip == off % BlockSize
           x == n - (IF skip > 0 THEN BlockSize - skip ELSE 0)
           tail == IF (off + n) % BlockSize > 0 THEN 1 ELSE 0
<1>1. skip \in 0 .. BlockSize - 1
  BY ConstantTypes
<1> HIDE DEF skip
<1>2. tail \in {0, 1}
  OBVIOUS
<1> HIDE DEF tail
<1>3. CASE skip > 0
  <2>1. x \in Int /\ x >= - BlockSize
    BY <1>1, <1>3, ConstantTypes
  <2> HIDE DEF x
  <2>2. x \div BlockSize \in Int /\ x \div BlockSize >= -1
    BY <2>1, ConstantTypes, QuotientBound
  <2>3. BlockCount(off, n) = 1 + (x \div BlockSize) + tail
    BY <1>3 DEF BlockCount, skip, x, tail
  <2>4. QED
    BY <1>2, <2>2, <2>3
<1>4. CASE ~(skip > 0)
  <2>1. n \div BlockSize \in Nat
    BY ConstantTypes
  <2>2. x = n
    BY <1>4, ConstantTypes
  <2>3. BlockCount(off, n) = 0 + (x \div BlockSize) + tail
    BY <1>4 DEF BlockCount, skip, x, tail
  <2>4. QED
    BY <1>2, <2>1, <2>2, <2>3
<1>5. QED
  BY <1>3, <1>4

LEMMA PutDataWrites ==
    ASSUME NEW m, MemoryOK(m), NEW i \in Inodes, NEW off \in Nat, NEW data, Len(data) \in Nat \ {0}
    PROVE  Writes(m, put_data(m, i, off, data))
<1> DEFINE start == off \div BlockSize
           skip == off % BlockSize
           count == BlockCount(off, Len(data))
           first == block_read(m.disk, get_block_index(m, i, start))
           buf == [k \in 1 .. count * BlockSize |->
                     IF k > skip /\ k =< skip + Len(data) THEN data[k - skip]
                     ELSE IF k =< BlockSize THEN first[k] ELSE Nul]
           m1 == write_back(m, i, start, count, buf)
<1>1. count \in Nat
  BY CountIsNat
<1> HIDE DEF buf, count, start
<1>2. Keeps(m, m1) /\ MemoryOK(m1)
  BY <1>1, WriteBackKeeps DEF Keeps
<1> HIDE DEF m1
<1> DEFINE s == m1.inode[i].size + Len(data)
<1>3. (~m1.inode[i].dir => s \in Nat) /\ m1.inode[i].nblocks \in 0 .. MaxFileBlocks + 1
  BY <1>2 DEF MemoryOK, TablesOK, InodeOK
<1>4. Writes(m1, [m1 EXCEPT !.inode[i].size = s])
  <2> HIDE DEF s
  <2>1. QED
    BY <1>2, <1>3, NumbersWrite
<1>5. [m1 EXCEPT !.inode[i].size = s] = put_data(m, i, off, data)
  BY DEF put_data, m1, buf, count, start
<1>6. QED
  BY <1>2, <1>4, <1>5 DEF Writes, Keeps

-----------------------------------------------------------------------------
(* Names and links. *)

LEMMA SequenceEnds ==
    ASSUME NEW S, NEW p \in Seq(S), p # <<>>
    PROVE  p[1] \in S /\ Len(SubSeq(p, 1, Len(p) - 1)) # Len(p)
<1>1. Len(p) \in Nat /\ Len(p) # 0
  BY EmptySeq
<1>2. QED
  BY <1>1

LEMMA PathFacts ==
    /\ Root # NoPath /\ Root \notin Files /\ Root \notin Paths
    /\ \A p \in Paths : /\ p # Root /\ p # NoPath /\ p # Front(p)
                        /\ Front(p) \in Dirs \cup {Root} /\ Front(p) # NoPath /\ Front(p) \notin Files
<1>1. Root # NoPath
  BY DEF Root, NoPath
<1>2. \A p \in Paths : p[1] \in STRING \ {""} /\ Len(SubSeq(p, 1, Len(p) - 1)) # Len(p)
  <2>1. \A p \in Paths : p \in Seq(STRING \ {""}) /\ p # <<>>
    BY PathAssumption DEF Root
  <2>2. QED
    BY <2>1, SequenceEnds, Zenon
<1>3. \A p \in Paths : p # NoPath /\ p # Front(p)
  <2>1. NoPath[1] = ""
    BY DEF NoPath
  <2>2. "" \notin STRING \ {""}
    OBVIOUS
  <2>3. QED
    BY <1>2, <2>1, <2>2, Zenon DEF Front
<1>4. QED
  BY <1>1, <1>2, <1>3, PathAssumption DEF Paths

\* path_lookup finds the one entry of a path.
LEMMA LookupFinds ==
    ASSUME NEW m, NamesOK(m), NEW p \in Paths \cup {Root}
    PROVE  /\ Named(m, p) => /\ path_lookup(m, p) \in Inodes
                             /\ Taken(m, path_lookup(m, p))
                             /\ m.names[path_lookup(m, p)].path = p
           /\ \A k \in Inodes : m.names[k].path = p => Named(m, p) /\ path_lookup(m, p) = k
<1> DEFINE S == {i \in Inodes : m.names[i].path = p}
<1>1. S \subseteq Nat
  BY ConstantTypes DEF Inodes
<1>2. (S = {} => FirstOf(S) = -1) /\ (S # {} => FirstOf(S) \in S)
  BY <1>1, FirstFound
<1>3. path_lookup(m, p) = FirstOf(S)
  BY DEF path_lookup
<1>4. p # NoPath
  BY PathFacts
<1>5. \A k \in S : Taken(m, k)
  BY <1>4 DEF NamesOK
<1>6. \A k, j \in S : k = j
  BY <1>5 DEF NamesOK
<1> HIDE DEF S
<1>7. S # {} => FirstOf(S) \in S /\ FirstOf(S) >= 0
  <2>1. \A n \in Nat : n >= 0
    OBVIOUS
  <2>2. QED
    BY <1>1, <1>2, <2>1, Zenon
<1>8. Named(m, p) <=> S # {}
  BY <1>2, <1>3, <1>7 DEF Named
<1>9. QED
  BY <1>3, <1>5, <1>6, <1>7, <1>8 DEF S

\* The invariant is about names, and about which inodes are allocated, directories, and
\* how often they are linked to.
LEMMA SameNamesAndLinks ==
    ASSUME NEW m, NEW r, NameInv(m), r.names = m.names,
           \A i \in Inodes : /\ r.inode[i].avail = m.inode[i].avail
                             /\ r.inode[i].dir = m.inode[i].dir
                             /\ r.inode[i].nlink = m.inode[i].nlink
    PROVE  NameInv(r)
<1>1. NamesOK(r)
  BY DEF NameInv, NamesOK, Taken
<1>2. LinksOK(r)
  <2>1. \A d : Kids(r, d) = Kids(m, d)
    BY DEF Kids, Taken
  <2>2. QED
    BY <2>1 DEF NameInv, NamesOK, LinksOK, Taken
<1>3. ParentsOK(r)
  BY DEF NameInv, ParentsOK, Taken
<1>4. NumberedAlike(r)
  BY DEF NameInv, NumberedAlike, Taken
<1>5. QED
  BY <1>1, <1>2, <1>3, <1>4 DEF NameInv

LEMMA KidsFinite ==
    ASSUME NEW m, NEW d
    PROVE  IsFiniteSet(Kids(m, d)) /\ Cardinality(Kids(m, d)) \in Nat
<1>1. IsFiniteSet(Inodes)
  BY ConstantTypes, FS_Interval DEF Inodes
<1>2. Kids(m, d) \subseteq Inodes
  BY DEF Kids
<1>3. QED
  BY <1>1, <1>2, FS_Subset, FS_CardinalityType

\* An inode that nobody uses is spent: taken back at once, or lost with its links.
LEMMA SpareInode ==
    ASSUME NEW m, NEW r, NameInv(m), r.names = m.names, NEW i \in Inodes, ~m.inode[i].avail,
           r.inode[i].avail \in BOOLEAN, r.inode[i].dir => r.inode[i].avail, r.inode[i].nlink \in {0, 1},
           \A x \in Inodes \ {i} : /\ r.inode[x].avail = m.inode[x].avail
                                   /\ r.inode[x].dir = m.inode[x].dir
                                   /\ r.inode[x].nlink = m.inode[x].nlink
    PROVE  NameInv(r)
<1>1. \A k \in Inodes : Taken(m, k) => m.names[k].ino # i /\ m.names[k].ino \in Inodes
  BY DEF NameInv, NamesOK
<1>2. NamesOK(r)
  BY <1>1 DEF NameInv, NamesOK, Taken
<1>3. LinksOK(r)
  <2>1. \A d : Kids(r, d) = Kids(m, d)
    BY DEF Kids, Taken
  <2>2. QED
    BY <1>1, <2>1 DEF NameInv, LinksOK, Taken
<1>4. ParentsOK(r)
  <2>1. \A j \in Inodes : m.inode[j].dir => r.inode[j].dir
    BY DEF NameInv, NamesOK
  <2>2. QED
    BY <2>1 DEF NameInv, ParentsOK, Taken
<1>5. NumberedAlike(r)
  <2>1. CASE r.inode[i].avail
    BY <1>1, <2>1 DEF NumberedAlike, Taken
  <2>2. CASE ~r.inode[i].avail
    BY <1>1, <2>2 DEF NameInv, NumberedAlike, Taken
  <2>3. QED
    BY <2>1, <2>2
<1>6. QED
  BY <1>2, <1>3, <1>4, <1>5 DEF NameInv

\* What create and mkdir do to names and links: path p gets entry k and inode i, both the
\* first that are free, and the inode of its directory a link.
Added(m, r, p, k, i, parent) ==
    /\ r.names = [m.names EXCEPT ![k] = [avail |-> TRUE, ino |-> i, path |-> p]]
    /\ \A x \in Inodes :
        /\ r.inode[x].avail <=> (x = i \/ m.inode[x].avail)
        /\ r.inode[x].dir <=> IF x = i THEN p \notin Files ELSE m.inode[x].dir
        /\ r.inode[x].nlink = IF x = i THEN (IF p \in Files THEN 1 ELSE 2)
                              ELSE IF x = parent THEN m.inode[x].nlink + 1 ELSE m.inode[x].nlink

LEMMA NameAdded ==
    ASSUME NEW m, NEW r, NameInv(m), NEW p \in Paths, NEW j \in Inodes, NEW k \in Inodes, NEW i \in Inodes,
           k = FirstOf({x \in Inodes : ~ m.names[x].avail}), ~ m.names[k].avail,
           i = FirstOf({x \in Inodes : ~ m.inode[x].avail}), ~ m.inode[i].avail,
           Taken(m, j), m.names[j].path = Front(p), m.inode[j].dir,
           \A x \in Inodes : m.names[x].path # p,
           \A x \in Inodes : m.inode[x].nlink \in Int,
           Added(m, r, p, k, i, m.names[j].ino)
    PROVE  NameInv(r)
<1> DEFINE parent == m.names[j].ino
<1>1. \A x \in Inodes : Taken(m, x) =>
        m.names[x].ino # i /\ m.names[x].ino \in Inodes /\ m.names[x].path # p /\ m.names[x].path # NoPath
  BY DEF NameInv, NamesOK
<1>2. p # Root /\ p # NoPath /\ p # Front(p) /\ Front(p) \notin Files /\ p \in Paths
  BY PathFacts
<1>3. /\ r.names[k] = [avail |-> TRUE, ino |-> i, path |-> p]
      /\ \A x \in Inodes : x # k => r.names[x] = m.names[x]
      /\ DOMAIN r.names = Inodes
      /\ r.names[k].ino = i /\ r.names[k].path = p /\ r.names[k].avail
  <2>1. DOMAIN m.names = Inodes
    BY DEF NameInv, NamesOK
  <2>2. QED
    BY <2>1 DEF Added
<1>4. \A x \in Inodes : Taken(r, x) <=> x = k \/ Taken(m, x)
  BY <1>3 DEF Taken
<1>5. k # j /\ parent # i /\ parent \in Inodes
  BY <1>1 DEF Taken
<1>6. NamesOK(r)
  <2>1. r.names \in [Inodes -> NameEntries]
    <3>1. i \in Int
      BY ConstantTypes DEF Inodes
    <3>2. [avail |-> TRUE, ino |-> i, path |-> p] \in NameEntries
      BY <3>1 DEF NameEntries
    <3>3. m.names \in [Inodes -> NameEntries]
      BY DEF NameInv, NamesOK
    <3>4. QED
      BY <3>2, <3>3 DEF Added
  <2>2. \A x \in Inodes :
        /\ Taken(r, x) <=> r.names[x].path # NoPath
        /\ Taken(r, x) => /\ r.names[x].ino \in Inodes
                          /\ r.inode[r.names[x].ino].avail
                          /\ r.inode[r.names[x].ino].dir <=> r.names[x].path \notin Files
    <3>1. SUFFICES ASSUME NEW x \in Inodes
                   PROVE  /\ Taken(r, x) <=> r.names[x].path # NoPath
                          /\ Taken(r, x) => /\ r.names[x].ino \in Inodes
                                            /\ r.inode[r.names[x].ino].avail
                                            /\ r.inode[r.names[x].ino].dir <=> r.names[x].path \notin Files
      OBVIOUS
    <3>2. CASE x = k
      <4>1. r.inode[i].avail /\ (r.inode[i].dir <=> p \notin Files)
        BY DEF Added
      <4>2. QED
        BY <1>2, <1>3, <1>4, <3>2, <4>1
    <3>3. CASE x # k
      <4>1. Taken(r, x) <=> Taken(m, x)
        BY <1>4, <3>3
      <4>2. r.names[x] = m.names[x]
        BY <1>3, <3>3
      <4>3. Taken(m, x) => m.names[x].ino \in Inodes /\ m.names[x].ino # i
        BY <1>1
      <4>4. Taken(m, x) => /\ r.inode[m.names[x].ino].avail <=> m.inode[m.names[x].ino].avail
                           /\ r.inode[m.names[x].ino].dir <=> m.inode[m.names[x].ino].dir
        BY <4>3 DEF Added
      <4>5. QED
        BY <4>1, <4>2, <4>3, <4>4 DEF NameInv, NamesOK
    <3>4. QED
      BY <3>2, <3>3
  <2>3. \A x, y \in Inodes : Taken(r, x) /\ Taken(r, y) /\ x # y =>
          r.names[x].path # r.names[y].path /\ r.names[x].ino # r.names[y].ino
    <3>1. \A x, y \in Inodes : Taken(m, x) /\ Taken(m, y) /\ x # y =>
            m.names[x].path # m.names[y].path /\ m.names[x].ino # m.names[y].ino
      BY DEF NameInv, NamesOK
    <3>2. \A x \in Inodes : Taken(r, x) /\ x # k =>
            /\ Taken(m, x) /\ r.names[x] = m.names[x]
            /\ r.names[x].path # p /\ r.names[x].ino # i
      BY <1>1, <1>3, <1>4
    <3>3. QED
      BY <1>3, <3>1, <3>2
  <2>4. \A x \in Inodes : r.inode[x].dir => r.inode[x].avail
    BY DEF Added, NameInv, NamesOK
  <2>5. QED
    BY <2>1, <2>2, <2>3, <2>4 DEF NamesOK
<1>7. /\ Kids(r, Front(p)) = Kids(m, Front(p)) \cup {k} /\ k \notin Kids(m, Front(p))
      /\ \A d : d # Front(p) => Kids(r, d) = Kids(m, d)
  <2>1. \A d : \A x \in Inodes : x # k => (x \in Kids(r, d) <=> x \in Kids(m, d))
    BY <1>3, <1>4 DEF Kids
  <2>2. \A d : k \in Kids(r, d) <=> d = Front(p)
    BY <1>2, <1>3, <1>4 DEF Kids
  <2>3. \A d : k \notin Kids(m, d)
    BY DEF Kids, Taken
  <2>4. \A d : Kids(r, d) \subseteq Inodes /\ Kids(m, d) \subseteq Inodes
    BY DEF Kids
  <2>5. Kids(r, Front(p)) = Kids(m, Front(p)) \cup {k}
    <3> DEFINE A == Kids(r, Front(p))
               B == Kids(m, Front(p))
    <3>1. /\ \A x \in Inodes : x # k => (x \in A <=> x \in B)
          /\ k \in A
          /\ A \subseteq Inodes /\ B \subseteq Inodes
      BY <2>1, <2>2, <2>4
    <3> HIDE DEF A, B
    <3>2. A = B \cup {k}
      BY <3>1
    <3>3. QED
      BY <3>2 DEF A, B
  <2>6. ASSUME NEW d, d # Front(p)
        PROVE  Kids(r, d) = Kids(m, d)
    <3> DEFINE A == Kids(r, d)
               B == Kids(m, d)
    <3>1. /\ \A x \in Inodes : x # k => (x \in A <=> x \in B)
          /\ k \notin A /\ k \notin B
          /\ A \subseteq Inodes /\ B \subseteq Inodes
      BY <2>1, <2>2, <2>3, <2>4, <2>6
    <3> HIDE DEF A, B
    <3>2. \A x : x \in A <=> x \in B
      BY <3>1
    <3>3. A = B
      BY <3>2, Zenon
    <3>4. QED
      BY <3>3 DEF A, B
  <2>7. QED
    BY <2>3, <2>5, <2>6
<1>8. Kids(r, p) = {}
  <2>1. Kids(m, p) = {}
    BY DEF NameInv, ParentsOK, Kids
  <2>2. QED
    BY <1>2, <1>7, <2>1
<1>9. LinksOK(r)
  <2>1. Cardinality(Kids(r, Front(p))) = Cardinality(Kids(m, Front(p))) + 1
    <3>1. IsFiniteSet(Kids(m, Front(p)))
      BY KidsFinite
    <3>2. Cardinality(Kids(m, Front(p)) \cup {k}) =
            IF k \in Kids(m, Front(p)) THEN Cardinality(Kids(m, Front(p))) ELSE Cardinality(Kids(m, Front(p))) + 1
      BY <3>1, FS_AddElement, Zenon
    <3>3. QED
      BY <1>7, <3>2, Zenon
  <2>2. Cardinality(Kids(r, p)) = 0
    BY <1>8, FS_EmptySet
  <2>3. ASSUME NEW x \in Inodes, Taken(r, x)
        PROVE  r.inode[r.names[x].ino].nlink =
                 IF r.names[x].path \in Files THEN 1 ELSE 2 + Cardinality(Kids(r, r.names[x].path))
    <3>1. CASE x = k
      <4>1. r.inode[i].nlink = IF p \in Files THEN 1 ELSE 2
        BY DEF Added
      <4>2. r.names[x].ino = i /\ r.names[x].path = p
        BY <1>3, <3>1
      <4>3. 2 + Cardinality(Kids(r, p)) = 2
        BY <2>2
      <4>4. QED
        BY <4>1, <4>2, <4>3, Zenon
    <3>2. CASE x = j
      <4>1. r.names[x] = m.names[x] /\ r.inode[parent].nlink = m.inode[parent].nlink + 1
        <5>1. r.names[x] = m.names[x]
          BY <1>3, <1>5, <3>2
        <5> HIDE DEF parent
        <5>2. r.inode[parent].nlink = m.inode[parent].nlink + 1
          BY <1>5 DEF Added, parent
        <5>3. QED
          BY <5>1, <5>2
      <4>2. m.inode[parent].nlink = 2 + Cardinality(Kids(m, Front(p)))
        BY <1>2 DEF NameInv, LinksOK
      <4>3. Cardinality(Kids(m, Front(p))) \in Nat
        BY KidsFinite
      <4>4. QED
        BY <1>2, <2>1, <3>2, <4>1, <4>2, <4>3
    <3>3. CASE x # k /\ x # j
      <4>1. Taken(m, x) /\ r.names[x] = m.names[x]
        BY <1>3, <1>4, <2>3, <3>3
      <4>2. m.names[x].path # Front(p) /\ m.names[x].ino # parent /\ m.names[x].ino # i /\ m.names[x].ino \in Inodes
        BY <1>1, <3>3, <4>1 DEF NameInv, NamesOK
      <4>3. r.inode[m.names[x].ino].nlink = m.inode[m.names[x].ino].nlink
        BY <4>2 DEF Added
      <4>4. Kids(r, m.names[x].path) = Kids(m, m.names[x].path)
        BY <1>7, <4>2
      <4>5. m.inode[m.names[x].ino].nlink =
              IF m.names[x].path \in Files THEN 1 ELSE 2 + Cardinality(Kids(m, m.names[x].path))
        BY <4>1 DEF NameInv, LinksOK
      <4>6. QED
        BY <4>1, <4>3, <4>4, <4>5
    <3>4. QED
      BY <3>1, <3>2, <3>3
  <2>4. ASSUME NEW y \in Inodes, \A x \in Inodes : Taken(r, x) => r.names[x].ino # y
        PROVE  r.inode[y].nlink \in {0, 1}
    <3>1. \A x \in Inodes : Taken(m, x) => m.names[x].ino # y
      BY <1>3, <1>4, <2>4 DEF Taken
    <3>2. y # i
      BY <1>3, <1>4, <2>4
    <3>3. y # parent
      BY <3>1
    <3>4. r.inode[y].nlink = m.inode[y].nlink
      BY <3>2, <3>3 DEF Added
    <3>5. QED
      BY <3>1, <3>4 DEF NameInv, LinksOK
  <2>5. QED
    BY <2>3, <2>4 DEF LinksOK
<1>10. ParentsOK(r)
  <2>1. \A x \in Inodes : m.inode[x].dir => r.inode[x].dir
    BY DEF Added, NameInv, NamesOK
  <2>2. \A x \in Inodes : Taken(m, x) => Taken(r, x) /\ r.names[x] = m.names[x]
    BY <1>3, <1>4 DEF Taken
  <2>3. ASSUME NEW x \in Inodes, Taken(r, x)
        PROVE  \E y \in Inodes : Taken(r, y) /\ r.names[y].path = Root
    <3>1. PICK y \in Inodes : Taken(m, y) /\ m.names[y].path = Root
      BY DEF NameInv, ParentsOK
    <3>2. QED
      BY <2>2, <3>1
  <2>4. ASSUME NEW x \in Inodes, Taken(r, x), r.names[x].path # Root
        PROVE  \E y \in Inodes : Taken(r, y) /\ r.names[y].path = Front(r.names[x].path) /\ r.inode[y].dir
    <3>1. CASE x = k
      BY <1>3, <2>1, <2>2, <3>1
    <3>2. CASE x # k
      <4>1. Taken(m, x) /\ r.names[x] = m.names[x]
        BY <1>3, <1>4, <2>4, <3>2
      <4>2. PICK y \in Inodes : Taken(m, y) /\ m.names[y].path = Front(m.names[x].path) /\ m.inode[y].dir
        BY <2>4, <4>1 DEF NameInv, ParentsOK
      <4>3. QED
        BY <2>1, <2>2, <4>1, <4>2
    <3>3. QED
      BY <3>1, <3>2
  <2>5. QED
    BY <2>3, <2>4 DEF ParentsOK
<1>11. NumberedAlike(r)
  <2>1. SUFFICES ASSUME \A y \in Inodes : r.inode[y].avail => \E x \in Inodes : Taken(r, x) /\ r.names[x].ino = y
                 PROVE  \A x \in Inodes : Taken(r, x) => r.names[x].ino = x
    BY DEF NumberedAlike
  <2>2. \A y \in Inodes : m.inode[y].avail => \E x \in Inodes : Taken(m, x) /\ m.names[x].ino = y
    <3>1. SUFFICES ASSUME NEW y \in Inodes, m.inode[y].avail
                   PROVE  \E x \in Inodes : Taken(m, x) /\ m.names[x].ino = y
      OBVIOUS
    <3>2. PICK x \in Inodes : Taken(r, x) /\ r.names[x].ino = y
      BY <2>1, <3>1 DEF Added
    <3>3. x # k
      BY <1>3, <3>1, <3>2
    <3>4. QED
      BY <1>3, <1>4, <3>2, <3>3
  <2>3. \A x \in Inodes : Taken(m, x) => m.names[x].ino = x
    BY <2>2 DEF NameInv, NumberedAlike
  <2>4. \A x \in Inodes : Taken(m, x) <=> m.inode[x].avail
    BY <2>2, <2>3 DEF NameInv, NamesOK
  <2>5. {x \in Inodes : ~ m.names[x].avail} = {x \in Inodes : ~ m.inode[x].avail}
    BY <2>4 DEF Taken
  <2>6. k = i
    BY <2>5
  <2>7. QED
    BY <1>3, <1>4, <2>3, <2>6
<1>12. QED
  BY <1>6, <1>9, <1>10, <1>11 DEF NameInv

\* What unlink and rmdir do to names and links: path p loses its entry k, its inode i is
\* freed or, if it is a directory's, loses a link, and so does the inode of its directory.
Removed(m, r, k, i, parent) ==
    /\ r.names = [m.names EXCEPT ![k] = [avail |-> FALSE, ino |-> -1, path |-> NoPath]]
    /\ \A x \in Inodes \ {i} :
        /\ r.inode[x].avail <=> m.inode[x].avail
        /\ r.inode[x].dir <=> m.inode[x].dir
        /\ r.inode[x].nlink = IF x = parent THEN m.inode[x].nlink - 1 ELSE m.inode[x].nlink
    /\ m.inode[i].nlink > 1 => /\ r.inode[i].avail <=> m.inode[i].avail
                               /\ r.inode[i].dir <=> m.inode[i].dir
                               /\ r.inode[i].nlink = m.inode[i].nlink - 1
    /\ ~(m.inode[i].nlink > 1) => ~ r.inode[i].avail /\ ~ r.inode[i].dir /\ r.inode[i].nlink = 0

LEMMA NameRemoved ==
    ASSUME NEW m, NEW r, NameInv(m), NEW p \in Paths, NEW j \in Inodes, NEW k \in Inodes,
           Taken(m, k), m.names[k].path = p, Kids(m, p) = {},
           Taken(m, j), m.names[j].path = Front(p),
           Removed(m, r, k, m.names[k].ino, m.names[j].ino)
    PROVE  NameInv(r)
<1> DEFINE parent == m.names[j].ino
           i == m.names[k].ino
<1>1. p # Root /\ p # NoPath /\ p # Front(p) /\ Front(p) \notin Files
  BY PathFacts
<1>2. j # k /\ i \in Inodes /\ parent \in Inodes /\ parent # i
  BY <1>1 DEF NameInv, NamesOK
<1>3. /\ \A x \in Inodes : x # k => r.names[x] = m.names[x]
      /\ r.names[k] = [avail |-> FALSE, ino |-> -1, path |-> NoPath]
      /\ ~ r.names[k].avail /\ r.names[k].path = NoPath
  <2>1. DOMAIN m.names = Inodes
    BY DEF NameInv, NamesOK
  <2>2. r.names = [m.names EXCEPT ![k] = [avail |-> FALSE, ino |-> -1, path |-> NoPath]]
    BY Zenon DEF Removed
  <2>3. QED
    BY <2>1, <2>2
<1>4. \A x \in Inodes : Taken(r, x) <=> x # k /\ Taken(m, x)
  BY <1>3 DEF Taken
<1>5. \A x \in Inodes : Taken(m, x) /\ x # k => m.names[x].ino # i /\ m.names[x].ino \in Inodes
  BY DEF NameInv, NamesOK
<1>6. /\ m.inode[i].nlink = IF p \in Files THEN 1 ELSE 2
      /\ m.inode[i].dir <=> p \notin Files
  <2>1. Cardinality(Kids(m, p)) = 0
    BY FS_EmptySet
  <2>2. m.inode[i].nlink = IF p \in Files THEN 1 ELSE 2 + Cardinality(Kids(m, p))
    BY DEF NameInv, LinksOK
  <2>3. QED
    BY <2>1, <2>2 DEF NameInv, NamesOK
<1>7. /\ p \in Files => ~ r.inode[i].avail /\ ~ r.inode[i].dir /\ r.inode[i].nlink = 0
      /\ p \notin Files => r.inode[i].avail /\ r.inode[i].dir /\ r.inode[i].nlink = 1
  <2>1. CASE p \in Files
    <3>1. ~(m.inode[i].nlink > 1)
      BY <1>6, <2>1
    <3>2. QED
      BY <2>1, <3>1 DEF Removed
  <2>2. CASE p \notin Files
    <3>1. m.inode[i].nlink = 2 /\ m.inode[i].nlink > 1 /\ m.inode[i].dir /\ m.inode[i].avail
      BY <1>6, <2>2 DEF NameInv, NamesOK
    <3>2. m.inode[i].nlink > 1 => /\ r.inode[i].avail <=> m.inode[i].avail
                                  /\ r.inode[i].dir <=> m.inode[i].dir
                                  /\ r.inode[i].nlink = m.inode[i].nlink - 1
      BY Zenon DEF Removed
    <3>3. QED
      BY <2>2, <3>1, <3>2
  <2>3. QED
    BY <2>1, <2>2
<1>8. NamesOK(r)
  <2>1. r.names \in [Inodes -> NameEntries]
    <3>1. [avail |-> FALSE, ino |-> -1, path |-> NoPath] \in NameEntries
      BY DEF NameEntries
    <3>2. m.names \in [Inodes -> NameEntries]
      BY DEF NameInv, NamesOK
    <3>3. QED
      BY <3>1, <3>2 DEF Removed
  <2>2. ASSUME NEW x \in Inodes
        PROVE  /\ Taken(r, x) <=> r.names[x].path # NoPath
               /\ Taken(r, x) => /\ r.names[x].ino \in Inodes
                                 /\ r.inode[r.names[x].ino].avail
                                 /\ r.inode[r.names[x].ino].dir <=> r.names[x].path \notin Files
    <3>1. CASE x = k
      BY <1>3, <1>4, <3>1
    <3>2. CASE x # k
      <4>1. (Taken(r, x) <=> Taken(m, x)) /\ r.names[x] = m.names[x]
        BY <1>3, <1>4, <3>2
      <4>2. Taken(m, x) => m.names[x].ino \in Inodes \ {i}
        BY <1>5, <3>2
      <4>3. Taken(m, x) => /\ r.inode[m.names[x].ino].avail <=> m.inode[m.names[x].ino].avail
                           /\ r.inode[m.names[x].ino].dir <=> m.inode[m.names[x].ino].dir
        BY <4>2 DEF Removed
      <4>4. QED
        BY <4>1, <4>2, <4>3 DEF NameInv, NamesOK
    <3>3. QED
      BY <3>1, <3>2
  <2>3. \A x, y \in Inodes : Taken(r, x) /\ Taken(r, y) /\ x # y =>
          r.names[x].path # r.names[y].path /\ r.names[x].ino # r.names[y].ino
    BY <1>3, <1>4 DEF NameInv, NamesOK
  <2>4. \A x \in Inodes : r.inode[x].dir => r.inode[x].avail
    <3>1. \A x \in Inodes \ {i} : r.inode[x].dir => r.inode[x].avail
      BY DEF Removed, NameInv, NamesOK
    <3>2. QED
      BY <1>7, <3>1
  <2>5. QED
    BY <2>1, <2>2, <2>3, <2>4 DEF NamesOK
<1>9. /\ Kids(r, Front(p)) = Kids(m, Front(p)) \ {k} /\ k \in Kids(m, Front(p))
      /\ \A d : d # Front(p) => Kids(r, d) = Kids(m, d)
  BY <1>1, <1>3, <1>4 DEF Kids
<1>10. LinksOK(r)
  <2>1. Cardinality(Kids(r, Front(p))) = Cardinality(Kids(m, Front(p))) - 1
    <3>1. IsFiniteSet(Kids(m, Front(p)))
      BY KidsFinite
    <3>2. Cardinality(Kids(m, Front(p)) \ {k}) =
            IF k \in Kids(m, Front(p)) THEN Cardinality(Kids(m, Front(p))) - 1 ELSE Cardinality(Kids(m, Front(p)))
      BY <3>1, FS_RemoveElement, Zenon
    <3>3. QED
      BY <1>9, <3>2, Zenon
  <2>2. ASSUME NEW x \in Inodes, Taken(r, x)
        PROVE  r.inode[r.names[x].ino].nlink =
                 IF r.names[x].path \in Files THEN 1 ELSE 2 + Cardinality(Kids(r, r.names[x].path))
    <3>1. x # k /\ Taken(m, x) /\ r.names[x] = m.names[x] /\ m.names[x].ino \in Inodes \ {i}
      BY <1>3, <1>4, <1>5, <2>2
    <3>2. CASE x = j
      <4>1. r.inode[parent].nlink = m.inode[parent].nlink - 1
        BY <1>2 DEF Removed
      <4>2. m.inode[parent].nlink = 2 + Cardinality(Kids(m, Front(p)))
        BY <1>1 DEF NameInv, LinksOK
      <4>3. Cardinality(Kids(m, Front(p))) \in Nat
        BY KidsFinite
      <4>4. QED
        BY <1>1, <2>1, <3>1, <3>2, <4>1, <4>2, <4>3
    <3>3. CASE x # j
      <4>1. m.names[x].path # Front(p) /\ m.names[x].ino # parent
        BY <3>1, <3>3 DEF NameInv, NamesOK
      <4>2. r.inode[m.names[x].ino].nlink = m.inode[m.names[x].ino].nlink
        BY <3>1, <4>1 DEF Removed
      <4>3. QED
        BY <1>9, <3>1, <4>1, <4>2 DEF NameInv, LinksOK
    <3>4. QED
      BY <3>2, <3>3
  <2>3. ASSUME NEW y \in Inodes, \A x \in Inodes : Taken(r, x) => r.names[x].ino # y
        PROVE  r.inode[y].nlink \in {0, 1}
    <3>1. CASE y = i
      BY <1>7, <3>1
    <3>2. CASE y # i
      <4>1. \A x \in Inodes : Taken(m, x) => m.names[x].ino # y
        BY <1>3, <1>4, <2>3, <3>2
      <4>2. y # parent
        BY <4>1
      <4>3. r.inode[y].nlink = m.inode[y].nlink
        BY <3>2, <4>2 DEF Removed
      <4>4. QED
        BY <4>1, <4>3 DEF NameInv, LinksOK
    <3>3. QED
      BY <3>1, <3>2
  <2>4. QED
    BY <2>2, <2>3 DEF LinksOK
<1>11. ParentsOK(r)
  <2>1. \A x \in Inodes : m.inode[x].dir => r.inode[x].dir
    <3>1. \A x \in Inodes \ {i} : m.inode[x].dir => r.inode[x].dir
      BY DEF Removed
    <3>2. QED
      BY <1>6, <1>7, <3>1
  <2>2. \A x \in Inodes : Taken(m, x) /\ x # k => Taken(r, x) /\ r.names[x] = m.names[x]
    BY <1>3, <1>4
  <2>3. ASSUME NEW x \in Inodes, Taken(r, x)
        PROVE  \E y \in Inodes : Taken(r, y) /\ r.names[y].path = Root
    <3>1. PICK y \in Inodes : Taken(m, y) /\ m.names[y].path = Root
      BY DEF NameInv, ParentsOK
    <3>2. y # k
      BY <1>1, <3>1
    <3>3. QED
      BY <2>2, <3>1, <3>2
  <2>4. ASSUME NEW x \in Inodes, Taken(r, x), r.names[x].path # Root
        PROVE  \E y \in Inodes : Taken(r, y) /\ r.names[y].path = Front(r.names[x].path) /\ r.inode[y].dir
    <3>1. Taken(m, x) /\ r.names[x] = m.names[x]
      BY <1>3, <1>4, <2>4
    <3>2. PICK y \in Inodes : Taken(m, y) /\ m.names[y].path = Front(m.names[x].path) /\ m.inode[y].dir
      BY <2>4, <3>1 DEF NameInv, ParentsOK
    <3>3. y # k
      <4>1. x \notin Kids(m, p)
        OBVIOUS
      <4>2. QED
        BY <2>4, <3>1, <3>2, <4>1 DEF Kids
    <3>4. QED
      BY <2>1, <2>2, <3>1, <3>2, <3>3
  <2>5. QED
    BY <2>3, <2>4 DEF ParentsOK
<1>12. NumberedAlike(r)
  <2>1. SUFFICES ASSUME \A y \in Inodes : r.inode[y].avail => \E x \in Inodes : Taken(r, x) /\ r.names[x].ino = y
                 PROVE  \A x \in Inodes : Taken(r, x) => r.names[x].ino = x
    BY DEF NumberedAlike
  <2>2. \A x \in Inodes : Taken(r, x) => Taken(m, x) /\ m.names[x].ino = r.names[x].ino /\ m.names[x].ino # i
    BY <1>3, <1>4, <1>5
  <2>3. \A y \in Inodes : m.inode[y].avail => \E x \in Inodes : Taken(m, x) /\ m.names[x].ino = y
    <3>1. \A y \in Inodes \ {i} : m.inode[y].avail => r.inode[y].avail
      BY DEF Removed
    <3>2. QED
      BY <2>1, <2>2, <3>1
  <2>4. \A x \in Inodes : Taken(m, x) => m.names[x].ino = x
    BY <2>3 DEF NameInv, NumberedAlike
  <2>5. QED
    BY <2>2, <2>4
<1>13. QED
  BY <1>8, <1>10, <1>11, <1>12 DEF NameInv

-----------------------------------------------------------------------------
(* The handlers. *)

\* The functions that take and free inodes.  Inode i of m becomes e.
SetsInode(m, r, i, e) ==
    /\ MemoryOK(r) /\ r.names = m.names /\ r.open = m.open /\ r.disk = m.disk
    /\ r.inode[i] = e
    /\ \A x \in Inodes \ {i} : r.inode[x] = m.inode[x]

LEMMA InodeSet ==
    ASSUME NEW m, MemoryOK(m), NEW i \in Inodes, NEW e, InodeOK(e)
    PROVE  SetsInode(m, [m EXCEPT !.inode[i] = e], i, e)
<1> DEFINE r == [m EXCEPT !.inode[i] = e]
<1>1. /\ DOMAIN r = TableNames \cup {"disk", "ub"} /\ r.disk = m.disk /\ r.names = m.names
      /\ r.open = m.open /\ r.map = m.map /\ DOMAIN r.inode = Inodes
      /\ r.inode[i] = e /\ \A x \in Inodes \ {i} : r.inode[x] = m.inode[x]
  BY DEF MemoryOK, TablesOK, TableNames
<1> HIDE DEF r
<1>2. MemoryOK(r)
  BY <1>1 DEF MemoryOK, TablesOK
<1>3. SetsInode(m, r, i, e)
  BY <1>1, <1>2 DEF SetsInode
<1>4. QED
  BY <1>3 DEF r

\* Inode i of m loses a link, or is free.
Frees(m, r, i) ==
    /\ MemoryOK(r) /\ r.names = m.names /\ r.open = m.open
    /\ m.inode[i].nlink > 1 => /\ r.inode[i].avail = m.inode[i].avail
                               /\ r.inode[i].dir = m.inode[i].dir
                               /\ r.inode[i].nlink = m.inode[i].nlink - 1
    /\ ~(m.inode[i].nlink > 1) => /\ r.inode[i].avail = FALSE
                                  /\ r.inode[i].dir = FALSE
                                  /\ r.inode[i].nlink = 0
    /\ \A x \in Inodes \ {i} : r.inode[x] = m.inode[x]

LEMMA FreeInode ==
    ASSUME NEW m, MemoryOK(m), NEW i \in Inodes
    PROVE  Frees(m, free_inode(m, i), i)
<1> DEFINE r == free_inode(m, i)
<1>1. InodeOK(m.inode[i])
  BY DEF MemoryOK, TablesOK
<1>2. CASE m.inode[i].nlink > 1
  <2> DEFINE e == [m.inode[i] EXCEPT !.nlink = @ - 1]
  <2>1. InodeOK(e) /\ e.avail = m.inode[i].avail /\ e.dir = m.inode[i].dir /\ e.nlink = m.inode[i].nlink - 1
    BY <1>1 DEF InodeOK, Fields
  <2>2. r = [m EXCEPT !.inode[i] = e]
    BY <1>2 DEF free_inode
  <2> HIDE DEF r, e
  <2>3. /\ DOMAIN r = TableNames \cup {"disk", "ub"} /\ r.disk = m.disk /\ r.names = m.names
        /\ r.open = m.open /\ r.map = m.map /\ DOMAIN r.inode = Inodes
        /\ r.inode[i] = e /\ \A x \in Inodes \ {i} : r.inode[x] = m.inode[x]
    BY <2>2 DEF MemoryOK, TablesOK, TableNames
  <2>4. MemoryOK(r)
    BY <2>1, <2>3 DEF MemoryOK, TablesOK
  <2>5. Frees(m, r, i)
    BY <1>2, <2>1, <2>3, <2>4 DEF Frees
  <2>6. QED
    BY <2>5 DEF r
<1>3. CASE ~(m.inode[i].nlink > 1)
  <2> DEFINE bs == [n \in 0 .. NumDirect + 1 |-> IF n < NumDirect THEN -1 ELSE m.inode[i].blocks[n]]
             e == [ZeroInode EXCEPT !.blocks = bs]
             map == [b \in Blocks |-> m.map[b] /\ b \notin freed(m, i)]
             u == IF NumBlocks \in freed(m, i) THEN "wild block" ELSE m.ub
  <2>1. bs \in [0 .. NumDirect + 1 -> Blocks \cup {-1}]
    BY <1>1 DEF InodeOK
  <2>2. map \in [Blocks -> BOOLEAN]
    BY DEF MemoryOK, TablesOK
  <2>3. r = [m EXCEPT !.inode[i] = e, !.map = map, !.ub = u]
    BY <1>3 DEF free_inode, ZeroInode
  <2> HIDE DEF bs, map, u, r
  <2>4. InodeOK(e) /\ e.avail = FALSE /\ e.dir = FALSE /\ e.nlink = 0
    BY <2>1, ConstantTypes DEF InodeOK, Fields, ZeroInode
  <2> HIDE DEF e
  <2>5. /\ DOMAIN r = TableNames \cup {"disk", "ub"} /\ r.disk = m.disk /\ r.names = m.names
        /\ r.open = m.open /\ r.map = map /\ DOMAIN r.inode = Inodes
        /\ r.inode[i] = e /\ \A x \in Inodes \ {i} : r.inode[x] = m.inode[x]
    BY <2>3 DEF MemoryOK, TablesOK, TableNames
  <2>6. MemoryOK(r)
    BY <2>2, <2>4, <2>5 DEF MemoryOK, TablesOK
  <2>7. Frees(m, r, i)
    BY <1>3, <2>4, <2>5, <2>6 DEF Frees
  <2>8. QED
    BY <2>7 DEF r
<1>4. QED
  BY <1>2, <1>3

\* In m there is room for p: an entry k and an inode i, the first ones that are free, and
\* in entry j the directory that p will be in.
Room(m, p, j, i, k) ==
    /\ MemoryOK(m) /\ NameInv(m) /\ p \in Paths /\ j \in Inodes /\ i \in Inodes /\ k \in Inodes
    /\ Taken(m, j) /\ m.names[j].path = Front(p) /\ m.inode[j].dir
    /\ \A x \in Inodes : m.names[x].path # p
    /\ i = get_inode(m) /\ k = get_mapping(m)

\* s is m with inode i in use for p, and entry k.
Filled(m, s, p, i, k) ==
    /\ MemoryOK(s) /\ s.open = m.open
    /\ s.names = [m.names EXCEPT ![k] = [avail |-> TRUE, ino |-> i, path |-> p]]
    /\ s.inode[i].avail /\ (s.inode[i].dir <=> p \notin Files)
    /\ s.inode[i].nlink = IF p \in Files THEN 1 ELSE 2
    /\ \A x \in Inodes \ {i} : /\ s.inode[x].avail = m.inode[x].avail
                                /\ s.inode[x].dir = m.inode[x].dir
                                /\ s.inode[x].nlink = m.inode[x].nlink

\* r is m with entry k for p, in good order.
Entered(m, r, p, i, k) ==
    /\ MemoryOK(r) /\ NameInv(r) /\ r.open = m.open
    /\ r.names = [m.names EXCEPT ![k] = [avail |-> TRUE, ino |-> i, path |-> p]]

LEMMA EntryAdded ==
    ASSUME NEW m, NEW s, NEW p, NEW j, NEW i, NEW k, Room(m, p, j, i, k), Filled(m, s, p, i, k),
           NEW name, NEW wide
    PROVE  Entered(m, add_entry(s, m.names[j].ino, name, i, wide), p, i, k)
<1> DEFINE parent == m.names[j].ino
           r == add_entry(s, parent, name, i, wide)
<1>0. j \in Inodes /\ i \in Inodes /\ k \in Inodes /\ p \in Paths /\ NameInv(m)
  BY DEF Room
<1>1. ~ m.inode[i].avail /\ ~ m.names[k].avail
  <2>1. {x \in Inodes : ~ m.inode[x].avail} \subseteq Nat /\ {x \in Inodes : ~ m.names[x].avail} \subseteq Nat
    BY ConstantTypes DEF Inodes
  <2>2. i # -1 /\ k # -1
    BY <1>0, ConstantTypes DEF Inodes
  <2>3. QED
    BY <2>1, <2>2, FirstFound DEF get_inode, get_mapping, Room
<1>2. parent \in Inodes /\ m.inode[parent].avail /\ m.inode[parent].dir
  <2>1. Front(p) \notin Files
    BY <1>0, PathFacts
  <2>2. QED
    BY <1>0, <2>1 DEF NameInv, NamesOK, Room
<1>3. parent # i /\ s.inode[parent].dir /\ MemoryOK(s)
  BY <1>1, <1>2 DEF Filled
<1>4. Relinks(s, r, parent, s.inode[parent].nlink + 1)
  BY <1>2, <1>3, AddEntryRelinks
<1> HIDE DEF r
<1>5. Added(m, r, p, k, i, parent)
  BY <1>2, <1>3, <1>4 DEF Relinks, Added, Filled
<1>6. \A x \in Inodes : m.inode[x].nlink \in Int
  BY DEF MemoryOK, TablesOK, InodeOK, Room
<1>7. NameInv(r)
  BY <1>0, <1>1, <1>5, <1>6, NameAdded DEF get_inode, get_mapping, Room
<1>8. Entered(m, r, p, i, k)
  BY <1>4, <1>7 DEF Relinks, Entered, Filled
<1>9. QED
  BY <1>8 DEF r

\* What a handler leaves is what holds next.
LEMMA HoldNext ==
    ASSUME NEW m, Hold(m), MemoryOK(m), NameInv(m)
    PROVE  MemoryOK(Now') /\ NameInv(Now')
<1>1. /\ DOMAIN Now' = TableNames \cup {"disk", "ub"}
      /\ Now'.inode = m.inode /\ Now'.names = m.names /\ Now'.open = m.open
      /\ Now'.map = m.map /\ Now'.disk = m.disk
  BY DEF Hold, Now, Memory, Tables, TableNames
<1>2. MemoryOK(Now')
  BY <1>1 DEF MemoryOK, TablesOK
<1>3. NameInv(Now')
  BY <1>1, SameNamesAndLinks
<1>4. QED
  BY <1>2, <1>3

\* Handles stay good if the names of open files do.
LEMMA HandlesStay ==
    ASSUME HandlesOK, mounted, mounted',
           \A x \in Inodes : name_table[x].avail /\ name_table[x].path \in Opened => name_table'[x] = name_table[x],
           DOMAIN fds' \subseteq DOMAIN fds,
           \A h \in DOMAIN fds' : fds'[h] = fds[h] /\ open_files'[h] = open_files[h]
    PROVE  HandlesOK'
<1>1. SUFFICES ASSUME NEW h \in DOMAIN fds'
               PROVE  /\ h \in Handles /\ fds'[h] \in Files
                      /\ \E k \in Inodes : /\ name_table'[k].avail /\ name_table'[k].path = fds'[h]
                                           /\ name_table'[k].ino = open_files'[h]
  BY DEF HandlesOK
<1>2. h \in DOMAIN fds /\ fds'[h] = fds[h] /\ open_files'[h] = open_files[h] /\ fds[h] \in Opened
  BY DEF Opened
<1>3. PICK k \in Inodes : name_table[k].avail /\ name_table[k].path = fds[h] /\ name_table[k].ino = open_files[h]
  BY <1>2 DEF HandlesOK
<1>4. name_table'[k] = name_table[k]
  BY <1>2, <1>3
<1>5. QED
  BY <1>2, <1>3, <1>4 DEF HandlesOK

\* get_fh finds no handle that is in use.
LEMMA FreshHandle ==
    ASSUME SfsInv, NEW fh, fh = get_fh(Now), fh # -1
    PROVE  fh \in Handles /\ fh \notin DOMAIN fds
<1>1. fh \in Handles /\ open_files[fh] < 0
  <2>1. {h \in Handles : open_files[h] < 0} \subseteq Nat
    BY SfsAssumption DEF Handles
  <2>2. fh = FirstOf({h \in Handles : open_files[h] < 0})
    BY DEF get_fh, Now, Memory, Tables
  <2>3. QED
    BY <2>1, <2>2, FirstFound
<1>2. \A x \in Inodes : name_table[x].avail => ~(name_table[x].ino < 0)
  BY ConstantTypes DEF SfsInv, NameInv, NamesOK, Taken, Now, Memory, Tables, Inodes
<1>3. QED
  BY <1>1, <1>2 DEF SfsInv, HandlesOK

\* A new handle.
LEMMA HandleAdded ==
    ASSUME SfsInv, mounted, mounted', NEW fh, fh = get_fh(Now), fh # -1, NEW p \in Files, NEW k \in Inodes,
           name_table'[k].avail, name_table'[k].path = p, fds' = handle(fh, p),
           open_files' = [open_files EXCEPT ![fh] = name_table'[k].ino],
           \A x \in Inodes : name_table[x].avail => name_table'[x] = name_table[x]
    PROVE  HandlesOK'
<1>1. fh \in Handles
  BY FreshHandle
<1>2. DOMAIN open_files = Handles
  BY DEF SfsInv, MemoryOK, TablesOK, Now, Memory, Tables
<1>3. fh \notin DOMAIN fds
  BY FreshHandle
<1>4. DOMAIN fds' = DOMAIN fds \cup {fh} /\ fds'[fh] = p /\ \A h \in DOMAIN fds : fds'[h] = fds[h]
  BY <1>3 DEF handle
<1>5. open_files'[fh] = name_table'[k].ino /\ \A h \in DOMAIN fds : open_files'[h] = open_files[h]
  BY <1>1, <1>2, <1>3 DEF SfsInv, HandlesOK
<1>6. ASSUME NEW h \in DOMAIN fds'
      PROVE  /\ h \in Handles /\ fds'[h] \in Files
             /\ \E x \in Inodes : /\ name_table'[x].avail /\ name_table'[x].path = fds'[h]
                                  /\ name_table'[x].ino = open_files'[h]
  <2>1. CASE h = fh
    BY <1>1, <1>4, <1>5, <2>1
  <2>2. CASE h # fh
    <3>1. h \in DOMAIN fds /\ fds'[h] = fds[h] /\ open_files'[h] = open_files[h]
      BY <1>4, <1>5, <1>6, <2>2
    <3>2. PICK x \in Inodes : name_table[x].avail /\ name_table[x].path = fds[h] /\ name_table[x].ino = open_files[h]
      BY <3>1 DEF SfsInv, HandlesOK
    <3>3. name_table'[x] = name_table[x]
      BY <3>2
    <3>4. QED
      BY <3>1, <3>2, <3>3 DEF SfsInv, HandlesOK
  <2>3. QED
    BY <2>1, <2>2
<1>7. QED
  BY <1>6 DEF HandlesOK

\* The parts of Now, and what the invariant says of them.
LEMMA NowParts ==
    /\ Now.inode = inode_table /\ Now.names = name_table /\ Now.open = open_files
    /\ Now.map = disk_blocks /\ Now.disk = disk
  BY DEF Now, Memory, Tables

\* A directory that getattr sees has an entry, in whose place there is a directory's inode.
LEMMA SeenDirectory ==
    ASSUME NameInv(Now), NEW p \in Paths, Sees(Front(p), TRUE)
    PROVE  LET j == path_lookup(Now, Front(p))
           IN  /\ j \in Inodes /\ Taken(Now, j) /\ name_table[j].path = Front(p) /\ inode_table[j].dir
               /\ InodeOf(Now, Front(p)) = name_table[j].ino
<1>1. Front(p) \in Paths \cup {Root}
  BY PathFacts DEF Paths
<1>2. QED
  BY <1>1, LookupFinds, NowParts DEF Sees, NameInv, InodeOf, sfs_getattr

\* A step that leaves the saved tables alone.
LEMMA TablesNext ==
    ASSUME SfsInv, NEW m, Hold(m), MemoryOK(m), NameInv(m), saved' = saved, HandlesOK'
    PROVE  SfsInv'
<1>1. MemoryOK(Now') /\ NameInv(Now')
  BY HoldNext
<1>2. QED
  BY <1>1 DEF SfsInv

\* n is m with a new inode i.
HasNew(m, n, i, nlink) ==
    /\ MemoryOK(n) /\ n.names = m.names /\ n.open = m.open
    /\ n.inode[i].avail /\ n.inode[i].nlink = nlink
    /\ \A x \in Inodes \ {i} : /\ n.inode[x].avail = m.inode[x].avail
                                /\ n.inode[x].dir = m.inode[x].dir
                                /\ n.inode[x].nlink = m.inode[x].nlink

LEMMA NewFile ==
    ASSUME NEW m, MemoryOK(m), NEW i \in Inodes
    PROVE  LET n == new_inode(m, i, FALSE, 1, 0, 0) IN HasNew(m, n, i, 1) /\ ~ n.inode[i].dir
<1> DEFINE n == new_inode(m, i, FALSE, 1, 0, 0)
           e == [avail |-> TRUE, dir |-> FALSE, nlink |-> 1, size |-> 0, nblocks |-> 0,
                 blocks |-> [x \in 0 .. NumDirect + 1 |-> -1]]
<1>1. InodeOK(e) /\ e.avail = TRUE /\ e.dir = FALSE /\ e.nlink = 1
  BY ConstantTypes DEF InodeOK, Fields
<1>2. n = [m EXCEPT !.inode[i] = e]
  BY DEF new_inode
<1> HIDE DEF e, n
<1>3. SetsInode(m, n, i, e)
  BY <1>1, <1>2, InodeSet
<1>4. HasNew(m, n, i, 1) /\ ~ n.inode[i].dir
  BY <1>1, <1>3 DEF SetsInode, HasNew
<1>5. QED
  BY <1>4 DEF n

\* The entry of a new inode.
LEMMA NameFilled ==
    ASSUME NEW m, NEW n, NEW p, NEW i \in Inodes, NEW k \in Inodes, k = get_mapping(m), MemoryOK(n),
           HasNew(m, n, i, IF p \in Files THEN 1 ELSE 2), n.inode[i].dir <=> p \notin Files
    PROVE  Filled(m, enter_name(n, p, i), p, i, k)
<1> DEFINE s == enter_name(n, p, i)
<1>1. get_mapping(n) = k
  BY DEF get_mapping, HasNew
<1>2. /\ DOMAIN s = DOMAIN n /\ s.open = n.open /\ s.inode = n.inode /\ s.map = n.map /\ s.disk = n.disk
      /\ s.names = [n.names EXCEPT ![k] = [avail |-> TRUE, ino |-> i, path |-> p]]
  BY <1>1 DEF enter_name, MemoryOK, TableNames
<1> HIDE DEF s
<1>3. MemoryOK(s)
  BY <1>2 DEF MemoryOK, TablesOK
<1>4. Filled(m, s, p, i, k)
  BY <1>2, <1>3 DEF Filled, HasNew
<1>5. QED
  BY <1>4 DEF s

\* A step into undefined behaviour.
LEMMA FailKeeps ==
    ASSUME MemoryOK(Now), NameInv(Now), NEW u, NEW m, m = Fail(u)
    PROVE  MemoryOK(m) /\ NameInv(m) /\ m.names = Now.names /\ m.open = Now.open
<1>1. MemoryOK(m) /\ m.inode = Now.inode /\ m.names = Now.names /\ m.open = Now.open
  BY DEF Fail, MemoryOK, TablesOK, TableNames
<1>2. QED
  BY <1>1, SameNamesAndLinks

LEMMA CreateStep ==
    ASSUME SfsInv, NEW p \in Files, sfs_create(p)
    PROVE  SfsInv'
<1>1. PICK now : now = Now
  OBVIOUS
<1>2. /\ now.inode = inode_table /\ now.names = name_table /\ now.open = open_files
      /\ MemoryOK(now) /\ NameInv(now) /\ HandlesOK /\ p \in Paths
  BY <1>1, NowParts DEF SfsInv, Paths
<1> DEFINE i == get_inode(now)
           fh == get_fh(now)
           k == get_mapping(now)
           j == path_lookup(now, Front(p))
           n == new_inode(now, i, FALSE, 1, 0, 0)
           ok == i # -1 /\ fh # -1 /\ k # -1
           r == add_entry(enter_name(n, p, i), now.names[j].ino, Last(p), i, TRUE)
           next == CASE fh = -1 -> Fail("no handle")
                     [] fh # -1 /\ i = -1 -> Fail("no inode")
                     [] ~ok /\ fh # -1 /\ i # -1 -> free_inode(n, i)
                     [] ok -> [r EXCEPT !.open[fh] = i]
<1>3. /\ Settled /\ Creatable(p) /\ Become(next) /\ fds' = IF ok THEN handle(fh, p) ELSE fds
      /\ saved' = saved /\ mounted' = mounted /\ mounted
  BY <1>1 DEF sfs_create, Settled, Serving, InodeOf
<1>4. PICK m : m = next /\ Hold(m)
  BY <1>3 DEF Become
<1>5. name_table' = m.names /\ open_files' = m.open
  BY <1>4 DEF Hold
<1>6. /\ i \in Inodes \cup {-1} /\ (i # -1 => ~ now.inode[i].avail)
      /\ k \in Inodes \cup {-1} /\ (k # -1 => ~ now.names[k].avail)
  <2>1. {x \in Inodes : ~ now.inode[x].avail} \subseteq Nat /\ {x \in Inodes : ~ now.names[x].avail} \subseteq Nat
    BY ConstantTypes DEF Inodes
  <2>2. QED
    BY <2>1, FirstFound DEF get_inode, get_mapping
<1>7. fh = get_fh(Now) /\ i = get_inode(now) /\ k = get_mapping(now)
  BY <1>1
<1> HIDE DEF i, k, fh, next
<1>8. ASSUME m.names = now.names, m.open = now.open, MemoryOK(m), NameInv(m), ~ok
      PROVE  SfsInv'
  <2>1. HandlesOK'
    BY <1>2, <1>3, <1>5, <1>8, HandlesStay
  <2>2. QED
    BY <1>3, <1>4, <1>8, <2>1, TablesNext
<1>9. CASE fh = -1 \/ i = -1
  <2>1. PICK u : m = Fail(u)
    BY <1>4, <1>9 DEF next
  <2>2. MemoryOK(m) /\ NameInv(m) /\ m.names = now.names /\ m.open = now.open
    BY <1>1, <1>2, <2>1, FailKeeps
  <2>3. QED
    BY <1>8, <1>9, <2>2
<1>10. CASE ~ok /\ fh # -1 /\ i # -1
  <2>1. m = free_inode(n, i)
    BY <1>4, <1>10 DEF next
  <2>2. i \in Inodes /\ ~ now.inode[i].avail
    BY <1>6, <1>10
  <2>3. HasNew(now, n, i, 1)
    BY <1>2, <2>2, NewFile
  <2> HIDE DEF n
  <2>4. MemoryOK(n) /\ ~(n.inode[i].nlink > 1)
    BY <2>3 DEF HasNew
  <2>5. /\ MemoryOK(m) /\ m.names = n.names /\ m.open = n.open
        /\ m.inode[i].avail = FALSE /\ m.inode[i].dir = FALSE /\ m.inode[i].nlink = 0
        /\ \A x \in Inodes \ {i} : m.inode[x] = n.inode[x]
    <3>1. Frees(n, m, i)
      BY <2>1, <2>2, <2>4, FreeInode
    <3>2. QED
      BY <2>4, <3>1 DEF Frees
  <2>6. m.inode[i].avail \in BOOLEAN /\ (m.inode[i].dir => m.inode[i].avail) /\ m.inode[i].nlink \in {0, 1}
    BY <2>5
  <2>7. /\ m.names = now.names /\ m.open = now.open
        /\ \A x \in Inodes \ {i} : /\ m.inode[x].avail = now.inode[x].avail
                                    /\ m.inode[x].dir = now.inode[x].dir
                                    /\ m.inode[x].nlink = now.inode[x].nlink
    BY <2>3, <2>5 DEF HasNew
  <2>8. NameInv(m)
    BY <1>2, <2>2, <2>6, <2>7, SpareInode
  <2>9. QED
    BY <1>8, <1>10, <2>5, <2>7, <2>8
<1>11. CASE ok
  <2>1. m = [r EXCEPT !.open[fh] = i]
    BY <1>4, <1>11 DEF next
  <2>2. i \in Inodes /\ k \in Inodes /\ ~ now.names[k].avail
    BY <1>6, <1>11
  <2>3. Room(now, p, j, i, k)
    <3>1. j \in Inodes /\ Taken(now, j) /\ now.names[j].path = Front(p) /\ now.inode[j].dir
      BY <1>1, <1>2, <1>3, SeenDirectory, NowParts DEF Creatable
    <3>2. \A x \in Inodes : now.names[x].path # p
      BY <1>1, <1>2, <1>3, LookupFinds DEF Creatable, NameInv
    <3>3. QED
      BY <1>2, <1>7, <2>2, <3>1, <3>2 DEF Room
  <2> HIDE DEF j
  <2>4. HasNew(now, n, i, 1) /\ ~ n.inode[i].dir
    BY <1>2, <2>2, NewFile
  <2> HIDE DEF n
  <2>5. Filled(now, enter_name(n, p, i), p, i, k)
    <3>1. HasNew(now, n, i, IF p \in Files THEN 1 ELSE 2) /\ (n.inode[i].dir <=> p \notin Files) /\ MemoryOK(n)
      BY <2>4 DEF HasNew
    <3>2. QED
      BY <1>7, <2>2, <3>1, NameFilled
  <2>6. Entered(now, r, p, i, k)
    BY <2>3, <2>5, EntryAdded
  <2> HIDE DEF r
  <2>7. /\ MemoryOK(m) /\ NameInv(m) /\ m.open = [open_files EXCEPT ![fh] = i]
        /\ m.names = [now.names EXCEPT ![k] = [avail |-> TRUE, ino |-> i, path |-> p]]
    <3>1. /\ MemoryOK(m) /\ m.inode = r.inode /\ m.names = r.names
          /\ m.open = [open_files EXCEPT ![fh] = i]
      BY <1>2, <2>1, <2>6 DEF MemoryOK, TablesOK, TableNames, Entered
    <3>2. NameInv(m)
      BY <2>6, <3>1, SameNamesAndLinks DEF Entered
    <3>3. QED
      BY <2>6, <3>1, <3>2 DEF Entered
  <2>8. DOMAIN now.names = Inodes
    BY <1>2 DEF NameInv, NamesOK
  <2>9. name_table'[k] = [avail |-> TRUE, ino |-> i, path |-> p]
    BY <1>5, <2>2, <2>7, <2>8
  <2>10. \A x \in Inodes : name_table[x].avail => name_table'[x] = name_table[x]
    BY <1>2, <1>5, <2>2, <2>7, <2>8
  <2>11. name_table'[k].ino = i /\ name_table'[k].avail /\ name_table'[k].path = p
    BY <2>9
  <2>12. open_files' = [open_files EXCEPT ![fh] = name_table'[k].ino]
    BY <1>5, <2>7, <2>11
  <2>13. fds' = handle(fh, p) /\ fh # -1 /\ mounted'
    BY <1>3, <1>11
  <2>14. HandlesOK'
    BY <1>3, <1>7, <2>2, <2>10, <2>11, <2>12, <2>13, HandleAdded
  <2>15. QED
    BY <1>3, <1>4, <2>7, <2>14, TablesNext
<1>12. QED
  BY <1>9, <1>10, <1>11

\* A step that changes neither handles nor the names of open files.
LEMMA SameHandles ==
    ASSUME SfsInv, NEW m, Hold(m), MemoryOK(m), NameInv(m), saved' = saved, mounted, mounted' = mounted,
           fds' = fds, m.open = open_files,
           \A x \in Inodes : name_table[x].avail /\ name_table[x].path \in Opened => m.names[x] = name_table[x]
    PROVE  SfsInv'
<1>1. name_table' = m.names /\ open_files' = m.open
  BY DEF Hold
<1>2. HandlesOK
  BY DEF SfsInv
<1>3. HandlesOK'
  BY <1>1, <1>2, HandlesStay
<1>4. QED
  BY <1>3, TablesNext

LEMMA NewDirectory ==
    ASSUME NEW m, MemoryOK(m), NEW i \in Inodes, NEW b \in Blocks \cup {-1}
    PROVE  LET n == [new_inode(get_block(m), i, TRUE, 2, BlockSize, 1) EXCEPT !.inode[i].blocks[0] = b]
           IN  HasNew(m, n, i, 2) /\ n.inode[i].dir
<1> DEFINE g == get_block(m)
           e == [avail |-> TRUE, dir |-> TRUE, nlink |-> 2, size |-> BlockSize, nblocks |-> 1,
                 blocks |-> [x \in 0 .. NumDirect + 1 |-> -1]]
           n0 == new_inode(g, i, TRUE, 2, BlockSize, 1)
           n == [n0 EXCEPT !.inode[i].blocks[0] = b]
<1>1. Keeps(m, g) /\ MemoryOK(g)
  BY GetBlockKeeps DEF Keeps
<1>2. InodeOK(e) /\ e.avail = TRUE /\ e.dir = TRUE /\ e.nlink = 2
  BY ConstantTypes DEF InodeOK, Fields
<1>3. n0 = [g EXCEPT !.inode[i] = e]
  BY DEF new_inode
<1> HIDE DEF g, e, n0
<1>4. SetsInode(g, n0, i, e)
  BY <1>1, <1>2, <1>3, InodeSet
<1>5. MemoryOK(n0) /\ 0 \in 0 .. NumDirect + 1
  BY <1>4, ConstantTypes DEF SetsInode
<1>6. Keeps(n0, n)
  BY <1>5, BlocksKeep
<1> HIDE DEF n
<1>7. HasNew(m, n, i, 2) /\ n.inode[i].dir
  BY <1>1, <1>2, <1>4, <1>6 DEF SetsInode, HasNew, Keeps
<1>8. QED
  BY <1>7 DEF n, n0, g

LEMMA FilledKeeps ==
    ASSUME NEW m, NEW s, NEW t, NEW p, NEW i \in Inodes, NEW k, Filled(m, s, p, i, k), Keeps(s, t)
    PROVE  Filled(m, t, p, i, k)
  BY DEF Filled, Keeps

\* A block written where block_write is not asked.
LEMMA PutKeeps ==
    ASSUME NEW m, MemoryOK(m), NEW b, NEW c, IsBlock(c)
    PROVE  Keeps(m, [m EXCEPT !.disk[b] = c])
<1> DEFINE d == [m.disk EXCEPT ![b] = c]
<1>1. DiskOK(m.disk)
  BY DEF MemoryOK
<1>2. DiskOK(d)
  <2>1. CASE b \in Blocks
    BY <1>1, <2>1, WriteBlock DEF block_write
  <2>2. CASE b \notin Blocks
    <3>1. d = m.disk
      BY <1>1, <2>2 DEF DiskOK
    <3>2. QED
      BY <1>1, <3>1
  <2>3. QED
    BY <2>1, <2>2
<1>3. [m EXCEPT !.disk[b] = c] = [m EXCEPT !.disk = d]
  OBVIOUS
<1> HIDE DEF d
<1>4. QED
  BY <1>2, <1>3, DiskKeeps

LEMMA MkdirStep ==
    ASSUME SfsInv, NEW p \in Dirs, sfs_mkdir(p)
    PROVE  SfsInv'
<1>1. PICK now : now = Now
  OBVIOUS
<1>2. /\ now.inode = inode_table /\ now.names = name_table /\ now.open = open_files
      /\ MemoryOK(now) /\ NameInv(now) /\ p \in Paths /\ p \notin Files
  BY <1>1, NowParts, PathAssumption DEF SfsInv, Paths
<1> DEFINE i == get_inode(now)
           k == get_mapping(now)
           j == path_lookup(now, Front(p))
           parent == now.names[j].ino
           b == first_block(now)
           n == [new_inode(get_block(now), i, TRUE, 2, BlockSize, 1) EXCEPT !.inode[i].blocks[0] = b]
           s == [enter_name(n, p, i) EXCEPT !.disk[b] = Padded(Dots(i, parent))]
           r == add_entry(s, parent, Last(p), i, FALSE)
           next == IF i = -1 THEN Fail("no inode") ELSE IF k = -1 THEN free_inode(n, i) ELSE r
<1>3. /\ Creatable(p) /\ Become(next) /\ fds' = fds
      /\ saved' = saved /\ mounted' = mounted /\ mounted
  BY <1>1 DEF sfs_mkdir, Settled, Serving, InodeOf
<1>4. PICK m : m = next /\ Hold(m)
  BY <1>3 DEF Become
<1>5. /\ i \in Inodes \cup {-1} /\ (i # -1 => ~ now.inode[i].avail)
      /\ k \in Inodes \cup {-1} /\ (k # -1 => ~ now.names[k].avail)
      /\ b \in Blocks \cup {-1}
  <2>1. {x \in Inodes : ~ now.inode[x].avail} \subseteq Nat /\ {x \in Inodes : ~ now.names[x].avail} \subseteq Nat
    BY ConstantTypes DEF Inodes
  <2>2. QED
    BY <2>1, FirstFound, FirstBlock DEF get_inode, get_mapping
<1>6. i = get_inode(now) /\ k = get_mapping(now)
  OBVIOUS
<1> HIDE DEF i, k, b, next
<1>7. ASSUME m.open = now.open, MemoryOK(m), NameInv(m),
             \A x \in Inodes : now.names[x].avail => m.names[x] = now.names[x]
      PROVE  SfsInv'
  BY <1>2, <1>3, <1>4, <1>7, SameHandles
<1>8. CASE i = -1
  <2>1. m = Fail("no inode")
    BY <1>4, <1>8 DEF next
  <2>2. MemoryOK(m) /\ NameInv(m) /\ m.names = now.names /\ m.open = now.open
    BY <1>1, <1>2, <2>1, FailKeeps
  <2>3. QED
    BY <1>7, <2>2
<1>9. ASSUME i # -1
      PROVE  i \in Inodes /\ ~ now.inode[i].avail /\ HasNew(now, n, i, 2) /\ n.inode[i].dir
  BY <1>2, <1>5, <1>9, NewDirectory
<1> HIDE DEF n
<1>10. CASE i # -1 /\ k = -1
  <2>1. m = free_inode(n, i)
    BY <1>4, <1>10 DEF next
  <2>2. MemoryOK(n) /\ n.inode[i].nlink = 2 /\ n.inode[i].nlink > 1 /\ i \in Inodes /\ n.inode[i].avail
    BY <1>9, <1>10 DEF HasNew
  <2>3. /\ MemoryOK(m) /\ m.names = n.names /\ m.open = n.open
        /\ m.inode[i].avail = n.inode[i].avail /\ m.inode[i].dir = n.inode[i].dir
        /\ m.inode[i].nlink = n.inode[i].nlink - 1
        /\ \A x \in Inodes \ {i} : m.inode[x] = n.inode[x]
    <3>1. Frees(n, m, i)
      BY <2>1, <2>2, FreeInode
    <3>2. QED
      BY <2>2, <3>1 DEF Frees
  <2>4. /\ m.names = now.names /\ m.open = now.open
        /\ \A x \in Inodes \ {i} : /\ m.inode[x].avail = now.inode[x].avail
                                   /\ m.inode[x].dir = now.inode[x].dir
                                   /\ m.inode[x].nlink = now.inode[x].nlink
    BY <1>9, <1>10, <2>3 DEF HasNew
  <2>5. m.inode[i].nlink \in {0, 1} /\ (m.inode[i].dir => m.inode[i].avail) /\ m.inode[i].avail \in BOOLEAN
    <3>1. m.inode[i].avail \in BOOLEAN
      BY <2>2, <2>3 DEF MemoryOK, TablesOK, InodeOK
    <3>2. QED
      BY <2>2, <2>3, <3>1
  <2>6. NameInv(m)
    BY <1>2, <1>9, <1>10, <2>4, <2>5, SpareInode
  <2>7. QED
    BY <1>7, <2>3, <2>4, <2>6
<1>11. CASE i # -1 /\ k # -1
  <2>1. m = r
    BY <1>4, <1>11 DEF next
  <2>2. i \in Inodes /\ k \in Inodes /\ ~ now.names[k].avail
    BY <1>5, <1>11
  <2>3. Room(now, p, j, i, k)
    <3>1. j \in Inodes /\ Taken(now, j) /\ now.names[j].path = Front(p) /\ now.inode[j].dir
      BY <1>1, <1>2, <1>3, SeenDirectory, NowParts DEF Creatable
    <3>2. \A x \in Inodes : now.names[x].path # p
      BY <1>1, <1>2, <1>3, LookupFinds DEF Creatable, NameInv
    <3>3. QED
      BY <1>2, <1>6, <2>2, <3>1, <3>2 DEF Room
  <2> HIDE DEF j
  <2>4. Filled(now, enter_name(n, p, i), p, i, k)
    <3>1. HasNew(now, n, i, IF p \in Files THEN 1 ELSE 2) /\ (n.inode[i].dir <=> p \notin Files) /\ MemoryOK(n)
      BY <1>2, <1>9, <1>11 DEF HasNew
    <3>2. QED
      BY <1>6, <2>2, <3>1, NameFilled
  <2>5. Keeps(enter_name(n, p, i), s)
    <3>1. IsBlock(Padded(Dots(i, parent)))
      BY PaddedIsBlock
    <3>2. MemoryOK(enter_name(n, p, i))
      BY <2>4 DEF Filled
    <3>3. QED
      BY <3>1, <3>2, PutKeeps
  <2> HIDE DEF s
  <2>6. Filled(now, s, p, i, k)
    BY <2>2, <2>4, <2>5, FilledKeeps
  <2>7. Entered(now, m, p, i, k)
    BY <2>1, <2>3, <2>6, EntryAdded
  <2>8. DOMAIN now.names = Inodes
    BY <1>2 DEF NameInv, NamesOK
  <2>9. m.names = [now.names EXCEPT ![k] = [avail |-> TRUE, ino |-> i, path |-> p]]
    BY <2>7 DEF Entered
  <2>10. \A x \in Inodes : now.names[x].avail => m.names[x] = now.names[x]
    BY <2>2, <2>8, <2>9
  <2>11. QED
    BY <1>7, <2>7, <2>10 DEF Entered
<1>12. QED
  BY <1>8, <1>10, <1>11

\* A path without children loses its name.
Vacant(m, p, j, k) ==
    /\ MemoryOK(m) /\ NameInv(m) /\ p \in Paths /\ j \in Inodes /\ k \in Inodes
    /\ Taken(m, j) /\ m.names[j].path = Front(p)
    /\ Taken(m, k) /\ m.names[k].path = p /\ Kids(m, p) = {}

TakenOut(m, r, k) ==
    /\ MemoryOK(r) /\ NameInv(r) /\ r.open = m.open
    /\ r.names = [m.names EXCEPT ![k] = [avail |-> FALSE, ino |-> -1, path |-> NoPath]]

LEMMA EntryRemoved ==
    ASSUME NEW m, NEW p, NEW j, NEW k, Vacant(m, p, j, k), NEW name
    PROVE  TakenOut(m, free_mapping(free_inode(remove_entry(m, m.names[j].ino, name, m.names[k].ino), m.names[k].ino), k), k)
<1> DEFINE i == m.names[k].ino
           parent == m.names[j].ino
           q == remove_entry(m, parent, name, i)
           t == free_inode(q, i)
           r == free_mapping(t, k)
<1>1. /\ MemoryOK(m) /\ NameInv(m) /\ p \in Paths /\ j \in Inodes /\ k \in Inodes
      /\ Taken(m, j) /\ m.names[j].path = Front(p) /\ Taken(m, k) /\ m.names[k].path = p /\ Kids(m, p) = {}
  BY DEF Vacant
<1>2. Front(p) \notin Files /\ p # Front(p)
  BY <1>1, PathFacts
<1>3. i \in Inodes /\ parent \in Inodes /\ m.inode[parent].dir /\ parent # i
  BY <1>1, <1>2 DEF NameInv, NamesOK
<1>4. Relinks(m, q, parent, m.inode[parent].nlink - 1)
  BY <1>1, <1>3, RemoveEntryRelinks
<1> HIDE DEF q
<1>5. MemoryOK(q)
  BY <1>4 DEF Relinks
<1>6. /\ MemoryOK(t) /\ t.names = q.names /\ t.open = q.open
      /\ q.inode[i].nlink > 1 => /\ t.inode[i].avail = q.inode[i].avail
                                 /\ t.inode[i].dir = q.inode[i].dir
                                 /\ t.inode[i].nlink = q.inode[i].nlink - 1
      /\ ~(q.inode[i].nlink > 1) => /\ t.inode[i].avail = FALSE
                                    /\ t.inode[i].dir = FALSE
                                    /\ t.inode[i].nlink = 0
      /\ \A x \in Inodes \ {i} : t.inode[x] = q.inode[x]
  <2>1. Frees(q, t, i)
    BY <1>3, <1>5, FreeInode
  <2> HIDE DEF t
  <2>2. QED
    BY <2>1 DEF Frees
<1> HIDE DEF t
<1>7. /\ MemoryOK(r) /\ r.open = t.open /\ r.inode = t.inode
      /\ r.names = [t.names EXCEPT ![k] = [avail |-> FALSE, ino |-> -1, path |-> NoPath]]
  BY <1>6 DEF free_mapping, MemoryOK, TablesOK, TableNames
<1> HIDE DEF r
<1>8. q.names = m.names /\ q.open = m.open /\ q.inode[i].nlink = m.inode[i].nlink
      /\ q.inode[i].avail = m.inode[i].avail /\ q.inode[i].dir = m.inode[i].dir
  BY <1>3, <1>4 DEF Relinks
<1>9. \A x \in Inodes \ {i} : /\ r.inode[x].avail = m.inode[x].avail
                              /\ r.inode[x].dir = m.inode[x].dir
                              /\ r.inode[x].nlink = IF x = parent THEN m.inode[x].nlink - 1 ELSE m.inode[x].nlink
  <2> HIDE DEF i, parent
  <2>1. \A x \in Inodes \ {i} : r.inode[x] = q.inode[x]
    BY <1>6, <1>7
  <2>2. QED
    BY <1>4, <2>1 DEF Relinks
<1>10. Removed(m, r, k, i, parent)
  <2>1. /\ m.inode[i].nlink > 1 => /\ r.inode[i].avail = m.inode[i].avail
                                   /\ r.inode[i].dir = m.inode[i].dir
                                   /\ r.inode[i].nlink = m.inode[i].nlink - 1
        /\ ~(m.inode[i].nlink > 1) => ~ r.inode[i].avail /\ ~ r.inode[i].dir /\ r.inode[i].nlink = 0
    BY <1>6, <1>7, <1>8
  <2>2. r.names = [m.names EXCEPT ![k] = [avail |-> FALSE, ino |-> -1, path |-> NoPath]]
    BY <1>6, <1>7, <1>8
  <2> HIDE DEF i, parent
  <2>3. QED
    BY <1>9, <2>1, <2>2 DEF Removed
<1>11. NameInv(r)
  BY <1>1, <1>10, NameRemoved
<1>12. TakenOut(m, r, k)
  BY <1>6, <1>7, <1>8, <1>11 DEF TakenOut
<1>13. QED
  BY <1>12 DEF r, t, q

\* What unlink and rmdir share.
LEMMA RemoveStep ==
    ASSUME SfsInv, NEW p \in Paths \ Opened, mounted, Named(Now, p), Kids(Now, p) = {}, remove(p)
    PROVE  SfsInv'
<1>1. PICK now : now = Now
  OBVIOUS
<1>2. /\ now.inode = inode_table /\ now.names = name_table /\ now.open = open_files
      /\ MemoryOK(now) /\ NameInv(now) /\ p \in Paths /\ Named(now, p)
  BY <1>1, NowParts DEF SfsInv
<1> DEFINE k == path_lookup(now, p)
           j == path_lookup(now, Front(p))
           next == free_mapping(free_inode(remove_entry(now, now.names[j].ino, Last(p), now.names[k].ino), now.names[k].ino), k)
<1>3. Sees(Front(p), TRUE) /\ Become(next) /\ fds' = fds /\ saved' = saved /\ mounted' = mounted
  BY <1>1 DEF remove, InodeOf
<1>4. PICK m : m = next /\ Hold(m)
  BY <1>3 DEF Become
<1>5. j \in Inodes /\ Taken(now, j) /\ now.names[j].path = Front(p)
  BY <1>1, <1>2, <1>3, SeenDirectory, NowParts
<1>6. k \in Inodes /\ Taken(now, k) /\ now.names[k].path = p
  BY <1>2, LookupFinds DEF NameInv
<1>7. Vacant(now, p, j, k)
  <2>1. Kids(now, p) = {}
    BY <1>1
  <2>2. QED
    BY <1>2, <1>5, <1>6, <2>1 DEF Vacant
<1> HIDE DEF j, k
<1>8. TakenOut(now, m, k)
  BY <1>4, <1>7, EntryRemoved
<1> HIDE DEF next
<1>9. DOMAIN now.names = Inodes
  BY <1>2 DEF NameInv, NamesOK
<1>10. m.names = [now.names EXCEPT ![k] = [avail |-> FALSE, ino |-> -1, path |-> NoPath]]
  BY <1>8 DEF TakenOut
<1>11. \A x \in Inodes : name_table[x].path \in Opened => m.names[x] = name_table[x]
  BY <1>2, <1>6, <1>9, <1>10
<1>12. m.open = open_files /\ MemoryOK(m) /\ NameInv(m)
  BY <1>2, <1>8 DEF TakenOut
<1>13. QED
  BY <1>3, <1>4, <1>11, <1>12, SameHandles

LEMMA UnlinkStep ==
    ASSUME SfsInv, NEW p \in Paths \ Opened, sfs_unlink(p)
    PROVE  SfsInv'
<1>1. mounted /\ Named(Now, p) /\ remove(p) /\ ~ inode_table[path_lookup(Now, p)].dir
  BY NowParts DEF sfs_unlink, Settled, Serving, Sees, sfs_getattr
<1>2. Kids(Now, p) = {}
  <2>1. SUFFICES ASSUME NEW x \in Kids(Now, p) PROVE FALSE
    OBVIOUS
  <2>2. NamesOK(Now) /\ ParentsOK(Now)
    BY DEF SfsInv, NameInv
  <2>3. PICK y \in Inodes : Taken(Now, y) /\ Now.names[y].path = p /\ Now.inode[y].dir
    BY <2>2 DEF ParentsOK, Kids
  <2>4. path_lookup(Now, p) = y
    BY <2>2, <2>3, LookupFinds
  <2>5. QED
    BY <1>1, <2>3, <2>4, NowParts
<1>3. QED
  BY <1>1, <1>2, RemoveStep

LEMMA RmdirStep ==
    ASSUME SfsInv, NEW p \in Paths \ Opened, sfs_rmdir(p)
    PROVE  SfsInv'
<1>1. mounted /\ Named(Now, p) /\ remove(p) /\ Now.inode[InodeOf(Now, p)].nlink =< 2
  BY NowParts DEF sfs_rmdir, Settled, Serving, Sees
<1>2. NamesOK(Now) /\ LinksOK(Now)
  BY DEF SfsInv, NameInv
<1>3. Kids(Now, p) = {}
  <2>1. CASE p \in Files
    <3>1. \A x \in Inodes : Taken(Now, x) /\ Now.names[x].path # Root => Now.names[x].path \in Paths
      BY <1>2 DEF NamesOK, NameEntries
    <3>2. QED
      BY <2>1, <3>1, PathFacts DEF Kids
  <2>2. CASE p \notin Files
    <3> DEFINE k == path_lookup(Now, p)
    <3>1. k \in Inodes /\ Taken(Now, k) /\ Now.names[k].path = p
      BY <1>1, <1>2, LookupFinds
    <3>2. Now.inode[Now.names[k].ino].nlink = 2 + Cardinality(Kids(Now, p))
      BY <1>2, <2>2, <3>1 DEF LinksOK
    <3>3. IsFiniteSet(Kids(Now, p)) /\ Cardinality(Kids(Now, p)) \in Nat
      BY KidsFinite
    <3>4. Cardinality(Kids(Now, p)) = 0
      BY <1>1, <3>2, <3>3 DEF InodeOf
    <3>5. QED
      BY <3>3, <3>4, FS_EmptySet
  <2>3. QED
    BY <2>1, <2>2
<1>4. QED
  BY <1>1, <1>3, RemoveStep

LEMMA OpenStep ==
    ASSUME SfsInv, NEW p \in Paths \ Opened, sfs_open(p)
    PROVE  SfsInv'
<1>1. PICK now : now = Now
  OBVIOUS
<1>2. /\ now.inode = inode_table /\ now.names = name_table /\ now.open = open_files
      /\ MemoryOK(now) /\ NameInv(now)
  BY <1>1, NowParts DEF SfsInv
<1> DEFINE k == path_lookup(now, p)
           fh == get_fh(now)
           next == [now EXCEPT !.open[fh] = now.names[k].ino]
<1>3. /\ Named(now, p) /\ ~ now.inode[now.names[k].ino].dir /\ fh # -1 /\ Become(next)
      /\ fds' = (IF fh = 0 THEN handle(fh, p) ELSE fds) /\ saved' = saved /\ mounted /\ mounted'
  BY <1>1, <1>2 DEF sfs_open, InodeOf, Settled, Serving, Sees
<1>4. PICK m : m = next /\ Hold(m)
  BY <1>3 DEF Become
<1>5. k \in Inodes /\ Taken(now, k) /\ now.names[k].path = p
  BY <1>2, <1>3, LookupFinds DEF NameInv
<1>6. p \in Files
  BY <1>2, <1>3, <1>5 DEF NameInv, NamesOK
<1>7. fh \in Handles /\ fh \notin DOMAIN fds /\ fh = get_fh(Now)
  BY <1>1, <1>3, FreshHandle
<1> HIDE DEF k, fh
<1>8. /\ MemoryOK(m) /\ m.inode = now.inode /\ m.names = now.names
      /\ m.open = [open_files EXCEPT ![fh] = now.names[k].ino]
  BY <1>2, <1>4 DEF MemoryOK, TablesOK, TableNames
<1>9. NameInv(m)
  BY <1>2, <1>8, SameNamesAndLinks
<1>10. name_table' = name_table /\ open_files' = [open_files EXCEPT ![fh] = name_table'[k].ino]
  BY <1>2, <1>4, <1>8 DEF Hold
<1>11. HandlesOK'
  <2>1. CASE fh = 0
    <3>1. fds' = handle(fh, p)
      BY <1>3, <2>1
    <3>2. name_table'[k].avail /\ name_table'[k].path = p
      BY <1>2, <1>5, <1>10 DEF Taken
    <3>3. QED
      BY <1>3, <1>5, <1>6, <1>7, <1>10, <3>1, <3>2, HandleAdded
  <2>2. CASE fh # 0
    <3>1. fds' = fds /\ HandlesOK
      BY <1>3, <2>2 DEF SfsInv
    <3>2. \A h \in DOMAIN fds : open_files'[h] = open_files[h]
      <4>1. DOMAIN open_files = Handles
        BY <1>2 DEF MemoryOK, TablesOK
      <4>2. QED
        BY <1>7, <1>10, <3>1, <4>1 DEF HandlesOK
    <3>3. QED
      BY <1>3, <1>10, <3>1, <3>2, HandlesStay
  <2>3. QED
    BY <2>1, <2>2
<1>12. QED
  BY <1>3, <1>4, <1>8, <1>9, <1>11, TablesNext

LEMMA ReleaseStep ==
    ASSUME SfsInv, NEW fh \in DOMAIN fds, sfs_release(fh)
    PROVE  SfsInv'
<1>1. PICK now : now = Now
  OBVIOUS
<1>2. /\ now.inode = inode_table /\ now.names = name_table /\ now.open = open_files
      /\ MemoryOK(now) /\ NameInv(now) /\ HandlesOK
  BY <1>1, NowParts DEF SfsInv
<1>3. /\ Become(free_fh(now, fh)) /\ fds' = [h \in DOMAIN fds \ {fh} |-> fds[h]]
      /\ saved' = saved /\ mounted /\ mounted'
  BY <1>1 DEF sfs_release, Serving
<1>4. PICK m : m = free_fh(now, fh) /\ Hold(m)
  BY <1>3 DEF Become
<1>5. /\ MemoryOK(m) /\ m.inode = now.inode /\ m.names = now.names
      /\ m.open = [open_files EXCEPT ![fh] = -1]
  BY <1>2, <1>4 DEF MemoryOK, TablesOK, TableNames, free_fh
<1>6. NameInv(m)
  BY <1>2, <1>5, SameNamesAndLinks
<1>7. name_table' = name_table /\ open_files' = [open_files EXCEPT ![fh] = -1]
  BY <1>2, <1>4, <1>5 DEF Hold
<1>8. \A h \in DOMAIN fds' : h \in DOMAIN fds /\ fds'[h] = fds[h] /\ open_files'[h] = open_files[h]
  <2>1. DOMAIN open_files = Handles
    BY <1>2 DEF MemoryOK, TablesOK
  <2>2. QED
    BY <1>2, <1>3, <1>7, <2>1 DEF HandlesOK
<1>9. HandlesOK'
  BY <1>2, <1>3, <1>7, <1>8, HandlesStay
<1>10. QED
  BY <1>3, <1>4, <1>5, <1>6, <1>9, TablesNext

LEMMA BlocksForIsInt ==
    ASSUME NEW a \in Nat
    PROVE  BlocksFor(a) \in Int
<1>1. \A n \in Int, d \in Nat \ {0} : n \div d \in Int
  OBVIOUS
<1>2. QED
  BY <1>1, ConstantTypes DEF BlocksFor

LEMMA MaxIsNat ==
    ASSUME NEW a \in Int
    PROVE  Max({0, a}) \in Nat
<1>1. \E x \in {0, a} : \A y \in {0, a} : x >= y
  OBVIOUS
<1>2. Max({0, a}) \in {0, a} /\ Max({0, a}) >= 0
  BY <1>1 DEF Max
<1>3. QED
  BY <1>2

LEMMA LenData ==
    ASSUME NEW n \in Nat, NEW path, NEW off
    PROVE  Len([k \in 1..n |-> Byte(path, off + k - 1)]) = n
  OBVIOUS

\* The file behind a handle.
LEMMA OpenFile ==
    ASSUME SfsInv, NEW fh \in DOMAIN fds
    PROVE  open_files[fh] \in Inodes /\ inode_table[open_files[fh]].size \in Nat
<1>1. PICK k \in Inodes : name_table[k].avail /\ name_table[k].path = fds[fh] /\ name_table[k].ino = open_files[fh]
  BY DEF SfsInv, HandlesOK
<1>2. fds[fh] \in Files
  BY DEF SfsInv, HandlesOK
<1>3. open_files[fh] \in Inodes /\ ~ inode_table[open_files[fh]].dir
  BY <1>1, <1>2, NowParts DEF SfsInv, NameInv, NamesOK, Taken
<1>4. QED
  BY <1>3, NowParts DEF SfsInv, MemoryOK, TablesOK, InodeOK

LEMMA WriteWrites ==
    ASSUME SfsInv, NEW fh \in DOMAIN fds, NEW n \in WriteSizes, NEW off \in {0, SizeOf(fh)}, write(fh, off, n)
    PROVE  mounted /\ \E m : Writes(Now, m) /\ Hold(m)
<1>1. PICK now : now = Now
  OBVIOUS
<1> DEFINE i == open_files[fh]
           more == Max({0, BlocksFor(off + n) - BlocksFor(inode_table[i].size)})
           grown == grow(now, i, more)
           data == [k \in 1..n |-> Byte(fds[fh], off + k - 1)]
           next == IF grown.ok THEN put_data(grown.m, i, off, data) ELSE grown.m
<1>2. mounted /\ Become(next)
  BY <1>1 DEF write, Settled, Serving
<1>3. i \in Inodes /\ inode_table[i].size \in Nat /\ off \in Nat /\ n \in Nat \ {0}
  BY OpenFile, SfsAssumption DEF SizeOf
<1>4. more \in Nat
  <2>1. off + n \in Nat
    BY <1>3
  <2>2. BlocksFor(off + n) \in Int /\ BlocksFor(inode_table[i].size) \in Int
    BY <1>3, <2>1, BlocksForIsInt
  <2>3. BlocksFor(off + n) - BlocksFor(inode_table[i].size) \in Int
    BY <2>2
  <2>4. QED
    BY <2>3, MaxIsNat
<1>5. Len(data) \in Nat \ {0}
  BY <1>3, LenData
<1>6. MemoryOK(now)
  BY <1>1 DEF SfsInv
<1> HIDE DEF i, more, data
<1>7. Writes(now, grown.m) /\ MemoryOK(grown.m)
  <2>1. Writes(now, grown.m)
    BY <1>3, <1>4, <1>6, GrowWrites
  <2>2. QED
    BY <2>1 DEF Writes
<1> HIDE DEF grown
<1>8. Writes(grown.m, put_data(grown.m, i, off, data))
  BY <1>3, <1>5, <1>7, PutDataWrites
<1>9. Writes(now, next)
  BY <1>7, <1>8 DEF Writes
<1> HIDE DEF next
<1>10. QED
  BY <1>1, <1>2, <1>9 DEF Become

\* A step that changes contents only.
LEMMA ContentsStep ==
    ASSUME SfsInv, NEW m, Writes(Now, m), Hold(m), mounted, mounted' = mounted, saved' = saved, fds' = fds
    PROVE  SfsInv'
<1>1. MemoryOK(m) /\ m.names = Now.names /\ m.open = Now.open
  BY DEF Writes
<1>2. NameInv(m)
  BY <1>1, SameNamesAndLinks DEF Writes, SfsInv
<1>3. QED
  BY <1>1, <1>2, SameHandles, NowParts

LEMMA WriteStep ==
    ASSUME SfsInv, NEW fh \in DOMAIN fds, NEW n \in WriteSizes, sfs_write(fh, n)
    PROVE  SfsInv'
<1>1. write(fh, SizeOf(fh), n) /\ mounted' = mounted /\ saved' = saved /\ fds' = fds
  BY DEF sfs_write
<1>2. mounted /\ \E m : Writes(Now, m) /\ Hold(m)
  BY <1>1, WriteWrites
<1>3. QED
  BY <1>1, <1>2, ContentsStep

LEMMA WriteCarelessStep ==
    ASSUME SfsInv, NEW fh \in DOMAIN fds, NEW n \in WriteSizes, NEW off \in {0, SizeOf(fh)},
           sfs_write_careless(fh, n, off)
    PROVE  SfsInv'
<1>1. /\ write(fh, off, n) \/ (Settled /\ Become(Fail("wild block")))
      /\ mounted' = mounted /\ saved' = saved /\ fds' = fds
  BY DEF sfs_write_careless
<1>2. mounted /\ \E m : Writes(Now, m) /\ Hold(m)
  <2>1. CASE write(fh, off, n)
    BY <2>1, WriteWrites
  <2>2. CASE Settled /\ Become(Fail("wild block"))
    <3>1. PICK m : m = Fail("wild block") /\ Hold(m)
      BY <2>2 DEF Become
    <3>2. Writes(Now, m)
      BY <3>1 DEF Writes, Fail, SfsInv, MemoryOK, TablesOK, TableNames
    <3>3. QED
      BY <2>2, <3>1, <3>2 DEF Settled, Serving
  <2>3. QED
    BY <1>1, <2>1, <2>2
<1>3. QED
  BY <1>1, <1>2, ContentsStep

\* The tables of a process that is not there.
LEMMA ZeroInv ==
    ASSUME NEW d, DiskOK(d), NEW u
    PROVE  /\ DOMAIN ZeroTables = TableNames /\ TablesOK(ZeroTables) /\ NameInv(ZeroTables)
           /\ MemoryOK(Memory(ZeroTables, d, u)) /\ NameInv(Memory(ZeroTables, d, u))
<1>1. InodeOK(ZeroInode) /\ ~ ZeroInode.avail /\ ~ ZeroInode.dir /\ ZeroInode.nlink = 0
  BY ConstantTypes DEF ZeroInode, InodeOK, Fields, Blocks
<1>2. DOMAIN ZeroTables = TableNames /\ TablesOK(ZeroTables)
  BY <1>1 DEF ZeroTables, TablesOK, TableNames
<1>3. NameInv(ZeroTables)
  <2>1. \A i \in Inodes : ZeroTables.inode[i] = ZeroInode /\ ~Taken(ZeroTables, i)
                          /\ ZeroTables.names[i].path = NoPath
    BY DEF ZeroTables, Taken
  <2>2. ZeroTables.names \in [Inodes -> NameEntries]
    BY DEF ZeroTables, NameEntries
  <2>3. QED
    BY <1>1, <2>1, <2>2 DEF NameInv, NamesOK, LinksOK, ParentsOK, NumberedAlike
<1>4. MemoryOK(Memory(ZeroTables, d, u))
  BY <1>2 DEF MemoryOK, TablesOK, Memory, TableNames
<1>5. NameInv(Memory(ZeroTables, d, u))
  BY <1>3, SameNamesAndLinks DEF Memory
<1>6. QED
  BY <1>2, <1>3, <1>4, <1>5

\* The root directory alone.
LEMMA RootInv ==
    ASSUME NEW m, m.names \in [Inodes -> NameEntries],
           0 \in Inodes, m.names[0] = [avail |-> TRUE, ino |-> 0, path |-> Root],
           \A x \in Inodes \ {0} : ~ m.names[x].avail /\ m.names[x].path = NoPath,
           m.inode[0].avail, m.inode[0].dir, m.inode[0].nlink = 2,
           \A x \in Inodes \ {0} : ~ m.inode[x].avail /\ ~ m.inode[x].dir /\ m.inode[x].nlink = 0
    PROVE  NameInv(m)
<1>1. Taken(m, 0) /\ m.names[0].ino = 0 /\ m.names[0].path = Root /\ \A x \in Inodes \ {0} : ~Taken(m, x)
  BY DEF Taken
<1>2. Root \notin Files /\ Root # NoPath
  BY PathFacts
<1>3. NamesOK(m)
  BY <1>1, <1>2 DEF NamesOK
<1>4. LinksOK(m)
  <2>1. Kids(m, Root) = {}
    BY <1>1 DEF Kids
  <2>2. Cardinality(Kids(m, Root)) = 0
    BY <2>1, FS_EmptySet
  <2>3. QED
    BY <1>1, <1>2, <2>2 DEF LinksOK
<1>5. ParentsOK(m) /\ NumberedAlike(m)
  BY <1>1 DEF ParentsOK, NumberedAlike
<1>6. QED
  BY <1>3, <1>4, <1>5 DEF NameInv

LEMMA FirstMountInv ==
    ASSUME DiskOK(disk)
    PROVE  MemoryOK(first_mount) /\ NameInv(first_mount)
<1> DEFINE m0 == Memory(ZeroTables, disk, "")
           e == [avail |-> TRUE, dir |-> TRUE, nlink |-> 2, size |-> 5, nblocks |-> 1,
                 blocks |-> [x \in 0 .. NumDirect + 1 |-> -1]]
           n == new_inode(m0, 0, TRUE, 2, 5, 1)
           s == enter_name(n, Root, 0)
           c == [k \in 1..BlockSize |-> IF k =< 4 THEN Dots(0, 0)[k] ELSE IF k = 5 THEN Nul ELSE Garbage]
           s1 == [s EXCEPT !.inode[0].blocks[0] = 0]
           s2 == [s1 EXCEPT !.map[0] = TRUE]
           r == [s2 EXCEPT !.disk[0] = c]
<1>1. first_mount = r
  BY DEF first_mount
<1>2. MemoryOK(m0)
  BY ZeroInv
<1>3. /\ \A x \in Inodes : /\ ~ m0.inode[x].avail /\ ~ m0.inode[x].dir /\ m0.inode[x].nlink = 0
                           /\ ~ m0.names[x].avail /\ m0.names[x].path = NoPath
      /\ m0.names \in [Inodes -> NameEntries]
  BY DEF Memory, ZeroTables, ZeroInode, NameEntries
<1>4. 0 \in Inodes /\ 0 \in Blocks /\ 0 \in 0 .. NumDirect + 1
  BY ConstantTypes DEF Inodes, Blocks
<1>5. InodeOK(e) /\ e.avail = TRUE /\ e.dir = TRUE /\ e.nlink = 2
  BY ConstantTypes DEF InodeOK, Fields
<1>6. n = [m0 EXCEPT !.inode[0] = e]
  BY DEF new_inode
<1> HIDE DEF m0, e, n
<1>7. SetsInode(m0, n, 0, e)
  BY <1>2, <1>4, <1>5, <1>6, InodeSet
<1>8. get_mapping(n) = 0
  <2>1. {x \in Inodes : ~ n.names[x].avail} = Inodes
    BY <1>3, <1>7 DEF SetsInode
  <2>2. Inodes # {} /\ \A x \in Inodes : 0 =< x
    BY <1>4, ConstantTypes DEF Inodes
  <2>3. \A x \in Inodes : (\A y \in Inodes : x =< y) => x = 0
    BY <1>4, ConstantTypes DEF Inodes
  <2>4. Min(Inodes) = 0
    BY <1>4, <2>2, <2>3 DEF Min
  <2>5. QED
    BY <2>1, <2>2, <2>4 DEF get_mapping, FirstOf
<1>9. /\ MemoryOK(s) /\ s.inode = n.inode
      /\ s.names = [n.names EXCEPT ![0] = [avail |-> TRUE, ino |-> 0, path |-> Root]]
  BY <1>7, <1>8 DEF enter_name, MemoryOK, TablesOK, TableNames, SetsInode
<1> HIDE DEF s
<1>10. Keeps(s, s1) /\ MemoryOK(s1)
  BY <1>4, <1>9, BlocksKeep DEF Keeps
<1> HIDE DEF s1
<1>11. Keeps(s1, s2) /\ MemoryOK(s2)
  BY <1>4, <1>10 DEF MemoryOK, TablesOK, TableNames, Keeps
<1> HIDE DEF s2
<1>12. IsBlock(c)
  BY DEF IsBlock
<1> HIDE DEF c
<1>13. Keeps(s2, r)
  BY <1>11, <1>12, PutKeeps
<1> HIDE DEF r
<1>14. Keeps(s, r)
  BY <1>10, <1>11, <1>13, KeepsTwice
<1>15. r.names = [m0.names EXCEPT ![0] = [avail |-> TRUE, ino |-> 0, path |-> Root]]
  BY <1>7, <1>9, <1>14 DEF Keeps, SetsInode
<1>16. /\ r.names \in [Inodes -> NameEntries]
       /\ r.names[0] = [avail |-> TRUE, ino |-> 0, path |-> Root]
       /\ \A x \in Inodes \ {0} : ~ r.names[x].avail /\ r.names[x].path = NoPath
  <2>1. [avail |-> TRUE, ino |-> 0, path |-> Root] \in NameEntries
    BY DEF NameEntries
  <2>2. QED
    BY <1>3, <1>4, <1>15, <2>1
<1>17. /\ r.inode[0].avail /\ r.inode[0].dir /\ r.inode[0].nlink = 2
       /\ \A x \in Inodes \ {0} : ~ r.inode[x].avail /\ ~ r.inode[x].dir /\ r.inode[x].nlink = 0
  BY <1>3, <1>4, <1>5, <1>7, <1>9, <1>14 DEF Keeps, SetsInode
<1>18. NameInv(r)
  BY <1>4, <1>16, <1>17, RootInv
<1>19. QED
  BY <1>1, <1>14, <1>18 DEF Keeps

LEMMA InitStep ==
    ASSUME SfsInv, sfs_init
    PROVE  SfsInv'
<1> DEFINE u == IF TablesIntact THEN "" ELSE "tables overwritten"
           next == IF ~KeyFound THEN first_mount ELSE Memory(saved, disk, u)
<1>1. ~mounted /\ mounted' /\ Become(next) /\ saved' = saved /\ fds' = fds
  BY DEF sfs_init
<1>2. DiskOK(disk)
  BY NowParts DEF SfsInv, MemoryOK
<1>3. MemoryOK(first_mount) /\ NameInv(first_mount)
  BY <1>2, FirstMountInv
<1>4. MemoryOK(Memory(saved, disk, u)) /\ NameInv(Memory(saved, disk, u))
  <2>1. MemoryOK(Memory(saved, disk, u))
    BY <1>2 DEF SfsInv, MemoryOK, TablesOK, Memory, TableNames
  <2>2. NameInv(Memory(saved, disk, u))
    BY SameNamesAndLinks DEF SfsInv, Memory
  <2>3. QED
    BY <2>1, <2>2
<1> HIDE DEF u
<1>5. MemoryOK(next) /\ NameInv(next)
  BY <1>3, <1>4
<1> HIDE DEF next
<1>6. PICK m : m = next /\ Hold(m)
  BY <1>1 DEF Become
<1>7. HandlesOK'
  BY <1>1 DEF SfsInv, HandlesOK
<1>8. QED
  BY <1>1, <1>5, <1>6, <1>7, TablesNext

\* The tables, and what is saved of them.
LEMMA GoneStep ==
    ASSUME NEW tables, NEW d, Gone(tables, d), DiskOK(d),
           DOMAIN tables = TableNames, TablesOK(tables), NameInv(tables)
    PROVE  SfsInv'
<1>1. Hold(Memory(ZeroTables, d, "")) /\ saved' = tables /\ ~mounted' /\ fds' = <<>>
  BY DEF Gone
<1>2. PICK m : m = Memory(ZeroTables, d, "") /\ Hold(m)
  BY <1>1
<1>3. MemoryOK(m) /\ NameInv(m)
  BY <1>2, ZeroInv
<1>4. MemoryOK(Now') /\ NameInv(Now')
  BY <1>2, <1>3, HoldNext
<1>5. DOMAIN fds' = {}
  <2>1. DOMAIN <<>> = {}
    OBVIOUS
  <2>2. QED
    BY <1>1, <2>1, Zenon
<1>6. HandlesOK'
  BY <1>5 DEF HandlesOK
<1>7. QED
  BY <1>1, <1>4, <1>6 DEF SfsInv

LEMMA DestroyStep ==
    ASSUME SfsInv, sfs_destroy
    PROVE  SfsInv'
<1> DEFINE d == [b \in Blocks |-> IF b >= SystemBlock THEN SystemCells(b) ELSE disk[b]]
<1>1. PICK tables : tables = Tables
  OBVIOUS
<1>2. PICK e : e = d
  OBVIOUS
<1>3. Gone(tables, e)
  BY <1>1, <1>2 DEF sfs_destroy
<1>4. DiskOK(e)
  <2>1. \A b : IsBlock(SystemCells(b))
    BY DEF SystemCells, IsBlock
  <2>2. \A b \in Blocks : IsBlock(disk[b])
    BY NowParts DEF SfsInv, MemoryOK, DiskOK
  <2>3. \A b \in Blocks : IsBlock(d[b])
    BY <2>1, <2>2
  <2>4. d = [b \in Blocks |-> d[b]]
    OBVIOUS
  <2>5. QED
    BY <1>2, <2>3, <2>4 DEF DiskOK
<1>5. /\ DOMAIN tables = TableNames /\ tables.inode = Now.inode /\ tables.names = Now.names
      /\ tables.open = Now.open /\ tables.map = Now.map
  BY <1>1, NowParts DEF Tables, TableNames
<1>6. TablesOK(tables)
  BY <1>5 DEF SfsInv, MemoryOK, TablesOK
<1>7. NameInv(tables)
  BY <1>5, SameNamesAndLinks DEF SfsInv
<1>8. QED
  BY <1>3, <1>4, <1>5, <1>6, <1>7, GoneStep

LEMMA CrashStep ==
    ASSUME SfsInv, Crash
    PROVE  SfsInv'
<1>1. PICK tables : tables = saved
  OBVIOUS
<1>2. PICK e : e = disk
  OBVIOUS
<1>3. Gone(tables, e)
  BY <1>1, <1>2 DEF Crash
<1>4. DiskOK(e) /\ DOMAIN tables = TableNames /\ TablesOK(tables) /\ NameInv(tables)
  BY <1>1, <1>2, NowParts DEF SfsInv, MemoryOK
<1>5. QED
  BY <1>3, <1>4, GoneStep

-----------------------------------------------------------------------------
(* The invariant, and what follows from it. *)

LEMMA SfsStart ==
    ASSUME Init
    PROVE  SfsInv
<1>1. DiskOK(disk)
  <2>1. \A b \in Blocks : disk[b] = Zero
    BY DEF Init
  <2>2. IsBlock(Zero)
    BY DEF Zero, IsBlock
  <2>3. disk = [b \in Blocks |-> disk[b]]
    BY DEF Init
  <2>4. QED
    BY <2>1, <2>2, <2>3 DEF DiskOK
<1>2. Now = Memory(ZeroTables, disk, undefined)
  BY DEF Init, Now, Tables, Memory
<1>3. MemoryOK(Now) /\ NameInv(Now)
  BY <1>1, <1>2, ZeroInv
<1>4. DOMAIN saved = TableNames /\ TablesOK(saved) /\ NameInv(saved)
  BY <1>1, ZeroInv DEF Init
<1>5. HandlesOK
  <2>1. DOMAIN <<>> = {}
    OBVIOUS
  <2>2. DOMAIN fds = {}
    BY <2>1, Zenon DEF Init
  <2>3. QED
    BY <2>2 DEF HandlesOK
<1>6. QED
  BY <1>3, <1>4, <1>5 DEF SfsInv

LEMMA SfsStep ==
    ASSUME SfsInv, [Next]_vars
    PROVE  SfsInv'
<1>1. ASSUME NEW p \in Files, sfs_create(p) PROVE SfsInv'
  BY <1>1, CreateStep
<1>2. ASSUME NEW p \in Dirs, sfs_mkdir(p) PROVE SfsInv'
  BY <1>2, MkdirStep
<1>3. ASSUME NEW p \in Paths \ Opened, sfs_open(p) \/ sfs_unlink(p) \/ sfs_rmdir(p) PROVE SfsInv'
  BY <1>3, OpenStep, UnlinkStep, RmdirStep
<1>4. ASSUME NEW fh \in DOMAIN fds, sfs_release(fh) PROVE SfsInv'
  BY <1>4, ReleaseStep
<1>5. ASSUME NEW fh \in DOMAIN fds, NEW n \in WriteSizes, sfs_write(fh, n) PROVE SfsInv'
  BY <1>5, WriteStep
<1>6. ASSUME NEW fh \in DOMAIN fds, NEW n \in WriteSizes, NEW off \in {0, SizeOf(fh)}, sfs_write_careless(fh, n, off)
      PROVE  SfsInv'
  BY <1>6, WriteCarelessStep
<1>7. CASE sfs_init
  BY <1>7, InitStep
<1>8. CASE sfs_destroy
  BY <1>8, DestroyStep
<1>9. CASE Crash
  BY <1>9, CrashStep
<1>10. CASE UNCHANGED vars
  BY <1>10 DEF vars, SfsInv, HandlesOK, Now, Tables
<1>11. QED
  BY <1>1, <1>2, <1>3, <1>4, <1>5, <1>6, <1>7, <1>8, <1>9, <1>10 DEF Next

LEMMA SfsInvariant == Spec => []SfsInv
<1>1. Init => SfsInv
  BY SfsStart
<1>2. SfsInv /\ [Next]_vars => SfsInv'
  BY SfsStep
<1>3. QED
  BY <1>1, <1>2, PTL DEF Spec

\* An inode has no more links than there can be names.
LEMMA LinksBounded ==
    ASSUME SfsInv, NEW i \in Inodes
    PROVE  inode_table[i].nlink \in 0 .. MaxNodes + 1
<1>1. NamesOK(Now) /\ LinksOK(Now) /\ ParentsOK(Now)
  BY DEF SfsInv, NameInv
<1>2. CASE \A k \in Inodes : Taken(Now, k) => Now.names[k].ino # i
  <2>1. Now.inode[i].nlink \in {0, 1}
    BY <1>1, <1>2 DEF LinksOK
  <2>2. QED
    BY <2>1, NowParts, ConstantTypes
<1>3. ASSUME NEW k \in Inodes, Taken(Now, k), Now.names[k].ino = i
      PROVE  inode_table[i].nlink \in 0 .. MaxNodes + 1
  <2> DEFINE d == Now.names[k].path
  <2>1. Now.inode[i].nlink = IF d \in Files THEN 1 ELSE 2 + Cardinality(Kids(Now, d))
    BY <1>1, <1>3 DEF LinksOK
  <2>2. PICK j \in Inodes : Taken(Now, j) /\ Now.names[j].path = Root
    BY <1>1, <1>3 DEF ParentsOK
  <2>3. Kids(Now, d) \in SUBSET (Inodes \ {j})
    BY <2>2 DEF Kids
  <2>4. IsFiniteSet(Inodes) /\ Cardinality(Inodes) = MaxNodes
    BY ConstantTypes, FS_Interval DEF Inodes
  <2>5. IsFiniteSet(Inodes \ {j})
    BY <2>4, FS_RemoveElement
  <2>6. Cardinality(Inodes \ {j}) = IF j \in Inodes THEN Cardinality(Inodes) - 1 ELSE Cardinality(Inodes)
    BY <2>4, FS_RemoveElement, Zenon
  <2>7. Cardinality(Kids(Now, d)) <= Cardinality(Inodes \ {j})
    BY <2>3, <2>5, FS_Subset, Zenon
  <2>8. Cardinality(Kids(Now, d)) \in Nat
    BY KidsFinite
  <2> HIDE DEF d
  <2>9. Now.inode[i].nlink \in 0 .. MaxNodes + 1
    BY <2>1, <2>4, <2>6, <2>7, <2>8, ConstantTypes
  <2>10. QED
    BY <2>9, NowParts
<1>4. QED
  BY <1>2, <1>3

\* A path is named if some entry has it, and then getattr and the handlers find that entry.
LEMMA NamedEntry ==
    ASSUME NamesOK(Now), NEW p \in NamedPaths
    PROVE  /\ path_lookup(Now, p) \in Inodes /\ Taken(Now, path_lookup(Now, p))
           /\ Now.names[path_lookup(Now, p)].path = p
  BY LookupFinds DEF NamedPaths

LEMMA EntryNamed ==
    ASSUME NamesOK(Now), NEW k \in Inodes, Taken(Now, k)
    PROVE  Now.names[k].path \in NamedPaths /\ path_lookup(Now, Now.names[k].path) = k
<1>1. Now.names[k].path \in Paths \cup {Root}
  BY DEF NamesOK, NameEntries
<1>2. QED
  BY <1>1, LookupFinds DEF NamedPaths

LEMMA ChildrenAreKids ==
    ASSUME NamesOK(Now), NEW d
    PROVE  Cardinality(Children(d)) = Cardinality(Kids(Now, d))
<1> DEFINE f == [k \in Kids(Now, d) |-> Now.names[k].path]
<1>1. \A k \in Kids(Now, d) : k \in Inodes /\ Taken(Now, k) /\ f[k] = Now.names[k].path /\ f[k] \in Children(d)
  BY EntryNamed DEF Kids, Children
<1>2. \A k, j \in Kids(Now, d) : f[k] = f[j] => k = j
  BY <1>1 DEF NamesOK
<1>3. \A p \in Children(d) : \E k \in Kids(Now, d) : f[k] = p
  <2>1. SUFFICES ASSUME NEW p \in Children(d)
                 PROVE  path_lookup(Now, p) \in Kids(Now, d) /\ Now.names[path_lookup(Now, p)].path = p
    OBVIOUS
  <2>2. p \in NamedPaths /\ p # Root /\ Front(p) = d
    BY DEF Children
  <2>3. QED
    BY <2>2, NamedEntry DEF Kids
<1>4. f \in [Kids(Now, d) -> Children(d)]
  BY <1>1
<1> HIDE DEF f
<1>5. f \in Bijection(Kids(Now, d), Children(d))
  BY <1>2, <1>3, <1>4 DEF Bijection, Injection, Surjection, IsInjective
<1>6. ExistsBijection(Kids(Now, d), Children(d))
  BY <1>5 DEF ExistsBijection
<1>7. IsFiniteSet(Kids(Now, d))
  BY KidsFinite
<1>8. QED
  BY <1>6, <1>7, FS_Bijection

\* Disks, files and tables of any size: whatever clients do, and wherever the process is
\* killed, the tables and the blocks have their types, no block number is out of range, no
\* inode has more links than there can be names, and every handle leads to an allocated
\* inode (params.h, sfs.c:61-67).
THEOREM SfsTypes == Spec => []TypeOK
<1>1. SfsInv => TypeOK
  <2>1. SUFFICES ASSUME SfsInv PROVE TypeOK
    OBVIOUS
  <2>2. ASSUME NEW i \in Inodes
        PROVE  /\ inode_table[i].avail \in BOOLEAN /\ inode_table[i].dir \in BOOLEAN
               /\ inode_table[i].nblocks \in 0 .. MaxFileBlocks + 1
               /\ \A n \in 0 .. NumDirect + 1 : inode_table[i].blocks[n] \in Blocks \cup {-1}
    <3>1. InodeOK(inode_table[i])
      BY <2>1, NowParts DEF SfsInv, MemoryOK, TablesOK
    <3>2. QED
      BY <3>1 DEF InodeOK
  <2>3. ASSUME NEW i \in Inodes
        PROVE  /\ name_table[i].path \in Paths \cup {Root, NoPath}
               /\ name_table[i].avail => name_table[i].ino \in Inodes
    BY <2>1, NowParts DEF SfsInv, NameInv, NamesOK, NameEntries, Taken
  <2>4. \A i \in Inodes : inode_table[i].nlink \in 0 .. MaxNodes + 1
    BY <2>1, LinksBounded
  <2>5. disk_blocks \in [Blocks -> BOOLEAN] /\ DOMAIN disk = Blocks
    BY <2>1, NowParts DEF SfsInv, MemoryOK, TablesOK, DiskOK
  <2>6. ASSUME NEW b \in Blocks
        PROVE  Len(disk[b]) = BlockSize
    <3>1. IsBlock(disk[b])
      BY <2>1, NowParts DEF SfsInv, MemoryOK, DiskOK
    <3>2. \A c, n : n \in Nat /\ c = [k \in 1..n |-> c[k]] => Len(c) = n
      OBVIOUS
    <3>3. QED
      BY <3>1, <3>2, ConstantTypes DEF IsBlock
  <2>7. DOMAIN fds \subseteq {fh \in Handles : open_files[fh] \in Allocated}
    <3>1. SUFFICES ASSUME NEW fh \in DOMAIN fds PROVE fh \in Handles /\ open_files[fh] \in Allocated
      OBVIOUS
    <3>2. PICK k \in Inodes : name_table[k].avail /\ name_table[k].ino = open_files[fh]
      BY <2>1 DEF SfsInv, HandlesOK
    <3>3. QED
      BY <2>1, <3>2, NowParts DEF SfsInv, HandlesOK, NameInv, NamesOK, Taken, Allocated
  <2>8. QED
    BY <2>2, <2>3, <2>4, <2>5, <2>6, <2>7 DEF TypeOK
<1>2. QED
  BY <1>1, SfsInvariant, PTL

\* However many files and directories there are, rmdir's test of the links is a test for
\* children, and no path loses the directory it is in: also after a crash, and also where
\* getattr takes one inode for another (sfs.c:527, 632, 686, 1054).
THEOREM LinksCountChildrenHolds == Spec => []LinksCountChildren
<1>1. SfsInv => LinksCountChildren
  <2>1. SUFFICES ASSUME SfsInv, NEW d \in NamedDirs
                 PROVE  /\ inode_table[InodeOf(Now, d)].nlink = 2 + Cardinality(Children(d))
                        /\ d # Root => Front(d) \in NamedDirs
    BY DEF LinksCountChildren
  <2>2. NamesOK(Now) /\ LinksOK(Now) /\ ParentsOK(Now)
    BY <2>1 DEF SfsInv, NameInv
  <2> DEFINE k == path_lookup(Now, d)
  <2>3. d \in NamedPaths /\ d \notin Files /\ d \in Paths \cup {Root}
    BY <2>1 DEF NamedDirs, NamedPaths
  <2>4. k \in Inodes /\ Taken(Now, k) /\ Now.names[k].path = d
    BY <2>2, <2>3, NamedEntry
  <2> HIDE DEF k
  <2>5. inode_table[InodeOf(Now, d)].nlink = 2 + Cardinality(Children(d))
    <3>1. Now.inode[Now.names[k].ino].nlink = 2 + Cardinality(Kids(Now, d))
      BY <2>2, <2>3, <2>4 DEF LinksOK
    <3>2. Cardinality(Children(d)) = Cardinality(Kids(Now, d))
      BY <2>2, ChildrenAreKids
    <3>3. QED
      BY <3>1, <3>2, NowParts DEF InodeOf, k
  <2>6. ASSUME d # Root PROVE Front(d) \in NamedDirs
    <3>1. PICK j \in Inodes : Taken(Now, j) /\ Now.names[j].path = Front(d)
      BY <2>2, <2>4, <2>6 DEF ParentsOK
    <3>2. Front(d) \notin Files
      BY <2>3, <2>6, PathFacts
    <3>3. QED
      BY <2>2, <3>1, <3>2, EntryNamed DEF NamedDirs
  <2>7. QED
    BY <2>5, <2>6
<1>2. QED
  BY <1>1, SfsInvariant, PTL

\* However many names there are and in whichever order they come and go, getattr, which
\* takes the index of a name for the number of its inode, answers for the right file as
\* long as every allocated inode has a name (sfs.c:527).
THEOREM GetattrExactHolds == Spec => []GetattrExact
<1>1. SfsInv => GetattrExact
  <2>1. SUFFICES ASSUME SfsInv, Leaked = {}, NEW p \in NamedPaths
                 PROVE  sfs_getattr(Now, p) = inode_table[InodeOf(Now, p)]
    BY DEF GetattrExact
  <2>2. NamesOK(Now) /\ NumberedAlike(Now)
    BY <2>1 DEF SfsInv, NameInv
  <2>3. \A i \in Inodes : Now.inode[i].avail => \E k \in Inodes : Taken(Now, k) /\ Now.names[k].ino = i
    <3>1. SUFFICES ASSUME NEW i \in Inodes, Now.inode[i].avail
                   PROVE  \E k \in Inodes : Taken(Now, k) /\ Now.names[k].ino = i
      OBVIOUS
    <3>2. i \in NamedInodes
      BY <2>1, <3>1, NowParts DEF Leaked, Allocated
    <3>3. PICK q \in NamedPaths : i = InodeOf(Now, q)
      BY <3>2 DEF NamedInodes
    <3>4. QED
      BY <2>2, <3>3, NamedEntry DEF InodeOf
  <2>4. \A k \in Inodes : Taken(Now, k) => Now.names[k].ino = k
    BY <2>2, <2>3 DEF NumberedAlike
  <2>5. InodeOf(Now, p) = path_lookup(Now, p)
    BY <2>1, <2>2, <2>4, NamedEntry DEF InodeOf
  <2>6. QED
    BY <2>5, NowParts DEF sfs_getattr
<1>2. QED
  BY <1>1, SfsInvariant, PTL
=============================================================================
