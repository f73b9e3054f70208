----------------------------- MODULE SfsBlocks -----------------------------
(***************************************************************************)
(* The disk of asst3's file system and the way an inode finds its blocks:  *)
(* block.c, and the block functions of sfs.c.                              *)
(*                                                                         *)
(* A block is a sequence of BlockSize cells.  A cell is what the code      *)
(* reads or writes as a unit there: a byte of a file, a short (a block     *)
(* number), or a token of a directory's text, where the separator is       *)
(* counted with the token behind it.  All zero bytes are Nul, which is     *)
(* also the short 0 and the end of a text.                                 *)
(*                                                                         *)
(* Operators work on m, a record of the globals of sfs.c and the disk:     *)
(* m.inode, m.names, m.open, m.map (disk_blocks), m.disk, and m.ub, which  *)
(* says what took the program out of defined behaviour ("" if nothing).    *)
(***************************************************************************)
EXTENDS Integers, Sequences, FiniteSets, FiniteSetsExt, SequencesExt, TLC

CONSTANTS
    BlockSize,      \* BLOCK_SIZE, in cells
    NumBlocks,      \* NUM_BLOCKS
    NumDirect,      \* direct entries of an inode: 10
    PerBlock,       \* entries of an indirect block: 100
    NumDouble       \* entries of the double indirect block: 10

ASSUME BlockAssumption ==
    /\ {BlockSize, NumBlocks, NumDirect, PerBlock, NumDouble} \subseteq Nat \ {0}
    /\ PerBlock =< BlockSize /\ NumDouble < BlockSize /\ NumDirect >= 2

MaxFileBlocks == NumDirect + PerBlock + NumDouble * PerBlock
Blocks == 0 .. NumBlocks - 1

Nul == <<>>                     \* zero bytes
Garbage == <<"?">>              \* memory nobody has written
Short(n) == <<"short", n>>
Token(s) == <<"token", s>>
Byte(p, k) == <<"byte", p, k>>  \* the byte a client gives for position k of file p
Zero == [k \in 1..BlockSize |-> Nul]

\* A cell read as a short.  The text of a directory or a byte of a file read
\* so is some number; NumBlocks stands for it, which is no block.  Garbage is
\* read as a negative number here: set_block_index has the other case.
AsShort(c) == IF c = Nul THEN 0
              ELSE IF c[1] = "short" THEN c[2]
              ELSE IF c = Garbage THEN -1 ELSE NumBlocks

\* The smallest index of S, or -1: all the searches for a free entry.
FirstOf(S) == IF S = {} THEN -1 ELSE Min(S)

\* pread at a negative offset, or of a block never written, leaves zeroes.
block_read(d, b) == IF b \in Blocks THEN d[b] ELSE Zero

\* pwrite at a negative offset fails, and no caller looks at the result.
block_write(d, b, c) == IF b \in Blocks THEN [d EXCEPT ![b] = c] ELSE d

first_block(m) == FirstOf({b \in Blocks : ~ m.map[b]})

\* Faulty variant: the block is not marked.
get_block_unmarked(m) == IF first_block(m) = -1 THEN [m EXCEPT !.ub = "disk full"] ELSE m

\* The first free block, marked.  On a full disk the index, a short that is
\* always below 32768, wraps and the search leaves the array.
get_block(m) == IF first_block(m) = -1 THEN [m EXCEPT !.ub = "disk full"]
                ELSE [m EXCEPT !.map[first_block(m)] = TRUE]

\* Entry k of the table in block b.
Entry(m, b, k) == AsShort(block_read(m.disk, b)[k + 1])

\* The position of block n of a file in the table of its single indirect
\* block, and in the two levels of tables of the double one.
InSingle(n) == n - NumDirect
InOuter(n) == (n - NumDirect - PerBlock) \div PerBlock
InInner(n) == (n - NumDirect - PerBlock) % PerBlock

get_block_index(m, i, n) ==
    LET blocks == m.inode[i].blocks
    IN  CASE n < NumDirect -> blocks[n]
          [] n >= NumDirect /\ n < NumDirect + PerBlock ->
                Entry(m, blocks[NumDirect], InSingle(n))
          [] n >= NumDirect + PerBlock /\ n < MaxFileBlocks ->
                Entry(m, Entry(m, blocks[NumDirect + 1], InOuter(n)), InInner(n))
          [] n >= MaxFileBlocks -> -1

\* A table whose first n entries are unset, over what was in the buffer.
Unset(c, n) == [k \in 1..BlockSize |-> IF k =< n THEN Short(-1) ELSE c[k]]

\* Put index in entry k of the table in block b, which holds c so far.
put_entry(m, b, c, k, index) ==
    [m EXCEPT !.disk = block_write(@, b, [c EXCEPT ![k + 1] = Short(index)])]

set_single(m, i, n, index) ==
    LET old == m.inode[i].blocks[NumDirect]
        new == first_block(m)
    IN  IF old < 0
        THEN put_entry([get_block(m) EXCEPT !.inode[i].blocks[NumDirect] = new], new,
                       Unset(block_read(m.disk, new), PerBlock), InSingle(n), index)
        ELSE put_entry(m, old, block_read(m.disk, old), InSingle(n), index)

\* The outer table of the double indirect block, made if there is none: ten
\* entries are unset, the rest is what was on the stack.
with_outer(m, i) ==
    LET new == first_block(m)
    IN  IF m.inode[i].blocks[NumDirect + 1] >= 0 THEN m
        ELSE [get_block(m) EXCEPT
                !.inode[i].blocks[NumDirect + 1] = new,
                !.disk = block_write(@, new, Unset([k \in 1..BlockSize |-> Garbage], NumDouble))]

set_double(m0, i, n, index) ==
    LET m == with_outer(m0, i)
        outer == m.inode[i].blocks[NumDirect + 1]
        c == block_read(m.disk, outer)
        inner == AsShort(c[InOuter(n) + 1])
        new == first_block(m)
    IN  IF inner < 0
        THEN put_entry(put_entry(get_block(m), outer, c, InOuter(n), new),
                       new, Unset(c, PerBlock), InInner(n), index)
        ELSE put_entry(m, inner, block_read(m.disk, inner), InInner(n), index)

\* One more block than get_block_index can find is accepted.
set_block_index(m, i, n, index) ==
    CASE n < NumDirect -> [m EXCEPT !.inode[i].blocks[n] = index]
      [] n >= NumDirect /\ n < NumDirect + PerBlock -> set_single(m, i, n, index)
      [] n >= NumDirect + PerBlock /\ n =< MaxFileBlocks -> set_double(m, i, n, index)
      [] n > MaxFileBlocks -> m

\* The entries of a table up to the first one that is not positive, among n.
Chain(m, b, n) ==
    {Entry(m, b, k) : k \in {k \in 0..n-1 : \A j \in 0..k : Entry(m, b, j) > 0}}

\* The blocks free_inode frees through the indirect entries.
Indirect(m, i) ==
    LET single == m.inode[i].blocks[NumDirect]
        double == m.inode[i].blocks[NumDirect + 1]
        inners == Chain(m, double, NumDouble)
    IN  (IF single > 0 THEN {single} \cup Chain(m, single, PerBlock) ELSE {})
        \cup (IF double > 0
              THEN {double} \cup inners \cup UNION {Chain(m, b, PerBlock) : b \in inners}
              ELSE {})

Direct(m, i) == {m.inode[i].blocks[n] : n \in 0 .. NumDirect - 1}
=============================================================================
