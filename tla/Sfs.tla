-------------------------------- MODULE Sfs --------------------------------
(***************************************************************************)
(* The handlers of asst3's file system, sfs.c, called one at a time (FUSE  *)
(* with -s) by a kernel that resolves paths with getattr.  A call that     *)
(* returns an error without changing anything is a stuttering step and has *)
(* no action.  st_ino, the times, owners, modes other than "directory",    *)
(* refcnt and pos are written and never used, and are left out.            *)
(***************************************************************************)
EXTENDS SfsBlocks

CONSTANTS
    MaxNodes,       \* MAX_NODES, and MAX_LINK as the size of name_table
    MaxOpen,        \* MAX_LINK as the size of open_files
    Reserve,        \* blocks kept for the tables at the end of the disk
    Files, Dirs,    \* the paths the clients use: sequences of names
    WriteSizes,     \* how many bytes a write may bring
    MaxMounts,      \* how many mounts there are
    MaxFaults,      \* how many crashes and careless writes there are
    MaxChanges      \* how often something is created or removed

ASSUME SfsAssumption ==
    /\ {MaxNodes, MaxOpen, Reserve} \subseteq Nat \ {0} /\ Reserve < NumBlocks
    /\ WriteSizes \subseteq Nat \ {0} /\ {MaxMounts, MaxFaults, MaxChanges} \subseteq Nat

VARIABLES
    inode_table, name_table, open_files, disk_blocks,   \* the tables of sfs.c
    disk,           \* the blocks of the disk file
    saved,          \* the tables as they are in the blocks kept for them
    mounted,        \* sfs_init has run and sfs_destroy has not
    mounts, changes,   \* history: how many there were
    undefined,      \* what left defined behaviour, or ""
    fds,            \* kernel: the handles in use, and the paths they were opened on
    view,           \* history: what reading every file would give, or will after a mount
    kept,           \* history: the contents of the files at the last unmount
    lost,           \* history: the files unlinked since then
    careless,       \* history: the files written to other than by appending within the limit
    faults          \* history: the crashes and the careless writes so far

vars == <<inode_table, name_table, open_files, disk_blocks, disk, saved, mounted, mounts, changes,
          undefined, fds, view, kept, lost, careless, faults>>

Root == <<>>                    \* the path "/"
NoPath == <<"">>                \* the path of a free entry
Paths == Files \cup Dirs

\* A path is that of a file or that of a directory, and what it leads through
\* are directories.
ASSUME PathAssumption ==
    /\ Files \cap Dirs = {}
    /\ \A p \in Paths : p \in Seq(STRING \ {""}) /\ p # Root /\ Front(p) \in Dirs \cup {Root}

Inodes == 0 .. MaxNodes - 1
Handles == 0 .. MaxOpen - 1
SystemBlock == NumBlocks - Reserve

\* The blocks the tables are saved in; the first one starts with the key.
SystemCells(b) == [k \in 1..BlockSize |-> IF b = SystemBlock /\ k = 1 THEN <<"key">> ELSE <<"table">>]
KeyFound == \E b \in Blocks \ {0} : disk[b][1] = <<"key">>
TablesIntact == \A b \in SystemBlock .. NumBlocks - 1 : disk[b] = SystemCells(b)

\* The memory of the process with these tables, and the disk.
Memory(tables, d, why) ==
    [inode |-> tables.inode, names |-> tables.names, open |-> tables.open,
     map |-> tables.map, disk |-> d, ub |-> why]
Tables == [inode |-> inode_table, names |-> name_table, open |-> open_files, map |-> disk_blocks]
Now == Memory(Tables, disk, undefined)

\* After a step into undefined behaviour the program is not followed further.
Serving == mounted /\ undefined = ""

----------------------------------------------------------------------------
(* The tables. *)

ZeroInode == [avail |-> FALSE, dir |-> FALSE, nlink |-> 0, size |-> 0, nblocks |-> 0,
              blocks |-> [n \in 0 .. NumDirect + 1 |-> 0]]

\* The tables after the memsets of a first mount, as far as they matter.
ZeroTables ==
    [inode |-> [i \in Inodes |-> ZeroInode],
     names |-> [i \in Inodes |-> [avail |-> FALSE, ino |-> 0, path |-> NoPath]],
     open |-> [fh \in Handles |-> -1],
     map |-> [b \in Blocks |-> FALSE]]

\* Faulty variant: the last inode is never looked at.
get_inode_short(m) == FirstOf({i \in Inodes \ {MaxNodes - 1} : ~ m.inode[i].avail})
\* Faulty variant: only inodes behind all allocated ones are taken.
get_inode_above(m) == FirstOf({i \in Inodes : \A j \in Inodes : m.inode[j].avail => i > j})
get_inode(m) == FirstOf({i \in Inodes : ~ m.inode[i].avail})
get_mapping(m) == FirstOf({i \in Inodes : ~ m.names[i].avail})
get_fh(m) == FirstOf({fh \in Handles : m.open[fh] < 0})
path_lookup(m, p) == FirstOf({i \in Inodes : m.names[i].path = p})
\* Faulty variant: the entry stays taken.
free_mapping_taken(m, k) == [m EXCEPT !.names[k].ino = -1, !.names[k].path = NoPath]
free_mapping(m, k) == [m EXCEPT !.names[k] = [avail |-> FALSE, ino |-> -1, path |-> NoPath]]
free_fh(m, fh) == [m EXCEPT !.open[fh] = -1]

\* The inode that path p is mapped to.
InodeOf(m, p) == m.names[path_lookup(m, p)].ino
Named(m, p) == path_lookup(m, p) >= 0

\* Faulty variant: the indirect blocks are forgotten.
freed_direct(m, i) == Direct(m, i)

\* free_inode: nothing but the count changes while links are left.  The test
\* at line 130 is of the array and always true, so entries that are unset free
\* element -1 of disk_blocks: bytes in front of the array, which are zero.
freed(m, i) == Direct(m, i) \cup Indirect(m, i)
free_inode(m, i) ==
    IF m.inode[i].nlink > 1 THEN [m EXCEPT !.inode[i].nlink = @ - 1]
    ELSE [m EXCEPT
            !.inode[i] = [ZeroInode EXCEPT !.blocks =
                            [n \in DOMAIN @ |-> IF n < NumDirect THEN -1 ELSE m.inode[i].blocks[n]]],
            !.map = [b \in Blocks |-> m.map[b] /\ b \notin freed(m, i)],
            !.ub = IF NumBlocks \in freed(m, i) THEN "wild block" ELSE @]

\* get_inode, and the fields create and mkdir set.
new_inode(m, i, dir, nlink, size, nblocks) ==
    [m EXCEPT !.inode[i] = [avail |-> TRUE, dir |-> dir, nlink |-> nlink, size |-> size,
                            nblocks |-> nblocks, blocks |-> [n \in 0 .. NumDirect + 1 |-> -1]]]

enter_name(m, p, i) ==
    [m EXCEPT !.names[get_mapping(m)] = [avail |-> TRUE, ino |-> i, path |-> p]]

----------------------------------------------------------------------------
(* Directories: a text of names and inode numbers, each pair an entry. *)

Dots(i, parent) == <<Token("."), Token(ToString(i)), Token(".."), Token(ToString(parent))>>
DirEntry(name, i) == <<Token(name), Token(ToString(i))>>
Padded(text) == [k \in 1..BlockSize |-> IF k =< Len(text) THEN text[k] ELSE Nul]

\* The text in block c: the cells in front of the first Nul.
Ends(c) == {k \in 1..BlockSize : c[k] = Nul}
Text(c) == IF Ends(c) = {} THEN c ELSE SubSeq(c, 1, Min(Ends(c)) - 1)

\* Division and remainder as in C, for the sizes below zero that occur.
CDiv(a, b) == IF a >= 0 THEN a \div b ELSE -((-a) \div b)
CRem(a, b) == a - b * CDiv(a, b)

DirBlock(m, dir, n) == block_read(m.disk, get_block_index(m, dir, n))

\* create and mkdir: the entry is written over the end of the text, and what
\* goes beyond the block is kept only if st_size asks for a new block.  The
\* buffer of create has room for a second block, which nobody has cleared; that
\* of mkdir (wide = FALSE) has none.
add_entry(m, dir, name, i, wide) ==
    LET at == Min({n \in 0..MaxFileBlocks : Ends(DirBlock(m, dir, n)) # {}})
        c == DirBlock(m, dir, at)
        text == Text(c) \o DirEntry(name, i) \o <<Nul>>
        buf == [k \in 1 .. 2 * BlockSize |->
                    IF k =< Len(text) THEN text[k] ELSE IF k =< BlockSize THEN c[k] ELSE Garbage]
        m1 == [m EXCEPT !.disk = block_write(@, get_block_index(m, dir, at), SubSeq(buf, 1, BlockSize)),
                        !.ub = IF Len(text) > BlockSize /\ ~wide THEN "buffer overrun" ELSE @]
        new == first_block(m1)
        m2 == set_block_index(get_block(m1), dir, at + 1, new)
        m3 == [m2 EXCEPT !.disk = block_write(@, new, SubSeq(buf, BlockSize + 1, 2 * BlockSize))]
        grows == CRem(m.inode[dir].size, BlockSize) + 3 > BlockSize
    IN  [(IF grows THEN m3 ELSE m1) EXCEPT !.inode[dir].size = @ + 3, !.inode[dir].nlink = @ + 1]

\* Faulty variant: the number behind the name stays.
removeSubstring_name(text, entry) ==
    LET hits == {k \in 1 .. Len(text) - 1 : SubSeq(text, k, k + 1) = entry}
        left == {k \in 1 .. Len(text) : k \notin hits}
    IN  [n \in 1 .. Cardinality(left) |-> text[CHOOSE k \in left : Cardinality({j \in left : j =< k}) = n]]

\* Faulty variant: what is behind the entry goes with it.
removeSubstring_rest(text, entry) ==
    LET hits == {k \in 1 .. Len(text) - 1 : SubSeq(text, k, k + 1) = entry}
    IN  IF hits = {} THEN text ELSE SubSeq(text, 1, Min(hits) - 1)

\* removeSubstring takes out every occurrence of the entry.
removeSubstring(text, entry) ==
    LET hits == {k \in 1 .. Len(text) - 1 : SubSeq(text, k, k + 1) = entry}
        left == {k \in 1 .. Len(text) : k \notin hits /\ k - 1 \notin hits}
    IN  [n \in 1 .. Cardinality(left) |-> text[CHOOSE k \in left : Cardinality({j \in left : j =< k}) = n]]

\* unlink and rmdir: only the first block is looked at (line 665 reads as
\* (a + b) ? 1 : 0), the size falls by what is left free in it, and the second
\* block goes if the size says so.
remove_entry(m, dir, name, i) ==
    LET size == m.inode[dir].size
        c == DirBlock(m, dir, 0)
        text == removeSubstring(Text(c), DirEntry(name, i))
        resize == BlockSize - Len(text)
        m1 == [m EXCEPT !.disk = block_write(@, get_block_index(m, dir, 0), Padded(text)),
                        !.ub = IF size = 0 \/ Ends(c) = {} THEN "buffer overrun" ELSE @]
        second == get_block_index(m1, dir, 1)
        m2 == set_block_index([m1 EXCEPT !.map = [b \in Blocks |-> @[b] /\ b # second]], dir, 1, -1)
        shrinks == CDiv(size, BlockSize) > CDiv(size - resize, BlockSize)
    IN  [(IF shrinks THEN m2 ELSE m1) EXCEPT !.inode[dir].size = @ - resize, !.inode[dir].nlink = @ - 1]

----------------------------------------------------------------------------
(* Queries: what getattr, read and readdir answer. *)

\* getattr takes the index of the name for that of the inode.
sfs_getattr(m, p) == m.inode[path_lookup(m, p)]

\* The blocks that hold positions off .. off + n - 1, as read and write count
\* them.  n is unsigned: when it is less than what the first block has left,
\* the quotient is 2^55 - 1, and -1 once the sum is cut to an int.
BlockCount(off, n) ==
    LET skip == off % BlockSize
    IN  (IF skip > 0 THEN 1 ELSE 0)
        + (n - (IF skip > 0 THEN BlockSize - skip ELSE 0)) \div BlockSize
        + (IF (off + n) % BlockSize > 0 THEN 1 ELSE 0)

\* Faulty variant: the data starts where the first block does.
sfs_read_unaligned(m, i, off, n) ==
    LET size == Min({n, m.inode[i].size - off})
        buf == FlattenSeq([j \in 1 .. BlockCount(off, size) |->
                             block_read(m.disk, get_block_index(m, i, (off \div BlockSize) + j - 1))])
    IN  IF off >= m.inode[i].size THEN <<>> ELSE SubSeq(buf, 1, size)

\* The bytes from position off; at the end of the file there are none.
sfs_read(m, i, off, n) ==
    LET size == Min({n, m.inode[i].size - off})
        start == off \div BlockSize
        skip == off % BlockSize
        buf == FlattenSeq([j \in 1 .. BlockCount(off, size) |->
                             block_read(m.disk, get_block_index(m, i, start + j - 1))])
    IN  IF off >= m.inode[i].size THEN <<>> ELSE SubSeq(buf, skip + 1, skip + size)

\* The names handed to filler: every other token of the first block.
sfs_readdir(m, p) ==
    LET text == Text(DirBlock(m, InodeOf(m, p), 0))
    IN  [k \in 1 .. (Len(text) + 1) \div 2 |-> text[2 * k - 1]]

----------------------------------------------------------------------------
(* The handlers that change something. *)

\* The files named in the tables of m, and what there is to read in them.
Contents(m) ==
    [p \in {p \in Files : Named(m, p)} |->
        sfs_read(m, InodeOf(m, p), 0, m.inode[InodeOf(m, p)].size)]

\* The tables and the disk become those of m.
Hold(m) ==
    /\ inode_table' = m.inode /\ name_table' = m.names
    /\ open_files' = m.open /\ disk_blocks' = m.map
    /\ disk' = m.disk /\ undefined' = m.ub

\* Clients leave the blocks at the end of the disk, where the tables will go,
\* to them: the map of blocks does not.
Fits(m) == \A b \in SystemBlock .. NumBlocks - 1 : ~ m.map[b]
Become(next) == \E m \in {next} : Fits(m) /\ Hold(m) /\ view' = Contents(m)

Fail(why) == [Now EXCEPT !.ub = why]
history == <<mounts, kept, lost, careless, faults>>

\* After a crash clients only look.
Settled == Serving /\ "crash" \notin faults

\* The kernel asks getattr for every directory on the way, and what it answers
\* for the path itself decides between open and opendir, unlink and rmdir.
Sees(p, dir) == Named(Now, p) /\ sfs_getattr(Now, p).dir = dir
Creatable(p) == Sees(Front(p), TRUE) /\ ~Named(Now, p) /\ changes < MaxChanges

\* The kernel's table with one more handle.
handle(fh, p) == [h \in DOMAIN fds \cup {fh} |-> IF h = fh THEN p ELSE fds[h]]

\* The handle is unsigned, so a full table of open files goes unnoticed, and
\* the result of get_inode is not looked at.
sfs_create(p) ==
    LET i == get_inode(Now)
        fh == get_fh(Now)
        m == new_inode(Now, i, FALSE, 1, 0, 0)
        ok == i # -1 /\ fh # -1 /\ get_mapping(Now) # -1
    IN  /\ Settled /\ Creatable(p)
        /\ Become(CASE fh = -1 -> Fail("no handle")
                    [] fh # -1 /\ i = -1 -> Fail("no inode")
                    [] ~ok /\ fh # -1 /\ i # -1 -> free_inode(m, i)
                    [] ok -> [add_entry(enter_name(m, p, i), InodeOf(Now, Front(p)), Last(p), i, TRUE)
                                EXCEPT !.open[fh] = i])
        /\ fds' = IF ok THEN handle(fh, p) ELSE fds
        /\ changes' = changes + 1
        /\ UNCHANGED <<saved, mounted, history>>

\* A new directory has a size of one block, and its text in one.
sfs_mkdir(p) ==
    LET i == get_inode(Now)
        parent == InodeOf(Now, Front(p))
        b == first_block(Now)
        m1 == [new_inode(get_block(Now), i, TRUE, 2, BlockSize, 1) EXCEPT !.inode[i].blocks[0] = b]
        m2 == [enter_name(m1, p, i) EXCEPT !.disk[b] = Padded(Dots(i, parent))]
    IN  /\ Settled /\ Creatable(p)
        /\ Become(IF i = -1 THEN Fail("no inode")
                  ELSE IF get_mapping(Now) = -1 THEN free_inode(m1, i)
                  ELSE add_entry(m2, parent, Last(p), i, FALSE))
        /\ changes' = changes + 1
        /\ UNCHANGED <<saved, mounted, fds, history>>

\* The kernel keeps unlink and rmdir from an open file; and here, to keep the
\* handles few, no client opens it a second time.
Opened == {fds[fh] : fh \in DOMAIN fds}

\* What unlink and rmdir share.
remove(p) ==
    LET i == InodeOf(Now, p)
        parent == InodeOf(Now, Front(p))
    IN  /\ Sees(Front(p), TRUE) /\ changes < MaxChanges
        /\ Become(free_mapping(free_inode(remove_entry(Now, parent, Last(p), i), i), path_lookup(Now, p)))
        /\ changes' = changes + 1
        /\ lost' = lost \cup ({p} \cap Files)
        /\ careless' = careless \ {p}
        /\ UNCHANGED <<saved, mounted, mounts, fds, kept, faults>>

sfs_unlink(p) == Settled /\ Sees(p, FALSE) /\ remove(p)

\* Faulty variant: a directory with children is removed too.
sfs_rmdir_any(p) == Settled /\ Sees(p, TRUE) /\ remove(p)

\* The links to the directory, not its text, decide whether it is empty.
sfs_rmdir(p) == Settled /\ Sees(p, TRUE) /\ inode_table[InodeOf(Now, p)].nlink =< 2 /\ remove(p)

\* The handle is also the result, and to FUSE any result but 0 is an error:
\* the file is then not open, and the handle taken for it is never released.
sfs_open(p) ==
    LET fh == get_fh(Now)
    IN  /\ Settled /\ Sees(p, FALSE) /\ ~ inode_table[InodeOf(Now, p)].dir /\ fh # -1
        /\ Become([Now EXCEPT !.open[fh] = InodeOf(Now, p)])
        /\ fds' = IF fh = 0 THEN handle(fh, p) ELSE fds
        /\ UNCHANGED <<saved, mounted, changes, history>>

sfs_release(fh) ==
    /\ Serving
    /\ Become(free_fh(Now, fh))
    /\ fds' = [h \in DOMAIN fds \ {fh} |-> fds[h]]
    /\ UNCHANGED <<saved, mounted, changes, history>>

\* Blocks that n bytes take.
BlocksFor(n) == (n + BlockSize - 1) \div BlockSize

\* One turn of the loop that makes a file longer, unless an earlier one failed.
add_block(g) ==
    LET n == g.m.inode[g.i].nblocks
        m == set_block_index(get_block(g.m), g.i, n, first_block(g.m))
    IN  IF ~g.ok THEN g
        ELSE IF n > MaxFileBlocks THEN [g EXCEPT !.m = get_block(g.m), !.ok = FALSE]
        ELSE [g EXCEPT !.m = [m EXCEPT !.inode[g.i].nblocks = @ + 1]]

\* The loop that makes a file longer by so many blocks.
grow(m, i, more) ==
    LET turn[k \in 0..more] == IF k = 0 THEN [m |-> m, i |-> i, ok |-> TRUE] ELSE add_block(turn[k - 1])
    IN  turn[more]

\* Cells c written to block n of the file.
put_block(m, i, n, c) == [m EXCEPT !.disk = block_write(@, get_block_index(m, i, n), c)]

\* The cells of a buffer that go to one block.
Part(buf, k) == [c \in 1..BlockSize |-> buf[(k - 1) * BlockSize + c]]

\* The loop that writes the blocks of buf back, from block start of the file on.
write_back(m, i, start, count, buf) ==
    LET turn[k \in 0..count] ==
            IF k = 0 THEN m ELSE put_block(turn[k - 1], i, start + k - 1, Part(buf, k))
    IN  turn[count]

\* Faulty variant: the first block is not read before it is written.
put_data_blind(m, i, off, data) ==
    LET skip == off % BlockSize
        count == BlockCount(off, Len(data))
        buf == [k \in 1 .. count * BlockSize |->
                  IF k > skip /\ k =< skip + Len(data) THEN data[k - skip] ELSE Nul]
    IN  [write_back(m, i, off \div BlockSize, count, buf) EXCEPT !.inode[i].size = @ + Len(data)]

\* The first block written to is read from the disk, the others start from
\* zeroes, and all are written back.  The size grows wherever the write was.
put_data(m, i, off, data) ==
    LET start == off \div BlockSize
        skip == off % BlockSize
        count == BlockCount(off, Len(data))
        first == block_read(m.disk, get_block_index(m, i, start))
        buf == [k \in 1 .. count * BlockSize |->
                  IF k > skip /\ k =< skip + Len(data) THEN data[k - skip]
                  ELSE IF k =< BlockSize THEN first[k] ELSE Nul]
    IN  [write_back(m, i, start, count, buf) EXCEPT !.inode[i].size = @ + Len(data)]

\* A write of n bytes at position off of the file behind handle fh.
write(fh, off, n) ==
    LET i == open_files[fh]
        more == Max({0, BlocksFor(off + n) - BlocksFor(inode_table[i].size)})
        grown == grow(Now, i, more)
        data == [k \in 1..n |-> Byte(fds[fh], off + k - 1)]
    IN  /\ Settled /\ off =< inode_table[i].size
        /\ Become(IF grown.ok THEN put_data(grown.m, i, off, data) ELSE grown.m)

\* The largest file, in bytes.
MaxFileSize == MaxFileBlocks * BlockSize
SizeOf(fh) == inode_table[open_files[fh]].size

\* A client that writes on where the file ends, up to the largest file.
sfs_write(fh, n) ==
    /\ SizeOf(fh) + n =< MaxFileSize
    /\ write(fh, SizeOf(fh), n)
    /\ UNCHANGED <<saved, mounted, changes, fds, history>>

\* A client that writes over what is there, or past the largest file: the last
\* entry set_block_index accepts is then found through memory nobody has
\* written, which may hold the number of any block.
sfs_write_careless(fh, n, off) ==
    /\ "careless" \notin faults /\ MaxFaults > Cardinality(faults)
    /\ \/ off + n =< SizeOf(fh) /\ write(fh, off, n)
       \/ off = SizeOf(fh) /\ off + n > MaxFileSize /\ write(fh, off, n)
       \/ off = SizeOf(fh) /\ off + n > MaxFileSize /\ Settled /\ Become(Fail("wild block"))
    /\ careless' = careless \cup {fds[fh]}
    /\ faults' = faults \cup {"careless"}
    /\ UNCHANGED <<saved, mounted, mounts, changes, fds, kept, lost>>

----------------------------------------------------------------------------
(* Mount, unmount, and the end of the process without an unmount. *)

\* A first mount: the root directory is inode 0, name 0 and block 0.  The text
\* is written from a string shorter than the block.
first_mount ==
    LET m == enter_name(new_inode(Memory(ZeroTables, disk, ""), 0, TRUE, 2, 5, 1), Root, 0)
    IN  [m EXCEPT !.inode[0].blocks[0] = 0, !.map[0] = TRUE,
                  !.disk[0] = [k \in 1..BlockSize |->
                                 IF k =< 4 THEN Dots(0, 0)[k] ELSE IF k = 5 THEN Nul ELSE Garbage]]

sfs_init ==
    /\ ~mounted /\ undefined = "" /\ mounts < MaxMounts
    /\ mounted' = TRUE /\ mounts' = mounts + 1
    /\ Become(IF ~KeyFound THEN first_mount
              ELSE Memory(saved, disk, IF TablesIntact THEN "" ELSE "tables overwritten"))
    /\ UNCHANGED <<saved, changes, fds, kept, lost, careless, faults>>

\* The process is gone, with its memory and its handles; tables and d are on
\* the disk.
Gone(tables, d) ==
    /\ Hold(Memory(ZeroTables, d, ""))
    /\ view' = Contents(Memory(tables, d, ""))
    /\ saved' = tables
    /\ mounted' = FALSE
    /\ fds' = <<>>

\* Nothing is promised about the contents of a file of a careless client.
Promised == [p \in DOMAIN view |-> IF p \in careless THEN <<Garbage>> ELSE view[p]]

\* The kernel does not unmount while files are open.
sfs_destroy ==
    /\ Serving /\ fds = <<>>
    /\ Gone(Tables, [b \in Blocks |-> IF b >= SystemBlock THEN SystemCells(b) ELSE disk[b]])
    /\ kept' = Promised
    /\ lost' = {}
    /\ UNCHANGED <<mounts, changes, careless, faults>>

Crash ==
    /\ Serving /\ "crash" \notin faults /\ MaxFaults > Cardinality(faults)
    /\ Gone(saved, disk)
    /\ faults' = faults \cup {"crash"}
    /\ UNCHANGED <<mounts, changes, kept, lost, careless>>

Init ==
    /\ inode_table = ZeroTables.inode /\ name_table = ZeroTables.names
    /\ open_files = ZeroTables.open /\ disk_blocks = ZeroTables.map
    /\ disk = [b \in Blocks |-> Zero]
    /\ saved = ZeroTables
    /\ mounted = FALSE /\ mounts = 0 /\ changes = 0 /\ undefined = ""
    /\ fds = <<>> /\ view = <<>> /\ kept = <<>> /\ lost = {} /\ careless = {} /\ faults = {}

Next ==
    \/ \E p \in Files : sfs_create(p)
    \/ \E p \in Dirs : sfs_mkdir(p)
    \/ \E p \in Paths \ Opened : sfs_open(p) \/ sfs_unlink(p) \/ sfs_rmdir(p)
    \/ \E fh \in DOMAIN fds : sfs_release(fh)
    \/ \E fh \in DOMAIN fds, n \in WriteSizes : sfs_write(fh, n)
    \/ \E fh \in DOMAIN fds, n \in WriteSizes : \E off \in {0, SizeOf(fh)} : sfs_write_careless(fh, n, off)
    \/ sfs_init
    \/ sfs_destroy
    \/ Crash

Spec == Init /\ [][Next]_vars
=============================================================================
