--------------------------- MODULE SfsProperties ---------------------------
(***************************************************************************)
(* What the file system of Sfs keeps true, and what it promises.           *)
(***************************************************************************)
EXTENDS Sfs

Allocated == {i \in Inodes : inode_table[i].avail}
NamedPaths == {p \in Paths \cup {Root} : Named(Now, p)}
NamedInodes == {InodeOf(Now, p) : p \in NamedPaths}
NamedDirs == NamedPaths \ Files
Children(d) == {p \in NamedPaths \ {Root} : Front(p) = d}

\* Inodes that are allocated and have no name: rmdir leaves one behind.
Leaked == Allocated \ NamedInodes

\* The tables hold what their types in params.h and sfs.c allow, names are of
\* paths in use, and a handle the kernel holds is of an allocated inode.
TypeOK ==
    /\ \A i \in Inodes :
        /\ inode_table[i].avail \in BOOLEAN /\ inode_table[i].dir \in BOOLEAN
        /\ inode_table[i].nlink \in 0 .. MaxNodes + 1
        /\ inode_table[i].nblocks \in 0 .. MaxFileBlocks + 1
        /\ \A n \in 0 .. NumDirect + 1 : inode_table[i].blocks[n] \in Blocks \cup {-1}
        /\ name_table[i].path \in Paths \cup {Root, NoPath}
        /\ name_table[i].avail => name_table[i].ino \in Inodes
    /\ disk_blocks \in [Blocks -> BOOLEAN] /\ DOMAIN disk = Blocks
    /\ \A b \in Blocks : Len(disk[b]) = BlockSize
    /\ DOMAIN fds \subseteq {fh \in Handles : open_files[fh] \in Allocated}

----------------------------------------------------------------------------
(* Blocks. *)

\* The blocks that hold tables of block numbers: the single indirect blocks,
\* the outer tables of the double ones, and the inner tables these lead to.
Singles == {inode_table[i].blocks[NumDirect] : i \in Allocated} \ {-1}
Outers == {inode_table[i].blocks[NumDirect + 1] : i \in Allocated} \ {-1}
Inners == {Entry(Now, b, k) : b \in Outers, k \in 0..NumDouble} \ {-1}

\* Where a block number is kept: in an inode, or in a table.  set_block_index
\* uses one entry more of an outer table than get_block_index finds.
Uses ==
    {<<"inode", i, n>> : i \in Allocated, n \in 0 .. NumDirect + 1}
    \cup {<<"entry", b, k>> : b \in Singles \cup Inners, k \in 0 .. PerBlock - 1}
    \cup {<<"entry", b, k>> : b \in Outers, k \in 0..NumDouble}

Kept(u) == IF u[1] = "inode" THEN inode_table[u[2]].blocks[u[3]] ELSE Entry(Now, u[2], u[3])
InUse == {u \in Uses : Kept(u) # -1}
Marked == {b \in Blocks : disk_blocks[b]}

\* As long as the process is not killed no block is in use twice, by two files,
\* or as data and as a table of block numbers; and a block in use is marked, so
\* that get_block hands out no block again and free_inode takes none that is
\* another's (sfs.c:88-138, 158-236, 676-681).
BlocksHeldOnce ==
    mounted /\ undefined = "" /\ "crash" \notin faults =>
        \A u, v \in InUse : Kept(u) \in Marked /\ (Kept(u) = Kept(v) => u = v)

\* Blocks that are marked and in use nowhere: nothing ever gives them back.
LostBlocks == Marked \ {Kept(u) : u \in InUse}

\* Unlink gives back every block of every level, and a write keeps all it gets:
\* blocks are lost only where a directory outgrows its block, and the number of
\* the new one overwrites what was in the slot (sfs.c:88-138, 158-236, 625-629).
OnlyDirectoriesLoseBlocks ==
    [][mounted /\ mounted' /\ faults' = {} /\ undefined' = "" /\ ~(LostBlocks' \subseteq LostBlocks) =>
        \E i \in Allocated : /\ inode_table[i].dir /\ inode_table'[i].size > inode_table[i].size
                             /\ CRem(inode_table[i].size, BlockSize) + 3 > BlockSize]_vars

----------------------------------------------------------------------------
(* Names, links and directories. *)

\* The links of a directory count its children, so that rmdir, which looks at
\* nothing else, removes a directory only when it is empty; and no name has
\* lost its directory.  True even where getattr confuses files and directories
\* (sfs.c:632, 686, 1054).
LinksCountChildren ==
    \A d \in NamedDirs :
        /\ inode_table[InodeOf(Now, d)].nlink = 2 + Cardinality(Children(d))
        /\ d # Root => Front(d) \in NamedDirs

\* Names and inodes are both taken first-fit, so as long as no removed
\* directory has kept its inode the index of a name is the number of its
\* inode, and getattr, which uses the one for the other, answers for the right
\* file (sfs.c:527).
GetattrExact ==
    Leaked = {} => \A p \in NamedPaths : sfs_getattr(Now, p) = inode_table[InodeOf(Now, p)]

\* readdir lists the names in a directory, each once, besides the two dots, as
\* long as its text fits in a block and its size is not zero, which makes the
\* buffer empty (sfs.c:1121-1149).
ReaddirExact ==
    mounted /\ undefined = "" /\ faults = {} =>
        \A d \in NamedDirs :
            LET names == sfs_readdir(Now, d)
            IN  \/ inode_table[InodeOf(Now, d)].size = 0
                \/ Ends(DirBlock(Now, InodeOf(Now, d), 0)) = {}
                \/ /\ ToSet(names) = {Token("."), Token("..")} \cup {Token(Last(p)) : p \in Children(d)}
                   /\ IsInjective(names)

\* Where the program goes out of defined behaviour it is for one of these
\* reasons: the handles have run out while the first one, which alone is never
\* lost, is in use; the inodes have, with those of removed directories; the
\* buffer of a directory is too small; a client went past the largest file.  It
\* never runs into the saved tables or off the map of blocks (sfs.c:88-138,
\* 158-236, 337-396, 555-559, 740).
UndefinedHasACause ==
    /\ undefined \in {"", "no handle", "no inode", "buffer overrun", "wild block"}
    /\ undefined = "no handle" => 0 \in DOMAIN fds
    /\ undefined = "no inode" => Cardinality(NamedPaths) + Cardinality(Leaked) = MaxNodes
    /\ undefined = "wild block" => "careless" \in faults

\* A directory's buffer is too small only when its block is full, up to an
\* entry, or its size has come to zero or below (sfs.c:592-629, 665-681).
OverrunsHaveACause ==
    undefined = "buffer overrun" =>
        \E i \in Allocated : inode_table[i].dir
            /\ (inode_table[i].size =< 3 \/ Len(Text(DirBlock(Now, i, 0))) >= BlockSize - 3)

----------------------------------------------------------------------------
(* Contents. *)

\* A read from any position returns the part of the file that is there, also
\* when it is shorter than what the first block has left and the number of
\* blocks is computed by an unsigned subtraction (sfs.c:803-812).
ReadsAreExact ==
    mounted /\ undefined = "" =>
        \A p \in DOMAIN view \ careless :
            \A off \in 0 .. Len(view[p]) - 1, n \in {3, BlockSize + 1} :
                sfs_read(Now, InodeOf(Now, p), off, n)
                    = SubSeq(view[p], off + 1, Min({off + n, Len(view[p])}))

\* To clients that append, mount and unmount the file system is a FileStore:
\* what they have written stays in its place whatever happens to other files,
\* and after a crash the files of the last unmount are back.
Store == INSTANCE FileStore WITH
    Sizes <- WriteSizes,
    Unknown <- <<Garbage>>,
    files <- Promised,
    saved <- kept
ImplementsFileStore == Store!Spec
=============================================================================
