----------------------------- MODULE Ext2Disk -----------------------------
(***************************************************************************)
(* The on-disk structures of kernel/fs/ext2.c and the helpers that read    *)
(* and write them: bitmaps, free counts, inodes, block pointers and        *)
(* directory entries.                                                      *)
(*                                                                         *)
(* A call of the file system is a function on a *session*, a record of the *)
(* disk d, the free counts m kept in memory, the log of the disk images    *)
(* after each block, inode or bitmap write made so far, the result ok/out  *)
(* of the last helper and the marks of dangerous steps (see Ext2).  The    *)
(* log is what a power loss may leave behind: see Ext2!Apply.              *)
(*                                                                         *)
(* A block is written sector by sector, in order.  Only the split of a     *)
(* directory entry changes two sectors of a block that is in use: a merge, *)
(* a tombstone, a ".." and a pointer are one field, an inode lies in one   *)
(* sector, a new block is written before anything points at it, and a      *)
(* truncation is a window of its own in Ext2.  Torn gives what a split     *)
(* that stops between two sectors leaves.                                  *)
(*                                                                         *)
(* Lengths and offsets are counted in units of 12 bytes, the record length *)
(* of a directory entry with a name of up to four characters; a block      *)
(* holds BlockUnits of them.  There is one block group, so the superblock  *)
(* totals, which no decision reads, equal the group's counts and are left  *)
(* out.  Sector reads and writes succeed (kernel/dev/ata.c is external).   *)
(***************************************************************************)
EXTENDS Integers, FiniteSets, FiniteSetsExt, SequencesExt

CONSTANTS
    Names,         \* leaf names a command may use
    Units,         \* Units[n]: 8 + strlen(n), rounded up, in units
    NInodes,       \* inodes_per_group; inode 1 is the root here
    NBlocks,       \* blocks 1 .. NBlocks; 0 is the null pointer
    BlockUnits,    \* block_size
    SectorUnits,   \* EXT2_SECTOR_SIZE
    NDirect,       \* direct pointers of an inode (12 in the code)
    PtrsPerBlock,  \* block_size / 4
    SizeMod        \* sizes are unsigned and wrap here (2^32 bytes)

ASSUME Ext2DiskAssumption ==
    /\ Units \in [Names -> 1 .. BlockUnits]
    /\ {".", ".."} \cap Names = {}
    /\ NInodes \in Nat \ {0} /\ NBlocks \in Nat \ {0}
    /\ BlockUnits \in Nat /\ BlockUnits > 2
    /\ SectorUnits \in 1 .. BlockUnits
    /\ NDirect \in Nat \ {0} /\ PtrsPerBlock \in Nat \ {0}
    /\ SizeMod \in Nat /\ SizeMod > (NDirect + PtrsPerBlock) * BlockUnits

Root     == 1
InodeNos == 1 .. NInodes
BlockNos == 1 .. NBlocks
MaxLen   == NDirect + PtrsPerBlock   \* logical blocks the code can allocate

(***************************************************************************)
(* Inodes, blocks and directory entries.                                   *)
(***************************************************************************)
NewInode(mode, links, size) ==
    [mode |-> mode, links |-> links, size |-> size, blocks |-> 0,
     block |-> [i \in 0 .. NDirect - 1 |-> 0], ind |-> 0]

DirEntry(name, ino, type, len) ==
    [name |-> name, inode |-> ino, type |-> type, len |-> len]

NoEntry == DirEntry(".", 0, "none", 0)

\* A zeroed block: no directory entries, only null pointers.
ZeroBlock == [ents |-> [o \in {} |-> NoEntry],
              ptrs |-> [i \in 0 .. PtrsPerBlock - 1 |-> 0]]

UnitsOf(name) == IF name \in {".", ".."} THEN 1 ELSE Units[name]

\* The block of a directory that ext2_create_dir writes: "." and "..".
FirstDirBlock(self, parent) ==
    [ZeroBlock EXCEPT !.ents =
        [o \in {0, 1} |-> IF o = 0 THEN DirEntry(".", self, "dir", 1)
                          ELSE DirEntry("..", parent, "dir", BlockUnits - 1)]]

\* Translate a logical block of an inode to a block number, 0 if none.
BlockLookup(d, i, logical) ==
    CASE logical < NDirect -> i.block[logical]
      [] logical \in NDirect .. MaxLen - 1 /\ i.ind # 0 ->
            d.blk[i.ind].ptrs[logical - NDirect]
      [] OTHER -> 0

\* The pointers of a table from index k on, 0 where there is nothing to free.
TableRefs(ptrs, k) ==
    [j \in 1 .. PtrsPerBlock |-> IF j > k THEN ptrs[j - 1] ELSE 0]

\* The blocks an inode refers to from a direct pointer on, as they are freed:
\* the direct ones, those of the table, and the table.
BlockRefs(d, i, from) ==
    [k \in 1 .. MaxLen + 1 |->
        CASE k <= from             -> 0
          [] k \in from + 1 .. MaxLen -> BlockLookup(d, i, k - 1)
          [] k = MaxLen + 1        -> i.ind]

(***************************************************************************)
(* Directories as their readers see them.  A directory's blocks up to its  *)
(* first null pointer, the entries in them by offset, and those the walk   *)
(* "while (offs < dir.size)" meets.                                        *)
(***************************************************************************)
DirBlocks(d, i) ==
    [l \in {k \in 0 .. MaxLen - 1 : \A j \in 0 .. k : BlockLookup(d, i, j) # 0}
        |-> BlockLookup(d, i, l)]

Mapped(d, i) == Cardinality(DOMAIN DirBlocks(d, i))

EntriesIn(d, blocks) ==
    [x \in UNION {{l * BlockUnits + o : o \in DOMAIN d.blk[blocks[l]].ents} :
                     l \in DOMAIN blocks}
        |-> d.blk[blocks[x \div BlockUnits]].ents[x % BlockUnits]]

View(d, i) == EntriesIn(d, DirBlocks(d, i))

WithinSize(v, size) == [x \in {y \in DOMAIN v : y < size} |-> v[x]]

Seen(d, i) == WithinSize(View(d, i), i.size)

FirstOf(v, offsets) == IF offsets = {} THEN NoEntry ELSE v[Min(offsets)]

LiveAt(v, name) == {x \in DOMAIN v : v[x].inode # 0 /\ v[x].name = name}

FindIn(v, name) == FirstOf(v, LiveAt(v, name))

\* The entry ext2_dir_lookup finds, NoEntry if none.
DirLookup(d, p, name) ==
    IF d.inode[p].mode = "dir" THEN FindIn(Seen(d, d.inode[p]), name) ELSE NoEntry

Found(d, p, name) == DirLookup(d, p, name) # NoEntry

(***************************************************************************)
(* Sessions and sector writes.                                             *)
(***************************************************************************)
Session(d, m) ==
    [d |-> d, m |-> m, log |-> <<>>, ok |-> TRUE, out |-> 0, marks |-> {}]

Put(s, d) == [s EXCEPT !.d = d, !.log = Append(@, d)]

Fail(s)      == [s EXCEPT !.ok = FALSE, !.out = 0]
Return(s, v) == [s EXCEPT !.ok = TRUE, !.out = v]

WriteInode(s, n, i) == Put(s, [s.d EXCEPT !.inode[n] = i])
WriteBlock(s, b, c) == Put(s, [s.d EXCEPT !.blk[b] = c])

\* The group descriptor is saved by the allocators, not when things are freed.
SaveCounts(s) == Put(s, [s.d EXCEPT !.count = s.m])

TakeBlock(s, b) ==
    Return(SaveCounts([Put(s, [s.d EXCEPT !.bbm = @ \cup {b}])
                          EXCEPT !.m.blocks = @ - 1]), b)

AllocBlock(s) ==
    IF s.m.blocks = 0 \/ BlockNos \subseteq s.d.bbm THEN Fail(s)
    ELSE TakeBlock(s, Min(BlockNos \ s.d.bbm))

FreeBlock(s, b) ==
    [Put(s, [s.d EXCEPT !.bbm = @ \ {b}]) EXCEPT !.m.blocks = @ + 1]

TakeInode(s, n) ==
    Return(SaveCounts([Put(s, [s.d EXCEPT !.ibm = @ \cup {n}])
                          EXCEPT !.m.inodes = @ - 1]), n)

AllocInode(s) ==
    IF s.m.inodes = 0 \/ InodeNos \subseteq s.d.ibm THEN Fail(s)
    ELSE TakeInode(s, Min(InodeNos \ s.d.ibm))

\* Mutant: the bit is cleared and the count forgotten.
FreeInodeUncounted(s, n) == Put(s, [s.d EXCEPT !.ibm = @ \ {n}])

FreeInode(s, n) ==
    [Put(s, [s.d EXCEPT !.ibm = @ \ {n}]) EXCEPT !.m.inodes = @ + 1]

\* The pointer block of an inode, allocated and zeroed if it has none.
ZeroNew(a) == IF a.ok THEN WriteBlock(a, a.out, ZeroBlock) ELSE a

Table(s, ind) == IF ind = 0 THEN ZeroNew(AllocBlock(s)) ELSE Return(s, ind)

\* Store a pointer; one past the table is lost with the unwritten buffer.
SetPointer(s, table, idx, b) ==
    WriteBlock(s, table,
        IF idx < PtrsPerBlock THEN [s.d.blk[table] EXCEPT !.ptrs[idx] = b]
        ELSE s.d.blk[table])

FreeRef(s, b) == IF b = 0 THEN s ELSE FreeBlock(s, b)

FreeAll(s, refs) ==
    LET freed[k \in 0 .. Len(refs)] ==
            IF k = 0 THEN s ELSE FreeRef(freed[k - 1], refs[k])
    IN  freed[Len(refs)]

FreeInodeBlocks(s, i, from) == FreeAll(s, BlockRefs(s.d, i, from))

NoBlocks(i) == NewInode(i.mode, i.links, i.size)

(***************************************************************************)
(* ext2_add_dir_entry: split the first entry seen with enough slack, else  *)
(* append a block.                                                         *)
(***************************************************************************)
Slack(e) == e.len - UnitsOf(e.name)

\* Entries of the block before offset o.
Before(ents, o) == {y \in DOMAIN ents : y < o}

\* Mutant: the new entry keeps the length of the one it was split from.
SplitEntsWhole(ents, o, keep, e) ==
    [y \in DOMAIN ents \cup {o + keep} |->
        CASE y = o + keep -> [e EXCEPT !.len = ents[o].len]
          [] y = o        -> [ents[o] EXCEPT !.len = keep]
          [] OTHER        -> ents[y]]

SplitEnts(ents, o, keep, e) ==
    [y \in DOMAIN ents \cup {o + keep} |->
        CASE y = o + keep -> [e EXCEPT !.len = ents[o].len - keep]
          [] y = o        -> [ents[o] EXCEPT !.len = keep]
          [] OTHER        -> ents[y]]

SplitEntry(s, b, o, e) ==
    WriteBlock(s, b, [s.d.blk[b] EXCEPT
        !.ents = SplitEnts(@, o, UnitsOf(@[o].name), e)])

\* Where entries d became c by a split whose new entry does not end in the
\* sector where the old one starts.
SplitAcross(d, c) ==
    {x \in (DOMAIN c) \ (DOMAIN d) : \E o \in DOMAIN d \cap DOMAIN c :
        /\ c[o] = [d[o] EXCEPT !.len = x - o]
        /\ o \div SectorUnits # (x + UnitsOf(c[x].name) - 1) \div SectorUnits}

\* What may lie where no entry starts: the remains of an entry merged away.
\* (Inside a long name the bytes are that name's; they too are taken as one.)
Remains(x) ==
    {DirEntry(n, ino, t, l) : n \in Names, ino \in 0 .. NInodes,
                              t \in {"file", "dir"}, l \in 1 .. BlockUnits - x}

\* The walk of a block c that has e at x, or zeros, which stop it.
WithRemains(c, x, e) ==
    [y \in {z \in DOMAIN c : z < x \/ z >= x + e.len} \cup {x} |->
        IF y = x THEN e ELSE c[y]]

WithZeros(c, x) == [y \in Before(c, x) |-> c[y]]

TornEnts(c, x) ==
    {WithZeros(c, x)} \cup {WithRemains(c, x, e) : e \in Remains(x)}

\* The images between d and c: the old entry is cut, the new one not there.
TornBlock(d, c, b) ==
    UNION {{[d EXCEPT !.blk[b].ents = t] : t \in TornEnts(c.blk[b].ents, x)} :
              x \in SplitAcross(d.blk[b].ents, c.blk[b].ents)}

Torn(d, c) == UNION {TornBlock(d, c, b) : b \in BlockNos}

\* Point the directory at its new block: a direct pointer or a table entry.
LinkDirect(s, p, i, b) ==
    WriteInode(s, p, [i EXCEPT !.block[i.blocks] = b, !.blocks = @ + 1])

LinkTable(t, p, i, b) ==
    IF ~t.ok THEN t
    ELSE WriteInode(SetPointer(t, t.out, i.blocks - NDirect, b),
                    p, [i EXCEPT !.ind = t.out, !.blocks = @ + 1])

LinkBlock(s, p, i, b) ==
    IF i.blocks < NDirect THEN LinkDirect(s, p, i, b)
    ELSE LinkTable(Table(s, i.ind), p, i, b)

FillBlock(a, p, i, e) ==
    IF ~a.ok THEN a
    ELSE LinkBlock(WriteBlock(a, a.out, [ZeroBlock EXCEPT !.ents =
                       [o \in {0} |-> [e EXCEPT !.len = BlockUnits]]]),
                   p, i, a.out)

\* Mutant: the start of the last block instead of its end.
EndOfShort(offsets) ==
    IF offsets = {} THEN 0 ELSE (Max(offsets) \div BlockUnits) * BlockUnits

\* The offset after the last entry met, rounded up to a block.
EndOf(offsets) ==
    IF offsets = {} THEN 0 ELSE (Max(offsets) \div BlockUnits + 1) * BlockUnits

AddSeeing(s, p, i, v, fits, e) ==
    CASE i.mode # "dir" -> Fail(s)
      [] i.mode = "dir" /\ fits # {} ->
            Return(SplitEntry(s, BlockLookup(s.d, i, Min(fits) \div BlockUnits),
                              Min(fits) % BlockUnits, e), 0)
      [] i.mode = "dir" /\ fits = {} /\ i.size > Mapped(s.d, i) * BlockUnits ->
            Fail(s)                  \* the walk meets a null pointer
      [] OTHER ->
            FillBlock(AllocBlock(s), p,
                      [i EXCEPT !.size = EndOf(DOMAIN v) + BlockUnits], e)

AddFitting(s, p, i, v, e) ==
    AddSeeing(s, p, i, v,
              {x \in DOMAIN v : Slack(v[x]) >= UnitsOf(e.name)}, e)

AddDirEntry(s, p, name, ino, type) ==
    AddFitting(s, p, s.d.inode[p], Seen(s.d, s.d.inode[p]),
               DirEntry(name, ino, type, 0))

(***************************************************************************)
(* ext2_remove_dir_entry: the first entry of that name, live or not, is    *)
(* merged into its predecessor in the block, or else tombstoned; the size  *)
(* shrinks when the entry was the last.                                    *)
(***************************************************************************)
Merged(ents, q, o) ==
    [y \in DOMAIN ents \ {o} |->
        IF y = q THEN [ents[q] EXCEPT !.len = @ + ents[o].len] ELSE ents[y]]

\* The last entry before it in the block is the predecessor.
DropEntry(ents, o) ==
    IF Before(ents, o) = {} THEN [ents EXCEPT ![o].inode = 0]
    ELSE Merged(ents, Max(Before(ents, o)), o)

UnlinkEntry(s, b, o) ==
    WriteBlock(s, b, [s.d.blk[b] EXCEPT !.ents = DropEntry(@, o)])

ShrinkDir(s, p, i, x, e) ==
    IF x + e.len >= i.size
    THEN WriteInode(s, p, [i EXCEPT !.size = (@ - e.len) % SizeMod])
    ELSE s

RemoveAtOffset(s, p, i, x, e) ==
    [Return(ShrinkDir(UnlinkEntry(s, BlockLookup(s.d, i, x \div BlockUnits),
                                  x % BlockUnits), p, i, x, e), 0)
        EXCEPT !.marks = @ \cup (IF e.inode = 0 THEN {"tombstone"} ELSE {})]

RemoveFrom(s, p, v, hits) ==
    RemoveAtOffset(s, p, s.d.inode[p], Min(hits), v[Min(hits)])

NamedIn(v, name) == {x \in DOMAIN v : v[x].name = name}

RemoveSeeing(s, p, v, name) ==
    IF LiveAt(v, name) = {} THEN Fail(s)
    ELSE RemoveFrom(s, p, v, NamedIn(v, name))

RemoveDirEntry(s, p, name) ==
    RemoveSeeing(s, p, Seen(s.d, s.d.inode[p]), name)
=============================================================================
