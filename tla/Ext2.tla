------------------------------- MODULE Ext2 -------------------------------
(***************************************************************************)
(* The operations of kernel/fs/ext2.c as the shell commands reach them     *)
(* through kernel/fs/vfs.c: create, remove, rename, truncate and write.    *)
(*                                                                         *)
(* Only the shell task uses the file system, so a call is one action; what *)
(* interrupts it is the end of power.  Apply either completes a call or    *)
(* stops it after any of its writes, or between the sectors of a block,    *)
(* and boots again, when ext2_init reads the free counts back from the     *)
(* disk.                                                                   *)
(*                                                                         *)
(* marks and boots are history variables.  marks names the steps after     *)
(* which the file system may be inconsistent: an unlink that matched a     *)
(* tombstone, mkdir below a file, which raises the file's link count       *)
(* before it fails, the move of a directory that removals have shrunk to   *)
(* size 0, whose ".." is left as it is, and a power loss inside a rename   *)
(* or a truncation, or between the two sectors of an entry that is split   *)
(* ("torn"), when the remains of a removed entry may be a name again.      *)
(***************************************************************************)
EXTENDS Ext2Disk

CONSTANTS
    WriteSizes,   \* sizes passed to vfs_write, in units
    TruncSizes,   \* sizes passed to vfs_truncate (the editors pass 0)
    MaxBoots,     \* bound on reboots and losses of power
    MaxLinks      \* bound: link counts grow without limit when mkdir fails

ASSUME Ext2Assumption ==
    /\ WriteSizes \subseteq Nat \ {0}
    /\ TruncSizes \subseteq Nat
    /\ MaxBoots \in Nat /\ MaxLinks \in Nat

VARIABLES
    disk,    \* bitmaps, saved counts, inodes and blocks
    fs,      \* ext2_fs.group_desc: the free counts in memory
    marks,   \* which dangerous steps have happened
    boots    \* how often the counts have been read back from the disk

evars == <<disk, fs, marks, boots>>

(***************************************************************************)
(* What a path can lead to: the inodes found from the root by name.        *)
(***************************************************************************)
Children(d, v) == {FindIn(v, n).inode : n \in Names} \ {0}

Step(d, R) ==
    R \cup UNION {Children(d, Seen(d, d.inode[p])) :
                     p \in {q \in R : d.inode[q].mode = "dir"}}

Reach(d) ==
    LET level[k \in 0 .. NInodes] ==
            IF k = 0 THEN {Root} ELSE Step(d, level[k - 1])
    IN  level[NInodes]

DirsAmong(d, R)  == {p \in R : d.inode[p].mode = "dir"}
FilesAmong(d, R) == {n \in R : d.inode[n].mode = "file"}

(***************************************************************************)
(* Creation.                                                               *)
(***************************************************************************)
KeepOrFree(e, ino) == IF e.ok THEN Return(e, ino) ELSE Fail(FreeInode(e, ino))

NameFile(a, p, name) ==
    IF ~a.ok THEN a
    ELSE KeepOrFree(AddDirEntry(WriteInode(a, a.out, NewInode("file", 1, 0)),
                                p, name, a.out, "file"), a.out)

CreateFile(s, p, name) == NameFile(AllocInode(s), p, name)

Relink(s, n, links) == WriteInode(s, n, [s.d.inode[n] EXCEPT !.links = links])

LinkUp(s, n)   == Relink(s, n, s.d.inode[n].links + 1)
LinkDown(s, n) == Relink(s, n, IF s.d.inode[n].links > 0
                               THEN s.d.inode[n].links - 1 ELSE 0)

KeepOrFreeDir(e, ino, b) ==
    IF e.ok THEN Return(e, ino) ELSE Fail(FreeBlock(FreeInode(e, ino), b))

DirInode(b) ==
    [NewInode("dir", 2, BlockUnits) EXCEPT !.blocks = 1, !.block[0] = b]

FormatDir(s, ino, b, p) ==
    WriteInode(WriteBlock(s, b, FirstDirBlock(ino, p)), ino, DirInode(b))

NameDir(a, ino, p, name) ==
    IF ~a.ok THEN Fail(FreeInode(a, ino))
    ELSE KeepOrFreeDir(AddDirEntry(LinkUp(FormatDir(a, ino, a.out, p), p),
                                   p, name, ino, "dir"), ino, a.out)

DirBlock(a, p, name) ==
    IF ~a.ok THEN a ELSE NameDir(AllocBlock(a), a.out, p, name)

CreateDir(s, p, name) == DirBlock(AllocInode(s), p, name)

(***************************************************************************)
(* Removal.                                                                *)
(***************************************************************************)
\* Free the blocks, save the inode and, without links, free it too.
Release(s, n, i) ==
    IF i.links = 0
    THEN FreeInode(WriteInode(FreeInodeBlocks(s, i, 0), n, NoBlocks(i)), n)
    ELSE WriteInode(FreeInodeBlocks(s, i, 0), n, NoBlocks(i))

LessLink(i) == [i EXCEPT !.links = IF @ > 0 THEN @ - 1 ELSE 0]

\* Mutant: the inode is freed before the name is removed.
RemoveFoundFileFreesFirst(s, p, name, e) ==
    IF e = NoEntry \/ e.type = "dir" THEN Fail(s)
    ELSE RemoveDirEntry(Release(s, e.inode, LessLink(s.d.inode[e.inode])), p, name)

RemoveFoundFile(s, p, name, e) ==
    IF e = NoEntry \/ e.type = "dir" THEN Fail(s)
    ELSE Release(RemoveDirEntry(s, p, name), e.inode,
                 LessLink(s.d.inode[e.inode]))

RemoveFile(s, p, name) ==
    RemoveFoundFile(s, p, name, DirLookup(s.d, p, name))

\* Only "." and ".." among the entries the emptiness scan can see.
EmptyDir(v) ==
    \A x \in DOMAIN v : v[x].inode = 0 \/ v[x].name \in {".", ".."}

RemoveFoundDir(s, p, name, e) ==
    IF \/ e.type # "dir"
       \/ s.d.inode[e.inode].mode # "dir"
       \/ ~EmptyDir(Seen(s.d, s.d.inode[e.inode]))
    THEN Fail(s)
    ELSE Release(LinkDown(RemoveDirEntry(s, p, name), p), e.inode,
                 [s.d.inode[e.inode] EXCEPT !.links = 0])

RemoveDir(s, p, name) ==
    RemoveFoundDir(s, p, name, DirLookup(s.d, p, name))

(***************************************************************************)
(* Rename: link the new name, unlink the old one, then move "..".          *)
(***************************************************************************)
SetDotDot(s, n, b, parent) ==
    IF s.d.inode[n].size < 1 \/ b = 0 THEN [s EXCEPT !.marks = @ \cup {"dotdot"}]
    ELSE WriteBlock(s, b, [s.d.blk[b] EXCEPT !.ents[1].inode = parent])

Reparent(s, n, p, q) ==
    SetDotDot(LinkUp(LinkDown(s, p), q), n, s.d.inode[n].block[0], q)

Moved(r, p, q, e) ==
    IF r.ok /\ e.type = "dir" /\ p # q THEN Reparent(r, e.inode, p, q) ELSE r

\* The old name goes only once the new one is in place.
UnlinkOld(a, p, name, q, e) ==
    IF a.ok THEN Moved(RemoveDirEntry(a, p, name), p, q, e) ELSE a

RenameFound(s, p, name, q, new, e) ==
    IF e = NoEntry \/ Found(s.d, q, new) THEN Fail(s)
    ELSE UnlinkOld(AddDirEntry(s, q, new, e.inode, e.type), p, name, q, e)

Rename(s, p, name, q, new) ==
    IF p = q /\ name = new THEN s
    ELSE RenameFound(s, p, name, q, new, DirLookup(s.d, p, name))

(***************************************************************************)
(* Truncation and writing.                                                 *)
(***************************************************************************)
BlocksFor(size) == (size + BlockUnits - 1) \div BlockUnits

\* Direct pointers below keep, as the block count of a truncated inode.
Counted(i, keep) ==
    Cardinality({l \in DOMAIN i.block : l < keep /\ i.block[l] # 0})

\* Mutant: the table is freed and the inode still points at it.
KeepDirectAndTable(s, n, i, size, keep) ==
    WriteInode(FreeInodeBlocks(s, i, keep), n,
        [i EXCEPT !.size = size, !.blocks = Counted(i, keep),
                  !.block = [l \in DOMAIN @ |-> IF l < keep THEN @[l] ELSE 0]])

KeepDirect(s, n, i, size, keep) ==
    WriteInode(FreeInodeBlocks(s, i, keep), n,
        [i EXCEPT !.size = size, !.blocks = Counted(i, keep), !.ind = 0,
                  !.block = [l \in DOMAIN @ |-> IF l < keep THEN @[l] ELSE 0]])

KeepTable(s, n, i, size, keep) ==
    WriteInode(
        WriteBlock(FreeAll(s, TableRefs(s.d.blk[i.ind].ptrs, keep - NDirect)),
            i.ind, [s.d.blk[i.ind] EXCEPT !.ptrs = [l \in DOMAIN @ |->
                       IF l < keep - NDirect THEN @[l] ELSE 0]]),
        n, [i EXCEPT !.size = size, !.blocks = Counted(i, keep) + 1])

TruncateInode(s, n, i, size) ==
    CASE size >= i.size -> WriteInode(s, n, [i EXCEPT !.size = size])
      [] size < i.size /\ BlocksFor(size) <= NDirect ->
            KeepDirect(s, n, i, size, BlocksFor(size))
      [] size < i.size /\ BlocksFor(size) \in NDirect + 1 .. MaxLen /\ i.ind # 0 ->
            KeepTable(s, n, i, size, BlocksFor(size))
      [] OTHER -> Fail(s)

TruncateFile(s, n, size) == TruncateInode(s, n, s.d.inode[n], size)

(***************************************************************************)
(* Writing works on an inode in memory: a *draft* of the session s, the    *)
(* inode i, the units done and whether the loop has stopped.               *)
(***************************************************************************)
Draft(s, i, done, stop) == [s |-> s, i |-> i, done |-> done, stop |-> stop]

HoldDirect(w, a, l) ==
    IF ~a.ok THEN [w EXCEPT !.s = a]
    ELSE [w EXCEPT !.s = a, !.i.block[l] = a.out, !.i.blocks = @ + 1]

HoldIndirect(w, a, l) ==
    IF ~a.ok THEN [w EXCEPT !.s = a]
    ELSE [w EXCEPT !.s = SetPointer(a, w.i.ind, l - NDirect, a.out),
                   !.i.blocks = @ + 1]

WithTable(w, t) ==
    IF t.ok THEN [w EXCEPT !.s = t, !.i.ind = t.out] ELSE [w EXCEPT !.s = t]

ThenIndirect(w, l) ==
    IF w.s.ok THEN HoldIndirect(w, AllocBlock(w.s), l) ELSE w

FileAllocBlock(w, l) ==
    CASE l < NDirect -> HoldDirect(w, AllocBlock(w.s), l)
      [] l \in NDirect .. MaxLen - 1 ->
            ThenIndirect(WithTable(w, Table(w.s, w.i.ind)), l)
      [] OTHER -> [w EXCEPT !.s = Fail(@)]

\* Write one chunk to the block found or allocated, unless there is none.
StoreChunk(w, at, len, end) ==
    IF w.s.out = 0 THEN [w EXCEPT !.stop = TRUE]
    ELSE [w EXCEPT !.s = WriteBlock(@, @.out, ZeroBlock), !.done = @ + len,
                   !.i.size = IF at >= @ THEN end ELSE @]

LocateChunk(w, l, at, phys) ==
    IF phys = 0 /\ at >= w.i.size THEN FileAllocBlock(w, l)
    ELSE [w EXCEPT !.s = Return(@, phys)]

\* One turn of the loop of ext2_write_data: units at .. to - 1 of end.
WriteChunk(w, l, at, to, end) ==
    IF w.stop THEN w
    ELSE StoreChunk(LocateChunk(w, l, at, BlockLookup(w.s.d, w.i, l)),
                    at, to - at, end)

\* The chunk in logical block l of a write of the units off .. end - 1.
ChunkIn(w, l, off, end) ==
    WriteChunk(w, l, Max({off, l * BlockUnits}), Min({end, (l + 1) * BlockUnits}), end)

WriteData(s, i, off, end) ==
    LET first == off \div BlockUnits
        turns == BlocksFor(end) - first
        draft[k \in 0 .. turns] ==
            IF k = 0 THEN Draft(s, i, 0, FALSE)
            ELSE ChunkIn(draft[k - 1], first + k - 1, off, end)
    IN  draft[turns]

\* ext2_node_write saves the inode only when the file grew.
SaveGrown(w, n, off, orig) ==
    IF w.done > 0 /\ off + w.done > orig
    THEN Return(WriteInode(w.s, n, [w.i EXCEPT !.size = off + w.done]), w.done)
    ELSE Return(w.s, w.done)

NodeWrite(s, n, off, size) ==
    SaveGrown(WriteData(s, s.d.inode[n], off, off + size), n, off,
              s.d.inode[n].size)

(***************************************************************************)
(* The actions: a call completes, or power fails after one of its writes.  *)
(***************************************************************************)
Now == Session(disk, fs)

Completes(s, done) ==
    /\ disk' = s.d
    /\ fs' = s.m
    /\ marks' = marks \cup done \cup s.marks
    /\ UNCHANGED boots

\* ext2_init on what the log left: the counts come from the group descriptor.
Boot(d) ==
    /\ boots < MaxBoots /\ boots' = boots + 1
    /\ disk' = d /\ fs' = d.count

\* (The quantifier over a singleton makes TLC compute the call once.)
Apply(call, done, window) ==
    \E s \in {call} :
        \/ Completes(s, done)
        \/ \E k \in 1 .. Len(s.log) - 1 :
              /\ Boot(s.log[k])
              /\ marks' = marks \cup done \cup window \cup s.marks
        \/ /\ boots < MaxBoots
           /\ \E k \in 1 .. Len(s.log) :
                 \E d \in Torn(IF k = 1 THEN disk ELSE s.log[k - 1], s.log[k]) :
                    /\ Boot(d)
                    /\ marks' = marks \cup done \cup window \cup s.marks \cup {"torn"}

Touch(p, n)  == Apply(CreateFile(Now, p, n), {}, {})
Unlink(p, n) == Found(disk, p, n) /\ Apply(RemoveFile(Now, p, n), {}, {})
Rmdir(p, n)  == Found(disk, p, n) /\ Apply(RemoveDir(Now, p, n), {}, {})

\* vfs_parent does not look whether what it found is a directory.
Mkdir(p, n) ==
    /\ disk.inode[p].links < MaxLinks
    /\ Apply(CreateDir(Now, p, n),
             IF disk.inode[p].mode = "file" THEN {"below_file"} ELSE {}, {})

Mv(p, n, q, m) ==
    /\ Found(disk, p, n)
    /\ disk.inode[q].links < MaxLinks
    /\ Apply(Rename(Now, p, n, q, m), {}, {"rename"})

Truncate(n, size) == Apply(TruncateFile(Now, n, size), {}, {"truncate"})

\* The descriptor's position is 0 or the end of what was written before.
Write(n, size) ==
    \E off \in {0, disk.inode[n].size} : Apply(NodeWrite(Now, n, off, size), {}, {})

Reboot == Boot(disk) /\ UNCHANGED marks

\* mkfs.ext2: an empty root directory and everything else free.
EInit ==
    LET free == [blocks |-> NBlocks - 1, inodes |-> NInodes - 1]
    IN  /\ disk = [bbm |-> {1}, ibm |-> {Root}, count |-> free,
                   inode |-> [n \in InodeNos |->
                       IF n = Root THEN DirInode(1) ELSE NewInode("none", 0, 0)],
                   blk |-> [b \in BlockNos |->
                       IF b = 1 THEN FirstDirBlock(Root, Root) ELSE ZeroBlock]]
        /\ fs = free
        /\ marks = {}
        /\ boots = 0

ENext ==
    \/ \E p \in Reach(disk), n \in Names : Touch(p, n) \/ Mkdir(p, n)
    \/ \E D \in {DirsAmong(disk, Reach(disk))} : \E p \in D, n \in Names :
          \/ Unlink(p, n)
          \/ Rmdir(p, n)
          \/ \E q \in D, m \in Names : Mv(p, n, q, m)
    \/ \E n \in FilesAmong(disk, Reach(disk)) :
          \/ \E size \in TruncSizes : Truncate(n, size)
          \/ \E size \in WriteSizes : Write(n, size)
    \/ Reboot

ESpec == EInit /\ [][ENext]_evars

(***************************************************************************)
(* Properties.                                                             *)
(***************************************************************************)
Intact == marks = {}

\* The disk and the counts in memory have the shape of ext2.h's structures.
ETypeOK ==
    /\ disk.bbm \subseteq BlockNos /\ disk.ibm \subseteq InodeNos
    /\ disk.inode \in [InodeNos ->
           [mode : {"none", "file", "dir"}, links : 0 .. MaxLinks,
            size : 0 .. SizeMod - 1, blocks : 0 .. NBlocks, ind : 0 .. NBlocks,
            block : [0 .. NDirect - 1 -> 0 .. NBlocks]]]
    /\ \A b \in BlockNos : \A o \in DOMAIN disk.blk[b].ents :
           disk.blk[b].ents[o].len \in 1 .. BlockUnits - o
    /\ fs \in [blocks : 0 .. NBlocks, inodes : 0 .. NInodes]
    /\ disk.count \in [blocks : 0 .. NBlocks, inodes : 0 .. NInodes]

(***************************************************************************)
(* Every block of a file or directory that a path can reach is marked used *)
(* and belongs to that inode alone, once, so ext2_alloc_block never hands  *)
(* out a block that is still in use: whatever is created, removed, moved   *)
(* and written and after whichever write power fails, outside the windows  *)
(* named by marks.                                                         *)
(***************************************************************************)
OwnedIn(R, refs) ==
    \A n \in R, k \in 1 .. MaxLen + 1 : refs[n][k] # 0 =>
        /\ refs[n][k] \in disk.bbm
        /\ \A m \in R, j \in 1 .. MaxLen + 1 :
              refs[m][j] = refs[n][k] => m = n /\ j = k

RefsOf(R) == [n \in R |-> BlockRefs(disk, disk.inode[n], 0)]

BlocksOwned == Intact => OwnedIn(Reach(disk), RefsOf(Reach(disk)))

\* The live entries a directory's readers see, "." and ".." excepted.
Listed(v) ==
    {x \in DOMAIN v : v[x].inode # 0 /\ v[x].name \notin {".", ".."}}

ViewsOf(D) == [p \in D |-> Seen(disk, disk.inode[p])]

(***************************************************************************)
(* Every listed name leads to an inode that is marked used and has the     *)
(* type the entry says, no inode has two names, a file's link count is its *)
(* one name, a directory's covers its subdirectories, and ".." of a listed *)
(* directory is the directory that lists it.  The order of the writes in   *)
(* ext2_create_* and ext2_remove_* keeps this across a loss of power after *)
(* any of them; a loss inside a rename or between the two sectors of a     *)
(* split is left aside (marks).                                            *)
(***************************************************************************)
EntrySound(p, e, i) ==
    /\ e.inode \in disk.ibm
    /\ i.mode = e.type
    /\ i.mode = "file" => i.links = 1
    /\ i.mode = "dir"  => disk.blk[i.block[0]].ents[1].inode = p

SoundIn(D, v) ==
    \A p \in D :
        /\ \A x \in Listed(v[p]) :
              /\ EntrySound(p, v[p][x], disk.inode[v[p][x].inode])
              /\ \A q \in D : \A y \in Listed(v[q]) :
                    v[p][x].inode = v[q][y].inode => p = q /\ x = y
        /\ disk.inode[p].links >=
              2 + Cardinality({x \in Listed(v[p]) : v[p][x].type = "dir"})

NamesSound ==
    Intact => LET D == DirsAmong(disk, Reach(disk)) IN SoundIn(D, ViewsOf(D))

(***************************************************************************)
(* Until the first reboot the free counts that decide whether a group is   *)
(* searched equal the clear bits of the bitmaps, through every failure     *)
(* path of every call.                                                     *)
(***************************************************************************)
CountsExact ==
    Intact /\ boots = 0 =>
        /\ fs.blocks = Cardinality(BlockNos \ disk.bbm)
        /\ fs.inodes = Cardinality(InodeNos \ disk.ibm)

Lookups(d, p) ==
    [n \in Names |-> DirLookup(d, p, n).inode]

\* The directory has not been shrunk: its size covers its blocks.
Covered(p) == disk.inode[p].size = disk.inode[p].blocks * BlockUnits

(***************************************************************************)
(* A directory that is not shrunk is a map: a successful creation binds    *)
(* its name, to the new inode if the name was not there (touch does not    *)
(* look, so a name that was may keep its inode or be shadowed), and it and *)
(* a successful removal leave every other name as it was.  Left aside: a   *)
(* creation in a directory whose table of pointers is full, which succeeds *)
(* and loses the name with the block it cannot point to.                   *)
(***************************************************************************)
BindsOnly(c, p, n, l) ==
    c.ok => \E v \in {l[n], c.out} \ {0} :
                /\ Lookups(c.d, p) = [l EXCEPT ![n] = v]
                /\ l[n] = 0 => v = c.out

LeavesOthers(r, p, n, l) ==
    r.ok /\ r.marks = {} => \A m \in Names \ {n} : Lookups(r.d, p)[m] = l[m]

DirIsMap ==
    Intact =>
        \A p \in DirsAmong(disk, Reach(disk)), n \in Names :
            Covered(p) =>
                /\ disk.inode[p].blocks < MaxLen =>
                      BindsOnly(CreateFile(Now, p, n), p, n, Lookups(disk, p))
                /\ LeavesOthers(RemoveFile(Now, p, n), p, n, Lookups(disk, p))

(***************************************************************************)
(* Removing a file leaves every other name of its directory as it was      *)
(* (ext2.c:893: "The space is reclaimed by extending the rec_len of the    *)
(* previous entry").  Violated: the size shrinks by more than it grew.     *)
(***************************************************************************)
OthersStay ==
    Intact =>
        \A p \in DirsAmong(disk, Reach(disk)), n \in Names :
            LeavesOthers(RemoveFile(Now, p, n), p, n, Lookups(disk, p))

(***************************************************************************)
(* A write at the end of a file is complete when the blocks it needs are   *)
(* free and within reach of the pointers (ext2.c:236: "Allocate a data     *)
(* block for a file at a given logical index, growing the file").          *)
(* Violated: the size is raised before the second block is looked up.      *)
(***************************************************************************)
AppendComplete ==
    Intact =>
        \A n \in FilesAmong(disk, Reach(disk)), size \in WriteSizes :
            LET i == disk.inode[n]
            IN  /\ BlocksFor(i.size + size) <= MaxLen
                /\ fs.blocks > BlocksFor(size) + 1
                => NodeWrite(Now, n, i.size, size).out = size
=============================================================================
