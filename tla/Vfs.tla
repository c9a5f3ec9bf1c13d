-------------------------------- MODULE Vfs --------------------------------
(***************************************************************************)
(* The VFS of kernel/fs/vfs.c as the shell's commands and the editors use  *)
(* it: path walks over a ring of recycled nodes (ext2_node_finddir), the   *)
(* descriptor table, removal of trees, and moves.                          *)
(*                                                                         *)
(* Below it is a tree of inodes, each directory the sequence of its        *)
(* records, "." and ".." left out.  readdir and every lookup go no further *)
(* than the directory's size, so they see the first records only.  What    *)
(* ext2_remove_dir_entry takes off the size when the last of these goes is *)
(* right once; what a directory lists after the next such removal, or      *)
(* after an addition to a directory that was shrunk, depends on where its  *)
(* records lie, which is in Ext2: here it is left open.  What a name among *)
(* the tombstones does to a removal, Ext2's mark "tombstone", is left out. *)
(* A path is the sequence of the names that canonicalize leaves of it, so  *)
(* it holds no "." and no "..".                                            *)
(*                                                                         *)
(* Only the shell task is here.  A command whose calls hand a node or a    *)
(* descriptor from one to the next takes a step for each call, the others  *)
(* are one step.  lost and moved are history variables.                    *)
(***************************************************************************)
EXTENDS Integers, Sequences, SequencesExt, FiniteSetsExt

CONSTANTS
    Names,      \* components of paths
    NInodes,    \* inodes of the file system
    NNodes,     \* the ring of ext2_node_finddir, 8
    MaxOpen,    \* VFS_MAX_OPEN
    MaxDepth    \* bound on the components of a path (canonicalize: 32)

ASSUME VfsAssumption ==
    /\ NInodes \in Nat \ {0} /\ NNodes \in Nat \ {0}
    /\ MaxOpen \in Nat \ {0} /\ MaxDepth \in Nat

VARIABLES
    tree,    \* the inodes
    nodes,   \* the ring, and behind it vfs_root
    next,    \* where the ring goes on
    file,    \* vfs_files: the node of each descriptor in use, or Nil
    cmd,     \* the command under way
    lost,    \* whether a directory was moved into itself, or removed with records
             \* that it did not list
    moved    \* the last step's source and target, if it was a move

vvars == <<tree, nodes, next, file, cmd, lost, moved>>

Inodes == 1 .. NInodes
Root   == 1
Fds    == 0 .. MaxOpen - 1
Nil    == -1
Paths  == UNION {[1 .. d -> Names] : d \in 0 .. MaxDepth}

\* An inode: its records, how many of them its size covers, and what the size is:
\* that of its blocks, that of its records after a removal, or neither.
Free  == [type |-> "free", ents |-> <<>>, seen |-> 0, size |-> "whole"]
Empty(type) == [Free EXCEPT !.type = type]
Idle  == [op |-> "none"]

(***************************************************************************)
(* Directories.  A lookup takes the first record of the name, if the size  *)
(* covers it.                                                              *)
(***************************************************************************)
Index(t, p, name) == SelectInSeq(t[p].ents, LAMBDA e : e.name = name)

Has(t, p, name) == t[p].type = "dir" /\ Index(t, p, name) \in 1 .. t[p].seen

Child(t, p, name) == t[p].ents[Index(t, p, name)].inode

With(d, ents, seen, size) == [d EXCEPT !.ents = ents, !.seen = seen, !.size = size]

\* ext2_add_dir_entry: a new record goes where a record has slack, or into a new
\* block: anywhere.
Linked(t, p, name, i, place) ==
    [t EXCEPT ![p] = With(@, InsertAt(@.ents, place, [name |-> name, inode |-> i]),
                          IF place <= @.seen + 1 THEN @.seen + 1 ELSE @.seen,
                          IF @.size = "whole" THEN "whole" ELSE "vague")]

Places(t, p) == 1 .. Len(t[p].ents) + 1

\* ext2_remove_dir_entry: the last record that the size covers shrinks it.
Unlinked(t, p, name) ==
    LET x == Index(t, p, name)
    IN  [t EXCEPT ![p] = With(@, RemoveAt(@.ents, x), @.seen - 1,
                              IF x < @.seen THEN @.size
                              ELSE IF @.size = "whole" THEN "cut" ELSE "vague")]

\* What may become of a call that makes u of t: how much the size of a directory
\* now covers, when that is vague, and whether the call is refused.
Vague(t, u) == {i \in Inodes : u[i].size = "vague" /\ u[i] # t[i]}

Refused(t, u) ==
    \E i \in Inodes :
        /\ t[i].size = "vague" /\ u[i] # t[i]
        /\ u[i].type = "free" \/ ~(ToSet(u[i].ents) \subseteq ToSet(t[i].ents))

Covers(t, u) ==
    {f \in [Vague(t, u) -> 0 .. NInodes] : \A i \in Vague(t, u) : f[i] <= Len(u[i].ents)}

Reseen(u, f) ==
    [i \in Inodes |-> IF i \in DOMAIN f THEN [u[i] EXCEPT !.seen = f[i]] ELSE u[i]]

Outcomes(t, u) ==
    {Reseen(u, f) : f \in Covers(t, u)} \cup (IF Refused(t, u) THEN {t} ELSE {})

\* Mutant: any directory is removed.
RemovableAll(t, p, name, type) ==
    Has(t, p, name) /\ t[Child(t, p, name)].type = type

\* ext2_remove_file and ext2_remove_dir: the entry has the type, and a
\* directory lists nothing, which a vague size may hide.
Removable(t, p, name, type) ==
    /\ Has(t, p, name)
    /\ t[Child(t, p, name)].type = type
    /\ t[Child(t, p, name)].ents = <<>> \/ t[Child(t, p, name)].size = "vague"

Removed(t, p, name, type) ==
    IF Removable(t, p, name, type)
    THEN [Unlinked(t, p, name) EXCEPT ![Child(t, p, name)] = Free]
    ELSE t

\* A directory goes with records that it did not list.
Drops(t, u) ==
    \E i \in Inodes : t[i].size = "vague" /\ t[i].ents # <<>> /\ u[i].type = "free"

FreeInodes(t) == {i \in Inodes : t[i].type = "free"}

Creatable(t, p) == t[p].type = "dir" /\ FreeInodes(t) # {}

\* ext2_create_file and ext2_create_dir, which do not look for the name.
Created(t, p, name, type, place) ==
    LET i == Min(FreeInodes(t))
    IN  Linked([t EXCEPT ![i] = Empty(type)], p, name, i, place)

(***************************************************************************)
(* Path walks.  A walk is the ring, its next place and the node reached.   *)
(***************************************************************************)
RootNode == NNodes
Start == [nodes |-> nodes, next |-> next, at |-> RootNode]

\* ext2_node_finddir hands out the next node of the ring.
Stored(w, node) ==
    [nodes |-> [w.nodes EXCEPT ![w.next] = node],
     next  |-> (w.next + 1) % NNodes, at |-> w.next]

\* vfs_lookup: only a directory has finddir.
Lookup(t, w, name) ==
    IF w.at = Nil \/ w.nodes[w.at].type # "dir" \/ ~Has(t, w.nodes[w.at].inode, name)
    THEN [w EXCEPT !.at = Nil]
    ELSE LET i == Child(t, w.nodes[w.at].inode, name)
         IN  Stored(w, [inode |-> i, type |-> t[i].type])

\* Mutant: the root takes a node of the ring too.
OpenNodeRootToo(t, w, path) ==
    LET walk[d \in 0 .. Len(path)] ==
            IF d = 0 THEN Stored(w, [inode |-> Root, type |-> "dir"])
            ELSE Lookup(t, walk[d - 1], path[d])
    IN  walk[Len(path)]

\* vfs_open_node
OpenNode(t, w, path) ==
    LET walk[d \in 0 .. Len(path)] ==
            IF d = 0 THEN [w EXCEPT !.at = RootNode] ELSE Lookup(t, walk[d - 1], path[d])
    IN  walk[Len(path)]

\* vfs_find_parent
FindParent(t, w, path) == OpenNode(t, w, Front(path))

Inode(w) == w.nodes[w.at].inode
Type(w)  == w.nodes[w.at].type

Walked(w) == nodes' = w.nodes /\ next' = w.next

\* What a path means, apart from how it is walked; 0 if nothing.
Resolve(t, path) ==
    LET at[d \in 0 .. Len(path)] ==
            IF d = 0 THEN Root
            ELSE LET i == at[d - 1]
                 IN  IF i # 0 /\ Has(t, i, path[d]) THEN Child(t, i, path[d]) ELSE 0
    IN  at[Len(path)]

(***************************************************************************)
(* Commands of one step.                                                   *)
(***************************************************************************)
\* cd and ls
Look(path) ==
    /\ cmd = Idle
    /\ Walked(OpenNode(tree, Start, path))
    /\ UNCHANGED <<tree, file, cmd, lost>>

\* touch and mkdir
Make(path, type) ==
    /\ cmd = Idle /\ path # <<>>
    /\ \E w \in {FindParent(tree, Start, path)} :
          /\ Walked(w)
          /\ IF w.at # Nil /\ Creatable(tree, Inode(w))
               THEN \E place \in Places(tree, Inode(w)) :
                       tree' \in Outcomes(tree, Created(tree, Inode(w), Last(path), type, place))
               ELSE UNCHANGED tree
    /\ UNCHANGED <<file, cmd, lost>>

\* vfs_unlink and vfs_rmdir: what the walk finds has the type asked for.
RemovePath(t, w, path, type) ==
    LET a == OpenNode(t, w, path)
        b == FindParent(t, a, path)
    IN  IF a.at = Nil \/ Type(a) # type \/ path = <<>> THEN [t |-> t, w |-> a]
        ELSE [t |-> Removed(t, Inode(b), Last(path), type), w |-> b]

Rmdir(path) ==
    /\ cmd = Idle
    /\ \E r \in {RemovePath(tree, Start, path, "dir")} :
          tree' \in Outcomes(tree, r.t) /\ Walked(r.w)
    /\ lost' = (lost \/ Drops(tree, tree'))
    /\ UNCHANGED <<file, cmd>>

\* rm looks at what is there before it calls vfs_unlink.
Rm(path) ==
    /\ cmd = Idle
    /\ \E w \in {OpenNode(tree, Start, path)} :
          IF w.at # Nil /\ Type(w) = "file"
          THEN \E r \in {RemovePath(tree, w, path, "file")} :
                  tree' \in Outcomes(tree, r.t) /\ Walked(r.w)
          ELSE Walked(w) /\ UNCHANGED tree
    /\ UNCHANGED <<file, cmd, lost>>

\* The path that mv gives its source: into a directory, under its own name.
Target(dst, old, new) ==
    IF dst.at # Nil /\ Type(dst) = "dir" /\ new # old THEN Append(new, Last(old)) ELSE new

\* Mutant: the source is moved over what is there.
RenamedOver(p, old, q, new) ==
    IF Has(tree, p, old) /\ tree[q].type = "dir"
    THEN \E place \in Places(tree, q) :
            tree' \in Outcomes(tree,
                        Unlinked(Linked(tree, q, new, Child(tree, p, old), place), p, old))
    ELSE UNCHANGED tree

\* ext2_rename from what the old parent's node holds by now.
Renamed(p, old, q, new) ==
    IF /\ p # q \/ old # new
       /\ Has(tree, p, old) /\ tree[q].type = "dir" /\ ~Has(tree, q, new)
    THEN \E place \in Places(tree, q) :
            tree' \in Outcomes(tree,
                        Unlinked(Linked(tree, q, new, Child(tree, p, old), place), p, old))
    ELSE UNCHANGED tree

\* The inodes below and at i.
Below(t, i) ==
    LET level[k \in 0 .. NInodes] ==
            IF k = 0 THEN {i}
            ELSE level[k - 1] \cup
                 {e.inode : e \in UNION {ToSet(t[j].ents) : j \in level[k - 1]}}
    IN  level[NInodes]

IntoItself(p, old, q) == Has(tree, p, old) /\ q \in Below(tree, Child(tree, p, old))

\* mv: the walks to the source, its parent, the target and its parent.
Mv(old, new) ==
    /\ cmd = Idle
    /\ \E a \in {FindParent(tree, OpenNode(tree, OpenNode(tree, Start, old), old), old)} :
       \E dst \in {OpenNode(tree, a, new)} :
       \E to \in {Target(dst, old, new)} :
       \E b \in {IF to = <<>> THEN dst ELSE FindParent(tree, dst, to)} :
          /\ Walked(b)
          /\ IF b.at = Nil \/ to = <<>> THEN UNCHANGED <<tree, lost>>
             ELSE \E p \in {b.nodes[a.at].inode} :
                     /\ Renamed(p, Last(old), Inode(b), Last(to))
                     /\ lost' = (lost \/ (tree' # tree /\ IntoItself(p, Last(old), Inode(b))))
    /\ moved' = <<old, new>>
    /\ UNCHANGED <<file, cmd>>

(***************************************************************************)
(* Commands that hold a descriptor: cat and the loading of an editor, the  *)
(* saving of an editor, and echo_write.                                    *)
(***************************************************************************)
Descriptor(op, path, fd, at) == [op |-> op, path |-> path, fd |-> fd, at |-> at]

\* The end of vfs_open: a free descriptor keeps the node that was found.
Opened(w, op, path, at) ==
    IF w.at = Nil \/ \A fd \in Fds : file[fd] # Nil
    THEN UNCHANGED <<file, cmd>>
    ELSE LET fd == Min({f \in Fds : file[f] = Nil})
         IN  /\ file' = [file EXCEPT ![fd] = w.at]
             /\ cmd' = Descriptor(op, path, fd, at)

Load(path) ==
    /\ cmd = Idle
    /\ \E w \in {OpenNode(tree, Start, path)} : Walked(w) /\ Opened(w, "load", path, "use")
    /\ UNCHANGED <<tree, lost>>

\* Create below the parent found, then walk again and open.
CreateAndOpen(p, op, path, at) ==
    IF p.at # Nil /\ Creatable(tree, Inode(p))
    THEN \E place \in Places(tree, Inode(p)) :
         \E t \in Outcomes(tree, Created(tree, Inode(p), Last(path), "file", place)) :
         \E w \in {OpenNode(t, p, path)} :
             tree' = t /\ Walked(w) /\ Opened(w, op, path, at)
    ELSE Walked(p) /\ UNCHANGED <<tree, file, cmd>>

Save(path) ==
    /\ cmd = Idle
    /\ \E w \in {OpenNode(tree, Start, path)} :
          IF w.at # Nil
          THEN Walked(w) /\ Opened(w, "save", path, "truncate") /\ UNCHANGED tree
          ELSE CreateAndOpen(FindParent(tree, w, path), "save", path, "truncate")
    /\ UNCHANGED lost

\* echo_write creates in any case.
EchoWrite(path) ==
    /\ cmd = Idle /\ path # <<>>
    /\ CreateAndOpen(FindParent(tree, Start, path), "echo", path, "use")
    /\ UNCHANGED lost

\* vfs_truncate of a save walks the path again; only a file is truncated.
Truncate ==
    /\ cmd # Idle /\ cmd.op = "save" /\ cmd.at = "truncate"
    /\ \E w \in {OpenNode(tree, Start, cmd.path)} :
          /\ Walked(w)
          /\ cmd' = [cmd EXCEPT !.at = IF w.at # Nil /\ Type(w) = "file"
                                      THEN "use" ELSE "close"]
    /\ UNCHANGED <<tree, file, lost>>

\* vfs_read and vfs_write of the node that the descriptor holds, until the end
\* or an error.  What they do to the contents is in Ext2.
Transfer ==
    /\ cmd # Idle /\ cmd.op \in {"load", "save", "echo"} /\ cmd.at = "use"
    /\ cmd' = [cmd EXCEPT !.at = "close"]
    /\ UNCHANGED <<tree, nodes, next, file, lost>>

Close ==
    /\ cmd # Idle /\ cmd.op \in {"load", "save", "echo"} /\ cmd.at = "close"
    /\ file' = [file EXCEPT ![cmd.fd] = Nil]
    /\ cmd' = Idle
    /\ UNCHANGED <<tree, nodes, next, lost>>

(***************************************************************************)
(* rm -r.  A frame of the stack is a call of vfs_rmtree: its path and the  *)
(* index of its loop.                                                      *)
(***************************************************************************)
Frame(path) == [path |-> path, index |-> 1]

\* The beginning of vfs_rmtree: [t, w] and the frames that come of it.
Enter(t, w, path) ==
    LET a == OpenNode(t, w, path)
        r == RemovePath(t, a, path, "file")
    IN  IF a.at = Nil \/ Type(a) # "dir" THEN [t |-> r.t, w |-> r.w, stack |-> <<>>]
        ELSE [t |-> t, w |-> OpenNode(t, a, path), stack |-> <<Frame(path)>>]

\* A directory that vfs_rmtree empties in its first turn, if at all.
Thin(t, i) ==
    \/ t[i].ents = <<>> /\ t[i].size # "vague"
    \/ Len(t[i].ents) = 1 /\ t[i].size = "whole"

\* The command, with what the properties compare: the inodes of the tree.
Removing(r, path) ==
    IF r.stack = <<>> THEN Idle
    ELSE [op |-> "rmtree", path |-> path, stack |-> r.stack, top |-> Resolve(tree, path),
          below |-> Below(tree, Resolve(tree, path)),
          thin |-> \A i \in Below(tree, Resolve(tree, path)) : Thin(tree, i)]

RmTree(path) ==
    /\ cmd = Idle
    /\ \E w \in {OpenNode(tree, Start, path)} :
          IF w.at = Nil THEN Walked(w) /\ UNCHANGED <<tree, cmd>>
          ELSE \E r \in {Enter(tree, w, path)} :
                  tree' \in Outcomes(tree, r.t) /\ Walked(r.w) /\ cmd' = Removing(r, path)
    /\ UNCHANGED <<file, lost>>

\* Mutant: a directory in the tree is left to vfs_unlink.
VisitUnlink(t, w, path, e) ==
    LET r == RemovePath(t, w, Append(path, e.name), "file")
    IN  [t |-> r.t, w |-> r.w, stack |-> <<>>]

\* A directory is entered, anything else goes to vfs_unlink.
Visit(t, w, path, e) ==
    LET r == RemovePath(t, w, Append(path, e.name), "file")
    IN  IF t[e.inode].type = "dir" THEN Enter(t, w, Append(path, e.name))
        ELSE [t |-> r.t, w |-> r.w, stack |-> <<>>]

\* One turn of the loop; its index goes on whatever became of the child.
RmTreeStep ==
    /\ cmd # Idle /\ cmd.op = "rmtree"
    /\ \E f \in {Head(cmd.stack)} :
       \E w \in {OpenNode(tree, Start, f.path)} :
          IF w.at # Nil /\ Type(w) = "dir" /\ f.index <= tree[Inode(w)].seen
          THEN \E r \in {Visit(tree, w, f.path, tree[Inode(w)].ents[f.index])} :
                  /\ tree' \in Outcomes(tree, r.t) /\ Walked(r.w)
                  /\ cmd' = [cmd EXCEPT !.stack =
                                r.stack \o <<[f EXCEPT !.index = @ + 1]>> \o Tail(@)]
          ELSE \E r \in {RemovePath(tree, w, f.path, "dir")} :
                  /\ tree' \in Outcomes(tree, r.t) /\ Walked(r.w)
                  /\ cmd' = (IF Tail(cmd.stack) = <<>> THEN Idle
                             ELSE [cmd EXCEPT !.stack = Tail(@)])
    /\ lost' = (lost \/ Drops(tree, tree'))
    /\ UNCHANGED file

VInit ==
    /\ tree = [i \in Inodes |-> IF i = Root THEN Empty("dir") ELSE Free]
    /\ nodes = [k \in 0 .. NNodes |-> [inode |-> IF k = RootNode THEN Root ELSE 0,
                                      type |-> IF k = RootNode THEN "dir" ELSE "free"]]
    /\ next = 0
    /\ file = [fd \in Fds |-> Nil]
    /\ cmd = Idle
    /\ lost = FALSE
    /\ moved = <<>>

Command(path) ==
    \/ Look(path) \/ Make(path, "file") \/ Make(path, "dir")
    \/ Rm(path) \/ Rmdir(path) \/ RmTree(path)
    \/ Load(path) \/ Save(path) \/ EchoWrite(path)

VNext ==
    \/ /\ \/ \E path \in Paths : Command(path)
          \/ Truncate \/ Transfer \/ Close
          \/ RmTreeStep
       /\ moved' = <<>>
    \/ \E old \in Paths : /\ old # <<>> /\ Resolve(tree, old) # 0
                          /\ \E new \in Paths : Mv(old, new)

VSpec == VInit /\ [][VNext]_vvars

(***************************************************************************)
(* Properties.                                                             *)
(***************************************************************************)
\* A descriptor holds the file its path names for as long as it is open,
\* unless the path has more components than the ring has nodes, and none is
\* open between commands.
FdKept ==
    \A fd \in Fds : file[fd] # Nil =>
        /\ cmd # Idle /\ cmd.fd = fd
        /\ Len(cmd.path) <= NNodes => nodes[file[fd]].inode = Resolve(tree, cmd.path)

\* The tree of what the directories list.
Listing(t) == [i \in Inodes |-> [t[i] EXCEPT !.ents = SubSeq(@, 1, t[i].seen)]]

\* Every inode in use has a record in a directory below the root, and a path, unless it
\* is in a directory whose size has become vague; nothing holds once a directory was
\* moved into itself, or removed because it did not list what is in it.
AllNamed ==
    ~lost => \A i \in Inodes : tree[i].type # "free" =>
        /\ i \in Below(tree, Root)
        /\ \/ i \in Below(Listing(tree), Root)
           \/ \E d \in Inodes : tree[d].size = "vague" /\ i \in Below(tree, d)

\* The walks of a move that come after the source's parent was found.
Short(old, new) == Len(old) = 1 \/ 2 * Len(new) < NNodes

\* No removal has ever shrunk the directory of the path.
Unshrunk(t, path) == Resolve(t, Front(path)) # 0 /\ t[Resolve(t, Front(path))].size = "whole"

\* A move takes its source to its target or changes nothing, and every other
\* path keeps its meaning, when the source's parent is the root or the target's
\* path has less than half as many components as the ring has nodes, and neither
\* of the two directories has been shrunk before.
MovesOnlyIt(old, new) ==
    LET to == IF Resolve(tree, new) # 0 /\ tree[Resolve(tree, new)].type = "dir" /\ new # old
              THEN Append(new, Last(old)) ELSE new
    IN  tree' # tree /\ Unshrunk(tree, old) /\ Unshrunk(tree, to) =>
            /\ Resolve(tree', to) = Resolve(tree, old)
            /\ \A path \in Paths : ~IsPrefix(old, path) /\ ~IsPrefix(to, path) =>
                   Resolve(tree', path) = Resolve(tree, path)

MoveExact ==
    [][moved' # <<>> /\ Short(moved'[1], moved'[2]) /\ ~lost' =>
          MovesOnlyIt(moved'[1], moved'[2])]_vvars

\* rm -r changes no inode outside its tree but the directory that names it, and
\* it removes the tree when no directory in it has more than one entry, or has one
\* after it was shrunk.
RmTreeExact ==
    [][cmd # Idle /\ cmd.op = "rmtree" =>
          /\ \A i \in Inodes \ cmd.below :
                tree'[i] = tree[i] \/ i = Resolve(tree, Front(cmd.path))
          /\ cmd' = Idle /\ cmd.thin /\ cmd.path # <<>> => tree'[cmd.top] = Free]_vvars
=============================================================================
