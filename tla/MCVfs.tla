------------------------------- MODULE MCVfs -------------------------------
(***************************************************************************)
(* Model-checking instance of Vfs: a ring of two nodes, and paths of up    *)
(* to three components, so that a walk can go round it.                    *)
(***************************************************************************)
EXTENDS Vfs, TLC

MCNames == Permutations(Names)

\* What later steps can depend on.  A walk writes a node of the ring before it
\* reads it, and all places of the ring are alike: what counts is the node that
\* a descriptor holds, and how far it is from the next one to be written.
HeldBy(fd) ==
    IF file[fd] = Nil THEN <<>>
    ELSE <<nodes[file[fd]],
           IF file[fd] = RootNode THEN NNodes ELSE (file[fd] - next) % NNodes>>

Relevant == <<tree, cmd, lost, [fd \in Fds |-> HeldBy(fd)]>>

\* Nothing is promised of a tree that lost a part of itself.  Of its directories,
\* one at a time has a vague size: two make the run twice as long.
Explored ==
    /\ ~lost
    /\ Cardinality({i \in Inodes : tree[i].size = "vague"}) <= 1
=============================================================================
