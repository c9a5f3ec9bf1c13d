------------------------------ MODULE MCExt2 ------------------------------
(***************************************************************************)
(* A small disk: blocks of three units, so the second name of the root     *)
(* already needs another block, one direct pointer and a table of two.  A  *)
(* state with a mark is not explored further.                              *)
(***************************************************************************)
EXTENDS Ext2, TLC

MCUnits  == [n \in Names |-> 1]
MCNames  == Permutations(Names)
Unmarked == Intact

\* What later steps can depend on: inodes and blocks no path reaches are
\* written before they are read again.
Relevant ==
    LET R == Reach(disk)
        B == UNION {ToSet(BlockRefs(disk, disk.inode[n], 0)) : n \in R} \ {0}
    IN  <<[n \in R |-> disk.inode[n]], [b \in B |-> disk.blk[b]],
          disk.bbm, disk.ibm, disk.count, fs, marks, boots>>
=============================================================================
