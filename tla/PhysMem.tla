------------------------------ MODULE PhysMem ------------------------------
(***************************************************************************)
(* The physical block allocator (kernel/mm/pmm.c and the bitmap inlines of *)
(* include/memory.h): one bit per 4 KiB block, scanned a word at a time.   *)
(*                                                                         *)
(* Every caller is kernel code run by the shell task; interrupt handlers   *)
(* and system calls never allocate, so each call is one action.  The       *)
(* clients are left arbitrary here: anyone may ask for any size in Sizes   *)
(* and anyone may return a block it holds.                                 *)
(*                                                                         *)
(* held, failed and straddled are history variables: who holds what, what  *)
(* was refused, and whether an allocation ever ran across a full word.     *)
(***************************************************************************)
EXTENDS Integers, FiniteSets

CONSTANTS
    WordBits,   \* blocks per word of _pm_map (32 in the code)
    NWords,     \* _pm_blocks / 32: the words the scans look at
    NBlocks,    \* _pm_blocks
    RsvWords,   \* words reserved by pm_init (32 in the code: 4 MiB)
    Sizes       \* the sizes clients ask for

ASSUME PhysMemAssumption ==
    /\ WordBits \in Nat \ {0} /\ NWords \in Nat /\ NBlocks \in Nat
    /\ RsvWords \in 1 .. NWords
    /\ NWords * WordBits <= NBlocks
    /\ Sizes \subseteq Nat \ {0}

VARIABLES
    pmap,       \* _pm_map: the set of blocks whose bit is set
    used,       \* _pm_used
    held,       \* held[b]: how many clients hold block b
    failed,     \* the size of the last request if it was refused, else 0
    straddled   \* some multi-block run was taken across a full word

pvars == <<pmap, used, held, failed, straddled>>

Blocks     == 0 .. NBlocks - 1
Limit      == NWords * WordBits
Scannable  == 0 .. Limit - 1
Rsv        == 0 .. RsvWords * WordBits - 1
Word(b)    == b \div WordBits

\* _pm_map[i] == 0xFFFFFFFF for the word that holds block b.
FullWord(b) == \A c \in Scannable : Word(c) = Word(b) => c \in pmap

\* The blocks the scans test: those of the words that are not full.
Scanned == {b \in Scannable : ~FullWord(b)}

\* pm_free_count(), an unsigned difference: "pm_free_count() < n".
FreeCountBelow(n) == NBlocks - used \in 0 .. n - 1

----------------------------------------------------------------------------
(* mmap_get_first_free and mmap_get_free_consecutives *)

FirstFree(f) ==
    /\ f \in Scannable \ pmap
    /\ \A g \in Scannable \ pmap : f <= g

\* The last n blocks up to l of those tested, S, are all free and start at f.
FreeRun(S, n, f, l) ==
    LET seg == {b \in S : f <= b /\ b <= l}
    IN  f \in S /\ l \in S /\ seg \cap pmap = {} /\ Cardinality(seg) = n

\* Mutant: the used block that ends a run is not noticed.
ConsecutivesSloppy(n, f, l) ==
    f \in Scannable \ pmap /\ l = f + n - 1 /\ l \in Scannable

\* The scan stops at the first block l that completes a run.  Full words are
\* skipped without resetting the count.
Consecutives(n, f, l) ==
    LET S == Scanned
    IN  /\ FreeRun(S, n, f, l)
        /\ \A m \in S : m < l => \A g \in S : ~FreeRun(S, n, g, m)

\* Mutant: a run that crosses a word boundary is not seen.
NoneWithinWord(n) ==
    LET S == Scanned
    IN  \A f, l \in S : ~(FreeRun(S, n, f, l) /\ Word(f) = Word(l))

NoConsecutives(n) ==
    LET S == Scanned IN \A f, l \in S : ~FreeRun(S, n, f, l)

\* The same scan as the loop is written, block by block: scan[b] is the state
\* (c, first_block, result) after block b - 1.
Loop(n) ==
    LET scan[b \in 0 .. Limit] ==
          IF b = 0
            THEN [c |-> 0, first |-> 0, found |-> -1]
            ELSE LET s == scan[b - 1]
                 IN  IF s.found # -1 \/ FullWord(b - 1)
                       THEN s
                       ELSE IF b - 1 \in pmap
                         THEN [s EXCEPT !.c = 0, !.first = 0]
                         ELSE LET f == IF s.first = 0 THEN b - 1 ELSE s.first
                              IN  [c |-> s.c + 1, first |-> f,
                                   found |-> IF s.c + 1 = n THEN f ELSE -1]
    IN  scan[Limit].found

----------------------------------------------------------------------------
(* Operations *)

\* A refused request changes nothing.
Refuse(n) == failed' = n /\ UNCHANGED <<pmap, used, held, straddled>>

\* mmap_set on the blocks of S, and the count.
Grant(S, n) ==
    /\ pmap' = pmap \cup S
    /\ used' = used + n
    /\ held' = [b \in Blocks |-> IF b \in S THEN held[b] + 1 ELSE held[b]]
    /\ failed' = 0

\* pm_alloc.
Alloc(f) ==
    /\ ~FreeCountBelow(1)
    /\ FirstFree(f)
    /\ Grant({f}, 1)
    /\ UNCHANGED straddled

AllocFails ==
    /\ FreeCountBelow(1) \/ Scannable \subseteq pmap
    /\ Refuse(1)

\* Mutant: _pm_used grows by one whatever the size.
AllocBlocksCountsOne(n, f) ==
    /\ ~FreeCountBelow(n)
    /\ \E l \in Scanned :
         /\ Consecutives(n, f, l)
         /\ straddled' = (straddled \/ \E b \in f .. l : b \notin Scanned)
    /\ Grant(f .. f + n - 1, 1)

\* pm_alloc_blocks(n) returns the run that starts at f.
AllocBlocks(n, f) ==
    /\ ~FreeCountBelow(n)
    /\ \E l \in Scanned :
         /\ Consecutives(n, f, l)
         /\ straddled' = (straddled \/ \E b \in f .. l : b \notin Scanned)
    /\ Grant(f .. f + n - 1, n)

AllocBlocksFails(n) ==
    /\ FreeCountBelow(n) \/ NoConsecutives(n)
    /\ Refuse(n)

\* pm_free on every block of S: no check that a block is in use.
Release(S) ==
    /\ pmap' = pmap \ S
    /\ used' = used - Cardinality(S)
    /\ held' = [b \in Blocks |->
                  IF b \in S /\ held[b] > 0 THEN held[b] - 1 ELSE held[b]]
    /\ failed' = 0
    /\ UNCHANGED straddled

\* pm_free, called by a client that holds b.
Free(b) == held[b] > 0 /\ Release({b})

----------------------------------------------------------------------------

\* pm_init.
PMInit ==
    /\ pmap = Rsv
    /\ used = RsvWords * WordBits
    /\ held = [b \in Blocks |-> 0]
    /\ failed = 0
    /\ straddled = FALSE

PMNext ==
    \/ \E f \in Scannable : Alloc(f)
    \/ AllocFails
    \/ \E n \in Sizes : \/ \E f \in Scannable : AllocBlocks(n, f)
                        \/ AllocBlocksFails(n)
    \/ \E b \in Blocks : Free(b)

PMSpec == PMInit /\ [][PMNext]_pvars

----------------------------------------------------------------------------
(* Properties *)

\* Every variable is in its domain: bits are only set for blocks the machine has.
PMTypeOK ==
    /\ pmap \subseteq Blocks
    /\ used \in Int
    /\ held \in [Blocks -> Nat]
    /\ failed \in Sizes \cup {0, 1}
    /\ straddled \in BOOLEAN

\* The first 4 MiB, which hold the kernel, are never handed out nor released,
\* even after a run was taken across a full word.
KernelReserved ==
    Rsv \subseteq pmap /\ \A b \in Rsv : held[b] = 0

\* Unless a run was taken across a full word: no block has two holders, the
\* bitmap marks exactly the reserved and the held blocks, and _pm_used counts
\* the marked bits, so pm_free_count is right.
Exact ==
    ~straddled =>
        /\ \A b \in Blocks : held[b] <= 1
        /\ pmap = Rsv \cup {b \in Blocks : held[b] = 1}
        /\ used = Cardinality(pmap)

\* An allocation fails only when the words the scan covers hold no run of that
\* many consecutive free blocks (unless the count was already corrupted).
FailsOnlyWhenFull ==
    ~straddled /\ failed > 0 =>
        \A f \in Scannable :
            f + failed - 1 \in Scannable =>
                (f .. f + failed - 1) \cap pmap # {}

\* The closed form of the scan agrees with the loop of the code on every
\* reachable bitmap.
ScanIsLoop ==
    \A n \in Sizes :
        IF Loop(n) = -1
          THEN NoConsecutives(n)
          ELSE \E l \in Scanned : Consecutives(n, Loop(n), l)

\* What its name says of mmap_get_free_consecutives: a block handed out has no
\* other holder.
NoSharedBlock == \A b \in Blocks : held[b] <= 1
=============================================================================
