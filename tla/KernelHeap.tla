----------------------------- MODULE KernelHeap -----------------------------
(***************************************************************************)
(* Kernel virtual memory and the allocators on top of it (kernel/mm/vmm.c, *)
(* kernel/mm/heap.c), composed with the block allocator of PhysMem.        *)
(*                                                                         *)
(* vm_init gives every page directory entry a table, so "not present"      *)
(* only happens at the level of page table entries, vm_find_free is a      *)
(* first fit over them and its fallback returns 0.  A request is given in  *)
(* pages; the 16-byte header that stores the page count lies in the first  *)
(* page's FRAME, so two allocations that share a frame share a header.     *)
(***************************************************************************)
EXTENDS PhysMem

CONSTANTS
    NPages,     \* virtual pages 1 .. NPages are the ones heap requests can get
    Requests    \* page counts asked for

ASSUME HeapAssumption == NPages \in Nat /\ Requests \subseteq Sizes

VARIABLES
    present,    \* the virtual pages whose PTE has I86_PTE_PRESENT
    vframe,     \* the frame bits of each PTE
    hdr,        \* hdr[b]: the page count stored at the start of frame b
    allocs,     \* the <<first page, pages>> callers hold
    vm,         \* vmalloc in progress: [v, i, n], v = 0 when there is none
    nullmap     \* a page was mapped on frame 0 because no block was left

hvars == <<present, vframe, hdr, allocs, vm, nullmap>>

VPages == 1 .. NPages
NoVm   == [v |-> 0, i |-> 0, n |-> 0]

HeapIdle == vm = NoVm

----------------------------------------------------------------------------

\* The n pages from v are free.
Fits(n, v) ==
    /\ v \in VPages /\ v + n - 1 \in VPages
    /\ (v .. v + n - 1) \cap present = {}

\* vm_find_free(n) returns v; 0 when nothing fits.
FindFree(n, v) == Fits(n, v) /\ \A w \in VPages : Fits(n, w) => v <= w

NoFit(n) == \A v \in VPages : ~Fits(n, v)

\* vm_map_page for the n pages from v, on the n frames from f.
MapRun(v, n, f) ==
    /\ present' = present \cup (v .. v + n - 1)
    /\ vframe' = [p \in VPages |->
                    IF p \in v .. v + n - 1 THEN f + (p - v) ELSE vframe[p]]

\* kmalloc: consecutive frames.  A NULL from pm_alloc_blocks is not checked:
\* the pages are mapped on the frames from 0 up.
Kmalloc(n) ==
    /\ HeapIdle
    /\ \E v \in VPages :
         /\ FindFree(n, v)
         /\ \/ \E f \in Scannable :
                 /\ AllocBlocks(n, f)
                 /\ MapRun(v, n, f)
                 /\ hdr' = [hdr EXCEPT ![f] = n]
                 /\ UNCHANGED nullmap
            \/ /\ AllocBlocksFails(n)
               /\ MapRun(v, n, 0)
               /\ hdr' = [hdr EXCEPT ![0] = n]
               /\ nullmap' = TRUE
         /\ allocs' = allocs \cup {<<v, n>>}
    /\ UNCHANGED vm

\* kmalloc and vmalloc return NULL when vm_find_free finds no room.
NoRoom(n) == HeapIdle /\ NoFit(n) /\ UNCHANGED <<pvars, hvars>>

\* vmalloc, up to its loop.
VmallocCall(n) ==
    /\ HeapIdle
    /\ \E v \in VPages : FindFree(n, v) /\ vm' = [v |-> v, i |-> 0, n |-> n]
    /\ UNCHANGED <<pvars, present, vframe, hdr, allocs, nullmap>>

\* Page vm.i is mapped on frame f; the last one also gets the header written.
VmallocMap(f) ==
    /\ present' = present \cup {vm.v + vm.i}
    /\ vframe' = [vframe EXCEPT ![vm.v + vm.i] = f]
    /\ IF vm.i + 1 < vm.n
         THEN vm' = [vm EXCEPT !.i = @ + 1] /\ UNCHANGED <<hdr, allocs>>
         ELSE /\ hdr' = [hdr EXCEPT ![vframe'[vm.v]] = vm.n]
              /\ allocs' = allocs \cup {<<vm.v, vm.n>>}
              /\ vm' = NoVm

\* One iteration: a NULL from pm_alloc is not checked either.
VmallocPage ==
    /\ ~HeapIdle
    /\ \/ \E f \in Scannable : Alloc(f) /\ VmallocMap(f) /\ UNCHANGED nullmap
       \/ AllocFails /\ VmallocMap(0) /\ nullmap' = TRUE

\* The frame bits of an entry that is not present and the bytes of a free block
\* are not read before they are written again: they are not kept in the model.
Forget(P) ==
    /\ vframe' = [p \in VPages |-> IF p \in P THEN 0 ELSE vframe[p]]
    /\ hdr' = [b \in Blocks |-> IF b \in {vframe[p] : p \in P} THEN 0 ELSE hdr[b]]

\* kfree and vfree: as many pages as the header says, each one's frame (if not
\* frame 0) given back and its present bit flipped.
Kfree(v) ==
    LET P == {p \in VPages : v <= p /\ p < v + hdr[vframe[v]]}
    IN  /\ HeapIdle
        /\ \E n \in Requests :
             <<v, n>> \in allocs /\ allocs' = allocs \ {<<v, n>>}
        /\ Release({vframe[p] : p \in P} \ {0})
        /\ present' = (present \ P) \cup (P \ present)
        /\ Forget(P)
        /\ UNCHANGED <<vm, nullmap>>

HeapInit ==
    /\ present = {}
    /\ vframe = [p \in VPages |-> 0]
    /\ hdr = [b \in Blocks |-> 0]
    /\ allocs = {}
    /\ vm = NoVm
    /\ nullmap = FALSE

HeapNext ==
    \/ \E n \in Requests : Kmalloc(n) \/ NoRoom(n) \/ VmallocCall(n)
    \/ VmallocPage
    \/ \E v \in VPages : Kfree(v)
=============================================================================
