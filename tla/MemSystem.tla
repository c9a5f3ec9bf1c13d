----------------------------- MODULE MemSystem -----------------------------
(***************************************************************************)
(* Everything that takes physical memory, composed: the kernel heap and    *)
(* the stacks and code page of user tasks share one block allocator, while *)
(* the scheduler runs and ends tasks.  The shell is one thread: it is      *)
(* inside at most one of vmalloc and utask_spawn.                          *)
(***************************************************************************)
EXTENDS KernelHeap, UserTask

mvars == <<pvars, hvars, uvars, tvars>>

MSInit == PMInit /\ HeapInit /\ UserInit /\ TSInit

MSNext ==
    \/ running = Shell /\ SpawnIdle /\ HeapNext /\ UNCHANGED <<uvars, tvars>>
    \/ HeapIdle /\ UserNext /\ UNCHANGED hvars
    \/ TaskStep /\ UNCHANGED hvars
    \/ running = None /\ UNCHANGED mvars

MSSpec == MSInit /\ [][MSNext]_mvars

----------------------------------------------------------------------------
(* Properties.  Corrupted states, where a run was taken across a full word *)
(* or a NULL from the block allocator was mapped, promise nothing.         *)

Sane == ~straddled /\ ~nullmap

\* The frames in use, each tagged with what uses it.
Claims ==
    {<<"heap", p, vframe[p]>> : p \in present}
    \cup {<<"stack", i, ustack[i]>> : i \in {j \in USlots : ustack[j] # 0}}
    \cup (IF ucode # 0 THEN {<<"code", 0, ucode>>} ELSE {})
    \cup (IF upc \in {"unmap", "map"} THEN {<<"phys", 0, uphys>>} ELSE {})

\* No leak and no sharing: at every step, through every failure path of
\* utask_spawn and any order of kmalloc, vmalloc and kfree, the blocks taken
\* from the allocator are exactly the frames in use, one user each; the page
\* count that kfree and ksize read back is the one that was asked for, and the
\* pages of live allocations are present and do not overlap.
FramesAccounted ==
    Sane =>
        /\ {b \in Blocks : held[b] = 1} = {c[3] : c \in Claims}
        /\ \A c, d \in Claims : c[3] = d[3] => c = d
        /\ \A a \in allocs : hdr[vframe[a[1]]] = a[2]
        /\ \A a, b \in allocs : a # b =>
              (a[1] .. a[1] + a[2] - 1) \cap (b[1] .. b[1] + b[2] - 1) = {}
        /\ HeapIdle =>
              present = UNION {a[1] .. a[1] + a[2] - 1 : a \in allocs}

\* A task that may still run has its stack page, and no other live task runs
\* on the same one: a slot is reused only when its task is dead.
LiveStackKept ==
    \A p \in LiveTasks \ {Shell, None} :
        /\ Sane => ustack[home[p]] # 0
        /\ \A q \in LiveTasks \ {Shell, None} : home[p] = home[q] => p = q
=============================================================================
