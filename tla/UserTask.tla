------------------------------ MODULE UserTask ------------------------------
(***************************************************************************)
(* Starting ring-3 tasks (kernel/task/usertask.c), composed with the block *)
(* allocator (PhysMem) and with what the scheduler promises (TaskSet, which*)
(* Sched implements).                                                      *)
(*                                                                         *)
(* utask_spawn runs in the shell task with interrupts on: between any two  *)
(* of its steps the other tasks may run and end.  Page directory entry 256 *)
(* has had a table since vm_init, so map_user_page cannot fail; the user   *)
(* program is a fixed image that fits its page.                            *)
(***************************************************************************)
EXTENDS PhysMem, TaskSet

CONSTANTS
    UMax,       \* USER_MAX_TASKS, the entries of g_user_slots
    TMax,       \* SCHED_MAX_TASKS, at which sched_add fails
    PMax        \* bound on the pids ever issued

ASSUME UserTaskAssumption == UMax \in Nat /\ TMax \in Nat /\ PMax \in Nat

VARIABLES
    uslots,     \* g_user_slots: the pid last started in each slot, or 0
    ustack,     \* the frame mapped as each slot's stack page, 0: not present
    ucode,      \* the frame of the shared code page, 0: g_code_mapped = 0
    upc,        \* the shell's position in utask_spawn
    uslot,      \* its loop index, then its slot
    uphys,      \* its local phys, 0 once it is mapped
    home        \* history: the slot each pid was started in

uvars == <<uslots, ustack, ucode, upc, uslot, uphys, home>>

USlots == 1 .. UMax
UPids  == 1 .. PMax

LiveTasks == ready \cup {running}

SpawnIdle == upc = "idle"

\* The shell has the CPU and is at pc in utask_spawn.
At(pc) == running = Shell /\ upc = pc

UGoto(pc) == upc' = pc

----------------------------------------------------------------------------

SpawnCall ==
    /\ At("idle")
    /\ issued < PMax
    /\ UGoto("scan") /\ uslot' = 1
    /\ UNCHANGED <<pvars, tvars, uslots, ustack, ucode, uphys, home>>

\* Mutant: a slot is free when its task is not the running one.
SlotFreeIfWaiting(i) == uslots[i] = 0 \/ uslots[i] # running

\* g_user_slots[i] == 0 || !sched_alive(g_user_slots[i])
SlotFree(i) == uslots[i] = 0 \/ uslots[i] \notin LiveTasks

\* One iteration of the slot loop; past the last slot utask_spawn returns -1.
SpawnScan ==
    /\ At("scan")
    /\ \/ uslot > UMax /\ UGoto("idle") /\ UNCHANGED uslot
       \/ /\ uslot <= UMax
          /\ IF SlotFree(uslot)
               THEN UGoto(IF ucode = 0 THEN "code" ELSE "stack") /\ UNCHANGED uslot
               ELSE uslot' = uslot + 1 /\ UNCHANGED upc
    /\ UNCHANGED <<pvars, tvars, uslots, ustack, ucode, uphys, home>>

\* usertask_ensure_code: the page shared by all tasks, allocated once.
SpawnCode ==
    /\ At("code")
    /\ \/ \E f \in Scannable : Alloc(f) /\ ucode' = f /\ UGoto("stack")
       \/ AllocFails /\ UGoto("idle") /\ UNCHANGED ucode
    /\ UNCHANGED <<tvars, uslots, ustack, uslot, uphys, home>>

SpawnStack ==
    /\ At("stack")
    /\ \/ /\ \E f \in Scannable : Alloc(f) /\ uphys' = f
          /\ UGoto(IF uslots[uslot] # 0 THEN "unmap" ELSE "map")
       \/ AllocFails /\ UGoto("idle") /\ UNCHANGED uphys
    /\ UNCHANGED <<tvars, uslots, ustack, ucode, uslot, home>>

\* unmap_user_page: gives the frame back if the page is present.
Unmap ==
    /\ IF ustack[uslot] # 0
         THEN Release({ustack[uslot]})
         ELSE UNCHANGED pvars
    /\ ustack' = [ustack EXCEPT ![uslot] = 0]

\* Mutant: the old stack page is overwritten without being given back.
SpawnUnmapForgets ==
    /\ At("unmap")
    /\ UGoto("map")
    /\ UNCHANGED <<pvars, tvars, uslots, ustack, ucode, uslot, uphys, home>>

\* The page of the slot's previous, dead task.
SpawnUnmap ==
    /\ At("unmap")
    /\ Unmap
    /\ UGoto("map")
    /\ UNCHANGED <<tvars, uslots, ucode, uslot, uphys, home>>

\* map_user_page.
SpawnMap ==
    /\ At("map")
    /\ ustack' = [ustack EXCEPT ![uslot] = uphys]
    /\ uphys' = 0
    /\ UGoto("add")
    /\ UNCHANGED <<pvars, tvars, uslots, ucode, uslot, home>>

\* sched_add: -1 when the task table is full.
SpawnAdd ==
    /\ At("add")
    /\ \/ /\ Cardinality(LiveTasks) < TMax
          /\ Spawn
          /\ home' = [home EXCEPT ![issued'] = uslot]
          /\ UGoto("record")
       \/ /\ Cardinality(LiveTasks) >= TMax
          /\ UGoto("undo")
          /\ UNCHANGED <<tvars, home>>
    /\ UNCHANGED <<pvars, uslots, ustack, ucode, uslot, uphys>>

SpawnUndo ==
    /\ At("undo")
    /\ Unmap
    /\ UGoto("idle")
    /\ UNCHANGED <<tvars, uslots, ucode, uslot, uphys, home>>

\* g_user_slots[slot] = pid; by now the task may have run, or ended.
SpawnRecord ==
    /\ At("record")
    /\ uslots' = [uslots EXCEPT ![uslot] = issued]
    /\ UGoto("idle")
    /\ UNCHANGED <<pvars, tvars, ustack, ucode, uslot, uphys, home>>

UserInit ==
    /\ uslots = [i \in USlots |-> 0]
    /\ ustack = [i \in USlots |-> 0]
    /\ ucode = 0
    /\ upc = "idle"
    /\ uslot = 1
    /\ uphys = 0
    /\ home = [p \in UPids |-> 0]

UserNext ==
    \/ SpawnCall \/ SpawnScan \/ SpawnCode \/ SpawnStack \/ SpawnUnmap
    \/ SpawnMap \/ SpawnAdd \/ SpawnUndo \/ SpawnRecord

\* The scheduler's own steps.
TaskStep == (Dispatch \/ End \/ Stop) /\ UNCHANGED <<pvars, uvars>>
=============================================================================
