------------------------------- MODULE Sched -------------------------------
(***************************************************************************)
(* The preemptive round-robin scheduler of the kernel (kernel/task/sched.c)*)
(* together with the three entry stubs that save and restore a context     *)
(* (boot/irqs.s, boot/idt_exceptions.s), the system calls that reach it    *)
(* (kernel/task/syscall.c) and the ring-3 fault path                       *)
(* (kernel/arch/exception_handler.c).                                      *)
(*                                                                         *)
(* Atomicity.  There is one CPU and every IDT gate is an interrupt gate    *)
(* (0x8E, 0xEE): a handler runs with interrupts off from its stub's first  *)
(* push to its iret, so each handler is ONE action that pushes the         *)
(* interrupted context, runs the C code and resumes the chosen frame.      *)
(* Task 0 is the kernel shell.  It runs in ring 0 with interrupts ON, so   *)
(* sched_add, which only the shell calls, is cut into the steps a timer    *)
(* interrupt can fall between.                                             *)
(*                                                                         *)
(* Data.  A frame address is named by the stack it lies on: i \in Slots    *)
(* for the frame at the top of g_kstacks[i], Boot for the frame on the     *)
(* kernel's boot stack, Null for 0.  What a frame holds is abstracted to   *)
(* the pid whose registers were saved in it.  sched_cur_esp,               *)
(* sched_next_esp and sched_force_switch are written before they are read  *)
(* inside every handler and are therefore locals of the actions.           *)
(***************************************************************************)
EXTENDS Integers

CONSTANTS
    MaxTasks,   \* SCHED_MAX_TASKS, the size of g_tasks
    MaxPid      \* bound on g_next_pid: how many tasks are ever spawned

ASSUME SchedAssumption == MaxTasks \in Nat /\ MaxTasks >= 2 /\ MaxPid \in Nat

VARIABLES
    tstate,      \* g_tasks[i].state
    tpid,        \* g_tasks[i].pid
    saved_esp,   \* g_tasks[i].saved_esp: where the task's frame lies
    kstack_top,  \* g_tasks[i].kstack_top: the esp0 to load while it runs
    g_cur,       \* index of the running task
    g_rr,        \* index where the next round-robin scan starts
    g_next_pid,  \* the next pid to hand out
    esp0,        \* g_tss.esp0: where the CPU pushes on entry from ring 3
    frame,       \* frame[a]: the pid whose context was last pushed at a
    ctx,         \* the pid whose registers are in the CPU
    cpu,         \* what the CPU is doing, see Cpu
    add_pc,      \* the shell's position in sched_add, see AddPc
    add_i        \* sched_add's loop index, then its slot

tasks   == <<tstate, tpid, saved_esp, kstack_top>>
adding  == <<add_pc, add_i>>
vars    == <<tasks, g_cur, g_rr, g_next_pid, esp0, frame, ctx, cpu, adding>>

Slots == 0 .. MaxTasks - 1
Boot  == MaxTasks
Addrs == 0 .. MaxTasks
Null  == -1
NoCtx == -1
Pids  == 0 .. MaxPid

TaskStates == {"EMPTY", "RUNNABLE", "RUNNING", "ZOMBIE"}
Live(s)    == s # "EMPTY" /\ s # "ZOMBIE"

\* "task": a context runs; "lost": a context was resumed from a null frame
\* pointer; "stopped": sched_exit found no one to run; "halted": an exception
\* in ring 0.
Cpu   == {"task", "lost", "stopped", "halted"}
AddPc == {"idle", "scan", "claim", "publish", "stack", "build"}

----------------------------------------------------------------------------
(* sched_pick *)

\* How many steps the scan (g_rr + step) % SCHED_MAX_TASKS takes to reach i.
Step(i) == IF i >= g_rr THEN i - g_rr ELSE i - g_rr + MaxTasks

\* i is the first slot of the scan that satisfies the loop's condition.
First(S, i) == i \in S /\ \A j \in S : Step(i) <= Step(j)

\* Mutant: the first loop returns without advancing g_rr.
PickStuck(st, n, r) ==
    LET S == {i \in Slots : st[i] = "RUNNABLE"}
    IN  /\ r = g_rr
        /\ IF S # {} THEN First(S, n) ELSE n = g_cur

\* Mutant: g_rr = i + 1 without the modulus.
PickNoWrap(st, n, r) ==
    LET S == {i \in Slots : st[i] = "RUNNABLE"}
    IN  IF S # {} THEN First(S, n) /\ r = n + 1 ELSE r = g_rr /\ n = g_cur

\* sched_pick() over the states st returns n and leaves g_rr = r.
Pick(st, n, r) ==
    LET runnable == {i \in Slots : st[i] = "RUNNABLE"}
        live     == {i \in Slots : Live(st[i])}
    IN  IF runnable # {}
          THEN First(runnable, n) /\ r = (IF n = MaxTasks - 1 THEN 0 ELSE n + 1)
          ELSE /\ r = g_rr
               /\ IF live # {} THEN First(live, n) ELSE n = g_cur

----------------------------------------------------------------------------
(* The entry stubs *)

\* Where the CPU pushes: ring 0 stays on its own stack, ring 3 enters on esp0.
PushAddr == IF ctx = 0 THEN Boot ELSE esp0

\* The frame memory after the stub's pushes.
Pushed == [frame EXCEPT ![PushAddr] = ctx]

\* Pop a context from the frame at a and iret to it.
Resume(a) ==
    IF a = Null
      THEN cpu' = "lost" /\ UNCHANGED ctx
      ELSE ctx' = Pushed[a] /\ UNCHANGED cpu

\* Mutant: tss_set_kernel_esp0 is forgotten.
SwitchKeepsEsp0(n, st, sv) ==
    /\ tstate' = [st EXCEPT ![n] = "RUNNING"]
    /\ saved_esp' = sv
    /\ g_cur' = n
    /\ Resume(sv[n])
    /\ UNCHANGED esp0

\* Mutant: the outgoing task is resumed, next_esp was not set.
SwitchStaleEsp(n, st, sv) ==
    /\ tstate' = [st EXCEPT ![n] = "RUNNING"]
    /\ saved_esp' = sv
    /\ esp0' = IF kstack_top[n] # Null THEN kstack_top[n] ELSE esp0
    /\ g_cur' = n
    /\ Resume(PushAddr)

\* The switch shared by sched_tick, sched_yield and sched_exit: st and sv are
\* the task states and saved pointers once the outgoing task is dealt with.
SwitchTo(n, st, sv) ==
    /\ tstate' = [st EXCEPT ![n] = "RUNNING"]
    /\ saved_esp' = sv
    /\ esp0' = IF kstack_top[n] # Null THEN kstack_top[n] ELSE esp0
    /\ g_cur' = n
    /\ Resume(sv[n])

\* The handler returns to the context it interrupted.
ReturnToCurrent == UNCHANGED <<tstate, esp0, g_cur, ctx, cpu>>

\* Common to every handler: the stub pushes, sched_add's progress stands still.
Handler ==
    /\ cpu = "task"
    /\ frame' = Pushed
    /\ UNCHANGED <<tpid, kstack_top, g_next_pid, adding>>

----------------------------------------------------------------------------
(* Handlers *)

\* IRQ 0: timer_int -> sched_tick.
TimerIrq ==
    /\ Handler
    /\ LET sv == [saved_esp EXCEPT ![g_cur] = PushAddr]
           st == [tstate EXCEPT ![g_cur] =
                    IF @ = "RUNNING" THEN "RUNNABLE" ELSE @]
       IN  \E n \in Slots :
             /\ Pick(tstate, n, g_rr')
             /\ IF n = g_cur /\ tstate[n] = "RUNNING"
                  THEN saved_esp' = sv /\ ReturnToCurrent
                  ELSE SwitchTo(n, st, sv)

\* Any other IRQ: irq_common_stub resumes the frame it has just pushed.
OtherIrq ==
    /\ Handler
    /\ ReturnToCurrent
    /\ UNCHANGED <<g_rr, saved_esp>>

\* int 0x80 with SYS_YIELD.
SysYield ==
    /\ Handler
    /\ ctx # 0
    /\ LET sv == [saved_esp EXCEPT ![g_cur] = PushAddr]
           st == [tstate EXCEPT ![g_cur] = "RUNNABLE"]
       IN  \E n \in Slots :
             /\ Pick(tstate, n, g_rr')
             /\ IF n = g_cur
                  THEN ReturnToCurrent /\ UNCHANGED saved_esp
                  ELSE SwitchTo(n, st, sv)

\* sched_exit, reached by SYS_EXIT and by a fault in ring 3.
SchedExit ==
    LET st == [tstate EXCEPT ![g_cur] = "ZOMBIE"]
    IN  \E n \in Slots :
          /\ Pick(st, n, g_rr')
          /\ IF n = g_cur
               THEN /\ tstate' = st
                    /\ cpu' = "stopped"
                    /\ UNCHANGED <<saved_esp, esp0, g_cur, ctx>>
               ELSE SwitchTo(n, st, saved_esp)

SysExit == Handler /\ ctx # 0 /\ SchedExit

\* An exception with cs & 3: only the offending task dies.
UserFault == Handler /\ ctx # 0 /\ SchedExit

\* SYS_WRITE, SYS_GETPID, SYS_TICKS and unknown numbers only set the caller's
\* eax: no switch is requested and the stub resumes the caller.
SysOther ==
    /\ Handler
    /\ ctx # 0
    /\ ReturnToCurrent
    /\ UNCHANGED <<g_rr, saved_esp>>

\* An exception with cs & 3 = 0: in the shell's own code, or in the kernel
\* code a system call runs.  exc_handler reports it and halts with IF off.
KernelFault ==
    /\ Handler
    /\ cpu' = "halted"
    /\ UNCHANGED <<tstate, saved_esp, g_cur, g_rr, esp0, ctx>>

----------------------------------------------------------------------------
(* sched_add, run by the shell with interrupts on *)

ShellAt(pc) == cpu = "task" /\ ctx = 0 /\ add_pc = pc

ShellFrame == UNCHANGED <<g_cur, g_rr, esp0, frame, ctx, cpu>>

\* The shell calls sched_add (bounded by MaxPid).
AddCall ==
    /\ ShellAt("idle")
    /\ g_next_pid <= MaxPid
    /\ add_pc' = "scan"
    /\ add_i' = 0
    /\ UNCHANGED <<tasks, g_next_pid>>
    /\ ShellFrame

\* One iteration of the loop that looks for a free slot; past the last slot
\* sched_add returns -1.
AddScan ==
    /\ ShellAt("scan")
    /\ \/ add_i = MaxTasks /\ add_pc' = "idle" /\ UNCHANGED add_i
       \/ /\ add_i # MaxTasks
          /\ IF ~Live(tstate[add_i])
               THEN add_pc' = "claim" /\ UNCHANGED add_i
               ELSE add_i' = add_i + 1 /\ UNCHANGED add_pc
    /\ UNCHANGED <<tasks, g_next_pid>>
    /\ ShellFrame

\* bzero(t), t->pid = g_next_pid++, t->name: no handler reads a dead slot's
\* fields, so these stores are one step.
AddClaim ==
    /\ ShellAt("claim")
    /\ tstate' = [tstate EXCEPT ![add_i] = "EMPTY"]
    /\ tpid' = [tpid EXCEPT ![add_i] = g_next_pid]
    /\ saved_esp' = [saved_esp EXCEPT ![add_i] = Null]
    /\ kstack_top' = [kstack_top EXCEPT ![add_i] = Null]
    /\ g_next_pid' = g_next_pid + 1
    /\ add_pc' = "publish"
    /\ UNCHANGED add_i
    /\ ShellFrame

\* t->state = S_RUNNABLE: from here on sched_pick may return the slot.
AddPublish ==
    /\ ShellAt("publish")
    /\ tstate' = [tstate EXCEPT ![add_i] = "RUNNABLE"]
    /\ add_pc' = "stack"
    /\ UNCHANGED <<tpid, saved_esp, kstack_top, g_next_pid, add_i>>
    /\ ShellFrame

\* t->kstack_bot, kstack_top, entry, user_esp.
AddSetStack ==
    /\ ShellAt("stack")
    /\ kstack_top' = [kstack_top EXCEPT ![add_i] = add_i]
    /\ add_pc' = "build"
    /\ UNCHANGED <<tstate, tpid, saved_esp, g_next_pid, add_i>>
    /\ ShellFrame

\* Mutant: the frame is built but t->saved_esp is not stored.
BuildNoPointer ==
    /\ ShellAt("build")
    /\ frame' = [frame EXCEPT ![kstack_top[add_i]] = tpid[add_i]]
    /\ add_pc' = "idle"
    /\ UNCHANGED <<tasks, g_next_pid, add_i>>
    /\ UNCHANGED <<g_cur, g_rr, esp0, ctx, cpu>>

\* sched_build_initial_frame: the frame's contents first, t->saved_esp last.
AddBuildFrame ==
    /\ ShellAt("build")
    /\ frame' = [frame EXCEPT ![kstack_top[add_i]] = tpid[add_i]]
    /\ saved_esp' = [saved_esp EXCEPT ![add_i] = kstack_top[add_i]]
    /\ add_pc' = "idle"
    /\ UNCHANGED <<tstate, tpid, kstack_top, g_next_pid, add_i>>
    /\ UNCHANGED <<g_cur, g_rr, esp0, ctx, cpu>>

ShellStep == \/ AddScan \/ AddClaim \/ AddPublish
             \/ AddSetStack \/ AddBuildFrame

----------------------------------------------------------------------------

\* The state sched_init leaves behind, just before kernel_main's sti.
Init ==
    /\ tstate = [i \in Slots |-> IF i = 0 THEN "RUNNING" ELSE "EMPTY"]
    /\ tpid = [i \in Slots |-> 0]
    /\ saved_esp = [i \in Slots |-> Null]
    /\ kstack_top = [i \in Slots |-> Null]
    /\ g_cur = 0
    /\ g_rr = 1
    /\ g_next_pid = 1
    /\ esp0 = 0
    /\ frame = [a \in Addrs |-> NoCtx]
    /\ ctx = 0
    /\ cpu = "task"
    /\ add_pc = "idle"
    /\ add_i = 0

\* Nothing moves any more once no context runs.
Down == cpu # "task" /\ UNCHANGED vars

Next ==
    \/ TimerIrq \/ OtherIrq
    \/ SysYield \/ SysExit \/ SysOther
    \/ UserFault \/ KernelFault
    \/ AddCall \/ ShellStep
    \/ Down

\* The PIT interrupts periodically, and a task that is given the CPU again
\* and again executes its next instruction between two interrupts.
Fairness == WF_vars(TimerIrq) /\ SF_vars(ShellStep)

Spec     == Init /\ [][Next]_vars
FairSpec == Spec /\ Fairness

----------------------------------------------------------------------------
(* Properties *)

\* Every variable stays in its domain.
TypeOK ==
    /\ tstate \in [Slots -> TaskStates]
    /\ tpid \in [Slots -> Pids]
    /\ saved_esp \in [Slots -> Addrs \cup {Null}]
    /\ kstack_top \in [Slots -> Slots \cup {Null}]
    /\ g_cur \in Slots
    /\ g_rr \in Slots
    /\ g_next_pid \in 1 .. MaxPid + 1
    /\ esp0 \in Slots
    /\ frame \in [Addrs -> Pids \cup {NoCtx}]
    /\ ctx \in Pids \cup {NoCtx}
    /\ cpu \in Cpu
    /\ add_pc \in AddPc
    /\ add_i \in 0 .. MaxTasks

\* The task table agrees with the CPU: while a context runs, it is the one of
\* the task g_cur names, and that task is the only one marked running
\* (sched_pid, and hence SYS_GETPID and the fault report, rest on this).
ContextIsCurrent ==
    cpu = "task" =>
        /\ ctx = tpid[g_cur]
        /\ \A i \in Slots : tstate[i] = "RUNNING" <=> i = g_cur

\* Kernel stacks do not mix: the frame a waiting task will be resumed from is
\* on its own stack and still holds its own registers, whatever interrupts,
\* switches and spawns came in between; and a task that runs in ring 3 will
\* be interrupted on its own stack.
FrameIntact ==
    cpu = "task" =>
        /\ \A i \in Slots : tstate[i] = "RUNNABLE" /\ saved_esp[i] # Null =>
              /\ saved_esp[i] = IF i = 0 THEN Boot ELSE i
              /\ frame[saved_esp[i]] = tpid[i]
        /\ ctx # 0 => esp0 = g_cur

\* The shell always has a live task-table entry, so sched_exit always finds
\* someone to run and never reaches its "No one to run: stop" loop.
KernelAlive == Live(tstate[0]) /\ cpu # "stopped"

\* sched_alive and SYS_GETPID identify a task by its pid: no two live tasks
\* share one, across any reuse of slots.
UniquePids ==
    \A i, j \in Slots :
        Live(tstate[i]) /\ Live(tstate[j]) /\ tpid[i] = tpid[j] => i = j

\* The CPU goes down in one situation only: a tick that falls between
\* sched_add's store of S_RUNNABLE and its last store picks the half-built slot
\* and hands over a null frame pointer.  Nothing else can resume a task without
\* a frame, and sched_exit never halts.
LostOnlyInAdd ==
    /\ KernelAlive
    /\ cpu = "lost" => add_pc \in {"stack", "build"} /\ g_cur = add_i

\* Round-robin: whenever the CPU changes hands, every task that waits before
\* and after comes strictly closer to the front of the scan, so it is passed
\* over at most MaxTasks - 1 times whatever the others do.
RoundRobin ==
    [][g_cur' # g_cur =>
         \A i \in Slots :
            tstate[i] = "RUNNABLE" /\ tstate'[i] = "RUNNABLE"
              => Step(i)' < Step(i)]_vars

\* Every task made runnable gets the CPU (unless the machine goes down).
RunnableRuns ==
    \A i \in Slots :
        (tstate[i] = "RUNNABLE") ~> (tstate[i] = "RUNNING" \/ cpu # "task")

\* A sched_add once begun returns to the shell, however busy the spawned tasks
\* keep the CPU (unless the machine goes down).
SpawnReturns == (add_pc # "idle") ~> (add_pc = "idle" \/ cpu # "task")

\* What kernel/task/sched.c says of the initial frame of a task that has never
\* run, "Mirrors exactly what irq_common_stub expects": the stub never resumes
\* a task that has none.
FrameBeforeResume == cpu # "lost"

\* The refinement mapping.  A pid counts as issued once its slot is published.
AbsReady   == IF cpu = "task"
                THEN {tpid[i] : i \in {j \in Slots : tstate[j] = "RUNNABLE"}}
                ELSE {}
AbsRunning == IF cpu = "task" THEN ctx ELSE NoCtx
AbsIssued  == IF add_pc = "publish" THEN g_next_pid - 2 ELSE g_next_pid - 1

Abs == INSTANCE TaskSet WITH
    ready <- AbsReady, running <- AbsRunning, issued <- AbsIssued

\* The scheduler, with its slots, stacks, frames and interrupts, implements the
\* set of tasks it promises: sched_tick and sched_yield hand the CPU to a
\* waiting task, sched_exit ends the running one, sched_add issues a new pid.
ImplementsTaskSet == Abs!TSSpec
=============================================================================
