---------------------------- MODULE SchedProofs ----------------------------
(***************************************************************************)
(* Proofs that the scheduler of module Sched keeps its invariants for any  *)
(* number of task slots and any number of spawned tasks.                   *)
(*                                                                         *)
(* None of the properties is inductive alone.  Which frame a task resumes  *)
(* from depends on how far sched_add had got with its slot, where the CPU  *)
(* pushes depends on which task was switched to last, and the reuse of a   *)
(* slot must not bring back a pid.  IInv ties these together.              *)
(***************************************************************************)
EXTENDS Sched, TLAPS

\* The frame address on the task's own stack.
Own(i) == IF i = 0 THEN Boot ELSE i

\* sched_add has published slot i and not yet stored its saved_esp.
Half(i) == add_pc \in {"stack", "build"} /\ add_i = i

\* Pids: slot 0 is the shell's, no other slot holds pid 0 once it is live,
\* and all pids handed out are below g_next_pid and differ.
PidInv ==
    /\ tpid[0] = 0
    /\ \A i \in Slots : tpid[i] < g_next_pid
    /\ \A i \in Slots : Live(tstate[i]) /\ i # 0 => tpid[i] # 0
    /\ \A i, j \in Slots : tpid[i] = tpid[j] /\ tpid[i] # 0 => i = j

\* Stacks: a task only ever points at its own kernel stack.
StackInv ==
    /\ \A i \in Slots : kstack_top[i] \in {i, Null}
    /\ kstack_top[0] = Null
    /\ \A i \in Slots : saved_esp[i] \in {Own(i), Null}
    /\ \A i \in Slots : Live(tstate[i]) /\ i # 0 /\ ~Half(i) =>
          kstack_top[i] = i /\ saved_esp[i] = i

\* sched_add: the slot it works on is a free user slot until it is published,
\* and lacks its frame pointer until the last step.
AddInv ==
    /\ add_pc \in {"scan", "claim"} => g_next_pid <= MaxPid
    /\ add_pc \in {"claim", "publish", "stack", "build"} =>
          add_i \in Slots /\ add_i # 0
    /\ add_pc \in {"claim", "publish"} => ~Live(tstate[add_i])
    /\ add_pc \in {"publish", "stack", "build"} =>
          tpid[add_i] # 0 /\ saved_esp[add_i] = Null
    /\ add_pc = "publish" => tpid[add_i] = g_next_pid - 1
    /\ add_pc = "build" => kstack_top[add_i] = add_i
    /\ cpu = "task" /\ add_pc \in {"stack", "build"} =>
          tstate[add_i] = "RUNNABLE"

\* The CPU: the context that runs, where it will be interrupted, and the
\* frames of those that wait.
CpuInv ==
    /\ cpu = "task" =>
         /\ ctx = tpid[g_cur]
         /\ \A i \in Slots : tstate[i] = "RUNNING" <=> i = g_cur
         /\ \A i \in Slots : tstate[i] = "RUNNABLE" /\ ~Half(i) =>
               saved_esp[i] = Own(i) /\ frame[Own(i)] = tpid[i]
         /\ g_cur # 0 => esp0 = g_cur
    /\ cpu = "lost" => Half(g_cur)

IInv == TypeOK /\ KernelAlive /\ PidInv /\ StackInv /\ AddInv /\ CpuInv

----------------------------------------------------------------------------
(* sched_pick *)

\* When some task is runnable sched_pick's first loop returns one, the first in
\* scan order, and leaves g_rr just behind it.
LEMMA PickRunnable ==
    ASSUME NEW st \in [Slots -> TaskStates], NEW n \in Slots, NEW r,
           Pick(st, n, r), \E i \in Slots : st[i] = "RUNNABLE"
    PROVE  /\ st[n] = "RUNNABLE"
           /\ r \in Slots
           /\ r = IF n = MaxTasks - 1 THEN 0 ELSE n + 1
           /\ \A j \in Slots : st[j] = "RUNNABLE" => Step(n) <= Step(j)
  <1> DEFINE R == {i \in Slots : st[i] = "RUNNABLE"}
  <1>1. R # {}
    OBVIOUS
  <1>2. First(R, n) /\ r = (IF n = MaxTasks - 1 THEN 0 ELSE n + 1)
    BY <1>1 DEF Pick
  <1>3. n \in R /\ \A j \in R : Step(n) <= Step(j)
    BY <1>2 DEF First
  <1>4. r \in Slots
    BY <1>2, SchedAssumption DEF Slots
  <1> QED
    BY <1>2, <1>3, <1>4

\* When no task is runnable and exactly one is live, sched_pick's second loop
\* returns it and does not move g_rr.
LEMMA PickAlone ==
    ASSUME NEW st \in [Slots -> TaskStates], NEW n \in Slots, NEW r,
           NEW c \in Slots,
           Pick(st, n, r), Live(st[c]),
           \A i \in Slots : st[i] # "RUNNABLE",
           \A i \in Slots : Live(st[i]) => i = c
    PROVE  n = c /\ r = g_rr
  <1> DEFINE R == {i \in Slots : st[i] = "RUNNABLE"}
             L == {i \in Slots : Live(st[i])}
  <1>1. R = {} /\ L # {}
    OBVIOUS
  <1>2. First(L, n) /\ r = g_rr
    BY <1>1 DEF Pick
  <1> QED
    BY <1>2 DEF First

----------------------------------------------------------------------------
(* The inductive invariant *)

LEMMA InitInv == Init => IInv
  <1> SUFFICES ASSUME Init PROVE IInv
    OBVIOUS
  <1> USE SchedAssumption DEF Init, Slots, Addrs, Null, NoCtx, Pids
  <1>1. TypeOK
    BY DEF TypeOK, TaskStates, Cpu, AddPc
  <1>2. KernelAlive
    BY DEF KernelAlive, Live
  <1>3. PidInv
    BY DEF PidInv, Live
  <1>4. StackInv
    BY DEF StackInv, Live
  <1>5. AddInv
    BY DEF AddInv
  <1>6. CpuInv
    BY DEF CpuInv
  <1> QED
    BY <1>1, <1>2, <1>3, <1>4, <1>5, <1>6 DEF IInv

\* What IInv says of an interrupt: the stub pushes the running task's context
\* on that task's own stack.
LEMMA PushOwn ==
    ASSUME IInv, cpu = "task"
    PROVE  /\ PushAddr = Own(g_cur)
           /\ PushAddr \in Addrs
           /\ ctx \in Pids
           /\ ctx = 0 <=> g_cur = 0
           /\ Pushed \in [Addrs -> Pids \cup {NoCtx}]
           /\ Pushed[Own(g_cur)] = tpid[g_cur]
           /\ \A i \in Slots : i # g_cur => Pushed[Own(i)] = frame[Own(i)]
  <1> USE SchedAssumption DEF Slots, Addrs, Pids
  <1>1. g_cur \in Slots /\ tpid \in [Slots -> Pids] /\ esp0 \in Slots
        /\ frame \in [Addrs -> Pids \cup {NoCtx}]
    BY DEF IInv, TypeOK
  <1>2. ctx = tpid[g_cur] /\ (g_cur # 0 => esp0 = g_cur)
        /\ tstate[g_cur] = "RUNNING"
    BY <1>1 DEF IInv, CpuInv
  <1>3. ctx = 0 <=> g_cur = 0
    BY <1>1, <1>2 DEF IInv, PidInv, Live
  <1>4. PushAddr = Own(g_cur) /\ PushAddr \in Addrs
    BY <1>1, <1>2, <1>3 DEF PushAddr, Own, Boot
  <1>5. \A i \in Slots : Own(i) \in Addrs /\ (Own(i) = Own(g_cur) => i = g_cur)
    BY <1>1 DEF Own, Boot
  <1>6. Pushed = [frame EXCEPT ![Own(g_cur)] = tpid[g_cur]]
    BY <1>2, <1>4 DEF Pushed
  <1>7. Pushed \in [Addrs -> Pids \cup {NoCtx}]
    BY <1>1, <1>5, <1>6
  <1>8. Pushed[Own(g_cur)] = tpid[g_cur]
        /\ \A i \in Slots : i # g_cur => Pushed[Own(i)] = frame[Own(i)]
    BY <1>1, <1>5, <1>6
  <1> QED
    BY <1>1, <1>2, <1>3, <1>4, <1>7, <1>8

\* Handlers that return to the interrupted context keep the invariant: they
\* only refresh the running task's own frame.
LEMMA ReturnInv ==
    ASSUME IInv, Handler, ReturnToCurrent, g_rr' \in Slots,
           \/ saved_esp' = saved_esp
           \/ saved_esp' = [saved_esp EXCEPT ![g_cur] = PushAddr]
    PROVE  IInv'
  <1> USE DEF Handler, ReturnToCurrent, adding
  <1>0. TypeOK /\ g_cur \in Slots /\ cpu = "task"
    BY DEF IInv, TypeOK
  <1>1. saved_esp' \in [Slots -> Addrs \cup {Null}]
        /\ \A i \in Slots : saved_esp'[i] = saved_esp[i]
                             \/ (i = g_cur /\ saved_esp'[i] = Own(g_cur))
    BY <1>0, PushOwn DEF TypeOK
  <1>2. TypeOK'
    BY <1>0, <1>1, PushOwn DEF TypeOK
  <1>3. tstate[g_cur] = "RUNNING"
    BY <1>0 DEF IInv, CpuInv
  <1>4. KernelAlive' /\ PidInv'
    BY DEF IInv, KernelAlive, PidInv, Live
  <1>5. StackInv'
    <2>1. \A i \in Slots : saved_esp'[i] \in {Own(i), Null}
      BY <1>1 DEF IInv, StackInv
    <2>2. \A i \in Slots : Half(i)' = Half(i)
      BY DEF Half
    <2>3. ASSUME NEW i \in Slots, Live(tstate[i]), i # 0, ~Half(i)
          PROVE  saved_esp'[i] = i
      BY <2>3, <1>1 DEF IInv, StackInv, Own
    <2> QED
      BY <2>1, <2>2, <2>3 DEF IInv, StackInv, Own
  <1>6. AddInv'
    <2>1. ASSUME add_pc \in {"publish", "stack", "build"}
          PROVE  saved_esp'[add_i] = saved_esp[add_i]
      <3>1. add_i \in Slots /\ tstate[add_i] # "RUNNING"
        BY <1>0, <2>1 DEF IInv, AddInv, Live
      <3> QED
        BY <1>1, <1>3, <3>1
    <2> QED
      BY <2>1 DEF IInv, AddInv
  <1>7. CpuInv'
    <2>1. \A i \in Slots : tstate[i] = "RUNNABLE" => i # g_cur
      BY <1>3
    <2>2. \A i \in Slots : tstate[i] = "RUNNABLE" /\ ~Half(i) =>
             saved_esp'[i] = Own(i) /\ frame'[Own(i)] = tpid[i]
      BY <1>0, <1>1, <2>1, PushOwn DEF IInv, CpuInv
    <2> QED
      BY <1>0, <2>2 DEF IInv, CpuInv, Half, Own
  <1> QED
    BY <1>2, <1>4, <1>5, <1>6, <1>7 DEF IInv

\* A switch to a runnable task n keeps the invariant.  The outgoing task either
\* waits, with its frame recorded, or is a zombie; the shell never is.  If n is
\* the half-built slot of sched_add the CPU is lost.
LEMMA SwitchInv ==
    ASSUME IInv, Handler, g_rr' \in Slots,
           NEW n \in Slots, tstate[n] = "RUNNABLE",
           NEW st, NEW sv, SwitchTo(n, st, sv),
           \/ /\ st = [tstate EXCEPT ![g_cur] = "RUNNABLE"]
              /\ sv = [saved_esp EXCEPT ![g_cur] = PushAddr]
           \/ /\ st = [tstate EXCEPT ![g_cur] = "ZOMBIE"]
              /\ sv = saved_esp
              /\ g_cur # 0
    PROVE  IInv'
  <1> USE DEF Handler, SwitchTo, adding
  <1>0. TypeOK /\ g_cur \in Slots /\ cpu = "task"
    BY DEF IInv, TypeOK
  <1>1. tstate[g_cur] = "RUNNING" /\ n # g_cur
    BY <1>0 DEF IInv, CpuInv
  <1>2. st \in [Slots -> TaskStates] /\ sv \in [Slots -> Addrs \cup {Null}]
    BY <1>0, PushOwn DEF TypeOK, TaskStates
  <1>3. /\ tstate' \in [Slots -> TaskStates]
        /\ tstate'[n] = "RUNNING"
        /\ tstate'[g_cur] \in {"RUNNABLE", "ZOMBIE"}
        /\ tstate'[g_cur] = "ZOMBIE" => g_cur # 0
        /\ \A i \in Slots : i # n /\ i # g_cur => tstate'[i] = tstate[i]
    BY <1>0, <1>1, <1>2 DEF TypeOK, TaskStates
  <1>4. /\ saved_esp' \in [Slots -> Addrs \cup {Null}]
        /\ \A i \in Slots : i # g_cur => saved_esp'[i] = saved_esp[i]
        /\ saved_esp'[g_cur] \in {saved_esp[g_cur], Own(g_cur)}
        /\ tstate'[g_cur] = "RUNNABLE" => saved_esp'[g_cur] = Own(g_cur)
    BY <1>0, <1>1, <1>2, PushOwn DEF TypeOK
  <1>5. esp0' \in Slots
    BY <1>0 DEF TypeOK
  <1>6. sv[n] = saved_esp[n] /\ sv[n] \in {Own(n), Null}
    BY <1>0, <1>1, <1>2, <1>4 DEF IInv, StackInv
  <1>7. Own(n) # Null /\ Own(n) \in Addrs
    BY SchedAssumption DEF Own, Boot, Null, Slots, Addrs
  <1>8. \A i \in Slots : Half(i)' = Half(i)
    BY DEF Half
  <1>9. saved_esp[n] = Null <=> Half(n)
    <2>1. CASE Half(n)
      BY <2>1 DEF IInv, AddInv, Half
    <2>2. CASE ~Half(n)
      BY <2>2, <1>0, <1>7 DEF IInv, CpuInv
    <2> QED
      BY <2>1, <2>2
  <1>10. CASE Half(n)
    <2>1. cpu' = "lost" /\ ctx' = ctx /\ g_cur' = n
      BY <1>6, <1>9, <1>10 DEF Resume
    <2>2. TypeOK'
      BY <1>0, <1>3, <1>4, <1>5, <2>1, PushOwn DEF TypeOK, Cpu
    <2>3. KernelAlive'
      BY <1>0, <1>3, <2>1, SchedAssumption DEF IInv, KernelAlive, Live, Slots
    <2>4. PidInv'
      BY <1>0, <1>1, <1>3 DEF IInv, PidInv, Live
    <2>5. StackInv'
      BY <1>0, <1>1, <1>3, <1>4, <1>8 DEF IInv, StackInv, Live, Own
    <2>6. AddInv'
      BY <1>0, <1>1, <1>3, <1>4, <1>10, <2>1 DEF IInv, AddInv, Half, Live
    <2>7. CpuInv'
      BY <1>8, <1>10, <2>1 DEF CpuInv, Half
    <2> QED
      BY <2>2, <2>3, <2>4, <2>5, <2>6, <2>7 DEF IInv
  <1>11. CASE ~Half(n)
    <2>1. cpu' = "task" /\ g_cur' = n /\ ctx' = Pushed[Own(n)]
      BY <1>0, <1>6, <1>7, <1>9, <1>11 DEF Resume
    <2>2. Pushed[Own(n)] = tpid[n]
      BY <1>0, <1>1, <1>11, PushOwn DEF IInv, CpuInv
    <2>3. TypeOK'
      BY <1>0, <1>3, <1>4, <1>5, <2>1, <2>2, PushOwn DEF TypeOK, Cpu
    <2>4. KernelAlive'
      BY <1>0, <1>3, <2>1, SchedAssumption DEF IInv, KernelAlive, Live, Slots
    <2>5. PidInv'
      BY <1>0, <1>1, <1>3 DEF IInv, PidInv, Live
    <2>6. StackInv'
      BY <1>0, <1>1, <1>3, <1>4, <1>8 DEF IInv, StackInv, Live, Own
    <2>7. AddInv'
      BY <1>0, <1>1, <1>3, <1>4, <1>11, <2>1 DEF IInv, AddInv, Half, Live
    <2>8. CpuInv'
      <3>1. \A i \in Slots : tstate'[i] = "RUNNING" <=> i = n
        BY <1>0, <1>1, <1>3 DEF IInv, CpuInv
      <3>2. ASSUME NEW i \in Slots, tstate'[i] = "RUNNABLE", ~Half(i)
            PROVE  saved_esp'[i] = Own(i) /\ Pushed[Own(i)] = tpid[i]
        <4>1. CASE i = g_cur
          BY <3>2, <4>1, <1>0, <1>4, PushOwn
        <4>2. CASE i # g_cur
          <5>1. tstate[i] = "RUNNABLE"
            BY <3>1, <3>2, <4>2, <1>3
          <5> QED
            BY <3>2, <4>2, <5>1, <1>0, <1>4, PushOwn DEF IInv, CpuInv
        <4> QED
          BY <4>1, <4>2
      <3>3. n # 0 => esp0' = n
        <4>1. n # 0 => kstack_top[n] = n
          BY <1>11 DEF IInv, StackInv, Live
        <4> QED
          BY <4>1, SchedAssumption DEF Null, Slots
      <3> QED
        BY <1>8, <2>1, <2>2, <3>1, <3>2, <3>3 DEF CpuInv, Own
    <2> QED
      BY <2>3, <2>4, <2>5, <2>6, <2>7, <2>8 DEF IInv
  <1> QED
    BY <1>10, <1>11

----------------------------------------------------------------------------
(* One lemma per group of actions *)

\* What the invariant says of the task states while a context runs.
LEMMA RunningIsCur ==
    ASSUME IInv, cpu = "task"
    PROVE  /\ g_cur \in Slots
           /\ tstate \in [Slots -> TaskStates]
           /\ \A i \in Slots : tstate[i] = "RUNNING" <=> i = g_cur
           /\ \A i \in Slots : Live(tstate[i]) <=>
                                tstate[i] = "RUNNABLE" \/ i = g_cur
           /\ g_cur # 0 => 0 \in Slots /\ tstate[0] = "RUNNABLE"
  <1>1. g_cur \in Slots /\ tstate \in [Slots -> TaskStates] /\ 0 \in Slots
    BY SchedAssumption DEF IInv, TypeOK, Slots
  <1>2. \A i \in Slots : tstate[i] = "RUNNING" <=> i = g_cur
    BY DEF IInv, CpuInv
  <1> QED
    BY <1>1, <1>2 DEF IInv, KernelAlive, Live, TaskStates

LEMMA TimerInv == IInv /\ TimerIrq => IInv'
  <1> SUFFICES ASSUME IInv, TimerIrq PROVE IInv'
    OBVIOUS
  <1>0. Handler /\ cpu = "task"
    BY DEF TimerIrq, Handler
  <1> DEFINE sv == [saved_esp EXCEPT ![g_cur] = PushAddr]
             st == [tstate EXCEPT ![g_cur] = "RUNNABLE"]
  <1>1. PICK n \in Slots :
           /\ Pick(tstate, n, g_rr')
           /\ IF n = g_cur /\ tstate[n] = "RUNNING"
                THEN saved_esp' = sv /\ ReturnToCurrent
                ELSE SwitchTo(n, st, sv)
    <2>1. [tstate EXCEPT ![g_cur] = IF @ = "RUNNING" THEN "RUNNABLE" ELSE @] = st
      BY <1>0, RunningIsCur
    <2> QED
      BY <2>1 DEF TimerIrq
  <1>2. CASE \E i \in Slots : tstate[i] = "RUNNABLE"
    <2>1. tstate[n] = "RUNNABLE" /\ g_rr' \in Slots
      BY <1>0, <1>1, <1>2, PickRunnable, RunningIsCur
    <2>2. SwitchTo(n, st, sv)
      BY <1>1, <2>1
    <2> QED
      BY <1>0, <2>1, <2>2, SwitchInv
  <1>3. CASE \A i \in Slots : tstate[i] # "RUNNABLE"
    <2>1. n = g_cur /\ g_rr' = g_rr
      BY <1>0, <1>1, <1>3, PickAlone, RunningIsCur
    <2>2. saved_esp' = sv /\ ReturnToCurrent /\ g_rr' \in Slots
      BY <1>0, <1>1, <2>1, RunningIsCur DEF IInv, TypeOK
    <2> QED
      BY <1>0, <2>2, ReturnInv
  <1> QED
    BY <1>2, <1>3

LEMMA YieldInv == IInv /\ SysYield => IInv'
  <1> SUFFICES ASSUME IInv, SysYield PROVE IInv'
    OBVIOUS
  <1>0. Handler /\ cpu = "task" /\ g_cur # 0
    BY PushOwn DEF SysYield, Handler
  <1> DEFINE sv == [saved_esp EXCEPT ![g_cur] = PushAddr]
             st == [tstate EXCEPT ![g_cur] = "RUNNABLE"]
  <1>1. PICK n \in Slots :
           /\ Pick(tstate, n, g_rr')
           /\ IF n = g_cur
                THEN ReturnToCurrent /\ UNCHANGED saved_esp
                ELSE SwitchTo(n, st, sv)
    BY DEF SysYield
  <1>2. tstate[n] = "RUNNABLE" /\ g_rr' \in Slots
    BY <1>0, <1>1, PickRunnable, RunningIsCur
  <1>3. SwitchTo(n, st, sv)
    BY <1>0, <1>1, <1>2, RunningIsCur
  <1> QED
    BY <1>0, <1>2, <1>3, SwitchInv

\* sched_exit always finds the shell runnable: it switches and never stops.
LEMMA ExitSwitches ==
    ASSUME IInv, Handler, ctx # 0, SchedExit
    PROVE  \E n \in Slots :
              /\ tstate[n] = "RUNNABLE"
              /\ g_rr' \in Slots
              /\ g_cur # 0
              /\ Pick([tstate EXCEPT ![g_cur] = "ZOMBIE"], n, g_rr')
              /\ SwitchTo(n, [tstate EXCEPT ![g_cur] = "ZOMBIE"], saved_esp)
  <1> DEFINE st == [tstate EXCEPT ![g_cur] = "ZOMBIE"]
  <1>0. cpu = "task" /\ g_cur # 0
    BY PushOwn DEF Handler
  <1>1. st \in [Slots -> TaskStates] /\ st[g_cur] = "ZOMBIE"
        /\ \A i \in Slots : i # g_cur => st[i] = tstate[i]
    BY <1>0, RunningIsCur DEF TaskStates
  <1>2. PICK n \in Slots :
           /\ Pick(st, n, g_rr')
           /\ n # g_cur => SwitchTo(n, st, saved_esp)
    BY DEF SchedExit
  <1>3. \E i \in Slots : st[i] = "RUNNABLE"
    BY <1>0, <1>1, RunningIsCur
  <1>4. st[n] = "RUNNABLE" /\ g_rr' \in Slots
    BY <1>1, <1>2, <1>3, PickRunnable
  <1>5. n # g_cur /\ tstate[n] = "RUNNABLE"
    BY <1>1, <1>4
  <1> QED
    BY <1>0, <1>2, <1>4, <1>5

LEMMA ExitInv == IInv /\ (SysExit \/ UserFault) => IInv'
  <1> SUFFICES ASSUME IInv, Handler, ctx # 0, SchedExit PROVE IInv'
    BY DEF SysExit, UserFault
  <1> QED
    BY ExitSwitches, SwitchInv

LEMMA QuietInv == IInv /\ (OtherIrq \/ SysOther) => IInv'
  <1> SUFFICES ASSUME IInv, Handler, ReturnToCurrent,
                      UNCHANGED <<g_rr, saved_esp>>
               PROVE  IInv'
    BY DEF OtherIrq, SysOther
  <1>1. g_rr' \in Slots
    BY DEF IInv, TypeOK
  <1> QED
    BY <1>1, ReturnInv

LEMMA FaultInv == IInv /\ KernelFault => IInv'
  <1> SUFFICES ASSUME IInv, KernelFault PROVE IInv'
    OBVIOUS
  <1> USE DEF KernelFault, Handler, adding
  <1>1. TypeOK'
    BY PushOwn DEF IInv, TypeOK, Cpu
  <1>2. KernelAlive' /\ PidInv'
    BY DEF IInv, KernelAlive, PidInv, Live
  <1>3. StackInv'
    BY DEF IInv, StackInv, Half, Own, Live
  <1>4. AddInv'
    BY DEF IInv, AddInv
  <1>5. CpuInv'
    BY DEF CpuInv
  <1> QED
    BY <1>1, <1>2, <1>3, <1>4, <1>5 DEF IInv

\* sched_add's steps before the slot is published leave every live task alone.
LEMMA AddEarlyInv == IInv /\ (AddCall \/ AddScan \/ AddClaim) => IInv'
  <1> SUFFICES ASSUME IInv, AddCall \/ AddScan \/ AddClaim PROVE IInv'
    OBVIOUS
  <1> USE SchedAssumption DEF ShellAt, ShellFrame, tasks
  <1>0. TypeOK /\ cpu = "task"
    BY DEF IInv, AddCall, AddScan, AddClaim
  <1>1. CASE AddCall \/ AddScan
    <2> USE <1>1 DEF AddCall, AddScan
    <2>1. TypeOK'
      BY <1>0 DEF TypeOK, AddPc
    <2>2. KernelAlive' /\ PidInv'
      BY DEF IInv, KernelAlive, PidInv, Live
    <2>3. \A i \in Slots : ~Half(i) /\ ~Half(i)'
      BY DEF Half
    <2>4. StackInv'
      BY <2>3 DEF IInv, StackInv, Own, Live
    <2>5. AddInv'
      BY <1>0 DEF IInv, AddInv, TypeOK, Slots, KernelAlive, Live
    <2>6. CpuInv'
      BY <1>0, <2>3 DEF IInv, CpuInv, Own
    <2> QED
      BY <2>1, <2>2, <2>4, <2>5, <2>6 DEF IInv
  <1>2. CASE AddClaim
    <2> USE <1>2 DEF AddClaim
    <2>1. /\ add_i \in Slots /\ add_i # 0 /\ ~Live(tstate[add_i])
          /\ g_next_pid \in 1 .. MaxPid
      BY <1>0 DEF IInv, AddInv, TypeOK
    <2>2. TypeOK'
      BY <1>0, <2>1 DEF TypeOK, TaskStates, AddPc, Pids, Null
    <2>3. KernelAlive'
      BY <1>0, <2>1 DEF IInv, KernelAlive, TypeOK, Slots
    <2>4. PidInv'
      BY <1>0, <2>1 DEF IInv, PidInv, TypeOK, Live, Pids, Slots
    <2>5. \A i \in Slots : ~Half(i) /\ ~Half(i)'
      BY DEF Half
    <2>6. StackInv'
      BY <1>0, <2>1, <2>5 DEF IInv, StackInv, TypeOK, Own, Live, Slots
    <2>7. AddInv'
      BY <1>0, <2>1 DEF IInv, AddInv, TypeOK, Live, Slots
    <2>8. CpuInv'
      BY <1>0, <2>1, <2>5 DEF IInv, CpuInv, TypeOK, Own, Live, Slots
    <2> QED
      BY <2>2, <2>3, <2>4, <2>6, <2>7, <2>8 DEF IInv
  <1> QED
    BY <1>1, <1>2

\* From the publication on, the slot is live but half built until the last step.
LEMMA AddLateInv == IInv /\ (AddPublish \/ AddSetStack \/ AddBuildFrame) => IInv'
  <1> SUFFICES ASSUME IInv, AddPublish \/ AddSetStack \/ AddBuildFrame
               PROVE  IInv'
    OBVIOUS
  <1> USE SchedAssumption DEF ShellAt, ShellFrame
  <1>0. TypeOK /\ cpu = "task" /\ add_i \in Slots /\ add_i # 0
    BY DEF IInv, AddInv, AddPublish, AddSetStack, AddBuildFrame
  <1>1. CASE AddPublish
    <2> USE <1>1 DEF AddPublish
    <2>1. TypeOK'
      BY <1>0 DEF TypeOK, TaskStates, AddPc
    <2>2. KernelAlive'
      BY <1>0 DEF IInv, KernelAlive, TypeOK, Slots
    <2>3. PidInv'
      BY <1>0 DEF IInv, PidInv, AddInv, TypeOK, Live
    <2>4. \A i \in Slots : ~Half(i) /\ (Half(i)' <=> i = add_i)
      BY DEF Half
    <2>5. StackInv'
      BY <1>0, <2>4 DEF IInv, StackInv, TypeOK, Own, Live
    <2>6. AddInv'
      BY <1>0 DEF IInv, AddInv, TypeOK
    <2>7. CpuInv'
      BY <1>0, <2>4 DEF IInv, AddInv, CpuInv, TypeOK, Own, Live
    <2> QED
      BY <2>1, <2>2, <2>3, <2>5, <2>6, <2>7 DEF IInv
  <1>2. CASE AddSetStack
    <2> USE <1>2 DEF AddSetStack
    <2>1. TypeOK'
      BY <1>0 DEF TypeOK, AddPc
    <2>2. KernelAlive' /\ PidInv'
      BY DEF IInv, KernelAlive, PidInv, Live
    <2>3. \A i \in Slots : (Half(i)' <=> i = add_i) /\ (Half(i) <=> i = add_i)
      BY DEF Half
    <2>4. StackInv'
      BY <1>0, <2>3 DEF IInv, StackInv, TypeOK, Own, Live, Slots
    <2>5. AddInv'
      BY <1>0 DEF IInv, AddInv, TypeOK
    <2>6. CpuInv'
      BY <1>0, <2>3 DEF IInv, CpuInv, Own
    <2> QED
      BY <2>1, <2>2, <2>4, <2>5, <2>6 DEF IInv
  <1>3. CASE AddBuildFrame
    <2> USE <1>3 DEF AddBuildFrame
    <2>1. kstack_top[add_i] = add_i /\ add_i \in Addrs /\ Own(add_i) = add_i
          /\ tstate[add_i] = "RUNNABLE"
      BY <1>0 DEF IInv, AddInv, Slots, Addrs, Own
    <2>2. TypeOK'
      BY <1>0, <2>1 DEF TypeOK, AddPc, Slots, Addrs, Pids
    <2>3. KernelAlive' /\ PidInv'
      BY DEF IInv, KernelAlive, PidInv, Live
    <2>4. \A i \in Slots : ~Half(i)' /\ (Half(i) <=> i = add_i)
      BY DEF Half
    <2>5. StackInv'
      BY <1>0, <2>1, <2>4 DEF IInv, StackInv, TypeOK, Own, Live, Slots
    <2>6. AddInv'
      BY <1>0 DEF AddInv
    <2>7. \A i \in Slots : i # add_i =>
             Own(i) # add_i /\ Own(i) \in Addrs /\ frame'[Own(i)] = frame[Own(i)]
      BY <1>0, <2>1 DEF Own, Boot, Slots, Addrs, TypeOK
    <2>8. CpuInv'
      <3>1. \A i \in Slots : tstate[i] = "RUNNABLE" =>
               saved_esp'[i] = Own(i) /\ frame'[Own(i)] = tpid[i]
        BY <1>0, <2>1, <2>4, <2>7 DEF IInv, CpuInv, TypeOK
      <3> QED
        BY <1>0, <3>1 DEF IInv, CpuInv, Own
    <2> QED
      BY <2>2, <2>3, <2>5, <2>6, <2>8 DEF IInv
  <1> QED
    BY <1>1, <1>2, <1>3

LEMMA StutterInv == IInv /\ UNCHANGED vars => IInv'
  <1> SUFFICES ASSUME IInv, UNCHANGED vars PROVE IInv'
    OBVIOUS
  <1> USE DEF vars, tasks, adding
  <1>1. TypeOK' /\ KernelAlive' /\ PidInv'
    BY DEF IInv, TypeOK, KernelAlive, PidInv, Live
  <1>2. StackInv' /\ AddInv' /\ CpuInv'
    BY DEF IInv, StackInv, AddInv, CpuInv, Live, Half, Own
  <1> QED
    BY <1>1, <1>2 DEF IInv

LEMMA NextInv == IInv /\ [Next]_vars => IInv'
  BY TimerInv, YieldInv, ExitInv, QuietInv, FaultInv, AddEarlyInv,
     AddLateInv, StutterInv DEF Next, ShellStep, Down

\* IInv holds in every reachable state, for every MaxTasks and MaxPid.
THEOREM Invariance == Spec => []IInv
  BY InitInv, NextInv, PTL DEF Spec

----------------------------------------------------------------------------
(* Consequences *)

\* Every variable of the scheduler stays in its domain: in particular g_rr and
\* g_cur always index the task table.
THEOREM TypeCorrect == Spec => []TypeOK
  <1>1. IInv => TypeOK
    BY DEF IInv
  <1> QED
    BY <1>1, Invariance, PTL

\* The running context is always the one of the task g_cur names.
THEOREM ContextCorrect == Spec => []ContextIsCurrent
  <1>1. IInv => ContextIsCurrent
    BY DEF IInv, CpuInv, ContextIsCurrent
  <1> QED
    BY <1>1, Invariance, PTL

\* No interrupt, switch or spawn ever overwrites the frame of a waiting task.
THEOREM FramesStayIntact == Spec => []FrameIntact
  <1>1. IInv => FrameIntact
    <2> SUFFICES ASSUME IInv, cpu = "task" PROVE FrameIntact
      BY DEF FrameIntact
    <2>1. ASSUME NEW i \in Slots, tstate[i] = "RUNNABLE", saved_esp[i] # Null
          PROVE  saved_esp[i] = Own(i) /\ frame[saved_esp[i]] = tpid[i]
      <3>1. ~Half(i)
        BY <2>1 DEF IInv, AddInv, Half
      <3> QED
        BY <2>1, <3>1 DEF IInv, CpuInv
    <2>2. ctx # 0 => esp0 = g_cur
      BY PushOwn DEF IInv, CpuInv
    <2> QED
      BY <2>1, <2>2 DEF FrameIntact, Own
  <1> QED
    BY <1>1, Invariance, PTL

\* No two live tasks ever share a pid.
THEOREM PidsUnique == Spec => []UniquePids
  <1>1. IInv => UniquePids
    BY DEF IInv, PidInv, UniquePids
  <1> QED
    BY <1>1, Invariance, PTL

\* The window inside sched_add is the only way to lose the CPU: the shell's slot
\* stays live, and sched_exit's idle loop is never entered.
THEOREM OnlyAddLosesCpu == Spec => []LostOnlyInAdd
  <1>1. IInv => LostOnlyInAdd
    BY DEF IInv, CpuInv, Half, LostOnlyInAdd
  <1> QED
    BY <1>1, Invariance, PTL

----------------------------------------------------------------------------
(* Round robin *)

\* Moving g_rr behind the first runnable slot brings every later one closer.
LEMMA StepDecreases ==
    ASSUME g_rr \in Slots, NEW n \in Slots, NEW i \in Slots, i # n,
           Step(n) <= Step(i),
           g_rr' = IF n = MaxTasks - 1 THEN 0 ELSE n + 1
    PROVE  Step(i)' < Step(i)
  BY SchedAssumption DEF Step, Slots

LEMMA RoundRobinStep ==
    ASSUME IInv, Next, g_cur' # g_cur,
           NEW i \in Slots, tstate[i] = "RUNNABLE", tstate'[i] = "RUNNABLE"
    PROVE  Step(i)' < Step(i)
  <1>0. /\ cpu = "task" /\ Handler
        /\ TimerIrq \/ SysYield \/ (ctx # 0 /\ SchedExit)
    BY DEF Next, OtherIrq, SysOther, KernelFault, ReturnToCurrent, AddCall,
           ShellStep, AddScan, AddClaim, AddPublish, AddSetStack, AddBuildFrame,
           ShellFrame, Down, vars, Handler, TimerIrq, SysYield, SysExit, UserFault
  <1>1. \E st \in [Slots -> TaskStates] : \E n \in Slots :
           /\ Pick(st, n, g_rr')
           /\ tstate'[n] = "RUNNING"
           /\ \A j \in Slots : j # g_cur => st[j] = tstate[j]
    <2>1. CASE TimerIrq \/ SysYield
      <3>1. PICK n \in Slots :
               /\ Pick(tstate, n, g_rr')
               /\ g_cur' = n
               /\ \E st \in [Slots -> TaskStates] :
                     tstate' = [st EXCEPT ![n] = "RUNNING"]
        <4>1. ASSUME NEW x \in TaskStates
              PROVE  [tstate EXCEPT ![g_cur] = x] \in [Slots -> TaskStates]
          BY <1>0, RunningIsCur
        <4>2. "RUNNABLE" \in TaskStates
          BY DEF TaskStates
        <4>3. CASE TimerIrq
          <5>1. [tstate EXCEPT ![g_cur] =
                   IF @ = "RUNNING" THEN "RUNNABLE" ELSE @]
                \in [Slots -> TaskStates]
            BY <1>0, <4>2, RunningIsCur
          <5> QED
            BY <4>3, <5>1 DEF TimerIrq, ReturnToCurrent, SwitchTo
        <4>4. CASE SysYield
          BY <4>4, <4>1, <4>2 DEF SysYield, ReturnToCurrent, SwitchTo
        <4> QED
          BY <2>1, <4>3, <4>4
      <3> QED
        BY <1>0, <3>1, RunningIsCur
    <2>2. CASE ctx # 0 /\ SchedExit
      <3> DEFINE st == [tstate EXCEPT ![g_cur] = "ZOMBIE"]
      <3>1. PICK n \in Slots : Pick(st, n, g_rr') /\ SwitchTo(n, st, saved_esp)
        BY <1>0, <2>2, ExitSwitches
      <3>2. st \in [Slots -> TaskStates]
            /\ \A j \in Slots : j # g_cur => st[j] = tstate[j]
        BY <1>0, RunningIsCur DEF TaskStates
      <3>3. tstate'[n] = "RUNNING"
        BY <3>1, <3>2 DEF SwitchTo
      <3> QED
        BY <3>1, <3>2, <3>3
    <2> QED
      BY <1>0, <2>1, <2>2
  <1>2. PICK st \in [Slots -> TaskStates], n \in Slots :
           /\ Pick(st, n, g_rr')
           /\ tstate'[n] = "RUNNING"
           /\ \A j \in Slots : j # g_cur => st[j] = tstate[j]
    BY <1>1
  <1>3. i # g_cur /\ i # n
    BY <1>0, <1>2, RunningIsCur
  <1>4. st[i] = "RUNNABLE"
    BY <1>2, <1>3
  <1>5. Step(n) <= Step(i) /\ g_rr' = IF n = MaxTasks - 1 THEN 0 ELSE n + 1
    BY <1>2, <1>4, PickRunnable
  <1>6. g_rr \in Slots
    BY DEF IInv, TypeOK
  <1> QED
    BY <1>3, <1>5, <1>6, StepDecreases

\* Round robin for every table size: each change of hands brings every task
\* that keeps waiting strictly closer to the front of the scan.
THEOREM RoundRobinFair == Spec => RoundRobin
  <1>1. IInv /\ [Next]_vars =>
          [g_cur' # g_cur =>
             \A i \in Slots :
                tstate[i] = "RUNNABLE" /\ tstate'[i] = "RUNNABLE"
                  => Step(i)' < Step(i)]_vars
    BY RoundRobinStep
  <1> QED
    BY <1>1, Invariance, PTL DEF Spec, RoundRobin

----------------------------------------------------------------------------
(* Refinement of TaskSet *)

\* The waiting pids after a switch to slot n: n's is gone, and the outgoing
\* task's is there exactly if it still waits.
LEMMA ReadyAfterSwitch ==
    ASSUME IInv, cpu = "task", NEW n \in Slots, tstate[n] = "RUNNABLE",
           NEW st, tpid' = tpid, cpu' = "task",
           tstate' = [st EXCEPT ![n] = "RUNNING"],
           \/ st = [tstate EXCEPT ![g_cur] = "RUNNABLE"]
           \/ st = [tstate EXCEPT ![g_cur] = "ZOMBIE"]
    PROVE  /\ tpid[n] \in AbsReady
           /\ st[g_cur] = "RUNNABLE" =>
                AbsReady' = (AbsReady \ {tpid[n]}) \cup {tpid[g_cur]}
           /\ st[g_cur] = "ZOMBIE" => AbsReady' = AbsReady \ {tpid[n]}
  <1>1. /\ g_cur \in Slots /\ tstate \in [Slots -> TaskStates]
        /\ tstate[g_cur] = "RUNNING" /\ n # g_cur
    BY RunningIsCur
  <1>2. \A i, j \in Slots : /\ tstate[i] = "RUNNABLE" \/ i = g_cur
                            /\ tstate[j] = "RUNNABLE" \/ j = g_cur
                            /\ tpid[i] = tpid[j]
                            => i = j
    BY RunningIsCur DEF IInv, PidInv
  <1>3. /\ tstate'[n] = "RUNNING"
        /\ tstate'[g_cur] = st[g_cur]
        /\ \A i \in Slots : i # n /\ i # g_cur => tstate'[i] = tstate[i]
    BY <1>1
  <1>4. AbsReady = {tpid[i] : i \in {j \in Slots : tstate[j] = "RUNNABLE"}}
    BY DEF AbsReady
  <1>5. AbsReady' = {tpid[i] : i \in {j \in Slots : tstate'[j] = "RUNNABLE"}}
    BY DEF AbsReady
  <1>6. tpid[n] \in AbsReady
    BY <1>4
  <1>7. \A p : p \in AbsReady <=>
               \E i \in Slots : tstate[i] = "RUNNABLE" /\ tpid[i] = p
    BY <1>4
  <1>8. \A p : p \in AbsReady' <=>
               \E i \in Slots : tstate'[i] = "RUNNABLE" /\ tpid[i] = p
    BY <1>5
  <1>9. ASSUME st[g_cur] = "RUNNABLE"
        PROVE  AbsReady' = (AbsReady \ {tpid[n]}) \cup {tpid[g_cur]}
    <2>1. ASSUME NEW p \in AbsReady'
          PROVE  p \in (AbsReady \ {tpid[n]}) \cup {tpid[g_cur]}
      BY <1>1, <1>2, <1>3, <1>7, <1>8
    <2>2. ASSUME NEW p \in (AbsReady \ {tpid[n]}) \cup {tpid[g_cur]}
          PROVE  p \in AbsReady'
      BY <1>1, <1>3, <1>7, <1>8, <1>9
    <2> QED
      BY <2>1, <2>2
  <1>10. ASSUME st[g_cur] = "ZOMBIE"
         PROVE  AbsReady' = AbsReady \ {tpid[n]}
    <2>1. ASSUME NEW p \in AbsReady' PROVE p \in AbsReady \ {tpid[n]}
      BY <1>1, <1>2, <1>3, <1>7, <1>8, <1>10
    <2>2. ASSUME NEW p \in AbsReady \ {tpid[n]} PROVE p \in AbsReady'
      BY <1>1, <1>3, <1>7, <1>8
    <2> QED
      BY <2>1, <2>2
  <1> QED
    BY <1>6, <1>9, <1>10

LEMMA SwitchRefines ==
    ASSUME IInv, IInv', Handler,
           NEW n \in Slots, tstate[n] = "RUNNABLE",
           NEW st, NEW sv, SwitchTo(n, st, sv),
           \/ st = [tstate EXCEPT ![g_cur] = "RUNNABLE"]
           \/ st = [tstate EXCEPT ![g_cur] = "ZOMBIE"] /\ ctx # 0
    PROVE  Abs!TSNext
  <1> USE DEF Handler, SwitchTo, adding
  <1>1. /\ cpu = "task" /\ ctx = tpid[g_cur] /\ ctx \in Pids
        /\ AbsRunning = ctx /\ AbsIssued' = AbsIssued
    BY PushOwn DEF IInv, CpuInv, AbsRunning, AbsIssued
  <1>2. ctx # NoCtx
    BY <1>1, SchedAssumption DEF Pids, NoCtx
  <1>3. CASE cpu' = "task"
    <2>1. AbsRunning' = tpid[n]
      BY <1>3 DEF IInv, CpuInv, AbsRunning
    <2>2. st[g_cur] = "RUNNABLE" \/ (st[g_cur] = "ZOMBIE" /\ ctx # 0)
      BY <1>1, RunningIsCur
    <2>3. tpid[n] \in AbsReady
      BY <1>1, <1>3, ReadyAfterSwitch
    <2>4. CASE st[g_cur] = "RUNNABLE"
      <3>1. AbsReady' = (AbsReady \ {tpid[n]}) \cup {AbsRunning}
        BY <1>1, <1>3, <2>4, ReadyAfterSwitch
      <3> QED
        BY <1>1, <1>2, <2>1, <2>3, <3>1 DEF Abs!TSNext, Abs!Dispatch, Abs!None, NoCtx
    <2>5. CASE st[g_cur] = "ZOMBIE" /\ ctx # 0
      <3>1. AbsReady' = AbsReady \ {tpid[n]}
        BY <1>1, <1>3, <2>5, ReadyAfterSwitch
      <3> QED
        BY <1>1, <1>2, <2>1, <2>3, <2>5, <3>1
           DEF Abs!TSNext, Abs!End, Abs!None, Abs!Shell, NoCtx
    <2> QED
      BY <2>2, <2>4, <2>5
  <1>4. CASE cpu' # "task"
    <2>1. AbsRunning' = NoCtx /\ AbsReady' = {}
      BY <1>4 DEF AbsRunning, AbsReady
    <2> QED
      BY <1>1, <1>2, <2>1 DEF Abs!TSNext, Abs!Stop, Abs!None, NoCtx
  <1> QED
    BY <1>3, <1>4

\* Handlers that return to the interrupted context, and sched_add's steps other
\* than the publication, are invisible in TaskSet.
LEMMA Invisible ==
    ASSUME cpu' = cpu, ctx' = ctx, AbsIssued' = AbsIssued,
           AbsReady' = AbsReady
    PROVE  UNCHANGED Abs!tvars
  BY DEF Abs!tvars, AbsRunning

LEMMA StepRefines ==
    ASSUME IInv, IInv', [Next]_vars
    PROVE  [Abs!TSNext]_(Abs!tvars)
  <1> DEFINE Goal == Abs!TSNext \/ UNCHANGED Abs!tvars
  <1>1. ASSUME Handler, ReturnToCurrent PROVE Goal
    <2>1. AbsReady' = AbsReady /\ AbsIssued' = AbsIssued
      BY <1>1 DEF Handler, ReturnToCurrent, adding, AbsReady, AbsIssued
    <2> QED
      BY <1>1, <2>1, Invisible DEF ReturnToCurrent
  <1>2. CASE TimerIrq
    <2>0. Handler /\ cpu = "task"
      BY <1>2 DEF TimerIrq, Handler
    <2> DEFINE sv == [saved_esp EXCEPT ![g_cur] = PushAddr]
               st == [tstate EXCEPT ![g_cur] = "RUNNABLE"]
    <2>1. [tstate EXCEPT ![g_cur] = IF @ = "RUNNING" THEN "RUNNABLE" ELSE @] = st
      BY <2>0, RunningIsCur
    <2>2. PICK n \in Slots :
             /\ Pick(tstate, n, g_rr')
             /\ IF n = g_cur /\ tstate[n] = "RUNNING"
                  THEN ReturnToCurrent
                  ELSE SwitchTo(n, st, sv)
      BY <1>2, <2>1 DEF TimerIrq
    <2>3. CASE \E i \in Slots : tstate[i] = "RUNNABLE"
      <3>1. tstate[n] = "RUNNABLE"
        BY <2>0, <2>2, <2>3, PickRunnable, RunningIsCur
      <3> QED
        BY <2>0, <2>2, <3>1, SwitchRefines
    <2>4. CASE \A i \in Slots : tstate[i] # "RUNNABLE"
      <3>1. n = g_cur
        BY <2>0, <2>2, <2>4, PickAlone, RunningIsCur
      <3> QED
        BY <1>1, <2>0, <2>2, <3>1, RunningIsCur
    <2> QED
      BY <2>3, <2>4
  <1>3. CASE SysYield
    <2>0. Handler /\ cpu = "task"
      BY <1>3 DEF SysYield, Handler
    <2> DEFINE sv == [saved_esp EXCEPT ![g_cur] = PushAddr]
               st == [tstate EXCEPT ![g_cur] = "RUNNABLE"]
    <2>1. PICK n \in Slots :
             /\ Pick(tstate, n, g_rr')
             /\ IF n = g_cur THEN ReturnToCurrent ELSE SwitchTo(n, st, sv)
      BY <1>3 DEF SysYield
    <2>2. CASE n = g_cur
      BY <1>1, <2>0, <2>1, <2>2
    <2>3. CASE n # g_cur
      <3>1. tstate[n] = "RUNNABLE"
        <4>1. g_cur # 0
          BY <1>3, <2>0, PushOwn DEF SysYield
        <4> QED
          BY <2>0, <2>1, <4>1, PickRunnable, RunningIsCur
      <3> QED
        BY <2>0, <2>1, <2>3, <3>1, SwitchRefines
    <2> QED
      BY <2>2, <2>3
  <1>4. CASE SysExit \/ UserFault
    <2>1. Handler /\ ctx # 0 /\ SchedExit
      BY <1>4 DEF SysExit, UserFault
    <2> QED
      BY <2>1, ExitSwitches, SwitchRefines
  <1>5. CASE OtherIrq \/ SysOther
    BY <1>1, <1>5 DEF OtherIrq, SysOther
  <1>6. CASE KernelFault
    <2>1. AbsRunning' = NoCtx /\ AbsReady' = {} /\ AbsIssued' = AbsIssued
      BY <1>6 DEF KernelFault, Handler, adding, AbsRunning, AbsReady, AbsIssued
    <2>2. AbsRunning = ctx /\ ctx \in Pids
      BY <1>6, PushOwn DEF KernelFault, Handler, AbsRunning
    <2> QED
      BY <2>1, <2>2, SchedAssumption DEF Abs!TSNext, Abs!Stop, Abs!None, NoCtx, Pids
  <1>7. CASE AddCall \/ AddScan \/ AddSetStack \/ AddBuildFrame
    <2> USE <1>7 DEF AddCall, AddScan, AddSetStack, AddBuildFrame, ShellAt,
                     ShellFrame, tasks
    <2>1. AbsReady' = AbsReady /\ AbsIssued' = AbsIssued
      BY DEF AbsReady, AbsIssued
    <2> QED
      BY <2>1, Invisible
  <1>8. CASE AddClaim
    <2> USE <1>8 DEF AddClaim, ShellAt, ShellFrame
    <2>1. /\ add_i \in Slots /\ ~Live(tstate[add_i]) /\ g_next_pid \in Int
          /\ tstate \in [Slots -> TaskStates] /\ tpid \in [Slots -> Pids]
      BY SchedAssumption DEF IInv, AddInv, TypeOK
    <2>2. AbsIssued' = AbsIssued
      BY <2>1 DEF AbsIssued
    <2>3. {j \in Slots : tstate'[j] = "RUNNABLE"}
            = {j \in Slots : tstate[j] = "RUNNABLE"}
      BY <2>1 DEF Live
    <2>4. \A i \in {j \in Slots : tstate[j] = "RUNNABLE"} : tpid'[i] = tpid[i]
      BY <2>1 DEF Live
    <2>5. AbsReady' = AbsReady
      BY <2>3, <2>4 DEF AbsReady
    <2> QED
      BY <2>2, <2>5, Invisible
  <1>9. CASE AddPublish
    <2> USE <1>9 DEF AddPublish, ShellAt, ShellFrame
    <2>1. /\ add_i \in Slots /\ g_next_pid \in Int
          /\ tstate \in [Slots -> TaskStates] /\ tpid \in [Slots -> Pids]
          /\ cpu = "task" /\ ctx = 0
      BY SchedAssumption DEF IInv, AddInv, TypeOK
    <2>2. AbsIssued' = AbsIssued + 1 /\ AbsRunning = 0 /\ AbsRunning' = 0
      BY <2>1 DEF AbsIssued, AbsRunning
    <2>3. {j \in Slots : tstate'[j] = "RUNNABLE"}
            = {j \in Slots : tstate[j] = "RUNNABLE"} \cup {add_i}
      BY <2>1
    <2>4. AbsReady' = AbsReady \cup {tpid[add_i]}
      BY <2>1, <2>3 DEF AbsReady
    <2>5. tpid[add_i] = AbsIssued'
      BY <2>1 DEF IInv, AddInv, AbsIssued
    <2> QED
      BY <2>2, <2>4, <2>5 DEF Abs!TSNext, Abs!Spawn, Abs!Shell
  <1>10. CASE Down \/ UNCHANGED vars
    <2>1. AbsReady' = AbsReady /\ AbsIssued' = AbsIssued
      BY <1>10 DEF Down, vars, tasks, adding, AbsReady, AbsIssued
    <2> QED
      BY <1>10, <2>1, Invisible DEF Down, vars
  <1> QED
    BY <1>2, <1>3, <1>4, <1>5, <1>6, <1>7, <1>8, <1>9, <1>10 DEF Next, ShellStep

\* The scheduler implements the set of tasks of module TaskSet, for every
\* number of slots and spawns.
THEOREM Refinement == Spec => ImplementsTaskSet
  <1>1. Init => Abs!TSInit
    BY SchedAssumption
       DEF Init, Abs!TSInit, Abs!Shell, AbsReady, AbsRunning, AbsIssued
  <1>2. IInv /\ IInv' /\ [Next]_vars => [Abs!TSNext]_(Abs!tvars)
    BY StepRefines
  <1> QED
    BY <1>1, <1>2, Invariance, PTL DEF Spec, ImplementsTaskSet, Abs!TSSpec
=============================================================================
