------------------------------ MODULE TaskSet ------------------------------
(***************************************************************************)
(* What the scheduler promises, without slots, stacks, frames or interrupt *)
(* handlers: a set of tasks that wait for the CPU, one task that has it,   *)
(* and pids that are issued once.  The shell (pid 0) never exits; any      *)
(* other task may end while it runs; the machine may stop.                 *)
(***************************************************************************)
EXTENDS Integers

VARIABLES
    ready,     \* the pids that wait for the CPU
    running,   \* the pid that has the CPU, None once the machine has stopped
    issued     \* the highest pid issued to a task

tvars == <<ready, running, issued>>

None  == -1
Shell == 0

TSInit == ready = {} /\ running = Shell /\ issued = 0

\* The CPU passes to a waiting task; the one that had it waits.
Dispatch ==
    /\ running # None
    /\ \E p \in ready :
         /\ running' = p
         /\ ready' = (ready \ {p}) \cup {running}
    /\ UNCHANGED issued

\* The running task ends and a waiting one takes over.
End ==
    /\ running \notin {None, Shell}
    /\ \E p \in ready : running' = p /\ ready' = ready \ {p}
    /\ UNCHANGED issued

\* The shell starts a task under a pid never used before.
Spawn ==
    /\ running = Shell
    /\ issued' = issued + 1
    /\ ready' = ready \cup {issued'}
    /\ UNCHANGED running

\* The machine stops for good.
Stop ==
    /\ running # None
    /\ running' = None
    /\ ready' = {}
    /\ UNCHANGED issued

TSNext == Dispatch \/ End \/ Spawn \/ Stop

TSSpec == TSInit /\ [][TSNext]_tvars
=============================================================================
