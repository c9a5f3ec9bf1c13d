---------------------------- MODULE MCMemSystem ----------------------------
(***************************************************************************)
(* Model-checking instance of MemSystem: six free blocks that the scan     *)
(* reaches and one that it does not, three virtual                         *)
(* pages, heap requests of one and two pages, three user slots, a task     *)
(* table of three entries so that sched_add fails too, and three pids.     *)
(***************************************************************************)
EXTENDS MemSystem

\* Bound: corrupted states are not explored further.
OnlySane == Sane
=============================================================================
