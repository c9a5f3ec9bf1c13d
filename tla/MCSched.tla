------------------------------ MODULE MCSched ------------------------------
(***************************************************************************)
(* Model-checking instances of Sched.  MCSched.cfg: four task slots (the   *)
(* shell and three user slots) and pids up to five, so that the table      *)
(* fills up, sched_add fails and dead slots are reused.  MCSchedRace.cfg:  *)
(* three slots and two pids, as one spawn is enough for its behaviour.     *)
(***************************************************************************)
EXTENDS Sched
=============================================================================
