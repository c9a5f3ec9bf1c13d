------------------------------- MODULE MCNet -------------------------------
(***************************************************************************)
(* Model-checking instance of Net: a cache for one host of two, and ids    *)
(* of different ports.                                                     *)
(***************************************************************************)
EXTENDS Net
=============================================================================
