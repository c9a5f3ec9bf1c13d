----------------------------- MODULE MCPhysMem -----------------------------
(***************************************************************************)
(* Model-checking instance of PhysMem for NoSharedBlock: words of two bits,*)
(* the first one reserved, three more to allocate from.                    *)
(***************************************************************************)
EXTENDS PhysMem
=============================================================================
