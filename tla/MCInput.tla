------------------------------ MODULE MCInput ------------------------------
(***************************************************************************)
(* Model-checking instance of Input: four scancodes, two of which may come *)
(* while the one before is being dealt with, at a prompt with two lines of *)
(* history, which has room for a third; a line holds two characters, a     *)
(* history line one.                                                       *)
(***************************************************************************)
EXTENDS Input

MCTyped == << << <<0, "char">> >>, << <<0, "space">> >> >>
=============================================================================
