------------------------------ MODULE MCEditors ------------------------------
(***************************************************************************)
(* Two files of at most two lines, rows of three characters, a register of *)
(* seven and three rows.                                                   *)
(***************************************************************************)
EXTENDS Editors

MCChar == {"a", "A", "b", "B", "(", ")", " ", "\t", NL, CR}
MCTyped == {"a"}
MCStale == {"A"}
MCPatterns == {<< >>, << "a" >>}
MCReps == {<< >>, << "a", "b" >>}
MCStarts ==
  LET p == CHOOSE p \in Paths : TRUE
  IN  {[q \in Paths |-> IF q = p THEN << "(", ")", NL, "a" >> ELSE << " ", CR, NL, CR >>]}
=============================================================================
