------------------------------- MODULE MCTcp -------------------------------
(***************************************************************************)
(* Model-checking instance of Tcp: a stream of four bytes, in segments of  *)
(* at most two, for a buffer of two and a response of three, so that a     *)
(* segment may not fit, may come while part of the last is unread, and the *)
(* response fills up.  One segment of a connection may come amiss, of this *)
(* one or of an earlier one to the same port.                              *)
(***************************************************************************)
EXTENDS Tcp

Left(p, syn, seq, len, fin) ==
    [conn |-> 0, port |-> p, syn |-> syn, seq |-> seq, len |-> len, fin |-> fin]

\* What an earlier connection may have left under way: its first segment, one
\* with data, its last, and one to another port.
MCPorts == {1, 2}
MCOld == {Left(1, TRUE, 0, 0, FALSE), Left(1, FALSE, 2, 1, FALSE),
          Left(1, FALSE, 3, 0, TRUE), Left(2, FALSE, 1, 1, FALSE)}
=============================================================================
