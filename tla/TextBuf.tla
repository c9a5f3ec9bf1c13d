------------------------------- MODULE TextBuf -------------------------------
(***************************************************************************)
(* The text buffer that nano and vi share the code of: an array of rows of *)
(* MaxCol bytes, the number of rows in use, a cursor and the flag that     *)
(* says the text was changed (editors.c keeps one copy of each variable    *)
(* and of each function per editor).                                       *)
(*                                                                         *)
(* A buffer is a record with at least                                      *)
(*   rows      every row of the array, the ones past lcount too: they keep *)
(*             what was written last and vi's undo can bring them back     *)
(*   lcount    the rows in use                                             *)
(*   row, col  the cursor, both counted from 0                             *)
(*   modified  the text differs from the file                              *)
(* and a row is the sequence of the characters before its terminator.      *)
(* Operators take a buffer and give the buffer the C function leaves.      *)
(***************************************************************************)
EXTENDS Integers, Sequences, SequencesExt, FiniteSets

CONSTANTS
  MaxLines,   \* NANO_MAX_LINES, VI_MAX_LINES: rows of the array
  MaxCol,     \* NANO_MAX_COL, VI_MAX_COL: bytes of a row, terminator included
  Char,       \* the characters a file may hold
  Paths,      \* names of files
  Absent,     \* what a name with no file holds
  Budget      \* bound on the sessions, changes, yanks, searches and failed saves

NL == "\n"
CR == "\r"
Blank == {" ", "\t"}

ASSUME TextBufAssumption ==
  /\ {NL, CR} \cup Blank \subseteq Char
  /\ Absent \notin Seq(Char)
  /\ MaxLines \in Nat \ {0}
  /\ MaxCol \in Nat \ {0, 1}
  /\ Paths # {}
  /\ Budget \in Nat

VARIABLES
  files,      \* the bytes of every file, or Absent
  spent       \* what is used up of Budget

(* With the budget used up the cursor stays too: no change can follow. *)
Funds == spent < Budget
Spend == Funds /\ spent' = spent + 1

EmptyRows == [i \in 0 .. MaxLines - 1 |-> << >>]

(* The lines a user sees. *)
Text(b) == [i \in 1 .. b.lcount |-> b.rows[i - 1]]

Line(b) == b.rows[b.row]
LLen(b) == Len(Line(b))

Take(s, n) == SubSeq(s, 1, n)
Drop(s, n) == SubSeq(s, n + 1, Len(s))

Least(m, n) == IF m < n THEN m ELSE n
Greatest(m, n) == IF m < n THEN n ELSE m

-----------------------------------------------------------------------------
(* Closing n rows from r on, one after the other: the rows below move up   *)
(* and the last one stays behind, past lcount, as it was.                  *)
CloseRows(b, r, n) ==
  [b EXCEPT
     !.rows = [i \in DOMAIN b.rows |->
                 IF r <= i /\ i < b.lcount
                 THEN b.rows[Least(i + n, b.lcount - 1)]
                 ELSE b.rows[i]],
     !.lcount = @ - n]

(* Opening row r with text s: the rows from r on move down. *)
OpenRow(b, r, s) ==
  [b EXCEPT
     !.rows = [i \in DOMAIN b.rows |->
                 IF i = r THEN s
                 ELSE IF r < i /\ i <= b.lcount THEN b.rows[i - 1]
                 ELSE b.rows[i]],
     !.lcount = @ + 1]

\* Mutant: the place of the terminator is given away too.
InsertCharFull(b, c) ==
  IF LLen(b) > MaxCol - 1
  THEN b
  ELSE [b EXCEPT !.rows[b.row] = Take(@, b.col) \o << c >> \o Drop(@, b.col),
                 !.col = @ + 1,
                 !.modified = TRUE]

InsertChar(b, c) ==
  IF LLen(b) >= MaxCol - 1
  THEN b
  ELSE [b EXCEPT !.rows[b.row] = Take(@, b.col) \o << c >> \o Drop(@, b.col),
                 !.col = @ + 1,
                 !.modified = TRUE]

(* A tab is n blanks, put in one by one as long as the row has room. *)
InsertBlanks(b, n) ==
  LET k == Least(n, MaxCol - 1 - LLen(b))
  IN  IF k <= 0
      THEN b
      ELSE [b EXCEPT !.rows[b.row] = Take(@, b.col) \o [i \in 1 .. k |-> " "]
                                       \o Drop(@, b.col),
                     !.col = @ + k,
                     !.modified = TRUE]

\* Mutant: the room in the row above is taken to be one character less.
BackspaceTight(b) ==
  IF b.col > 0
  THEN [b EXCEPT !.rows[b.row] = RemoveAt(@, b.col),
                 !.col = @ - 1,
                 !.modified = TRUE]
  ELSE IF b.row > 0
  THEN LET prev == b.rows[b.row - 1]
           room == Greatest(0, Least(MaxCol - 2 - Len(prev), LLen(b)))
       IN  CloseRows([b EXCEPT !.rows[b.row - 1] = prev \o Take(Line(b), room),
                               !.row = @ - 1,
                               !.col = Len(prev) + room,
                               !.modified = TRUE],
                     b.row, 1)
  ELSE b

(* At the start of a row, as much of the row as fits goes to the end of    *)
(* the row above; what does not fit is gone.                               *)
Backspace(b) ==
  IF b.col > 0
  THEN [b EXCEPT !.rows[b.row] = RemoveAt(@, b.col),
                 !.col = @ - 1,
                 !.modified = TRUE]
  ELSE IF b.row > 0
  THEN LET prev == b.rows[b.row - 1]
           room == Least(MaxCol - 1 - Len(prev), LLen(b))
       IN  CloseRows([b EXCEPT !.rows[b.row - 1] = prev \o Take(Line(b), room),
                               !.row = @ - 1,
                               !.col = Len(prev) + room,
                               !.modified = TRUE],
                     b.row, 1)
  ELSE b

Newline(b) ==
  IF b.lcount >= MaxLines
  THEN b
  ELSE OpenRow([b EXCEPT !.rows[b.row] = Take(@, b.col),
                         !.row = @ + 1,
                         !.col = 0,
                         !.modified = TRUE],
               b.row + 1, Drop(Line(b), b.col))

(* The column is cut to the row the cursor was on before the row is. *)
Clamp(b) ==
  [b EXCEPT !.col = Least(@, LLen(b)),
            !.row = Greatest(0, Least(@, b.lcount - 1))]

(* The arrow keys: up, down, left, right.  Left and right wrap. *)
Up(b) == IF b.row > 0 THEN Clamp([b EXCEPT !.row = @ - 1]) ELSE b

Down(b) == IF b.row < b.lcount - 1 THEN Clamp([b EXCEPT !.row = @ + 1]) ELSE b

Left(b) ==
  IF b.col > 0 THEN [b EXCEPT !.col = @ - 1]
  ELSE IF b.row > 0
  THEN [b EXCEPT !.row = @ - 1, !.col = Len(b.rows[b.row - 1])]
  ELSE b

Right(b) ==
  IF b.col < LLen(b) THEN [b EXCEPT !.col = @ + 1]
  ELSE IF b.row < b.lcount - 1 THEN [b EXCEPT !.row = @ + 1, !.col = 0]
  ELSE b

-----------------------------------------------------------------------------
(* Files.  The pieces of a file between its line ends, the last one, after *)
(* the last line end, included.                                            *)
Pieces(f) ==
  LET cuts   == {0, Len(f) + 1} \cup {i \in DOMAIN f : f[i] = NL}
      Cut(k) == CHOOSE c \in cuts : Cardinality({d \in cuts : d < c}) = k
  IN  [k \in 1 .. Cardinality(cuts) - 1 |-> SubSeq(f, Cut(k - 1) + 1, Cut(k) - 1)]

StripCR(s) ==
  IF s # << >> /\ s[Len(s)] = CR THEN Take(s, Len(s) - 1) ELSE s

(* A loaded line loses its carriage return, unless it is the last piece,   *)
(* and what does not fit the row; the pieces that do not fit the array go  *)
(* over its last row, one after the other.                                 *)
Load(b, f) ==
  IF f = Absent
  THEN [b EXCEPT !.rows[0] = << >>, !.lcount = 1, !.modified = FALSE]
  ELSE LET ps == Pieces(f)
           n  == Least(Len(ps), MaxLines)
           Fit(s) == Take(s, Least(Len(s), MaxCol - 1))
       IN  [b EXCEPT
              !.rows = [i \in DOMAIN b.rows |->
                          IF i < n - 1 THEN Fit(StripCR(ps[i + 1]))
                          ELSE IF i = n - 1 THEN Fit(ps[Len(ps)])
                          ELSE b.rows[i]],
              !.lcount = n,
              !.modified = FALSE]

(* Every line with its line end. *)
Bytes(ls) == FlattenSeq([i \in DOMAIN ls |-> Append(ls[i], NL)])

(* What a save that fails leaves of the file: nothing was opened or        *)
(* truncated, or the disk was full after any of the bytes.                 *)
Torn(p, bytes) == {files[p]} \cup {Take(bytes, n) : n \in 0 .. Len(bytes) - 1}

(* The text a file holds, line ends at its end left aside: nano writes one *)
(* more than it reads, and leaves some out when the disk is full.          *)
Unpadded(ls) ==
  Take(ls, CHOOSE n \in 0 .. Len(ls) :
             /\ n > 0 => ls[n] # << >>
             /\ \A i \in n + 1 .. Len(ls) : ls[i] = << >>)
=============================================================================
