-------------------------------- MODULE ViText --------------------------------
(***************************************************************************)
(* The functions of vi (editors.c) that change the text, as operators on   *)
(* vi's static variables, held in one record b: the fields of TextBuf and  *)
(*   mode    "off", "norm", "ins"; "undef" once vi has written or read     *)
(*           outside its arrays, "loop" once it loops for ever: nothing is *)
(*           said about what follows                                       *)
(*   yank    the register: its text and whether it holds whole lines       *)
(*   undo    one line, its row and the number of lines (vi_undo_...)       *)
(*   redo    the same for redo, never reset by cmd_vi                      *)
(*   dot     something was inserted in this session (vi_dot_valid)         *)
(*   search  pattern and direction, the latter dead without a pattern      *)
(*   fname   the file it saves to                                          *)
(* and four fields no code has, which the properties read:                 *)
(*   snap    the text when undo was saved last                             *)
(*   exact   nothing was done since that undo cannot take back             *)
(*   disk    "same": the file fname is where the text was loaded from or   *)
(*           saved to last; "other": the text was loaded from another      *)
(*           file; "torn": a save failed                                   *)
(*   left    how the last session ended                                    *)
(* Undo data that are not valid are dead and kept as NoUndo.               *)
(***************************************************************************)
EXTENDS ViMotion

CONSTANTS
  YankMax,    \* VI_YANK_MAX: bytes of the register, terminator included
  ReadSize,   \* bytes :r reads at a time (1024)
  Stale       \* the characters that may stand behind a terminator

(* The register holds a row: 4096 bytes against 160. *)
ASSUME ViTextAssumption ==
  /\ YankMax \in Nat /\ YankMax >= MaxCol
  /\ ReadSize \in Nat \ {0}
  /\ Alpha \cup Stale \subseteq Char

NoUndo == [valid |-> FALSE, line |-> << >>, row |-> 0, lcount |-> 0]

Upper == [c \in {"a", "b"} |-> IF c = "a" THEN "A" ELSE "B"]
Lower == [c \in {"A", "B"} |-> IF c = "A" THEN "a" ELSE "b"]

ToggleOf(c) ==
  IF c \in DOMAIN Upper THEN Upper[c]
  ELSE IF c \in DOMAIN Lower THEN Lower[c] ELSE c

Undefined(b) == [b EXCEPT !.mode = "undef"]

-----------------------------------------------------------------------------
(* Undo.  vi_save_undo keeps the cursor's line and the number of lines. *)
SaveUndo(b) ==
  [b EXCEPT !.undo = [valid |-> TRUE, line |-> Line(b), row |-> b.row,
                      lcount |-> b.lcount],
            !.snap = Text(b),
            !.exact = TRUE]

(* When undo still takes everything back: after a change within row r,     *)
(* after row r was closed, after row r was opened.                         *)
Within(b, r) == b.exact /\ r = b.undo.row
Closed(b, r) == b.exact /\ r = b.lcount - 1
Opened(b, r) == b.exact /\ r = b.lcount /\ b.lcount >= b.undo.lcount

\* Mutant: the text is taken to be unmodified again.
UndoClean(b) ==
  IF ~b.undo.valid
  THEN b
  ELSE [b EXCEPT !.redo = [line |-> b.rows[b.undo.row], row |-> b.undo.row,
                           lcount |-> b.lcount],
                 !.rows[b.undo.row] = b.undo.line,
                 !.lcount = b.undo.lcount,
                 !.row = b.undo.row,
                 !.col = 0,
                 !.undo = NoUndo,
                 !.snap = << >>,
                 !.exact = FALSE,
                 !.modified = FALSE]

\* Mutant: the number of lines is not taken back.
UndoLineOnly(b) ==
  IF ~b.undo.valid
  THEN b
  ELSE [b EXCEPT !.redo = [line |-> b.rows[b.undo.row], row |-> b.undo.row,
                           lcount |-> b.lcount],
                 !.rows[b.undo.row] = b.undo.line,
                 !.row = b.undo.row,
                 !.col = 0,
                 !.undo = NoUndo,
                 !.snap = << >>,
                 !.exact = FALSE,
                 !.modified = TRUE]

Undo(b) ==
  IF ~b.undo.valid
  THEN b
  ELSE [b EXCEPT !.redo = [line |-> b.rows[b.undo.row], row |-> b.undo.row,
                           lcount |-> b.lcount],
                 !.rows[b.undo.row] = b.undo.line,
                 !.lcount = b.undo.lcount,
                 !.row = b.undo.row,
                 !.col = 0,
                 !.undo = NoUndo,
                 !.snap = << >>,
                 !.exact = FALSE,
                 !.modified = TRUE]

(* Redo takes whatever the last undo, of this session or an earlier one,   *)
(* left; with none so far the line count becomes 0 and the row -1.         *)
Redo(b) ==
  IF b.redo.lcount = 0
  THEN Undefined(b)
  ELSE [b EXCEPT !.undo = IF ~@.valid THEN @
                          ELSE [@ EXCEPT !.line = b.rows[b.redo.row],
                                         !.row = b.redo.row,
                                         !.lcount = b.lcount],
                 !.snap = IF b.undo.valid THEN Text(b) ELSE @,
                 !.exact = b.undo.valid,
                 !.rows[b.redo.row] = b.redo.line,
                 !.lcount = b.redo.lcount,
                 !.row = b.redo.row,
                 !.col = 0,
                 !.modified = TRUE]

-----------------------------------------------------------------------------
(* Rows. *)
BlankLine(b) == [b EXCEPT !.rows[b.row] = << >>, !.col = 0, !.modified = TRUE]

ViInsertChar(b, c) == [InsertChar(b, c) EXCEPT !.exact = Within(b, b.row)]

ViInsertBlanks(b) == [InsertBlanks(b, 4) EXCEPT !.exact = Within(b, b.row)]

ViBackspace(b) ==
  [Backspace(b) EXCEPT
     !.exact = IF b.col > 0 THEN Within(b, b.row)
               ELSE IF b.row > 0 THEN Within(b, b.row - 1) /\ Closed(b, b.row)
               ELSE @]

ViNewline(b) ==
  [Newline(b) EXCEPT
     !.exact = IF b.lcount >= MaxLines THEN @
               ELSE Within(b, b.row) /\ Opened(b, b.row + 1)]

(* Control-w in insert mode: the blanks before the cursor and the word     *)
(* before them.                                                            *)
DeleteWord(b) ==
  LET s == Line(b)
      w == CHOOSE k \in 0 .. b.col - 1 :
             /\ k = 0 \/ s[k + 1] \notin Blank
             /\ \A j \in k + 1 .. b.col - 1 : s[j + 1] \in Blank
      start == SkipBack(s, w, Word(s))
  IN  IF b.col = 0
      THEN b
      ELSE [b EXCEPT !.rows[b.row] = Take(@, start) \o Drop(@, b.col),
                     !.col = start,
                     !.exact = Within(b, b.row),
                     !.modified = TRUE]

(* o and O. *)
OpenLine(b, above) ==
  LET r == IF above THEN b.row ELSE b.row + 1
  IN  IF b.lcount >= MaxLines
      THEN b
      ELSE OpenRow([b EXCEPT !.row = r,
                             !.col = 0,
                             !.exact = Opened(b, r),
                             !.modified = TRUE],
                   r, << >>)

YankText(b, s, linewise) ==
  [b EXCEPT !.yank = [text |-> Take(s, Least(Len(s), YankMax - 1)),
                      line |-> linewise]]

(* dd.  The only line is emptied instead. *)
DeleteLine(b) ==
  LET u == YankText(SaveUndo(b), Line(b), TRUE)
      d == IF b.lcount <= 1
           THEN [u EXCEPT !.rows[0] = << >>]
           ELSE CloseRows([u EXCEPT !.exact = Closed(u, b.row)], b.row, 1)
  IN  [d EXCEPT !.row = Least(@, d.lcount - 1), !.col = 0, !.modified = TRUE]

DeleteChar(b) ==
  IF b.col >= LLen(b)
  THEN b
  ELSE [b EXCEPT !.rows[b.row] = RemoveAt(@, b.col + 1), !.modified = TRUE]

DeleteToEol(b) ==
  IF b.col < LLen(b)
  THEN [YankText(b, Drop(Line(b), b.col), FALSE) EXCEPT
          !.rows[b.row] = Take(@, b.col), !.modified = TRUE]
  ELSE [b EXCEPT !.modified = TRUE]

(* After x and D the cursor steps back from the end of the line. *)
StepBack(b) == IF b.col >= LLen(b) /\ b.col > 0 THEN [b EXCEPT !.col = @ - 1] ELSE b

(* Writing c at column k of the cursor's row.  Over the terminator, the    *)
(* bytes that stood behind it become part of the line, and with no         *)
(* terminator left the line runs into the next row.                        *)
Overwrite(b, k, c) ==
  LET s == Line(b)
  IN  IF k < Len(s)
      THEN {[b EXCEPT !.rows[b.row] = ReplaceAt(s, k + 1, c)]}
      ELSE {Undefined(b)} \cup
           {[b EXCEPT !.rows[b.row] = Append(s, c) \o t] :
              t \in UNION {[1 .. n -> Stale] : n \in 0 .. MaxCol - 2 - Len(s)}}

(* J.  The line below goes behind the line and a blank, if there is room;  *)
(* it is closed in any case.                                               *)
JoinLines(b) ==
  LET u == SaveUndo(b)
      s == Line(b)
      n == SkipBack(s, Len(s), Blank)
      below == b.rows[b.row + 1]
      joined == IF n + 1 + Len(below) < MaxCol - 1
                THEN {[u EXCEPT !.rows[b.row] = Append(Take(s, n), " ") \o below]}
                ELSE Overwrite(u, n, " ")
  IN  IF b.row >= b.lcount - 1
      THEN {b}
      ELSE {CloseRows([j EXCEPT !.exact = Closed(u, b.row + 1), !.modified = TRUE],
                      b.row + 1, 1) : j \in joined}

ToggleCase(b) ==
  IF b.col >= LLen(b)
  THEN b
  ELSE [SaveUndo(b) EXCEPT !.rows[b.row][b.col + 1] = ToggleOf(@),
                           !.col = Least(@ + 1, LLen(b) - 1),
                           !.modified = TRUE]

Indent(b) ==
  LET u == SaveUndo(b)
  IN  IF LLen(b) >= MaxCol - 2
      THEN u
      ELSE [u EXCEPT !.rows[b.row] = << " ", " " >> \o @,
                     !.col = @ + 2,
                     !.modified = TRUE]

Outdent(b) ==
  LET s == Line(b)
      n == IF s = << >> \/ s[1] # " " THEN 0
           ELSE IF Len(s) > 1 /\ s[2] = " " THEN 2 ELSE 1
  IN  [SaveUndo(b) EXCEPT !.rows[b.row] = Drop(@, n),
                          !.col = Greatest(@ - n, 0),
                          !.modified = TRUE]

-----------------------------------------------------------------------------
(* Ranges.  The text of whole lines first .. last: a line that does not    *)
(* fit the register is left out, and nothing marks an empty first line.    *)
LinesText(b, first, last) ==
  LET Add(acc, s) ==
        IF Len(acc) + Len(s) + 1 >= YankMax THEN acc
        ELSE IF acc = << >> THEN s
        ELSE Append(acc, NL) \o s
      text[n \in 0 .. last - first + 1] ==
        IF n = 0 THEN << >> ELSE Add(text[n - 1], b.rows[first + n - 1])
  IN  text[last - first + 1]

(* The text from column c1 of row r1 to column c2 of the later row r2.     *)
(* Only the lines in between are held against the size of the register.    *)
CharsText(b, r1, c1, r2, c2) ==
  LET Add(acc, s) ==
        IF Len(acc) + Len(s) + 1 >= YankMax THEN acc ELSE Append(acc, NL) \o s
      text[n \in 0 .. r2 - r1 - 1] ==
        IF n = 0 THEN Drop(b.rows[r1], c1) ELSE Add(text[n - 1], b.rows[r1 + n])
      inner == text[r2 - r1 - 1]
      part  == Take(b.rows[r2], Least(c2, Len(b.rows[r2])))
  IN  IF part = << >> THEN inner
      ELSE (IF Len(inner) + 1 < YankMax THEN Append(inner, NL) ELSE inner) \o part

(* Within one row the two columns are taken in the wrong order: the range  *)
(* goes from the second one to the first.                                  *)
RowText(b, r, c1, c2) ==
  LET n == Len(b.rows[r]) IN SubSeq(b.rows[r], c2 + 1, Least(c1, n))

(* vi_op_exec with y, and vi_visual_yank. *)
YankRange(b, r1, c1, r2, c2, linewise) ==
  LET lo == Least(r1, r2)
      hi == Greatest(r1, r2)
      text == IF linewise THEN LinesText(b, lo, hi)
              ELSE IF r1 = r2 THEN RowText(b, r1, c1, c2)
              ELSE IF r1 < r2 THEN CharsText(b, r1, c1, r2, c2)
              ELSE CharsText(b, r2, c2, r1, c1)
  IN  IF Len(text) >= YankMax THEN Undefined(b) ELSE YankText(b, text, linewise)

(* Whole lines go as far as one is left. *)
DeleteLines(b, lo, hi) ==
  LET u == YankText(SaveUndo(b), LinesText(b, lo, hi), TRUE)
      n == Least(hi - lo + 1, b.lcount - 1)
      d == IF n = 0 THEN u
           ELSE CloseRows([u EXCEPT !.exact = n = 1 /\ Closed(u, lo)], lo, n)
  IN  [d EXCEPT !.row = Least(lo, d.lcount - 1), !.col = 0, !.modified = TRUE]

DeleteInRow(b, r, c1, c2) ==
  LET cut == RowText(b, r, c1, c2)
      u == SaveUndo(b)
      d == IF cut = << >> THEN u
           ELSE [YankText(u, cut, FALSE) EXCEPT
                   !.rows[r] = Take(@, c2) \o Drop(@, c2 + Len(cut))]
  IN  [d EXCEPT !.col = c2, !.modified = TRUE]

(* Over several rows the rest of the last row goes too. *)
DeleteOverRows(b, r1, c1, r2, c2) ==
  LET u == SaveUndo(b)
      text == CharsText(b, r1, c1, r2, c2)
      d == [YankText(u, text, FALSE) EXCEPT
              !.rows[r1] = Take(@, Least(c1, Len(@))),
              !.rows[r2] = Drop(@, Least(c2, Len(@))),
              !.exact = FALSE,
              !.row = r1,
              !.col = c1,
              !.modified = TRUE]
  IN  IF Len(text) >= YankMax THEN Undefined(b) ELSE CloseRows(d, r1 + 1, r2 - r1)

DeleteRange(b, r1, c1, r2, c2, linewise) ==
  IF linewise THEN DeleteLines(b, Least(r1, r2), Greatest(r1, r2))
  ELSE IF r1 = r2 THEN DeleteInRow(b, r1, c1, c2)
  ELSE IF r1 < r2 THEN DeleteOverRows(b, r1, c1, r2, c2)
  ELSE DeleteOverRows(b, r2, c2, r1, c1)

ChangeRange(b, r1, c1, r2, c2, linewise) ==
  LET d == DeleteRange(b, r1, c1, r2, c2, linewise)
  IN  IF d.mode = "undef" THEN d
      ELSE [d EXCEPT !.col = Least(@, LLen(d)), !.mode = "ins"]

OpExec(b, op, linewise, r1, c1, r2, c2) ==
  CASE op = "d" -> DeleteRange(b, r1, c1, r2, c2, linewise)
    [] op = "y" -> YankRange(b, r1, c1, r2, c2, linewise)
    [] op = "c" -> ChangeRange(b, r1, c1, r2, c2, linewise)

(* An operator runs from the cursor to where the motion m left it. *)
ApplyOpMotion(b, op, linewise, m) ==
  OpExec(m, op, linewise, b.row, b.col, m.row, m.col)

-----------------------------------------------------------------------------
(* p and P.  The register of whole lines goes into one row, line ends and  *)
(* all; more than a row holds runs into the next ones.                     *)
PasteLine(b, r) ==
  LET u == SaveUndo(b)
  IN  IF b.lcount >= MaxLines THEN u
      ELSE IF Len(b.yank.text) > MaxCol - 1 THEN Undefined(b)
      ELSE OpenRow([u EXCEPT !.row = r,
                             !.col = 0,
                             !.exact = Opened(u, r),
                             !.modified = TRUE],
                   r, b.yank.text)

PasteChars(b, c, col) ==
  LET u == SaveUndo(b)
  IN  IF Len(b.yank.text) + LLen(b) >= MaxCol - 1
      THEN u
      ELSE [u EXCEPT !.rows[b.row] = Take(@, c) \o b.yank.text \o Drop(@, c),
                     !.col = col,
                     !.modified = TRUE]

PasteAfter(b) ==
  LET c == Least(b.col + 1, LLen(b))
  IN  IF b.yank.text = << >> THEN b
      ELSE IF b.yank.line THEN PasteLine(b, b.row + 1)
      ELSE PasteChars(b, c, c + Len(b.yank.text) - 1)

PasteBefore(b) ==
  IF b.yank.text = << >> THEN b
  ELSE IF b.yank.line THEN PasteLine(b, b.row)
  ELSE PasteChars(b, b.col, b.col)

-----------------------------------------------------------------------------
(* :s and :%s.  Every match from left to right, the result cut to the row. *)
(* An empty pattern matches everywhere without moving on: the line is      *)
(* filled with the replacement, or, when that is empty too, never ends.    *)
SubstituteLine(s, pat, rep) ==
  LET n == Len(s)
      At(c) == c + Len(pat) <= n /\ SubSeq(s, c + 1, c + Len(pat)) = pat
      Add(t, c) == IF t.skip > 0 THEN [t EXCEPT !.skip = @ - 1]
                   ELSE IF At(c) THEN [out |-> t.out \o rep, skip |-> Len(pat) - 1]
                   ELSE [t EXCEPT !.out = Append(@, s[c + 1])]
      sub[c \in 0 .. n] == IF c = 0 THEN [out |-> << >>, skip |-> 0]
                           ELSE Add(sub[c - 1], c - 1)
      res == IF pat = << >> THEN [i \in 1 .. MaxCol - 1 |-> rep[((i - 1) % Len(rep)) + 1]]
             ELSE sub[n].out
  IN  IF s = << >> THEN s ELSE Take(res, Least(Len(res), MaxCol - 1))

Substitute(b, R, pat, rep) ==
  IF pat = << >> /\ rep = << >> /\ \E r \in R : b.rows[r] # << >>
  THEN [b EXCEPT !.mode = "loop"]
  ELSE [b EXCEPT !.rows = [i \in DOMAIN @ |->
                             IF i \in R THEN SubstituteLine(@[i], pat, rep) ELSE @[i]],
                 !.exact = FALSE,
                 !.modified = TRUE]

(* :r.  Is there a line end in a later read than the one that filled the   *)
(* last row, the q-th?                                                     *)
FillsPast(f, q) ==
  LET ends == {i \in DOMAIN f : f[i] = NL}
      Read(i) == (i - 1) \div ReadSize
  IN  \E i, j \in ends : /\ Cardinality({k \in ends : k <= i}) = q
                         /\ Read(j) > Read(i)

(* One row more than the file has line ends is opened below the cursor,    *)
(* even for a file that ends in one.  Above the last row, rows that do not *)
(* fit run out of the array.  Below it, the line end that fills the array  *)
(* ends the work on the bytes just read: further rows in them are dropped, *)
(* and the next line end of a later read is stored behind the array.       *)
ReadFile(b, f) ==
  LET ps == Pieces(f)
      at == b.row + 1
      n  == Least(Len(ps), MaxLines - at)
      Fit(s) == Take(s, Least(Len(s), MaxCol - 1))
  IN  IF f = Absent \/ b.lcount >= MaxLines THEN b
      ELSE IF \/ at < b.lcount /\ b.lcount + n > MaxLines
              \/ FillsPast(f, MaxLines - at)
      THEN Undefined(b)
      ELSE [b EXCEPT
              !.rows = [i \in DOMAIN @ |->
                          IF at <= i /\ i < at + n THEN Fit(ps[i - b.row])
                          ELSE IF at + n <= i /\ i < b.lcount + n THEN @[i - n]
                          ELSE @[i]],
              !.lcount = @ + n,
              !.exact = FALSE,
              !.modified = TRUE]
=============================================================================
