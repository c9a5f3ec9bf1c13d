------------------------------- MODULE ViMotion -------------------------------
(***************************************************************************)
(* The functions of vi (editors.c) that only move the cursor, as operators *)
(* on vi's record of static variables (described in ViText).               *)
(***************************************************************************)
EXTENDS TextBuf

Alpha == {"a", "A", "b", "B"}
Brackets == {<< "(", ")" >>, << "{", "}" >>, << "[", "]" >>}

(* Motions.  The first position from c on whose character is not in S, and *)
(* the last one from c back to which no character in S leads.              *)
SkipFwd(s, c, S) ==
  CHOOSE k \in c .. Len(s) :
    /\ k = Len(s) \/ s[k + 1] \notin S
    /\ \A j \in c .. k - 1 : s[j + 1] \in S

SkipBack(s, c, S) ==
  CHOOSE k \in 0 .. c :
    /\ k = 0 \/ s[k] \notin S
    /\ \A j \in k + 1 .. c : s[j] \in S

Chars(s) == {s[i] : i \in DOMAIN s}
Word(s) == Chars(s) \ Blank
Punct(s) == Word(s) \ Alpha

FirstNonBlank(b) == [b EXCEPT !.col = SkipFwd(Line(b), 0, Blank)]

LineEnd(b) == [b EXCEPT !.col = Greatest(LLen(b) - 1, 0)]

WordFwd(b) ==
  LET s == Line(b)
  IN  IF b.col >= Len(s)
      THEN IF b.row < b.lcount - 1 THEN [b EXCEPT !.row = @ + 1, !.col = 0] ELSE b
      ELSE [b EXCEPT !.col = SkipFwd(s, SkipFwd(s, @, Word(s)), Blank)]

(* From inside the text the blanks before the word are skipped first; from *)
(* the start of a line the cursor goes to the last word of the line above, *)
(* or stays on its last blank.                                             *)
WordBack(b) ==
  LET s == Line(b)
      t == b.rows[b.row - 1]
      SkipBlanks(c) == CHOOSE k \in 0 .. c :
                         /\ k = 0 \/ s[k + 1] \notin Blank
                         /\ \A j \in k + 1 .. c : s[j + 1] \in Blank
  IN  IF b.col > 0
      THEN [b EXCEPT !.col = SkipBack(s, SkipBlanks(@ - 1), Word(s))]
      ELSE IF b.row > 0
      THEN [b EXCEPT !.row = @ - 1,
                     !.col = SkipBack(t, Greatest(Len(t) - 1, 0), Word(t))]
      ELSE b

WordEnd(s, c) ==
  LET e == IF c >= Len(s) THEN c
           ELSE IF s[c + 1] \in Alpha THEN SkipFwd(s, c, Alpha)
           ELSE SkipFwd(s, c, Punct(s))
  IN  IF e < Len(s) /\ e = c THEN c + 1 ELSE e

ToWordEnd(b) ==
  LET e == WordEnd(Line(b), b.col)
  IN  IF e >= LLen(b) /\ b.row < b.lcount - 1
      THEN [b EXCEPT !.row = @ + 1, !.col = 0]
      ELSE [b EXCEPT !.col = e]

(* The bracket that closes, or opens, the one under the cursor. *)
Matching(b) ==
  LET s == Line(b)
      Count(i, j, c) == Cardinality({k \in i .. j : s[k] = c})
      Level(i, j, p) == Count(i, j, p[1]) = Count(i, j, p[2])
      at == b.col + 1
      Fwd(p) == {j \in at .. Len(s) : Level(at, j, p)}
      Bwd(p) == {i \in 1 .. at : Level(i, at, p)}
      Target ==
        UNION {IF s[at] = p[1] THEN {j \in Fwd(p) : \A k \in Fwd(p) : j <= k}
               ELSE IF s[at] = p[2] THEN {j \in Bwd(p) : \A k \in Bwd(p) : j >= k}
               ELSE {} : p \in Brackets}
  IN  IF b.col < Len(s) /\ Target # {}
      THEN [b EXCEPT !.col = (CHOOSE j \in Target : TRUE) - 1]
      ELSE b

Paragraph(b, forward) ==
  LET Next(r, empty) == CHOOSE k \in r .. b.lcount :
                          /\ k = b.lcount \/ (b.rows[k] = << >>) # empty
                          /\ \A j \in r .. k - 1 : (b.rows[j] = << >>) = empty
      gap  == Next(b.row + 1, FALSE)
      down == Next(Least(gap + 1, b.lcount), TRUE)
      from == IF b.row > 1 /\ b.rows[b.row - 1] = << >> THEN b.row - 2 ELSE b.row - 1
      up   == CHOOSE k \in 0 .. Greatest(from, 0) :
                /\ k = 0 \/ b.rows[k] = << >>
                /\ \A j \in k + 1 .. from : b.rows[j] # << >>
  IN  [b EXCEPT !.row = IF forward THEN Least(down, b.lcount - 1) ELSE up,
                !.col = 0]

(* The next match after the cursor, or the last one before it; no cursor   *)
(* moves when there is none.  The search does not wrap.                    *)
Matches(b, pat) ==
  {m \in (0 .. b.lcount - 1) \X (0 .. MaxCol - 1) :
     LET s == b.rows[m[1]]
     IN  m[2] + Len(pat) <= Len(s) /\ SubSeq(s, m[2] + 1, m[2] + Len(pat)) = pat}

Before(m, n) == m[1] < n[1] \/ (m[1] = n[1] /\ m[2] < n[2])

Search(b, pat, forward) ==
  LET here == << b.row, b.col >>
      near == {m \in Matches(b, pat) :
                 IF forward THEN Before(here, m) ELSE Before(m, here)}
      hit  == CHOOSE m \in near :
                \A n \in near \ {m} : IF forward THEN Before(m, n) ELSE Before(n, m)
  IN  IF pat = << >> \/ near = {}
      THEN b
      ELSE [b EXCEPT !.row = hit[1], !.col = hit[2]]

SearchNext(b) == Search(b, b.search.pat, b.search.forward)
SearchPrev(b) == Search(b, b.search.pat, ~b.search.forward)

(* f: the next c after the cursor in the line. *)
Find(b, c) ==
  LET at == {i \in b.col + 2 .. LLen(b) : Line(b)[i] = c}
  IN  IF at = {} THEN b
      ELSE [b EXCEPT !.col = (CHOOSE i \in at : \A j \in at : i <= j) - 1]

(* H, M and L go to rows of the window.  The window is not modelled: it    *)
(* starts at or above the cursor, and the z commands move it.              *)
WindowTop(b) == {[b EXCEPT !.row = r, !.col = 0] : r \in 0 .. b.row}
WindowRows(b) == {[b EXCEPT !.row = r, !.col = 0] : r \in 0 .. b.lcount - 1}
=============================================================================
