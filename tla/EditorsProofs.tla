---------------------------- MODULE EditorsProofs ----------------------------
(***************************************************************************)
(* Proofs about the two editors for every number of rows, columns and      *)
(* bytes of the register, every set of files and characters, and any       *)
(* number of sessions and changes.                                         *)
(***************************************************************************)
EXTENDS Editors, SequenceTheorems, FiniteSetTheorems, WellFoundedInduction, TLAPS

----------------------------------------------------------------------------
(* Numbers and loops *)

LEMMA Numbers ==
    /\ MaxLines \in Nat /\ MaxLines >= 1 /\ MaxCol \in Nat /\ MaxCol >= 2
    /\ YankMax \in Nat /\ YankMax >= MaxCol
  BY TextBufAssumption, ViTextAssumption

\* A set of numbers that is not empty has a least element.
LEMMA SmallestOf ==
    ASSUME NEW T, T \subseteq Nat, T # {}
    PROVE  \E x \in T : \A y \in T : x <= y
  <1> DEFINE R == OpToRel(<, Nat)
  <1>1. IsWellFoundedOn(R, Nat)
    BY NatLessThanWellFounded, Zenon
  <1>2. \A x, y \in Nat : y < x => <<y, x>> \in R
    BY DEF OpToRel
  <1> HIDE DEF R
  <1>3. PICK x \in T : \A y \in T : ~(<<y, x>> \in R)
    BY <1>1, WFMin, Zenon
  <1>4. ASSUME NEW y \in T
        PROVE  x <= y
    <2>1. x \in Nat /\ y \in Nat /\ ~(<<y, x>> \in R)
      BY <1>3
    <2>2. ~(y < x)
      BY <1>2, <2>1
    <2> QED
      BY <2>1, <2>2
  <1> QED
    BY <1>4

\* One that is bounded has a greatest.
LEMMA GreatestOf ==
    ASSUME NEW n \in Nat, NEW T, T \subseteq 0 .. n, T # {}
    PROVE  \E x \in T : \A y \in T : y <= x
  <1> DEFINE U == {n - y : y \in T}
  <1>1. U \subseteq Nat /\ U # {}
    <2>1. PICK y \in T : TRUE
      OBVIOUS
    <2>2. n - y \in U
      OBVIOUS
    <2>3. \A y1 \in 0 .. n : n - y1 \in Nat
      OBVIOUS
    <2> QED
      BY <2>2, <2>3
  <1>2. PICK u \in U : \A w \in U : u <= w
    <2> HIDE DEF U
    <2> QED
      BY <1>1, SmallestOf, Zenon
  <1>3. PICK x \in T : u = n - x
    OBVIOUS
  <1>4. ASSUME NEW y \in T
        PROVE  y <= x
    <2>1. n - y \in U /\ x \in 0 .. n /\ y \in 0 .. n
      OBVIOUS
    <2>2. n - x <= n - y
      BY <1>2, <1>3, <2>1
    <2> QED
      BY <2>1, <2>2
  <1> QED
    BY <1>4

\* Induction up to n, for the set of the numbers that have the property.
LEMMA UpTo ==
    ASSUME NEW n \in Nat, NEW G, 0 \in G,
           \A k \in 1 .. n : k - 1 \in G => k \in G
    PROVE  0 .. n \subseteq G
  <1> DEFINE Bad == {k \in 0 .. n : k \notin G}
  <1> SUFFICES ASSUME Bad # {}
               PROVE  FALSE
    OBVIOUS
  <1>1. Bad \subseteq Nat
    OBVIOUS
  <1>2. PICK k \in Bad : \A j \in Bad : k <= j
    <2> HIDE DEF Bad
    <2> QED
      BY <1>1, SmallestOf, Zenon
  <1>3. k \in 1 .. n /\ k - 1 \in 0 .. n /\ ~(k <= k - 1)
    OBVIOUS
  <1>4. k - 1 \in G
    BY <1>2, <1>3
  <1> QED
    BY <1>3, <1>4

\* A loop that goes from state to state is a function of the number of its turns.
Turns(g, n, S, a, step) ==
    /\ g \in [0 .. n -> S] /\ g[0] = a
    /\ \A b \in 1 .. n : g[b] = step[b][g[b - 1]]

LEMMA LoopExists ==
    ASSUME NEW n \in Nat, NEW S, NEW a \in S, NEW step \in [1 .. n -> [S -> S]]
    PROVE  \E g : Turns(g, n, S, a, step)
  <1> DEFINE Run(g, k) == g[0] = a /\ \A b \in 1 .. k : g[b] = step[b][g[b - 1]]
             G == {k \in 0 .. n : \E g \in [0 .. k -> S] : Run(g, k)}
  <1>1. 0 \in G
    <2> DEFINE g == [b \in 0 .. 0 |-> a]
    <2>1. g \in [0 .. 0 -> S] /\ Run(g, 0)
      OBVIOUS
    <2> HIDE DEF g, Run
    <2>2. \E f \in [0 .. 0 -> S] : Run(f, 0)
      BY <2>1
    <2> QED
      BY <2>2
  <1>2. ASSUME NEW k \in 1 .. n, k - 1 \in G
        PROVE  k \in G
    <2>1. PICK g \in [0 .. k - 1 -> S] : Run(g, k - 1)
      BY <1>2
    <2> DEFINE h == [b \in 0 .. k |-> IF b < k THEN g[b] ELSE step[k][g[k - 1]]]
    <2>2. g[k - 1] \in S /\ step[k][g[k - 1]] \in S
      BY <2>1
    <2>3. h \in [0 .. k -> S]
      BY <2>1, <2>2
    <2>4. h[0] = a
      BY <2>1
    <2>5. ASSUME NEW b \in 1 .. k
          PROVE  h[b] = step[b][h[b - 1]]
      <3>1. h[b - 1] = g[b - 1]
        OBVIOUS
      <3>2. CASE b = k
        BY <3>1, <3>2
      <3>3. CASE b # k
        <4>1. b \in 1 .. k - 1 /\ h[b] = g[b]
          BY <3>3
        <4> QED
          BY <2>1, <3>1, <4>1
      <3> QED
        BY <3>2, <3>3
    <2>6. h \in [0 .. k -> S] /\ Run(h, k)
      BY <2>3, <2>4, <2>5, Zenon
    <2> HIDE DEF h, Run
    <2>7. \E f \in [0 .. k -> S] : Run(f, k)
      BY <2>6
    <2> QED
      BY <2>7
  <1> HIDE DEF G
  <1>3. n \in G
    <2>1. 0 .. n \subseteq G
      BY <1>1, <1>2, UpTo, Zenon
    <2> QED
      BY <2>1
  <1> QED
    BY <1>3 DEF G, Turns

----------------------------------------------------------------------------
(* Strings and rows *)

Str    == Seq(Char)
Fits   == {s \in Str : Len(s) < MaxCol}
RowNos == 0 .. MaxLines - 1
Rows   == [RowNos -> Fits]

LEMMA StrFacts ==
    /\ \A s \in Str : /\ Len(s) \in Nat /\ DOMAIN s = 1 .. Len(s)
                      /\ \A i \in 1 .. Len(s) : s[i] \in Char
                      /\ (s = << >>) = (Len(s) = 0)
    /\ << >> \in Str /\ << >> \in Fits /\ Fits \subseteq Str
    /\ \A s \in Fits : Len(s) \in Nat /\ Len(s) <= MaxCol - 1
  BY Numbers DEF Str, Fits

LEMMA TakeFacts ==
    ASSUME NEW s \in Str, NEW n \in 0 .. Len(s)
    PROVE  /\ Take(s, n) \in Str /\ Len(Take(s, n)) = n
           /\ \A i \in 1 .. n : Take(s, n)[i] = s[i]
           /\ s \in Fits => Take(s, n) \in Fits
  <1>1. n \in Int /\ 1 \in Int /\ \A i \in 1 .. n : s[i] \in Char
    BY StrFacts
  <1>2. /\ SubSeq(s, 1, n) \in Seq(Char)
        /\ Len(SubSeq(s, 1, n)) = IF 1 <= n THEN n - 1 + 1 ELSE 0
        /\ \A i \in 1 .. n - 1 + 1 : SubSeq(s, 1, n)[i] = s[1 + i - 1]
    BY <1>1, SubSeqProperties
  <1>3. Len(s) \in Nat
    BY StrFacts
  <1> QED
    BY <1>2, <1>3, Numbers DEF Take, Str, Fits

LEMMA DropFacts ==
    ASSUME NEW s \in Str, NEW n \in Nat
    PROVE  /\ Drop(s, n) \in Str
           /\ Len(Drop(s, n)) = IF n <= Len(s) THEN Len(s) - n ELSE 0
           /\ \A i \in 1 .. Len(s) - n : Drop(s, n)[i] = s[n + i]
           /\ s \in Fits => Drop(s, n) \in Fits
  <1>1. n + 1 \in Int /\ Len(s) \in Int /\ Len(s) >= 0
        /\ \A i \in n + 1 .. Len(s) : s[i] \in Char
    BY StrFacts
  <1>2. /\ SubSeq(s, n + 1, Len(s)) \in Seq(Char)
        /\ Len(SubSeq(s, n + 1, Len(s))) = IF n + 1 <= Len(s) THEN Len(s) - (n + 1) + 1 ELSE 0
        /\ \A i \in 1 .. Len(s) - (n + 1) + 1 : SubSeq(s, n + 1, Len(s))[i] = s[n + 1 + i - 1]
    BY <1>1, SubSeqProperties
  <1> QED
    BY <1>1, <1>2, Numbers DEF Drop, Str, Fits

LEMMA JoinFacts ==
    ASSUME NEW s \in Str, NEW t \in Str
    PROVE  /\ s \o t \in Str /\ Len(s \o t) = Len(s) + Len(t)
           /\ \A i \in 1 .. Len(s) + Len(t) :
                 (s \o t)[i] = IF i <= Len(s) THEN s[i] ELSE t[i - Len(s)]
  BY ConcatProperties DEF Str

LEMMA AddFacts ==
    ASSUME NEW s \in Str, NEW c \in Char
    PROVE  /\ Append(s, c) \in Str /\ Len(Append(s, c)) = Len(s) + 1
           /\ \A i \in 1 .. Len(s) : Append(s, c)[i] = s[i]
           /\ Append(s, c)[Len(s) + 1] = c
  BY AppendProperties DEF Str

LEMMA SameStr ==
    ASSUME NEW s \in Str, NEW t \in Str, Len(s) = Len(t),
           \A i \in 1 .. Len(s) : s[i] = t[i]
    PROVE  s = t
  BY SeqEqual, Zenon DEF Str

LEMMA Blanks == {NL, CR, " ", "\t"} \subseteq Char
  BY TextBufAssumption DEF Blank

LEMMA RowFacts ==
    ASSUME NEW R \in Rows
    PROVE  /\ DOMAIN R = RowNos
           /\ \A i \in RowNos : /\ R[i] \in Fits /\ R[i] \in Str
                                /\ Len(R[i]) \in Nat /\ Len(R[i]) <= MaxCol - 1
  BY StrFacts DEF Rows

LEMMA RowsPut ==
    ASSUME NEW R \in Rows, NEW r \in RowNos, NEW s \in Fits
    PROVE  [R EXCEPT ![r] = s] \in Rows
  BY DEF Rows

\* What CloseRows and OpenRow make of the rows.
RowsClosed(R, lc, r, n) ==
    [i \in DOMAIN R |-> IF r <= i /\ i < lc THEN R[Least(i + n, lc - 1)] ELSE R[i]]

RowsOpened(R, lc, r, s) ==
    [i \in DOMAIN R |-> IF i = r THEN s
                        ELSE IF r < i /\ i <= lc THEN R[i - 1] ELSE R[i]]

LEMMA ClosedFacts ==
    ASSUME NEW R \in Rows, NEW lc \in 1 .. MaxLines, NEW r \in Nat, NEW n \in Nat
    PROVE  RowsClosed(R, lc, r, n) \in Rows
  <1>1. ASSUME NEW i \in RowNos, i < lc
        PROVE  Least(i + n, lc - 1) \in RowNos
    BY <1>1, Numbers DEF RowNos, Least
  <1> QED
    BY <1>1, Numbers, RowFacts DEF RowsClosed, Rows

LEMMA OpenedFacts ==
    ASSUME NEW R \in Rows, NEW lc \in 1 .. MaxLines, NEW r \in Nat, NEW s \in Fits
    PROVE  RowsOpened(R, lc, r, s) \in Rows
  <1>1. ASSUME NEW i \in RowNos, r < i
        PROVE  i - 1 \in RowNos
    BY <1>1, Numbers DEF RowNos
  <1> QED
    BY <1>1, Numbers, RowFacts DEF RowsOpened, Rows

----------------------------------------------------------------------------
(* The variables of vi *)

Live  == {"norm", "ins"}
Ended == {"undef", "loop"}
Undos == [valid : BOOLEAN, line : Fits, row : RowNos, lcount : 0 .. MaxLines]
Redos == [line : Fits, row : RowNos, lcount : 0 .. MaxLines]
Yanks == [text : {s \in Str : Len(s) < YankMax}, line : BOOLEAN]

Disks == {"same", "other", "torn"}
Lefts == {"no", "quit", "discard", "write", "failed"}
ViBufs == [rows : Rows, lcount : 1 .. MaxLines, row : RowNos, col : Nat,
           modified : BOOLEAN, mode : Live \cup Ended \cup {"off"},
           yank : Yanks, undo : Undos, redo : Redos, dot : BOOLEAN,
           search : [pat : Str, forward : BOOLEAN], fname : Paths,
           snap : Seq(Fits), exact : BOOLEAN, disk : Disks, left : Lefts]

\* What undo would bring back is the text that was there when it was saved.
Brings(b) ==
    /\ Len(b.snap) = b.undo.lcount
    /\ \A i \in 0 .. b.undo.lcount - 1 :
          b.snap[i + 1] = IF i = b.undo.row THEN b.undo.line ELSE b.rows[i]

UndoOK(b) == b.undo.valid => b.undo.lcount >= 1 /\ (b.exact => Brings(b))

\* vi runs and its cursor is in a row of the text.
Fit(b) == b \in ViBufs /\ b.mode \in Live /\ b.row < b.lcount /\ UndoOK(b)

\* What does not say "modified" has not changed the text.
Still(b, d) ==
    ~d.modified => /\ ~b.modified /\ d.rows = b.rows /\ d.lcount = b.lcount
                   /\ d.fname = b.fname /\ d.disk = b.disk

Works(b, d) == d.mode \in Ended \/ (Fit(d) /\ Still(b, d))

NanoBufs == [rows : Rows, lcount : 1 .. MaxLines, row : RowNos, col : Nat,
             modified : BOOLEAN, on : BOOLEAN, ask : BOOLEAN, fname : Paths,
             torn : BOOLEAN, left : Lefts]

\* A buffer of either editor with the cursor in a row of the text.
Ready(b) == (b \in ViBufs \/ b \in NanoBufs) /\ b.row < b.lcount

LEMMA BufFacts ==
    ASSUME NEW b \in ViBufs
    PROVE  /\ b.rows \in Rows /\ b.lcount \in 1 .. MaxLines /\ b.row \in RowNos
           /\ b.lcount \in Nat /\ b.row \in Nat /\ b.col \in Nat
           /\ b.modified \in BOOLEAN /\ b.exact \in BOOLEAN /\ b.fname \in Paths
           /\ b.undo \in Undos /\ b.redo \in Redos /\ b.yank \in Yanks
           /\ b.undo.valid \in BOOLEAN /\ b.undo.line \in Fits /\ b.undo.row \in RowNos
           /\ b.undo.row \in Nat /\ b.undo.lcount \in 0 .. MaxLines
           /\ b.yank.text \in Str /\ Len(b.yank.text) \in Nat /\ Len(b.yank.text) < YankMax
           /\ b.yank.line \in BOOLEAN
           /\ b.redo.line \in Fits /\ b.redo.row \in RowNos /\ b.redo.lcount \in 0 .. MaxLines
           /\ b.search.pat \in Str /\ b.search.forward \in BOOLEAN /\ b.snap \in Seq(Fits)
           /\ Line(b) = b.rows[b.row] /\ Line(b) \in Fits /\ Line(b) \in Str
           /\ LLen(b) = Len(Line(b)) /\ LLen(b) \in Nat /\ LLen(b) <= MaxCol - 1
  <1>1. /\ b.rows \in Rows /\ b.lcount \in 1 .. MaxLines /\ b.row \in RowNos
        /\ b.col \in Nat
        /\ b.modified \in BOOLEAN /\ b.exact \in BOOLEAN /\ b.fname \in Paths
        /\ b.undo \in Undos /\ b.redo \in Redos /\ b.yank \in Yanks
        /\ b.search.pat \in Str /\ b.search.forward \in BOOLEAN /\ b.snap \in Seq(Fits)
    BY DEF ViBufs
  <1>2. /\ b.undo.valid \in BOOLEAN /\ b.undo.line \in Fits /\ b.undo.row \in RowNos
        /\ b.undo.lcount \in 0 .. MaxLines
        /\ b.redo.line \in Fits /\ b.redo.row \in RowNos /\ b.redo.lcount \in 0 .. MaxLines
    BY <1>1 DEF Undos, Redos
  <1>3. b.yank.text \in Str /\ Len(b.yank.text) < YankMax /\ b.yank.line \in BOOLEAN
    BY <1>1 DEF Yanks
  <1>4. Len(b.yank.text) \in Nat
    BY <1>3, StrFacts
  <1>5. /\ Line(b) = b.rows[b.row] /\ Line(b) \in Fits /\ Line(b) \in Str
        /\ LLen(b) = Len(Line(b)) /\ LLen(b) \in Nat /\ LLen(b) <= MaxCol - 1
    BY <1>1, RowFacts DEF Line, LLen
  <1>6. b.lcount \in Nat /\ b.row \in Nat /\ b.undo.row \in Nat
    BY <1>1, <1>2, Numbers DEF RowNos
  <1> QED
    BY <1>1, <1>2, <1>3, <1>4, <1>5, <1>6

\* Undo that was there before, after a change it does not look at.
LEMMA UndoKept ==
    ASSUME NEW b \in ViBufs, UndoOK(b), NEW d \in ViBufs,
           d.undo = b.undo, d.exact => b.exact /\ d.snap = b.snap,
           d.exact => \A i \in 0 .. b.undo.lcount - 1 : i # b.undo.row => d.rows[i] = b.rows[i]
    PROVE  UndoOK(d)
  BY DEF UndoOK, Brings

\* Undo that was saved before the change.
LEMMA UndoSaved ==
    ASSUME NEW b \in ViBufs, NEW d \in ViBufs,
           d.undo = SaveUndo(b).undo, d.snap = SaveUndo(b).snap,
           d.exact => \A i \in 0 .. b.lcount - 1 : i # b.row => d.rows[i] = b.rows[i]
    PROVE  UndoOK(d)
  <1>1. /\ SaveUndo(b).undo = [valid |-> TRUE, line |-> Line(b), row |-> b.row,
                               lcount |-> b.lcount]
        /\ SaveUndo(b).snap = Text(b)
    BY DEF SaveUndo, ViBufs
  <1>2. /\ d.undo.valid /\ d.undo.line = b.rows[b.row] /\ d.undo.row = b.row
        /\ d.undo.lcount = b.lcount /\ d.snap = [i \in 1 .. b.lcount |-> b.rows[i - 1]]
    BY <1>1 DEF Text, Line
  <1>3. b.lcount \in Nat /\ b.lcount >= 1 /\ b.row \in Nat
    BY BufFacts, Numbers
  <1>4. Len(d.snap) = b.lcount
    BY <1>2, <1>3
  <1>5. ASSUME d.exact, NEW i \in 0 .. b.lcount - 1
        PROVE  d.snap[i + 1] = IF i = b.row THEN b.rows[b.row] ELSE d.rows[i]
    BY <1>2, <1>3, <1>5
  <1> QED
    BY <1>2, <1>3, <1>4, <1>5 DEF UndoOK, Brings

LEMMA TextFacts ==
    ASSUME NEW b \in ViBufs
    PROVE  /\ Text(b) \in Seq(Fits) /\ Len(Text(b)) = b.lcount
           /\ \A i \in 1 .. b.lcount : Text(b)[i] = b.rows[i - 1] /\ i - 1 \in RowNos
  <1>1. b.lcount \in Nat /\ b.lcount <= MaxLines /\ b.rows \in Rows
    BY BufFacts, Numbers
  <1>2. \A i \in 1 .. b.lcount : i - 1 \in RowNos /\ b.rows[i - 1] \in Fits
    BY <1>1, RowFacts, Numbers DEF RowNos
  <1> QED
    BY <1>1, <1>2 DEF Text

LEMMA SaveFacts ==
    ASSUME NEW b \in ViBufs
    PROVE  /\ SaveUndo(b) \in ViBufs /\ SaveUndo(b).exact
           /\ SaveUndo(b).rows = b.rows /\ SaveUndo(b).lcount = b.lcount
           /\ SaveUndo(b).row = b.row /\ SaveUndo(b).col = b.col
           /\ SaveUndo(b).modified = b.modified /\ SaveUndo(b).mode = b.mode
           /\ SaveUndo(b).yank = b.yank /\ SaveUndo(b).fname = b.fname
           /\ SaveUndo(b).disk = b.disk
           /\ SaveUndo(b).undo.lcount = b.lcount
           /\ Line(SaveUndo(b)) = Line(b) /\ LLen(SaveUndo(b)) = LLen(b)
           /\ b.mode \in Live /\ b.row < b.lcount => Fit(SaveUndo(b))
           /\ Still(b, SaveUndo(b))
  <1> DEFINE u == SaveUndo(b)
             v == [valid |-> TRUE, line |-> Line(b), row |-> b.row, lcount |-> b.lcount]
  <1>1. v \in Undos /\ v.lcount = b.lcount
    BY BufFacts, Numbers DEF Undos
  <1>2. Text(b) \in Seq(Fits)
    BY TextFacts
  <1> HIDE DEF v
  <1>3. u = [b EXCEPT !.undo = v, !.snap = Text(b), !.exact = TRUE]
    BY DEF SaveUndo, v
  <1> HIDE DEF u
  <1>4. /\ u \in ViBufs /\ u.exact /\ u.rows = b.rows /\ u.lcount = b.lcount
        /\ u.row = b.row /\ u.col = b.col /\ u.modified = b.modified /\ u.mode = b.mode
        /\ u.yank = b.yank /\ u.fname = b.fname /\ u.disk = b.disk /\ u.undo = v
    BY <1>1, <1>2, <1>3 DEF ViBufs
  <1>5. UndoOK(u)
    BY <1>4, UndoSaved DEF u
  <1> QED
    BY <1>1, <1>4, <1>5 DEF Fit, Still, u, Line, LLen

----------------------------------------------------------------------------
(* Settling: vi_clamp before the next event *)

\* The cursor of a buffer is on a character or at the end of a line.
Placed(b) == b.row < b.lcount /\ b.col <= LLen(b)

LEMMA SettledFit ==
    ASSUME NEW d \in ViBufs, d.mode \in Live, UndoOK(d), d.row < d.lcount \/ d.col = 0,
           NEW e, e = Settled(d)
    PROVE  /\ Fit(e) /\ Placed(e) /\ e.rows = d.rows /\ e.lcount = d.lcount
           /\ e.modified = d.modified /\ e.fname = d.fname /\ e.disk = d.disk
           /\ e.mode = d.mode
  <1> DEFINE c == Least(d.col, LLen(d))
             r == Greatest(0, Least(d.row, d.lcount - 1))
  <1>1. /\ d.lcount \in 1 .. MaxLines /\ d.row \in RowNos /\ d.col \in Nat
        /\ LLen(d) \in Nat
    BY BufFacts
  <1>2. /\ c \in Nat /\ c <= LLen(d) /\ r \in RowNos /\ r < d.lcount
        /\ (d.row < d.lcount => r = d.row) /\ (d.col = 0 => c = 0)
    BY <1>1, Numbers DEF Least, Greatest, RowNos
  <1> HIDE DEF c, r
  <1>3. e = [d EXCEPT !.col = c, !.row = r]
    BY DEF Settled, Clamp, Live, c, r
  <1>4. /\ e \in ViBufs /\ e.col = c /\ e.row = r /\ e.rows = d.rows /\ e.lcount = d.lcount
        /\ e.modified = d.modified /\ e.fname = d.fname /\ e.disk = d.disk
        /\ e.mode = d.mode /\ e.undo = d.undo /\ e.snap = d.snap /\ e.exact = d.exact
    BY <1>2, <1>3, ZenonT(60) DEF ViBufs
  <1>5. UndoOK(e)
    BY <1>4 DEF UndoOK, Brings
  <1>6. LLen(e) \in Nat /\ LLen(e) = Len(e.rows[e.row])
    BY <1>4, BufFacts
  <1>7. c <= LLen(e)
    <2>1. CASE d.col = 0
      BY <1>2, <1>6, <2>1
    <2>2. CASE d.row < d.lcount
      <3>1. e.row = d.row /\ e.rows = d.rows
        BY <1>2, <1>4, <2>2
      <3>2. LLen(e) = LLen(d)
        BY <3>1 DEF LLen, Line
      <3> QED
        BY <1>2, <3>2
    <2> QED
      BY <2>1, <2>2
  <1> QED
    BY <1>2, <1>4, <1>5, <1>7 DEF Fit, Placed

----------------------------------------------------------------------------
(* Motions *)

\* The cursor goes somewhere in the text and nothing else changes.
Goes(b, d) == \E r \in 0 .. b.lcount - 1, c \in Nat : d = [b EXCEPT !.row = r, !.col = c]

LEMMA GoesFacts ==
    ASSUME NEW b, Fit(b), NEW d, Goes(b, d)
    PROVE  /\ Fit(d) /\ Still(b, d) /\ d.rows = b.rows /\ d.lcount = b.lcount
           /\ d.mode = b.mode /\ d.yank = b.yank /\ d.row \in 0 .. b.lcount - 1
           /\ d.modified = b.modified /\ d.disk = b.disk /\ d.fname = b.fname
           /\ d.undo = b.undo /\ d.exact = b.exact /\ d.snap = b.snap
  <1>1. PICK r \in 0 .. b.lcount - 1, c \in Nat : d = [b EXCEPT !.row = r, !.col = c]
    BY DEF Goes
  <1>2. b \in ViBufs /\ b.lcount \in 1 .. MaxLines /\ UndoOK(b)
    BY BufFacts DEF Fit
  <1>3. r \in RowNos /\ r < b.lcount
    BY <1>2, Numbers DEF RowNos
  <1>4. /\ d \in ViBufs /\ d.row = r /\ d.rows = b.rows /\ d.lcount = b.lcount
        /\ d.modified = b.modified /\ d.fname = b.fname /\ d.disk = b.disk
        /\ d.mode = b.mode /\ d.undo = b.undo /\ d.snap = b.snap /\ d.exact = b.exact
        /\ d.yank = b.yank
    BY <1>1, <1>2, <1>3 DEF ViBufs
  <1>5. UndoOK(d)
    BY <1>2, <1>4 DEF UndoOK, Brings
  <1> QED
    BY <1>3, <1>4, <1>5 DEF Fit, Still

LEMMA ReadyFacts ==
    ASSUME NEW b, Ready(b)
    PROVE  /\ b \in ViBufs \/ b \in NanoBufs
           /\ b.rows \in Rows /\ b.modified \in BOOLEAN
           /\ b.lcount \in 1 .. MaxLines /\ b.lcount \in Nat /\ b.row \in Nat
           /\ b.row < b.lcount /\ b.row \in RowNos /\ b.row \in 0 .. b.lcount - 1 /\ b.col \in Nat
           /\ Line(b) = b.rows[b.row] /\ Line(b) \in Fits /\ Line(b) \in Str
           /\ LLen(b) = Len(Line(b)) /\ LLen(b) \in Nat /\ LLen(b) <= MaxCol - 1
           /\ \A i \in 0 .. b.lcount - 1 : i \in RowNos /\ b.rows[i] \in Str
                                           /\ b.rows[i] \in Fits /\ Len(b.rows[i]) \in Nat
  <1>1. (b \in ViBufs \/ b \in NanoBufs) /\ b.row < b.lcount
    BY DEF Ready
  <1>2. /\ b.rows \in Rows /\ b.lcount \in 1 .. MaxLines /\ b.row \in RowNos /\ b.col \in Nat
        /\ b.modified \in BOOLEAN
    BY <1>1 DEF ViBufs, NanoBufs
  <1>3. \A i \in 0 .. b.lcount - 1 : i \in RowNos
    BY <1>2, Numbers DEF RowNos
  <1>4. b.lcount \in Nat /\ b.row \in Nat /\ b.row \in 0 .. b.lcount - 1
    BY <1>1, <1>2, Numbers DEF RowNos
  <1> QED
    BY <1>1, <1>2, <1>3, <1>4, RowFacts DEF Line, LLen

LEMMA GoesSame ==
    ASSUME NEW b, Ready(b)
    PROVE  Goes(b, b)
  <1>1. b.row \in 0 .. b.lcount - 1 /\ b.col \in Nat /\ (b \in ViBufs \/ b \in NanoBufs)
    BY ReadyFacts
  <1>2. b = [b EXCEPT !.row = b.row, !.col = b.col]
    BY <1>1 DEF ViBufs, NanoBufs
  <1> QED
    BY <1>1, <1>2 DEF Goes

LEMMA GoesCol ==
    ASSUME NEW b, Ready(b), NEW c \in Nat
    PROVE  Goes(b, [b EXCEPT !.col = c])
  <1>1. b.row \in 0 .. b.lcount - 1 /\ (b \in ViBufs \/ b \in NanoBufs)
    BY ReadyFacts
  <1>2. [b EXCEPT !.col = c] = [b EXCEPT !.row = b.row, !.col = c]
    BY <1>1 DEF ViBufs, NanoBufs
  <1> QED
    BY <1>1, <1>2 DEF Goes

LEMMA GoesRow ==
    ASSUME NEW b, Ready(b), NEW r \in 0 .. b.lcount - 1
    PROVE  Goes(b, [b EXCEPT !.row = r])
  <1>1. b.col \in Nat /\ (b \in ViBufs \/ b \in NanoBufs)
    BY ReadyFacts
  <1>2. [b EXCEPT !.row = r] = [b EXCEPT !.row = r, !.col = b.col]
    BY <1>1 DEF ViBufs, NanoBufs
  <1> QED
    BY <1>1, <1>2 DEF Goes

LEMMA FitFacts ==
    ASSUME NEW b, Fit(b)
    PROVE  /\ b \in ViBufs /\ b.lcount \in 1 .. MaxLines /\ b.lcount \in Nat /\ b.row \in Nat
           /\ b.row < b.lcount /\ b.row \in RowNos /\ b.col \in Nat
           /\ b.mode \in Live /\ b.mode \notin Ended
           /\ Line(b) = b.rows[b.row] /\ Line(b) \in Fits /\ Line(b) \in Str
           /\ LLen(b) = Len(Line(b)) /\ LLen(b) \in Nat /\ LLen(b) <= MaxCol - 1
           /\ \A i \in 0 .. b.lcount - 1 : i \in RowNos /\ b.rows[i] \in Str
                                           /\ b.rows[i] \in Fits /\ Len(b.rows[i]) \in Nat
  <1>1. b \in ViBufs /\ b.mode \in Live /\ b.row < b.lcount
    BY DEF Fit
  <1>2. \A i \in 0 .. b.lcount - 1 : i \in RowNos
    BY <1>1, BufFacts, Numbers DEF RowNos
  <1>3. b.mode \notin Ended
    BY <1>1 DEF Live, Ended
  <1> QED
    BY <1>1, <1>2, <1>3, BufFacts, RowFacts

LEMMA UpDown ==
    ASSUME NEW b, Ready(b), NEW d \in {Up(b), Down(b)}
    PROVE  Goes(b, d)
  <1>1. ASSUME NEW r \in 0 .. b.lcount - 1
        PROVE  Goes(b, Clamp([b EXCEPT !.row = r]))
    <2> DEFINE e == [b EXCEPT !.row = r]
    <2>1. Ready(e) /\ e.row = r /\ e.col = b.col /\ e.lcount = b.lcount
      <3>1. /\ b \in ViBufs \/ b \in NanoBufs
            /\ r \in RowNos /\ r < b.lcount
        BY ReadyFacts
      <3>2. CASE b \in ViBufs
        BY <3>1, <3>2 DEF ViBufs, Ready
      <3>3. CASE b \in NanoBufs
        BY <3>1, <3>3 DEF NanoBufs, Ready
      <3> QED
        BY <3>1, <3>2, <3>3
    <2>2. LLen(e) \in Nat /\ b.col \in Nat /\ (b \in ViBufs \/ b \in NanoBufs) /\ b.lcount \in Nat
      BY <2>1, ReadyFacts
    <2>3. Clamp(e) = [e EXCEPT !.col = Least(e.col, LLen(e)),
                               !.row = Greatest(0, Least(e.row, e.lcount - 1))]
      BY DEF Clamp
    <2>4. Greatest(0, Least(e.row, e.lcount - 1)) = r /\ Least(e.col, LLen(e)) \in Nat
      BY <2>1, <2>2 DEF Greatest, Least
    <2> DEFINE c == Least(e.col, LLen(e))
    <2>5. Clamp(e) = [b EXCEPT !.row = r, !.col = c]
      <3> HIDE DEF c
      <3>1. Clamp(e) = [e EXCEPT !.col = c, !.row = r] /\ c \in Nat
        BY <2>3, <2>4 DEF c
      <3> QED
        BY <2>2, <3>1 DEF ViBufs, NanoBufs
    <2> QED
      BY <2>4, <2>5 DEF Goes
  <1>2. b.row \in Nat /\ b.lcount \in Nat /\ b.row < b.lcount
    BY ReadyFacts
  <1>3. CASE d = Up(b)
    <2>1. CASE b.row > 0
      <3>1. b.row - 1 \in 0 .. b.lcount - 1
        BY <1>2, <2>1
      <3>2. d = Clamp([b EXCEPT !.row = b.row - 1])
        BY <1>3, <2>1 DEF Up
      <3> QED
        BY <1>1, <3>1, <3>2
    <2>2. CASE ~(b.row > 0)
      BY <1>3, <2>2, GoesSame DEF Up
    <2> QED
      BY <2>1, <2>2
  <1>4. CASE d = Down(b)
    <2>1. CASE b.row < b.lcount - 1
      <3>1. b.row + 1 \in 0 .. b.lcount - 1
        BY <1>2, <2>1
      <3>2. d = Clamp([b EXCEPT !.row = b.row + 1])
        BY <1>4, <2>1 DEF Down
      <3> QED
        BY <1>1, <3>1, <3>2
    <2>2. CASE ~(b.row < b.lcount - 1)
      BY <1>4, <2>2, GoesSame DEF Down
    <2> QED
      BY <2>1, <2>2
  <1> QED
    BY <1>3, <1>4

LEMMA LeftRight ==
    ASSUME NEW b, Ready(b), NEW d \in {Left(b), Right(b)}
    PROVE  Goes(b, d)
  <1>1. b.row \in Nat /\ b.lcount \in Nat /\ b.row < b.lcount /\ b.col \in Nat
    BY ReadyFacts
  <1>2. b.row > 0 => b.row - 1 \in 0 .. b.lcount - 1 /\ Len(b.rows[b.row - 1]) \in Nat
    BY <1>1, ReadyFacts, SMTT(60)
  <1>3. b.row < b.lcount - 1 => b.row + 1 \in 0 .. b.lcount - 1
    BY <1>1
  <1>4. b.col + 1 \in Nat /\ (b.col > 0 => b.col - 1 \in Nat)
    BY <1>1
  <1>5. CASE d = Left(b)
    <2>1. CASE b.col > 0
      BY <1>4, <1>5, <2>1, GoesCol DEF Left
    <2>2. CASE ~(b.col > 0) /\ b.row > 0
      BY <1>2, <1>5, <2>2 DEF Left, Goes
    <2>3. CASE ~(b.col > 0) /\ ~(b.row > 0)
      BY <1>5, <2>3, GoesSame DEF Left
    <2> QED
      BY <2>1, <2>2, <2>3
  <1>6. CASE d = Right(b)
    <2>1. CASE b.col < LLen(b)
      BY <1>4, <1>6, <2>1, GoesCol DEF Right
    <2>2. CASE ~(b.col < LLen(b)) /\ b.row < b.lcount - 1
      BY <1>3, <1>6, <2>2 DEF Right, Goes
    <2>3. CASE ~(b.col < LLen(b)) /\ ~(b.row < b.lcount - 1)
      BY <1>6, <2>3, GoesSame DEF Right
    <2> QED
      BY <2>1, <2>2, <2>3
  <1> QED
    BY <1>5, <1>6

\* The loops over characters end where they are said to.
LEMMA SkipFwdFacts ==
    ASSUME NEW s \in Str, NEW c \in 0 .. Len(s), NEW S
    PROVE  SkipFwd(s, c, S) \in c .. Len(s)
  <1> DEFINE T == {k \in c .. Len(s) : k = Len(s) \/ s[k + 1] \notin S}
  <1>1. Len(s) \in Nat /\ c \in Nat
    BY StrFacts
  <1>2. T \subseteq Nat /\ T # {}
    <2>1. Len(s) \in T
      BY <1>1
    <2> QED
      BY <1>1, <2>1
  <1>3. PICK k \in T : \A j \in T : k <= j
    <2> HIDE DEF T
    <2> QED
      BY <1>2, SmallestOf, Zenon
  <1>4. ASSUME NEW j \in c .. k - 1
        PROVE  s[j + 1] \in S
    <2>1. j \in c .. Len(s) /\ ~(k <= j)
      BY <1>1
    <2> QED
      BY <1>3, <2>1
  <1>5. \E m \in c .. Len(s) : /\ m = Len(s) \/ s[m + 1] \notin S
                               /\ \A j \in c .. m - 1 : s[j + 1] \in S
    BY <1>4
  <1> QED
    BY <1>5 DEF SkipFwd

LEMMA SkipBackFacts ==
    ASSUME NEW s \in Str, NEW c \in 0 .. Len(s), NEW S
    PROVE  SkipBack(s, c, S) \in 0 .. c
  <1> DEFINE T == {k \in 0 .. c : k = 0 \/ s[k] \notin S}
  <1>1. Len(s) \in Nat /\ c \in Nat
    BY StrFacts
  <1>2. T \subseteq 0 .. c /\ T # {}
    <2>1. 0 \in T
      BY <1>1
    <2> QED
      BY <2>1
  <1>3. PICK k \in T : \A j \in T : j <= k
    <2> HIDE DEF T
    <2> QED
      BY <1>1, <1>2, GreatestOf, Zenon
  <1>4. ASSUME NEW j \in k + 1 .. c
        PROVE  s[j] \in S
    <2>1. j \in 0 .. c /\ ~(j <= k)
      BY <1>1
    <2> QED
      BY <1>3, <2>1
  <1>5. \E m \in 0 .. c : /\ m = 0 \/ s[m] \notin S
                          /\ \A j \in m + 1 .. c : s[j] \in S
    BY <1>4
  <1> QED
    BY <1>5 DEF SkipBack

\* The blanks before the cursor, as b and control-w skip them.
LEMMA BlanksBack ==
    ASSUME NEW s, NEW c \in Nat, NEW S
    PROVE  (CHOOSE k \in 0 .. c : /\ k = 0 \/ s[k + 1] \notin S
                                  /\ \A j \in k + 1 .. c : s[j + 1] \in S) \in 0 .. c
  <1> DEFINE T == {k \in 0 .. c : k = 0 \/ s[k + 1] \notin S}
  <1>1. T \subseteq 0 .. c /\ T # {}
    <2>1. 0 \in T
      OBVIOUS
    <2> QED
      BY <2>1
  <1>2. PICK k \in T : \A j \in T : j <= k
    <2> HIDE DEF T
    <2> QED
      BY <1>1, GreatestOf, Zenon
  <1>3. ASSUME NEW j \in k + 1 .. c
        PROVE  s[j + 1] \in S
    <2>1. j \in 0 .. c /\ ~(j <= k)
      OBVIOUS
    <2> QED
      BY <1>2, <2>1
  <1>4. \E m \in 0 .. c : /\ m = 0 \/ s[m + 1] \notin S
                          /\ \A j \in m + 1 .. c : s[j + 1] \in S
    BY <1>3
  <1> QED
    BY <1>4

\* Where a motion within the line may leave the cursor.
LEMMA LineMotionFacts ==
    ASSUME NEW b, Fit(b)
    PROVE  /\ Goes(b, FirstNonBlank(b)) /\ Goes(b, LineEnd(b))
           /\ Goes(b, [b EXCEPT !.col = 0])
           /\ Goes(b, [b EXCEPT !.row = b.lcount - 1, !.col = 0])
           /\ Goes(b, [b EXCEPT !.row = 0, !.col = 0])
           /\ b.row < b.lcount - 1 => Goes(b, [b EXCEPT !.row = b.row + 1, !.col = 0])
           /\ \A d \in WindowTop(b) \cup WindowRows(b) : Goes(b, d)
  <1>1. b.row \in Nat /\ b.lcount \in Nat /\ b.row < b.lcount /\ LLen(b) \in Nat
    BY FitFacts
  <1>2. /\ 0 \in Nat /\ b.lcount - 1 \in 0 .. b.lcount - 1 /\ 0 \in 0 .. b.lcount - 1
        /\ (b.row < b.lcount - 1 => b.row + 1 \in 0 .. b.lcount - 1)
    BY <1>1
  <1>3. Goes(b, FirstNonBlank(b))
    <2>1. Line(b) \in Str /\ 0 \in 0 .. Len(Line(b)) /\ Len(Line(b)) \in Nat
      BY <1>1, FitFacts
    <2>2. SkipFwd(Line(b), 0, Blank) \in Nat
      BY <2>1, SkipFwdFacts
    <2> QED
      BY <2>2, GoesCol DEF FirstNonBlank, Ready, Fit
  <1>4. Goes(b, LineEnd(b))
    <2>1. Greatest(LLen(b) - 1, 0) \in Nat
      BY <1>1 DEF Greatest
    <2> QED
      BY <2>1, GoesCol DEF LineEnd, Ready, Fit
  <1>5. \A r \in 0 .. b.lcount - 1 : Goes(b, [b EXCEPT !.row = r, !.col = 0])
    BY <1>2 DEF Goes
  <1>6. ASSUME NEW d \in WindowTop(b) \cup WindowRows(b)
        PROVE  Goes(b, d)
    <2>1. \E r \in 0 .. b.lcount - 1 : d = [b EXCEPT !.row = r, !.col = 0]
      <3>1. \A r \in 0 .. b.row : r \in 0 .. b.lcount - 1
        BY <1>1
      <3> QED
        BY <1>6, <3>1, Zenon DEF WindowTop, WindowRows
    <2> QED
      BY <1>5, <2>1
  <1>7. Goes(b, [b EXCEPT !.col = 0])
    BY <1>2, GoesCol, ZenonT(60) DEF Ready, Fit
  <1> QED
    BY <1>2, <1>3, <1>4, <1>5, <1>6, <1>7

LEMMA WordFacts ==
    ASSUME NEW b, Fit(b), Placed(b)
    PROVE  Goes(b, WordFwd(b)) /\ Goes(b, WordBack(b)) /\ Goes(b, ToWordEnd(b))
  <1> DEFINE s == Line(b)
  <1>1. /\ b.row \in Nat /\ b.lcount \in Nat /\ b.row < b.lcount /\ b.col \in Nat
        /\ s \in Str /\ Len(s) \in Nat /\ LLen(b) = Len(s)
    BY FitFacts
  <1>2. b.row < b.lcount - 1 => Goes(b, [b EXCEPT !.row = b.row + 1, !.col = 0])
    BY LineMotionFacts
  <1> HIDE DEF s
  <1>3. Goes(b, WordFwd(b))
    <2>1. CASE b.col >= Len(s) /\ b.row < b.lcount - 1
      BY <1>2, <2>1 DEF WordFwd, s
    <2>2. CASE b.col >= Len(s) /\ ~(b.row < b.lcount - 1)
      BY <2>2, GoesSame DEF WordFwd, s, Ready, Fit
    <2>3. CASE ~(b.col >= Len(s))
      <3>1. b.col \in 0 .. Len(s)
        BY <1>1, <2>3
      <3>2. SkipFwd(s, b.col, Word(s)) \in 0 .. Len(s)
        BY <1>1, <3>1, SkipFwdFacts
      <3>3. SkipFwd(s, SkipFwd(s, b.col, Word(s)), Blank) \in Nat
        BY <1>1, <3>2, SkipFwdFacts
      <3>4. WordFwd(b) = [b EXCEPT !.col = SkipFwd(s, SkipFwd(s, b.col, Word(s)), Blank)]
        BY <2>3 DEF WordFwd, s
      <3> QED
        BY <3>3, <3>4, GoesCol DEF Ready, Fit
    <2> QED
      BY <2>1, <2>2, <2>3
  <1>4. Goes(b, WordBack(b))
    <2>1. CASE b.col > 0
      <3> DEFINE w == CHOOSE k \in 0 .. b.col - 1 :
                         /\ k = 0 \/ s[k + 1] \notin Blank
                         /\ \A j \in k + 1 .. b.col - 1 : s[j + 1] \in Blank
      <3>1. WordBack(b) = [b EXCEPT !.col = SkipBack(s, w, Word(s))]
        BY <2>1 DEF WordBack, s
      <3>2. b.col - 1 \in Nat
        BY <1>1, <2>1
      <3>3. w \in 0 .. b.col - 1
        BY <3>2, BlanksBack
      <3> HIDE DEF w
      <3>4. w \in 0 .. Len(s)
        BY <1>1, <3>2, <3>3 DEF Placed
      <3>5. SkipBack(s, w, Word(s)) \in Nat
        BY <1>1, <3>4, SkipBackFacts
      <3> QED
        BY <3>1, <3>5, GoesCol DEF Ready, Fit
    <2>2. CASE ~(b.col > 0) /\ b.row > 0
      <3> DEFINE t == b.rows[b.row - 1]
                 c == SkipBack(t, Greatest(Len(t) - 1, 0), Word(t))
      <3>1. b.row - 1 \in 0 .. b.lcount - 1
        BY <1>1, <2>2
      <3>2. t \in Str /\ Len(t) \in Nat
        BY <3>1, FitFacts
      <3>3. Greatest(Len(t) - 1, 0) \in 0 .. Len(t)
        BY <3>2 DEF Greatest
      <3>4. c \in Nat
        BY <3>2, <3>3, SkipBackFacts
      <3>5. WordBack(b) = [b EXCEPT !.row = b.row - 1, !.col = c]
        BY <2>2 DEF WordBack
      <3> QED
        BY <3>1, <3>4, <3>5 DEF Goes
    <2>3. CASE ~(b.col > 0) /\ ~(b.row > 0)
      BY <2>3, GoesSame DEF WordBack, Ready, Fit
    <2> QED
      BY <2>1, <2>2, <2>3
  <1>5. Goes(b, ToWordEnd(b))
    <2>1. WordEnd(s, b.col) \in Nat
      <3>1. CASE b.col >= Len(s)
        BY <1>1, <3>1 DEF WordEnd
      <3>2. CASE ~(b.col >= Len(s))
        <4>1. b.col \in 0 .. Len(s)
          BY <1>1, <3>2
        <4>2. SkipFwd(s, b.col, Alpha) \in Nat /\ SkipFwd(s, b.col, Punct(s)) \in Nat
          BY <1>1, <4>1, SkipFwdFacts
        <4> QED
          BY <1>1, <3>2, <4>2 DEF WordEnd
      <3> QED
        BY <3>1, <3>2
    <2>2. CASE WordEnd(s, b.col) >= LLen(b) /\ b.row < b.lcount - 1
      BY <1>2, <2>2 DEF ToWordEnd, s
    <2>3. CASE ~(WordEnd(s, b.col) >= LLen(b) /\ b.row < b.lcount - 1)
      <3>1. ToWordEnd(b) = [b EXCEPT !.col = WordEnd(s, b.col)]
        BY <2>3 DEF ToWordEnd, s
      <3> QED
        BY <2>1, <3>1, GoesCol DEF Ready, Fit
    <2> QED
      BY <2>2, <2>3
  <1> QED
    BY <1>3, <1>4, <1>5

\* The bracket found is a place of the line.
LEMMA MatchingFacts ==
    ASSUME NEW b, Fit(b)
    PROVE  Goes(b, Matching(b))
  <1> DEFINE s == Line(b)
             at == b.col + 1
             Count(i, j, c) == Cardinality({k \in i .. j : s[k] = c})
             Level(i, j, p) == Count(i, j, p[1]) = Count(i, j, p[2])
             Fwd(p) == {j \in at .. Len(s) : Level(at, j, p)}
             Bwd(p) == {i \in 1 .. at : Level(i, at, p)}
             Target == UNION {IF s[at] = p[1] THEN {j \in Fwd(p) : \A k \in Fwd(p) : j <= k}
                              ELSE IF s[at] = p[2] THEN {j \in Bwd(p) : \A k \in Bwd(p) : j >= k}
                              ELSE {} : p \in Brackets}
  <1>1. Matching(b) = IF b.col < Len(s) /\ Target # {}
                      THEN [b EXCEPT !.col = (CHOOSE j \in Target : TRUE) - 1] ELSE b
    BY DEF Matching
  <1>2. b.col \in Nat /\ Len(s) \in Nat
    BY FitFacts
  <1>3. ASSUME NEW j \in Target
        PROVE  j - 1 \in Nat
    <2>1. PICK p \in Brackets : j \in Fwd(p) \/ j \in Bwd(p)
      OBVIOUS
    <2>2. j \in at .. Len(s) \/ j \in 1 .. at
      BY <2>1
    <2> QED
      BY <1>2, <2>2
  <1> HIDE DEF Target, s
  <1>4. CASE b.col < Len(s) /\ Target # {}
    <2>1. (CHOOSE j \in Target : TRUE) \in Target
      BY <1>4
    <2>2. (CHOOSE j \in Target : TRUE) - 1 \in Nat
      BY <1>3, <2>1
    <2> QED
      BY <1>1, <1>4, <2>2, GoesCol DEF Ready, Fit
  <1>5. CASE ~(b.col < Len(s) /\ Target # {})
    BY <1>1, <1>5, GoesSame DEF Ready, Fit
  <1> QED
    BY <1>4, <1>5

\* The first row from r on that is (or is not) empty.
LEMMA NextFacts ==
    ASSUME NEW n \in Nat, NEW r \in 0 .. n, NEW P
    PROVE  \E k \in r .. n : /\ k = n \/ k \in P
                             /\ \A j \in r .. k - 1 : j \notin P
  <1> DEFINE T == {k \in r .. n : k = n \/ k \in P}
  <1>1. T \subseteq Nat /\ T # {}
    <2>1. n \in T
      OBVIOUS
    <2> QED
      BY <2>1
  <1>2. PICK k \in T : \A j \in T : k <= j
    <2> HIDE DEF T
    <2> QED
      BY <1>1, SmallestOf, Zenon
  <1>3. ASSUME NEW j \in r .. k - 1
        PROVE  j \notin P
    <2>1. j \in r .. n /\ ~(k <= j)
      OBVIOUS
    <2> QED
      BY <1>2, <2>1
  <1> QED
    BY <1>3

LEMMA ParagraphFacts ==
    ASSUME NEW b, Fit(b), NEW forward \in BOOLEAN
    PROVE  Goes(b, Paragraph(b, forward))
  <1> DEFINE Nx(r, empty) == CHOOSE k \in r .. b.lcount :
                               /\ k = b.lcount \/ (b.rows[k] = << >>) # empty
                               /\ \A j \in r .. k - 1 : (b.rows[j] = << >>) = empty
             gap  == Nx(b.row + 1, FALSE)
             down == Nx(Least(gap + 1, b.lcount), TRUE)
             from == IF b.row > 1 /\ b.rows[b.row - 1] = << >> THEN b.row - 2 ELSE b.row - 1
             top  == Greatest(from, 0)
             up   == CHOOSE k \in 0 .. top :
                       /\ k = 0 \/ b.rows[k] = << >>
                       /\ \A j \in k + 1 .. from : b.rows[j] # << >>
  <1>1. Paragraph(b, forward) = [b EXCEPT !.row = IF forward THEN Least(down, b.lcount - 1) ELSE up,
                                          !.col = 0]
    BY DEF Paragraph
  <1>2. b.row \in Nat /\ b.lcount \in Nat /\ b.row < b.lcount
    BY FitFacts
  <1>3. ASSUME NEW r \in 0 .. b.lcount, NEW empty \in BOOLEAN
        PROVE  Nx(r, empty) \in r .. b.lcount
    <2> DEFINE P == {k \in r .. b.lcount : (b.rows[k] = << >>) # empty}
    <2>1. PICK k \in r .. b.lcount : (k = b.lcount \/ k \in P) /\ \A j \in r .. k - 1 : j \notin P
      <3> HIDE DEF P
      <3> QED
        BY <1>2, NextFacts
    <2>2. k = b.lcount \/ (b.rows[k] = << >>) # empty
      BY <2>1
    <2>3. ASSUME NEW j \in r .. k - 1
          PROVE  (b.rows[j] = << >>) = empty
      <3>1. j \in r .. b.lcount /\ j \notin P
        BY <1>2, <2>1
      <3> QED
        BY <3>1
    <2>4. \E m \in r .. b.lcount : /\ m = b.lcount \/ (b.rows[m] = << >>) # empty
                                   /\ \A j \in r .. m - 1 : (b.rows[j] = << >>) = empty
      BY <2>2, <2>3
    <2> QED
      BY <2>4
  <1>4. Least(down, b.lcount - 1) \in 0 .. b.lcount - 1
    <2>1. b.row + 1 \in 0 .. b.lcount /\ FALSE \in BOOLEAN /\ TRUE \in BOOLEAN
      BY <1>2
    <2>2. gap \in b.row + 1 .. b.lcount
      BY <1>3, <2>1
    <2> HIDE DEF gap
    <2>3. Least(gap + 1, b.lcount) \in 0 .. b.lcount
      BY <1>2, <2>2 DEF Least
    <2>4. down \in 0 .. b.lcount
      <3> DEFINE r == Least(gap + 1, b.lcount)
      <3>1. Nx(r, TRUE) \in r .. b.lcount
        BY <1>3, <2>1, <2>3
      <3> QED
        BY <1>2, <2>3, <3>1
    <2> HIDE DEF down
    <2> QED
      BY <1>2, <2>4 DEF Least
  <1>5. up \in 0 .. b.lcount - 1
    <2> DEFINE T == {k \in 0 .. top : k = 0 \/ b.rows[k] = << >>}
    <2>1. from \in Int /\ from <= b.row - 1
      BY <1>2
    <2> HIDE DEF from
    <2>2. top \in Nat /\ top <= b.lcount - 1 /\ from <= top
      BY <1>2, <2>1 DEF Greatest
    <2> HIDE DEF top
    <2>3. T \subseteq 0 .. top /\ T # {}
      <3>1. 0 \in T
        BY <2>2
      <3> QED
        BY <3>1
    <2>4. PICK k \in T : \A j \in T : j <= k
      <3> HIDE DEF T
      <3> QED
        BY <2>2, <2>3, GreatestOf, Zenon
    <2>5. ASSUME NEW j \in k + 1 .. from
          PROVE  b.rows[j] # << >>
      <3>1. j \in 0 .. top /\ ~(j <= k)
        BY <2>1, <2>2
      <3> QED
        BY <2>4, <3>1
    <2>6. \E m \in 0 .. top : /\ m = 0 \/ b.rows[m] = << >>
                              /\ \A j \in m + 1 .. from : b.rows[j] # << >>
      BY <2>4, <2>5
    <2>7. up \in 0 .. top
      BY <2>6
    <2> HIDE DEF up
    <2> QED
      BY <1>2, <2>2, <2>7
  <1> HIDE DEF up, down
  <1> QED
    BY <1>1, <1>4, <1>5 DEF Goes

\* A set of places has a first one and a last one.
LEMMA FirstPlace ==
    ASSUME NEW n \in Nat, NEW h \in Nat, NEW N, N \subseteq (0 .. n) \X (0 .. h), N # {}
    PROVE  /\ \E m \in N : \A k \in N \ {m} : Before(m, k)
           /\ \E m \in N : \A k \in N \ {m} : Before(k, m)
  <1>0. \A m \in N : m[1] \in 0 .. n /\ m[2] \in 0 .. h /\ m = << m[1], m[2] >>
    OBVIOUS
  <1> DEFINE A == {m[1] : m \in N}
  <1>1. A \subseteq 0 .. n /\ A # {} /\ A \subseteq Nat
    <2>1. PICK m \in N : TRUE
      OBVIOUS
    <2>2. m[1] \in A
      OBVIOUS
    <2>3. A \subseteq 0 .. n
      BY <1>0
    <2> QED
      BY <2>2, <2>3
  <1>2. \E m \in N : \A k \in N \ {m} : Before(m, k)
    <2>1. PICK a \in A : \A x \in A : a <= x
      <3> HIDE DEF A
      <3> QED
        BY <1>1, SmallestOf, Zenon
    <2> DEFINE B == {m[2] : m \in {k \in N : k[1] = a}}
    <2>2. PICK m0 \in N : m0[1] = a
      OBVIOUS
    <2>3. B \subseteq Nat /\ B # {}
      <3>1. m0[2] \in B
        BY <2>2
      <3>2. B \subseteq Nat
        BY <1>0
      <3> QED
        BY <3>1, <3>2
    <2>4. PICK c \in B : \A x \in B : c <= x
      <3> HIDE DEF B
      <3> QED
        BY <2>3, SmallestOf, Zenon
    <2>5. PICK m \in N : m[1] = a /\ m[2] = c
      OBVIOUS
    <2>6. ASSUME NEW k \in N \ {m}
          PROVE  Before(m, k)
      <3>1. k[1] \in A /\ a <= k[1] /\ k[1] \in Nat /\ a \in Nat /\ c \in Nat /\ k[2] \in Nat
        BY <1>0, <2>1, <2>5
      <3>2. CASE k[1] = a
        <4>1. k[2] \in B /\ c <= k[2]
          BY <2>4, <3>2
        <4>2. k[2] # c
          BY <1>0, <2>5, <3>2
        <4> QED
          BY <2>5, <3>1, <3>2, <4>1, <4>2 DEF Before
      <3>3. CASE k[1] # a
        BY <2>5, <3>1, <3>3 DEF Before
      <3> QED
        BY <3>2, <3>3
    <2> QED
      BY <2>6
  <1>3. \E m \in N : \A k \in N \ {m} : Before(k, m)
    <2>1. PICK a \in A : \A x \in A : x <= a
      <3> HIDE DEF A
      <3> QED
        BY <1>1, GreatestOf, Zenon
    <2> DEFINE B == {m[2] : m \in {k \in N : k[1] = a}}
    <2>2. PICK m0 \in N : m0[1] = a
      OBVIOUS
    <2>3. B \subseteq 0 .. h /\ B # {}
      <3>1. m0[2] \in B
        BY <2>2
      <3>2. B \subseteq 0 .. h
        BY <1>0
      <3> QED
        BY <3>1, <3>2
    <2>4. PICK c \in B : \A x \in B : x <= c
      <3> HIDE DEF B
      <3> QED
        BY <2>3, GreatestOf, Zenon
    <2>5. PICK m \in N : m[1] = a /\ m[2] = c
      OBVIOUS
    <2>6. ASSUME NEW k \in N \ {m}
          PROVE  Before(k, m)
      <3>1. k[1] \in A /\ k[1] <= a /\ k[1] \in Nat /\ a \in Nat /\ c \in Nat /\ k[2] \in Nat
        BY <1>0, <2>1, <2>5
      <3>2. CASE k[1] = a
        <4>1. k[2] \in B /\ k[2] <= c
          BY <2>4, <3>2
        <4>2. k[2] # c
          BY <1>0, <2>5, <3>2
        <4> QED
          BY <2>5, <3>1, <3>2, <4>1, <4>2 DEF Before
      <3>3. CASE k[1] # a
        BY <2>5, <3>1, <3>3 DEF Before
      <3> QED
        BY <3>2, <3>3
    <2> QED
      BY <2>6
  <1> QED
    BY <1>2, <1>3

LEMMA SearchFacts ==
    ASSUME NEW b, Fit(b), NEW pat, NEW forward \in BOOLEAN
    PROVE  Goes(b, Search(b, pat, forward))
  <1> DEFINE here == << b.row, b.col >>
             near == {m \in Matches(b, pat) :
                        IF forward THEN Before(here, m) ELSE Before(m, here)}
             hit  == CHOOSE m \in near :
                       \A n \in near \ {m} : IF forward THEN Before(m, n) ELSE Before(n, m)
  <1>1. Search(b, pat, forward) = IF pat = << >> \/ near = {} THEN b
                                  ELSE [b EXCEPT !.row = hit[1], !.col = hit[2]]
    BY DEF Search
  <1>2. b.lcount - 1 \in Nat /\ MaxCol - 1 \in Nat
    BY FitFacts, Numbers
  <1>3. near \subseteq (0 .. b.lcount - 1) \X (0 .. MaxCol - 1)
    BY DEF Matches
  <1>4. CASE pat = << >> \/ near = {}
    BY <1>1, <1>4, GoesSame DEF Ready, Fit
  <1>5. CASE ~(pat = << >> \/ near = {})
    <2> HIDE DEF near
    <2>1. \E m \in near : \A n \in near \ {m} : IF forward THEN Before(m, n) ELSE Before(n, m)
      <3>1. /\ \E m \in near : \A n \in near \ {m} : Before(m, n)
            /\ \E m \in near : \A n \in near \ {m} : Before(n, m)
        BY <1>2, <1>3, <1>5, FirstPlace
      <3>2. CASE forward = TRUE
        BY <3>1, <3>2
      <3>3. CASE forward = FALSE
        BY <3>1, <3>3
      <3> QED
        BY <3>2, <3>3
    <2>2. hit \in near
      BY <2>1
    <2> HIDE DEF hit
    <2>3. hit[1] \in 0 .. b.lcount - 1 /\ hit[2] \in Nat
      BY <1>3, <2>2
    <2> QED
      BY <1>1, <1>5, <2>3 DEF Goes
  <1> QED
    BY <1>4, <1>5

LEMMA FindFacts ==
    ASSUME NEW b, Fit(b), NEW c
    PROVE  Goes(b, Find(b, c))
  <1> DEFINE at == {i \in b.col + 2 .. LLen(b) : Line(b)[i] = c}
             i0 == CHOOSE i \in at : \A j \in at : i <= j
  <1>1. Find(b, c) = IF at = {} THEN b ELSE [b EXCEPT !.col = i0 - 1]
    BY DEF Find
  <1>2. \A i \in at : i \in Nat /\ i - 1 \in Nat
    BY FitFacts
  <1> HIDE DEF at
  <1>3. CASE at = {}
    BY <1>1, <1>3, GoesSame DEF Ready, Fit
  <1>4. CASE at # {}
    <2>0. at \subseteq Nat
      BY <1>2
    <2>1. i0 \in at
      BY <1>4, <2>0, SmallestOf, Zenon
    <2> HIDE DEF i0
    <2> QED
      BY <1>1, <1>2, <1>4, <2>1, GoesCol DEF Ready, Fit
  <1> QED
    BY <1>3, <1>4

----------------------------------------------------------------------------
(* Changes of rows *)

LEMMA PutFacts ==
    ASSUME NEW s \in Fits, NEW n \in 0 .. Len(s), NEW t \in Str, Len(s) + Len(t) < MaxCol
    PROVE  /\ Take(s, n) \o t \o Drop(s, n) \in Fits
           /\ Len(Take(s, n) \o t \o Drop(s, n)) = Len(s) + Len(t)
  <1>1. s \in Str /\ n \in Nat /\ Len(s) \in Nat /\ Len(t) \in Nat
    BY StrFacts
  <1>2. Take(s, n) \in Str /\ Len(Take(s, n)) = n
    BY <1>1, TakeFacts
  <1>3. Drop(s, n) \in Str /\ Len(Drop(s, n)) = Len(s) - n
    BY <1>1, DropFacts
  <1>4. Take(s, n) \o t \in Str /\ Len(Take(s, n) \o t) = n + Len(t)
    BY <1>2, JoinFacts
  <1>5. /\ (Take(s, n) \o t) \o Drop(s, n) \in Str
        /\ Len((Take(s, n) \o t) \o Drop(s, n)) = n + Len(t) + (Len(s) - n)
    BY <1>3, <1>4, JoinFacts
  <1> QED
    BY <1>1, <1>5, Numbers DEF Fits

LEMMA RemoveFacts ==
    ASSUME NEW s \in Fits, NEW n \in 1 .. Len(s)
    PROVE  RemoveAt(s, n) \in Fits /\ Len(RemoveAt(s, n)) = Len(s) - 1
  <1>1. s \in Str /\ Len(s) \in Nat /\ n - 1 \in 0 .. Len(s) /\ n \in Nat
    BY StrFacts
  <1>2. RemoveAt(s, n) = Take(s, n - 1) \o Drop(s, n)
    BY DEF RemoveAt, Take, Drop
  <1>3. Take(s, n - 1) \in Str /\ Len(Take(s, n - 1)) = n - 1
    BY <1>1, TakeFacts
  <1>4. Drop(s, n) \in Str /\ Len(Drop(s, n)) = Len(s) - n
    BY <1>1, DropFacts
  <1>5. /\ Take(s, n - 1) \o Drop(s, n) \in Str
        /\ Len(Take(s, n - 1) \o Drop(s, n)) = n - 1 + (Len(s) - n)
    BY <1>3, <1>4, JoinFacts
  <1> QED
    BY <1>1, <1>2, <1>5, Numbers DEF Fits

LEMMA ClosedForm ==
    ASSUME NEW b, NEW r, NEW n
    PROVE  CloseRows(b, r, n) = [b EXCEPT !.rows = RowsClosed(b.rows, b.lcount, r, n),
                                          !.lcount = b.lcount - n]
  BY Zenon DEF CloseRows, RowsClosed

LEMMA OpenedForm ==
    ASSUME NEW b, NEW r, NEW s
    PROVE  OpenRow(b, r, s) = [b EXCEPT !.rows = RowsOpened(b.rows, b.lcount, r, s),
                                        !.lcount = b.lcount + 1]
  BY Zenon DEF OpenRow, RowsOpened

LEMMA ClosedLast ==
    ASSUME NEW R \in Rows, NEW lc \in 1 .. MaxLines
    PROVE  RowsClosed(R, lc, lc - 1, 1) = R
  <1>1. \A i \in RowNos : lc - 1 <= i /\ i < lc => Least(i + 1, lc - 1) = i
    BY Numbers DEF Least, RowNos
  <1> QED
    BY <1>1, RowFacts DEF RowsClosed, Rows

LEMMA OpenedLast ==
    ASSUME NEW R \in Rows, NEW lc \in 1 .. MaxLines, NEW s, NEW i \in RowNos, i # lc
    PROVE  RowsOpened(R, lc, lc, s)[i] = R[i]
  <1>1. ~(lc < i /\ i <= lc)
    BY Numbers DEF RowNos
  <1> QED
    BY <1>1, RowFacts DEF RowsOpened

\* A buffer after a change of its text.
Edited(b, R, n, r, c) ==
    [b EXCEPT !.rows = R, !.lcount = n, !.row = r, !.col = c, !.modified = TRUE]

LEMMA EditedFacts ==
    ASSUME NEW b \in ViBufs, NEW R \in Rows, NEW n \in 1 .. MaxLines, NEW r \in RowNos,
           NEW c \in Nat, NEW d, d = Edited(b, R, n, r, c)
    PROVE  /\ d \in ViBufs /\ d.rows = R /\ d.lcount = n /\ d.row = r /\ d.col = c
           /\ d.modified = TRUE /\ d.mode = b.mode /\ d.undo = b.undo /\ d.snap = b.snap
           /\ d.exact = b.exact /\ d.yank = b.yank /\ d.fname = b.fname
  BY DEF Edited, ViBufs

\* Row r of the rows is s.
Put(R, r, s) == [R EXCEPT ![r] = s]

LEMMA PutRow ==
    ASSUME NEW R \in Rows, NEW r \in RowNos, NEW s \in Fits
    PROVE  /\ Put(R, r, s) \in Rows /\ Put(R, r, s)[r] = s
           /\ \A i \in RowNos : i # r => Put(R, r, s)[i] = R[i]
  BY RowsPut, RowFacts DEF Put

LEMMA InsertCharForm ==
    ASSUME NEW b, Ready(b), Placed(b), NEW c \in Char, InsertChar(b, c) # b
    PROVE  \E s \in Fits : InsertChar(b, c) =
                           Edited(b, Put(b.rows, b.row, s), b.lcount, b.row, b.col + 1)
  <1> DEFINE t == << c >>
             s == Take(b.rows[b.row], b.col) \o t \o Drop(b.rows[b.row], b.col)
  <1>1. InsertChar(b, c) = [b EXCEPT !.rows[b.row] = s, !.col = b.col + 1, !.modified = TRUE]
        /\ LLen(b) < MaxCol - 1
    <2>1. ~(LLen(b) >= MaxCol - 1)
      BY DEF InsertChar
    <2> QED
      BY <2>1, ReadyFacts, Numbers DEF InsertChar
  <1>2. t \in Str /\ Len(t) = 1
    BY DEF Str
  <1> HIDE DEF t
  <1>4. s \in Fits
    <2>1. b.rows[b.row] \in Fits /\ b.col \in 0 .. Len(b.rows[b.row])
          /\ Len(b.rows[b.row]) + Len(t) < MaxCol
      BY <1>1, <1>2, ReadyFacts, Numbers DEF Placed
    <2> QED
      BY <1>2, <2>1, PutFacts
  <1> HIDE DEF s
  <1>3. InsertChar(b, c) = Edited(b, Put(b.rows, b.row, s), b.lcount, b.row, b.col + 1)
    BY <1>1, ReadyFacts DEF Edited, Put, ViBufs, NanoBufs
  <1> QED
    BY <1>3, <1>4

LEMMA InsertBlanksForm ==
    ASSUME NEW b, Ready(b), Placed(b), NEW n \in Nat, InsertBlanks(b, n) # b
    PROVE  \E s \in Fits, c \in Nat :
              InsertBlanks(b, n) = Edited(b, Put(b.rows, b.row, s), b.lcount, b.row, c)
  <1> DEFINE k == Least(n, MaxCol - 1 - LLen(b))
             t == [i \in 1 .. k |-> " "]
             s == Take(b.rows[b.row], b.col) \o t \o Drop(b.rows[b.row], b.col)
  <1>1. ~(k <= 0)
    BY DEF InsertBlanks
  <1>2. k \in Nat /\ k <= MaxCol - 1 - LLen(b) /\ b.col + k \in Nat
    BY <1>1, ReadyFacts, Numbers DEF Least
  <1>3. InsertBlanks(b, n) =
          [b EXCEPT !.rows[b.row] = s, !.col = b.col + k, !.modified = TRUE]
    BY <1>1 DEF InsertBlanks
  <1> HIDE DEF k
  <1>4. t \in Str /\ Len(t) = k
    <2>1. " " \in Char
      BY Blanks
    <2>2. t \in [1 .. k -> Char]
      BY <2>1, Zenon
    <2>3. t \in Seq(Char) /\ DOMAIN t = 1 .. k
      <3> HIDE DEF t
      <3> QED
        BY <1>2, <2>2
    <2> HIDE DEF t
    <2> QED
      BY <1>2, <2>3, LenProperties DEF Str
  <1> HIDE DEF t
  <1>5. s \in Fits
    <2>1. b.rows[b.row] \in Fits /\ b.col \in 0 .. Len(b.rows[b.row])
          /\ Len(b.rows[b.row]) + Len(t) < MaxCol
      BY <1>2, <1>4, ReadyFacts, Numbers, SMTT(60) DEF Placed
    <2> QED
      BY <1>4, <2>1, PutFacts
  <1> HIDE DEF s
  <1>6. InsertBlanks(b, n) = Edited(b, Put(b.rows, b.row, s), b.lcount, b.row, b.col + k)
    BY <1>3, ReadyFacts DEF Edited, Put, ViBufs, NanoBufs
  <1> QED
    BY <1>2, <1>5, <1>6

LEMMA BackspaceForm ==
    ASSUME NEW b, Ready(b), Placed(b), NEW d, d = Backspace(b)
    PROVE  /\ b.col > 0 =>
                \E s \in Fits :
                   /\ s = RemoveAt(Line(b), b.col)
                   /\ d = Edited(b, Put(b.rows, b.row, s), b.lcount, b.row, b.col - 1)
           /\ b.col = 0 /\ b.row = 0 => d = b
           /\ b.col = 0 /\ b.row > 0 =>
                LET prev == b.rows[b.row - 1]
                    room == Least(MaxCol - 1 - Len(prev), LLen(b))
                    s    == prev \o Take(Line(b), room)
                IN  /\ s \in Fits /\ room \in 0 .. LLen(b) /\ b.row - 1 \in RowNos
                    /\ prev \in Fits
                    /\ b.lcount - 1 \in 1 .. MaxLines /\ Len(prev) + room \in Nat
                    /\ d = Edited(b, RowsClosed(Put(b.rows, b.row - 1, s), b.lcount, b.row, 1),
                                  b.lcount - 1, b.row - 1, Len(prev) + room)
  <1>1. CASE b.col > 0
    <2> DEFINE s == RemoveAt(Line(b), b.col)
    <2>1. d = [b EXCEPT !.rows[b.row] = s, !.col = b.col - 1, !.modified = TRUE]
      BY <1>1 DEF Backspace, Line
    <2>2. b.col \in 1 .. Len(Line(b)) /\ Line(b) \in Fits
      BY <1>1, ReadyFacts DEF Placed
    <2>3. s \in Fits
      BY <2>2, RemoveFacts
    <2> HIDE DEF s
    <2>4. d = Edited(b, Put(b.rows, b.row, s), b.lcount, b.row, b.col - 1)
      BY <2>1, ReadyFacts DEF Edited, Put, ViBufs, NanoBufs
    <2> QED
      BY <1>1, <2>3, <2>4 DEF s
  <1>2. CASE b.col = 0 /\ b.row = 0
    BY <1>2 DEF Backspace
  <1>3. CASE b.col = 0 /\ b.row > 0
    <2> DEFINE prev == b.rows[b.row - 1]
               room == Least(MaxCol - 1 - Len(prev), LLen(b))
               s    == prev \o Take(Line(b), room)
               e    == [b EXCEPT !.rows[b.row - 1] = s, !.row = b.row - 1,
                                 !.col = Len(prev) + room, !.modified = TRUE]
    <2>1. d = CloseRows(e, b.row, 1)
      BY <1>3 DEF Backspace
    <2>2. b.row - 1 \in 0 .. b.lcount - 1 /\ b.row - 1 \in RowNos
      BY <1>3, ReadyFacts
    <2>3. prev \in Fits /\ prev \in Str /\ Len(prev) \in Nat /\ Len(prev) <= MaxCol - 1
      BY <2>2, ReadyFacts, StrFacts
    <2>4. /\ Line(b) \in Str /\ LLen(b) = Len(Line(b)) /\ LLen(b) \in Nat
          /\ b.lcount \in 1 .. MaxLines /\ b.row \in Nat /\ b.row < b.lcount
      BY ReadyFacts
    <2> HIDE DEF prev
    <2>5. room \in 0 .. LLen(b) /\ room <= MaxCol - 1 - Len(prev)
      BY <2>3, <2>4, Numbers DEF Least
    <2> HIDE DEF room
    <2>6. Take(Line(b), room) \in Str /\ Len(Take(Line(b), room)) = room
      BY <2>4, <2>5, TakeFacts
    <2>7. s \in Str /\ Len(s) = Len(prev) + room
      BY <2>3, <2>6, JoinFacts
    <2>8. s \in Fits /\ Len(prev) + room \in Nat /\ b.lcount - 1 \in 1 .. MaxLines
      BY <1>3, <2>3, <2>4, <2>5, <2>7, Numbers, SMTT(60) DEF Fits
    <2> HIDE DEF s
    <2> DEFINE Q == Put(b.rows, b.row - 1, s)
    <2>9. e.rows = Q /\ e.lcount = b.lcount
      BY ReadyFacts DEF Put, ViBufs, NanoBufs
    <2>10. d = [e EXCEPT !.rows = RowsClosed(Q, b.lcount, b.row, 1), !.lcount = b.lcount - 1]
      BY <2>1, <2>9, ClosedForm
    <2>11. d = Edited(b, RowsClosed(Q, b.lcount, b.row, 1), b.lcount - 1, b.row - 1,
                      Len(prev) + room)
      <3> HIDE DEF Q
      <3> DEFINE R == RowsClosed(Q, b.lcount, b.row, 1)
      <3> HIDE DEF R
      <3>1. d = [e EXCEPT !.rows = R, !.lcount = b.lcount - 1]
        BY <2>10 DEF R
      <3>2. d = Edited(b, R, b.lcount - 1, b.row - 1, Len(prev) + room)
        BY <3>1, ReadyFacts DEF Edited, ViBufs, NanoBufs
      <3> QED
        BY <3>2 DEF R
    <2> QED
      BY <1>3, <2>2, <2>3, <2>5, <2>8, <2>11 DEF prev, room, s, Q
  <1> QED
    BY <1>1, <1>2, <1>3, ReadyFacts

LEMMA NewlineForm ==
    ASSUME NEW b, Ready(b), Placed(b), NEW d, d = Newline(b)
    PROVE  /\ b.lcount >= MaxLines => d = b
           /\ b.lcount < MaxLines =>
                LET s == Take(Line(b), b.col)
                    t == Drop(Line(b), b.col)
                IN  /\ s \in Fits /\ t \in Fits /\ b.row + 1 \in RowNos
                    /\ b.lcount + 1 \in 1 .. MaxLines
                    /\ d = Edited(b, RowsOpened(Put(b.rows, b.row, s), b.lcount, b.row + 1, t),
                                  b.lcount + 1, b.row + 1, 0)
  <1>1. CASE b.lcount >= MaxLines
    BY <1>1, ReadyFacts, Numbers DEF Newline
  <1>2. CASE b.lcount < MaxLines
    <2> DEFINE s == Take(Line(b), b.col)
               t == Drop(Line(b), b.col)
               e == [b EXCEPT !.rows[b.row] = s, !.row = b.row + 1, !.col = 0,
                              !.modified = TRUE]
               Q == Put(b.rows, b.row, s)
    <2>1. /\ Line(b) \in Fits /\ Line(b) \in Str /\ LLen(b) = Len(Line(b)) /\ LLen(b) \in Nat
          /\ b.lcount \in 1 .. MaxLines /\ b.row \in Nat /\ b.row < b.lcount /\ b.col \in Nat
      BY ReadyFacts
    <2>2. d = OpenRow(e, b.row + 1, t)
      BY <1>2, <2>1, Numbers DEF Newline, Line
    <2>3. s \in Fits /\ t \in Fits
      <3>1. b.col \in 0 .. Len(Line(b))
        BY <2>1 DEF Placed
      <3> QED
        BY <2>1, <3>1, TakeFacts, DropFacts
    <2>4. b.row + 1 \in RowNos /\ b.lcount + 1 \in 1 .. MaxLines
      BY <1>2, <2>1, Numbers DEF RowNos
    <2> HIDE DEF s, t
    <2>5. e.rows = Q /\ e.lcount = b.lcount
      BY ReadyFacts DEF Put, ViBufs, NanoBufs
    <2> DEFINE R == RowsOpened(Q, b.lcount, b.row + 1, t)
    <2>6. d = [e EXCEPT !.rows = R, !.lcount = b.lcount + 1]
      BY <2>2, <2>5, OpenedForm
    <2>7. d = Edited(b, R, b.lcount + 1, b.row + 1, 0)
      <3> HIDE DEF R, Q
      <3> QED
        BY <2>6, ReadyFacts DEF Edited, ViBufs, NanoBufs
    <2> QED
      BY <1>2, <2>1, <2>3, <2>4, <2>7, Numbers DEF s, t
  <1> QED
    BY <1>1, <1>2, ReadyFacts, Numbers

----------------------------------------------------------------------------
(* Changes in vi *)

\* vi goes on and what was done to the text is known.
Chg(b, d) == Fit(d) /\ Still(b, d)

LEMMA ChgTrans ==
    ASSUME NEW b, NEW u, NEW d, Chg(b, u), Chg(u, d)
    PROVE  Chg(b, d)
  BY DEF Chg, Still

LEMMA ChgWorks ==
    ASSUME NEW b, NEW d, Chg(b, d)
    PROVE  Works(b, d) /\ d.mode \notin Ended
  BY FitFacts DEF Chg, Works

LEMMA ChgSame ==
    ASSUME NEW b, Fit(b)
    PROVE  Chg(b, b)
  BY DEF Chg, Still

LEMMA ChgGoes ==
    ASSUME NEW b, Fit(b), NEW d, Goes(b, d)
    PROVE  Chg(b, d)
  BY GoesFacts DEF Chg

LEMMA ChgSave ==
    ASSUME NEW b, Fit(b)
    PROVE  Chg(b, SaveUndo(b))
  BY SaveFacts DEF Chg, Fit

LEMMA ChgModified ==
    ASSUME NEW b, NEW u, NEW d, Chg(u, d), d.modified
    PROVE  Chg(b, d)
  BY DEF Chg, Still

\* The same, and whether undo still takes everything back.
Changed(b, R, n, r, c, x) ==
    [b EXCEPT !.rows = R, !.lcount = n, !.row = r, !.col = c, !.modified = TRUE, !.exact = x]

\* Only the cursor's column, the mode or what was remembered for "." change.
Tidy(b, c, m, t) == [b EXCEPT !.col = c, !.mode = m, !.dot = t]

\* A change of any rows.
LEMMA ChgEdit ==
    ASSUME NEW b, Fit(b), NEW R \in Rows, NEW n \in 1 .. MaxLines, NEW r \in RowNos, r < n,
           NEW c \in Nat, NEW x \in BOOLEAN,
           x => b.exact /\ \A i \in 0 .. b.undo.lcount - 1 :
                              i # b.undo.row => R[i] = b.rows[i],
           NEW d, d = Changed(b, R, n, r, c, x)
    PROVE  /\ Chg(b, d) /\ d.modified /\ d.rows = R /\ d.lcount = n /\ d.row = r /\ d.col = c
           /\ d.exact = x /\ d.undo = b.undo /\ d.yank = b.yank /\ d.mode = b.mode
  <1>1. b \in ViBufs /\ UndoOK(b) /\ b.mode \in Live
    BY DEF Fit
  <1>2. /\ d \in ViBufs /\ d.rows = R /\ d.lcount = n /\ d.row = r /\ d.col = c
        /\ d.modified = TRUE /\ d.mode = b.mode /\ d.undo = b.undo /\ d.snap = b.snap
        /\ d.exact = x /\ d.yank = b.yank
    BY <1>1 DEF Changed, ViBufs
  <1>3. UndoOK(d)
    BY <1>1, <1>2 DEF UndoOK, Brings
  <1> QED
    BY <1>1, <1>2, <1>3 DEF Chg, Fit, Still

\* A change of the cursor's row.
LEMMA ChgRow ==
    ASSUME NEW b, Fit(b), NEW s \in Fits, NEW c \in Nat, NEW x \in BOOLEAN,
           x => b.exact /\ b.row = b.undo.row,
           NEW d, d = Changed(b, Put(b.rows, b.row, s), b.lcount, b.row, c, x)
    PROVE  /\ Chg(b, d) /\ d.modified /\ d.rows = Put(b.rows, b.row, s)
           /\ d.lcount = b.lcount /\ d.row = b.row /\ d.col = c
           /\ d.exact = x /\ d.undo = b.undo /\ d.yank = b.yank /\ d.mode = b.mode
  <1> DEFINE R == Put(b.rows, b.row, s)
  <1>1. /\ b.rows \in Rows /\ b.row \in RowNos /\ b.lcount \in 1 .. MaxLines
        /\ b.row < b.lcount /\ b.undo.lcount \in 0 .. MaxLines
    BY FitFacts, BufFacts
  <1>2. R \in Rows /\ \A i \in RowNos : i # b.row => R[i] = b.rows[i]
    BY <1>1, PutRow
  <1>3. \A i \in 0 .. b.undo.lcount - 1 : i \in RowNos
    BY <1>1, Numbers DEF RowNos
  <1>4. x => b.exact /\ \A i \in 0 .. b.undo.lcount - 1 : i # b.undo.row => R[i] = b.rows[i]
    BY <1>2, <1>3
  <1> HIDE DEF R
  <1>5. d = Changed(b, R, b.lcount, b.row, c, x)
    BY DEF R
  <1>6. /\ Chg(b, d) /\ d.modified /\ d.rows = R /\ d.lcount = b.lcount /\ d.row = b.row
        /\ d.col = c /\ d.exact = x /\ d.undo = b.undo /\ d.yank = b.yank /\ d.mode = b.mode
    BY <1>1, <1>2, <1>4, <1>5, ChgEdit
  <1> QED
    BY <1>6 DEF R

\* The same without a word about exact, after undo was saved.
LEMMA ChgSavedRow ==
    ASSUME NEW b, Fit(b), b.row = b.undo.row, NEW s \in Fits, NEW c \in Nat,
           NEW d, d = Edited(b, Put(b.rows, b.row, s), b.lcount, b.row, c)
    PROVE  /\ Chg(b, d) /\ d.modified /\ d.rows = Put(b.rows, b.row, s)
           /\ d.lcount = b.lcount /\ d.row = b.row /\ d.col = c
           /\ d.exact = b.exact /\ d.undo = b.undo /\ d.yank = b.yank /\ d.mode = b.mode
  <1>1. b \in ViBufs /\ b.exact \in BOOLEAN
    BY BufFacts DEF Fit
  <1>2. d = Changed(b, Put(b.rows, b.row, s), b.lcount, b.row, c, b.exact)
    BY <1>1 DEF Edited, Changed, ViBufs
  <1> QED
    BY <1>1, <1>2, ChgRow

LEMMA ChgTidy ==
    ASSUME NEW b, Fit(b), NEW c \in Nat, NEW m \in Live, NEW t \in BOOLEAN,
           NEW d, d = Tidy(b, c, m, t)
    PROVE  /\ Chg(b, d) /\ d.modified = b.modified /\ d.rows = b.rows /\ d.lcount = b.lcount
           /\ d.row = b.row /\ d.col = c /\ d.mode = m
  <1>1. b \in ViBufs /\ UndoOK(b) /\ b.row < b.lcount
    BY DEF Fit
  <1>2. /\ d \in ViBufs /\ d.rows = b.rows /\ d.lcount = b.lcount /\ d.row = b.row /\ d.col = c
        /\ d.modified = b.modified /\ d.mode = m /\ d.undo = b.undo /\ d.snap = b.snap
        /\ d.exact = b.exact /\ d.fname = b.fname /\ d.disk = b.disk
    BY <1>1 DEF Tidy, ViBufs
  <1>3. UndoOK(d)
    BY <1>1, <1>2 DEF UndoOK, Brings
  <1> QED
    BY <1>1, <1>2, <1>3 DEF Chg, Fit, Still

LEMMA ChgMode ==
    ASSUME NEW b, Fit(b), NEW m \in Live, NEW d, d = [b EXCEPT !.mode = m]
    PROVE  /\ Chg(b, d) /\ d.modified = b.modified /\ d.rows = b.rows /\ d.lcount = b.lcount
           /\ d.row = b.row /\ d.col = b.col
  <1>1. b \in ViBufs /\ b.col \in Nat /\ b.dot \in BOOLEAN
    BY DEF Fit, ViBufs
  <1>2. d = Tidy(b, b.col, m, b.dot)
    BY <1>1 DEF Tidy, ViBufs
  <1> QED
    BY <1>1, <1>2, ChgTidy

\* What the register holds of a text.
Register(s, l) == [text |-> Take(s, Least(Len(s), YankMax - 1)), line |-> l]

LEMMA ChgYank ==
    ASSUME NEW b, Fit(b), NEW s \in Str, NEW l \in BOOLEAN, NEW d, d = YankText(b, s, l)
    PROVE  /\ Chg(b, d) /\ d.modified = b.modified /\ d.rows = b.rows /\ d.lcount = b.lcount
           /\ d.row = b.row /\ d.col = b.col /\ d.mode = b.mode /\ d.undo = b.undo
           /\ d.exact = b.exact /\ d.snap = b.snap
           /\ d.yank = Register(s, l)
           /\ Line(d) = Line(b) /\ LLen(d) = LLen(b)
  <1> DEFINE t == Take(s, Least(Len(s), YankMax - 1))
             y == [text |-> t, line |-> l]
  <1>1. b \in ViBufs /\ UndoOK(b) /\ b.row < b.lcount /\ b.mode \in Live
    BY DEF Fit
  <1>2. Least(Len(s), YankMax - 1) \in 0 .. Len(s) /\ Least(Len(s), YankMax - 1) < YankMax
    BY StrFacts, Numbers DEF Least
  <1>3. t \in Str /\ Len(t) < YankMax
    BY <1>2, TakeFacts
  <1> HIDE DEF t
  <1>4. y \in Yanks
    BY <1>3 DEF Yanks
  <1> HIDE DEF y
  <1>5. d = [b EXCEPT !.yank = y]
    BY DEF YankText, y, t
  <1>6. /\ d \in ViBufs /\ d.rows = b.rows /\ d.lcount = b.lcount /\ d.row = b.row /\ d.col = b.col
        /\ d.modified = b.modified /\ d.mode = b.mode /\ d.undo = b.undo /\ d.snap = b.snap
        /\ d.exact = b.exact /\ d.fname = b.fname /\ d.disk = b.disk /\ d.yank = y
    BY <1>1, <1>4, <1>5 DEF ViBufs
  <1>7. UndoOK(d)
    BY <1>1, <1>6 DEF UndoOK, Brings
  <1> QED
    BY <1>1, <1>6, <1>7 DEF Chg, Fit, Still, y, t, Line, LLen, Register

LEMMA SavedFacts ==
    ASSUME NEW b, Fit(b), NEW u, u = SaveUndo(b)
    PROVE  /\ Chg(b, u) /\ Fit(u) /\ u.exact /\ u.undo.row = u.row /\ u.undo.lcount = u.lcount
           /\ u.undo.line = Line(b) /\ u.snap = Text(b)
           /\ u.rows = b.rows /\ u.lcount = b.lcount /\ u.row = b.row /\ u.col = b.col
           /\ u.modified = b.modified /\ u.mode = b.mode /\ u.yank = b.yank
           /\ Line(u) = Line(b) /\ LLen(u) = LLen(b)
  <1>1. b \in ViBufs
    BY DEF Fit
  <1>2. /\ Chg(b, u) /\ Fit(u)
    BY ChgSave DEF Chg
  <1>3. /\ u.undo.row = b.row /\ u.undo.lcount = b.lcount /\ u.undo.line = Line(b)
        /\ u.snap = Text(b)
    BY <1>1 DEF SaveUndo, ViBufs
  <1> QED
    BY <1>1, <1>2, <1>3, SaveFacts

----------------------------------------------------------------------------
(* Insert mode *)

\* What is inserted or removed within the row of the cursor.
LEMMA WithinFacts ==
    ASSUME NEW b, Fit(b)
    PROVE  /\ \A r : Within(b, r) \in BOOLEAN /\ (Within(b, r) => b.exact /\ r = b.undo.row)
           /\ \A r : Closed(b, r) \in BOOLEAN /\ (Closed(b, r) => b.exact /\ r = b.lcount - 1)
           /\ \A r : Opened(b, r) \in BOOLEAN /\ (Opened(b, r) => b.exact /\ r = b.lcount
                                                            /\ b.lcount >= b.undo.lcount)
  BY FitFacts, BufFacts DEF Within, Closed, Opened

Exactly(b, x) == [b EXCEPT !.exact = x]

LEMMA ExactOnly ==
    ASSUME NEW b, Fit(b), NEW x \in BOOLEAN, x => b.exact, NEW d, d = Exactly(b, x)
    PROVE  Chg(b, d)
  <1>1. b \in ViBufs /\ UndoOK(b) /\ b.row < b.lcount /\ b.mode \in Live
    BY DEF Fit
  <1>2. /\ d \in ViBufs /\ d.rows = b.rows /\ d.lcount = b.lcount /\ d.row = b.row
        /\ d.modified = b.modified /\ d.mode = b.mode /\ d.undo = b.undo /\ d.snap = b.snap
        /\ d.exact = x /\ d.fname = b.fname /\ d.disk = b.disk
    BY <1>1 DEF Exactly, ViBufs
  <1>3. UndoOK(d)
    BY <1>1, <1>2 DEF UndoOK, Brings
  <1> QED
    BY <1>1, <1>2, <1>3 DEF Chg, Fit, Still

LEMMA ChgInsertChar ==
    ASSUME NEW b, Fit(b), Placed(b), NEW c \in Char
    PROVE  Chg(b, ViInsertChar(b, c))
  <1> DEFINE d == ViInsertChar(b, c)
  <1>1. d = [InsertChar(b, c) EXCEPT !.exact = Within(b, b.row)]
    BY DEF ViInsertChar
  <1> HIDE DEF d
  <1>2. CASE InsertChar(b, c) = b
    <2>1. d = Exactly(b, Within(b, b.row))
      BY <1>1, <1>2 DEF Exactly
    <2> QED
      BY <2>1, WithinFacts, ExactOnly DEF d
  <1>3. CASE InsertChar(b, c) # b
    <2>1. PICK s \in Fits : InsertChar(b, c) =
                            Edited(b, Put(b.rows, b.row, s), b.lcount, b.row, b.col + 1)
      BY <1>3, InsertCharForm DEF Ready, Fit
    <2>2. b.col + 1 \in Nat /\ b \in ViBufs
      BY FitFacts
    <2>3. d = Changed(b, Put(b.rows, b.row, s), b.lcount, b.row, b.col + 1, Within(b, b.row))
      BY <1>1, <2>1, <2>2 DEF Edited, Changed, ViBufs
    <2> QED
      BY <2>2, <2>3, WithinFacts, ChgRow DEF d
  <1> QED
    BY <1>2, <1>3

LEMMA ChgInsertBlanks ==
    ASSUME NEW b, Fit(b), Placed(b)
    PROVE  Chg(b, ViInsertBlanks(b))
  <1> DEFINE d == ViInsertBlanks(b)
  <1>1. d = [InsertBlanks(b, 4) EXCEPT !.exact = Within(b, b.row)]
    BY DEF ViInsertBlanks
  <1> HIDE DEF d
  <1>2. CASE InsertBlanks(b, 4) = b
    <2>1. d = Exactly(b, Within(b, b.row))
      BY <1>1, <1>2 DEF Exactly
    <2> QED
      BY <2>1, WithinFacts, ExactOnly DEF d
  <1>3. CASE InsertBlanks(b, 4) # b
    <2>1. PICK s \in Fits, c \in Nat :
             InsertBlanks(b, 4) = Edited(b, Put(b.rows, b.row, s), b.lcount, b.row, c)
      BY <1>3, InsertBlanksForm DEF Ready, Fit
    <2>2. d = Changed(b, Put(b.rows, b.row, s), b.lcount, b.row, c, Within(b, b.row))
      BY <1>1, <2>1, FitFacts DEF Edited, Changed, ViBufs
    <2> QED
      BY <2>2, WithinFacts, ChgRow DEF d
  <1> QED
    BY <1>2, <1>3

LEMMA ChgBackspace ==
    ASSUME NEW b, Fit(b), Placed(b)
    PROVE  Chg(b, ViBackspace(b))
  <1> DEFINE d == ViBackspace(b)
             e == Backspace(b)
             x == IF b.col > 0 THEN Within(b, b.row)
                  ELSE IF b.row > 0 THEN Within(b, b.row - 1) /\ Closed(b, b.row)
                  ELSE b.exact
  <1>1. b \in ViBufs /\ b.exact \in BOOLEAN /\ b.col \in Nat /\ b.row \in Nat /\ Ready(b)
    BY FitFacts, BufFacts DEF Ready, Fit
  <1>2. CASE b.col > 0
    <2>1. PICK s \in Fits : e = Edited(b, Put(b.rows, b.row, s), b.lcount, b.row, b.col - 1)
      BY <1>1, <1>2, BackspaceForm
    <2>2. d = [e EXCEPT !.exact = Within(b, b.row)]
      BY <1>2 DEF ViBackspace
    <2>3. d = Changed(b, Put(b.rows, b.row, s), b.lcount, b.row, b.col - 1, Within(b, b.row))
      <3> HIDE DEF d, e
      <3> QED
        BY <1>1, <2>1, <2>2 DEF Edited, Changed, ViBufs
    <2>4. b.col - 1 \in Nat
      BY <1>1, <1>2
    <2> HIDE DEF d
    <2> QED
      BY <2>3, <2>4, WithinFacts, ChgRow DEF d
  <1>3. CASE b.col = 0 /\ b.row = 0
    <2>1. e = b
      BY <1>1, <1>3, BackspaceForm
    <2>2. d = Exactly(b, b.exact)
      <3>1. e.exact = b.exact
        BY <2>1
      <3> QED
        BY <1>3, <2>1, <3>1 DEF ViBackspace, Exactly
    <2> HIDE DEF d
    <2> QED
      BY <1>1, <2>2, ExactOnly DEF d
  <1>4. CASE b.col = 0 /\ b.row > 0
    <2> DEFINE prev == b.rows[b.row - 1]
               room == Least(MaxCol - 1 - Len(prev), LLen(b))
               s    == prev \o Take(Line(b), room)
               P    == Put(b.rows, b.row - 1, s)
               R    == RowsClosed(P, b.lcount, b.row, 1)
               w    == Within(b, b.row - 1) /\ Closed(b, b.row)
    <2>1. /\ s \in Fits /\ b.row - 1 \in RowNos
          /\ b.lcount - 1 \in 1 .. MaxLines /\ Len(prev) + room \in Nat
          /\ e = Edited(b, R, b.lcount - 1, b.row - 1, Len(prev) + room)
      <3> HIDE DEF e
      <3> QED
        BY <1>1, <1>4, BackspaceForm DEF e
    <2>2. d = [e EXCEPT !.exact = w]
      BY <1>1, <1>4 DEF ViBackspace
    <2> HIDE DEF d, e, s
    <2> DEFINE c == Len(prev) + room
    <2> HIDE DEF prev, room
    <2>3. d = Changed(b, R, b.lcount - 1, b.row - 1, c, w)
      <3> HIDE DEF c, w, R
      <3> QED
        BY <1>1, <2>1, <2>2 DEF Edited, Changed, ViBufs, c
    <2>4. /\ b.rows \in Rows /\ b.lcount \in 1 .. MaxLines /\ b.row < b.lcount
          /\ b.undo.lcount \in 0 .. MaxLines
      BY <1>1, BufFacts, FitFacts
    <2>5. P \in Rows /\ \A i \in RowNos : i # b.row - 1 => P[i] = b.rows[i]
      BY <2>1, <2>4, PutRow
    <2> HIDE DEF P
    <2>6. R \in Rows
      BY <1>1, <2>4, <2>5, ClosedFacts
    <2>7. w \in BOOLEAN /\ (w => b.exact /\ b.row - 1 = b.undo.row /\ b.row = b.lcount - 1)
      BY WithinFacts
    <2> HIDE DEF w
    <2>8. w => b.exact /\ \A i \in 0 .. b.undo.lcount - 1 : i # b.undo.row => R[i] = b.rows[i]
      <3>1. SUFFICES ASSUME w
                     PROVE  \A i \in 0 .. b.undo.lcount - 1 : i # b.undo.row => R[i] = b.rows[i]
        BY <2>7
      <3>2. R = P
        BY <2>4, <2>5, <2>7, <3>1, ClosedLast
      <3>3. \A i \in 0 .. b.undo.lcount - 1 : i \in RowNos
        BY <2>4, Numbers DEF RowNos
      <3> QED
        BY <2>5, <2>7, <3>1, <3>2, <3>3
    <2>9. b.row - 1 < b.lcount - 1 /\ c \in Nat
      BY <1>1, <2>1, <2>4, Numbers
    <2> HIDE DEF R, c
    <2> QED
      BY <2>1, <2>3, <2>6, <2>7, <2>8, <2>9, ChgEdit DEF d
  <1> QED
    BY <1>1, <1>2, <1>3, <1>4

LEMMA ChgNewline ==
    ASSUME NEW b, Fit(b), Placed(b)
    PROVE  Chg(b, ViNewline(b))
  <1> DEFINE d == ViNewline(b)
             e == Newline(b)
  <1>1. /\ b \in ViBufs /\ b.exact \in BOOLEAN /\ b.lcount \in Nat /\ b.row \in Nat /\ Ready(b)
        /\ b.rows \in Rows /\ b.lcount \in 1 .. MaxLines /\ b.row < b.lcount /\ b.row \in RowNos
        /\ b.undo.lcount \in 0 .. MaxLines
    BY FitFacts, BufFacts DEF Ready, Fit
  <1>2. CASE b.lcount >= MaxLines
    <2>1. e = b
      BY <1>1, <1>2, NewlineForm
    <2>2. d = Exactly(b, b.exact)
      <3>1. e.exact = b.exact
        BY <2>1
      <3> QED
        BY <1>2, <2>1, <3>1 DEF ViNewline, Exactly
    <2> HIDE DEF d
    <2> QED
      BY <1>1, <2>2, ExactOnly DEF d
  <1>3. CASE b.lcount < MaxLines
    <2> DEFINE s == Take(Line(b), b.col)
               t == Drop(Line(b), b.col)
               P == Put(b.rows, b.row, s)
               R == RowsOpened(P, b.lcount, b.row + 1, t)
               w == Within(b, b.row) /\ Opened(b, b.row + 1)
    <2>1. /\ s \in Fits /\ t \in Fits /\ b.row + 1 \in RowNos /\ b.lcount + 1 \in 1 .. MaxLines
          /\ e = Edited(b, R, b.lcount + 1, b.row + 1, 0)
      <3> HIDE DEF e
      <3> QED
        BY <1>1, <1>3, NewlineForm DEF e
    <2>2. d = [e EXCEPT !.exact = w]
      <3>1. ~(b.lcount >= MaxLines)
        BY <1>1, <1>3, Numbers
      <3> QED
        BY <3>1 DEF ViNewline
    <2> HIDE DEF d, e, s, t
    <2>3. d = Changed(b, R, b.lcount + 1, b.row + 1, 0, w)
      <3> HIDE DEF w, R
      <3> QED
        BY <1>1, <2>1, <2>2 DEF Edited, Changed, ViBufs
    <2>4. P \in Rows /\ \A i \in RowNos : i # b.row => P[i] = b.rows[i]
      BY <1>1, <2>1, PutRow, ZenonT(60)
    <2> HIDE DEF P
    <2>5. R \in Rows
      BY <1>1, <2>1, <2>4, OpenedFacts
    <2>6. w \in BOOLEAN /\ (w => /\ b.exact /\ b.row = b.undo.row /\ b.row + 1 = b.lcount
                                 /\ b.lcount >= b.undo.lcount)
      BY WithinFacts
    <2> HIDE DEF w
    <2>7. w => b.exact /\ \A i \in 0 .. b.undo.lcount - 1 : i # b.undo.row => R[i] = b.rows[i]
      <3>1. SUFFICES ASSUME w, NEW i \in 0 .. b.undo.lcount - 1, i # b.undo.row
                     PROVE  R[i] = b.rows[i]
        BY <2>6
      <3>2. i \in RowNos /\ i # b.lcount /\ i # b.row
        BY <1>1, <2>6, <3>1, Numbers DEF RowNos
      <3>3. R[i] = P[i]
        BY <1>1, <2>4, <2>6, <3>1, <3>2, OpenedLast
      <3> QED
        BY <2>4, <3>2, <3>3
    <2>8. b.row + 1 < b.lcount + 1
      BY <1>1
    <2> HIDE DEF R
    <2> QED
      BY <2>1, <2>3, <2>5, <2>6, <2>7, <2>8, ChgEdit DEF d
  <1> QED
    BY <1>1, <1>2, <1>3, Numbers

LEMMA CutFacts ==
    ASSUME NEW s \in Fits, NEW m \in Nat, NEW n \in Nat, m <= n, n <= Len(s)
    PROVE  /\ Take(s, m) \o Drop(s, n) \in Fits
           /\ Len(Take(s, m) \o Drop(s, n)) = Len(s) - (n - m)
  <1>1. s \in Str /\ Len(s) \in Nat /\ m \in 0 .. Len(s) /\ Len(s) < MaxCol
    BY StrFacts DEF Fits
  <1>2. Take(s, m) \in Str /\ Len(Take(s, m)) = m
    BY <1>1, TakeFacts
  <1>3. Drop(s, n) \in Str /\ Len(Drop(s, n)) = Len(s) - n
    BY <1>1, DropFacts
  <1>4. /\ Take(s, m) \o Drop(s, n) \in Str
        /\ Len(Take(s, m) \o Drop(s, n)) = m + (Len(s) - n)
    BY <1>2, <1>3, JoinFacts
  <1> QED
    BY <1>1, <1>4, Numbers DEF Fits

LEMMA ChgDeleteWord ==
    ASSUME NEW b, Fit(b), Placed(b)
    PROVE  Chg(b, DeleteWord(b))
  <1> DEFINE d == DeleteWord(b)
             s == Line(b)
             w == CHOOSE k \in 0 .. b.col - 1 :
                    /\ k = 0 \/ s[k + 1] \notin Blank
                    /\ \A j \in k + 1 .. b.col - 1 : s[j + 1] \in Blank
             start == SkipBack(s, w, Word(s))
  <1>1. /\ b \in ViBufs /\ b.col \in Nat /\ s \in Fits /\ Len(s) \in Nat /\ b.col <= Len(s)
        /\ s = b.rows[b.row] /\ b.rows \in Rows
    BY FitFacts, BufFacts DEF Placed
  <1>2. CASE b.col = 0
    BY <1>2, ChgSame DEF DeleteWord
  <1>3. CASE b.col # 0
    <2>1. w \in 0 .. b.col - 1
      <3>1. b.col - 1 \in Nat
        BY <1>1, <1>3
      <3> QED
        BY <3>1, BlanksBack
    <2>2. d = [b EXCEPT !.rows[b.row] = Take(b.rows[b.row], start) \o Drop(b.rows[b.row], b.col),
                        !.col = start, !.exact = Within(b, b.row), !.modified = TRUE]
      BY <1>3 DEF DeleteWord
    <2> HIDE DEF w
    <2>3. start \in 0 .. w
      <3>1. w \in 0 .. Len(s) /\ s \in Str
        BY <1>1, <2>1, StrFacts
      <3> QED
        BY <3>1, SkipBackFacts
    <2>4. start \in Nat /\ start <= b.col
      BY <1>1, <2>1, <2>3
    <2> HIDE DEF start, d
    <2> DEFINE t == Take(b.rows[b.row], start) \o Drop(b.rows[b.row], b.col)
    <2>5. t \in Fits
      BY <1>1, <2>4, CutFacts
    <2> HIDE DEF t
    <2>6. d = Changed(b, Put(b.rows, b.row, t), b.lcount, b.row, start, Within(b, b.row))
      BY <1>1, <2>2 DEF Changed, Put, ViBufs, t
    <2> QED
      BY <2>4, <2>5, <2>6, WithinFacts, ChgRow DEF d
  <1> QED
    BY <1>2, <1>3

----------------------------------------------------------------------------
(* Lines that come and go *)

LEMMA ChgOpen ==
    ASSUME NEW b, Fit(b), b.lcount < MaxLines, NEW r \in 0 .. b.lcount, NEW s \in Fits,
           NEW d, d = Changed(b, RowsOpened(b.rows, b.lcount, r, s), b.lcount + 1, r, 0,
                              Opened(b, r))
    PROVE  /\ Chg(b, d) /\ d.modified /\ d.rows = RowsOpened(b.rows, b.lcount, r, s)
           /\ d.lcount = b.lcount + 1 /\ d.row = r /\ d.mode = b.mode
  <1> DEFINE R == RowsOpened(b.rows, b.lcount, r, s)
             x == Opened(b, r)
  <1>1. /\ b.rows \in Rows /\ b.lcount \in 1 .. MaxLines /\ b.undo.lcount \in 0 .. MaxLines
    BY FitFacts, BufFacts
  <1>2. r \in Nat /\ r \in RowNos /\ r < b.lcount + 1 /\ b.lcount + 1 \in 1 .. MaxLines
    BY <1>1, Numbers DEF RowNos
  <1>3. R \in Rows
    BY <1>1, <1>2, OpenedFacts
  <1>4. x \in BOOLEAN /\ (x => b.exact /\ r = b.lcount /\ b.lcount >= b.undo.lcount)
    BY WithinFacts
  <1> HIDE DEF x
  <1>5. x => b.exact /\ \A i \in 0 .. b.undo.lcount - 1 : i # b.undo.row => R[i] = b.rows[i]
    <2>1. SUFFICES ASSUME x, NEW i \in 0 .. b.undo.lcount - 1
                   PROVE  R[i] = b.rows[i]
      BY <1>4
    <2>2. i \in RowNos /\ i # b.lcount /\ r = b.lcount
      BY <1>1, <1>4, <2>1, Numbers DEF RowNos
    <2> QED
      BY <1>1, <2>2, OpenedLast
  <1> HIDE DEF R
  <1>6. d = Changed(b, R, b.lcount + 1, r, 0, x)
    BY DEF R, x
  <1>7. Chg(b, d) /\ d.modified /\ d.rows = R /\ d.lcount = b.lcount + 1 /\ d.row = r
        /\ d.mode = b.mode
    BY <1>2, <1>3, <1>4, <1>5, <1>6, ChgEdit
  <1> QED
    BY <1>7 DEF R

LEMMA ChgOpenLine ==
    ASSUME NEW b, Fit(b), NEW above \in BOOLEAN
    PROVE  Chg(b, OpenLine(b, above))
  <1> DEFINE d == OpenLine(b, above)
             r == IF above THEN b.row ELSE b.row + 1
             e == [b EXCEPT !.row = r, !.col = 0, !.exact = Opened(b, r), !.modified = TRUE]
  <1>1. b \in ViBufs /\ b.lcount \in 1 .. MaxLines /\ b.row \in Nat /\ b.row < b.lcount
    BY FitFacts
  <1>2. CASE b.lcount >= MaxLines
    BY <1>2, ChgSame DEF OpenLine
  <1>3. CASE b.lcount < MaxLines
    <2>1. d = OpenRow(e, r, << >>)
      <3>1. ~(b.lcount >= MaxLines)
        BY <1>1, <1>3, Numbers
      <3> QED
        BY <3>1 DEF OpenLine
    <2>2. r \in 0 .. b.lcount
      BY <1>1
    <2> HIDE DEF r
    <2>3. e.rows = b.rows /\ e.lcount = b.lcount
      BY <1>1 DEF ViBufs
    <2>4. d = [e EXCEPT !.rows = RowsOpened(b.rows, b.lcount, r, << >>), !.lcount = b.lcount + 1]
      BY <2>1, <2>3, OpenedForm
    <2> HIDE DEF d
    <2>5. d = Changed(b, RowsOpened(b.rows, b.lcount, r, << >>), b.lcount + 1, r, 0, Opened(b, r))
      BY <1>1, <2>4 DEF Changed, ViBufs
    <2> QED
      BY <1>3, <2>2, <2>5, StrFacts, ChgOpen DEF d
  <1> QED
    BY <1>1, <1>2, <1>3, Numbers

\* n rows from r on go and the cursor stays in the text.
LEMMA ChgClose ==
    ASSUME NEW b, Fit(b), NEW r \in Nat, NEW n \in Nat, n < b.lcount,
           NEW q \in 0 .. b.lcount - n - 1, NEW x \in BOOLEAN,
           x => n = 1 /\ Closed(b, r),
           NEW d, d = Changed(b, RowsClosed(b.rows, b.lcount, r, n), b.lcount - n, q, 0, x)
    PROVE  /\ Chg(b, d) /\ d.modified /\ d.rows = RowsClosed(b.rows, b.lcount, r, n)
           /\ d.lcount = b.lcount - n /\ d.row = q /\ d.col = 0 /\ d.mode = b.mode
           /\ d.yank = b.yank
  <1> DEFINE R == RowsClosed(b.rows, b.lcount, r, n)
  <1>1. b.rows \in Rows /\ b.lcount \in 1 .. MaxLines /\ b.lcount \in Nat
    BY FitFacts, BufFacts
  <1>2. q \in RowNos /\ q < b.lcount - n /\ b.lcount - n \in 1 .. MaxLines
    BY <1>1, Numbers DEF RowNos
  <1>3. R \in Rows
    BY <1>1, ClosedFacts
  <1>4. x => b.exact /\ R = b.rows
    BY <1>1, WithinFacts, ClosedLast
  <1> HIDE DEF R
  <1>5. d = Changed(b, R, b.lcount - n, q, 0, x)
    BY DEF R
  <1>6. /\ Chg(b, d) /\ d.modified /\ d.rows = R /\ d.lcount = b.lcount - n /\ d.row = q
        /\ d.col = 0 /\ d.mode = b.mode /\ d.yank = b.yank
    BY <1>2, <1>3, <1>4, <1>5, ChgEdit
  <1> QED
    BY <1>6 DEF R

LEMMA ChgDeleteLine ==
    ASSUME NEW b, Fit(b), NEW d, d = DeleteLine(b)
    PROVE  /\ Chg(b, d)
           /\ b.lcount > 1 =>
                /\ d.rows = RowsClosed(b.rows, b.lcount, b.row, 1)
                /\ d.lcount = b.lcount - 1 /\ d.row = Least(b.row, b.lcount - 2) /\ d.col = 0
                /\ d.yank = [text |-> Line(b), line |-> TRUE]
  <1> DEFINE a == SaveUndo(b)
             u == YankText(a, Line(b), TRUE)
             e == IF b.lcount <= 1
                  THEN [u EXCEPT !.rows[0] = << >>]
                  ELSE CloseRows([u EXCEPT !.exact = Closed(u, b.row)], b.row, 1)
  <1>1. d = [e EXCEPT !.row = Least(e.row, e.lcount - 1), !.col = 0, !.modified = TRUE]
    BY DEF DeleteLine
  <1>2. /\ Chg(b, a) /\ Fit(a) /\ a.exact /\ a.undo.row = a.row /\ a.undo.lcount = a.lcount
        /\ a.rows = b.rows /\ a.lcount = b.lcount /\ a.row = b.row /\ a.col = b.col
    BY SavedFacts
  <1>3. /\ b \in ViBufs /\ b.lcount \in 1 .. MaxLines /\ b.lcount \in Nat /\ b.row \in Nat
        /\ b.row < b.lcount /\ Line(b) \in Str /\ Line(b) = b.rows[b.row]
        /\ Len(Line(b)) \in Nat /\ Len(Line(b)) <= MaxCol - 1
    BY FitFacts
  <1> HIDE DEF a
  <1>4. /\ Chg(a, u) /\ Fit(u) /\ u.exact /\ u.undo.row = u.row /\ u.undo.lcount = u.lcount
        /\ u.rows = b.rows /\ u.lcount = b.lcount /\ u.row = b.row /\ u.col = b.col
        /\ u.yank = Register(Line(b), TRUE)
    <2> DEFINE l == TRUE
    <2>1. u = YankText(a, Line(b), l) /\ l \in BOOLEAN
      OBVIOUS
    <2>0. Fit(a) /\ Line(b) \in Str
      BY <1>2, <1>3
    <2> HIDE DEF u, l, e
    <2>2. /\ Chg(a, u) /\ u.rows = a.rows /\ u.lcount = a.lcount /\ u.row = a.row
          /\ u.col = a.col /\ u.undo = a.undo /\ u.exact = a.exact
          /\ u.yank = Register(Line(b), l)
      BY <2>0, <2>1, ChgYank
    <2>3. Fit(u)
      BY <2>2 DEF Chg
    <2> QED
      BY <1>2, <2>2, <2>3 DEF l
  <1> HIDE DEF u
  <1>5. u.yank = [text |-> Line(b), line |-> TRUE]
    <2>1. Least(Len(Line(b)), YankMax - 1) = Len(Line(b))
      BY <1>3, Numbers DEF Least
    <2>2. Take(Line(b), Len(Line(b))) = Line(b)
      <3>1. Len(Line(b)) \in 0 .. Len(Line(b))
        BY <1>3
      <3> QED
        BY <1>3, <3>1, TakeFacts, SameStr
    <2> QED
      BY <1>4, <2>1, <2>2 DEF Register
  <1>6. u \in ViBufs
    BY <1>4 DEF Fit
  <1>7. CASE b.lcount <= 1
    <2>1. b.row = 0 /\ b.lcount = 1
      BY <1>3, <1>7
    <2>2. e = [u EXCEPT !.rows[0] = << >>]
      BY <1>7
    <2>3. e.row = 0 /\ e.lcount = 1
      BY <1>4, <1>6, <2>1, <2>2 DEF ViBufs
    <2>4. Least(e.row, e.lcount - 1) = 0
      BY <2>3 DEF Least
    <2>5. d = Edited(u, Put(u.rows, u.row, << >>), u.lcount, u.row, 0)
      <3> HIDE DEF e
      <3>1. d = [e EXCEPT !.row = 0, !.col = 0, !.modified = TRUE]
        BY <1>1, <2>4
      <3>2. u.row = 0 /\ u.rows \in Rows
        BY <1>4, <1>6, <2>1, BufFacts
      <3>3. d = [u EXCEPT !.rows[0] = << >>, !.row = 0, !.col = 0, !.modified = TRUE]
        BY <1>6, <2>2, <3>1 DEF ViBufs
      <3> QED
        BY <1>6, <3>2, <3>3 DEF Edited, Put, ViBufs
    <2>6. Chg(u, d) /\ d.modified
      BY <1>4, <2>5, StrFacts, ChgSavedRow
    <2> QED
      BY <1>3, <1>7, <2>6, ChgModified
  <1>8. CASE b.lcount > 1
    <2> DEFINE f == [u EXCEPT !.exact = Closed(u, b.row)]
               R == RowsClosed(u.rows, u.lcount, b.row, 1)
               q == Least(b.row, b.lcount - 2)
    <2>1. e = CloseRows(f, b.row, 1)
      BY <1>3, <1>8
    <2>2. f.rows = u.rows /\ f.lcount = u.lcount
      BY <1>6 DEF ViBufs
    <2>3. e = [f EXCEPT !.rows = R, !.lcount = u.lcount - 1]
      BY <2>1, <2>2, ClosedForm
    <2> HIDE DEF e
    <2>4. e.row = b.row /\ e.lcount = b.lcount - 1
      BY <1>4, <1>6, <2>3 DEF ViBufs
    <2>5. Least(e.row, e.lcount - 1) = q
      <3>1. e.lcount - 1 = b.lcount - 2
        BY <1>3, <2>4
      <3> QED
        BY <2>4, <3>1
    <2>6. q \in 0 .. u.lcount - 1 - 1
      BY <1>3, <1>4, <1>8 DEF Least
    <2> HIDE DEF q
    <2>7. d = Changed(u, R, u.lcount - 1, q, 0, Closed(u, b.row))
      BY <1>1, <1>6, <2>3, <2>5 DEF Changed, ViBufs
    <2> HIDE DEF R
    <2>8. Closed(u, b.row) \in BOOLEAN /\ 1 < u.lcount /\ 1 \in Nat
      BY <1>4, <1>8, WithinFacts
    <2>10. Fit(u) /\ b.row \in Nat /\ (Closed(u, b.row) => 1 = 1 /\ Closed(u, b.row))
      BY <1>3, <1>4
    <2>11. d = Changed(u, RowsClosed(u.rows, u.lcount, b.row, 1), u.lcount - 1, q, 0, Closed(u, b.row))
      BY <2>7 DEF R
    <2>9. Chg(u, d) /\ d.modified /\ d.rows = R /\ d.lcount = u.lcount - 1 /\ d.row = q
          /\ d.col = 0 /\ d.yank = u.yank
      BY <2>6, <2>8, <2>10, <2>11, ChgClose DEF R
    <2> QED
      BY <1>4, <1>5, <2>9, ChgModified DEF R, q
  <1> QED
    BY <1>3, <1>7, <1>8

LEMMA ChgDeleteChar ==
    ASSUME NEW b, Fit(b), b.row = b.undo.row
    PROVE  Chg(b, DeleteChar(b)) /\ DeleteChar(b).undo = b.undo
  <1> DEFINE d == DeleteChar(b)
             s == RemoveAt(Line(b), b.col + 1)
  <1>1. b \in ViBufs /\ b.col \in Nat /\ Line(b) \in Fits /\ LLen(b) = Len(Line(b))
        /\ LLen(b) \in Nat
    BY FitFacts
  <1>2. CASE b.col >= LLen(b)
    BY <1>2, ChgSame DEF DeleteChar
  <1>3. CASE b.col < LLen(b)
    <2>1. b.col + 1 \in 1 .. Len(Line(b))
      BY <1>1, <1>3
    <2>2. s \in Fits
      BY <1>1, <2>1, RemoveFacts
    <2>3. d = [b EXCEPT !.rows[b.row] = s, !.modified = TRUE]
      <3>1. ~(b.col >= LLen(b))
        BY <1>1, <1>3
      <3> QED
        BY <3>1 DEF DeleteChar, Line
    <2> HIDE DEF s, d
    <2>4. d = Edited(b, Put(b.rows, b.row, s), b.lcount, b.row, b.col)
      BY <1>1, <2>3 DEF Edited, Put, ViBufs
    <2> QED
      BY <1>1, <2>2, <2>4, ChgSavedRow DEF d
  <1> QED
    BY <1>1, <1>2, <1>3

LEMMA ChgDeleteToEol ==
    ASSUME NEW b, Fit(b), b.row = b.undo.row, NEW d, d = DeleteToEol(b)
    PROVE  /\ Chg(b, d) /\ d.modified
           /\ b.col < LLen(b) =>
                /\ d.rows = Put(b.rows, b.row, Take(Line(b), b.col))
                /\ d.lcount = b.lcount /\ d.row = b.row /\ d.col = b.col
                /\ d.yank = Register(Drop(Line(b), b.col), FALSE)
  <1> DEFINE t == Drop(Line(b), b.col)
             s == Take(Line(b), b.col)
             u == YankText(b, t, FALSE)
  <1>1. b \in ViBufs /\ b.col \in Nat /\ Line(b) \in Fits /\ LLen(b) = Len(Line(b))
        /\ LLen(b) \in Nat /\ Line(b) \in Str
    BY FitFacts
  <1>2. CASE b.col < LLen(b)
    <2>1. b.col \in 0 .. Len(Line(b))
      BY <1>1, <1>2
    <2>2. s \in Fits /\ t \in Str
      BY <1>1, <2>1, TakeFacts, DropFacts
    <2>3. /\ Fit(u) /\ u.rows = b.rows /\ u.row = b.row /\ u.undo = b.undo /\ u.col = b.col
          /\ u.lcount = b.lcount /\ u.yank = Register(t, FALSE)
      <3> DEFINE l == FALSE
      <3>1. u = YankText(b, t, l) /\ l \in BOOLEAN
        OBVIOUS
      <3> HIDE DEF t, u, l
      <3>2. /\ Chg(b, u) /\ u.rows = b.rows /\ u.row = b.row /\ u.undo = b.undo
            /\ u.col = b.col /\ u.lcount = b.lcount /\ u.yank = Register(t, l)
        BY <2>2, <3>1, ChgYank
      <3> QED
        BY <3>2 DEF Chg, l
    <2>4. d = [u EXCEPT !.rows[b.row] = Take(u.rows[b.row], b.col), !.modified = TRUE]
      BY <1>2 DEF DeleteToEol
    <2>5. d = [u EXCEPT !.rows[b.row] = s, !.modified = TRUE]
      <3> HIDE DEF u
      <3> QED
        BY <2>3, <2>4 DEF Line
    <2> HIDE DEF s, t, u
    <2>6. u \in ViBufs
      BY <2>3 DEF Fit
    <2>7. d = Edited(u, Put(u.rows, u.row, s), u.lcount, u.row, u.col)
      BY <2>3, <2>5, <2>6 DEF Edited, Put, ViBufs
    <2>8. /\ Chg(u, d) /\ d.modified /\ d.rows = Put(b.rows, b.row, s) /\ d.lcount = b.lcount
          /\ d.row = b.row /\ d.col = b.col /\ d.yank = u.yank
      <3>1. u.row = u.undo.row /\ u.col \in Nat
        BY <1>1, <2>3
      <3>2. /\ Chg(u, d) /\ d.modified /\ d.rows = Put(u.rows, u.row, s) /\ d.lcount = u.lcount
            /\ d.row = u.row /\ d.col = u.col /\ d.yank = u.yank
        <4> DEFINE c == u.col
        <4>1. d = Edited(u, Put(u.rows, u.row, s), u.lcount, u.row, c) /\ c \in Nat
          BY <2>7, <3>1
        <4> HIDE DEF c
        <4>2. Fit(u) /\ s \in Fits /\ u.row = u.undo.row
          BY <2>2, <2>3, <3>1
        <4>3. /\ Chg(u, d) /\ d.modified /\ d.rows = Put(u.rows, u.row, s)
              /\ d.lcount = u.lcount /\ d.row = u.row /\ d.col = c
              /\ d.exact = u.exact /\ d.undo = u.undo /\ d.yank = u.yank /\ d.mode = u.mode
          BY <4>1, <4>2, ChgSavedRow
        <4> QED
          BY <4>3 DEF c
      <3> QED
        BY <2>3, <3>2
    <2>9. Chg(b, d)
      BY <2>8, ChgModified
    <2> QED
      BY <2>3, <2>8, <2>9 DEF s, t
  <1>3. CASE b.col >= LLen(b)
    <2>1. d = [b EXCEPT !.modified = TRUE]
      <3>1. ~(b.col < LLen(b))
        BY <1>1, <1>3
      <3> QED
        BY <3>1 DEF DeleteToEol
    <2>2. b.rows \in Rows /\ b.row \in RowNos
      BY <1>1, BufFacts
    <2>3. Put(b.rows, b.row, Line(b)) = b.rows
      BY <2>2 DEF Put, Line, Rows
    <2>4. d = Edited(b, Put(b.rows, b.row, Line(b)), b.lcount, b.row, b.col)
      BY <1>1, <2>1, <2>3, ZenonT(60) DEF Edited, ViBufs
    <2>5. Chg(b, d) /\ d.modified
      BY <1>1, <2>4, ChgSavedRow
    <2>6. ~(b.col < LLen(b))
      BY <1>1, <1>3
    <2> QED
      BY <2>5, <2>6
  <1>4. b.col < LLen(b) \/ b.col >= LLen(b)
    BY <1>1
  <1> QED
    BY <1>2, <1>3, <1>4

LEMMA ChgStepBack ==
    ASSUME NEW b, Fit(b)
    PROVE  Chg(b, StepBack(b))
  <1>1. b \in ViBufs /\ b.col \in Nat /\ Ready(b)
    BY FitFacts DEF Ready, Fit
  <1>2. CASE StepBack(b) = b
    BY <1>2, ChgSame
  <1>3. CASE StepBack(b) # b
    <2>1. b.col > 0 /\ StepBack(b) = [b EXCEPT !.col = b.col - 1]
      BY <1>3 DEF StepBack
    <2>2. b.col - 1 \in Nat
      BY <1>1, <2>1
    <2>3. Goes(b, [b EXCEPT !.col = b.col - 1])
      BY <1>1, <2>2, GoesCol
    <2> QED
      BY <2>1, <2>3, ChgGoes
  <1> QED
    BY <1>2, <1>3

LEMMA ChgBlankLine ==
    ASSUME NEW b, Fit(b), b.row = b.undo.row, NEW d, d = BlankLine(b)
    PROVE  Chg(b, d) /\ d.modified /\ d.row = b.row /\ d.undo = b.undo /\ d.lcount = b.lcount
           /\ d.rows = Put(b.rows, b.row, << >>)
  <1>1. d = Edited(b, Put(b.rows, b.row, << >>), b.lcount, b.row, 0)
    BY FitFacts DEF BlankLine, Edited, Put, ViBufs
  <1> QED
    BY <1>1, StrFacts, ChgSavedRow

----------------------------------------------------------------------------
(* Changes of one line or two *)

PutLine(b, t) == [b EXCEPT !.rows[b.row] = t]

LEMMA OverwriteFacts ==
    ASSUME NEW b, Fit(b), NEW k \in 0 .. LLen(b), NEW c \in Char, NEW d \in Overwrite(b, k, c)
    PROVE  d = Undefined(b) \/ \E t \in Fits : d = PutLine(b, t)
  <1> DEFINE s == Line(b)
  <1>1. /\ s \in Fits /\ s \in Str /\ Len(s) \in Nat /\ LLen(b) = Len(s) /\ Len(s) < MaxCol
        /\ DOMAIN s = 1 .. Len(s) /\ s = b.rows[b.row]
    BY FitFacts, StrFacts DEF Fits
  <1>2. CASE k < Len(s)
    <2> DEFINE t == ReplaceAt(s, k + 1, c)
    <2>1. d = [b EXCEPT !.rows[b.row] = t]
      BY <1>2 DEF Overwrite
    <2>2. t \in Fits
      <3>1. t = [s EXCEPT ![k + 1] = c]
        BY DEF ReplaceAt
      <3> HIDE DEF t, s
      <3>2. t \in Str /\ Len(t) = Len(s)
        <4>1. k + 1 \in 1 .. Len(s) /\ s \in Seq(Char)
          BY <1>1, <1>2 DEF Str
        <4> QED
          BY <3>1, <4>1 DEF Str
      <3> QED
        BY <1>1, <3>2, Numbers DEF Fits
    <2> HIDE DEF t
    <2> QED
      BY <2>1, <2>2 DEF PutLine
  <1>3. CASE ~(k < Len(s))
    <2>1. SUFFICES ASSUME d # Undefined(b)
                   PROVE  \E t \in Fits : d = PutLine(b, t)
      OBVIOUS
    <2> DEFINE Tails == UNION {[1 .. m -> Stale] : m \in 0 .. MaxCol - 2 - Len(s)}
    <2>8. d \in {[b EXCEPT !.rows[b.row] = Append(s, c) \o w] : w \in Tails}
      BY <1>3, <2>1 DEF Overwrite
    <2>2. PICK t \in Tails : d = [b EXCEPT !.rows[b.row] = Append(s, c) \o t]
      BY <2>8
    <2>9. PICK n \in 0 .. MaxCol - 2 - Len(s) : t \in [1 .. n -> Stale]
      OBVIOUS
    <2>3. t \in Str /\ Len(t) = n /\ n \in Nat
      <3>1. n \in Nat /\ t \in [1 .. n -> Char]
        BY <1>1, <2>9, ViTextAssumption
      <3>2. t \in Seq(Char) /\ DOMAIN t = 1 .. n
        BY <3>1
      <3> QED
        BY <3>1, <3>2, LenProperties DEF Str
    <2> HIDE DEF s
    <2>4. Append(s, c) \in Str /\ Len(Append(s, c)) = Len(s) + 1
      BY <1>1, AddFacts
    <2> DEFINE w == Append(s, c) \o t
    <2>5. w \in Str /\ Len(w) = Len(s) + 1 + n
      BY <2>3, <2>4, JoinFacts
    <2>6. d = [b EXCEPT !.rows[b.row] = w]
      BY <2>2
    <2> HIDE DEF w
    <2>7. w \in Fits
      BY <1>1, <2>3, <2>5, Numbers DEF Fits
    <2> QED
      BY <2>6, <2>7 DEF PutLine
  <1> QED
    BY <1>2, <1>3

LEMMA WorksReplace ==
    ASSUME NEW b, Fit(b), Placed(b), NEW c \in Char,
           NEW d \in Overwrite(SaveUndo(b), b.col, c)
    PROVE  Works(b, [d EXCEPT !.modified = TRUE])
  <1> DEFINE u == SaveUndo(b)
             e == [d EXCEPT !.modified = TRUE]
  <1>1. /\ Fit(u) /\ u \in ViBufs /\ u.undo.row = u.row /\ LLen(u) = LLen(b) /\ u.col = b.col
        /\ u.col \in Nat /\ u.col \in 0 .. LLen(u)
    BY SavedFacts, FitFacts DEF Placed
  <1>2. d \in Overwrite(u, u.col, c)
    BY <1>1
  <1> HIDE DEF u
  <1>3. CASE d = Undefined(u)
    BY <1>1, <1>3 DEF Undefined, Works, Ended, ViBufs
  <1>4. ASSUME NEW t \in Fits, d = PutLine(u, t)
        PROVE  Works(b, e)
    <2>1. e = Edited(u, Put(u.rows, u.row, t), u.lcount, u.row, u.col)
      BY <1>1, <1>4 DEF PutLine, Edited, Put, ViBufs
    <2> HIDE DEF e
    <2>2. Chg(u, e) /\ e.modified
      BY <1>1, <2>1, ChgSavedRow
    <2> QED
      BY <2>2, ChgModified, ChgWorks
  <1> QED
    BY <1>1, <1>2, <1>3, <1>4, OverwriteFacts

LEMMA WorksJoin ==
    ASSUME NEW b, Fit(b), NEW d \in JoinLines(b)
    PROVE  Works(b, d)
  <1> DEFINE u == SaveUndo(b)
             s == Line(b)
             n == SkipBack(s, Len(s), Blank)
             below == b.rows[b.row + 1]
             joined == IF n + 1 + Len(below) < MaxCol - 1
                       THEN {[u EXCEPT !.rows[b.row] = Append(Take(s, n), " ") \o below]}
                       ELSE Overwrite(u, n, " ")
             x == Closed(u, b.row + 1)
  <1>1. /\ b.row \in Nat /\ b.lcount \in Nat /\ b.row < b.lcount /\ s \in Fits /\ s \in Str
        /\ Len(s) \in Nat /\ LLen(b) = Len(s) /\ b.lcount \in 1 .. MaxLines
        /\ \A i \in 0 .. b.lcount - 1 : b.rows[i] \in Str /\ Len(b.rows[i]) \in Nat
    BY FitFacts
  <1>2. CASE b.row >= b.lcount - 1
    BY <1>2, ChgSame, ChgWorks DEF JoinLines
  <1>3. CASE ~(b.row >= b.lcount - 1)
    <2>2. /\ Fit(u) /\ u \in ViBufs /\ u.undo.row = u.row /\ LLen(u) = LLen(b) /\ u.rows = b.rows
          /\ u.lcount = b.lcount /\ u.row = b.row /\ u.rows \in Rows /\ u.row \in RowNos
          /\ u.col \in Nat /\ u.undo.lcount = u.lcount
      <3>1. /\ Fit(u) /\ u.undo.row = u.row /\ LLen(u) = LLen(b) /\ u.rows = b.rows
            /\ u.lcount = b.lcount /\ u.row = b.row /\ u.undo.lcount = u.lcount
        BY SavedFacts
      <3> HIDE DEF u
      <3>2. u \in ViBufs
        BY <3>1, FitFacts
      <3> QED
        BY <3>1, <3>2, BufFacts
    <2>3. n \in 0 .. Len(s)
      <3>1. Len(s) \in 0 .. Len(s)
        BY <1>1
      <3> QED
        BY <1>1, <3>1, SkipBackFacts
    <2>7. b.row + 1 \in 0 .. b.lcount - 1
      <3>1. b.row \in Nat /\ b.lcount \in Nat
        BY <1>1
      <3> QED
        BY <1>3, <3>1
    <2>1. PICK j \in joined :
             d = CloseRows([j EXCEPT !.exact = x, !.modified = TRUE], b.row + 1, 1)
      BY <1>3, Zenon DEF JoinLines
    <2> HIDE DEF joined
    <2>4. j = Undefined(u) \/ \E t \in Fits : j = PutLine(u, t)
      <3> HIDE DEF n
      <3>1. CASE n + 1 + Len(below) < MaxCol - 1
        <4> DEFINE w == Append(Take(s, n), " ") \o below
        <4>1. j = [u EXCEPT !.rows[b.row] = w]
          BY <3>1 DEF joined
        <4>2. below \in Str /\ Len(below) \in Nat
          BY <1>1, <2>7
        <4>3. Take(s, n) \in Str /\ Len(Take(s, n)) = n
          BY <1>1, <2>3, TakeFacts
        <4> HIDE DEF s, below
        <4>4. Append(Take(s, n), " ") \in Str /\ Len(Append(Take(s, n), " ")) = n + 1
          BY <4>3, AddFacts, Blanks
        <4>5. w \in Str /\ Len(w) = n + 1 + Len(below)
          BY <4>2, <4>4, JoinFacts
        <4> HIDE DEF w
        <4>6. w \in Fits
          <5>1. n \in Nat
            BY <1>1, <2>3
          <5> QED
            BY <3>1, <4>2, <4>5, <5>1, Numbers DEF Fits
        <4> HIDE DEF u
        <4> QED
          BY <2>2, <4>1, <4>6 DEF PutLine
      <3>2. CASE ~(n + 1 + Len(below) < MaxCol - 1)
        <4>1. j \in Overwrite(u, n, " ") /\ n \in 0 .. LLen(u) /\ " " \in Char
          BY <1>1, <2>2, <2>3, <3>2, Blanks DEF joined
        <4> HIDE DEF u
        <4> QED
          BY <2>2, <4>1, OverwriteFacts
      <3> QED
        BY <3>1, <3>2
    <2> HIDE DEF u
    <2>5. CASE j = Undefined(u)
      <3>1. d.mode = "undef"
        BY <2>1, <2>2, <2>5 DEF CloseRows, Undefined, ViBufs
      <3> QED
        BY <3>1 DEF Works, Ended
    <2>6. ASSUME NEW t \in Fits, j = PutLine(u, t)
          PROVE  Works(b, d)
      <3> DEFINE P == Put(u.rows, u.row, t)
                 R == RowsClosed(P, u.lcount, u.row + 1, 1)
                 f == [j EXCEPT !.exact = x, !.modified = TRUE]
      <3>1. f.rows = P /\ f.lcount = u.lcount
        BY <2>2, <2>6 DEF PutLine, Put, ViBufs
      <3>2. d = [f EXCEPT !.rows = R, !.lcount = u.lcount - 1]
        BY <2>1, <2>2, <3>1, ClosedForm
      <3>3. P \in Rows /\ \A i \in RowNos : i # u.row => P[i] = u.rows[i]
        BY <2>2, PutRow
      <3> HIDE DEF P
      <3>4. R \in Rows
        BY <1>1, <2>2, <3>3, ClosedFacts
      <3>5. d = Changed(u, R, u.lcount - 1, u.row, u.col, x)
        <4> HIDE DEF R, x
        <4> QED
          BY <2>2, <2>6, <3>2 DEF PutLine, Changed, ViBufs
      <3>6. x \in BOOLEAN /\ (x => u.exact /\ u.row + 1 = u.lcount - 1)
        BY <2>2, WithinFacts
      <3> HIDE DEF x
      <3>7. x => u.exact /\ \A i \in 0 .. u.undo.lcount - 1 : i # u.undo.row => R[i] = u.rows[i]
        <4>1. SUFFICES ASSUME x, NEW i \in 0 .. u.undo.lcount - 1, i # u.undo.row
                       PROVE  R[i] = u.rows[i]
          BY <3>6
        <4>2. R = P
          BY <1>1, <2>2, <3>3, <3>6, <4>1, ClosedLast
        <4>3. i \in RowNos
          BY <1>1, <2>2, Numbers DEF RowNos
        <4> QED
          BY <2>2, <3>3, <4>1, <4>2, <4>3
      <3>8. u.row < u.lcount - 1 /\ u.lcount - 1 \in 1 .. MaxLines
        BY <1>1, <1>3, <2>2, Numbers
      <3> HIDE DEF R
      <3>9. Chg(u, d) /\ d.modified
        BY <2>2, <3>4, <3>5, <3>6, <3>7, <3>8, ChgEdit
      <3> QED
        BY <3>9, ChgModified, ChgWorks
    <2> QED
      BY <2>4, <2>5, <2>6
  <1> QED
    BY <1>2, <1>3

LEMMA Letters == Alpha \subseteq Char
  BY ViTextAssumption

LEMMA ToggleFacts ==
    ASSUME NEW c \in Char
    PROVE  ToggleOf(c) \in Char
  <1>1. {"a", "b", "A", "B"} \subseteq Char
    BY Letters DEF Alpha
  <1> QED
    BY <1>1 DEF ToggleOf, Upper, Lower

LEMMA ChgToggle ==
    ASSUME NEW b, Fit(b)
    PROVE  Chg(b, ToggleCase(b))
  <1> DEFINE d == ToggleCase(b)
             u == SaveUndo(b)
             s == Line(b)
             c == Least(b.col + 1, LLen(b) - 1)
  <1>1. /\ b.col \in Nat /\ s \in Fits /\ s \in Str /\ LLen(b) = Len(s) /\ Len(s) \in Nat
        /\ Len(s) < MaxCol
    BY FitFacts, StrFacts DEF Fits
  <1>2. CASE b.col >= LLen(b)
    BY <1>2, ChgSame DEF ToggleCase
  <1>3. CASE ~(b.col >= LLen(b))
    <2>1. /\ Fit(u) /\ u.undo.row = u.row /\ u.rows = b.rows /\ u.row = b.row
          /\ u.lcount = b.lcount /\ u.col = b.col
      BY SavedFacts
    <2>2. d = [u EXCEPT !.rows[b.row][b.col + 1] = ToggleOf(u.rows[b.row][b.col + 1]),
                        !.col = Least(u.col + 1, LLen(b) - 1), !.modified = TRUE]
      BY <1>3 DEF ToggleCase
    <2> HIDE DEF u, d
    <2> DEFINE t == [s EXCEPT ![b.col + 1] = ToggleOf(s[b.col + 1])]
    <2>3. t \in Fits
      <3>1. b.col + 1 \in 1 .. Len(s) /\ s \in Seq(Char)
        BY <1>1, <1>3 DEF Str
      <3>2. ToggleOf(s[b.col + 1]) \in Char
        BY <3>1, ToggleFacts
      <3> HIDE DEF s
      <3>3. t \in Seq(Char) /\ Len(t) = Len(s)
        BY <3>1, <3>2
      <3> HIDE DEF t
      <3> QED
        BY <1>1, <3>3 DEF Fits, Str
    <2>4. u \in ViBufs
      BY <2>1 DEF Fit
    <2>5. d = [u EXCEPT !.rows[b.row] = t, !.col = c, !.modified = TRUE]
      BY <2>1, <2>2, <2>4 DEF Line, ViBufs
    <2> HIDE DEF t
    <2>6. c \in Nat
      BY <1>1, <1>3 DEF Least
    <2> HIDE DEF c
    <2>7. d = Edited(u, Put(u.rows, u.row, t), u.lcount, u.row, c)
      BY <2>1, <2>4, <2>5 DEF Edited, Put, ViBufs
    <2>8. Chg(u, d) /\ d.modified
      BY <2>1, <2>3, <2>6, <2>7, ChgSavedRow
    <2> QED
      BY <2>8, ChgModified DEF d
  <1> QED
    BY <1>2, <1>3

LEMMA Twin ==
    ASSUME NEW c \in Char
    PROVE  << c, c >> \in Str /\ Len(<< c, c >>) = 2
  BY DEF Str

LEMMA ChgIndent ==
    ASSUME NEW b, Fit(b)
    PROVE  Chg(b, Indent(b))
  <1> DEFINE d == Indent(b)
             u == SaveUndo(b)
             two == << " ", " " >>
             t == two \o Line(b)
  <1>1. /\ Chg(b, u) /\ Fit(u) /\ u.undo.row = u.row /\ u.rows = b.rows /\ u.row = b.row
        /\ u.lcount = b.lcount /\ u.col = b.col
    BY SavedFacts
  <1>2. /\ b.col \in Nat /\ Line(b) \in Str /\ LLen(b) = Len(Line(b)) /\ LLen(b) \in Nat
        /\ Line(b) = b.rows[b.row]
    BY FitFacts
  <1>3. CASE LLen(b) >= MaxCol - 2
    BY <1>1, <1>3 DEF Indent
  <1>4. CASE ~(LLen(b) >= MaxCol - 2)
    <2>1. d = [u EXCEPT !.rows[b.row] = two \o u.rows[b.row], !.col = u.col + 2,
                        !.modified = TRUE]
      BY <1>4 DEF Indent
    <2>2. two \in Str /\ Len(two) = 2
      BY Blanks, Twin
    <2> HIDE DEF u, d, two
    <2>3. t \in Str /\ Len(t) = 2 + LLen(b)
      BY <1>2, <2>2, JoinFacts
    <2>4. d = [u EXCEPT !.rows[b.row] = t, !.col = u.col + 2, !.modified = TRUE]
      BY <1>1, <1>2, <2>1
    <2> HIDE DEF t
    <2>5. t \in Fits
      BY <1>2, <1>4, <2>3, Numbers DEF Fits
    <2>6. u \in ViBufs /\ u.col + 2 \in Nat
      BY <1>1, <1>2 DEF Fit
    <2>7. d = Edited(u, Put(u.rows, u.row, t), u.lcount, u.row, u.col + 2)
      BY <1>1, <2>4, <2>6 DEF Edited, Put, ViBufs
    <2>8. Chg(u, d) /\ d.modified
      BY <1>1, <2>5, <2>6, <2>7, ChgSavedRow
    <2> QED
      BY <2>8, ChgModified DEF d
  <1> QED
    BY <1>3, <1>4

LEMMA ChgOutdent ==
    ASSUME NEW b, Fit(b)
    PROVE  Chg(b, Outdent(b))
  <1> DEFINE d == Outdent(b)
             u == SaveUndo(b)
             s == Line(b)
             n == IF s = << >> \/ s[1] # " " THEN 0
                  ELSE IF Len(s) > 1 /\ s[2] = " " THEN 2 ELSE 1
             t == Drop(s, n)
             c == Greatest(b.col - n, 0)
  <1>1. /\ Fit(u) /\ u.undo.row = u.row /\ u.rows = b.rows /\ u.row = b.row
        /\ u.lcount = b.lcount /\ u.col = b.col
    BY SavedFacts
  <1>2. b.col \in Nat /\ s \in Fits /\ s \in Str /\ s = b.rows[b.row]
    BY FitFacts
  <1>3. d = [u EXCEPT !.rows[b.row] = Drop(u.rows[b.row], n), !.col = Greatest(u.col - n, 0),
                      !.modified = TRUE]
    BY DEF Outdent
  <1>4. n \in Nat
    OBVIOUS
  <1> HIDE DEF n, u, d, s
  <1>5. t \in Fits /\ c \in Nat
    <2>1. t \in Fits
      BY <1>2, <1>4, DropFacts
    <2>2. c \in Nat
      BY <1>2, <1>4 DEF Greatest
    <2> QED
      BY <2>1, <2>2
  <1>6. d = [u EXCEPT !.rows[b.row] = t, !.col = c, !.modified = TRUE]
    BY <1>1, <1>2, <1>3
  <1> HIDE DEF t, c
  <1>7. u \in ViBufs
    BY <1>1 DEF Fit
  <1>8. d = Edited(u, Put(u.rows, u.row, t), u.lcount, u.row, c)
    BY <1>1, <1>6, <1>7 DEF Edited, Put, ViBufs
  <1>9. Chg(u, d) /\ d.modified
    BY <1>1, <1>5, <1>8, ChgSavedRow
  <1> QED
    BY <1>9, ChgModified DEF d

----------------------------------------------------------------------------
(* Putting the register back *)

LEMMA WorksPasteLine ==
    ASSUME NEW b, Fit(b), NEW r \in 0 .. b.lcount, NEW d, d = PasteLine(b, r)
    PROVE  /\ Works(b, d)
           /\ b.lcount < MaxLines /\ Len(b.yank.text) <= MaxCol - 1 =>
                /\ d.rows = RowsOpened(b.rows, b.lcount, r, b.yank.text)
                /\ d.lcount = b.lcount + 1 /\ d.row = r
  <1> DEFINE u == SaveUndo(b)
             e == [u EXCEPT !.row = r, !.col = 0, !.exact = Opened(u, r), !.modified = TRUE]
             s == b.yank.text
  <1>1. /\ Chg(b, u) /\ Fit(u) /\ u.undo.row = u.row /\ u.rows = b.rows /\ u.row = b.row
        /\ u.lcount = b.lcount /\ u.yank = b.yank
    BY SavedFacts
  <1>2. b \in ViBufs /\ b.lcount \in 1 .. MaxLines /\ s \in Str /\ Len(s) \in Nat
    BY FitFacts, BufFacts
  <1>3. CASE b.lcount >= MaxLines
    <2>1. d = u
      BY <1>3 DEF PasteLine
    <2> QED
      BY <1>1, <1>2, <1>3, <2>1, ChgWorks, Numbers
  <1>4. CASE ~(b.lcount >= MaxLines) /\ Len(s) > MaxCol - 1
    <2>1. d = Undefined(b)
      BY <1>4 DEF PasteLine
    <2>2. d.mode = "undef"
      BY <1>2, <2>1 DEF Undefined, ViBufs
    <2> QED
      BY <1>2, <1>4, <2>2, Numbers DEF Works, Ended
  <1>5. CASE ~(b.lcount >= MaxLines) /\ ~(Len(s) > MaxCol - 1)
    <2>1. d = OpenRow(e, r, s)
      BY <1>5 DEF PasteLine
    <2>2. s \in Fits
      BY <1>2, <1>5, Numbers DEF Fits
    <2> HIDE DEF u
    <2>3. u \in ViBufs /\ u.lcount < MaxLines /\ r \in 0 .. u.lcount
      BY <1>1, <1>2, <1>5, Numbers DEF Fit
    <2>4. e.rows = u.rows /\ e.lcount = u.lcount
      BY <2>3 DEF ViBufs
    <2>5. d = [e EXCEPT !.rows = RowsOpened(u.rows, u.lcount, r, s), !.lcount = u.lcount + 1]
      BY <2>1, <2>4, OpenedForm
    <2>6. d = Changed(u, RowsOpened(u.rows, u.lcount, r, s), u.lcount + 1, r, 0, Opened(u, r))
      BY <2>3, <2>5 DEF Changed, ViBufs
    <2> HIDE DEF s
    <2>7. /\ Chg(u, d) /\ d.modified /\ d.rows = RowsOpened(u.rows, u.lcount, r, s)
          /\ d.lcount = u.lcount + 1 /\ d.row = r
      BY <1>1, <2>2, <2>3, <2>6, ChgOpen
    <2>8. Works(b, d)
      BY <2>7, ChgModified, ChgWorks
    <2> QED
      BY <1>1, <2>7, <2>8 DEF s
  <1> QED
    BY <1>3, <1>4, <1>5

LEMMA ChgPasteChars ==
    ASSUME NEW b, Fit(b), NEW c \in 0 .. LLen(b), NEW q \in Nat, NEW d, d = PasteChars(b, c, q)
    PROVE  /\ Chg(b, d)
           /\ Len(b.yank.text) + LLen(b) < MaxCol - 1 =>
                /\ d.rows = Put(b.rows, b.row, Take(Line(b), c) \o b.yank.text \o Drop(Line(b), c))
                /\ d.lcount = b.lcount /\ d.row = b.row
  <1> DEFINE u == SaveUndo(b)
             y == b.yank.text
             t == Take(Line(b), c) \o y \o Drop(Line(b), c)
  <1>1. /\ Chg(b, u) /\ Fit(u) /\ u.undo.row = u.row /\ u.rows = b.rows /\ u.row = b.row
        /\ u.lcount = b.lcount /\ u.yank = b.yank
    BY SavedFacts
  <1>2. /\ b.yank.text \in Str /\ Len(y) \in Nat /\ Line(b) \in Fits /\ LLen(b) = Len(Line(b))
        /\ LLen(b) \in Nat /\ Line(b) = b.rows[b.row]
    BY FitFacts, BufFacts
  <1>3. CASE Len(y) + LLen(b) >= MaxCol - 1
    <2>1. d = u
      BY <1>3 DEF PasteChars
    <2>2. ~(Len(y) + LLen(b) < MaxCol - 1)
      <3> HIDE DEF y
      <3> QED
        BY <1>2, <1>3, Numbers
    <2> QED
      BY <1>1, <2>1, <2>2
  <1>4. CASE ~(Len(y) + LLen(b) >= MaxCol - 1)
    <2>1. d = [u EXCEPT !.rows[b.row] = Take(u.rows[b.row], c) \o y \o Drop(u.rows[b.row], c),
                        !.col = q, !.modified = TRUE]
      BY <1>4 DEF PasteChars
    <2>2. t \in Fits
      <3> HIDE DEF y
      <3>1. y \in Str /\ Len(Line(b)) + Len(y) < MaxCol /\ c \in 0 .. Len(Line(b))
        <4>1. y \in Str
          BY <1>2 DEF y
        <4>2. Len(y) \in Nat /\ Len(Line(b)) \in Nat /\ LLen(b) = Len(Line(b))
          BY <1>2
        <4> QED
          BY <1>4, <4>1, <4>2, Numbers
      <3> QED
        BY <1>2, <3>1, PutFacts
    <2> HIDE DEF u
    <2>3. d = [u EXCEPT !.rows[b.row] = t, !.col = q, !.modified = TRUE]
      BY <1>1, <1>2, <2>1
    <2> HIDE DEF t
    <2>4. u \in ViBufs
      BY <1>1 DEF Fit
    <2>5. d = Edited(u, Put(u.rows, u.row, t), u.lcount, u.row, q)
      BY <1>1, <2>3, <2>4 DEF Edited, Put, ViBufs
    <2>6. /\ Chg(u, d) /\ d.modified /\ d.rows = Put(u.rows, u.row, t) /\ d.lcount = u.lcount
          /\ d.row = u.row
      BY <1>1, <2>2, <2>5, ChgSavedRow
    <2> QED
      BY <1>1, <2>6, ChgModified DEF t
  <1> QED
    BY <1>3, <1>4

LEMMA WorksPaste ==
    ASSUME NEW b, Fit(b), Placed(b), NEW d \in {PasteAfter(b), PasteBefore(b)}
    PROVE  Works(b, d)
  <1> DEFINE c == Least(b.col + 1, LLen(b))
             q == c + Len(b.yank.text) - 1
  <1>1. /\ b.row \in Nat /\ b.row < b.lcount /\ b.lcount \in Nat /\ LLen(b) \in Nat
        /\ b.col \in Nat /\ b.yank.text \in Str /\ Len(b.yank.text) \in Nat
    BY FitFacts, BufFacts
  <1>2. /\ b.row \in 0 .. b.lcount /\ b.row + 1 \in 0 .. b.lcount /\ b.col \in 0 .. LLen(b)
        /\ c \in 0 .. LLen(b)
    BY <1>1 DEF Placed, Least
  <1>3. CASE b.yank.text = << >>
    BY <1>3, ChgSame, ChgWorks DEF PasteAfter, PasteBefore
  <1>4. CASE b.yank.text # << >>
    <2>1. q \in Nat
      <3>1. Len(b.yank.text) # 0
        BY <1>1, <1>4, StrFacts
      <3> QED
        BY <1>1, <1>2, <3>1
    <2>2. \/ d = PasteLine(b, b.row + 1) \/ d = PasteLine(b, b.row)
          \/ d = PasteChars(b, c, q) \/ d = PasteChars(b, b.col, b.col)
      BY <1>4 DEF PasteAfter, PasteBefore
    <2> HIDE DEF c, q
    <2> QED
      BY <1>1, <1>2, <2>1, <2>2, WorksPasteLine, ChgPasteChars, ChgWorks
  <1> QED
    BY <1>3, <1>4

----------------------------------------------------------------------------
(* Ranges *)

LEMMA LinesTextFacts ==
    ASSUME NEW b, Fit(b), NEW first \in Nat, NEW last \in Nat, first <= last, last < b.lcount
    PROVE  LinesText(b, first, last) \in Str
  <1> DEFINE Add(acc, s) ==
               IF Len(acc) + Len(s) + 1 >= YankMax THEN acc
               ELSE IF acc = << >> THEN s
               ELSE Append(acc, NL) \o s
             N == last - first + 1
             Body(f) == [n \in 0 .. N |-> IF n = 0 THEN << >> ELSE Add(f[n - 1], b.rows[first + n - 1])]
             text == CHOOSE f : f = Body(f)
             step == [n \in 1 .. N |-> [acc \in Str |-> Add(acc, b.rows[first + n - 1])]]
  <1>1. LinesText(b, first, last) = text[last - first + 1]
    BY DEF LinesText
  <1>2. N \in Nat /\ \A n \in 1 .. N : first + n - 1 \in 0 .. b.lcount - 1
    BY FitFacts
  <1>3. \A n \in 1 .. N : b.rows[first + n - 1] \in Str
    BY <1>2, FitFacts
  <1>4. ASSUME NEW acc \in Str, NEW s \in Str
        PROVE  Add(acc, s) \in Str
    <2>1. Append(acc, NL) \in Str
      BY AddFacts, Blanks
    <2>2. Append(acc, NL) \o s \in Str
      BY <2>1, JoinFacts
    <2> QED
      BY <2>2
  <1> HIDE DEF Add, N
  <1>5. step \in [1 .. N -> [Str -> Str]]
    BY <1>3, <1>4
  <1>6. \E g : Turns(g, N, Str, << >>, step)
    <2> HIDE DEF step
    <2> QED
      BY <1>2, <1>5, StrFacts, LoopExists
  <1>7. PICK g : Turns(g, N, Str, << >>, step)
    BY <1>6
  <1>8. g \in [0 .. N -> Str] /\ g[0] = << >> /\ \A n \in 1 .. N : g[n] = step[n][g[n - 1]]
    BY <1>7 DEF Turns
  <1>9. g = Body(g)
    <2>1. ASSUME NEW n \in 1 .. N
          PROVE  g[n] = Add(g[n - 1], b.rows[first + n - 1])
      <3>1. g[n - 1] \in Str
        BY <1>2, <1>8
      <3> QED
        BY <1>8, <3>1
    <2>2. \A n \in 0 .. N : n = 0 \/ n \in 1 .. N
      BY <1>2
    <2> HIDE DEF step
    <2> QED
      BY <1>8, <2>1, <2>2
  <1>10. text = Body(text)
    <2> HIDE DEF Body
    <2> QED
      BY <1>9
  <1> HIDE DEF text
  <1>11. text[0] = << >> /\ \A n \in 1 .. N : text[n] = Add(text[n - 1], b.rows[first + n - 1])
    BY <1>2, <1>10
  <1> DEFINE G == {n \in 0 .. N : text[n] \in Str}
  <1>12. 0 .. N \subseteq G
    <2>1. 0 \in G
      BY <1>2, <1>11, StrFacts
    <2>2. \A n \in 1 .. N : n - 1 \in G => n \in G
      BY <1>2, <1>3, <1>4, <1>11, SMTT(60)
    <2> HIDE DEF G
    <2> QED
      BY <1>2, <2>1, <2>2, UpTo
  <1> QED
    BY <1>1, <1>2, <1>12 DEF N

LEMMA CharsTextFacts ==
    ASSUME NEW b, Fit(b), NEW r1 \in Nat, NEW c1 \in Nat, NEW r2 \in Nat, NEW c2 \in Nat,
           r1 < r2, r2 < b.lcount
    PROVE  CharsText(b, r1, c1, r2, c2) \in Str
  <1> DEFINE Add(acc, s) ==
               IF Len(acc) + Len(s) + 1 >= YankMax THEN acc ELSE Append(acc, NL) \o s
             N == r2 - r1 - 1
             a == Drop(b.rows[r1], c1)
             Body(f) == [n \in 0 .. N |-> IF n = 0 THEN a ELSE Add(f[n - 1], b.rows[r1 + n])]
             text == CHOOSE f : f = Body(f)
             step == [n \in 1 .. N |-> [acc \in Str |-> Add(acc, b.rows[r1 + n])]]
             inner == text[r2 - r1 - 1]
             part  == Take(b.rows[r2], Least(c2, Len(b.rows[r2])))
             whole == IF part = << >> THEN inner
                      ELSE (IF Len(inner) + 1 < YankMax THEN Append(inner, NL) ELSE inner) \o part
  <1>1. CharsText(b, r1, c1, r2, c2) = whole
    BY DEF CharsText
  <1>2. /\ N \in Nat /\ r1 \in 0 .. b.lcount - 1 /\ r2 \in 0 .. b.lcount - 1
        /\ \A n \in 1 .. N : r1 + n \in 0 .. b.lcount - 1
    BY FitFacts
  <1>3. \A n \in 1 .. N : b.rows[r1 + n] \in Str
    BY <1>2, FitFacts
  <1>13. a \in Str
    BY <1>2, FitFacts, DropFacts
  <1>14. part \in Str
    <2>1. b.rows[r2] \in Str /\ Len(b.rows[r2]) \in Nat
      BY <1>2, FitFacts
    <2>2. Least(c2, Len(b.rows[r2])) \in 0 .. Len(b.rows[r2])
      BY <2>1 DEF Least
    <2> QED
      BY <2>1, <2>2, TakeFacts
  <1>4. ASSUME NEW acc \in Str, NEW s \in Str
        PROVE  Add(acc, s) \in Str
    <2>1. Append(acc, NL) \in Str
      BY AddFacts, Blanks
    <2>2. Append(acc, NL) \o s \in Str
      BY <2>1, JoinFacts
    <2> QED
      BY <2>2
  <1> HIDE DEF Add, N, a, part
  <1>5. step \in [1 .. N -> [Str -> Str]]
    BY <1>3, <1>4
  <1>6. \E g : Turns(g, N, Str, a, step)
    <2> HIDE DEF step
    <2> QED
      BY <1>2, <1>5, <1>13, LoopExists
  <1>7. PICK g : Turns(g, N, Str, a, step)
    BY <1>6
  <1>8. g \in [0 .. N -> Str] /\ g[0] = a /\ \A n \in 1 .. N : g[n] = step[n][g[n - 1]]
    BY <1>7 DEF Turns
  <1>9. g = Body(g)
    <2>1. ASSUME NEW n \in 1 .. N
          PROVE  g[n] = Add(g[n - 1], b.rows[r1 + n])
      <3>1. g[n - 1] \in Str
        BY <1>2, <1>8
      <3> QED
        BY <1>8, <3>1
    <2>2. \A n \in 0 .. N : n = 0 \/ n \in 1 .. N
      BY <1>2
    <2> HIDE DEF step
    <2> QED
      BY <1>8, <2>1, <2>2
  <1>10. text = Body(text)
    <2> HIDE DEF Body
    <2> QED
      BY <1>9
  <1> HIDE DEF text
  <1>11. text[0] = a /\ \A n \in 1 .. N : text[n] = Add(text[n - 1], b.rows[r1 + n])
    BY <1>2, <1>10
  <1> DEFINE G == {n \in 0 .. N : text[n] \in Str}
  <1>12. 0 .. N \subseteq G
    <2>1. 0 \in G
      BY <1>2, <1>11, <1>13
    <2>2. \A n \in 1 .. N : n - 1 \in G => n \in G
      BY <1>2, <1>3, <1>4, <1>11
    <2> HIDE DEF G
    <2> QED
      BY <1>2, <2>1, <2>2, UpTo
  <1>15. inner \in Str
    BY <1>2, <1>12 DEF N
  <1> HIDE DEF inner
  <1>16. Append(inner, NL) \in Str
    BY <1>15, AddFacts, Blanks
  <1>17. inner \o part \in Str /\ Append(inner, NL) \o part \in Str
    BY <1>14, <1>15, <1>16, JoinFacts
  <1> QED
    BY <1>1, <1>15, <1>17

LEMMA RowTextFacts ==
    ASSUME NEW b, Fit(b), NEW r \in 0 .. b.lcount - 1, NEW c1 \in Nat, NEW c2 \in Nat,
           NEW t, t = RowText(b, r, c1, c2)
    PROVE  /\ t \in Str
           /\ t # << >> => c2 + Len(t) <= Len(b.rows[r])
  <1> DEFINE s == b.rows[r]
             e == Least(c1, Len(s))
  <1>1. s \in Str /\ Len(s) \in Nat
    BY FitFacts
  <1>2. e \in Nat /\ e <= Len(s)
    BY <1>1 DEF Least
  <1>3. t = SubSeq(s, c2 + 1, e)
    BY DEF RowText
  <1> HIDE DEF e
  <1>4. /\ c2 + 1 \in Int /\ e \in Int /\ \A i \in c2 + 1 .. e : s[i] \in Char
    BY <1>1, <1>2, StrFacts
  <1>5. /\ SubSeq(s, c2 + 1, e) \in Seq(Char)
        /\ Len(SubSeq(s, c2 + 1, e)) = IF c2 + 1 <= e THEN e - (c2 + 1) + 1 ELSE 0
    BY <1>4, SubSeqProperties
  <1>6. t \in Str /\ Len(t) = IF c2 + 1 <= e THEN e - (c2 + 1) + 1 ELSE 0
    BY <1>3, <1>5 DEF Str
  <1> HIDE DEF s
  <1> QED
    BY <1>1, <1>2, <1>6, StrFacts DEF s

LEMMA WorksYankRange ==
    ASSUME NEW b, Fit(b), NEW r1 \in 0 .. b.lcount - 1, NEW c1 \in Nat,
           NEW r2 \in 0 .. b.lcount - 1, NEW c2 \in Nat, NEW linewise \in BOOLEAN
    PROVE  Works(b, YankRange(b, r1, c1, r2, c2, linewise))
  <1> DEFINE lo == Least(r1, r2)
             hi == Greatest(r1, r2)
             text == IF linewise THEN LinesText(b, lo, hi)
                     ELSE IF r1 = r2 THEN RowText(b, r1, c1, c2)
                     ELSE IF r1 < r2 THEN CharsText(b, r1, c1, r2, c2)
                     ELSE CharsText(b, r2, c2, r1, c1)
             d == YankRange(b, r1, c1, r2, c2, linewise)
  <1>1. /\ r1 \in Nat /\ r2 \in Nat /\ lo \in Nat /\ hi \in Nat /\ lo <= hi /\ hi < b.lcount
        /\ r1 < b.lcount /\ r2 < b.lcount
    BY FitFacts DEF Least, Greatest
  <1>2. b \in ViBufs
    BY FitFacts
  <1>3. d = IF Len(text) >= YankMax THEN Undefined(b) ELSE YankText(b, text, linewise)
    BY DEF YankRange
  <1> HIDE DEF lo, hi
  <1>4. text \in Str
    <2>1. LinesText(b, lo, hi) \in Str
      BY <1>1, LinesTextFacts
    <2>2. RowText(b, r1, c1, c2) \in Str
      BY RowTextFacts
    <2>3. r1 < r2 => CharsText(b, r1, c1, r2, c2) \in Str
      BY <1>1, CharsTextFacts
    <2>4. r2 < r1 => CharsText(b, r2, c2, r1, c1) \in Str
      BY <1>1, CharsTextFacts
    <2> QED
      BY <1>1, <2>1, <2>2, <2>3, <2>4
  <1> HIDE DEF text, d
  <1>5. CASE d = Undefined(b)
    BY <1>2, <1>5 DEF Undefined, Works, Ended, ViBufs, d
  <1>6. CASE d = YankText(b, text, linewise)
    BY <1>4, <1>6, ChgYank, ChgWorks DEF d
  <1> QED
    BY <1>3, <1>5, <1>6

LEMMA ChgDeleteLines ==
    ASSUME NEW b, Fit(b), NEW lo \in Nat, NEW hi \in Nat, lo <= hi, hi < b.lcount
    PROVE  Chg(b, DeleteLines(b, lo, hi)) /\ DeleteLines(b, lo, hi).col = 0
  <1> DEFINE a == SaveUndo(b)
             text == LinesText(b, lo, hi)
             l == TRUE
             u == YankText(a, text, l)
             n == Least(hi - lo + 1, b.lcount - 1)
             x == n = 1 /\ Closed(u, lo)
             e == IF n = 0 THEN u ELSE CloseRows([u EXCEPT !.exact = x], lo, n)
             d == DeleteLines(b, lo, hi)
  <1>1. d = [e EXCEPT !.row = Least(lo, e.lcount - 1), !.col = 0, !.modified = TRUE]
    BY DEF DeleteLines
  <1>2. /\ Fit(a) /\ a.undo.row = a.row /\ a.rows = b.rows /\ a.lcount = b.lcount /\ a.row = b.row
    BY SavedFacts
  <1>3. b.lcount \in 1 .. MaxLines /\ b.lcount \in Nat /\ b.row \in Nat /\ b.row < b.lcount
    BY FitFacts
  <1>4. text \in Str
    BY LinesTextFacts
  <1>5. l \in BOOLEAN
    OBVIOUS
  <1> HIDE DEF a, text, l
  <1>6. /\ Fit(u) /\ u.undo.row = u.row /\ u.rows = b.rows /\ u.lcount = b.lcount
        /\ u.row = b.row
    <2>1. Chg(a, u) /\ u.rows = a.rows /\ u.lcount = a.lcount /\ u.row = a.row
          /\ u.undo = a.undo
      BY <1>2, <1>4, <1>5, ChgYank
    <2> QED
      BY <1>2, <2>1 DEF Chg
  <1> HIDE DEF u, d
  <1>7. u \in ViBufs
    BY <1>6 DEF Fit
  <1>8. n \in Nat /\ n < b.lcount
    BY <1>3 DEF Least
  <1>9. CASE n = 0
    <2>1. b.lcount = 1 /\ lo = 0 /\ b.row = 0
      BY <1>3, <1>9 DEF Least
    <2>2. e = u
      BY <1>9
    <2>3. Least(lo, e.lcount - 1) = 0
      BY <1>6, <2>1, <2>2 DEF Least
    <2>4. d = [u EXCEPT !.row = 0, !.col = 0, !.modified = TRUE]
      BY <1>1, <2>2, <2>3
    <2>5. u.rows \in Rows /\ u.row \in RowNos /\ Line(u) \in Fits
      BY <1>7, BufFacts
    <2>6. Put(u.rows, u.row, Line(u)) = u.rows
      BY <2>5 DEF Put, Line, Rows
    <2>7. d = Edited(u, Put(u.rows, u.row, Line(u)), u.lcount, u.row, 0)
      BY <1>6, <1>7, <2>1, <2>4, <2>6 DEF Edited, ViBufs
    <2>8. Chg(u, d) /\ d.modified /\ d.col = 0
      BY <1>6, <2>5, <2>7, ChgSavedRow
    <2> QED
      BY <2>8, ChgModified DEF d
  <1>10. CASE n # 0
    <2> HIDE DEF n
    <2> DEFINE f == [u EXCEPT !.exact = x]
               R == RowsClosed(u.rows, u.lcount, lo, n)
               q == Least(lo, b.lcount - n - 1)
    <2>1. e = CloseRows(f, lo, n)
      BY <1>10
    <2>2. x \in BOOLEAN /\ (x => n = 1 /\ Closed(u, lo))
      BY <1>6, WithinFacts
    <2> HIDE DEF x
    <2>3. f.rows = u.rows /\ f.lcount = u.lcount
      BY <1>7 DEF ViBufs
    <2>4. e = [f EXCEPT !.rows = R, !.lcount = u.lcount - n]
      BY <2>1, <2>3, ClosedForm
    <2> HIDE DEF e
    <2>5. e.lcount = b.lcount - n
      BY <1>6, <1>7, <2>4 DEF ViBufs
    <2>6. Least(lo, e.lcount - 1) = q /\ q \in 0 .. u.lcount - n - 1
      BY <1>3, <1>6, <1>8, <2>5 DEF Least
    <2> HIDE DEF q
    <2>7. d = Changed(u, R, u.lcount - n, q, 0, x)
      BY <1>1, <1>7, <2>4, <2>6 DEF Changed, ViBufs
    <2>8. Fit(u) /\ n < u.lcount /\ n \in Nat
      BY <1>6, <1>8
    <2>9. Chg(u, d) /\ d.modified /\ d.col = 0
      BY <2>2, <2>6, <2>7, <2>8, ChgClose
    <2> QED
      BY <2>9, ChgModified DEF d
  <1> QED
    BY <1>9, <1>10

LEMMA ChgDeleteInRow ==
    ASSUME NEW b, Fit(b), NEW c1 \in Nat, NEW c2 \in Nat
    PROVE  /\ Chg(b, DeleteInRow(b, b.row, c1, c2))
           /\ c2 <= LLen(b) => Placed(DeleteInRow(b, b.row, c1, c2))
  <1> DEFINE r == b.row
             cut == RowText(b, r, c1, c2)
             u == SaveUndo(b)
             l == FALSE
             y == YankText(u, cut, l)
             e == IF cut = << >> THEN u
                  ELSE [y EXCEPT !.rows[r] = Take(y.rows[r], c2) \o Drop(y.rows[r], c2 + Len(cut))]
             d == DeleteInRow(b, r, c1, c2)
  <1>1. d = [e EXCEPT !.col = c2, !.modified = TRUE]
    BY DEF DeleteInRow
  <1>2. /\ b.row \in 0 .. b.lcount - 1 /\ Line(b) \in Fits /\ Line(b) \in Str
        /\ Len(Line(b)) \in Nat /\ Line(b) = b.rows[b.row] /\ b.rows \in Rows /\ b.row \in RowNos
    BY FitFacts, BufFacts
  <1>3. cut \in Str /\ (cut # << >> => c2 + Len(cut) <= Len(Line(b))) /\ Len(cut) \in Nat
    BY <1>2, RowTextFacts, StrFacts
  <1>4. /\ Fit(u) /\ u.undo.row = u.row /\ u.rows = b.rows /\ u.lcount = b.lcount /\ u.row = b.row
    BY SavedFacts
  <1>5. l \in BOOLEAN
    OBVIOUS
  <1> HIDE DEF u, cut, l, d
  <1>6. /\ Fit(y) /\ y.undo.row = y.row /\ y.rows = b.rows /\ y.lcount = b.lcount
        /\ y.row = b.row
    <2>1. Chg(u, y) /\ y.rows = u.rows /\ y.lcount = u.lcount /\ y.row = u.row
          /\ y.undo = u.undo
      BY <1>3, <1>4, <1>5, ChgYank
    <2> QED
      BY <1>4, <2>1 DEF Chg
  <1> HIDE DEF y
  <1>7. u \in ViBufs /\ y \in ViBufs
    BY <1>4, <1>6 DEF Fit
  <1>8. CASE cut = << >>
    <2>1. d = [u EXCEPT !.col = c2, !.modified = TRUE]
      BY <1>1, <1>8
    <2>2. Put(u.rows, u.row, Line(b)) = u.rows
      BY <1>2, <1>4 DEF Put, Rows
    <2>3. d = Edited(u, Put(u.rows, u.row, Line(b)), u.lcount, u.row, c2)
      BY <1>7, <2>1, <2>2 DEF Edited, ViBufs
    <2>4. /\ Chg(u, d) /\ d.modified /\ d.col = c2 /\ d.row = u.row
          /\ d.lcount = u.lcount /\ d.rows = Put(u.rows, u.row, Line(b))
      BY <1>2, <1>4, <2>3, ChgSavedRow
    <2>5. Line(d) = Line(b)
      BY <1>2, <1>4, <2>2, <2>4 DEF Line
    <2>6. c2 <= LLen(b) => Placed(d)
      BY <1>4, <2>4, <2>5 DEF Placed, LLen, Fit
    <2> QED
      BY <2>4, <2>6, ChgModified DEF d
  <1>9. CASE cut # << >>
    <2> DEFINE t == Take(Line(b), c2) \o Drop(Line(b), c2 + Len(cut))
    <2>1. e = [y EXCEPT !.rows[r] = t]
      BY <1>2, <1>6, <1>9
    <2>2. t \in Fits /\ c2 <= Len(t)
      <3>1. c2 + Len(cut) \in Nat /\ c2 <= c2 + Len(cut) /\ c2 + Len(cut) <= Len(Line(b))
        BY <1>3, <1>9
      <3>2. t \in Fits /\ Len(t) = Len(Line(b)) - (c2 + Len(cut) - c2)
        <4> DEFINE m == c2 + Len(cut)
        <4>1. m \in Nat /\ c2 <= m /\ m <= Len(Line(b))
          BY <3>1
        <4> HIDE DEF m
        <4>2. /\ Take(Line(b), c2) \o Drop(Line(b), m) \in Fits
              /\ Len(Take(Line(b), c2) \o Drop(Line(b), m)) = Len(Line(b)) - (m - c2)
          BY <1>2, <4>1, CutFacts
        <4> QED
          BY <4>2 DEF m
      <3> QED
        BY <1>2, <1>3, <3>1, <3>2
    <2> HIDE DEF e, t
    <2>3. d = Edited(y, Put(y.rows, y.row, t), y.lcount, y.row, c2)
      BY <1>1, <1>6, <1>7, <2>1 DEF Edited, Put, ViBufs
    <2>4. /\ Chg(y, d) /\ d.modified /\ d.col = c2 /\ d.row = y.row
          /\ d.lcount = y.lcount /\ d.rows = Put(y.rows, y.row, t)
      <3>1. Fit(y) /\ y.row = y.undo.row /\ t \in Fits
        BY <1>6, <2>2
      <3>2. /\ Chg(y, d) /\ d.modified /\ d.rows = Put(y.rows, y.row, t)
            /\ d.lcount = y.lcount /\ d.row = y.row /\ d.col = c2
            /\ d.exact = y.exact /\ d.undo = y.undo /\ d.yank = y.yank /\ d.mode = y.mode
        BY <2>3, <3>1, ChgSavedRow
      <3> QED
        BY <3>2
    <2>5. y.rows \in Rows /\ y.row \in RowNos
      BY <1>2, <1>6
    <2>6. Line(d) = t
      BY <2>2, <2>4, <2>5, PutRow DEF Line
    <2>7. Placed(d)
      BY <1>6, <2>2, <2>4, <2>6 DEF Placed, LLen, Fit
    <2> QED
      BY <2>4, <2>7, ChgModified DEF d
  <1> QED
    BY <1>8, <1>9

LEMMA WorksDeleteOverRows ==
    ASSUME NEW b, Fit(b), NEW r1 \in Nat, NEW c1 \in Nat, NEW r2 \in Nat, NEW c2 \in Nat,
           r1 < r2, r2 < b.lcount
    PROVE  /\ Works(b, DeleteOverRows(b, r1, c1, r2, c2))
           /\ DeleteOverRows(b, r1, c1, r2, c2).mode # "loop"
           /\ \/ DeleteOverRows(b, r1, c1, r2, c2).mode = "undef"
              \/ c1 > Len(b.rows[r1])
              \/ Placed(DeleteOverRows(b, r1, c1, r2, c2))
  <1> DEFINE u == SaveUndo(b)
             text == CharsText(b, r1, c1, r2, c2)
             l == FALSE
             y == YankText(u, text, l)
             e == [y EXCEPT !.rows[r1] = Take(@, Least(c1, Len(@))),
                            !.rows[r2] = Drop(@, Least(c2, Len(@))),
                            !.exact = FALSE, !.row = r1, !.col = c1, !.modified = TRUE]
             d == DeleteOverRows(b, r1, c1, r2, c2)
  <1>1. d = IF Len(text) >= YankMax THEN Undefined(b) ELSE CloseRows(e, r1 + 1, r2 - r1)
    BY DEF DeleteOverRows
  <1>2. /\ Fit(u) /\ u.rows = b.rows /\ u.lcount = b.lcount
    BY SavedFacts
  <1>3. b \in ViBufs /\ b.lcount \in 1 .. MaxLines /\ b.lcount \in Nat /\ b.rows \in Rows
    BY FitFacts, BufFacts
  <1>4. text \in Str /\ l \in BOOLEAN
    BY CharsTextFacts
  <1> HIDE DEF u, text, l, d
  <1>5. Fit(y) /\ y.rows = b.rows /\ y.lcount = b.lcount
    <2>1. Chg(u, y) /\ y.rows = u.rows /\ y.lcount = u.lcount
      BY <1>2, <1>4, ChgYank
    <2> QED
      BY <1>2, <2>1 DEF Chg
  <1>6. CASE d = Undefined(b)
    BY <1>3, <1>6 DEF Undefined, Works, Ended, ViBufs, d
  <1>7. CASE d = CloseRows(e, r1 + 1, r2 - r1)
    <2> HIDE DEF y
    <2> DEFINE s == Take(b.rows[r1], Least(c1, Len(b.rows[r1])))
               t == Drop(b.rows[r2], Least(c2, Len(b.rows[r2])))
               P == Put(Put(b.rows, r1, s), r2, t)
               R == RowsClosed(P, b.lcount, r1 + 1, r2 - r1)
    <2>1. r1 \in RowNos /\ r2 \in RowNos /\ r1 # r2
      BY <1>3, Numbers DEF RowNos
    <2>2. b.rows[r1] \in Fits /\ b.rows[r1] \in Str /\ b.rows[r2] \in Fits /\ b.rows[r2] \in Str
      BY <1>3, <2>1, RowFacts
    <2>3. s \in Fits /\ t \in Fits
      <3>1. /\ Least(c1, Len(b.rows[r1])) \in 0 .. Len(b.rows[r1])
            /\ Least(c2, Len(b.rows[r2])) \in Nat
        BY <2>2, StrFacts DEF Least
      <3> QED
        BY <2>2, <3>1, TakeFacts, DropFacts
    <2>4. y \in ViBufs
      BY <1>5 DEF Fit
    <2>5. e.rows = P /\ e.lcount = b.lcount
      BY <1>3, <1>5, <2>1, <2>4 DEF Put, ViBufs, Rows
    <2>6. d = [e EXCEPT !.rows = R, !.lcount = b.lcount - (r2 - r1)]
      BY <1>7, <2>5, ClosedForm
    <2>7. P \in Rows
      BY <1>3, <2>1, <2>3, PutRow
    <2> HIDE DEF P
    <2>8. R \in Rows
      BY <1>3, <2>7, ClosedFacts
    <2> HIDE DEF R
    <2>9. d = Changed(y, R, b.lcount - (r2 - r1), r1, c1, FALSE)
      BY <2>4, <2>6 DEF Changed, ViBufs
    <2>10. b.lcount - (r2 - r1) \in 1 .. MaxLines /\ r1 < b.lcount - (r2 - r1)
      BY <1>3, Numbers
    <2>11. /\ Chg(y, d) /\ d.modified /\ d.rows = R /\ d.row = r1 /\ d.col = c1
           /\ d.lcount = b.lcount - (r2 - r1)
      <3> DEFINE x == FALSE
      <3>1. x \in BOOLEAN /\ ~x
        OBVIOUS
      <3>2. d = Changed(y, R, b.lcount - (r2 - r1), r1, c1, x)
        BY <2>9
      <3> HIDE DEF x
      <3> QED
        BY <1>5, <2>1, <2>8, <2>10, <3>1, <3>2, ChgEdit
    <2>12. c1 > Len(b.rows[r1]) \/ Placed(d)
      <3>1. SUFFICES ASSUME ~(c1 > Len(b.rows[r1]))
                     PROVE  Placed(d)
        OBVIOUS
      <3>2. Len(b.rows[r1]) \in Nat /\ Least(c1, Len(b.rows[r1])) = c1 /\ c1 \in 0 .. Len(b.rows[r1])
        BY <2>2, <3>1, StrFacts DEF Least
      <3>3. Len(s) = c1
        BY <2>2, <3>2, TakeFacts
      <3>4. P[r1] = s
        <4> DEFINE O == Put(b.rows, r1, s)
        <4>1. O \in Rows /\ O[r1] = s
          BY <1>3, <2>1, <2>3, PutRow
        <4> HIDE DEF O, s, t
        <4>2. Put(O, r2, t)[r1] = O[r1]
          BY <2>1, <2>3, <4>1, PutRow
        <4> QED
          BY <4>1, <4>2 DEF O, P
      <3>5. R[r1] = P[r1]
        <4>1. DOMAIN P = RowNos /\ ~(r1 + 1 <= r1)
          BY <2>7, RowFacts
        <4> QED
          BY <2>1, <4>1 DEF R, RowsClosed
      <3>6. LLen(d) = c1
        BY <2>11, <3>3, <3>4, <3>5 DEF LLen, Line
      <3> QED
        BY <2>10, <2>11, <3>6 DEF Placed
    <2> QED
      BY <2>11, <2>12, ChgModified, ChgWorks DEF d, Ended
  <1> QED
    BY <1>1, <1>6, <1>7

LEMMA WorksDeleteRange ==
    ASSUME NEW b, Fit(b), NEW r1 \in 0 .. b.lcount - 1, NEW c1 \in Nat, NEW c2 \in Nat,
           NEW linewise \in BOOLEAN
    PROVE  /\ Works(b, DeleteRange(b, r1, c1, b.row, c2, linewise))
           /\ DeleteRange(b, r1, c1, b.row, c2, linewise).mode # "loop"
           /\ \/ DeleteRange(b, r1, c1, b.row, c2, linewise).mode = "undef"
              \/ c1 > Len(b.rows[r1]) \/ c2 > LLen(b)
              \/ Placed(DeleteRange(b, r1, c1, b.row, c2, linewise))
  <1> DEFINE r2 == b.row
             lo == Least(r1, r2)
             hi == Greatest(r1, r2)
             d  == DeleteRange(b, r1, c1, r2, c2, linewise)
  <1>1. /\ r1 \in Nat /\ r2 \in Nat /\ lo \in Nat /\ hi \in Nat /\ lo <= hi /\ hi < b.lcount
        /\ r1 < b.lcount /\ r2 < b.lcount
    BY FitFacts DEF Least, Greatest
  <1>2. d = IF linewise THEN DeleteLines(b, lo, hi)
            ELSE IF r1 = r2 THEN DeleteInRow(b, r1, c1, c2)
            ELSE IF r1 < r2 THEN DeleteOverRows(b, r1, c1, r2, c2)
            ELSE DeleteOverRows(b, r2, c2, r1, c1)
    BY DEF DeleteRange
  <1> HIDE DEF lo, hi
  <1> DEFINE Far == c1 > Len(b.rows[r1]) \/ c2 > LLen(b)
             Fine(e) == Works(b, e) /\ e.mode # "loop" /\ (e.mode = "undef" \/ Far \/ Placed(e))
  <1>0. LLen(b) = Len(b.rows[r2])
    BY DEF LLen, Line
  <1>9. ASSUME NEW e, Chg(b, e), Far \/ Placed(e)
        PROVE  Fine(e)
    BY <1>9, ChgWorks DEF Ended
  <1>3. Fine(DeleteLines(b, lo, hi))
    <2> DEFINE e == DeleteLines(b, lo, hi)
    <2>1. Chg(b, e) /\ e.col = 0
      BY <1>1, ChgDeleteLines
    <2> HIDE DEF e
    <2>2. Placed(e)
      <3>1. Fit(e)
        BY <2>1 DEF Chg
      <3> QED
        BY <2>1, <3>1, FitFacts DEF Placed
    <2>3. Fine(e)
      BY <1>9, <2>1, <2>2
    <2> QED
      BY <2>3 DEF e
  <1>4. r1 = r2 => Fine(DeleteInRow(b, r1, c1, c2))
    <2> DEFINE e == DeleteInRow(b, r2, c1, c2)
    <2>1. Chg(b, e) /\ (c2 <= LLen(b) => Placed(e))
      BY ChgDeleteInRow
    <2>2. LLen(b) \in Nat
      BY FitFacts
    <2> HIDE DEF e
    <2>3. Fine(e)
      BY <1>9, <2>1, <2>2
    <2> QED
      BY <2>3 DEF e
  <1>5. r1 < r2 => Fine( DeleteOverRows(b, r1, c1, r2, c2))
    BY <1>1, WorksDeleteOverRows
  <1>6. r2 < r1 => Fine( DeleteOverRows(b, r2, c2, r1, c1))
    BY <1>0, <1>1, WorksDeleteOverRows
  <1>7. r1 = r2 \/ r1 < r2 \/ r2 < r1
    BY <1>1
  <1> HIDE DEF d, Fine
  <1>8. Fine(d)
    BY <1>1, <1>2, <1>3, <1>4, <1>5, <1>6, <1>7
  <1> QED
    BY <1>8 DEF d, Fine

\* A change that leaves vi in insert mode.
LEMMA WorksInsert ==
    ASSUME NEW b, NEW d, Works(b, d), NEW e, e = [d EXCEPT !.mode = "ins"], Fit(d)
    PROVE  Works(b, e)
  <1>1. "ins" \in Live
    BY DEF Live
  <1>2. Still(b, d)
    BY FitFacts DEF Works
  <1>3. Chg(d, e)
    BY <1>1, ChgMode
  <1> QED
    BY <1>2, <1>3, ChgTrans, ChgWorks DEF Chg

LEMMA WorksChangeRange ==
    ASSUME NEW b, Fit(b), NEW r1 \in 0 .. b.lcount - 1, NEW c1 \in Nat, NEW c2 \in Nat,
           NEW linewise \in BOOLEAN
    PROVE  Works(b, ChangeRange(b, r1, c1, b.row, c2, linewise))
  <1> DEFINE d == DeleteRange(b, r1, c1, b.row, c2, linewise)
             e == ChangeRange(b, r1, c1, b.row, c2, linewise)
             c == Least(d.col, LLen(d))
  <1>1. Works(b, d) /\ d.mode # "loop"
    BY WorksDeleteRange
  <1>2. e = IF d.mode = "undef" THEN d ELSE [d EXCEPT !.col = c, !.mode = "ins"]
    BY DEF ChangeRange
  <1> HIDE DEF d, e
  <1>3. CASE d.mode = "undef"
    BY <1>1, <1>2, <1>3 DEF e
  <1>5. CASE d.mode \notin {"undef", "loop"}
    <2>1. Fit(d) /\ Still(b, d)
      BY <1>1, <1>5 DEF Works, Ended
    <2>2. c \in Nat /\ d \in ViBufs /\ d.dot \in BOOLEAN
      BY <2>1, FitFacts DEF Least, ViBufs
    <2> HIDE DEF c
    <2>3. e = Tidy(d, c, "ins", d.dot)
      BY <1>2, <1>5, <2>2 DEF Tidy, ViBufs
    <2>4. "ins" \in Live
      BY DEF Live
    <2>5. Chg(d, e)
      BY <2>1, <2>2, <2>3, <2>4, ChgTidy
    <2>6. Chg(b, d)
      BY <2>1 DEF Chg
    <2> QED
      BY <2>5, <2>6, ChgTrans, ChgWorks DEF e
  <1> QED
    BY <1>1, <1>3, <1>5

LEMMA WorksOpMotion ==
    ASSUME NEW b, Fit(b), NEW m, Goes(b, m), NEW op \in {"d", "y", "c"},
           NEW linewise \in BOOLEAN
    PROVE  Works(b, ApplyOpMotion(b, op, linewise, m))
  <1> DEFINE d == ApplyOpMotion(b, op, linewise, m)
  <1>1. Fit(m) /\ Still(b, m) /\ m.lcount = b.lcount /\ m.row \in 0 .. m.lcount - 1
    BY GoesFacts
  <1>2. b.row \in 0 .. m.lcount - 1 /\ b.col \in Nat /\ m.col \in Nat
    BY <1>1, FitFacts
  <1>3. d = CASE op = "d" -> DeleteRange(m, b.row, b.col, m.row, m.col, linewise)
              [] op = "y" -> YankRange(m, b.row, b.col, m.row, m.col, linewise)
              [] op = "c" -> ChangeRange(m, b.row, b.col, m.row, m.col, linewise)
    BY DEF ApplyOpMotion, OpExec
  <1> HIDE DEF d
  <1>4. /\ Works(m, DeleteRange(m, b.row, b.col, m.row, m.col, linewise))
        /\ Works(m, YankRange(m, b.row, b.col, m.row, m.col, linewise))
        /\ Works(m, ChangeRange(m, b.row, b.col, m.row, m.col, linewise))
    BY <1>1, <1>2, WorksDeleteRange, WorksYankRange, WorksChangeRange
  <1>5. Works(m, d)
    BY <1>3, <1>4
  <1> QED
    BY <1>1, <1>5 DEF d, Works, Still

----------------------------------------------------------------------------
(* Undo and redo: the row may be behind the last line, with column 0 *)

Nearly(d) ==
    d \in ViBufs /\ d.mode \in Live /\ UndoOK(d) /\ (d.row < d.lcount \/ d.col = 0)

Does(b, d) == d.mode \in Ended \/ (Nearly(d) /\ Still(b, d))

LEMMA WorksDoes ==
    ASSUME NEW b, NEW d, Works(b, d)
    PROVE  Does(b, d)
  BY DEF Works, Does, Nearly, Fit

LEMMA DoesUndo ==
    ASSUME NEW b, Fit(b)
    PROVE  Does(b, Undo(b))
  <1> DEFINE d == Undo(b)
             v == [line |-> b.rows[b.undo.row], row |-> b.undo.row, lcount |-> b.lcount]
             R == Put(b.rows, b.undo.row, b.undo.line)
  <1>1. b \in ViBufs /\ UndoOK(b) /\ b.mode \in Live
    BY DEF Fit
  <1>2. /\ b.undo.valid \in BOOLEAN /\ b.undo.line \in Fits /\ b.undo.row \in RowNos
        /\ b.undo.lcount \in 0 .. MaxLines /\ b.rows \in Rows /\ b.lcount \in 1 .. MaxLines
    BY <1>1, BufFacts
  <1>3. CASE ~b.undo.valid
    BY <1>3, ChgSame, ChgWorks, WorksDoes DEF Undo
  <1>4. CASE b.undo.valid
    <2>1. b.undo.lcount \in 1 .. MaxLines
      BY <1>1, <1>2, <1>4 DEF UndoOK
    <2>2. v \in Redos
      BY <1>2, RowFacts DEF Redos
    <2>3. NoUndo \in Undos /\ ~NoUndo.valid
      BY StrFacts, Numbers DEF NoUndo, Undos, RowNos
    <2>4. R \in Rows
      BY <1>2, PutRow
    <2>5. << >> \in Seq(Fits)
      OBVIOUS
    <2>6. d = [b EXCEPT !.redo = v, !.rows = R, !.lcount = b.undo.lcount, !.row = b.undo.row,
                        !.col = 0, !.undo = NoUndo, !.snap = << >>, !.exact = FALSE,
                        !.modified = TRUE]
      BY <1>1, <1>4 DEF Undo, Put, ViBufs
    <2> HIDE DEF v, R, d
    <2>7. /\ d \in ViBufs /\ d.undo = NoUndo /\ d.col = 0 /\ d.mode = b.mode /\ d.modified
      BY <1>1, <1>2, <2>1, <2>2, <2>3, <2>4, <2>5, <2>6 DEF ViBufs
    <2> QED
      BY <1>1, <2>3, <2>7 DEF Does, Nearly, UndoOK, Still, d
  <1> QED
    BY <1>3, <1>4

LEMMA DoesRedo ==
    ASSUME NEW b, Fit(b)
    PROVE  Does(b, Redo(b))
  <1> DEFINE d == Redo(b)
             r == b.redo.row
             v == IF ~b.undo.valid THEN b.undo
                  ELSE [b.undo EXCEPT !.line = b.rows[r], !.row = r, !.lcount = b.lcount]
             w == IF b.undo.valid THEN Text(b) ELSE b.snap
             R == Put(b.rows, r, b.redo.line)
  <1>1. b \in ViBufs /\ UndoOK(b) /\ b.mode \in Live
    BY DEF Fit
  <1>2. /\ b.undo \in Undos /\ b.undo.valid \in BOOLEAN /\ b.redo.line \in Fits /\ r \in RowNos
        /\ b.redo.lcount \in 0 .. MaxLines /\ b.rows \in Rows /\ b.lcount \in 1 .. MaxLines
        /\ b.snap \in Seq(Fits) /\ b.lcount \in Nat
    BY <1>1, BufFacts
  <1>3. CASE b.redo.lcount = 0
    <2>1. d = Undefined(b)
      BY <1>3 DEF Redo
    <2>2. d.mode = "undef"
      BY <1>1, <2>1 DEF Undefined, ViBufs
    <2> QED
      BY <2>2 DEF Does, Ended
  <1>4. CASE b.redo.lcount # 0
    <2>1. b.redo.lcount \in 1 .. MaxLines
      BY <1>2, <1>4, Numbers
    <2>2. /\ v \in Undos /\ v.valid = b.undo.valid
          /\ b.undo.valid => v.line = b.rows[r] /\ v.row = r /\ v.lcount = b.lcount
      <3>1. b.rows[r] \in Fits /\ b.lcount \in 0 .. MaxLines
        BY <1>2, RowFacts, Numbers
      <3>2. CASE b.undo.valid
        <4>1. v = [b.undo EXCEPT !.line = b.rows[r], !.row = r, !.lcount = b.lcount]
          BY <3>2
        <4> HIDE DEF v, r
        <4> QED
          BY <1>2, <3>1, <4>1 DEF Undos
      <3>3. CASE ~b.undo.valid
        <4>1. v = b.undo
          BY <3>3
        <4> HIDE DEF v
        <4> QED
          BY <1>2, <3>3, <4>1
      <3> QED
        BY <3>2, <3>3
    <2>3. w \in Seq(Fits) /\ (b.undo.valid => w = Text(b))
      BY <1>1, <1>2, TextFacts
    <2>4. R \in Rows /\ \A i \in RowNos : i # r => R[i] = b.rows[i]
      BY <1>2, PutRow
    <2>5. d = [b EXCEPT !.undo = v, !.snap = w, !.exact = b.undo.valid, !.rows = R,
                        !.lcount = b.redo.lcount, !.row = r, !.col = 0, !.modified = TRUE]
      BY <1>1, <1>4 DEF Redo, Put, ViBufs
    <2> HIDE DEF v, w, R, d
    <2>6. /\ d \in ViBufs /\ d.undo = v /\ d.snap = w /\ d.col = 0 /\ d.mode = b.mode
          /\ d.rows = R /\ d.modified
      BY <1>1, <1>2, <2>1, <2>2, <2>3, <2>4, <2>5 DEF ViBufs
    <2>7. UndoOK(d)
      <3>1. SUFFICES ASSUME b.undo.valid
                     PROVE  b.lcount >= 1 /\ Brings(d)
        BY <2>2, <2>6 DEF UndoOK
      <3>2. /\ Len(d.snap) = b.lcount
            /\ \A i \in 1 .. b.lcount : d.snap[i] = b.rows[i - 1] /\ i - 1 \in RowNos
        BY <1>1, <2>3, <2>6, <3>1, TextFacts
      <3>3. \A i \in 0 .. b.lcount - 1 : i + 1 \in 1 .. b.lcount /\ i + 1 - 1 = i
        BY <1>2
      <3>4. \A i \in 0 .. b.lcount - 1 : d.snap[i + 1] = b.rows[i] /\ i \in RowNos
        BY <3>2, <3>3
      <3> QED
        BY <1>2, <2>2, <2>4, <2>6, <3>1, <3>2, <3>4 DEF Brings
    <2> QED
      BY <1>1, <2>6, <2>7 DEF Does, Nearly, Still, d
  <1> QED
    BY <1>3, <1>4

----------------------------------------------------------------------------
(* Substitution *)

\* What is left of a text that is cut to a row.
CutRow(s) == Take(s, Least(Len(s), MaxCol - 1))

LEMMA CutRowFacts ==
    ASSUME NEW s \in Str
    PROVE  CutRow(s) \in Fits /\ (s \in Fits => CutRow(s) = s)
  <1>1. Len(s) \in Nat
    BY StrFacts
  <1>2. Least(Len(s), MaxCol - 1) \in 0 .. Len(s) /\ Least(Len(s), MaxCol - 1) < MaxCol
    BY <1>1, Numbers DEF Least
  <1>3. CutRow(s) \in Str /\ Len(CutRow(s)) < MaxCol
    BY <1>2, TakeFacts DEF CutRow
  <1>4. ASSUME s \in Fits
        PROVE  CutRow(s) = s
    <2>1. Least(Len(s), MaxCol - 1) = Len(s) /\ Len(s) \in 0 .. Len(s)
      BY <1>1, <1>4, StrFacts, Numbers DEF Least
    <2>2. CutRow(s) = Take(s, Len(s))
      BY <2>1 DEF CutRow
    <2> QED
      BY <2>1, <2>2, TakeFacts, SameStr
  <1> QED
    BY <1>3, <1>4 DEF Fits

LEMMA SubstituteLineFacts ==
    ASSUME NEW s \in Fits, NEW pat \in Str, NEW rep \in Str,
           pat # << >> \/ rep # << >> \/ s = << >>
    PROVE  SubstituteLine(s, pat, rep) \in Fits
  <1> DEFINE N == Len(s)
             Atc(c) == c + Len(pat) <= N /\ SubSeq(s, c + 1, c + Len(pat)) = pat
             Add(t, c) == IF t.skip > 0 THEN [t EXCEPT !.skip = @ - 1]
                          ELSE IF Atc(c) THEN [out |-> t.out \o rep, skip |-> Len(pat) - 1]
                          ELSE [t EXCEPT !.out = Append(@, s[c + 1])]
             a == [out |-> << >>, skip |-> 0]
             Body(f) == [c \in 0 .. N |-> IF c = 0 THEN a ELSE Add(f[c - 1], c - 1)]
             sub == CHOOSE f : f = Body(f)
             fill == [i \in 1 .. MaxCol - 1 |-> rep[((i - 1) % Len(rep)) + 1]]
             res == IF pat = << >> THEN fill ELSE sub[N].out
             T == [out : Str, skip : Int]
             step == [c \in 1 .. N |-> [t \in T |-> Add(t, c - 1)]]
  <1>1. SubstituteLine(s, pat, rep) =
          IF s = << >> THEN s ELSE Take(res, Least(Len(res), MaxCol - 1))
    BY DEF SubstituteLine
  <1>2. s \in Str /\ N \in Nat /\ Len(pat) \in Nat /\ \A c \in 1 .. N : s[c] \in Char
    BY StrFacts
  <1>3. ASSUME NEW t \in T, NEW c \in 1 .. N
        PROVE  Add(t, c - 1) \in T
    <2>1. t.out \in Str /\ t.skip \in Int /\ s[c - 1 + 1] \in Char
      BY <1>2
    <2>2. t.out \o rep \in Str /\ Append(t.out, s[c - 1 + 1]) \in Str
      BY <2>1, JoinFacts, AddFacts
    <2> DEFINE w == t.out \o rep
               x == Append(t.out, s[c - 1 + 1])
    <2>3. w \in Str /\ x \in Str
      BY <2>2
    <2>4. Add(t, c - 1) = IF t.skip > 0 THEN [t EXCEPT !.skip = t.skip - 1]
                          ELSE IF Atc(c - 1) THEN [out |-> w, skip |-> Len(pat) - 1]
                          ELSE [t EXCEPT !.out = x]
      OBVIOUS
    <2> HIDE DEF w, x, Add, Atc
    <2> QED
      BY <1>2, <2>1, <2>3, <2>4
  <1>4. a \in T
    BY StrFacts
  <1> HIDE DEF Add, a, T
  <1>5. step \in [1 .. N -> [T -> T]]
    BY <1>3
  <1>6. \E g : Turns(g, N, T, a, step)
    <2> HIDE DEF step, N
    <2> QED
      BY <1>2, <1>4, <1>5, LoopExists
  <1>7. PICK g : Turns(g, N, T, a, step)
    BY <1>6
  <1>8. g \in [0 .. N -> T] /\ g[0] = a /\ \A c \in 1 .. N : g[c] = step[c][g[c - 1]]
    BY <1>7 DEF Turns
  <1> HIDE DEF N
  <1>9. g = Body(g)
    <2>1. ASSUME NEW c \in 1 .. N
          PROVE  g[c] = Add(g[c - 1], c - 1)
      <3>1. g[c - 1] \in T
        BY <1>2, <1>8
      <3> QED
        BY <1>8, <3>1
    <2>2. \A c \in 0 .. N : c = 0 \/ c \in 1 .. N
      BY <1>2
    <2> HIDE DEF step
    <2> QED
      BY <1>8, <2>1, <2>2
  <1>10. sub = Body(sub)
    <2> HIDE DEF Body
    <2> QED
      BY <1>9
  <1> HIDE DEF sub
  <1>11. sub[0] = a /\ \A c \in 1 .. N : sub[c] = Add(sub[c - 1], c - 1)
    BY <1>2, <1>10
  <1> DEFINE G == {c \in 0 .. N : sub[c] \in T}
  <1>12. 0 .. N \subseteq G
    <2>1. 0 \in G
      BY <1>2, <1>4, <1>11
    <2>2. \A c \in 1 .. N : c - 1 \in G => c \in G
      BY <1>2, <1>3, <1>11
    <2> HIDE DEF G
    <2> QED
      BY <1>2, <2>1, <2>2, UpTo
  <1>13. sub[N].out \in Str
    <2>1. sub[N] \in T
      BY <1>2, <1>12
    <2> QED
      BY <2>1 DEF T
  <1>14. rep # << >> => fill \in Str
    <2>1. SUFFICES ASSUME rep # << >>
                   PROVE  fill \in Seq(Char)
      BY DEF Str
    <2>2. Len(rep) \in Nat /\ Len(rep) # 0 /\ \A i \in 1 .. Len(rep) : rep[i] \in Char
      BY <2>1, StrFacts
    <2>3. ASSUME NEW i \in 1 .. MaxCol - 1
          PROVE  rep[((i - 1) % Len(rep)) + 1] \in Char
      <3>1. i - 1 \in Nat
        OBVIOUS
      <3>2. (i - 1) % Len(rep) \in 0 .. Len(rep) - 1
        BY <2>2, <3>1
      <3>3. ((i - 1) % Len(rep)) + 1 \in 1 .. Len(rep)
        BY <2>2, <3>2
      <3> QED
        BY <2>2, <3>3
    <2>4. fill \in [1 .. MaxCol - 1 -> Char]
      BY <2>3
    <2> HIDE DEF fill
    <2> QED
      BY <2>4, Numbers
  <1> HIDE DEF fill
  <1>15. CASE s = << >>
    BY <1>1, <1>15
  <1>16. CASE s # << >>
    <2>1. res \in Str
      BY <1>13, <1>14, <1>16
    <2> HIDE DEF res
    <2> QED
      BY <1>1, <1>16, <2>1, CutRowFacts DEF CutRow
  <1> QED
    BY <1>15, <1>16

LEMMA WorksSubstitute ==
    ASSUME NEW b, Fit(b), NEW R \in SUBSET RowNos, NEW pat \in Str, NEW rep \in Str
    PROVE  Works(b, Substitute(b, R, pat, rep))
  <1> DEFINE d == Substitute(b, R, pat, rep)
             Q == [i \in RowNos |-> IF i \in R THEN SubstituteLine(b.rows[i], pat, rep) ELSE b.rows[i]]
  <1>1. /\ b \in ViBufs /\ b.rows \in Rows /\ DOMAIN b.rows = RowNos
        /\ \A i \in RowNos : b.rows[i] \in Fits
        /\ b.lcount \in 1 .. MaxLines /\ b.row \in RowNos /\ b.row < b.lcount /\ b.col \in Nat
    BY FitFacts, BufFacts, RowFacts
  <1>2. CASE pat = << >> /\ rep = << >> /\ \E r \in R : b.rows[r] # << >>
    <2>1. d = [b EXCEPT !.mode = "loop"]
      BY <1>2 DEF Substitute
    <2>2. d.mode = "loop"
      BY <1>1, <2>1 DEF ViBufs
    <2> QED
      BY <2>2 DEF Works, Ended
  <1>3. CASE ~(pat = << >> /\ rep = << >> /\ \E r \in R : b.rows[r] # << >>)
    <2>1. d = [b EXCEPT !.rows = [i \in DOMAIN b.rows |->
                                    IF i \in R THEN SubstituteLine(b.rows[i], pat, rep)
                                    ELSE b.rows[i]],
                        !.exact = FALSE, !.modified = TRUE]
      BY <1>3 DEF Substitute
    <2>2. \A i \in R : SubstituteLine(b.rows[i], pat, rep) \in Fits
      BY <1>1, <1>3, SubstituteLineFacts
    <2>3. Q \in Rows
      BY <1>1, <2>2 DEF Rows
    <2>4. d = [b EXCEPT !.rows = Q, !.exact = FALSE, !.modified = TRUE]
      BY <1>1, <2>1
    <2> HIDE DEF Q, d
    <2> DEFINE x == FALSE
    <2>5. x \in BOOLEAN /\ ~x
      OBVIOUS
    <2>6. d = Changed(b, Q, b.lcount, b.row, b.col, x)
      BY <1>1, <2>4 DEF Changed, ViBufs
    <2> HIDE DEF x
    <2>7. Chg(b, d)
      BY <1>1, <2>3, <2>5, <2>6, ChgEdit
    <2> QED
      BY <2>7, ChgWorks DEF d
  <1> QED
    BY <1>2, <1>3

----------------------------------------------------------------------------
(* Files *)

\* How many elements of T are smaller than c.
Rank(T, c) == Cardinality({d \in T : d < c})

\* Some element of T has each rank there is.
LEMMA RankExists ==
    ASSUME NEW T, T \subseteq Nat, IsFiniteSet(T), NEW k \in Nat, k < Cardinality(T)
    PROVE  \E c \in T : Rank(T, c) = k
  <1> DEFINE N == Cardinality(T) - 1
             Under(c) == {d \in T : d < c}
             G == {j \in 0 .. N : \E c \in T : Cardinality(Under(c)) = j}
  <1>1. Cardinality(T) \in Nat
    BY FS_CardinalityType
  <1>2. ASSUME NEW c \in T
        PROVE  /\ IsFiniteSet(Under(c)) /\ Cardinality(Under(c)) \in Nat
               /\ IsFiniteSet(Under(c) \cup {c})
               /\ Cardinality(Under(c) \cup {c}) = Cardinality(Under(c)) + 1
    <2>1. Under(c) \in SUBSET T
      OBVIOUS
    <2>2. c \notin Under(c)
      BY <1>2
    <2> HIDE DEF Under
    <2>3. IsFiniteSet(Under(c))
      BY <2>1, FS_Subset
    <2> QED
      BY <2>2, <2>3, FS_CardinalityType, FS_AddElement
  <1>3. 0 \in G
    <2>1. T # {}
      <3>1. Cardinality({}) = 0
        BY FS_EmptySet, Zenon
      <3>2. Cardinality(T) # 0
        BY <1>1
      <3> QED
        BY <3>1, <3>2, Zenon
    <2>2. PICK c \in T : \A d \in T : c <= d
      BY <2>1, SmallestOf, Zenon
    <2>3. Under(c) = {}
      <3>1. ASSUME NEW d \in T
            PROVE  ~(d < c)
        <4>1. c \in Nat /\ d \in Nat /\ c <= d
          BY <2>2
        <4> QED
          BY <4>1
      <3> QED
        BY <3>1, Zenon
    <2>4. Cardinality(Under(c)) = 0 /\ 0 \in 0 .. N
      <3> HIDE DEF Under
      <3> QED
        BY <1>1, <2>3, FS_EmptySet
    <2> HIDE DEF Under
    <2> QED
      BY <2>4
  <1>4. ASSUME NEW j \in 1 .. N, j - 1 \in G
        PROVE  j \in G
    <2>1. PICK c \in T : Cardinality(Under(c)) = j - 1
      BY <1>4
    <2> DEFINE Rest == T \ (Under(c) \cup {c})
    <2>2. Rest # {}
      <3>1. SUFFICES ASSUME Rest = {}
                     PROVE  FALSE
        OBVIOUS
      <3>2. T = Under(c) \cup {c}
        BY <3>1
      <3> HIDE DEF Under
      <3> QED
        BY <1>1, <1>2, <2>1, <3>2
    <2>3. Rest \subseteq Nat
      OBVIOUS
    <2>4. PICK e \in Rest : \A d \in Rest : e <= d
      <3> HIDE DEF Rest
      <3> QED
        BY <2>2, <2>3, SmallestOf, Zenon
    <2>5. e \in T /\ e \in Nat /\ c \in Nat /\ c < e
      BY <2>4
    <2>6. Under(e) = Under(c) \cup {c}
      <3>1. ASSUME NEW d \in T
            PROVE  d < e <=> d < c \/ d = c
        <4>1. d \in Nat
          OBVIOUS
        <4>2. ~(d < c \/ d = c) => d \in Rest
          OBVIOUS
        <4> HIDE DEF Rest
        <4> QED
          BY <2>4, <2>5, <4>1, <4>2
      <3> QED
        BY <3>1
    <2>7. Cardinality(Under(e)) = j
      <3> HIDE DEF Under
      <3> QED
        BY <1>2, <2>1, <2>6
    <2> HIDE DEF Under
    <2> QED
      BY <2>5, <2>7
  <1>5. N \in Nat /\ k \in 0 .. N
    BY <1>1
  <1>6. 0 .. N \subseteq G
    <2> HIDE DEF G, N
    <2> QED
      BY <1>3, <1>4, <1>5, UpTo
  <1>7. PICK c \in T : Cardinality(Under(c)) = k
    BY <1>5, <1>6
  <1> QED
    BY <1>7 DEF Rank

\* The places of a file where its pieces end.
Cuts(f) == {0, Len(f) + 1} \cup {i \in DOMAIN f : f[i] = NL}
CutAt(f, k) == CHOOSE c \in Cuts(f) : Rank(Cuts(f), c) = k

LEMMA CutsFacts ==
    ASSUME NEW f \in Str
    PROVE  /\ Cuts(f) \subseteq 0 .. Len(f) + 1 /\ Cuts(f) \subseteq Nat
           /\ 0 \in Cuts(f) /\ Len(f) + 1 \in Cuts(f)
           /\ IsFiniteSet(Cuts(f)) /\ Cardinality(Cuts(f)) \in Nat
           /\ Cardinality(Cuts(f)) >= 2
  <1>1. Len(f) \in Nat /\ DOMAIN f = 1 .. Len(f)
    BY StrFacts
  <1>2. /\ Cuts(f) \subseteq 0 .. Len(f) + 1 /\ Cuts(f) \subseteq Nat
        /\ 0 \in Cuts(f) /\ Len(f) + 1 \in Cuts(f)
    BY <1>1 DEF Cuts
  <1>3. IsFiniteSet(Cuts(f)) /\ Cardinality(Cuts(f)) \in Nat
    <2>1. Len(f) + 1 \in Nat /\ \A s \in Cuts(f) : s <= Len(f) + 1
      BY <1>1, <1>2
    <2>2. IsFiniteSet(Cuts(f))
      BY <1>2, <2>1, FS_BoundedSetOfNaturals
    <2> QED
      BY <2>2, FS_CardinalityType
  <1>4. Cardinality(Cuts(f)) >= 2
    <2> DEFINE Z == {0}
               e == Len(f) + 1
    <2>0. e \notin Z
      BY <1>1
    <2>1. IsFiniteSet(Z) /\ Cardinality(Z) = 1
      BY FS_Singleton, Zenon
    <2>2. Cardinality(Z \cup {e}) = 2
      <3> HIDE DEF Z, e
      <3>1. Cardinality(Z \cup {e}) = IF e \in Z THEN Cardinality(Z) ELSE Cardinality(Z) + 1
        BY <2>1, FS_AddElement, Zenon
      <3> QED
        BY <2>0, <2>1, <3>1
    <2>3. {0} \cup {Len(f) + 1} \in SUBSET Cuts(f)
      BY <1>2
    <2>4. Cardinality({0} \cup {Len(f) + 1}) <= Cardinality(Cuts(f))
      BY <1>3, <2>3, FS_Subset
    <2> QED
      BY <1>3, <2>2, <2>4
  <1> QED
    BY <1>2, <1>3, <1>4

LEMMA PiecesFacts ==
    ASSUME NEW f \in Str, NEW ps, ps = Pieces(f)
    PROVE  /\ ps = [k \in 1 .. Cardinality(Cuts(f)) - 1 |->
                      SubSeq(f, CutAt(f, k - 1) + 1, CutAt(f, k) - 1)]
           /\ ps \in Seq(Str) /\ Len(ps) \in Nat /\ Len(ps) >= 1
           /\ \A i \in 1 .. Len(ps) : ps[i] \in Str
  <1> DEFINE n == Cardinality(Cuts(f)) - 1
  <1>1. ps = [k \in 1 .. n |-> SubSeq(f, CutAt(f, k - 1) + 1, CutAt(f, k) - 1)]
    BY DEF Pieces, CutAt, Cuts, Rank
  <1>2. n \in Nat /\ n >= 1
    BY CutsFacts
  <1>3. ASSUME NEW k \in 0 .. n
        PROVE  CutAt(f, k) \in 0 .. Len(f) + 1
    <2>1. k \in Nat /\ k < Cardinality(Cuts(f))
      BY CutsFacts
    <2>2. \E c \in Cuts(f) : Rank(Cuts(f), c) = k
      BY <2>1, CutsFacts, RankExists
    <2>3. CutAt(f, k) \in Cuts(f)
      BY <2>2 DEF CutAt
    <2> QED
      BY <2>3, CutsFacts
  <1> HIDE DEF n
  <1>4. ASSUME NEW k \in 1 .. n
        PROVE  SubSeq(f, CutAt(f, k - 1) + 1, CutAt(f, k) - 1) \in Str
    <2>1. k - 1 \in 0 .. n /\ k \in 0 .. n
      BY <1>2
    <2> DEFINE a == CutAt(f, k - 1) + 1
               z == CutAt(f, k) - 1
    <2>2. a \in 1 .. Len(f) + 2 /\ z \in Int /\ z <= Len(f)
      BY <1>3, <2>1, StrFacts
    <2> HIDE DEF a, z
    <2>3. \A i \in a .. z : f[i] \in Char
      BY <2>2, StrFacts
    <2>4. SubSeq(f, a, z) \in Seq(Char)
      BY <2>2, <2>3, SubSeqProperties
    <2> QED
      BY <2>4 DEF a, z, Str
  <1>5. ps \in Seq(Str) /\ Len(ps) = n
    BY <1>1, <1>2, <1>4
  <1> QED
    BY <1>1, <1>2, <1>4, <1>5 DEF n

LEMMA StripFacts ==
    ASSUME NEW s \in Str
    PROVE  /\ StripCR(s) \in Str
           /\ (\A i \in 1 .. Len(s) : s[i] # CR) => StripCR(s) = s
  <1>1. CASE s # << >> /\ s[Len(s)] = CR
    <2>1. StripCR(s) = Take(s, Len(s) - 1)
      BY <1>1 DEF StripCR
    <2>2. Len(s) \in Nat /\ Len(s) # 0
      BY <1>1, StrFacts
    <2>3. Len(s) - 1 \in 0 .. Len(s) /\ Len(s) \in 1 .. Len(s)
      BY <2>2
    <2> QED
      BY <1>1, <2>1, <2>3, TakeFacts
  <1>2. CASE ~(s # << >> /\ s[Len(s)] = CR)
    BY <1>2 DEF StripCR
  <1> QED
    BY <1>1, <1>2

\* What a file is read as: row i of it, and the rows it has.
LoadedCount(ps) == Least(Len(ps), MaxLines)
LoadedRow(ps, i) ==
    IF i < LoadedCount(ps) - 1 THEN CutRow(StripCR(ps[i + 1])) ELSE CutRow(ps[Len(ps)])
LoadedRows(R, ps) ==
    [i \in RowNos |-> IF i < LoadedCount(ps) THEN LoadedRow(ps, i) ELSE R[i]]
LoadedText(f) ==
    IF f = Absent THEN [i \in 1 .. 1 |-> << >>]
    ELSE [i \in 1 .. LoadedCount(Pieces(f)) |-> LoadedRow(Pieces(f), i - 1)]
LoadAs(b, R, n) == [b EXCEPT !.rows = R, !.lcount = n, !.modified = FALSE]

LEMMA BufRows ==
    ASSUME NEW b, b \in ViBufs \/ b \in NanoBufs
    PROVE  /\ b.rows \in Rows /\ DOMAIN b.rows = RowNos /\ b.lcount \in 1 .. MaxLines
           /\ \A i \in RowNos : b.rows[i] \in Fits
  <1>1. b.rows \in Rows /\ b.lcount \in 1 .. MaxLines
    BY DEF ViBufs, NanoBufs
  <1> QED
    BY <1>1, RowFacts

LEMMA LoadedFacts ==
    ASSUME NEW f \in Str, NEW ps, ps = Pieces(f)
    PROVE  /\ LoadedCount(ps) \in 1 .. MaxLines /\ LoadedCount(ps) <= Len(ps)
           /\ \A i \in 0 .. LoadedCount(ps) - 1 : LoadedRow(ps, i) \in Fits
           /\ \A R \in Rows : LoadedRows(R, ps) \in Rows
  <1>1. Len(ps) \in Nat /\ Len(ps) >= 1 /\ \A i \in 1 .. Len(ps) : ps[i] \in Str
    BY PiecesFacts
  <1>2. LoadedCount(ps) \in 1 .. MaxLines /\ LoadedCount(ps) <= Len(ps)
    BY <1>1, Numbers DEF LoadedCount, Least
  <1>3. ASSUME NEW i \in 0 .. LoadedCount(ps) - 1
        PROVE  LoadedRow(ps, i) \in Fits
    <2>1. i + 1 \in 1 .. Len(ps) /\ Len(ps) \in 1 .. Len(ps)
      BY <1>1, <1>2
    <2>2. CutRow(StripCR(ps[i + 1])) \in Fits /\ CutRow(ps[Len(ps)]) \in Fits
      BY <1>1, <2>1, StripFacts, CutRowFacts
    <2> QED
      BY <2>2 DEF LoadedRow
  <1>4. ASSUME NEW R \in Rows
        PROVE  LoadedRows(R, ps) \in Rows
    <2>1. \A i \in RowNos : i < LoadedCount(ps) => i \in 0 .. LoadedCount(ps) - 1
      BY <1>2, Numbers DEF RowNos
    <2>2. \A i \in RowNos : R[i] \in Fits
      BY RowFacts
    <2> QED
      BY <1>3, <2>1, <2>2 DEF LoadedRows, Rows
  <1> QED
    BY <1>2, <1>3, <1>4

LEMMA LoadForm ==
    ASSUME NEW b, b \in ViBufs \/ b \in NanoBufs, NEW f \in Str \cup {Absent}
    PROVE  \E R \in Rows, n \in 1 .. MaxLines :
              /\ Load(b, f) = LoadAs(b, R, n)
              /\ LoadedText(f) = [i \in 1 .. n |-> R[i - 1]]
  <1>1. /\ b.rows \in Rows /\ DOMAIN b.rows = RowNos /\ 0 \in RowNos /\ 1 \in 1 .. MaxLines
        /\ \A i \in RowNos : b.rows[i] \in Fits
    BY BufRows, Numbers DEF RowNos
  <1>2. CASE f = Absent
    <2> DEFINE R == Put(b.rows, 0, << >>)
    <2>1. R \in Rows /\ R[0] = << >>
      BY <1>1, PutRow, StrFacts
    <2>2. Load(b, f) = [b EXCEPT !.rows[0] = << >>, !.lcount = 1, !.modified = FALSE]
      BY <1>2 DEF Load
    <2>3. Load(b, f) = LoadAs(b, R, 1)
      BY <2>2 DEF LoadAs, Put
    <2> HIDE DEF R
    <2>4. [i \in 1 .. 1 |-> R[i - 1]] = [i \in 1 .. 1 |-> << >>]
      BY <2>1
    <2>5. LoadedText(f) = [i \in 1 .. 1 |-> R[i - 1]]
      BY <1>2, <2>4 DEF LoadedText
    <2> QED
      BY <1>1, <2>1, <2>3, <2>5
  <1>3. CASE f \in Str
    <2>1. f # Absent
      BY <1>3, TextBufAssumption DEF Str
    <2> DEFINE ps == Pieces(f)
               n == LoadedCount(ps)
               R == LoadedRows(b.rows, ps)
    <2>2. n \in 1 .. MaxLines /\ R \in Rows
      BY <1>1, <1>3, LoadedFacts
    <2>3. \A i \in DOMAIN b.rows :
            R[i] = IF i < n - 1 THEN CutRow(StripCR(ps[i + 1]))
                   ELSE IF i = n - 1 THEN CutRow(ps[Len(ps)])
                   ELSE b.rows[i]
      <3>1. \A i \in RowNos : R[i] = IF i < n THEN LoadedRow(ps, i) ELSE b.rows[i]
        BY DEF LoadedRows
      <3>2. \A i \in RowNos : i \in Int
        BY Numbers DEF RowNos
      <3>3. n \in Int
        BY <2>2
      <3> HIDE DEF R, n, ps
      <3>4. \A i \in RowNos : LoadedRow(ps, i) = IF i < n - 1 THEN CutRow(StripCR(ps[i + 1]))
                                                 ELSE CutRow(ps[Len(ps)])
        BY DEF LoadedRow, n
      <3> QED
        BY <1>1, <3>1, <3>2, <3>3, <3>4
    <2>4. R = [i \in DOMAIN b.rows |->
                 IF i < n - 1 THEN CutRow(StripCR(ps[i + 1]))
                 ELSE IF i = n - 1 THEN CutRow(ps[Len(ps)])
                 ELSE b.rows[i]]
      <3>1. R \in [RowNos -> Fits]
        BY <2>2 DEF Rows
      <3> HIDE DEF R, n, ps
      <3> QED
        BY <1>1, <2>3, <3>1
    <2>5. Load(b, f) = [b EXCEPT
              !.rows = [i \in DOMAIN b.rows |->
                          IF i < n - 1 THEN CutRow(StripCR(ps[i + 1]))
                          ELSE IF i = n - 1 THEN CutRow(ps[Len(ps)])
                          ELSE b.rows[i]],
              !.lcount = n,
              !.modified = FALSE]
      BY <2>1 DEF Load, LoadedCount, CutRow
    <2>6. Load(b, f) = LoadAs(b, R, n)
      <3> HIDE DEF R, n, ps
      <3> QED
        BY <2>4, <2>5 DEF LoadAs
    <2>7. LoadedText(f) = [i \in 1 .. n |-> R[i - 1]]
      <3>1. LoadedText(f) = [i \in 1 .. n |-> LoadedRow(ps, i - 1)]
        BY <2>1 DEF LoadedText
      <3>2. ASSUME NEW i \in 1 .. n
            PROVE  R[i - 1] = LoadedRow(ps, i - 1)
        <4>1. i - 1 \in RowNos /\ i - 1 < n
          BY <2>2, Numbers DEF RowNos
        <4> QED
          BY <4>1 DEF LoadedRows
      <3> HIDE DEF R, n, ps
      <3> QED
        BY <3>1, <3>2
    <2> HIDE DEF R, n, ps
    <2> QED
      BY <2>2, <2>6, <2>7
  <1> QED
    BY <1>2, <1>3

\* What is loaded into a buffer of vi, and of nano.
LEMMA LoadVi ==
    ASSUME NEW b \in ViBufs, NEW f \in Str \cup {Absent}, NEW d, d = Load(b, f)
    PROVE  /\ d \in ViBufs /\ ~d.modified /\ d.row = b.row /\ d.col = b.col
           /\ d.mode = b.mode /\ d.undo = b.undo /\ d.yank = b.yank /\ d.redo = b.redo
           /\ Text(d) = LoadedText(f)
  <1>1. PICK R \in Rows, n \in 1 .. MaxLines :
           d = LoadAs(b, R, n) /\ LoadedText(f) = [i \in 1 .. n |-> R[i - 1]]
    BY LoadForm
  <1>2. /\ d \in ViBufs /\ ~d.modified /\ d.row = b.row /\ d.col = b.col
        /\ d.mode = b.mode /\ d.undo = b.undo /\ d.yank = b.yank /\ d.redo = b.redo
        /\ d.rows = R /\ d.lcount = n
    BY <1>1, ZenonT(60) DEF LoadAs, ViBufs
  <1> QED
    BY <1>1, <1>2 DEF Text

LEMMA LoadNano ==
    ASSUME NEW b \in NanoBufs, NEW f \in Str \cup {Absent}, NEW d, d = Load(b, f)
    PROVE  /\ d \in NanoBufs /\ ~d.modified /\ d.row = b.row /\ d.col = b.col
           /\ d.ask = b.ask /\ d.torn = b.torn
           /\ Text(d) = LoadedText(f)
  <1>1. PICK R \in Rows, n \in 1 .. MaxLines :
           d = LoadAs(b, R, n) /\ LoadedText(f) = [i \in 1 .. n |-> R[i - 1]]
    BY LoadForm
  <1>2. /\ d \in NanoBufs /\ ~d.modified /\ d.row = b.row /\ d.col = b.col
        /\ d.ask = b.ask /\ d.torn = b.torn
        /\ d.rows = R /\ d.lcount = n
    BY <1>1 DEF LoadAs, NanoBufs
  <1> QED
    BY <1>1, <1>2 DEF Text

\* The same text is loaded into every buffer.
LEMMA LoadText ==
    ASSUME NEW b, b \in ViBufs \/ b \in NanoBufs, NEW f \in Str \cup {Absent}
    PROVE  Text(Load(b, f)) = LoadedText(f)
  BY LoadVi, LoadNano

LEMMA WorksReadFile ==
    ASSUME NEW b, Fit(b), NEW f \in Str \cup {Absent}
    PROVE  Works(b, ReadFile(b, f))
  <1> DEFINE d == ReadFile(b, f)
             ps == Pieces(f)
             at == b.row + 1
             n == Least(Len(ps), MaxLines - at)
             Q == [i \in RowNos |-> IF at <= i /\ i < at + n THEN CutRow(ps[i - b.row])
                                    ELSE IF at + n <= i /\ i < b.lcount + n THEN b.rows[i - n]
                                    ELSE b.rows[i]]
  <1>1. /\ b \in ViBufs /\ b.rows \in Rows /\ DOMAIN b.rows = RowNos
        /\ \A i \in RowNos : b.rows[i] \in Fits
        /\ b.lcount \in 1 .. MaxLines /\ b.row \in RowNos /\ b.row < b.lcount /\ b.col \in Nat
    BY FitFacts, BufFacts, RowFacts
  <1>2. CASE f = Absent \/ b.lcount >= MaxLines
    <2>1. d = b
      BY <1>2 DEF ReadFile
    <2> QED
      BY <2>1, ChgSame, ChgWorks
  <1>3. CASE /\ ~(f = Absent \/ b.lcount >= MaxLines)
             /\ (at < b.lcount /\ b.lcount + n > MaxLines) \/ FillsPast(f, MaxLines - at)
    <2>1. d = Undefined(b)
      BY <1>3 DEF ReadFile
    <2>2. d.mode = "undef"
      BY <1>1, <2>1 DEF Undefined, ViBufs
    <2> QED
      BY <2>2 DEF Works, Ended
  <1>4. CASE /\ ~(f = Absent \/ b.lcount >= MaxLines)
             /\ ~((at < b.lcount /\ b.lcount + n > MaxLines) \/ FillsPast(f, MaxLines - at))
    <2>1. f \in Str /\ Len(ps) \in Nat /\ Len(ps) >= 1 /\ \A i \in 1 .. Len(ps) : ps[i] \in Str
      BY <1>4, PiecesFacts
    <2>2. d = [b EXCEPT
              !.rows = [i \in DOMAIN b.rows |->
                          IF at <= i /\ i < at + n THEN CutRow(ps[i - b.row])
                          ELSE IF at + n <= i /\ i < b.lcount + n THEN b.rows[i - n]
                          ELSE b.rows[i]],
              !.lcount = b.lcount + n,
              !.exact = FALSE,
              !.modified = TRUE]
      BY <1>4 DEF ReadFile, CutRow
    <2>3. /\ at \in Nat /\ at <= b.lcount /\ b.lcount < MaxLines /\ n \in Nat
          /\ n <= Len(ps) /\ n <= MaxLines - at /\ b.lcount + n <= MaxLines
      <3> HIDE DEF ps
      <3> QED
        BY <1>1, <1>4, <2>1, Numbers, SMTT(60) DEF Least, RowNos
    <2> HIDE DEF ps, n, at
    <2>4. ASSUME NEW i \in RowNos
          PROVE  Q[i] \in Fits
      <3>1. i \in Nat
        BY Numbers DEF RowNos
      <3>2. CASE at <= i /\ i < at + n
        <4>1. i - b.row \in 1 .. Len(ps)
          BY <1>1, <2>1, <2>3, <3>1, <3>2, Numbers, SMTT(60) DEF at, RowNos
        <4>2. CutRow(ps[i - b.row]) \in Fits
          BY <2>1, <4>1, CutRowFacts
        <4> QED
          BY <3>2, <4>2
      <3>3. CASE ~(at <= i /\ i < at + n) /\ at + n <= i /\ i < b.lcount + n
        <4>1. i - n \in RowNos
          BY <1>1, <2>3, <3>1, <3>3, Numbers DEF RowNos
        <4> QED
          BY <1>1, <3>3, <4>1
      <3>4. CASE ~(at <= i /\ i < at + n) /\ ~(at + n <= i /\ i < b.lcount + n)
        BY <1>1, <3>4
      <3> QED
        BY <3>2, <3>3, <3>4
    <2>5. Q \in Rows
      BY <2>4 DEF Rows
    <2>6. d = [b EXCEPT !.rows = Q, !.lcount = b.lcount + n, !.exact = FALSE, !.modified = TRUE]
      <3> HIDE DEF d
      <3> QED
        BY <1>1, <2>2
    <2> HIDE DEF Q, d
    <2> DEFINE x == FALSE
               m == b.lcount + n
    <2>7. x \in BOOLEAN /\ ~x /\ m \in 1 .. MaxLines /\ b.row < m
      BY <1>1, <2>3, Numbers DEF RowNos
    <2>8. d = Changed(b, Q, m, b.row, b.col, x)
      BY <1>1, <2>6 DEF Changed, ViBufs
    <2> HIDE DEF x, m
    <2>9. Chg(b, d)
      BY <1>1, <2>5, <2>7, <2>8, ChgEdit
    <2> QED
      BY <2>9, ChgWorks DEF d
  <1> QED
    BY <1>2, <1>3, <1>4

LEMMA BytesForm ==
    ASSUME NEW ls \in Seq(Str)
    PROVE  \E g \in [0 .. Len(ls) -> Str] :
              /\ g[0] = << >> /\ Bytes(ls) = g[Len(ls)]
              /\ \A k \in 1 .. Len(ls) : g[k] = g[k - 1] \o Append(ls[k], NL)
  <1> DEFINE n == Len(ls)
             seqs == [i \in DOMAIN ls |-> Append(ls[i], NL)]
             step == [k \in 1 .. n |-> [acc \in Str |-> acc \o seqs[k]]]
             Body(f) == [i \in 1 .. Len(seqs) |-> IF i = 1 THEN seqs[i] ELSE f[i - 1] \o seqs[i]]
             flatten == CHOOSE f : f = Body(f)
  <1>1. n \in Nat /\ DOMAIN ls = 1 .. n /\ \A i \in 1 .. n : ls[i] \in Str
    OBVIOUS
  <1>2. \A i \in 1 .. n : Append(ls[i], NL) \in Str
    BY <1>1, AddFacts, Blanks
  <1>3. seqs \in Seq(Str) /\ Len(seqs) = n
    BY <1>1, <1>2
  <1>4. \A i \in 1 .. n : seqs[i] = Append(ls[i], NL) /\ seqs[i] \in Str
    BY <1>1, <1>2
  <1>5. Bytes(ls) = IF n = 0 THEN seqs ELSE flatten[n]
    <2>1. Bytes(ls) = FlattenSeq(seqs)
      BY DEF Bytes
    <2>2. FlattenSeq(seqs) = IF Len(seqs) = 0 THEN seqs ELSE flatten[Len(seqs)]
      BY DEF FlattenSeq
    <2> HIDE DEF seqs, flatten
    <2> QED
      BY <1>3, <2>1, <2>2
  <1> HIDE DEF seqs, n
  <1>6. step \in [1 .. n -> [Str -> Str]]
    BY <1>4, JoinFacts
  <1>7. \E g : Turns(g, n, Str, << >>, step)
    <2> HIDE DEF step
    <2> QED
      BY <1>1, <1>6, StrFacts, LoopExists
  <1>8. PICK g : Turns(g, n, Str, << >>, step)
    BY <1>7
  <1>9. g \in [0 .. n -> Str] /\ g[0] = << >> /\ \A k \in 1 .. n : g[k] = step[k][g[k - 1]]
    BY <1>8 DEF Turns
  <1>10. ASSUME NEW k \in 1 .. n
         PROVE  g[k] = g[k - 1] \o seqs[k] /\ g[k - 1] \in Str
    <2>1. k - 1 \in 0 .. n
      BY <1>1
    <2>2. g[k - 1] \in Str
      BY <1>9, <2>1
    <2> QED
      BY <1>9, <2>2
  <1>11. Bytes(ls) = g[n]
    <2>1. CASE n = 0
      <3>1. seqs = << >>
        BY <1>3, <2>1
      <3> QED
        BY <1>5, <1>9, <2>1, <3>1
    <2>2. CASE n # 0
      <3>1. 1 \in 1 .. n /\ n \in 1 .. n
        BY <1>1, <2>2
      <3>2. g[1] = seqs[1]
        <4> HIDE DEF step, Body, flatten
        <4>1. ASSUME NEW k \in 1 .. n, k = 1
              PROVE  g[k] = g[0] \o seqs[k]
          <5>1. k - 1 = 0
            BY <4>1
          <5> QED
            BY <1>10, <5>1
        <4>2. g[1] = << >> \o seqs[1]
          BY <1>9, <3>1, <4>1
        <4>3. seqs[1] \in Str
          BY <1>4, <3>1
        <4>4. \A s : s \in Seq(Char) => << >> \o s = s
          BY ConcatEmptySeq
        <4> QED
          BY <4>2, <4>3, <4>4 DEF Str
      <3> DEFINE h == [i \in 1 .. n |-> g[i]]
      <3>3. h = Body(h)
        <4>1. ASSUME NEW i \in 1 .. n
              PROVE  h[i] = IF i = 1 THEN seqs[i] ELSE h[i - 1] \o seqs[i]
          <5>1. CASE i = 1
            BY <3>2, <5>1
          <5>2. CASE i # 1
            <6>1. i - 1 \in 1 .. n
              BY <1>1, <5>2
            <6>2. h[i - 1] = g[i - 1] /\ h[i] = g[i]
              BY <6>1
            <6> HIDE DEF h
            <6> QED
              BY <1>10, <5>2, <6>2
          <5> QED
            BY <5>1, <5>2
        <4>2. h = [i \in 1 .. n |-> h[i]]
          OBVIOUS
        <4> HIDE DEF h
        <4> QED
          BY <1>3, <4>1, <4>2
      <3>4. flatten = Body(flatten)
        <4> HIDE DEF Body, h
        <4> QED
          BY <3>3
      <3> HIDE DEF flatten, h
      <3>5. \A i \in 1 .. n : flatten[i] = IF i = 1 THEN seqs[i] ELSE flatten[i - 1] \o seqs[i]
        BY <1>3, <3>4
      <3> DEFINE G == {k \in 0 .. n : k > 0 => flatten[k] = g[k]}
      <3>6. 0 \in G
        BY <1>1
      <3>7. ASSUME NEW k \in 1 .. n, k - 1 \in G
            PROVE  k \in G
        <4>1. CASE k = 1
          BY <1>1, <3>2, <3>5, <4>1
        <4>2. CASE k # 1
          <5>1. flatten[k - 1] = g[k - 1]
            BY <1>1, <3>7, <4>2
          <5>2. flatten[k] = g[k]
            BY <1>10, <3>5, <4>2, <5>1
          <5> QED
            BY <1>1, <5>2
        <4> QED
          BY <4>1, <4>2
      <3>8. 0 .. n \subseteq G
        <4> HIDE DEF G
        <4> QED
          BY <1>1, <3>6, <3>7, UpTo
      <3>9. flatten[n] = g[n]
        BY <1>1, <2>2, <3>8
      <3> QED
        BY <1>5, <2>2, <3>9
    <2> QED
      BY <2>1, <2>2
  <1>12. \A k \in 1 .. n : g[k] = g[k - 1] \o Append(ls[k], NL)
    BY <1>4, <1>10
  <1> QED
    BY <1>9, <1>11, <1>12 DEF n

LEMMA BytesStr ==
    ASSUME NEW ls \in Seq(Str)
    PROVE  Bytes(ls) \in Str
  <1>1. PICK g \in [0 .. Len(ls) -> Str] : Bytes(ls) = g[Len(ls)]
    BY BytesForm
  <1>2. Len(ls) \in 0 .. Len(ls)
    OBVIOUS
  <1> QED
    BY <1>1, <1>2

\* The lines of either editor are what a save writes.
LEMMA TextStr ==
    ASSUME NEW b, b \in ViBufs \/ b \in NanoBufs
    PROVE  /\ Text(b) \in Seq(Fits) /\ Text(b) \in Seq(Str) /\ Len(Text(b)) = b.lcount
           /\ b.lcount \in 1 .. MaxLines
           /\ \A i \in 1 .. b.lcount : Text(b)[i] = b.rows[i - 1] /\ Text(b)[i] \in Fits
  <1>1. b.lcount \in 1 .. MaxLines /\ \A i \in RowNos : b.rows[i] \in Fits
    BY BufRows
  <1>2. \A i \in 1 .. b.lcount : b.rows[i - 1] \in Fits
    BY <1>1, Numbers DEF RowNos
  <1>3. Text(b) \in Seq(Fits) /\ Len(Text(b)) = b.lcount
    BY <1>1, <1>2 DEF Text
  <1>4. Text(b) \in Seq(Str)
    BY <1>1, <1>2, StrFacts DEF Text
  <1> QED
    BY <1>1, <1>2, <1>3, <1>4 DEF Text

LEMMA SavedBytes ==
    ASSUME NEW b, b \in ViBufs \/ b \in NanoBufs
    PROVE  /\ NanoBytes(b) \in Str /\ ViBytes(b) \in Str
           /\ \A f \in NanoSaved(b) : f \in Str
  <1> DEFINE ls == Text(b)
  <1>1. ls \in Seq(Str) /\ Len(ls) >= 1 /\ Len(ls) \in Nat
    BY TextStr
  <1> HIDE DEF ls
  <1>2. Bytes(ls) \in Str
    BY <1>1, BytesStr
  <1>3. Take(ls, Len(ls) - 1) \in Seq(Str)
    <2>1. Len(ls) - 1 \in Int /\ 1 \in Int /\ \A i \in 1 .. Len(ls) - 1 : ls[i] \in Str
      BY <1>1
    <2>2. SubSeq(ls, 1, Len(ls) - 1) \in Seq(Str)
      BY <1>1, <2>1, SubSeqProperties
    <2> QED
      BY <2>2 DEF Take
  <1>4. Bytes(Take(ls, Len(ls) - 1)) \in Str
    BY <1>3, BytesStr
  <1>5. NanoBytes(b) \in Str /\ ViBytes(b) \in Str
    BY <1>2, <1>4 DEF NanoBytes, ViBytes, ls
  <1>6. ASSUME NEW f \in NanoSaved(b)
        PROVE  f \in Str
    <2>1. PICK n \in 0 .. Len(NanoBytes(b)) : f = Take(NanoBytes(b), n)
      BY DEF NanoSaved
    <2> QED
      BY <1>5, <2>1, TakeFacts
  <1> QED
    BY <1>5, <1>6

\* The k-th of the numbers C[0] < C[1] < ... is the one of rank k.
Ascends(C, m, T) ==
    /\ C \in [0 .. m -> Nat] /\ \A j, k \in 0 .. m : j < k => C[j] < C[k]
    /\ T = {C[k] : k \in 0 .. m}

LEMMA RankOf ==
    ASSUME NEW m \in Nat, NEW C, NEW T, Ascends(C, m, T)
    PROVE  /\ Cardinality(T) = m + 1
           /\ \A k \in 0 .. m : /\ Rank(T, C[k]) = k
                                /\ \A c \in T : Rank(T, c) = k => c = C[k]
  <1> DEFINE Pre(k) == {C[j] : j \in 0 .. k - 1}
             G == {k \in 0 .. m + 1 : IsFiniteSet(Pre(k)) /\ Cardinality(Pre(k)) = k}
  <1> USE DEF Ascends
  <1>1. 0 \in G
    <2>1. Pre(0) = {}
      OBVIOUS
    <2>2. IsFiniteSet(Pre(0)) /\ Cardinality(Pre(0)) = 0
      <3> HIDE DEF Pre
      <3> QED
        BY <2>1, FS_EmptySet, Zenon
    <2> HIDE DEF Pre
    <2> QED
      BY <2>2
  <1>2. ASSUME NEW k \in 1 .. m + 1, k - 1 \in G
        PROVE  k \in G
    <2> DEFINE q == k - 1
               x == C[k - 1]
    <2>1. q \in 0 .. m /\ k - 1 = q
      OBVIOUS
    <2>2. Pre(k) = Pre(q) \cup {x}
      <3>1. 0 .. k - 1 = (0 .. q - 1) \cup {q}
        BY <2>1
      <3> QED
        BY <3>1
    <2>3. x \notin Pre(q)
      <3>1. \A j \in 0 .. q - 1 : j \in 0 .. m /\ j < q
        BY <2>1
      <3>2. \A j \in 0 .. q - 1 : C[j] < C[q] /\ C[j] \in Nat /\ C[q] \in Nat
        BY <2>1, <3>1
      <3>3. \A j \in 0 .. q - 1 : C[j] # C[q]
        BY <3>2
      <3> HIDE DEF q
      <3> QED
        BY <2>1, <3>3
    <2> HIDE DEF Pre, x
    <2>4. IsFiniteSet(Pre(q)) /\ Cardinality(Pre(q)) = q
      BY <1>2
    <2>5. /\ IsFiniteSet(Pre(q) \cup {x})
          /\ Cardinality(Pre(q) \cup {x}) =
               IF x \in Pre(q) THEN Cardinality(Pre(q)) ELSE Cardinality(Pre(q)) + 1
      BY <2>4, FS_AddElement, Zenon
    <2>6. IsFiniteSet(Pre(k)) /\ Cardinality(Pre(k)) = k
      BY <2>1, <2>2, <2>3, <2>4, <2>5
    <2> QED
      BY <2>6
  <1>3. 0 .. m + 1 \subseteq G
    <2>1. m + 1 \in Nat
      OBVIOUS
    <2> HIDE DEF G
    <2> QED
      BY <1>1, <1>2, <2>1, UpTo
  <1>4. T = Pre(m + 1)
    OBVIOUS
  <1>5. Cardinality(T) = m + 1
    <2>1. m + 1 \in G
      BY <1>3
    <2> HIDE DEF Pre
    <2> QED
      BY <1>4, <2>1
  <1>6. ASSUME NEW k \in 0 .. m
        PROVE  Rank(T, C[k]) = k
    <2>1. ASSUME NEW j \in 0 .. m
          PROVE  C[j] < C[k] <=> j < k
      <3>1. C[j] \in Nat /\ C[k] \in Nat /\ (j < k => C[j] < C[k]) /\ (k < j => C[k] < C[j])
        OBVIOUS
      <3>2. j = k => C[j] = C[k]
        OBVIOUS
      <3> QED
        BY <3>1, <3>2
    <2>2. {d \in T : d < C[k]} = Pre(k)
      <3>1. ASSUME NEW d \in T, d < C[k]
            PROVE  d \in Pre(k)
        <4>1. PICK j \in 0 .. m : d = C[j]
          OBVIOUS
        <4>2. j \in 0 .. k - 1
          BY <2>1, <3>1, <4>1
        <4> QED
          BY <4>1, <4>2
      <3>2. ASSUME NEW d \in Pre(k)
            PROVE  d \in T /\ d < C[k]
        <4>1. PICK j \in 0 .. k - 1 : d = C[j]
          OBVIOUS
        <4>2. j \in 0 .. m /\ j < k
          OBVIOUS
        <4> QED
          BY <2>1, <4>1, <4>2
      <3> HIDE DEF Pre
      <3> QED
        BY <3>1, <3>2
    <2>3. k \in G
      <3>1. k \in 0 .. m + 1
        OBVIOUS
      <3> HIDE DEF G
      <3> QED
        BY <1>3, <3>1
    <2> HIDE DEF Pre
    <2> QED
      BY <2>2, <2>3 DEF Rank
  <1>7. ASSUME NEW k \in 0 .. m, NEW c \in T, Rank(T, c) = k
        PROVE  c = C[k]
    <2>1. PICK j \in 0 .. m : c = C[j]
      OBVIOUS
    <2>2. Rank(T, C[j]) = j
      BY <1>6
    <2> QED
      BY <1>7, <2>1, <2>2
  <1> QED
    BY <1>5, <1>6, <1>7

\* The pieces of what is written are the lines, and an empty one.
LEMMA PiecesBytes ==
    ASSUME NEW ls \in Seq(Str),
           \A k \in 1 .. Len(ls) : \A i \in 1 .. Len(ls[k]) : ls[k][i] # NL,
           NEW ps, ps = Pieces(Bytes(ls))
    PROVE  /\ Len(ps) = Len(ls) + 1 /\ ps[Len(ls) + 1] = << >>
           /\ \A k \in 1 .. Len(ls) : ps[k] = ls[k]
  <1> DEFINE n == Len(ls)
             f == Bytes(ls)
  <1>1. n \in Nat /\ \A k \in 1 .. n : ls[k] \in Str /\ Len(ls[k]) \in Nat
    BY StrFacts
  <1>2. PICK g \in [0 .. n -> Str] :
           /\ g[0] = << >> /\ f = g[n]
           /\ \A k \in 1 .. n : g[k] = g[k - 1] \o Append(ls[k], NL)
    BY BytesForm
  <1>3. f \in Str
    BY BytesStr
  <1> DEFINE L(k) == Len(g[k])
  <1> HIDE DEF n, f
  <1>4. \A k \in 0 .. n : L(k) \in Nat
    BY <1>2, StrFacts
  <1>5. L(0) = 0
    BY <1>2
  <1>6. ASSUME NEW k \in 1 .. n
        PROVE  /\ k - 1 \in 0 .. n /\ L(k) = L(k - 1) + Len(ls[k]) + 1
               /\ \A p \in 1 .. L(k - 1) : g[k][p] = g[k - 1][p]
               /\ \A i \in 1 .. Len(ls[k]) : g[k][L(k - 1) + i] = ls[k][i]
               /\ g[k][L(k)] = NL
    <2> DEFINE s == g[k - 1]
               t == Append(ls[k], NL)
    <2>1. k - 1 \in 0 .. n /\ s \in Str /\ ls[k] \in Str /\ Len(ls[k]) \in Nat
      BY <1>1, <1>2
    <2>2. t \in Str /\ Len(t) = Len(ls[k]) + 1 /\ t[Len(ls[k]) + 1] = NL
          /\ \A i \in 1 .. Len(ls[k]) : t[i] = ls[k][i]
      BY <2>1, AddFacts, Blanks
    <2>3. g[k] = s \o t
      BY <1>2
    <2>4. Len(s) \in Nat
      BY <2>1, StrFacts
    <2> HIDE DEF s, t
    <2>5. /\ Len(g[k]) = Len(s) + Len(t)
          /\ \A i \in 1 .. Len(s) + Len(t) : g[k][i] = IF i <= Len(s) THEN s[i] ELSE t[i - Len(s)]
      <3>1. /\ Len(s \o t) = Len(s) + Len(t)
            /\ \A i \in 1 .. Len(s) + Len(t) :
                  (s \o t)[i] = IF i <= Len(s) THEN s[i] ELSE t[i - Len(s)]
        BY <2>1, <2>2, JoinFacts, Zenon
      <3> QED
        BY <2>3, <3>1, Zenon
    <2>6. L(k) = Len(s) + Len(ls[k]) + 1
      BY <2>1, <2>2, <2>4, <2>5
    <2>7. ASSUME NEW p \in 1 .. Len(s)
          PROVE  g[k][p] = s[p]
      <3>1. p \in 1 .. Len(s) + Len(t) /\ p <= Len(s)
        BY <2>1, <2>2, <2>4
      <3> QED
        BY <2>5, <3>1, Zenon
    <2>8. \A i \in 1 .. Len(ls[k]) : g[k][Len(s) + i] = ls[k][i]
      <3>1. \A i \in 1 .. Len(ls[k]) : /\ Len(s) + i \in 1 .. Len(s) + Len(t)
                                       /\ ~(Len(s) + i <= Len(s)) /\ Len(s) + i - Len(s) = i
        BY <2>1, <2>2, <2>4
      <3> QED
        BY <2>2, <2>5, <3>1
    <2>9. g[k][L(k)] = NL
      <3>1. /\ L(k) \in 1 .. Len(s) + Len(t) /\ ~(L(k) <= Len(s))
            /\ L(k) - Len(s) = Len(ls[k]) + 1
        BY <2>1, <2>2, <2>4, <2>6
      <3> QED
        BY <2>2, <2>5, <3>1
    <2> QED
      BY <2>1, <2>6, <2>7, <2>8, <2>9 DEF s
  \* The lengths grow.
  <1>7. ASSUME NEW j \in 0 .. n, NEW k \in 0 .. n, j < k
        PROVE  L(j) < L(k)
    <2> DEFINE G == {q \in 0 .. n : j < q => L(j) < L(q)}
    <2>1. 0 \in G
      BY <1>1
    <2>2. ASSUME NEW q \in 1 .. n, q - 1 \in G
          PROVE  q \in G
      <3>1. L(q) = L(q - 1) + Len(ls[q]) + 1 /\ Len(ls[q]) \in Nat /\ q - 1 \in 0 .. n
        BY <1>1, <1>6
      <3>2. L(q - 1) \in Nat /\ L(j) \in Nat /\ L(q) \in Nat
        <4>1. q \in 0 .. n
          BY <1>1
        <4> HIDE DEF L
        <4> QED
          BY <1>4, <3>1, <4>1
      <3>3. j < q - 1 => L(j) < L(q - 1)
        <4> HIDE DEF L
        <4> QED
          BY <2>2
      <3>4. j = q - 1 => L(j) = L(q - 1)
        OBVIOUS
      <3> HIDE DEF L
      <3>5. j < q => L(j) < L(q)
        BY <3>1, <3>2, <3>3, <3>4, SMTT(60)
      <3> QED
        BY <1>1, <3>5
    <2>3. 0 .. n \subseteq G
      <3> HIDE DEF G
      <3> QED
        BY <1>1, <2>1, <2>2, UpTo
    <2> HIDE DEF L
    <2> QED
      BY <1>7, <2>3
  <1> HIDE DEF L
  \* Every line, with its line end, is where it was put.
  <1>8. ASSUME NEW j \in 1 .. n
        PROVE  /\ f[L(j)] = NL
               /\ \A i \in 1 .. Len(ls[j]) : f[L(j - 1) + i] = ls[j][i]
    <2> DEFINE There(q) == /\ g[q][L(j)] = NL
                           /\ \A i \in 1 .. Len(ls[j]) : g[q][L(j - 1) + i] = ls[j][i]
               G == {q \in 0 .. n : j <= q => There(q)}
    <2>1. 0 \in G
      BY <1>1
    <2>2. ASSUME NEW q \in 1 .. n, q - 1 \in G
          PROVE  q \in G
      <3>1. CASE q = j
        <4>1. There(q)
          BY <1>6, <3>1
        <4> HIDE DEF There
        <4> QED
          BY <1>1, <4>1
      <3>2. CASE j < q
        <4>1. There(q - 1) /\ q - 1 \in 0 .. n /\ j \in 0 .. n /\ j - 1 \in 0 .. n
          <5> HIDE DEF There
          <5> QED
            BY <1>1, <2>2, <3>2
        <4>2. /\ L(j) \in Nat /\ L(j - 1) \in Nat /\ L(q - 1) \in Nat /\ Len(ls[j]) \in Nat
              /\ L(j) = L(j - 1) + Len(ls[j]) + 1
          BY <1>1, <1>4, <1>6, <4>1
        <4>3. L(j) <= L(q - 1)
          <5>1. CASE j = q - 1
            BY <4>2, <5>1
          <5>2. CASE j < q - 1
            <6>1. L(j) < L(q - 1)
              BY <1>7, <4>1, <5>2
            <6> QED
              BY <4>2, <6>1
          <5> QED
            BY <3>2, <4>1, <5>1, <5>2
        <4>4. L(j) \in 1 .. L(q - 1) /\ \A i \in 1 .. Len(ls[j]) : L(j - 1) + i \in 1 .. L(q - 1)
          BY <4>2, <4>3, SMTT(60)
        <4>5. \A p \in 1 .. L(q - 1) : g[q][p] = g[q - 1][p]
          BY <1>6
        <4>6. There(q)
          BY <4>1, <4>4, <4>5
        <4> HIDE DEF There
        <4> QED
          BY <1>1, <4>6
      <3>3. CASE ~(j <= q)
        BY <1>1, <3>3
      <3> QED
        BY <1>1, <3>1, <3>2, <3>3
    <2>3. 0 .. n \subseteq G
      <3> HIDE DEF G
      <3> QED
        BY <1>1, <2>1, <2>2, UpTo
    <2>4. There(n)
      <3> HIDE DEF There
      <3> QED
        BY <1>1, <2>3
    <2> QED
      BY <1>2, <2>4
  \* There is nothing else.
  <1>9. ASSUME NEW p \in 1 .. L(n)
        PROVE  \E j \in 1 .. n : p = L(j) \/ \E i \in 1 .. Len(ls[j]) : p = L(j - 1) + i
    <2> DEFINE In(j) == p = L(j) \/ \E i \in 1 .. Len(ls[j]) : p = L(j - 1) + i
               G == {q \in 0 .. n : p <= L(q) => \E j \in 1 .. n : In(j)}
    <2>0. p \in Nat
      <3>1. L(n) \in Nat
        BY <1>1, <1>4
      <3> QED
        BY <3>1
    <2>1. 0 \in G
      BY <1>1, <1>5
    <2>2. ASSUME NEW q \in 1 .. n, q - 1 \in G
          PROVE  q \in G
      <3>1. /\ L(q) = L(q - 1) + Len(ls[q]) + 1 /\ Len(ls[q]) \in Nat /\ q - 1 \in 0 .. n
            /\ L(q - 1) \in Nat
        BY <1>1, <1>4, <1>6
      <3>2. ASSUME p <= L(q), ~(p <= L(q - 1))
            PROVE  In(q)
        <4> DEFINE i == p - L(q - 1)
        <4>1. p = L(q) \/ i \in 1 .. Len(ls[q])
          <5> DEFINE a == L(q - 1)
                     z == L(q)
                     w == Len(ls[q])
          <5>1. z = a + w + 1 /\ w \in Nat /\ a \in Nat /\ p <= z /\ ~(p <= a)
            BY <3>1, <3>2
          <5> HIDE DEF a, z, w, In, G
          <5>2. p = z \/ p - a \in 1 .. w
            BY <2>0, <5>1
          <5> QED
            BY <5>2 DEF a, z, w
        <4>2. p = L(q - 1) + i
          BY <2>0, <3>1
        <4> HIDE DEF i
        <4> QED
          BY <4>1, <4>2
      <3> HIDE DEF In
      <3>3. p <= L(q - 1) => \E j \in 1 .. n : In(j)
        BY <2>2
      <3>4. p <= L(q) => \E j \in 1 .. n : In(j)
        BY <3>2, <3>3
      <3> QED
        BY <1>1, <3>4
    <2>3. 0 .. n \subseteq G
      <3> HIDE DEF G
      <3> QED
        BY <1>1, <2>1, <2>2, UpTo
    <2>4. \E j \in 1 .. n : In(j)
      <3>1. n \in 0 .. n /\ L(n) \in Nat /\ p <= L(n)
        BY <1>1, <1>4
      <3> HIDE DEF In
      <3> QED
        BY <2>3, <3>1
    <2> QED
      BY <2>4
  <1> DEFINE m == n + 1
             C == [k \in 0 .. m |-> IF k <= n THEN L(k) ELSE L(n) + 1]
  <1>10. Len(f) = L(n) /\ L(n) \in Nat /\ m \in Nat /\ n \in 0 .. n
    BY <1>1, <1>2, <1>4 DEF L
  <1>11. C \in [0 .. m -> Nat]
    BY <1>1, <1>4, <1>10
  <1>12. ASSUME NEW j \in 0 .. m, NEW k \in 0 .. m, j < k
         PROVE  C[j] < C[k]
    <2>1. j \in 0 .. n /\ C[j] = L(j) /\ L(j) \in Nat
      BY <1>1, <1>4, <1>12
    <2>2. CASE k <= n
      <3>1. k \in 0 .. n /\ C[k] = L(k)
        BY <1>1, <2>2
      <3> QED
        BY <1>7, <1>12, <2>1, <3>1
    <2>3. CASE ~(k <= n)
      <3>1. C[k] = L(n) + 1
        BY <2>3
      <3>2. L(j) <= L(n)
        <4>1. CASE j = n
          BY <2>1, <4>1
        <4>2. CASE j # n
          <5>1. j < n
            BY <1>1, <2>1, <4>2
          <5>2. L(j) < L(n)
            BY <1>7, <1>10, <2>1, <5>1
          <5> QED
            BY <1>10, <2>1, <5>2
        <4> QED
          BY <4>1, <4>2
      <3> HIDE DEF C
      <3> QED
        BY <1>10, <2>1, <3>1, <3>2
    <2> QED
      BY <2>2, <2>3
  <1>13. Cuts(f) = {C[k] : k \in 0 .. m}
    <2>1. Cuts(f) = {0, L(n) + 1} \cup {p \in 1 .. L(n) : f[p] = NL}
      BY <1>3, <1>10, StrFacts DEF Cuts
    <2>2. ASSUME NEW c \in Cuts(f)
          PROVE  \E k \in 0 .. m : c = C[k]
      <3>1. CASE c = 0
        <4>1. 0 \in 0 .. m /\ C[0] = 0
          BY <1>1, <1>5
        <4> QED
          BY <3>1, <4>1
      <3>2. CASE c = L(n) + 1
        <4>1. m \in 0 .. m /\ C[m] = L(n) + 1
          BY <1>1
        <4> QED
          BY <3>2, <4>1
      <3>3. CASE c \in 1 .. L(n) /\ f[c] = NL
        <4>1. PICK j \in 1 .. n : c = L(j) \/ \E i \in 1 .. Len(ls[j]) : c = L(j - 1) + i
          BY <1>9, <3>3
        <4>2. c = L(j)
          <5>1. SUFFICES ASSUME NEW i \in 1 .. Len(ls[j]), c = L(j - 1) + i
                         PROVE  FALSE
            BY <4>1
          <5>2. f[c] = ls[j][i]
            BY <1>8, <5>1
          <5>3. ls[j][i] # NL
            BY DEF n
          <5> QED
            BY <3>3, <5>2, <5>3
        <4>3. j \in 0 .. m /\ C[j] = L(j)
          BY <1>1
        <4> QED
          BY <4>2, <4>3
      <3> QED
        BY <2>1, <3>1, <3>2, <3>3
    <2>3. ASSUME NEW k \in 0 .. m
          PROVE  C[k] \in Cuts(f)
      <3>1. CASE k = 0
        BY <1>1, <1>5, <2>1, <3>1
      <3>2. CASE k = m
        <4>1. C[k] = L(n) + 1
          BY <1>1, <3>2
        <4> QED
          BY <2>1, <4>1
      <3>3. CASE k # 0 /\ k # m
        <4>1. k \in 1 .. n /\ C[k] = L(k) /\ 0 \in 0 .. n /\ k \in 0 .. n
          BY <1>1, <3>3
        <4>2. f[L(k)] = NL
          BY <1>8, <4>1
        <4>3. L(k) \in 1 .. L(n)
          <5>1. L(0) < L(k)
            BY <1>7, <4>1
          <5>2. L(k) < L(n) \/ k = n
            BY <1>1, <1>7, <1>10, <4>1
          <5> QED
            BY <1>4, <1>5, <1>10, <4>1, <5>1, <5>2
        <4> HIDE DEF C
        <4> QED
          BY <2>1, <4>1, <4>2, <4>3
      <3> QED
        BY <3>1, <3>2, <3>3
    <2> HIDE DEF C
    <2> QED
      BY <2>2, <2>3
  <1>14. /\ Cardinality(Cuts(f)) = m + 1
         /\ \A k \in 0 .. m : /\ Rank(Cuts(f), C[k]) = k
                              /\ \A c \in Cuts(f) : Rank(Cuts(f), c) = k => c = C[k]
    <2> HIDE DEF C, m
    <2> QED
      <3>1. Ascends(C, m, Cuts(f))
        BY <1>11, <1>12, <1>13 DEF Ascends
      <3>2. m \in Nat
        BY <1>10
      <3> QED
        BY <3>1, <3>2, RankOf
  <1>15. ASSUME NEW k \in 0 .. m
         PROVE  CutAt(f, k) = C[k]
    <2> HIDE DEF C
    <2>1. C[k] \in Cuts(f) /\ Rank(Cuts(f), C[k]) = k
      BY <1>13, <1>14
    <2>2. CutAt(f, k) \in Cuts(f) /\ Rank(Cuts(f), CutAt(f, k)) = k
      BY <2>1 DEF CutAt
    <2> QED
      BY <1>14, <2>2
  <1>16. ps = [k \in 1 .. m |-> SubSeq(f, CutAt(f, k - 1) + 1, CutAt(f, k) - 1)]
    <2>1. Cardinality(Cuts(f)) - 1 = m
      BY <1>10, <1>14
    <2> QED
      BY <1>3, <2>1, PiecesFacts DEF f
  <1>17. ASSUME NEW k \in 1 .. n
         PROVE  ps[k] = ls[k]
    <2>1. k \in 1 .. m /\ k - 1 \in 0 .. m /\ k \in 0 .. m /\ k \in 0 .. n /\ k - 1 \in 0 .. n
      BY <1>1
    <2>2. C[k - 1] = L(k - 1) /\ C[k] = L(k)
      BY <1>1, <2>1
    <2>3. ps[k] = SubSeq(f, L(k - 1) + 1, L(k) - 1)
      <3> HIDE DEF C, m
      <3>1. CutAt(f, k - 1) = L(k - 1) /\ CutAt(f, k) = L(k)
        BY <1>15, <2>1, <2>2
      <3> QED
        BY <1>16, <2>1, <3>1
    <2> DEFINE a == L(k - 1)
               w == Len(ls[k])
    <2>4. /\ L(k) - 1 = a + w /\ a \in Nat /\ w \in Nat /\ a + w <= Len(f) /\ ls[k] \in Str
          /\ \A i \in 1 .. w : f[a + i] = ls[k][i]
      <3>1. L(k) = a + w + 1 /\ a \in Nat /\ w \in Nat /\ L(k) \in Nat /\ ls[k] \in Str
        BY <1>1, <1>4, <1>6, <2>1
      <3>2. L(k) < L(n) \/ k = n
        BY <1>1, <1>7, <1>10, <2>1
      <3>3. L(k) <= L(n)
        BY <1>10, <3>1, <3>2
      <3>4. \A i \in 1 .. w : f[a + i] = ls[k][i]
        BY <1>8
      <3> HIDE DEF a, w
      <3>5. L(k) - 1 = a + w /\ a + w <= Len(f)
        BY <1>10, <3>1, <3>3
      <3> QED
        BY <3>1, <3>4, <3>5
    <2> DEFINE s == SubSeq(f, a + 1, a + w)
    <2>5. ps[k] = s
      BY <2>3, <2>4
    <2> HIDE DEF a, w
    <2>6. Len(f) \in Nat /\ \A i \in 1 .. Len(f) : f[i] \in Char
      BY <1>3, StrFacts
    <2>7. s \in Str /\ Len(s) = w /\ \A i \in 1 .. w : s[i] = f[a + i]
      <3>1. a + 1 \in Int /\ a + w \in Int /\ \A i \in a + 1 .. a + w : f[i] \in Char
        BY <2>4, <2>6
      <3>2. /\ SubSeq(f, a + 1, a + w) \in Seq(Char)
            /\ Len(SubSeq(f, a + 1, a + w)) =
                 IF a + 1 <= a + w THEN (a + w) - (a + 1) + 1 ELSE 0
            /\ \A i \in 1 .. (a + w) - (a + 1) + 1 : SubSeq(f, a + 1, a + w)[i] = f[a + 1 + i - 1]
        BY <3>1, SubSeqProperties
      <3> HIDE DEF s
      <3>3. s \in Seq(Char) /\ Len(s) = w
        BY <2>4, <3>2 DEF s
      <3>4. ASSUME NEW i \in 1 .. w
            PROVE  s[i] = f[a + i]
        <4>1. i \in 1 .. (a + w) - (a + 1) + 1 /\ a + 1 + i - 1 = a + i
          BY <2>4
        <4> QED
          BY <3>2, <4>1 DEF s
      <3> QED
        BY <3>3, <3>4 DEF Str
    <2> HIDE DEF s
    <2>8. Len(s) = Len(ls[k]) /\ \A i \in 1 .. Len(s) : s[i] = ls[k][i]
      BY <2>4, <2>7 DEF w
    <2>9. s = ls[k]
      BY <2>4, <2>7, <2>8, SameStr
    <2> QED
      BY <2>5, <2>9
  <1>18. ps[m] = << >>
    <2>1. m \in 1 .. m /\ m - 1 \in 0 .. m /\ m \in 0 .. m /\ m - 1 = n
      BY <1>1
    <2>2. C[n] = L(n) /\ C[m] = L(n) + 1 /\ n \in 0 .. m
      BY <1>1
    <2>3. CutAt(f, n) = L(n) /\ CutAt(f, m) = L(n) + 1
      BY <1>15, <2>1, <2>2
    <2>4. ps[m] = SubSeq(f, CutAt(f, m - 1) + 1, CutAt(f, m) - 1)
      <3> HIDE DEF m
      <3> QED
        BY <1>16, <2>1
    <2>5. L(n) + 1 - 1 = L(n)
      BY <1>10
    <2>6. ps[m] = SubSeq(f, L(n) + 1, L(n))
      BY <2>1, <2>3, <2>4, <2>5
    <2> QED
      BY <1>3, <1>10, <2>6
  <1>19. Len(ps) = m
    <2> HIDE DEF m
    <2> QED
      BY <1>10, <1>16
  <1> QED
    BY <1>17, <1>18, <1>19 DEF n

\* Lines without line ends and carriage returns come back from what is written.
Plain(ls) == \A k \in 1 .. Len(ls) : \A i \in 1 .. Len(ls[k]) : ls[k][i] \notin {NL, CR}

LEMMA LoadedBytes ==
    ASSUME NEW ls \in Seq(Fits), Len(ls) < MaxLines, Plain(ls),
           NEW t, t = LoadedText(Bytes(ls))
    PROVE  /\ t \in Seq(Fits) /\ Len(t) = Len(ls) + 1 /\ t[Len(ls) + 1] = << >>
           /\ \A k \in 1 .. Len(ls) : t[k] = ls[k]
  <1> DEFINE n == Len(ls)
             f == Bytes(ls)
             ps == Pieces(f)
  <1>1. n \in Nat /\ \A k \in 1 .. n : ls[k] \in Fits /\ ls[k] \in Str
    BY StrFacts
  <1>2. ls \in Seq(Str)
    BY StrFacts
  <1>3. f \in Str /\ f # Absent
    BY <1>2, BytesStr, TextBufAssumption DEF Str
  <1>4. Len(ps) = n + 1 /\ ps[n + 1] = << >> /\ \A k \in 1 .. n : ps[k] = ls[k]
    <2>1. \A k \in 1 .. Len(ls) : \A i \in 1 .. Len(ls[k]) : ls[k][i] # NL
      BY DEF Plain
    <2> QED
      BY <1>2, <2>1, PiecesBytes
  <1>5. LoadedCount(ps) = n + 1
    <2> HIDE DEF ps
    <2> QED
      BY <1>1, <1>4, Numbers DEF LoadedCount, Least, n
  <1>6. t = [i \in 1 .. n + 1 |-> LoadedRow(ps, i - 1)]
    BY <1>3, <1>5 DEF LoadedText
  <1>7. ASSUME NEW k \in 1 .. n
        PROVE  LoadedRow(ps, k - 1) = ls[k]
    <2>1. ps[k - 1 + 1] = ls[k] /\ k - 1 < n + 1 - 1
      BY <1>1, <1>4
    <2>2. LoadedRow(ps, k - 1) = CutRow(StripCR(ls[k]))
      <3> HIDE DEF ps
      <3> QED
        BY <1>5, <2>1 DEF LoadedRow
    <2>3. StripCR(ls[k]) = ls[k]
      <3>1. \A i \in 1 .. Len(ls[k]) : ls[k][i] # CR
        BY DEF Plain
      <3> QED
        BY <1>1, <3>1, StripFacts
    <2> QED
      BY <1>1, <2>2, <2>3, CutRowFacts
  <1>8. LoadedRow(ps, n) = << >>
    <2>1. LoadedRow(ps, n) = CutRow(ps[Len(ps)])
      <3> HIDE DEF ps
      <3> QED
        BY <1>1, <1>5 DEF LoadedRow
    <2>2. ps[Len(ps)] = << >>
      <3> HIDE DEF ps
      <3> QED
        BY <1>4
    <2> QED
      BY <2>1, <2>2, StrFacts, CutRowFacts
  <1> HIDE DEF ps, n, f
  <1>9. n + 1 \in 1 .. n + 1 /\ \A k \in 1 .. n : k \in 1 .. n + 1
    BY <1>1
  <1>10. t[n + 1] = << >> /\ \A k \in 1 .. n : t[k] = ls[k]
    <2>1. \A i \in 1 .. n + 1 : t[i] = LoadedRow(ps, i - 1)
      BY <1>6
    <2>2. t[n + 1] = LoadedRow(ps, n)
      <3> DEFINE m == n + 1
      <3>1. m \in 1 .. n + 1
        BY <1>9
      <3> HIDE DEF m
      <3>2. t[m] = LoadedRow(ps, m - 1)
        BY <2>1, <3>1
      <3>3. m - 1 = n /\ m = n + 1
        BY <1>1 DEF m
      <3> QED
        BY <3>2, <3>3
    <2>3. ASSUME NEW k \in 1 .. n
          PROVE  t[k] = ls[k]
      <3>1. k \in 1 .. n + 1 /\ LoadedRow(ps, k - 1) = ls[k]
        BY <1>7, <1>9
      <3> QED
        BY <2>1, <3>1
    <2> QED
      BY <1>8, <2>2, <2>3, Zenon
  <1>11. \A k \in 1 .. n + 1 : t[k] \in Fits
    <2>1. \A k \in 1 .. n + 1 : k \in 1 .. n \/ k = n + 1
      BY <1>1
    <2> QED
      BY <1>1, <1>10, <2>1, StrFacts
  <1>12. t \in Seq(Fits) /\ Len(t) = n + 1
    BY <1>1, <1>6, <1>11
  <1> QED
    BY <1>10, <1>12 DEF n

\* Where the lines that are not empty end.
EndsAt(ls, n) == (n > 0 => ls[n] # << >>) /\ \A i \in n + 1 .. Len(ls) : ls[i] = << >>

LEMMA UnpaddedFacts ==
    ASSUME NEW ls \in Seq(Fits)
    PROVE  \E n \in 0 .. Len(ls) :
              /\ EndsAt(ls, n) /\ Unpadded(ls) = Take(ls, n)
              /\ \A m \in 0 .. Len(ls) : EndsAt(ls, m) => m = n
  <1> DEFINE N == Len(ls)
             T == {0} \cup {i \in 1 .. N : ls[i] # << >>}
  <1>1. N \in Nat
    OBVIOUS
  <1>2. T \subseteq 0 .. N /\ T # {}
    BY <1>1
  <1>3. PICK x \in T : \A y \in T : y <= x
    <2> HIDE DEF T
    <2> QED
      BY <1>1, <1>2, GreatestOf, Zenon
  <1>4. x \in 0 .. N /\ EndsAt(ls, x)
    <2>1. x \in 0 .. N
      BY <1>2
    <2>2. x > 0 => ls[x] # << >>
      BY <1>1
    <2>3. ASSUME NEW i \in x + 1 .. N
          PROVE  ls[i] = << >>
      <3>1. i \in 1 .. N /\ ~(i <= x)
        BY <1>1, <2>1
      <3> QED
        BY <1>3, <3>1
    <2> QED
      BY <2>1, <2>2, <2>3 DEF EndsAt
  <1> HIDE DEF T
  <1>5. ASSUME NEW m \in 0 .. N, NEW k \in 0 .. N, EndsAt(ls, m), EndsAt(ls, k), m < k
        PROVE  FALSE
    <2>1. k \in m + 1 .. N /\ k > 0
      BY <1>1, <1>5
    <2> QED
      BY <1>5, <2>1 DEF EndsAt
  <1>6. \A m \in 0 .. N : EndsAt(ls, m) => m = x
    <2>1. \A m \in 0 .. N : m < x \/ x < m \/ m = x
      BY <1>1, <1>4
    <2> QED
      BY <1>4, <1>5, <2>1
  <1> DEFINE c == CHOOSE n \in 0 .. N : EndsAt(ls, n)
  <1>7. Unpadded(ls) = Take(ls, c)
    BY DEF Unpadded, EndsAt
  <1>8. c = x
    <2> HIDE DEF N
    <2>1. c \in 0 .. N /\ EndsAt(ls, c)
      BY <1>4
    <2> HIDE DEF c
    <2> QED
      BY <1>6, <2>1
  <1> HIDE DEF c
  <1> QED
    BY <1>4, <1>6, <1>7, <1>8

\* An empty line at the end is left aside.
LEMMA UnpaddedSame ==
    ASSUME NEW s \in Seq(Fits), NEW t \in Seq(Fits), Len(t) = Len(s) + 1,
           t[Len(s) + 1] = << >>, \A k \in 1 .. Len(s) : t[k] = s[k]
    PROVE  Unpadded(t) = Unpadded(s)
  <1>1. PICK n \in 0 .. Len(s) :
           /\ EndsAt(s, n) /\ Unpadded(s) = Take(s, n)
           /\ \A m \in 0 .. Len(s) : EndsAt(s, m) => m = n
    BY UnpaddedFacts
  <1>2. PICK m \in 0 .. Len(t) :
           /\ EndsAt(t, m) /\ Unpadded(t) = Take(t, m)
           /\ \A k \in 0 .. Len(t) : EndsAt(t, k) => k = m
    BY UnpaddedFacts
  <1>3. Len(s) \in Nat
    OBVIOUS
  <1>4. n \in 0 .. Len(t) /\ EndsAt(t, n)
    <2>1. n > 0 => t[n] # << >>
      BY <1>1, <1>3 DEF EndsAt
    <2>2. ASSUME NEW i \in n + 1 .. Len(t)
          PROVE  t[i] = << >>
      <3>1. (i \in n + 1 .. Len(s) /\ i \in 1 .. Len(s)) \/ i = Len(s) + 1
        BY <1>3
      <3> QED
        BY <1>1, <3>1 DEF EndsAt
    <2> QED
      BY <1>3, <2>1, <2>2 DEF EndsAt
  <1>5. m = n
    BY <1>2, <1>4
  <1>6. Take(t, n) = Take(s, n)
    <2>1. \A i \in 1 .. n : t[i] = s[i] /\ t[i] \in Fits
      BY <1>3
    <2>2. Take(t, n) = [i \in 1 .. n |-> t[i]]
      BY <1>3, <1>4 DEF Take
    <2>3. Take(s, n) = [i \in 1 .. n |-> s[i]]
      BY <1>3 DEF Take
    <2> QED
      BY <2>1, <2>2, <2>3
  <1> QED
    BY <1>1, <1>2, <1>5, <1>6

----------------------------------------------------------------------------
(* The keys of vi *)

LEMMA WorksTrans ==
    ASSUME NEW b, NEW u, NEW d, Chg(b, u), Works(u, d)
    PROVE  Works(b, d)
  BY DEF Works, Chg, Still

\* Where the cursor may be taken, or not.
LEMMA PlaceGoes ==
    ASSUME NEW b, Fit(b), NEW r \in 0 .. b.lcount - 1, NEW c \in Nat
    PROVE  Goes(b, [b EXCEPT !.row = r, !.col = c])
  BY DEF Goes

LEMMA MotionsGo ==
    ASSUME NEW b, Fit(b), Placed(b), NEW d \in Motions(b)
    PROVE  Goes(b, d)
  <1>1. Ready(b)
    BY DEF Ready, Fit
  <1>2. CASE d \in {Up(b), Down(b), Left(b), Right(b)}
    BY <1>1, <1>2, UpDown, LeftRight, SMTT(60)
  <1>3. CASE d \in {[b EXCEPT !.col = 0], FirstNonBlank(b), LineEnd(b),
                    [b EXCEPT !.row = b.lcount - 1, !.col = 0]}
    BY <1>3, LineMotionFacts
  <1>4. CASE d \in {WordFwd(b), WordBack(b)}
    BY <1>4, WordFacts, SMTT(60)
  <1>5. CASE d \in WindowTop(b) \cup WindowRows(b)
    BY <1>5, LineMotionFacts
  <1> QED
    BY <1>2, <1>3, <1>4, <1>5 DEF Motions

LEMMA SearchGoes ==
    ASSUME NEW b, Fit(b)
    PROVE  Goes(b, SearchNext(b)) /\ Goes(b, SearchPrev(b))
  <1> DEFINE f == b.search.forward
             p == b.search.pat
             g == ~f
  <1>1. f \in BOOLEAN /\ g \in BOOLEAN
    BY FitFacts, BufFacts
  <1>2. SearchNext(b) = Search(b, p, f) /\ SearchPrev(b) = Search(b, p, g)
    BY DEF SearchNext, SearchPrev
  <1> HIDE DEF f, p, g
  <1> QED
    BY <1>1, <1>2, SearchFacts

LEMMA NormMotionsGo ==
    ASSUME NEW b, Fit(b), Placed(b),
           NEW d \in {ToWordEnd(b), Matching(b), Paragraph(b, TRUE),
                      Paragraph(b, FALSE), SearchNext(b), SearchPrev(b),
                      IF b.row < b.lcount - 1
                      THEN [b EXCEPT !.row = @ + 1, !.col = 0] ELSE b}
    PROVE  Goes(b, d)
  <1>1. CASE d \in {ToWordEnd(b), Matching(b)}
    BY <1>1, WordFacts, MatchingFacts
  <1>2. CASE d \in {Paragraph(b, TRUE), Paragraph(b, FALSE)}
    BY <1>2, ParagraphFacts
  <1>3. CASE d \in {SearchNext(b), SearchPrev(b)}
    BY <1>3, SearchGoes
  <1>4. CASE d = IF b.row < b.lcount - 1 THEN [b EXCEPT !.row = @ + 1, !.col = 0] ELSE b
    <2>1. Ready(b)
      BY SMTT(60) DEF Ready, Fit
    <2>2. CASE b.row < b.lcount - 1
      <3>1. d = [b EXCEPT !.row = b.row + 1, !.col = 0]
        BY <1>4, <2>2
      <3> QED
        BY <2>2, <3>1, LineMotionFacts
    <2>3. CASE ~(b.row < b.lcount - 1)
      BY <1>4, <2>1, <2>3, GoesSame
    <2> QED
      BY <2>2, <2>3
  <1> QED
    BY <1>1, <1>2, <1>3, <1>4

LEMMA ColGoes ==
    ASSUME NEW b, Fit(b)
    PROVE  /\ Goes(b, [b EXCEPT !.col = Greatest(@ - 1, 0)])
           /\ Goes(b, [b EXCEPT !.col = Least(@ + 1, LLen(b))])
           /\ Goes(b, [b EXCEPT !.col = LLen(b)])
           /\ b.col > 0 => Goes(b, [b EXCEPT !.col = @ - 1])
  <1>1. b.col \in Nat /\ LLen(b) \in Nat /\ Ready(b)
    BY FitFacts DEF Ready, Fit
  <1> DEFINE m == Greatest(b.col - 1, 0)
             n == Least(b.col + 1, LLen(b))
             k == b.col - 1
  <1>2. m \in Nat /\ n \in Nat /\ (b.col > 0 => k \in Nat)
    BY <1>1 DEF Greatest, Least
  <1>3. /\ [b EXCEPT !.col = Greatest(@ - 1, 0)] = [b EXCEPT !.col = m]
        /\ [b EXCEPT !.col = Least(@ + 1, LLen(b))] = [b EXCEPT !.col = n]
        /\ [b EXCEPT !.col = @ - 1] = [b EXCEPT !.col = k]
    OBVIOUS
  <1> HIDE DEF m, n, k
  <1> QED
    BY <1>1, <1>2, <1>3, GoesCol

LEMMA CharMotionsGo ==
    ASSUME NEW b, Fit(b), Placed(b), NEW d \in CharMotions(b)
    PROVE  Goes(b, d)
  <1>1. CASE d \in {WordFwd(b), WordBack(b), ToWordEnd(b)}
    BY <1>1, WordFacts, SMTT(60)
  <1>2. CASE d \in {LineEnd(b), [b EXCEPT !.col = 0], FirstNonBlank(b)}
    BY <1>2, LineMotionFacts
  <1>3. CASE d \in {[b EXCEPT !.col = Greatest(@ - 1, 0)],
                    [b EXCEPT !.col = Least(@ + 1, LLen(b))]}
    BY <1>3, ColGoes
  <1> QED
    BY <1>1, <1>2, <1>3 DEF CharMotions

LEMMA LineMotionsGo ==
    ASSUME NEW b, Fit(b), NEW d \in LineMotions(b)
    PROVE  Goes(b, d)
  <1>1. b.row \in Nat /\ b.lcount \in Nat /\ b.row < b.lcount /\ Ready(b)
    BY FitFacts DEF Ready, Fit
  <1> DEFINE m == Least(b.row + 1, b.lcount - 1)
             n == Greatest(b.row - 1, 0)
  <1>2. m \in 0 .. b.lcount - 1 /\ n \in 0 .. b.lcount - 1
    BY <1>1 DEF Greatest, Least
  <1>3. /\ [b EXCEPT !.row = Least(@ + 1, b.lcount - 1)] = [b EXCEPT !.row = m]
        /\ [b EXCEPT !.row = Greatest(@ - 1, 0)] = [b EXCEPT !.row = n]
    OBVIOUS
  <1> HIDE DEF m, n
  <1>4. CASE d \in {[b EXCEPT !.row = m], [b EXCEPT !.row = n]}
    BY <1>1, <1>2, <1>4, GoesRow, SMTT(60)
  <1>5. CASE d = [b EXCEPT !.row = b.lcount - 1, !.col = 0]
    BY <1>5, LineMotionFacts, ZenonT(60)
  <1>6. CASE d \in WindowTop(b) \cup WindowRows(b)
    BY <1>6, LineMotionFacts
  <1> QED
    BY <1>3, <1>4, <1>5, <1>6 DEF LineMotions

LEMMA WorksGoes ==
    ASSUME NEW b, Fit(b), NEW d, Goes(b, d)
    PROVE  Works(b, d)
  BY ChgGoes, ChgWorks

LEMMA WorksKeyX ==
    ASSUME NEW b, Fit(b)
    PROVE  /\ Works(b, StepBack(DeleteChar(SaveUndo(b))))
           /\ b.col > 0 => Works(b, DeleteChar([SaveUndo(b) EXCEPT !.col = @ - 1]))
  <1> DEFINE u == SaveUndo(b)
             w == [u EXCEPT !.col = @ - 1]
  <1>1. Chg(b, u) /\ Fit(u) /\ u.undo.row = u.row /\ u.col = b.col
    BY SavedFacts
  <1> HIDE DEF u
  <1>2. Works(b, StepBack(DeleteChar(u)))
    <2>1. Chg(u, DeleteChar(u))
      BY <1>1, ChgDeleteChar
    <2>2. Chg(DeleteChar(u), StepBack(DeleteChar(u)))
      BY <2>1, ChgStepBack DEF Chg
    <2> QED
      BY <1>1, <2>1, <2>2, ChgTrans, ChgWorks
  <1>3. ASSUME b.col > 0
        PROVE  Works(b, DeleteChar(w))
    <2>1. Goes(u, w)
      BY <1>1, <1>3, ColGoes
    <2> HIDE DEF w
    <2>2. Fit(w) /\ Chg(u, w) /\ w.undo = u.undo
      BY <1>1, <2>1, GoesFacts, ChgGoes
    <2>3. w.row = u.row
      BY <1>1, FitFacts DEF w, ViBufs
    <2>4. Chg(w, DeleteChar(w))
      BY <1>1, <2>2, <2>3, ChgDeleteChar
    <2> QED
      BY <1>1, <2>2, <2>4, ChgTrans, ChgWorks
  <1> QED
    BY <1>2, <1>3 DEF u

LEMMA WorksKeyLine ==
    ASSUME NEW b, Fit(b)
    PROVE  /\ Works(b, StepBack(DeleteToEol(SaveUndo(b))))
           /\ Works(b, [DeleteToEol(SaveUndo(b)) EXCEPT !.mode = "ins"])
           /\ Works(b, [BlankLine(SaveUndo(b)) EXCEPT !.mode = "ins"])
  <1> DEFINE u == SaveUndo(b)
             e == DeleteToEol(u)
             k == BlankLine(u)
             m == "ins"
  <1>1. Chg(b, u) /\ Fit(u) /\ u.undo.row = u.row /\ m \in Live
    BY SavedFacts DEF Live
  <1> HIDE DEF u
  <1>2. Chg(u, e) /\ Fit(e)
    BY <1>1, ChgDeleteToEol DEF Chg
  <1>3. Chg(u, k) /\ Fit(k)
    BY <1>1, ChgBlankLine DEF Chg
  <1> HIDE DEF e, k, m
  <1>4. Chg(e, StepBack(e)) /\ Chg(e, [e EXCEPT !.mode = m])
    BY <1>1, <1>2, ChgStepBack, ChgMode
  <1>5. Chg(k, [k EXCEPT !.mode = m])
    BY <1>1, <1>3, ChgMode
  <1>6. /\ Works(b, StepBack(e)) /\ Works(b, [e EXCEPT !.mode = m])
        /\ Works(b, [k EXCEPT !.mode = m])
    BY <1>1, <1>2, <1>3, <1>4, <1>5, ChgTrans, ChgWorks
  <1> QED
    BY <1>6 DEF e, k, m, u

LEMMA WorksKeyDot ==
    ASSUME NEW b, Fit(b)
    PROVE  Works(b, [BlankLine(b) EXCEPT !.exact = Within(b, b.row), !.mode = "ins"])
  <1> DEFINE x == Within(b, b.row)
             e == Changed(b, Put(b.rows, b.row, << >>), b.lcount, b.row, 0, x)
             m == "ins"
  <1>1. b \in ViBufs
    BY FitFacts
  <1>2. x \in BOOLEAN /\ (x => b.exact /\ b.row = b.undo.row)
    BY WithinFacts
  <1>3. Chg(b, e) /\ Fit(e)
    <2> HIDE DEF x
    <2> QED
      BY <1>2, StrFacts, ChgRow DEF Chg
  <1>4. [BlankLine(b) EXCEPT !.exact = x, !.mode = m] = [e EXCEPT !.mode = m]
    <2> HIDE DEF x
    <2> QED
      BY <1>1 DEF BlankLine, Changed, Put, ViBufs
  <1> HIDE DEF e
  <1>5. m \in Live
    BY DEF Live
  <1> HIDE DEF m
  <1>6. Chg(e, [e EXCEPT !.mode = m])
    BY <1>3, <1>5, ChgMode
  <1>7. Works(b, [e EXCEPT !.mode = m])
    BY <1>3, <1>6, ChgTrans, ChgWorks
  <1> QED
    BY <1>4, <1>7 DEF m

LEMMA WorksKeyCC ==
    ASSUME NEW b, Fit(b)
    PROVE  Works(b, [BlankLine(SaveUndo(b)) EXCEPT !.lcount = b.row + 1, !.mode = "ins"])
  <1> DEFINE u == SaveUndo(b)
             n == b.row + 1
             R == Put(u.rows, u.row, << >>)
             x == u.exact
             e == Changed(u, R, n, u.row, 0, x)
             m == "ins"
             d == [BlankLine(u) EXCEPT !.lcount = n, !.mode = m]
  <1>1. /\ Chg(b, u) /\ Fit(u) /\ u.undo.row = u.row /\ u.row = b.row /\ u.rows = b.rows
        /\ u.exact
    BY SavedFacts
  <1> HIDE DEF u
  <1>2. u \in ViBufs /\ u.rows \in Rows /\ u.row \in RowNos /\ x \in BOOLEAN
    BY <1>1, FitFacts, BufFacts
  <1>3. n \in 1 .. MaxLines /\ u.row < n
    BY <1>1, <1>2, Numbers DEF RowNos
  <1>4. R \in Rows /\ \A i \in RowNos : i # u.row => R[i] = u.rows[i]
    BY <1>2, StrFacts, PutRow
  <1>5. d = [e EXCEPT !.mode = m]
    <2> HIDE DEF n
    <2> QED
      BY <1>2 DEF BlankLine, Changed, Put, ViBufs
  <1> HIDE DEF n
  <1>6. \A i \in 0 .. u.undo.lcount - 1 : i \in RowNos
    BY <1>2, BufFacts, Numbers DEF RowNos
  <1>7. x => u.exact /\ \A i \in 0 .. u.undo.lcount - 1 : i # u.undo.row => R[i] = u.rows[i]
    BY <1>1, <1>4, <1>6
  <1> HIDE DEF R, x
  <1>8. Chg(u, e) /\ Fit(e)
    BY <1>1, <1>2, <1>3, <1>4, <1>7, ChgEdit DEF Chg
  <1>9. m \in Live
    BY DEF Live
  <1> HIDE DEF e, m, d
  <1>10. Chg(e, d)
    BY <1>5, <1>8, <1>9, ChgMode
  <1>11. Works(b, d)
    BY <1>1, <1>8, <1>10, ChgTrans, ChgWorks
  <1> QED
    BY <1>11 DEF d, n, m, u

\* From normal mode to insert mode and back.
LEMMA WorksEnter ==
    ASSUME NEW b, Fit(b), NEW u, Chg(b, u)
    PROVE  /\ Works(b, [u EXCEPT !.dot = TRUE, !.mode = "ins"])
           /\ Works(b, [b EXCEPT !.mode = "norm", !.col = Greatest(@ - 1, 0)])
  <1>1. Fit(u) /\ u \in ViBufs /\ b \in ViBufs /\ u.col \in Nat
    BY FitFacts DEF Chg
  <1> DEFINE c == Greatest(b.col - 1, 0)
             m == "ins"
             q == "norm"
             t == TRUE
  <1>2. c \in Nat /\ m \in Live /\ q \in Live /\ t \in BOOLEAN /\ b.dot \in BOOLEAN
    BY <1>1, BufFacts DEF Greatest, Live, ViBufs
  <1>3. [u EXCEPT !.dot = t, !.mode = m] = Tidy(u, u.col, m, t)
    BY <1>1 DEF Tidy, ViBufs
  <1>4. [b EXCEPT !.mode = q, !.col = Greatest(@ - 1, 0)] = Tidy(b, c, q, b.dot)
    BY <1>1 DEF Tidy, ViBufs
  <1> HIDE DEF c, m, q, t
  <1>5. Chg(u, Tidy(u, u.col, m, t)) /\ Chg(b, Tidy(b, c, q, b.dot))
    BY <1>1, <1>2, ChgTidy
  <1>6. /\ Works(b, [u EXCEPT !.dot = t, !.mode = m])
        /\ Works(b, [b EXCEPT !.mode = q, !.col = Greatest(@ - 1, 0)])
    BY <1>3, <1>4, <1>5, ChgTrans, ChgWorks
  <1> QED
    BY <1>6 DEF m, q, t

Seeks(b, s) == [b EXCEPT !.search = s]

LEMMA WorksSearch ==
    ASSUME NEW b, Fit(b), NEW s \in [pat : Str, forward : BOOLEAN], NEW u, u = Seeks(b, s)
    PROVE  Works(b, u) /\ Works(b, SearchNext(u))
  <1>1. b \in ViBufs /\ b.mode \in Live /\ b.row < b.lcount /\ UndoOK(b)
    BY DEF Fit
  <1>2. /\ u \in ViBufs /\ u.mode = b.mode /\ u.row = b.row /\ u.lcount = b.lcount
        /\ u.rows = b.rows /\ u.undo = b.undo /\ u.exact = b.exact /\ u.snap = b.snap
        /\ u.modified = b.modified /\ u.fname = b.fname /\ u.disk = b.disk
    BY <1>1 DEF Seeks, ViBufs
  <1>3. UndoOK(u)
    BY <1>1, <1>2 DEF UndoOK, Brings
  <1>4. Chg(b, u)
    BY <1>1, <1>2, <1>3 DEF Chg, Fit, Still
  <1>5. Fit(u)
    BY <1>4 DEF Chg
  <1>6. Works(u, SearchNext(u))
    BY <1>5, SearchGoes, WorksGoes
  <1> QED
    BY <1>4, <1>6, WorksTrans, ChgWorks

\* A selection goes from the cursor to any place p of the text.
LEMMA PlacesFacts ==
    ASSUME NEW b, Fit(b), NEW p \in Places(b), NEW a, a = [b EXCEPT !.row = p[1], !.col = p[2]]
    PROVE  /\ Goes(b, a) /\ Placed(a) /\ a.row = p[1] /\ a.col = p[2] /\ p[2] \in Nat
           /\ a.lcount = b.lcount /\ a.rows = b.rows
  <1>1. p[1] \in 0 .. b.lcount - 1 /\ p[2] \in 0 .. MaxCol - 1 /\ p[2] <= Len(b.rows[p[1]])
    BY DEF Places
  <1>2. p[2] \in Nat
    BY <1>1, Numbers
  <1>3. Goes(b, a)
    BY <1>1, <1>2, PlaceGoes
  <1>4. a.row = p[1] /\ a.col = p[2] /\ a.rows = b.rows /\ a.lcount = b.lcount
    BY FitFacts DEF ViBufs
  <1>5. Placed(a)
    BY <1>1, <1>4, FitFacts DEF Placed, LLen, Line
  <1> QED
    BY <1>2, <1>3, <1>4, <1>5

LEMMA WorksVisual ==
    ASSUME NEW b, Fit(b), Placed(b), NEW p \in Places(b), NEW linewise \in BOOLEAN,
           NEW a, a = [b EXCEPT !.row = p[1], !.col = p[2]],
           NEW d, d = DeleteRange(a, b.row, b.col, p[1], p[2], linewise)
    PROVE  /\ Works(b, d)
           /\ Works(b, IF d.mode = "undef" THEN d ELSE [d EXCEPT !.mode = "ins"])
           /\ Works(b, IF d.mode = "undef" THEN d ELSE PasteBefore(d))
           /\ Works(b, YankRange(a, b.row, b.col, p[1], p[2], linewise))
  <1>1. /\ Goes(b, a) /\ Placed(a) /\ a.row = p[1] /\ a.col = p[2] /\ p[2] \in Nat
        /\ a.lcount = b.lcount /\ a.rows = b.rows
    BY PlacesFacts, ZenonT(60)
  <1>2. Chg(b, a) /\ Fit(a)
    BY <1>1, ChgGoes DEF Chg
  <1>3. /\ b.row \in 0 .. a.lcount - 1 /\ b.col \in Nat /\ a.row \in 0 .. a.lcount - 1
        /\ b.col <= Len(a.rows[b.row]) /\ a.col <= LLen(a) /\ Len(a.rows[b.row]) \in Nat
        /\ LLen(a) \in Nat
    <2>1. b.row \in Nat /\ b.lcount \in Nat /\ b.row < b.lcount /\ b.col \in Nat
          /\ LLen(b) \in Nat /\ a.row \in Nat /\ a.row < a.lcount /\ LLen(a) \in Nat
      BY <1>2, FitFacts
    <2>2. LLen(b) = Len(a.rows[b.row])
      BY <1>1 DEF LLen, Line
    <2>3. b.col <= LLen(b) /\ a.col <= LLen(a)
      BY <1>1 DEF Placed
    <2> QED
      BY <1>1, <2>1, <2>2, <2>3
  <1>4. /\ Works(a, d) /\ d.mode # "loop"
        /\ d.mode = "undef" \/ b.col > Len(a.rows[b.row]) \/ p[2] > LLen(a) \/ Placed(d)
    <2> DEFINE c1 == b.col
               c2 == p[2]
               r1 == b.row
    <2>1. c1 \in Nat /\ c2 \in Nat /\ r1 \in 0 .. a.lcount - 1
      BY <1>1, <1>3
    <2>2. d = DeleteRange(a, r1, c1, a.row, c2, linewise)
      BY <1>1
    <2> HIDE DEF c1, c2, r1
    <2>3. /\ Works(a, d) /\ d.mode # "loop"
          /\ d.mode = "undef" \/ c1 > Len(a.rows[r1]) \/ c2 > LLen(a) \/ Placed(d)
      BY <1>2, <2>1, <2>2, WorksDeleteRange, ZenonT(60)
    <2> QED
      BY <2>3 DEF c1, c2, r1
  <1>5. d.mode = "undef" \/ Placed(d)
    BY <1>1, <1>3, <1>4
  <1>6. Works(b, d)
    BY <1>2, <1>4, WorksTrans
  <1>7. d.mode # "undef" => Fit(d) /\ Chg(b, d)
    BY <1>4, <1>6 DEF Works, Ended, Chg
  <1>8. d.mode # "undef" => Works(b, [d EXCEPT !.mode = "ins"])
    BY <1>6, <1>7, WorksInsert
  <1>9. d.mode # "undef" => Works(b, PasteBefore(d))
    <2>1. d.mode # "undef" => Works(d, PasteBefore(d))
      BY <1>5, <1>7, WorksPaste
    <2> QED
      BY <1>7, <2>1, WorksTrans
  <1>10. Works(b, YankRange(a, b.row, b.col, p[1], p[2], linewise))
    <2>1. Works(a, YankRange(a, b.row, b.col, p[1], p[2], linewise))
      BY <1>1, <1>2, <1>3, WorksYankRange
    <2> QED
      BY <1>2, <2>1, WorksTrans
  <1> QED
    BY <1>6, <1>8, <1>9, <1>10

----------------------------------------------------------------------------
(* The inductive invariant *)

FilesGood(fs) == fs \in [Paths -> Str \cup {Absent}]

\* vi b runs on the files fs: the cursor is in the text, undo brings back what
\* it should, and a text that is not modified is what its file holds.
ViGood(b, fs) ==
    /\ b \in ViBufs
    /\ b.mode \in Live =>
         /\ Fit(b) /\ Placed(b)
         /\ ~b.modified /\ b.disk = "same" => Holds(fs[b.fname], b, {ViBytes(b)})

NanoGood(b, fs) ==
    /\ b \in NanoBufs /\ Placed(b) /\ (b.ask => b.on)
    /\ b.on /\ ~b.modified /\ ~b.torn => Holds(fs[b.fname], b, NanoSaved(b))

\* One editor runs at a time.
EdInv ==
    /\ FilesGood(files) /\ ViGood(vi, files) /\ NanoGood(nano, files)
    /\ vi.mode = "off" \/ ~nano.on

\* What the file holds depends on the lines only.
LEMMA HoldsSame ==
    ASSUME NEW b, b \in ViBufs \/ b \in NanoBufs, NEW d, d \in ViBufs \/ d \in NanoBufs,
           d.rows = b.rows, d.lcount = b.lcount, NEW f \in Str \cup {Absent}
    PROVE  /\ Text(d) = Text(b) /\ ViBytes(d) = ViBytes(b) /\ NanoSaved(d) = NanoSaved(b)
           /\ Holds(f, b, {ViBytes(b)}) => Holds(f, d, {ViBytes(d)})
           /\ Holds(f, b, NanoSaved(b)) => Holds(f, d, NanoSaved(d))
  <1>1. Text(d) = Text(b)
    BY DEF Text
  <1>2. ViBytes(d) = ViBytes(b)
    BY <1>1 DEF ViBytes
  <1>3. NanoBytes(d) = NanoBytes(b)
    BY <1>1 DEF NanoBytes
  <1>4. NanoSaved(d) = NanoSaved(b)
    BY <1>3 DEF NanoSaved
  <1>5. Text(Load(d, f)) = Text(Load(b, f))
    BY LoadText
  <1> QED
    BY <1>1, <1>2, <1>4, <1>5 DEF Holds

LEMMA RowsEmpty == EmptyRows \in Rows
  BY StrFacts DEF EmptyRows, Rows, RowNos

LEMMA OffFacts ==
    /\ ViOff \in ViBufs /\ ViOff.mode = "off" /\ ViOff.row = 0 /\ ViOff.col = 0
    /\ NanoOff \in NanoBufs /\ NanoOff.row = 0 /\ NanoOff.col = 0 /\ NanoOff.lcount = 1
    /\ NanoOff.on = FALSE /\ NanoOff.ask = FALSE /\ NanoOff.torn = FALSE
    /\ NanoOff.rows = EmptyRows
    /\ ~ViOff.undo.valid
  <1>1. EmptyRows \in Rows /\ << >> \in Fits /\ << >> \in Str /\ 0 \in RowNos
        /\ 1 \in 1 .. MaxLines /\ 0 \in 0 .. MaxLines
    BY RowsEmpty, StrFacts, Numbers DEF RowNos
  <1> DEFINE p == CHOOSE p \in Paths : TRUE
  <1>2. p \in Paths
    BY TextBufAssumption
  <1>3. NoUndo \in Undos /\ ~NoUndo.valid
    BY <1>1 DEF NoUndo, Undos
  <1>4. [text |-> << >>, line |-> FALSE] \in Yanks
    BY <1>1, Numbers DEF Yanks
  <1>5. [line |-> << >>, row |-> 0, lcount |-> 0] \in Redos
    BY <1>1 DEF Redos
  <1>6. << >> \in Seq(Fits)
    OBVIOUS
  <1> HIDE DEF p
  <1>7. [pat |-> << >>, forward |-> TRUE] \in [pat : Str, forward : BOOLEAN]
    BY <1>1
  <1>8. ViOff \in ViBufs /\ ViOff.mode = "off" /\ ViOff.row = 0 /\ ViOff.col = 0
        /\ ViOff.undo = NoUndo
    <2> DEFINE y == [text |-> << >>, line |-> FALSE]
               e == [line |-> << >>, row |-> 0, lcount |-> 0]
               s == [pat |-> << >>, forward |-> TRUE]
    <2>1. ViOff = [rows |-> EmptyRows, lcount |-> 1, row |-> 0, col |-> 0, modified |-> FALSE,
                   mode |-> "off", yank |-> y, undo |-> NoUndo, redo |-> e,
                   dot |-> FALSE, search |-> s, fname |-> p,
                   snap |-> << >>, exact |-> FALSE, disk |-> "same", left |-> "no"]
      BY DEF ViOff, p
    <2>2. y \in Yanks /\ e \in Redos /\ s \in [pat : Str, forward : BOOLEAN]
      BY <1>4, <1>5, <1>7
    <2> HIDE DEF y, e, s
    <2>3. ViOff.mode = "off" /\ ViOff.row = 0 /\ ViOff.col = 0 /\ ViOff.undo = NoUndo
      BY <2>1
    <2> DEFINE M == Live \cup Ended \cup {"off"}
               S == [pat : Str, forward : BOOLEAN]
               Z == Seq(Fits)
               L == 1 .. MaxLines
    <2>4. "off" \in M /\ s \in S /\ << >> \in Z /\ 1 \in L
      BY <1>1, <1>6, <2>2
    <2>5. ViBufs = [rows : Rows, lcount : L, row : RowNos, col : Nat,
           modified : BOOLEAN, mode : M,
           yank : Yanks, undo : Undos, redo : Redos, dot : BOOLEAN,
           search : S, fname : Paths,
           snap : Z, exact : BOOLEAN, disk : Disks, left : Lefts]
      BY DEF ViBufs
    <2> DEFINE o == FALSE
               no == "no"
               same == "same"
               mode == "off"
    <2>6. o \in BOOLEAN /\ no \in Lefts /\ same \in Disks /\ mode \in M
      BY <2>4 DEF Lefts, Disks
    <2>7. ViOff = [rows |-> EmptyRows, lcount |-> 1, row |-> 0, col |-> 0, modified |-> o,
                   mode |-> mode, yank |-> y, undo |-> NoUndo, redo |-> e,
                   dot |-> o, search |-> s, fname |-> p,
                   snap |-> << >>, exact |-> o, disk |-> same, left |-> no]
      BY <2>1
    <2> HIDE DEF M, S, Z, L, o, no, same, mode
    <2>8. ViOff \in ViBufs
      BY <1>1, <1>2, <1>3, <2>2, <2>4, <2>5, <2>6, <2>7
    <2> QED
      BY <2>3, <2>8
  <1>9. /\ NanoOff \in NanoBufs /\ NanoOff.row = 0 /\ NanoOff.col = 0 /\ NanoOff.lcount = 1
        /\ NanoOff.on = FALSE /\ NanoOff.ask = FALSE /\ NanoOff.torn = FALSE
        /\ NanoOff.rows = EmptyRows
    <2>1. NanoOff = [rows |-> EmptyRows, lcount |-> 1, row |-> 0, col |-> 0, modified |-> FALSE,
                     on |-> FALSE, ask |-> FALSE, fname |-> p, torn |-> FALSE, left |-> "no"]
      BY DEF NanoOff, p
    <2>2. /\ NanoOff.row = 0 /\ NanoOff.col = 0 /\ NanoOff.lcount = 1
          /\ NanoOff.on = FALSE /\ NanoOff.ask = FALSE /\ NanoOff.torn = FALSE
          /\ NanoOff.rows = EmptyRows
      BY <2>1
    <2>3. NanoOff \in NanoBufs
      <3> DEFINE o == FALSE
                 no == "no"
      <3>1. o \in BOOLEAN /\ no \in Lefts
        BY DEF Lefts
      <3>2. NanoOff = [rows |-> EmptyRows, lcount |-> 1, row |-> 0, col |-> 0, modified |-> o,
                       on |-> o, ask |-> o, fname |-> p, torn |-> o, left |-> no]
        BY <2>1
      <3> HIDE DEF o, no
      <3> QED
        BY <1>1, <1>2, <3>1, <3>2 DEF NanoBufs
    <2> QED
      BY <2>2, <2>3
  <1> QED
    BY <1>3, <1>8, <1>9

\* After a key: vi is lost, or its cursor is in the text again.
LEMMA ViGoodDoes ==
    ASSUME NEW b, NEW fs, FilesGood(fs), ViGood(b, fs), b.mode \in Live,
           NEW d, Does(b, d), NEW e, e = Settled(d)
    PROVE  ViGood(e, fs) /\ e.mode # "off"
  <1>1. CASE d.mode \in Ended
    <2>1. e = [ViOff EXCEPT !.mode = d.mode]
      BY <1>1 DEF Settled, Ended
    <2>2. e \in ViBufs /\ e.mode = d.mode
      BY <1>1, <2>1, OffFacts DEF ViBufs
    <2>3. e.mode \notin Live /\ e.mode # "off"
      BY <1>1, <2>2 DEF Ended, Live
    <2> QED
      BY <2>2, <2>3 DEF ViGood
  <1>2. CASE Nearly(d) /\ Still(b, d)
    <2>1. /\ Fit(e) /\ Placed(e) /\ e.rows = d.rows /\ e.lcount = d.lcount
          /\ e.modified = d.modified /\ e.fname = d.fname /\ e.disk = d.disk
          /\ e.mode = d.mode
      BY <1>2, SettledFit DEF Nearly
    <2>2. e \in ViBufs /\ e.mode \in Live
      BY <2>1 DEF Fit
    <2>3. ASSUME ~e.modified, e.disk = "same"
          PROVE  Holds(fs[e.fname], e, {ViBytes(e)})
      <3>1. /\ ~b.modified /\ e.rows = b.rows /\ e.lcount = b.lcount
            /\ e.fname = b.fname /\ e.disk = b.disk
        BY <1>2, <2>1, <2>3 DEF Still
      <3>2. Holds(fs[b.fname], b, {ViBytes(b)}) /\ b \in ViBufs
        BY <2>3, <3>1 DEF ViGood
      <3>3. fs[b.fname] \in Str \cup {Absent}
        BY <3>2, BufFacts DEF FilesGood
      <3> QED
        BY <2>2, <3>1, <3>2, <3>3, HoldsSame
    <2>4. e.mode # "off"
      BY <2>2 DEF Live
    <2> QED
      BY <2>1, <2>2, <2>3, <2>4 DEF ViGood
  <1> QED
    BY <1>1, <1>2 DEF Does

\* A file is loaded.
LEMMA ViGoodLoads ==
    ASSUME NEW b \in ViBufs, NEW fs, FilesGood(fs), NEW p \in Paths, NEW q \in Paths,
           NEW l, l = Load(b, fs[p]),
           NEW d \in ViBufs, d.rows = l.rows, d.lcount = l.lcount, d.row = 0, d.col = 0,
           d.mode \in Live, UndoOK(d), d.fname = q, d.disk = "same" => p = q,
           NEW e, e = Settled(d)
    PROVE  ViGood(e, fs) /\ e.mode # "off"
  <1>1. /\ Fit(e) /\ Placed(e) /\ e.rows = d.rows /\ e.lcount = d.lcount
        /\ e.modified = d.modified /\ e.fname = d.fname /\ e.disk = d.disk
        /\ e.mode = d.mode
    BY SettledFit
  <1>2. e \in ViBufs
    BY <1>1 DEF Fit
  <1>3. fs[p] \in Str \cup {Absent}
    BY DEF FilesGood
  <1>4. l \in ViBufs /\ Text(l) = LoadedText(fs[p])
    BY <1>3, LoadVi
  <1>5. Text(e) = LoadedText(fs[p])
    BY <1>1, <1>4 DEF Text
  <1>6. Text(Load(e, fs[p])) = Text(e)
    BY <1>2, <1>3, <1>5, LoadText
  <1>7. ASSUME e.disk = "same"
        PROVE  Holds(fs[e.fname], e, {ViBytes(e)})
    <2>1. e.fname = p
      BY <1>1, <1>7
    <2> QED
      BY <1>6, <2>1 DEF Holds
  <1> QED
    BY <1>1, <1>2, <1>7 DEF ViGood, Live

\* A key that works on vi as it is.
Acts == \E d : Does(vi, d) /\ vi' = Settled(d) /\ files' = files

LEMMA ActsBy ==
    ASSUME NEW d, Works(vi, d), ViMoves(d) \/ ViEdits(d)
    PROVE  Acts
  BY WorksDoes DEF Acts, ViMoves, ViEdits

LEMMA ActsGoes ==
    ASSUME Fit(vi), NEW d, Goes(vi, d), ViMoves(d) \/ ViEdits(d)
    PROVE  Acts
  BY WorksGoes, ActsBy

LEMMA ActsChg ==
    ASSUME NEW d, Chg(vi, d), ViMoves(d) \/ ViEdits(d)
    PROVE  Acts
  BY ChgWorks, ActsBy

LEMMA ViRuns ==
    ASSUME EdInv
    PROVE  /\ FilesGood(files) /\ vi \in ViBufs
           /\ vi.mode \in Live => Fit(vi) /\ Placed(vi)
           /\ (Normal \/ Ins) => vi.mode \in Live
           /\ ViAlive => vi.mode \in Live
           /\ vi.mode \in Live => ViAlive /\ ~nano.on
  <1>1. FilesGood(files) /\ vi \in ViBufs /\ (vi.mode \in Live => Fit(vi) /\ Placed(vi))
    BY DEF EdInv, ViGood
  <1>2. vi.mode \in Live \cup Ended \cup {"off"}
    BY <1>1 DEF ViBufs
  <1>3. vi.mode \in Live => vi.mode # "off" /\ vi.mode # "undef" /\ vi.mode # "loop"
    BY DEF Live
  <1>4. ViAlive => vi.mode \in Live
    BY <1>2 DEF ViAlive, Ended
  <1>5. vi.mode \in Live => ViAlive /\ ~nano.on
    BY <1>3 DEF ViAlive, EdInv
  <1> QED
    BY <1>1, <1>4, <1>5 DEF Normal, Ins, Live

LEMMA MotionKeysAct ==
    ASSUME EdInv, MotionKey \/ NormMotionKey \/ KeyGG \/ KeyF \/ SearchEnter \/ SearchEscape
    PROVE  Acts
  <1>1. Fit(vi) /\ Placed(vi)
    BY ViRuns DEF MotionKey, NormMotionKey, KeyGG, KeyF, SearchEnter, SearchEscape
  <1>2. CASE MotionKey
    <2>1. PICK m \in Motions(vi) : ViMoves(m)
      BY <1>2 DEF MotionKey
    <2> QED
      BY <1>1, <2>1, MotionsGo, ActsGoes
  <1>3. CASE NormMotionKey
    <2> DEFINE next == IF vi.row < vi.lcount - 1
                       THEN [vi EXCEPT !.row = @ + 1, !.col = 0] ELSE vi
               S == {ToWordEnd(vi), Matching(vi), Paragraph(vi, TRUE),
                     Paragraph(vi, FALSE), SearchNext(vi), SearchPrev(vi), next}
    <2>1. PICK m \in S : ViMoves(m)
      BY <1>3 DEF NormMotionKey
    <2>2. Goes(vi, m)
      BY <1>1, NormMotionsGo
    <2> HIDE DEF S
    <2> QED
      BY <1>1, <2>1, <2>2, ActsGoes
  <1>4. CASE KeyGG
    <2> DEFINE d == [vi EXCEPT !.row = 0, !.col = 0]
    <2>1. ViMoves(d) /\ Goes(vi, d)
      BY <1>1, <1>4, LineMotionFacts DEF KeyGG
    <2> HIDE DEF d
    <2> QED
      BY <1>1, <2>1, ActsGoes
  <1>5. CASE KeyF
    <2>1. PICK c \in ViTyped : ViMoves(Find(vi, c))
      BY <1>5 DEF KeyF
    <2> QED
      BY <1>1, <2>1, FindFacts, ActsGoes
  <1>6. CASE SearchEnter
    <2>1. PICK pat \in Patterns, f \in BOOLEAN :
             ViEdits(SearchNext([vi EXCEPT !.search = [pat |-> pat, forward |-> f]]))
      BY <1>6 DEF SearchEnter
    <2> DEFINE s == [pat |-> pat, forward |-> f]
    <2>2. s \in [pat : Str, forward : BOOLEAN]
      BY ViAssumption DEF Str
    <2> HIDE DEF s
    <2>3. Works(vi, SearchNext(Seeks(vi, s)))
      BY <1>1, <2>2, WorksSearch
    <2>4. ViEdits(SearchNext(Seeks(vi, s)))
      BY <2>1 DEF Seeks, s
    <2> QED
      BY <2>3, <2>4, ActsBy
  <1>7. CASE SearchEscape
    <2>1. PICK f \in BOOLEAN : ViMoves([vi EXCEPT !.search.forward = f])
      BY <1>7 DEF SearchEscape
    <2> DEFINE s == [vi.search EXCEPT !.forward = f]
    <2>2. s \in [pat : Str, forward : BOOLEAN]
      BY <1>1 DEF Fit, ViBufs
    <2>3. [vi EXCEPT !.search.forward = f] = Seeks(vi, s)
      BY DEF Seeks
    <2> HIDE DEF s
    <2>4. Works(vi, Seeks(vi, s))
      BY <1>1, <2>2, WorksSearch
    <2> QED
      BY <2>1, <2>3, <2>4, ActsBy
  <1> QED
    BY <1>2, <1>3, <1>4, <1>5, <1>6, <1>7

LEMMA ChangeKeysAct ==
    ASSUME EdInv, KeyX \/ KeyXBack \/ KeyD \/ KeyC \/ KeyS \/ KeyJ \/ KeyP \/ KeyTilde
                  \/ KeyDot \/ KeyReplace \/ KeyIndent \/ KeyOutdent
                  \/ KeyDD \/ KeyYY \/ KeyCC
    PROVE  Acts
  <1>1. Fit(vi) /\ Placed(vi)
    BY ViRuns DEF KeyX, KeyXBack, KeyD, KeyC, KeyS, KeyJ, KeyP, KeyTilde, KeyDot,
                  KeyReplace, KeyIndent, KeyOutdent, KeyDD, KeyYY, KeyCC
  <1>2. CASE KeyX
    BY <1>1, <1>2, WorksKeyX, ActsBy DEF KeyX
  <1>3. CASE KeyXBack
    BY <1>1, <1>3, WorksKeyX, ActsBy DEF KeyXBack
  <1>4. CASE KeyD
    BY <1>1, <1>4, WorksKeyLine, ActsBy DEF KeyD
  <1>5. CASE KeyC
    BY <1>1, <1>5, WorksKeyLine, ActsBy DEF KeyC
  <1>6. CASE KeyS
    BY <1>1, <1>6, WorksKeyLine, ActsBy DEF KeyS
  <1>7. CASE KeyJ
    <2>1. PICK j \in JoinLines(vi) : ViEdits(j)
      BY <1>7 DEF KeyJ
    <2> QED
      BY <1>1, <2>1, WorksJoin, ActsBy
  <1>8. CASE KeyP
    <2>1. PICK b \in {PasteAfter(vi), PasteBefore(vi)} : ViEdits(b)
      BY <1>8 DEF KeyP
    <2> QED
      BY <1>1, <2>1, WorksPaste, ActsBy
  <1>9. CASE KeyTilde
    BY <1>1, <1>9, ChgToggle, ActsChg DEF KeyTilde
  <1>10. CASE KeyDot
    BY <1>1, <1>10, WorksKeyDot, ActsBy DEF KeyDot
  <1>11. CASE KeyReplace
    <2>1. PICK c \in ViTyped : \E b \in Overwrite(SaveUndo(vi), vi.col, c) :
                                  ViEdits([b EXCEPT !.modified = TRUE])
      BY <1>11 DEF KeyReplace
    <2>2. PICK b \in Overwrite(SaveUndo(vi), vi.col, c) : ViEdits([b EXCEPT !.modified = TRUE])
      BY <2>1
    <2>3. c \in Char
      BY ViAssumption
    <2>4. Works(vi, [b EXCEPT !.modified = TRUE])
      BY <1>1, <2>3, WorksReplace
    <2> QED
      BY <2>2, <2>4, ActsBy
  <1>12. CASE KeyIndent \/ KeyOutdent
    BY <1>1, <1>12, ChgIndent, ChgOutdent, ActsChg DEF KeyIndent, KeyOutdent
  <1>13. CASE KeyDD
    BY <1>1, <1>13, ChgDeleteLine, ActsChg DEF KeyDD
  <1>14. CASE KeyYY
    <2> DEFINE l == TRUE
               d == YankText(vi, Line(vi), l)
    <2>1. ViEdits(d) /\ Line(vi) \in Str /\ l \in BOOLEAN
      BY <1>1, <1>14, FitFacts DEF KeyYY
    <2> HIDE DEF l
    <2>2. Chg(vi, d)
      BY <1>1, <2>1, ChgYank
    <2> HIDE DEF d
    <2> QED
      BY <2>1, <2>2, ActsChg
  <1>15. CASE KeyCC
    BY <1>1, <1>15, WorksKeyCC, ActsBy DEF KeyCC
  <1> QED
    BY <1>2, <1>3, <1>4, <1>5, <1>6, <1>7, <1>8, <1>9, <1>10, <1>11, <1>12, <1>13, <1>14, <1>15

LEMMA OpKeysAct ==
    ASSUME EdInv, NEW op \in {"d", "y", "c"}, KeyOp(op)
    PROVE  Acts
  <1>1. Fit(vi) /\ Placed(vi)
    BY ViRuns DEF KeyOp
  <1>2. PICK linewise, m :
           /\ linewise \in BOOLEAN /\ Goes(vi, m)
           /\ ViEdits(ApplyOpMotion(vi, op, linewise, m))
    <2>1. CASE \E m \in CharMotions(vi) : ViEdits(ApplyOpMotion(vi, op, FALSE, m))
      BY <1>1, <2>1, CharMotionsGo
    <2>2. CASE \E m \in LineMotions(vi) : ViEdits(ApplyOpMotion(vi, op, TRUE, m))
      BY <1>1, <2>2, LineMotionsGo
    <2> QED
      BY <2>1, <2>2 DEF KeyOp
  <1>3. Works(vi, ApplyOpMotion(vi, op, linewise, m))
    BY <1>1, <1>2, WorksOpMotion
  <1> QED
    BY <1>2, <1>3, ActsBy

LEMMA InsertKeysAct ==
    ASSUME EdInv, EnterInsert \/ EnterOpen \/ InsArrow \/ InsType \/ InsTab
                  \/ InsBackspace \/ InsNewline \/ InsWord \/ InsEscape
    PROVE  Acts
  <1>1. Fit(vi) /\ Placed(vi) /\ Ready(vi)
    BY ViRuns DEF EnterInsert, EnterOpen, InsArrow, InsType, InsTab,
                  InsBackspace, InsNewline, InsWord, InsEscape, Ready, Fit
  <1>2. CASE EnterInsert
    <2>1. PICK b \in {vi, [vi EXCEPT !.col = Least(@ + 1, LLen(vi))], FirstNonBlank(vi),
                      [vi EXCEPT !.col = LLen(vi)]} :
             ViMoves([b EXCEPT !.dot = TRUE, !.mode = "ins"])
      BY <1>2 DEF EnterInsert
    <2>2. Goes(vi, b)
      BY <1>1, GoesSame, ColGoes, LineMotionFacts
    <2>3. Works(vi, [b EXCEPT !.dot = TRUE, !.mode = "ins"])
      BY <1>1, <2>2, ChgGoes, WorksEnter
    <2> QED
      BY <2>1, <2>3, ActsBy
  <1>3. CASE EnterOpen
    <2>1. PICK above \in BOOLEAN :
             ViEdits([OpenLine(vi, above) EXCEPT !.dot = TRUE, !.mode = "ins"])
      BY <1>3 DEF EnterOpen
    <2>2. Works(vi, [OpenLine(vi, above) EXCEPT !.dot = TRUE, !.mode = "ins"])
      BY <1>1, ChgOpenLine, WorksEnter
    <2> QED
      BY <2>1, <2>2, ActsBy
  <1>4. CASE InsEscape
    <2>1. Works(vi, [vi EXCEPT !.mode = "norm", !.col = Greatest(@ - 1, 0)])
      BY <1>1, ChgSame, WorksEnter
    <2> QED
      BY <1>4, <2>1, ActsBy DEF InsEscape
  <1>5. CASE InsArrow
    <2>1. PICK m \in {Up(vi), Down(vi), Left(vi), Right(vi)} : ViMoves(m)
      BY <1>5 DEF InsArrow
    <2>2. Goes(vi, m)
      BY <1>1, UpDown, LeftRight
    <2> QED
      BY <1>1, <2>1, <2>2, ActsGoes
  <1>6. CASE InsType
    <2>1. PICK c \in ViTyped : ViEdits(ViInsertChar(vi, c))
      BY <1>6 DEF InsType
    <2>2. c \in Char
      BY ViAssumption
    <2> QED
      BY <1>1, <2>1, <2>2, ChgInsertChar, ActsChg
  <1>7. CASE InsTab
    BY <1>1, <1>7, ChgInsertBlanks, ActsChg DEF InsTab
  <1>8. CASE InsBackspace
    BY <1>1, <1>8, ChgBackspace, ActsChg DEF InsBackspace
  <1>9. CASE InsNewline
    BY <1>1, <1>9, ChgNewline, ActsChg DEF InsNewline
  <1>10. CASE InsWord
    BY <1>1, <1>10, ChgDeleteWord, ActsChg DEF InsWord
  <1> QED
    BY <1>2, <1>3, <1>4, <1>5, <1>6, <1>7, <1>8, <1>9, <1>10

LEMMA VisualKeysAct ==
    ASSUME EdInv, VisDelete \/ VisChange \/ VisYank \/ VisPaste
    PROVE  Acts
  <1>1. Fit(vi) /\ Placed(vi)
    BY ViRuns DEF VisDelete, VisChange, VisYank, VisPaste
  <1>2. ASSUME NEW p \in Places(vi), NEW linewise \in BOOLEAN
        PROVE  LET d == VisualDelete(p, linewise)
               IN  /\ Works(vi, d)
                   /\ Works(vi, IF d.mode = "undef" THEN d ELSE [d EXCEPT !.mode = "ins"])
                   /\ Works(vi, IF d.mode = "undef" THEN d ELSE PasteBefore(d))
                   /\ Works(vi, YankRange(At(p), vi.row, vi.col, p[1], p[2], linewise))
    BY <1>1, WorksVisual DEF VisualDelete, At
  <1>3. CASE VisDelete
    <2>1. PICK p \in Places(vi), linewise \in BOOLEAN : ViEdits(VisualDelete(p, linewise))
      BY <1>3 DEF VisDelete
    <2> QED
      BY <1>2, <2>1, ActsBy
  <1>4. CASE VisChange
    <2>1. PICK p \in Places(vi), linewise \in BOOLEAN :
             LET d == VisualDelete(p, linewise)
             IN  ViEdits(IF d.mode = "undef" THEN d ELSE [d EXCEPT !.mode = "ins"])
      BY <1>4 DEF VisChange
    <2> QED
      BY <1>2, <2>1, ActsBy
  <1>5. CASE VisYank
    <2>1. PICK p \in Places(vi), linewise \in BOOLEAN :
             ViEdits(YankRange(At(p), vi.row, vi.col, p[1], p[2], linewise))
      BY <1>5 DEF VisYank
    <2> QED
      BY <1>2, <2>1, ActsBy
  <1>6. CASE VisPaste
    <2>1. PICK p \in Places(vi), linewise \in BOOLEAN :
             LET d == VisualDelete(p, linewise)
             IN  ViEdits(IF d.mode = "undef" THEN d ELSE PasteBefore(d))
      BY <1>6 DEF VisPaste
    <2> QED
      BY <1>2, <2>1, ActsBy
  <1> QED
    BY <1>3, <1>4, <1>5, <1>6

LEMMA CommandsAct ==
    ASSUME EdInv, CmdRead \/ CmdSubstitute \/ CmdIndent \/ KeyUndo \/ KeyRedo
    PROVE  Acts
  <1>1. Fit(vi) /\ Placed(vi) /\ FilesGood(files)
    BY ViRuns DEF CmdRead, CmdSubstitute, CmdIndent, KeyUndo, KeyRedo, Ins
  <1>2. CASE CmdRead
    <2>1. PICK p \in Paths : ViEdits(ReadFile(vi, files[p]))
      BY <1>2 DEF CmdRead
    <2>2. files[p] \in Str \cup {Absent}
      BY <1>1 DEF FilesGood
    <2> QED
      BY <1>1, <2>1, <2>2, WorksReadFile, ActsBy
  <1>3. CASE CmdSubstitute
    <2>1. PICK R \in {{vi.row}, 0 .. vi.lcount - 1}, pat \in Patterns, rep \in Reps :
             ViEdits(Substitute(vi, R, pat, rep))
      BY <1>3 DEF CmdSubstitute
    <2>2. R \in SUBSET RowNos
      <3>1. vi.row \in RowNos /\ \A i \in 0 .. vi.lcount - 1 : i \in RowNos
        BY <1>1, FitFacts
      <3> QED
        BY <3>1
    <2>3. pat \in Str /\ rep \in Str
      BY ViAssumption DEF Str
    <2> QED
      BY <1>1, <2>1, <2>2, <2>3, WorksSubstitute, ActsBy
  <1>4. CASE CmdIndent
    <2>1. PICK b \in {Indent(vi), Outdent(vi)} : ViEdits(b)
      BY <1>4 DEF CmdIndent
    <2> QED
      BY <1>1, <2>1, ChgIndent, ChgOutdent, ActsChg
  <1>5. CASE KeyUndo
    BY <1>1, <1>5, DoesUndo DEF KeyUndo, ViMoves, Acts
  <1>6. CASE KeyRedo
    BY <1>1, <1>6, DoesRedo DEF KeyRedo, ViMoves, Acts
  <1> QED
    BY <1>2, <1>3, <1>4, <1>5, <1>6

----------------------------------------------------------------------------
(* The invariant is kept: vi *)

\* What LeaveSaved says of a step, for each editor.
ViLeaves ==
    ViAlive /\ vi'.mode = "off" =>
      \/ vi'.left = "discard"
      \/ vi'.left = "quit" /\ vi.disk # "same"
      \/ Holds(files'[vi.fname], vi, {ViBytes(vi)})

NanoLeaves ==
    nano.on /\ ~nano'.on =>
      \/ nano'.left \in {"discard", "failed"}
      \/ nano'.left = "quit" /\ nano.torn
      \/ Holds(files'[nano.fname], nano, NanoSaved(nano))

\* A step of one editor: the other is off or lost.
LEMMA ViSteps ==
    ASSUME EdInv, ~nano.on, UNCHANGED nano, FilesGood(files'), ViGood(vi', files')
    PROVE  EdInv'
  <1>1. nano' \in NanoBufs /\ Placed(nano') /\ ~nano'.on /\ (nano'.ask => nano'.on)
    BY DEF EdInv, NanoGood
  <1>2. NanoGood(nano', files')
    BY <1>1 DEF NanoGood
  <1> QED
    BY <1>1, <1>2 DEF EdInv

LEMMA NanoSteps ==
    ASSUME EdInv, vi.mode = "off", UNCHANGED vi, FilesGood(files'), NanoGood(nano', files')
    PROVE  EdInv'
  <1>1. vi' \in ViBufs /\ vi'.mode = "off"
    BY DEF EdInv, ViGood
  <1>2. ViGood(vi', files')
    BY <1>1 DEF ViGood, Live
  <1> QED
    BY <1>1, <1>2 DEF EdInv

LEMMA FreshFacts ==
    ASSUME NEW b \in ViBufs, NEW d, d = ViFresh(b)
    PROVE  /\ d \in ViBufs /\ d.mode = "off" /\ d.row = 0 /\ d.col = 0 /\ ~d.undo.valid
  <1>1. /\ ViOff \in ViBufs /\ ViOff.mode = "off" /\ ViOff.row = 0 /\ ViOff.col = 0
        /\ ~ViOff.undo.valid
    BY OffFacts
  <1>2. b.rows \in Rows /\ b.yank \in Yanks /\ b.redo \in Redos
    BY BufFacts
  <1> QED
    BY <1>1, <1>2 DEF ViFresh, ViBufs

LEMMA QuitFacts ==
    ASSUME vi \in ViBufs, NEW how \in Lefts, NEW d, d = ViQuits(how)
    PROVE  d \in ViBufs /\ d.mode = "off" /\ d.left = how
  <1> DEFINE f == ViFresh(vi)
  <1>1. f \in ViBufs /\ f.mode = "off" /\ d = [f EXCEPT !.left = how]
    BY FreshFacts DEF ViQuits
  <1> HIDE DEF f
  <1> QED
    BY <1>1, ZenonT(60) DEF ViBufs

\* What ViStart and CmdEdit do to a loaded buffer.
Opens(l, m, p, x, k) ==
    [l EXCEPT !.row = 0, !.col = 0, !.mode = m, !.fname = p, !.exact = x, !.disk = k]

LEMMA OpensFacts ==
    ASSUME NEW l \in ViBufs, NEW m \in Live, NEW p \in Paths, NEW x \in BOOLEAN,
           NEW k \in Disks, NEW d, d = Opens(l, m, p, x, k)
    PROVE  /\ d \in ViBufs /\ d.rows = l.rows /\ d.lcount = l.lcount /\ d.row = 0 /\ d.col = 0
           /\ d.mode = m /\ d.fname = p /\ d.disk = k /\ d.undo = l.undo /\ d.exact = x
  <1>1. 0 \in RowNos
    BY Numbers DEF RowNos
  <1> QED
    BY <1>1 DEF Opens, ViBufs

LEMMA StartsGood ==
    ASSUME EdInv, ShellVi
    PROVE  EdInv'
  <1>1. vi \in ViBufs /\ FilesGood(files) /\ ~nano.on /\ UNCHANGED nano
    BY ViRuns DEF ShellVi, Idle
  <1>2. PICK p \in Paths, q \in Paths : ViStart(p, q)
    BY DEF ShellVi
  <1> DEFINE f == ViFresh(vi)
             l == Load(f, files[p])
             k == IF p = q THEN "same" ELSE "other"
             d == [l EXCEPT !.mode = "norm", !.fname = q, !.disk = k]
             m == "norm"
  <1>3. vi' = Settled(d) /\ files' = files
    BY <1>2 DEF ViStart, ViEdits
  <1>4. f \in ViBufs /\ f.row = 0 /\ f.col = 0 /\ ~f.undo.valid
    BY <1>1, FreshFacts
  <1>5. files[p] \in Str \cup {Absent}
    BY <1>1 DEF FilesGood
  <1> HIDE DEF f
  <1>6. l \in ViBufs /\ l.row = 0 /\ l.col = 0 /\ ~l.undo.valid
    BY <1>4, <1>5, LoadVi
  <1>7. k \in Disks /\ m \in Live /\ (k = "same" => p = q)
    BY DEF Disks, Live
  <1>8. \E x \in BOOLEAN : d = Opens(l, m, q, x, k)
    <2>0. l = Load(f, files[p])
      OBVIOUS
    <2> HIDE DEF l
    <2>1. l.exact \in BOOLEAN
      BY <1>6, BufFacts
    <2> HIDE DEF k
    <2>2. d = Opens(l, m, q, l.exact, k)
      BY <1>6 DEF Opens, ViBufs
    <2> QED
      BY <2>1, <2>2
  <1> HIDE DEF d, l, k, m
  <1>9. PICK x \in BOOLEAN : d = Opens(l, m, q, x, k)
    BY <1>8
  <1>10. /\ d \in ViBufs /\ d.rows = l.rows /\ d.lcount = l.lcount /\ d.row = 0 /\ d.col = 0
         /\ d.mode = m /\ d.fname = q /\ d.disk = k /\ d.undo = l.undo
    BY <1>6, <1>7, <1>9, OpensFacts
  <1>11. UndoOK(d)
    BY <1>6, <1>10 DEF UndoOK
  <1>12. ViGood(vi', files)
    <2>1. l = Load(f, files[p])
      BY DEF l
    <2>2. d.mode \in Live /\ (d.disk = "same" => p = q)
      BY <1>7, <1>10
    <2> QED
      BY <1>1, <1>3, <1>4, <1>10, <1>11, <2>1, <2>2, ViGoodLoads
  <1> QED
    BY <1>1, <1>3, <1>12, ViSteps

LEMMA EditGood ==
    ASSUME EdInv, CmdEdit, UNCHANGED nano
    PROVE  EdInv' /\ ViLeaves
  <1>1. vi \in ViBufs /\ FilesGood(files) /\ ~nano.on /\ Fit(vi) /\ vi.mode \in Live
    BY ViRuns DEF CmdEdit
  <1>2. PICK p \in Paths :
           ViEdits([Load(vi, files[p]) EXCEPT !.row = 0, !.col = 0, !.fname = p,
                                              !.exact = FALSE, !.disk = "same"])
    BY DEF CmdEdit
  <1> DEFINE l == Load(vi, files[p])
             k == "same"
             x == FALSE
             d == [l EXCEPT !.row = 0, !.col = 0, !.fname = p, !.exact = x, !.disk = k]
             m == vi.mode
  <1>3. vi' = Settled(d) /\ files' = files
    BY <1>2 DEF ViEdits
  <1>5. files[p] \in Str \cup {Absent}
    BY <1>1 DEF FilesGood
  <1>6. l \in ViBufs /\ l.mode = m /\ l.undo = vi.undo
    BY <1>1, <1>5, LoadVi
  <1>7. k \in Disks /\ x \in BOOLEAN /\ ~x
    BY DEF Disks
  <1>8. d = Opens(l, m, p, x, k)
    <2> HIDE DEF l, k, x, m
    <2> QED
      BY <1>6 DEF Opens, ViBufs
  <1>9. l = Load(vi, files[p]) /\ m \in Live
    BY <1>1
  <1> HIDE DEF d, l, k, m, x
  <1>10. /\ d \in ViBufs /\ d.rows = l.rows /\ d.lcount = l.lcount /\ d.row = 0 /\ d.col = 0
         /\ d.mode = m /\ d.fname = p /\ d.disk = k /\ d.undo = l.undo /\ d.exact = x
    BY <1>6, <1>7, <1>8, <1>9, OpensFacts
  <1>11. UndoOK(d)
    BY <1>1, <1>6, <1>7, <1>10 DEF UndoOK, Fit
  <1>12. ViGood(vi', files) /\ vi'.mode # "off"
    BY <1>1, <1>3, <1>9, <1>10, <1>11, ViGoodLoads
  <1> QED
    BY <1>1, <1>3, <1>12, ViSteps DEF ViLeaves

LEMMA ActsGood ==
    ASSUME EdInv, vi.mode \in Live, Acts, UNCHANGED nano
    PROVE  EdInv' /\ ViLeaves
  <1>1. FilesGood(files) /\ ~nano.on /\ ViGood(vi, files)
    BY ViRuns DEF EdInv
  <1>2. PICK d : Does(vi, d) /\ vi' = Settled(d) /\ files' = files
    BY DEF Acts
  <1>3. ViGood(vi', files) /\ vi'.mode # "off"
    BY <1>1, <1>2, ViGoodDoes
  <1> QED
    BY <1>1, <1>2, <1>3, ViSteps DEF ViLeaves

\* What saving leaves in the file.
LEMMA FilesPut ==
    ASSUME FilesGood(files), NEW p \in Paths, NEW f \in Str \cup {Absent},
           NEW fs, fs = [files EXCEPT ![p] = f]
    PROVE  FilesGood(fs) /\ fs[p] = f
  BY DEF FilesGood

LEMMA TornFacts ==
    ASSUME FilesGood(files), NEW p \in Paths, NEW s \in Str, NEW f \in Torn(p, s)
    PROVE  f \in Str \cup {Absent}
  <1>1. CASE f = files[p]
    BY <1>1 DEF FilesGood
  <1>2. CASE \E n \in 0 .. Len(s) - 1 : f = Take(s, n)
    <2>1. PICK n \in 0 .. Len(s) - 1 : f = Take(s, n)
      BY <1>2
    <2>2. n \in 0 .. Len(s)
      BY StrFacts
    <2> QED
      BY <2>1, <2>2, TakeFacts
  <1> QED
    BY <1>1, <1>2 DEF Torn

\* The text is as it was, and the file holds it or is known to be torn.
SavedAs(b, m, k) == [b EXCEPT !.modified = m, !.disk = k]

LEMMA SavedAsGood ==
    ASSUME NEW b, Fit(b), Placed(b), NEW m \in BOOLEAN, NEW k \in Disks, NEW fs,
           k = "same" => fs[b.fname] = ViBytes(b), NEW d, d = SavedAs(b, m, k)
    PROVE  ViGood(d, fs) /\ d.mode # "off"
  <1>1. b \in ViBufs
    BY DEF Fit
  <1>2. /\ d \in ViBufs /\ d.rows = b.rows /\ d.lcount = b.lcount /\ d.row = b.row
        /\ d.col = b.col /\ d.mode = b.mode /\ d.undo = b.undo /\ d.exact = b.exact
        /\ d.snap = b.snap /\ d.fname = b.fname /\ d.disk = k
    BY <1>1 DEF SavedAs, ViBufs
  <1>3. UndoOK(d)
    BY <1>2 DEF Fit, UndoOK, Brings
  <1>4. Fit(d) /\ Placed(d)
    BY <1>2, <1>3 DEF Fit, Placed, LLen, Line
  <1>5. ViBytes(d) = ViBytes(b)
    BY <1>2 DEF ViBytes, Text
  <1>6. d.mode # "off"
    BY <1>4 DEF Fit, Live
  <1> QED
    BY <1>2, <1>4, <1>5, <1>6 DEF ViGood, Holds

LEMMA WritesGood ==
    ASSUME EdInv, CmdWrite \/ CmdWriteFails, UNCHANGED nano
    PROVE  EdInv' /\ ViLeaves
  <1>1. vi \in ViBufs /\ FilesGood(files) /\ ~nano.on /\ Fit(vi) /\ Placed(vi)
    BY ViRuns DEF CmdWrite, CmdWriteFails
  <1>2. vi.fname \in Paths /\ vi.modified \in BOOLEAN /\ ViBytes(vi) \in Str
    BY <1>1, BufFacts, SavedBytes
  <1>3. CASE CmdWrite
    <2>1. files' = [files EXCEPT ![vi.fname] = ViBytes(vi)]
      BY <1>3 DEF CmdWrite
    <2>2. FilesGood(files') /\ files'[vi.fname] = ViBytes(vi)
      BY <1>1, <1>2, <2>1, FilesPut, ZenonT(60)
    <2> DEFINE m == FALSE
               k == "same"
    <2>3. vi' = SavedAs(vi, m, k) /\ m \in BOOLEAN /\ k \in Disks
      BY <1>3 DEF CmdWrite, SavedAs, Disks
    <2> HIDE DEF m, k
    <2>4. ViGood(vi', files') /\ vi'.mode # "off"
      BY <1>1, <2>2, <2>3, SavedAsGood
    <2> QED
      BY <1>1, <2>2, <2>4, ViSteps DEF ViLeaves
  <1>4. CASE CmdWriteFails
    <2>1. PICK f \in Torn(vi.fname, ViBytes(vi)) : files' = [files EXCEPT ![vi.fname] = f]
      BY <1>4 DEF CmdWriteFails
    <2>2. f \in Str \cup {Absent}
      BY <1>1, <1>2, TornFacts
    <2>3. FilesGood(files')
      BY <1>1, <1>2, <2>1, <2>2, FilesPut
    <2> DEFINE m == vi.modified
               k == "torn"
    <2>4. k \in Disks /\ k # "same" /\ m \in BOOLEAN
      BY <1>2 DEF Disks
    <2>5. vi' = SavedAs(vi, m, k)
      BY <1>1, <1>4 DEF CmdWriteFails, SavedAs, ViBufs
    <2> HIDE DEF m, k
    <2>6. ViGood(vi', files') /\ vi'.mode # "off"
      BY <1>1, <2>4, <2>5, SavedAsGood
    <2> QED
      BY <1>1, <2>3, <2>6, ViSteps DEF ViLeaves
  <1> QED
    BY <1>3, <1>4

LEMMA QuitsGood ==
    ASSUME EdInv, CmdQuit \/ CmdQuitNow \/ CmdWriteQuit, UNCHANGED nano
    PROVE  EdInv' /\ ViLeaves
  <1>1. vi \in ViBufs /\ FilesGood(files) /\ ~nano.on /\ ViGood(vi, files)
    BY ViRuns DEF CmdQuit, CmdQuitNow, CmdWriteQuit, EdInv
  <1>2. vi.fname \in Paths /\ ViBytes(vi) \in Str
    BY <1>1, BufFacts, SavedBytes
  <1>3. FilesGood(files')
    <2>1. CASE files' = files
      BY <1>1, <2>1
    <2>2. CASE files' = [files EXCEPT ![vi.fname] = ViBytes(vi)]
      BY <1>1, <1>2, <2>2, FilesPut
    <2> QED
      BY <2>1, <2>2 DEF CmdQuit, CmdQuitNow, CmdWriteQuit
  <1>4. CASE UNCHANGED << vi, files >>
    <2>1. ViGood(vi', files')
      BY <1>1, <1>4
    <2>2. ViLeaves
      BY <1>4 DEF ViLeaves, ViAlive
    <2> QED
      BY <1>1, <1>3, <2>1, <2>2, ViSteps
  <1>5. ASSUME NEW how \in Lefts, vi' = ViQuits(how)
        PROVE  EdInv' /\ vi'.left = how
    <2>1. vi' \in ViBufs /\ vi'.mode = "off" /\ vi'.left = how
      BY <1>1, <1>5, QuitFacts
    <2>2. ViGood(vi', files')
      BY <2>1 DEF ViGood, Live
    <2> QED
      BY <1>1, <1>3, <2>1, <2>2, ViSteps
  <1> DEFINE quit == "quit"
             discard == "discard"
             write == "write"
  <1>6. quit \in Lefts /\ discard \in Lefts /\ write \in Lefts
    BY DEF Lefts
  <1>7. CASE CmdQuit /\ ~vi.modified
    <2>1. vi' = ViQuits(quit) /\ files' = files /\ vi.mode \in Live
      BY <1>7 DEF CmdQuit, Normal, Live
    <2>2. EdInv' /\ vi'.left = quit
      BY <1>5, <1>6, <2>1
    <2>3. vi.disk = "same" => Holds(files[vi.fname], vi, {ViBytes(vi)})
      BY <1>1, <1>7, <2>1 DEF ViGood
    <2> QED
      BY <2>1, <2>2, <2>3 DEF ViLeaves
  <1>8. CASE CmdQuitNow
    <2>1. vi' = ViQuits(discard)
      BY <1>8 DEF CmdQuitNow
    <2>2. EdInv' /\ vi'.left = discard
      BY <1>5, <1>6, <2>1
    <2> QED
      BY <2>2 DEF ViLeaves
  <1>9. CASE CmdWriteQuit
    <2>1. vi' = ViQuits(write) /\ files' = [files EXCEPT ![vi.fname] = ViBytes(vi)]
      BY <1>9 DEF CmdWriteQuit
    <2>2. EdInv'
      BY <1>5, <1>6, <2>1
    <2>3. files'[vi.fname] = ViBytes(vi)
      BY <1>1, <1>2, <2>1, FilesPut
    <2> QED
      BY <2>2, <2>3 DEF ViLeaves, Holds
  <1>10. CASE CmdQuit /\ vi.modified
    BY <1>4, <1>10 DEF CmdQuit
  <1> QED
    BY <1>7, <1>8, <1>9, <1>10

LEMMA ViGoodStep ==
    ASSUME EdInv, ViStep, UNCHANGED nano
    PROVE  EdInv' /\ ViLeaves
  <1>1. CASE ViLost
    <2>1. FilesGood(files) /\ ViGood(vi, files) /\ ~nano.on
      BY <1>1 DEF EdInv, ViLost
    <2> QED
      BY <1>1, <2>1, ViSteps DEF ViLost, ViLeaves, ViAlive
  <1>2. CASE CmdWriteFails \/ CmdWrite
    BY <1>2, WritesGood
  <1>3. CASE CmdEdit
    BY <1>3, EditGood
  <1>4. CASE CmdQuit \/ CmdQuitNow \/ CmdWriteQuit
    BY <1>4, QuitsGood
  <1>5. ASSUME Acts, Normal \/ Ins
        PROVE  EdInv' /\ ViLeaves
    BY <1>5, ViRuns, ActsGood
  <1>6. CASE MotionKey \/ NormMotionKey \/ KeyGG \/ KeyF \/ SearchEnter \/ SearchEscape
    <2>1. Normal
      BY <1>6 DEF MotionKey, NormMotionKey, KeyGG, KeyF, SearchEnter, SearchEscape
    <2> QED
      BY <1>5, <1>6, <2>1, MotionKeysAct
  <1>7. CASE \/ KeyX \/ KeyXBack \/ KeyD \/ KeyC \/ KeyS \/ KeyJ \/ KeyP \/ KeyTilde
             \/ KeyDot \/ KeyReplace \/ KeyIndent \/ KeyOutdent \/ KeyDD \/ KeyYY \/ KeyCC
    <2>1. Normal
      BY <1>7 DEF KeyX, KeyXBack, KeyD, KeyC, KeyS, KeyJ, KeyP, KeyTilde, KeyDot,
                  KeyReplace, KeyIndent, KeyOutdent, KeyDD, KeyYY, KeyCC
    <2> QED
      BY <1>5, <1>7, <2>1, ChangeKeysAct
  <1>8. CASE \E op \in {"d", "y", "c"} : KeyOp(op)
    <2>1. Normal
      BY <1>8 DEF KeyOp
    <2> QED
      BY <1>5, <1>8, <2>1, OpKeysAct
  <1>9. CASE \/ EnterInsert \/ EnterOpen \/ InsArrow \/ InsType \/ InsTab
             \/ InsBackspace \/ InsNewline \/ InsWord \/ InsEscape
    <2>1. Normal \/ Ins
      BY <1>9 DEF EnterInsert, EnterOpen, InsArrow, InsType, InsTab,
                  InsBackspace, InsNewline, InsWord, InsEscape
    <2> QED
      BY <1>5, <1>9, <2>1, InsertKeysAct
  <1>10. CASE VisDelete \/ VisChange \/ VisYank \/ VisPaste
    <2>1. Normal
      BY <1>10 DEF VisDelete, VisChange, VisYank, VisPaste
    <2> QED
      BY <1>5, <1>10, <2>1, VisualKeysAct
  <1>11. CASE CmdRead \/ CmdSubstitute \/ CmdIndent \/ KeyUndo \/ KeyRedo
    <2>1. Normal \/ Ins
      BY <1>11 DEF CmdRead, CmdSubstitute, CmdIndent, KeyUndo, KeyRedo, Ins
    <2> QED
      BY <1>5, <1>11, <2>1, CommandsAct
  <1> QED
    BY <1>1, <1>2, <1>3, <1>4, <1>6, <1>7, <1>8, <1>9, <1>10, <1>11 DEF ViStep, ViBounded

----------------------------------------------------------------------------
(* The invariant is kept: nano *)

\* Nano goes on and what was done to the text is known.
NanoDoes(b, d) ==
    /\ d \in NanoBufs /\ d.row < d.lcount
    /\ d.on = b.on /\ d.ask = b.ask /\ d.fname = b.fname /\ d.torn = b.torn
    /\ ~d.modified => ~b.modified /\ d.rows = b.rows /\ d.lcount = b.lcount

LEMMA NanoClamp ==
    ASSUME NEW d \in NanoBufs, d.row < d.lcount, NEW e, e = Clamp(d)
    PROVE  /\ e \in NanoBufs /\ Placed(e) /\ e.rows = d.rows /\ e.lcount = d.lcount
           /\ e.on = d.on /\ e.ask = d.ask /\ e.fname = d.fname /\ e.torn = d.torn
           /\ e.modified = d.modified
  <1>1. Ready(d)
    BY DEF Ready
  <1>2. /\ d.row \in Nat /\ d.lcount \in Nat /\ d.col \in Nat /\ LLen(d) \in Nat
        /\ d.row \in RowNos
    BY <1>1, ReadyFacts
  <1> DEFINE c == Least(d.col, LLen(d))
             r == Greatest(0, Least(d.row, d.lcount - 1))
  <1>3. c \in Nat /\ c <= LLen(d) /\ r = d.row
    BY <1>2 DEF Least, Greatest
  <1>4. e = [d EXCEPT !.col = c, !.row = r]
    BY DEF Clamp
  <1> HIDE DEF c, r
  <1>5. /\ e \in NanoBufs /\ e.rows = d.rows /\ e.lcount = d.lcount /\ e.row = d.row /\ e.col = c
        /\ e.on = d.on /\ e.ask = d.ask /\ e.fname = d.fname /\ e.torn = d.torn
        /\ e.modified = d.modified
    BY <1>2, <1>3, <1>4 DEF NanoBufs
  <1> QED
    BY <1>3, <1>5 DEF Placed, LLen, Line

LEMMA NanoSettled ==
    ASSUME NEW b, NEW fs, FilesGood(fs), NanoGood(b, fs), NEW d, NanoDoes(b, d),
           NEW e, e = Clamp(d)
    PROVE  NanoGood(e, fs) /\ e.on = b.on
  <1>1. /\ e \in NanoBufs /\ Placed(e) /\ e.rows = d.rows /\ e.lcount = d.lcount
        /\ e.on = b.on /\ e.ask = b.ask /\ e.fname = b.fname /\ e.torn = b.torn
        /\ e.modified = d.modified
    BY NanoClamp DEF NanoDoes
  <1>2. b \in NanoBufs /\ (b.ask => b.on)
    BY DEF NanoGood
  <1>3. ASSUME e.on, ~e.modified, ~e.torn
        PROVE  Holds(fs[e.fname], e, NanoSaved(e))
    <2>1. ~b.modified /\ e.rows = b.rows /\ e.lcount = b.lcount /\ b.on /\ ~b.torn
      BY <1>1, <1>3 DEF NanoDoes
    <2>2. Holds(fs[b.fname], b, NanoSaved(b))
      BY <2>1 DEF NanoGood
    <2>3. fs[b.fname] \in Str \cup {Absent}
      BY <1>2 DEF FilesGood, NanoBufs
    <2> QED
      BY <1>1, <1>2, <2>1, <2>2, <2>3, HoldsSame
  <1> QED
    BY <1>1, <1>2, <1>3 DEF NanoGood

LEMMA NanoDoesEdit ==
    ASSUME NEW b \in NanoBufs, NEW R \in Rows, NEW n \in 1 .. MaxLines, NEW r \in RowNos,
           r < n, NEW c \in Nat, NEW d, d = Edited(b, R, n, r, c)
    PROVE  NanoDoes(b, d)
  <1>1. /\ d \in NanoBufs /\ d.lcount = n /\ d.row = r /\ d.modified = TRUE
        /\ d.on = b.on /\ d.ask = b.ask /\ d.fname = b.fname /\ d.torn = b.torn
    BY DEF Edited, NanoBufs
  <1>2. d.row < d.lcount
    BY <1>1
  <1> QED
    BY <1>1, <1>2 DEF NanoDoes

LEMMA NanoDoesSame ==
    ASSUME NEW b \in NanoBufs, b.row < b.lcount
    PROVE  NanoDoes(b, b)
  BY DEF NanoDoes

LEMMA NanoDoesGo ==
    ASSUME NEW b \in NanoBufs, b.row < b.lcount, NEW d, Goes(b, d)
    PROVE  NanoDoes(b, d)
  <1>1. PICK r \in 0 .. b.lcount - 1, c \in Nat : d = [b EXCEPT !.row = r, !.col = c]
    BY DEF Goes
  <1>2. Ready(b)
    BY DEF Ready
  <1>3. r \in RowNos /\ r < b.lcount
    BY <1>2, ReadyFacts
  <1> QED
    BY <1>1, <1>3 DEF NanoDoes, NanoBufs

LEMMA NanoKeys ==
    ASSUME NEW b \in NanoBufs, Placed(b)
    PROVE  /\ \A c \in Char : NanoDoes(b, InsertChar(b, c))
           /\ NanoDoes(b, InsertBlanks(b, 4 - (b.col % 4)))
           /\ NanoDoes(b, Backspace(b)) /\ NanoDoes(b, Newline(b))
           /\ \A d \in {Up(b), Down(b), Left(b), Right(b)} : NanoDoes(b, d)
  <1>1. Ready(b) /\ b.row < b.lcount
    BY DEF Ready, Placed
  <1>2. /\ b.rows \in Rows /\ b.lcount \in 1 .. MaxLines /\ b.row \in RowNos /\ b.row \in Nat
        /\ b.col \in Nat /\ b.lcount \in Nat
    BY <1>1, ReadyFacts
  <1>3. NanoDoes(b, b)
    BY <1>1, NanoDoesSame
  <1>4. ASSUME NEW s \in Fits, NEW k \in Nat, NEW d,
               d = Edited(b, Put(b.rows, b.row, s), b.lcount, b.row, k)
        PROVE  NanoDoes(b, d)
    <2>1. Put(b.rows, b.row, s) \in Rows
      BY <1>2, PutRow
    <2> QED
      BY <1>1, <1>2, <1>4, <2>1, NanoDoesEdit
  <1>5. ASSUME NEW c \in Char
        PROVE  NanoDoes(b, InsertChar(b, c))
    <2>1. CASE InsertChar(b, c) # b
      <3>1. PICK s \in Fits : InsertChar(b, c) =
                              Edited(b, Put(b.rows, b.row, s), b.lcount, b.row, b.col + 1)
        BY <1>1, <2>1, InsertCharForm
      <3>2. b.col + 1 \in Nat
        BY <1>2
      <3> QED
        BY <1>4, <3>1, <3>2
    <2> QED
      BY <1>3, <2>1
  <1>6. NanoDoes(b, InsertBlanks(b, 4 - (b.col % 4)))
    <2> DEFINE n == 4 - (b.col % 4)
    <2>1. n \in Nat
      BY <1>2
    <2> HIDE DEF n
    <2>2. ASSUME InsertBlanks(b, n) # b
          PROVE  NanoDoes(b, InsertBlanks(b, n))
      <3>1. PICK s \in Fits, k \in Nat :
               InsertBlanks(b, n) = Edited(b, Put(b.rows, b.row, s), b.lcount, b.row, k)
        BY <1>1, <2>1, <2>2, InsertBlanksForm
      <3> QED
        BY <1>4, <3>1
    <2>3. NanoDoes(b, InsertBlanks(b, n))
      BY <1>3, <2>2
    <2> QED
      BY <2>3 DEF n
  <1>7. NanoDoes(b, Backspace(b))
    <2>1. CASE b.col > 0
      <3>1. PICK s \in Fits :
               Backspace(b) = Edited(b, Put(b.rows, b.row, s), b.lcount, b.row, b.col - 1)
        BY <1>1, <2>1, BackspaceForm
      <3>2. b.col - 1 \in Nat
        BY <1>2, <2>1
      <3> QED
        BY <1>4, <3>1, <3>2
    <2>2. CASE b.col = 0 /\ b.row = 0
      BY <1>1, <1>3, <2>2, BackspaceForm
    <2>3. CASE b.col = 0 /\ b.row > 0
      <3> DEFINE prev == b.rows[b.row - 1]
                 room == Least(MaxCol - 1 - Len(prev), LLen(b))
                 s    == prev \o Take(Line(b), room)
                 r    == b.row - 1
                 n    == b.lcount - 1
                 k    == Len(prev) + room
                 P    == Put(b.rows, r, s)
                 R    == RowsClosed(P, b.lcount, b.row, 1)
      <3>1. /\ s \in Fits /\ r \in RowNos /\ n \in 1 .. MaxLines /\ k \in Nat
            /\ Backspace(b) = Edited(b, R, n, r, k)
        BY <1>1, <2>3, BackspaceForm
      <3>2. r < n
        BY <1>1, <1>2
      <3> HIDE DEF s, r, n, k
      <3>3. P \in Rows
        BY <1>2, <3>1, PutRow
      <3> HIDE DEF P
      <3>4. R \in Rows
        BY <1>2, <3>3, ClosedFacts
      <3> HIDE DEF R
      <3> QED
        BY <3>1, <3>2, <3>4, NanoDoesEdit
    <2> QED
      BY <1>2, <2>1, <2>2, <2>3
  <1>8. NanoDoes(b, Newline(b))
    <2>1. CASE b.lcount >= MaxLines
      BY <1>1, <1>3, <2>1, NewlineForm
    <2>2. CASE b.lcount < MaxLines
      <3> DEFINE s == Take(Line(b), b.col)
                 t == Drop(Line(b), b.col)
                 r == b.row + 1
                 n == b.lcount + 1
                 P == Put(b.rows, b.row, s)
                 R == RowsOpened(P, b.lcount, r, t)
      <3>1. /\ s \in Fits /\ t \in Fits /\ r \in RowNos /\ n \in 1 .. MaxLines
            /\ Newline(b) = Edited(b, R, n, r, 0)
        BY <1>1, <2>2, NewlineForm
      <3>2. r < n /\ r \in Nat
        BY <1>1, <1>2
      <3> HIDE DEF s, t, r, n
      <3>3. P \in Rows
        BY <1>2, <3>1, PutRow
      <3> HIDE DEF P
      <3>4. R \in Rows
        BY <1>2, <3>1, <3>2, <3>3, OpenedFacts
      <3> HIDE DEF R
      <3> QED
        BY <3>1, <3>2, <3>4, NanoDoesEdit
    <2> QED
      BY <1>2, <2>1, <2>2, Numbers
  <1>9. ASSUME NEW d \in {Up(b), Down(b), Left(b), Right(b)}
        PROVE  NanoDoes(b, d)
    BY <1>1, UpDown, LeftRight, NanoDoesGo
  <1> QED
    BY <1>5, <1>6, <1>7, <1>8, <1>9

NanoAs(b, m, a, t) == [b EXCEPT !.modified = m, !.ask = a, !.torn = t]

LEMMA NanoAsGood ==
    ASSUME NEW b, b \in NanoBufs, Placed(b), b.on, NEW m \in BOOLEAN, NEW a \in BOOLEAN,
           NEW t \in BOOLEAN, NEW fs, FilesGood(fs),
           ~m /\ ~t => Holds(fs[b.fname], b, NanoSaved(b)),
           NEW d, d = NanoAs(b, m, a, t)
    PROVE  NanoGood(d, fs) /\ d.on
  <1>1. /\ d \in NanoBufs /\ d.rows = b.rows /\ d.lcount = b.lcount /\ d.row = b.row
        /\ d.col = b.col /\ d.on /\ d.modified = m /\ d.torn = t /\ d.fname = b.fname
    BY DEF NanoAs, NanoBufs
  <1>2. Placed(d)
    BY <1>1 DEF Placed, LLen, Line
  <1>3. fs[b.fname] \in Str \cup {Absent}
    BY DEF FilesGood, NanoBufs
  <1>4. ~m /\ ~t => Holds(fs[d.fname], d, NanoSaved(d))
    BY <1>1, <1>3, HoldsSame
  <1> QED
    BY <1>1, <1>2, <1>4 DEF NanoGood

LEMMA NanoQuitsGood ==
    ASSUME NEW how \in Lefts, NEW d, d = [NanoOff EXCEPT !.left = how], NEW fs
    PROVE  NanoGood(d, fs) /\ d.left = how
  <1>1. /\ NanoOff \in NanoBufs /\ NanoOff.row = 0 /\ NanoOff.col = 0 /\ NanoOff.lcount = 1
        /\ NanoOff.on = FALSE /\ NanoOff.ask = FALSE /\ NanoOff.rows = EmptyRows
    BY OffFacts
  <1>2. /\ d \in NanoBufs /\ d.row = 0 /\ d.col = 0 /\ d.lcount = 1
        /\ d.on = FALSE /\ d.ask = FALSE /\ d.rows = EmptyRows /\ d.left = how
    BY <1>1 DEF NanoBufs
  <1>3. Placed(d)
    <2>1. LLen(d) = 0
      BY <1>2, Numbers DEF LLen, Line, EmptyRows
    <2> QED
      BY <1>2, <2>1 DEF Placed
  <1> QED
    BY <1>2, <1>3 DEF NanoGood

NanoOpens(l, p) == [l EXCEPT !.on = TRUE, !.fname = p]

LEMMA NanoStartGood ==
    ASSUME EdInv, ShellNano
    PROVE  EdInv'
  <1>1. vi.mode = "off" /\ FilesGood(files) /\ UNCHANGED vi
    BY DEF ShellNano, Idle, EdInv
  <1>2. PICK p \in Paths : NanoStart(p)
    BY DEF ShellNano
  <1> DEFINE l == Load(NanoOff, files[p])
             d == NanoOpens(l, p)
  <1>3. nano' = Clamp(d) /\ files' = files
    BY <1>2 DEF NanoStart, NanoEdits, NanoOpens
  <1>4. files[p] \in Str \cup {Absent}
    BY <1>1 DEF FilesGood
  <1>5. /\ l \in NanoBufs /\ ~l.modified /\ l.row = 0 /\ l.col = 0 /\ ~l.ask /\ ~l.torn
        /\ Text(l) = LoadedText(files[p])
    BY <1>4, OffFacts, LoadNano
  <1> HIDE DEF l
  <1>6. /\ d \in NanoBufs /\ d.row = 0 /\ d.rows = l.rows /\ d.lcount = l.lcount
        /\ d.on /\ ~d.ask /\ ~d.torn /\ d.fname = p
    BY <1>5 DEF NanoOpens, NanoBufs
  <1> HIDE DEF d
  <1>7. d.row < d.lcount
    BY <1>6 DEF NanoBufs
  <1> DEFINE e == Clamp(d)
  <1>8. /\ e \in NanoBufs /\ Placed(e) /\ e.rows = l.rows /\ e.lcount = l.lcount
        /\ e.on /\ ~e.ask /\ e.fname = p
    BY <1>6, <1>7, NanoClamp
  <1>9. Holds(files[p], e, NanoSaved(e))
    <2> HIDE DEF e
    <2>1. Text(e) = Text(l)
      BY <1>8 DEF Text
    <2>2. Text(Load(e, files[p])) = Text(e)
      BY <1>4, <1>5, <1>8, <2>1, LoadText
    <2> QED
      BY <2>2 DEF Holds
  <1>10. NanoGood(e, files)
    <2> HIDE DEF e
    <2> QED
      BY <1>8, <1>9 DEF NanoGood
  <1> QED
    BY <1>1, <1>3, <1>10, NanoSteps

LEMMA NanoGoodStep ==
    ASSUME EdInv, NanoStep, UNCHANGED vi
    PROVE  EdInv' /\ NanoLeaves
  <1>1. /\ FilesGood(files) /\ NanoGood(nano, files) /\ nano \in NanoBufs /\ Placed(nano)
        /\ (nano.ask => nano.on)
    BY DEF EdInv, NanoGood
  <1>2. nano.on
    BY <1>1 DEF NanoStep, NanoType, NanoTab, NanoBackspace, NanoNewline, NanoArrow, NanoSave,
                NanoSaveFails, NanoExit, NanoYes, NanoYesFails, NanoNo, NanoCancel,
                NanoAbandon, NanoRuns
  <1>3. vi.mode = "off"
    BY <1>2 DEF EdInv
  <1>4. /\ nano.fname \in Paths /\ nano.modified \in BOOLEAN /\ nano.ask \in BOOLEAN
        /\ nano.torn \in BOOLEAN /\ NanoBytes(nano) \in Str
        /\ \A f \in NanoSaved(nano) : f \in Str
    BY <1>1, SavedBytes DEF NanoBufs
  <1>5. ASSUME NEW d, NanoDoes(nano, d), NanoEdits(d) \/ NanoMoves(d)
        PROVE  EdInv' /\ NanoLeaves
    <2>1. nano' = Clamp(d) /\ files' = files
      BY <1>5 DEF NanoEdits, NanoMoves
    <2>2. NanoGood(nano', files) /\ nano'.on
      BY <1>1, <1>2, <1>5, <2>1, NanoSettled
    <2> QED
      BY <1>1, <1>3, <2>1, <2>2, NanoSteps DEF NanoLeaves
  <1>6. CASE \E c \in Typed : NanoType(c)
    <2>1. PICK c \in Typed : NanoEdits(InsertChar(nano, c))
      BY <1>6 DEF NanoType
    <2>2. c \in Char
      BY NanoAssumption
    <2> QED
      BY <1>1, <1>5, <2>1, <2>2, NanoKeys
  <1>7. CASE NanoTab
    BY <1>1, <1>5, <1>7, NanoKeys DEF NanoTab
  <1>8. CASE NanoBackspace \/ NanoNewline
    BY <1>1, <1>5, <1>8, NanoKeys DEF NanoBackspace, NanoNewline
  <1>9. CASE NanoArrow
    BY <1>1, <1>5, <1>9, NanoKeys DEF NanoArrow
  <1>10. CASE NanoSave
    <2>1. PICK f \in NanoSaved(nano) :
             /\ files' = [files EXCEPT ![nano.fname] = f]
             /\ nano' = [nano EXCEPT !.modified = FALSE, !.torn = FALSE]
      BY <1>10 DEF NanoSave
    <2>2. FilesGood(files') /\ files'[nano.fname] = f
      BY <1>1, <1>4, <2>1, FilesPut
    <2>3. Holds(files'[nano.fname], nano, NanoSaved(nano))
      BY <2>2 DEF Holds
    <2> DEFINE o == FALSE
               a == nano.ask
    <2>4. nano' = NanoAs(nano, o, a, o) /\ o \in BOOLEAN /\ a \in BOOLEAN
      BY <1>1, <1>4, <2>1 DEF NanoAs, NanoBufs
    <2> HIDE DEF o, a
    <2>5. NanoGood(nano', files') /\ nano'.on
      BY <1>1, <1>2, <2>2, <2>3, <2>4, NanoAsGood
    <2> QED
      BY <1>3, <2>2, <2>5, NanoSteps DEF NanoLeaves
  <1>11. CASE NanoSaveFails
    <2>1. PICK f \in Torn(nano.fname, NanoBytes(nano)) :
             files' = [files EXCEPT ![nano.fname] = f]
      BY <1>11 DEF NanoSaveFails
    <2>2. FilesGood(files')
      BY <1>1, <1>4, <2>1, TornFacts, FilesPut
    <2> DEFINE t == TRUE
               m == nano.modified
               a == nano.ask
    <2>3. nano' = NanoAs(nano, m, a, t)
      BY <1>1, <1>11 DEF NanoSaveFails, NanoAs, NanoBufs
    <2>4. m \in BOOLEAN /\ a \in BOOLEAN /\ t \in BOOLEAN /\ t
      BY <1>4
    <2> HIDE DEF t, m, a
    <2>5. NanoGood(nano', files') /\ nano'.on
      BY <1>1, <1>2, <2>2, <2>3, <2>4, NanoAsGood
    <2> QED
      BY <1>3, <2>2, <2>5, NanoSteps DEF NanoLeaves
  <1>12. ASSUME NEW a \in BOOLEAN, nano' = [nano EXCEPT !.ask = a], files' = files
         PROVE  EdInv' /\ NanoLeaves
    <2> DEFINE m == nano.modified
               t == nano.torn
    <2>1. nano' = NanoAs(nano, m, a, t)
      BY <1>1, <1>12 DEF NanoAs, NanoBufs
    <2>2. m \in BOOLEAN /\ t \in BOOLEAN
      BY <1>4
    <2>3. ~m /\ ~t => Holds(files[nano.fname], nano, NanoSaved(nano))
      BY <1>1, <1>2 DEF NanoGood
    <2> HIDE DEF m, t
    <2>4. NanoGood(nano', files) /\ nano'.on
      BY <1>1, <1>2, <2>1, <2>2, <2>3, NanoAsGood
    <2> QED
      BY <1>1, <1>3, <1>12, <2>4, NanoSteps DEF NanoLeaves
  <1>13. ASSUME NEW how \in Lefts, NanoQuits(how), FilesGood(files')
         PROVE  EdInv' /\ nano'.left = how
    <2>1. NanoGood(nano', files') /\ nano'.left = how
      BY <1>13, NanoQuitsGood DEF NanoQuits
    <2> QED
      BY <1>3, <1>13, <2>1, NanoSteps
  <1> DEFINE quit == "quit"
             discard == "discard"
             write == "write"
             failed == "failed"
  <1>14. quit \in Lefts /\ discard \in Lefts /\ write \in Lefts /\ failed \in Lefts
    BY DEF Lefts
  <1>15. CASE NanoYes
    <2>1. PICK f \in NanoSaved(nano) : files' = [files EXCEPT ![nano.fname] = f]
      BY <1>15 DEF NanoYes
    <2>2. FilesGood(files') /\ files'[nano.fname] = f
      BY <1>1, <1>4, <2>1, FilesPut
    <2>3. NanoQuits(write)
      BY <1>15 DEF NanoYes
    <2>4. EdInv'
      BY <1>13, <1>14, <2>2, <2>3
    <2> QED
      BY <2>2, <2>4 DEF NanoLeaves, Holds
  <1>16. CASE NanoYesFails
    <2>1. PICK f \in Torn(nano.fname, NanoBytes(nano)) :
             files' = [files EXCEPT ![nano.fname] = f]
      BY <1>16 DEF NanoYesFails
    <2>2. FilesGood(files')
      BY <1>1, <1>4, <2>1, TornFacts, FilesPut
    <2>3. NanoQuits(failed)
      BY <1>16 DEF NanoYesFails
    <2>4. EdInv' /\ nano'.left = failed
      BY <1>13, <1>14, <2>2, <2>3
    <2> QED
      BY <2>4 DEF NanoLeaves
  <1>17. CASE NanoNo \/ NanoAbandon
    <2>1. FilesGood(files') /\ NanoQuits(discard)
      BY <1>1, <1>17 DEF NanoNo, NanoAbandon
    <2>2. EdInv' /\ nano'.left = discard
      BY <1>13, <1>14, <2>1
    <2> QED
      BY <2>2 DEF NanoLeaves
  <1>18. CASE NanoCancel
    BY <1>12, <1>18 DEF NanoCancel
  <1>19. CASE NanoExit
    <2>1. CASE nano.modified
      BY <1>12, <1>19, <2>1 DEF NanoExit
    <2>2. CASE ~nano.modified
      <3>1. FilesGood(files') /\ NanoQuits(quit) /\ files' = files
        BY <1>1, <1>19, <2>2 DEF NanoExit
      <3>2. EdInv' /\ nano'.left = quit
        BY <1>13, <1>14, <3>1
      <3>3. ~nano.torn => Holds(files[nano.fname], nano, NanoSaved(nano))
        BY <1>1, <1>2, <2>2 DEF NanoGood
      <3> QED
        BY <3>1, <3>2, <3>3 DEF NanoLeaves
    <2> QED
      BY <2>1, <2>2
  <1> QED
    BY <1>6, <1>7, <1>8, <1>9, <1>10, <1>11, <1>15, <1>16, <1>17, <1>18, <1>19 DEF NanoStep

----------------------------------------------------------------------------
(* What holds of every run *)

LEMMA EdInitGood ==
    ASSUME EdInit
    PROVE  EdInv
  <1>1. vi = ViOff /\ nano = NanoOff /\ files \in Starts
    BY DEF EdInit, ViInit, NanoInit
  <1>2. FilesGood(files)
    BY <1>1, EditorsAssumption DEF FilesGood, Str
  <1>3. ViGood(vi, files) /\ vi.mode = "off"
    BY <1>1, OffFacts DEF ViGood, Live
  <1>4. /\ nano \in NanoBufs /\ nano.row = 0 /\ nano.col = 0 /\ nano.lcount = 1
        /\ nano.rows = EmptyRows /\ ~nano.on /\ ~nano.ask
    BY <1>1, OffFacts
  <1>5. LLen(nano) = 0
    BY <1>4, Numbers DEF LLen, Line, EmptyRows
  <1>6. Placed(nano)
    BY <1>4, <1>5 DEF Placed
  <1>7. NanoGood(nano, files)
    BY <1>4, <1>6 DEF NanoGood
  <1> QED
    BY <1>2, <1>3, <1>7 DEF EdInv

LEMMA EdNextGood ==
    ASSUME EdInv, [EdNext]_edVars
    PROVE  EdInv' /\ ViLeaves /\ NanoLeaves
  <1>1. CASE UNCHANGED edVars
    <2>1. vi' = vi /\ nano' = nano /\ files' = files
      BY <1>1 DEF edVars
    <2>2. EdInv'
      BY <2>1 DEF EdInv
    <2> QED
      BY <2>1, <2>2 DEF ViLeaves, NanoLeaves, ViAlive
  <1>2. CASE ShellOther
    BY <1>1, <1>2 DEF ShellOther
  <1>3. CASE ShellVi
    <2>1. EdInv'
      BY <1>3, StartsGood
    <2> QED
      BY <1>3, <2>1 DEF ViLeaves, NanoLeaves, ViAlive, ShellVi, Idle
  <1>4. CASE ShellNano
    <2>1. EdInv'
      BY <1>4, NanoStartGood
    <2> QED
      BY <1>4, <2>1 DEF ViLeaves, NanoLeaves, ViAlive, ShellNano, Idle
  <1>5. CASE ViStep /\ UNCHANGED nano
    <2>1. EdInv' /\ ViLeaves
      BY <1>5, ViGoodStep
    <2> QED
      BY <1>5, <2>1 DEF NanoLeaves
  <1>6. CASE NanoStep /\ UNCHANGED vi
    <2>1. EdInv' /\ NanoLeaves
      BY <1>6, NanoGoodStep
    <2> QED
      BY <1>6, <2>1 DEF ViLeaves, ViAlive
  <1> QED
    BY <1>1, <1>2, <1>3, <1>4, <1>5, <1>6 DEF EdNext

\* The invariant of the two editors: files are characters, the variables have
\* their types, the cursor is in the text, undo that is still exact brings back
\* the text it saved, an editor whose text is not marked modified (and whose
\* file no failed save has torn) has in its file what a save would write or what
\* loads as the text, and one editor runs at a time.
THEOREM EditorsInvariant == EdSpec => []EdInv
  <1>1. EdInit => EdInv
    BY EdInitGood
  <1>2. EdInv /\ [EdNext]_edVars => EdInv'
    BY EdNextGood
  <1> QED
    BY <1>1, <1>2, PTL DEF EdSpec

LEMMA ShapedBy ==
    ASSUME NEW b, Ready(b), Placed(b)
    PROVE  Shaped(b)
  <1>1. /\ b.rows \in Rows /\ b.lcount \in 1 .. MaxLines /\ b.row \in 0 .. b.lcount - 1
        /\ b.col \in Nat /\ LLen(b) \in Nat
    BY ReadyFacts
  <1>2. b.col \in 0 .. Len(b.rows[b.row])
    BY <1>1 DEF Placed, LLen, Line
  <1>3. \A i \in 0 .. MaxLines - 1 : Len(b.rows[i]) < MaxCol
    BY <1>1, RowFacts, Numbers DEF RowNos
  <1> QED
    BY <1>1, <1>2, <1>3 DEF Shaped

\* In every state of an editor that runs, the commands aside that end in "undef",
\* the cursor is on a character or at the end of a line of the text, the text
\* fits the array and the rows, and vi's register its buffer: the indexes the
\* next key uses without a test are in range.
THEOREM BuffersSound == EdSpec => []BufferSound
  <1>1. ASSUME EdInv
        PROVE  BufferSound
    <2>1. ASSUME ViAlive
          PROVE  Shaped(vi) /\ Len(vi.yank.text) < YankMax
      <3>1. Fit(vi) /\ Placed(vi)
        BY <1>1, <2>1, ViRuns
      <3>2. Ready(vi) /\ vi \in ViBufs
        BY <3>1 DEF Ready, Fit
      <3> QED
        BY <3>1, <3>2, ShapedBy, BufFacts
    <2>2. Shaped(nano)
      <3>1. Ready(nano) /\ Placed(nano)
        BY <1>1 DEF EdInv, NanoGood, Ready, Placed
      <3> QED
        BY <3>1, ShapedBy
    <2> QED
      BY <2>1, <2>2 DEF BufferSound
  <1> QED
    BY <1>1, EditorsInvariant, PTL

\* An editor is never left, without discarding the text or after a failed save,
\* while its file holds another text: "modified" is clear only when it may be.
THEOREM LeavesSaved == EdSpec => LeaveSaved
  <1>1. EdInv /\ [EdNext]_edVars => [ViLeaves /\ NanoLeaves]_edVars
    BY EdNextGood
  <1> QED
    BY <1>1, EditorsInvariant, PTL DEF EdSpec, LeaveSaved, ViLeaves, NanoLeaves

\* u brings back the text undo saved, as long as only the saved line was changed
\* since, or lines came and went at the end.
THEOREM UndoIsExact == EdSpec => []UndoRestores
  <1>1. ASSUME EdInv, ViAlive, vi.undo.valid, vi.exact
        PROVE  Text(Undo(vi)) = vi.snap
    <2>1. Fit(vi) /\ vi \in ViBufs
      BY <1>1, ViRuns DEF Fit
    <2>2. Brings(vi)
      BY <1>1, <2>1 DEF Fit, UndoOK
    <2> DEFINE n == vi.undo.lcount
               r == vi.undo.row
               s == vi.undo.line
               R == Put(vi.rows, r, s)
               t == Text(Undo(vi))
    <2>3. /\ vi.rows \in Rows /\ n \in 0 .. MaxLines /\ r \in RowNos /\ s \in Fits
          /\ vi.snap \in Seq(Fits)
      BY <2>1, BufFacts
    <2>4. Undo(vi).rows = R /\ Undo(vi).lcount = n
      BY <1>1, <2>1 DEF Undo, Put, ViBufs
    <2>5. t = [i \in 1 .. n |-> R[i - 1]]
      BY <2>4 DEF Text
    <2>6. Len(vi.snap) = n /\ \A i \in 0 .. n - 1 : vi.snap[i + 1] = IF i = r THEN s ELSE vi.rows[i]
      BY <2>2 DEF Brings
    <2> HIDE DEF n, r, s
    <2>7. \A i \in RowNos : R[i] = IF i = r THEN s ELSE vi.rows[i]
      BY <2>3, PutRow
    <2> HIDE DEF R, t
    <2>8. ASSUME NEW i \in 1 .. n
          PROVE  vi.snap[i] = R[i - 1]
      <3> DEFINE j == i - 1
      <3>1. j \in 0 .. n - 1 /\ j \in RowNos /\ j + 1 = i
        BY <2>3, Numbers DEF RowNos
      <3> HIDE DEF j
      <3>2. vi.snap[j + 1] = R[j]
        BY <2>6, <2>7, <3>1
      <3> QED
        BY <3>1, <3>2 DEF j
    <2>9. DOMAIN vi.snap = 1 .. n /\ vi.snap = [i \in DOMAIN vi.snap |-> vi.snap[i]]
      BY <2>3, <2>6
    <2>10. vi.snap = [i \in 1 .. n |-> R[i - 1]]
      BY <2>8, <2>9
    <2> QED
      BY <2>5, <2>10 DEF t
  <1>2. EdInv => UndoRestores
    BY <1>1 DEF UndoRestores
  <1> QED
    BY <1>2, EditorsInvariant, PTL

----------------------------------------------------------------------------
(* Saving and loading again *)

LEMMA PlainText ==
    ASSUME NEW b, b \in ViBufs \/ b \in NanoBufs,
           \A i \in 1 .. b.lcount : Chars(Text(b)[i]) \cap {NL, CR} = {}
    PROVE  Plain(Text(b))
  <1> DEFINE ls == Text(b)
  <1>1. Len(ls) = b.lcount /\ \A k \in 1 .. Len(ls) : ls[k] \in Str
    BY TextStr, StrFacts
  <1>2. \A k \in 1 .. Len(ls) : Chars(ls[k]) \cap {NL, CR} = {}
    BY <1>1
  <1> HIDE DEF ls
  <1>3. ASSUME NEW k \in 1 .. Len(ls), NEW i \in 1 .. Len(ls[k])
        PROVE  ls[k][i] \notin {NL, CR}
    <2>1. i \in DOMAIN ls[k]
      BY <1>1, StrFacts
    <2>2. ls[k][i] \in Chars(ls[k])
      BY <2>1 DEF Chars
    <2> QED
      BY <1>2, <2>2
  <1>4. Plain(ls)
    BY <1>3 DEF Plain
  <1> QED
    BY <1>4 DEF ls

\* Every line with its line end: one empty line is added.
LEMMA RoundTripBytes ==
    ASSUME NEW ls \in Seq(Fits), Len(ls) < MaxLines, Plain(ls)
    PROVE  Unpadded(LoadedText(Bytes(ls))) = Unpadded(ls)
  <1> DEFINE t == LoadedText(Bytes(ls))
  <1>1. /\ t \in Seq(Fits) /\ Len(t) = Len(ls) + 1 /\ t[Len(ls) + 1] = << >>
        /\ \A k \in 1 .. Len(ls) : t[k] = ls[k]
    BY LoadedBytes
  <1> HIDE DEF t
  <1>2. Unpadded(t) = Unpadded(ls)
    BY <1>1, UnpaddedSame
  <1> QED
    BY <1>2 DEF t

\* An empty last line without its line end: the text as it was.
LEMMA RoundTripLast ==
    ASSUME NEW ls \in Seq(Fits), NEW n \in Nat, Len(ls) = n + 1, n + 1 < MaxLines, Plain(ls),
           ls[n + 1] = << >>
    PROVE  LoadedText(Bytes(Take(ls, n))) = ls
  <1> DEFINE h == Take(ls, n)
             t == LoadedText(Bytes(h))
  <1>1. h \in Seq(Fits) /\ Len(h) = n /\ \A k \in 1 .. n : h[k] = ls[k]
    BY DEF Take
  <1>2. Plain(h)
    <2> HIDE DEF h
    <2>1. \A k \in 1 .. n : k \in 1 .. Len(ls)
      OBVIOUS
    <2> QED
      BY <1>1, <2>1 DEF Plain
  <1> HIDE DEF h
  <1>3. Len(h) < MaxLines
    BY <1>1, Numbers
  <1>4. /\ t \in Seq(Fits) /\ Len(t) = n + 1 /\ t[n + 1] = << >>
        /\ \A k \in 1 .. n : t[k] = h[k]
    BY <1>1, <1>2, <1>3, LoadedBytes
  <1> HIDE DEF t
  <1>5. \A k \in 1 .. n + 1 : t[k] = ls[k]
    <2>1. \A k \in 1 .. n + 1 : k \in 1 .. n \/ k = n + 1
      OBVIOUS
    <2> QED
      BY <1>1, <1>4, <2>1
  <1>6. t = ls
    BY <1>4, <1>5
  <1> QED
    BY <1>6 DEF t, h

\* What either editor saves it loads again line for line, line ends at the end
\* left aside, if no line holds a line end or a carriage return and the array has
\* a row left.
THEOREM RoundTrips == EdSpec => []RoundTrip
  <1>1. ASSUME EdInv, ViAlive, vi.lcount < MaxLines,
               \A i \in 1 .. vi.lcount : Chars(Text(vi)[i]) \cap {NL, CR} = {}
        PROVE  Unpadded(Text(Load(vi, ViBytes(vi)))) = Unpadded(Text(vi))
    <2> DEFINE ls == Text(vi)
               n  == vi.lcount - 1
               f  == ViBytes(vi)
    <2>1. vi \in ViBufs /\ Plain(ls)
      BY <1>1, ViRuns, PlainText
    <2>2. ls \in Seq(Fits) /\ Len(ls) = vi.lcount /\ vi.lcount \in 1 .. MaxLines /\ f \in Str
      BY <2>1, TextStr, SavedBytes
    <2>3. n \in Nat /\ Len(ls) = n + 1 /\ n + 1 < MaxLines /\ Len(ls) - 1 = n
      BY <1>1, <2>2, Numbers
    <2>4. Text(Load(vi, f)) = LoadedText(f)
      BY <2>1, <2>2, LoadText
    <2>5. f = IF ls[Len(ls)] = << >> THEN Bytes(Take(ls, Len(ls) - 1)) ELSE Bytes(ls)
      BY DEF ViBytes
    <2> HIDE DEF ls, n, f
    <2>6. CASE ls[Len(ls)] = << >>
      <3>1. f = Bytes(Take(ls, n)) /\ ls[n + 1] = << >>
        BY <2>3, <2>5, <2>6
      <3>2. LoadedText(f) = ls
        BY <2>1, <2>2, <2>3, <3>1, RoundTripLast
      <3>3. Unpadded(Text(Load(vi, f))) = Unpadded(ls)
        BY <2>4, <3>2
      <3> QED
        BY <3>3 DEF ls, f
    <2>7. CASE ls[Len(ls)] # << >>
      <3>1. f = Bytes(ls) /\ Len(ls) < MaxLines
        BY <2>3, <2>5, <2>7
      <3>2. Unpadded(Text(Load(vi, f))) = Unpadded(ls)
        BY <2>1, <2>2, <2>4, <3>1, RoundTripBytes
      <3> QED
        BY <3>2 DEF ls, f
    <2> QED
      BY <2>6, <2>7
  <1>2. ASSUME EdInv, nano.on, nano.lcount < MaxLines,
               \A i \in 1 .. nano.lcount : Chars(Text(nano)[i]) \cap {NL, CR} = {}
        PROVE  Unpadded(Text(Load(nano, NanoBytes(nano)))) = Unpadded(Text(nano))
    <2> DEFINE ls == Text(nano)
               f  == NanoBytes(nano)
    <2>1. nano \in NanoBufs
      BY <1>2 DEF EdInv, NanoGood
    <2>2. Plain(ls)
      BY <1>2, <2>1, PlainText
    <2>3. ls \in Seq(Fits) /\ Len(ls) < MaxLines /\ f \in Str /\ f = Bytes(ls)
      BY <1>2, <2>1, TextStr, SavedBytes DEF NanoBytes
    <2>4. Text(Load(nano, f)) = LoadedText(f)
      BY <2>1, <2>3, LoadText
    <2> HIDE DEF ls, f
    <2>5. Unpadded(Text(Load(nano, f))) = Unpadded(ls)
      BY <2>2, <2>3, <2>4, RoundTripBytes
    <2> QED
      BY <2>5 DEF ls, f
  <1>3. EdInv => RoundTrip
    BY <1>1, <1>2 DEF RoundTrip
  <1> QED
    BY <1>3, EditorsInvariant, PTL

----------------------------------------------------------------------------
(* Changes that take one another back *)

LEMMA SameRows ==
    ASSUME NEW b, NEW d, b.lcount \in Nat, d.lcount = b.lcount,
           \A i \in 0 .. b.lcount - 1 : d.rows[i] = b.rows[i]
    PROVE  Text(d) = Text(b)
  <1>1. \A i \in 1 .. b.lcount : i - 1 \in 0 .. b.lcount - 1
    OBVIOUS
  <1>2. \A i \in 1 .. b.lcount : d.rows[i - 1] = b.rows[i - 1]
    BY <1>1
  <1> QED
    BY <1>2 DEF Text

\* A line in two parts is the line.
LEMMA TakeDrop ==
    ASSUME NEW s \in Str, NEW n \in 0 .. Len(s)
    PROVE  Take(s, n) \o Drop(s, n) = s
  <1> DEFINE t == Take(s, n)
             u == Drop(s, n)
  <1>1. n \in Nat /\ Len(s) \in Nat /\ n <= Len(s)
    BY StrFacts
  <1>2. t \in Str /\ Len(t) = n /\ \A i \in 1 .. n : t[i] = s[i]
    BY TakeFacts
  <1>3. u \in Str /\ Len(u) = Len(s) - n /\ \A i \in 1 .. Len(s) - n : u[i] = s[n + i]
    BY <1>1, DropFacts
  <1> HIDE DEF t, u
  <1>4. /\ t \o u \in Str /\ Len(t \o u) = Len(s)
        /\ \A i \in 1 .. Len(s) : (t \o u)[i] = IF i <= n THEN t[i] ELSE u[i - n]
    BY <1>1, <1>2, <1>3, JoinFacts
  <1>5. ASSUME NEW i \in 1 .. Len(s)
        PROVE  (t \o u)[i] = s[i]
    <2>1. CASE i <= n
      BY <1>1, <1>2, <1>4, <2>1
    <2>2. CASE ~(i <= n)
      <3> DEFINE j == i - n
      <3>1. j \in 1 .. Len(s) - n /\ n + j = i
        BY <1>1, <2>2
      <3>2. (t \o u)[i] = u[j]
        BY <1>4, <2>2
      <3> HIDE DEF j
      <3>3. u[j] = s[n + j]
        BY <1>3, <3>1
      <3> QED
        BY <3>1, <3>2, <3>3
    <2> QED
      BY <2>1, <2>2
  <1>6. t \o u = s
    BY <1>4, <1>5, SameStr
  <1> QED
    BY <1>6 DEF t, u

LEMMA JoinEmpty ==
    ASSUME NEW s \in Str
    PROVE  s \o << >> = s /\ Take(s, Len(s)) = s
  <1>1. /\ Len(s) \in Nat /\ Take(s, Len(s)) \in Str /\ Len(Take(s, Len(s))) = Len(s)
        /\ \A i \in 1 .. Len(s) : Take(s, Len(s))[i] = s[i]
    BY StrFacts, TakeFacts
  <1>2. Take(s, Len(s)) = s
    BY <1>1, SameStr
  <1>3. s \o << >> = s
    BY DEF Str
  <1> QED
    BY <1>2, <1>3

Split(R, n, r, s, t) == RowsOpened(Put(R, r, s), n, r + 1, t)

\* The rows after a line was split.
LEMMA SplitRows ==
    ASSUME NEW R \in Rows, NEW n \in 1 .. MaxLines, n < MaxLines, NEW r \in 0 .. n - 1,
           NEW s \in Fits, NEW t \in Fits, NEW P, P = Split(R, n, r, s, t)
    PROVE  /\ P \in Rows /\ P[r] = s /\ P[r + 1] = t
           /\ \A i \in 0 .. n - 1 : /\ i < r => P[i] = R[i]
                                    /\ i > r => P[i + 1] = R[i]
  <1> DEFINE S == Put(R, r, s)
  <1>1. n \in Nat /\ r \in Nat /\ r \in RowNos /\ r + 1 \in RowNos /\ r + 1 \in Nat
    BY Numbers DEF RowNos
  <1>2. S \in Rows /\ S[r] = s /\ \A k \in RowNos : k # r => S[k] = R[k]
    BY <1>1, PutRow
  <1> HIDE DEF S
  <1>3. P = RowsOpened(S, n, r + 1, t)
    BY DEF S, Split
  <1>4. P \in Rows
    BY <1>1, <1>2, <1>3, OpenedFacts
  <1>5. DOMAIN S = RowNos /\ DOMAIN P = RowNos
    BY <1>2, <1>4, RowFacts
  <1>6. \A k \in RowNos : P[k] = IF k = r + 1 THEN t
                                 ELSE IF r + 1 < k /\ k <= n THEN S[k - 1] ELSE S[k]
    BY <1>3, <1>5 DEF RowsOpened
  <1>7. P[r] = s /\ P[r + 1] = t
    BY <1>1, <1>2, <1>6
  <1>8. ASSUME NEW i \in 0 .. n - 1
        PROVE  (i < r => P[i] = R[i]) /\ (i > r => P[i + 1] = R[i])
    <2> DEFINE k == i + 1
    <2>1. i \in Nat /\ i \in RowNos /\ k \in RowNos /\ k - 1 = i
      BY Numbers DEF RowNos
    <2>2. ASSUME i < r
          PROVE  P[i] = R[i]
      <3>1. i # r /\ i # r + 1 /\ ~(r + 1 < i)
        BY <1>1, <2>1, <2>2
      <3> QED
        BY <1>2, <1>6, <2>1, <3>1
    <2>3. ASSUME i > r
          PROVE  P[k] = R[i]
      <3>1. i # r /\ k # r + 1 /\ r + 1 < k /\ k <= n
        BY <1>1, <2>1, <2>3
      <3> HIDE DEF k
      <3>2. P[k] = S[i]
        BY <1>6, <2>1, <3>1
      <3> QED
        BY <1>2, <2>1, <3>1, <3>2
    <2> QED
      BY <2>2, <2>3
  <1> QED
    BY <1>4, <1>7, <1>8

\* The rows after two lines were joined.
LEMMA JoinedRows ==
    ASSUME NEW R \in Rows, NEW n \in 1 .. MaxLines, n < MaxLines, NEW r \in 0 .. n - 1,
           NEW Q \in Rows, Q[r] = R[r],
           \A i \in 0 .. n - 1 : (i < r => Q[i] = R[i]) /\ (i > r => Q[i + 1] = R[i]),
           NEW C, C = RowsClosed(Q, n + 1, r + 1, 1)
    PROVE  C \in Rows /\ \A i \in 0 .. n - 1 : C[i] = R[i]
  <1>1. n \in Nat /\ r \in Nat /\ n + 1 \in 1 .. MaxLines /\ r + 1 \in Nat
    BY Numbers
  <1>2. C \in Rows
    BY <1>1, ClosedFacts
  <1>3. DOMAIN Q = RowNos
    BY RowFacts
  <1>4. ASSUME NEW i \in 0 .. n - 1
        PROVE  C[i] = R[i]
    <2>1. i \in Nat /\ i \in RowNos
      BY Numbers DEF RowNos
    <2>2. C[i] = IF r + 1 <= i /\ i < n + 1 THEN Q[Least(i + 1, n + 1 - 1)] ELSE Q[i]
      BY <1>3, <2>1 DEF RowsClosed
    <2>3. CASE r < i
      <3>1. Least(i + 1, n + 1 - 1) = i + 1 /\ i < n + 1 /\ r + 1 <= i
        BY <1>1, <2>1, <2>3 DEF Least
      <3> QED
        BY <2>2, <2>3, <3>1
    <2>4. CASE i <= r
      <3>1. ~(r + 1 <= i)
        BY <1>1, <2>1, <2>4
      <3>2. i = r \/ i < r
        BY <1>1, <2>1, <2>4
      <3> QED
        BY <2>2, <3>1, <3>2
    <2> QED
      BY <1>1, <2>1, <2>3, <2>4
  <1> QED
    BY <1>2, <1>4

LEMMA EditedAny ==
    ASSUME NEW b, b \in ViBufs \/ b \in NanoBufs, NEW R \in Rows, NEW n \in 1 .. MaxLines,
           NEW r \in RowNos, NEW c \in Nat, NEW d, d = Edited(b, R, n, r, c)
    PROVE  /\ d \in ViBufs \/ d \in NanoBufs
           /\ d.rows = R /\ d.lcount = n /\ d.row = r /\ d.col = c
  <1>1. CASE b \in ViBufs
    BY <1>1 DEF Edited, ViBufs
  <1>2. CASE b \in NanoBufs
    BY <1>2 DEF Edited, NanoBufs
  <1> QED
    BY <1>1, <1>2

\* Backspace takes Enter back.
LEMMA EnterBack ==
    ASSUME NEW b, Ready(b), Placed(b), b.lcount < MaxLines
    PROVE  Text(Backspace(Newline(b))) = Text(b)
  <1> DEFINE L == Line(b)
             s == Take(L, b.col)
             t == Drop(L, b.col)
             r == b.row
             n == b.lcount
             P == RowsOpened(Put(b.rows, r, s), n, r + 1, t)
             e == Newline(b)
             d == Backspace(e)
             C == RowsClosed(Put(P, r, L), n + 1, r + 1, 1)
  <1>1. /\ b \in ViBufs \/ b \in NanoBufs
        /\ b.rows \in Rows /\ n \in 1 .. MaxLines /\ n \in Nat /\ r \in Nat /\ r \in RowNos
        /\ r \in 0 .. n - 1 /\ b.col \in Nat /\ L = b.rows[r] /\ L \in Fits /\ L \in Str
        /\ Len(L) \in Nat /\ Len(L) <= MaxCol - 1 /\ b.col \in 0 .. Len(L) /\ LLen(b) = Len(L)
    BY ReadyFacts DEF Placed
  <1>2. /\ s \in Fits /\ t \in Fits /\ r + 1 \in RowNos /\ n + 1 \in 1 .. MaxLines
        /\ e = Edited(b, P, n + 1, r + 1, 0)
    BY NewlineForm
  <1> HIDE DEF L
  <1>3. s \o t = L /\ Len(s) = b.col /\ Len(t) = Len(L) - b.col /\ t \in Str /\ s \in Str
    <2> DEFINE c == b.col
    <2>1. c \in 0 .. Len(L) /\ c \in Nat /\ c <= Len(L)
      BY <1>1
    <2> HIDE DEF c
    <2>2. Take(L, c) \o Drop(L, c) = L /\ Len(Take(L, c)) = c /\ Take(L, c) \in Str
      BY <1>1, <2>1, TakeDrop, TakeFacts
    <2>3. Len(Drop(L, c)) = Len(L) - c /\ Drop(L, c) \in Str
      BY <1>1, <2>1, DropFacts
    <2> QED
      BY <2>2, <2>3 DEF c
  <1> HIDE DEF s, t
  <1>4. /\ P \in Rows /\ P[r] = s /\ P[r + 1] = t /\ C \in Rows
        /\ \A i \in 0 .. n - 1 : C[i] = b.rows[i]
    <2> DEFINE R == b.rows
               Q == Put(P, r, L)
    <2>1. /\ R \in Rows /\ n \in 1 .. MaxLines /\ n < MaxLines /\ r \in 0 .. n - 1
          /\ P = Split(R, n, r, s, t) /\ L = R[r] /\ r \in RowNos
      BY <1>1 DEF Split
    <2> HIDE DEF R, n, r, P
    <2>2. /\ P \in Rows /\ P[r] = s /\ P[r + 1] = t
          /\ \A i \in 0 .. n - 1 : (i < r => P[i] = R[i]) /\ (i > r => P[i + 1] = R[i])
      BY <1>2, <2>1, SplitRows
    <2>3. Q \in Rows /\ Q[r] = L /\ \A k \in RowNos : k # r => Q[k] = P[k]
      BY <1>1, <2>1, <2>2, PutRow
    <2>4. C = RowsClosed(Q, n + 1, r + 1, 1)
      OBVIOUS
    <2> HIDE DEF Q, C
    <2>5. \A i \in 0 .. n - 1 : (i < r => Q[i] = R[i]) /\ (i > r => Q[i + 1] = R[i])
      <3>1. \A i \in 0 .. n - 1 : i \in RowNos /\ i + 1 \in RowNos /\ (i > r => i + 1 # r)
                                  /\ (i < r => i # r)
        BY <2>1, Numbers DEF RowNos
      <3> QED
        BY <2>2, <2>3, <3>1
    <2>6. C \in Rows /\ \A i \in 0 .. n - 1 : C[i] = R[i]
      BY <2>1, <2>3, <2>4, <2>5, JoinedRows
    <2> QED
      BY <2>2, <2>6 DEF R
  <1> HIDE DEF P
  <1>5. /\ e \in ViBufs \/ e \in NanoBufs
        /\ e.rows = P /\ e.lcount = n + 1 /\ e.row = r + 1 /\ e.col = 0
    <2> DEFINE p == n + 1
               q == r + 1
    <2>1. p \in 1 .. MaxLines /\ q \in RowNos /\ e = Edited(b, P, p, q, 0)
      BY <1>2
    <2> HIDE DEF p, q, e
    <2>0. 0 \in Nat
      OBVIOUS
    <2>2. (e \in ViBufs \/ e \in NanoBufs)
          /\ e.rows = P /\ e.lcount = p /\ e.row = q /\ e.col = 0
      BY <1>1, <1>4, <2>0, <2>1, EditedAny, SMTT(60)
    <2> QED
      BY <2>2 DEF p, q
  <1> HIDE DEF e
  <1>6. Line(e) = t /\ LLen(e) = Len(t)
    BY <1>4, <1>5 DEF Line, LLen
  <1>7. Ready(e) /\ Placed(e)
    BY <1>1, <1>3, <1>5, <1>6 DEF Ready, Placed
  <1> DEFINE prev == e.rows[e.row - 1]
             room == Least(MaxCol - 1 - Len(prev), LLen(e))
             j    == prev \o Take(Line(e), room)
             E    == RowsClosed(Put(e.rows, e.row - 1, j), e.lcount, e.row, 1)
  <1>8. e.col = 0 /\ e.row > 0
    BY <1>1, <1>5
  <1>9. /\ j \in Fits /\ room \in 0 .. LLen(e) /\ e.row - 1 \in RowNos /\ prev \in Fits
        /\ e.lcount - 1 \in 1 .. MaxLines /\ Len(prev) + room \in Nat
        /\ d = Edited(e, E, e.lcount - 1, e.row - 1, Len(prev) + room)
    BY <1>7, <1>8, BackspaceForm
  <1>10. e.row - 1 = r /\ e.lcount - 1 = n
    BY <1>1, <1>5
  <1>11. prev = s
    BY <1>4, <1>5, <1>10
  <1>12. room = Len(t)
    BY <1>1, <1>3, <1>6, <1>11, Numbers DEF Least
  <1>13. j = L
    BY <1>3, <1>6, <1>11, <1>12, JoinEmpty
  <1>14. E = C
    BY <1>5, <1>10, <1>13
  <1>15. d.rows = C /\ d.lcount = n
    <2> DEFINE c == Len(prev) + room
    <2>1. c \in Nat /\ d = Edited(e, C, n, r, c)
      BY <1>9, <1>10, <1>14
    <2> HIDE DEF c, C, d
    <2> QED
      BY <1>1, <1>4, <1>5, <2>1, EditedAny
  <1> HIDE DEF C, d, prev, room, j, E
  <1>16. Text(d) = Text(b)
    BY <1>1, <1>4, <1>15, SameRows
  <1> QED
    BY <1>16 DEF d, e

\* The rows after a line was deleted and put back.
LEMMA PutBackRows ==
    ASSUME NEW R \in Rows, NEW n \in 2 .. MaxLines, NEW r \in 0 .. n - 1, NEW s, s = R[r],
           NEW Q, Q = RowsClosed(R, n, r, 1), NEW C, C = RowsOpened(Q, n - 1, r, s)
    PROVE  \A i \in 0 .. n - 1 : C[i] = R[i]
  <1>1. n \in Nat /\ r \in Nat /\ n \in 1 .. MaxLines /\ 1 \in Nat
    BY Numbers
  <1>2. Q \in Rows /\ DOMAIN R = RowNos
    BY <1>1, ClosedFacts, RowFacts
  <1>3. DOMAIN Q = RowNos
    BY <1>2, RowFacts
  <1>4. \A i \in RowNos : Q[i] = IF r <= i /\ i < n THEN R[Least(i + 1, n - 1)] ELSE R[i]
    BY <1>2 DEF RowsClosed
  <1>5. \A i \in RowNos : C[i] = IF i = r THEN s
                                 ELSE IF r < i /\ i <= n - 1 THEN Q[i - 1] ELSE Q[i]
    BY <1>3 DEF RowsOpened
  <1>6. ASSUME NEW i \in 0 .. n - 1
        PROVE  C[i] = R[i]
    <2>1. i \in Nat /\ i \in RowNos
      BY <1>1, Numbers DEF RowNos
    <2>2. CASE i = r
      BY <1>5, <2>1, <2>2
    <2>3. CASE i < r
      <3>1. ~(r <= i) /\ ~(r < i) /\ i # r
        BY <1>1, <2>1, <2>3
      <3> QED
        BY <1>4, <1>5, <2>1, <3>1
    <2>4. CASE r < i
      <3> DEFINE j == i - 1
      <3>1. j \in RowNos /\ r <= j /\ j < n /\ Least(j + 1, n - 1) = i /\ i # r /\ i <= n - 1
        BY <1>1, <2>1, <2>4, Numbers DEF RowNos, Least
      <3>2. C[i] = Q[j]
        BY <1>5, <2>1, <2>4, <3>1
      <3> HIDE DEF j
      <3>3. Q[j] = R[i]
        BY <1>4, <3>1
      <3> QED
        BY <3>2, <3>3
    <2> QED
      BY <1>1, <2>1, <2>2, <2>3, <2>4
  <1> QED
    BY <1>6

LEMMA PasteLineBack ==
    ASSUME NEW b, Fit(b), b.lcount > 1, Line(b) # << >>, NEW d, d = DeleteLine(b),
           NEW p, p = IF b.row = b.lcount - 1 THEN PasteAfter(d) ELSE PasteBefore(d)
    PROVE  Text(p) = Text(b) /\ p.row = b.row
  <1> DEFINE r == b.row
             n == b.lcount
             L == Line(b)
             Q == RowsClosed(b.rows, n, r, 1)
  <1>1. /\ b.rows \in Rows /\ n \in 1 .. MaxLines /\ n \in Nat /\ r \in Nat /\ r < n
        /\ L = b.rows[r] /\ L \in Fits /\ L \in Str /\ Len(L) \in Nat /\ Len(L) <= MaxCol - 1
    BY FitFacts, BufFacts
  <1>2. /\ Fit(d) /\ d.rows = Q /\ d.lcount = n - 1 /\ d.row = Least(r, n - 2)
        /\ d.yank = [text |-> L, line |-> TRUE]
    BY ChgDeleteLine DEF Chg
  <1>3. d.yank.text = L /\ d.yank.line
    BY <1>2
  <1>4. p = PasteLine(d, r)
    <2>1. CASE r = n - 1
      <3>1. d.row + 1 = r
        BY <1>1, <1>2, <2>1 DEF Least
      <3>2. p = PasteAfter(d)
        BY <2>1
      <3> QED
        BY <1>3, <3>1, <3>2 DEF PasteAfter
    <2>2. CASE r # n - 1
      <3>1. d.row = r
        BY <1>1, <1>2, <2>2 DEF Least
      <3>2. p = PasteBefore(d)
        BY <2>2
      <3> QED
        BY <1>3, <3>1, <3>2 DEF PasteBefore
    <2> QED
      BY <2>1, <2>2
  <1>5. r \in 0 .. d.lcount /\ d.lcount < MaxLines /\ Len(d.yank.text) <= MaxCol - 1
    BY <1>1, <1>2, <1>3, Numbers
  <1>6. /\ p.rows = RowsOpened(d.rows, d.lcount, r, d.yank.text)
        /\ p.lcount = d.lcount + 1 /\ p.row = r
    <2> HIDE DEF r
    <2> QED
      BY <1>2, <1>4, <1>5, WorksPasteLine
  <1>7. p.rows = RowsOpened(Q, n - 1, r, L) /\ p.lcount = n /\ p.row = r
    BY <1>1, <1>2, <1>3, <1>6
  <1>8. \A i \in 0 .. n - 1 : p.rows[i] = b.rows[i]
    <2> DEFINE R == b.rows
               C == p.rows
    <2>1. /\ R \in Rows /\ n \in 2 .. MaxLines /\ r \in 0 .. n - 1 /\ L = R[r]
          /\ Q = RowsClosed(R, n, r, 1) /\ C = RowsOpened(Q, n - 1, r, L)
      BY <1>1, <1>7
    <2> HIDE DEF R, C, n, r, L, Q
    <2>2. \A i \in 0 .. n - 1 : C[i] = R[i]
      BY <2>1, PutBackRows
    <2> QED
      BY <2>2 DEF R, C
  <1>9. Text(p) = Text(b)
    BY <1>1, <1>7, <1>8, SameRows
  <1> QED
    BY <1>7, <1>9

\* p puts back what D took.
LEMMA PasteBack ==
    ASSUME NEW b, Fit(b), b.row = b.undo.row, b.col < LLen(b), LLen(b) < MaxCol - 1
    PROVE  Text(PasteAfter(StepBack(DeleteToEol(b)))) = Text(b)
  <1> DEFINE L == Line(b)
             c == b.col
             s == Take(L, c)
             t == Drop(L, c)
             r == b.row
             d == DeleteToEol(b)
             e == StepBack(d)
             p == PasteAfter(e)
             q == c + Len(t) - 1
  <1>1. /\ b \in ViBufs /\ b.rows \in Rows /\ b.lcount \in Nat /\ r \in Nat /\ r \in RowNos
        /\ L = b.rows[r] /\ L \in Fits /\ L \in Str /\ Len(L) \in Nat /\ LLen(b) = Len(L)
        /\ c \in Nat /\ c \in 0 .. Len(L) /\ c < Len(L) /\ Len(L) < MaxCol - 1
    BY FitFacts, BufFacts
  <1>2. /\ Fit(d) /\ d.rows = Put(b.rows, r, s) /\ d.lcount = b.lcount /\ d.row = r /\ d.col = c
        /\ d.yank = Register(t, FALSE)
    BY ChgDeleteToEol DEF Chg
  <1> HIDE DEF d, L, c
  <1>3. /\ s \in Str /\ s \in Fits /\ Len(s) = c /\ t \in Str /\ Len(t) = Len(L) - c
        /\ s \o t = L
    <2>1. s \in Str /\ s \in Fits /\ Len(s) = c
      BY <1>1, TakeFacts
    <2>2. t \in Str /\ Len(t) = Len(L) - c
      <3>1. L \in Str /\ c \in Nat /\ c <= Len(L)
        BY <1>1
      <3>2. t \in Str /\ Len(t) = IF c <= Len(L) THEN Len(L) - c ELSE 0
        BY <3>1, DropFacts
      <3> QED
        BY <3>1, <3>2
    <2>3. s \o t = L
      BY <1>1, TakeDrop
    <2> QED
      BY <2>1, <2>2, <2>3
  <1> HIDE DEF s, t
  <1>4. d.yank.text = t /\ d.yank.line = FALSE
    <2>1. Least(Len(t), YankMax - 1) = Len(t)
      BY <1>1, <1>3, Numbers, SMTT(60) DEF Least
    <2> QED
      BY <1>2, <1>3, <2>1, JoinEmpty DEF Register
  <1>5. Line(d) = s /\ LLen(d) = c
    BY <1>1, <1>2, <1>3, PutRow DEF Line, LLen
  <1>6. /\ Fit(e) /\ e.rows = d.rows /\ e.lcount = d.lcount /\ e.row = r /\ e.yank = d.yank
        /\ e.col = IF c > 0 THEN c - 1 ELSE c
    <2>1. Fit(e)
      BY <1>2, ChgStepBack DEF Chg
    <2>2. e = IF c > 0 THEN [d EXCEPT !.col = c - 1] ELSE d
      BY <1>1, <1>2, <1>5 DEF StepBack
    <2>3. d \in ViBufs
      BY <1>2 DEF Fit
    <2> HIDE DEF e
    <2> QED
      BY <1>2, <2>1, <2>2, <2>3 DEF ViBufs
  <1> HIDE DEF e
  <1>7. Line(e) = s /\ LLen(e) = c /\ e.yank.text = t /\ e.yank.line = FALSE
    BY <1>2, <1>4, <1>5, <1>6 DEF Line, LLen
  <1>8. t # << >> /\ Least(e.col + 1, LLen(e)) = c /\ q \in Nat
    <2>1. Len(t) \in Nat /\ Len(t) > 0
      BY <1>1, <1>3
    <2> QED
      BY <1>1, <1>3, <1>6, <1>7, <2>1, StrFacts DEF Least
  <1>9. p = PasteChars(e, c, q)
    BY <1>7, <1>8 DEF PasteAfter
  <1>10. c \in 0 .. LLen(e) /\ Len(e.yank.text) + LLen(e) < MaxCol - 1
    BY <1>1, <1>3, <1>7
  <1> HIDE DEF q, p
  <1>11. /\ p.rows = Put(e.rows, e.row, Take(Line(e), c) \o e.yank.text \o Drop(Line(e), c))
         /\ p.lcount = e.lcount
    BY <1>6, <1>8, <1>9, <1>10, ChgPasteChars
  <1>12. Take(s, c) = s /\ Drop(s, c) = << >>
    <2>1. Take(s, c) = s
      BY <1>3, JoinEmpty
    <2>2. Drop(s, c) \in Str /\ Len(Drop(s, c)) = 0
      BY <1>1, <1>3, DropFacts
    <2> QED
      BY <2>1, <2>2, StrFacts
  <1>13. Take(Line(e), c) \o e.yank.text \o Drop(Line(e), c) = L
    BY <1>1, <1>3, <1>7, <1>12, JoinEmpty
  <1>14. p.rows = Put(Put(b.rows, r, s), r, L) /\ p.lcount = b.lcount
    BY <1>2, <1>6, <1>11, <1>13
  <1>15. p.rows = b.rows
    <2> DEFINE R == b.rows
    <2>1. R \in Rows /\ L = R[r]
      BY <1>1
    <2>2. Put(Put(R, r, s), r, L) = R
      <3> HIDE DEF R, r
      <3> QED
        BY <2>1, <1>1 DEF Put, Rows
    <2> QED
      BY <1>14, <2>2
  <1>16. Text(p) = Text(b)
    BY <1>14, <1>15 DEF Text
  <1> QED
    BY <1>16 DEF p, e, d

\* In every state Backspace takes Enter back, P (p on the last line) gives back
\* the lines dd took, and p the part of the line D took.
THEOREM EditsReverse == EdSpec => []Reversible
  <1>1. ASSUME EdInv
        PROVE  Reversible
    <2>1. ViAlive => Fit(vi) /\ Placed(vi) /\ Ready(vi)
      BY <1>1, ViRuns DEF Ready, Fit
    <2>2. Ready(nano) /\ Placed(nano)
      BY <1>1 DEF EdInv, NanoGood, Ready, Placed
    <2>3. ASSUME NEW b \in {vi, nano}, b = vi => ViAlive, b.lcount < MaxLines
          PROVE  Text(Backspace(Newline(b))) = Text(b)
      <3>1. Ready(b) /\ Placed(b)
        BY <2>1, <2>2, <2>3
      <3> QED
        BY <2>3, <3>1, EnterBack
    <2>4. ASSUME ViAlive, vi.lcount > 1, Line(vi) # << >>, NEW d, d = DeleteLine(vi),
                 NEW p, p = IF vi.row = vi.lcount - 1 THEN PasteAfter(d) ELSE PasteBefore(d)
          PROVE  Text(p) = Text(vi) /\ p.row = vi.row
      BY <2>1, <2>4, PasteLineBack
    <2>5. ASSUME ViAlive, vi.col < LLen(vi), LLen(vi) < MaxCol - 1
          PROVE  Text(PasteAfter(StepBack(DeleteToEol(SaveUndo(vi))))) = Text(vi)
      <3> DEFINE u == SaveUndo(vi)
      <3>1. /\ Fit(u) /\ u.undo.row = u.row /\ u.rows = vi.rows /\ u.lcount = vi.lcount
            /\ u.col = vi.col /\ LLen(u) = LLen(vi)
        BY <2>1, <2>5, SavedFacts
      <3> HIDE DEF u
      <3>2. Text(PasteAfter(StepBack(DeleteToEol(u)))) = Text(u)
        BY <2>5, <3>1, PasteBack
      <3>3. Text(u) = Text(vi)
        BY <3>1 DEF Text
      <3> QED
        BY <3>2, <3>3 DEF u
    <2> QED
      BY <2>3, <2>4, <2>5 DEF Reversible
  <1> QED
    BY <1>1, EditorsInvariant, PTL
=============================================================================
