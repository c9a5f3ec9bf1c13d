---------------------------------- MODULE Vi ----------------------------------
(***************************************************************************)
(* The vi editor (editors.c, cmd_vi): one action per command, or per group *)
(* of keys that move the cursor.  The first key of a two-key command       *)
(* (vi_op, vi_pending), and the text typed behind ":" and "/", belong to   *)
(* the action of the key that completes the command, and a visual          *)
(* selection to that of the key that uses it: vi waits for keys and        *)
(* nothing else happens meanwhile; a second key that does not go with the  *)
(* first drops it, as Escape does a selection or a prompt.  Messages,      *)
(* drawing, line numbers, highlighting and scrolling are left out, with z, *)
(* which only scrolls.                                                     *)
(***************************************************************************)
EXTENDS ViText

CONSTANTS
  ViTyped,    \* the characters a user types
  Patterns,   \* what is searched for or replaced
  Reps        \* what replaces it

ASSUME ViAssumption ==
  /\ ViTyped \subseteq Char
  /\ Patterns \cup Reps \subseteq Seq(Char)

VARIABLE vi   \* vi's static variables: see ViText

ViOff ==
  [rows |-> EmptyRows, lcount |-> 1, row |-> 0, col |-> 0, modified |-> FALSE,
   mode |-> "off", yank |-> [text |-> << >>, line |-> FALSE],
   undo |-> NoUndo, redo |-> [line |-> << >>, row |-> 0, lcount |-> 0],
   dot |-> FALSE, search |-> [pat |-> << >>, forward |-> TRUE],
   fname |-> CHOOSE p \in Paths : TRUE,
   snap |-> << >>, exact |-> FALSE, disk |-> "same", left |-> "no"]

ViInit == vi = ViOff

(* What cmd_vi starts from: the rows, the register and the redo data are   *)
(* those of the last session.                                              *)
ViFresh(b) == [ViOff EXCEPT !.rows = b.rows, !.yank = b.yank, !.redo = b.redo]

(* The cursor is clamped before the next event is waited for.  What a run  *)
(* that is lost holds does not matter.                                     *)
Settled(b) ==
  IF b.mode \in {"undef", "loop"} THEN [ViOff EXCEPT !.mode = b.mode] ELSE Clamp(b)

ViMoves(b) == vi' = Settled(b) /\ UNCHANGED << files, spent >>

ViEdits(b) ==
  /\ Spend
  /\ vi' = Settled(b)
  /\ UNCHANGED files

(* cmd_vi.  It loads the path as it was typed, from the root, and saves to *)
(* the path made absolute.                                                 *)
ViStart(p, q) ==
  /\ vi.mode = "off"
  /\ ViEdits([Load(ViFresh(vi), files[p]) EXCEPT
                !.mode = "norm",
                !.fname = q,
                !.disk = IF p = q THEN "same" ELSE "other"])

Normal == vi.mode = "norm"

-----------------------------------------------------------------------------
(* Keys that move the cursor. *)
Motions(b) ==
  {Up(b), Down(b), Left(b), Right(b), [b EXCEPT !.col = 0], FirstNonBlank(b),
   LineEnd(b), WordFwd(b), WordBack(b), [b EXCEPT !.row = b.lcount - 1, !.col = 0]}
  \cup WindowTop(b) \cup WindowRows(b)

MotionKey == Normal /\ \E m \in Motions(vi) : ViMoves(m)

(* The ones of normal mode only, not of visual mode: e, Enter, %, braces,  *)
(* n and N.                                                                *)
NormMotionKey ==
  /\ Normal
  /\ \E m \in {ToWordEnd(vi), Matching(vi), Paragraph(vi, TRUE),
               Paragraph(vi, FALSE), SearchNext(vi), SearchPrev(vi),
               IF vi.row < vi.lcount - 1
               THEN [vi EXCEPT !.row = @ + 1, !.col = 0] ELSE vi} : ViMoves(m)

KeyGG == Normal /\ ViMoves([vi EXCEPT !.row = 0, !.col = 0])

KeyF == Normal /\ \E c \in ViTyped : ViMoves(Find(vi, c))

-----------------------------------------------------------------------------
(* Keys that change the text. *)
KeyX == Normal /\ ViEdits(StepBack(DeleteChar(SaveUndo(vi))))

KeyXBack ==
  /\ Normal
  /\ vi.col > 0
  /\ ViEdits(DeleteChar([SaveUndo(vi) EXCEPT !.col = @ - 1]))

KeyD == Normal /\ ViEdits(StepBack(DeleteToEol(SaveUndo(vi))))

KeyC == Normal /\ ViEdits([DeleteToEol(SaveUndo(vi)) EXCEPT !.mode = "ins"])

KeyS == Normal /\ ViEdits([BlankLine(SaveUndo(vi)) EXCEPT !.mode = "ins"])

KeyJ == Normal /\ \E j \in JoinLines(vi) : ViEdits(j)

KeyP == Normal /\ \E b \in {PasteAfter(vi), PasteBefore(vi)} : ViEdits(b)

KeyTilde == Normal /\ ViEdits(ToggleCase(vi))

KeyUndo == Normal /\ ViMoves(Undo(vi))

(* U, and Control-r in insert mode. *)
KeyRedo == (Normal \/ vi.mode = "ins") /\ ViMoves(Redo(vi))

(* The only change that is remembered is an insertion: "." empties the     *)
(* line, without saving it for undo, and inserts.                          *)
KeyDot ==
  /\ Normal
  /\ vi.dot
  /\ ViEdits([BlankLine(vi) EXCEPT !.exact = Within(vi, vi.row), !.mode = "ins"])

KeyReplace ==
  /\ Normal
  /\ \E c \in ViTyped, u \in {SaveUndo(vi)} :
       \E b \in Overwrite(u, vi.col, c) : ViEdits([b EXCEPT !.modified = TRUE])

KeyIndent == Normal /\ ViEdits(Indent(vi))

KeyOutdent == Normal /\ ViEdits(Outdent(vi))

KeyDD == Normal /\ ViEdits(DeleteLine(vi))

KeyYY == Normal /\ ViEdits(YankText(vi, Line(vi), TRUE))

(* cc: the lines below the cursor's go too. *)
KeyCC ==
  /\ Normal
  /\ ViEdits([BlankLine(SaveUndo(vi)) EXCEPT !.lcount = vi.row + 1, !.mode = "ins"])

CharMotions(b) ==
  {WordFwd(b), WordBack(b), ToWordEnd(b), LineEnd(b), [b EXCEPT !.col = 0],
   FirstNonBlank(b), [b EXCEPT !.col = Greatest(@ - 1, 0)],
   [b EXCEPT !.col = Least(@ + 1, LLen(b))]}

LineMotions(b) ==
  {[b EXCEPT !.row = Least(@ + 1, b.lcount - 1)], [b EXCEPT !.row = Greatest(@ - 1, 0)],
   [b EXCEPT !.row = b.lcount - 1, !.col = 0]}
  \cup WindowTop(b) \cup WindowRows(b)

(* d, y or c and a motion. *)
KeyOp(op) ==
  /\ Normal
  /\ \/ \E m \in CharMotions(vi) : ViEdits(ApplyOpMotion(vi, op, FALSE, m))
     \/ \E m \in LineMotions(vi) : ViEdits(ApplyOpMotion(vi, op, TRUE, m))

-----------------------------------------------------------------------------
(* Insert mode. *)
EnterInsert ==
  /\ Normal
  /\ \E b \in {vi, [vi EXCEPT !.col = Least(@ + 1, LLen(vi))], FirstNonBlank(vi),
               [vi EXCEPT !.col = LLen(vi)]} :
       ViMoves([b EXCEPT !.dot = TRUE, !.mode = "ins"])

EnterOpen ==
  /\ Normal
  /\ \E above \in BOOLEAN :
       ViEdits([OpenLine(vi, above) EXCEPT !.dot = TRUE, !.mode = "ins"])

Ins == vi.mode = "ins"

InsEscape == Ins /\ ViMoves([vi EXCEPT !.mode = "norm", !.col = Greatest(@ - 1, 0)])

InsArrow == Ins /\ \E m \in {Up(vi), Down(vi), Left(vi), Right(vi)} : ViMoves(m)

InsType == Ins /\ \E c \in ViTyped : ViEdits(ViInsertChar(vi, c))

InsTab == Ins /\ ViEdits(ViInsertBlanks(vi))

InsBackspace == Ins /\ ViEdits(ViBackspace(vi))

InsNewline == Ins /\ ViEdits(ViNewline(vi))

InsWord == Ins /\ ViEdits(DeleteWord(vi))

-----------------------------------------------------------------------------
(* Visual mode.  v or V marks the cursor's place, motions take the cursor  *)
(* anywhere in the text, o swaps the two, and v or V changes the type: a   *)
(* selection goes from the cursor to any place.  The text stays as it is   *)
(* until the key that uses the selection, but for ~, which does what it    *)
(* does in normal mode.                                                    *)
Places(b) ==
  {p \in (0 .. b.lcount - 1) \X (0 .. MaxCol - 1) : p[2] <= Len(b.rows[p[1]])}

At(p) == [vi EXCEPT !.row = p[1], !.col = p[2]]

VisualDelete(p, linewise) ==
  DeleteRange(At(p), vi.row, vi.col, p[1], p[2], linewise)

VisDelete ==
  /\ Normal
  /\ \E p \in Places(vi), linewise \in BOOLEAN : ViEdits(VisualDelete(p, linewise))

VisChange ==
  /\ Normal
  /\ \E p \in Places(vi), linewise \in BOOLEAN :
       LET d == VisualDelete(p, linewise)
       IN  ViEdits(IF d.mode = "undef" THEN d ELSE [d EXCEPT !.mode = "ins"])

VisYank ==
  /\ Normal
  /\ \E p \in Places(vi), linewise \in BOOLEAN :
       ViEdits(YankRange(At(p), vi.row, vi.col, p[1], p[2], linewise))

(* p: what was selected is deleted into the register, and put back. *)
VisPaste ==
  /\ Normal
  /\ \E p \in Places(vi), linewise \in BOOLEAN :
       LET d == VisualDelete(p, linewise)
       IN  ViEdits(IF d.mode = "undef" THEN d ELSE PasteBefore(d))

-----------------------------------------------------------------------------
(* Searching.  A prompt that is left with Escape has set the direction. *)
SearchEnter ==
  /\ Normal
  /\ \E pat \in Patterns, f \in BOOLEAN :
       ViEdits(SearchNext([vi EXCEPT !.search = [pat |-> pat, forward |-> f]]))

SearchEscape ==
  /\ Normal
  /\ vi.search.pat # << >>
  /\ \E f \in BOOLEAN : ViMoves([vi EXCEPT !.search.forward = f])

-----------------------------------------------------------------------------
(* The command line. *)

\* Mutant: every empty line is left out.
ViBytesNoEmpty(b) == Bytes(SelectSeq(Text(b), LAMBDA s : s # << >>))

(* vi_save_file leaves an empty last line without a line end. *)
ViBytes(b) ==
  LET ls == Text(b)
  IN  IF ls[Len(ls)] = << >> THEN Bytes(Take(ls, Len(ls) - 1)) ELSE Bytes(ls)

CmdWrite ==
  /\ Normal
  /\ files' = [files EXCEPT ![vi.fname] = ViBytes(vi)]
  /\ vi' = [vi EXCEPT !.modified = FALSE, !.disk = "same"]
  /\ UNCHANGED spent

(* A failed :w, :wq or :x leaves vi running and modified as it was. *)
CmdWriteFails ==
  /\ Normal
  /\ \E f \in Torn(vi.fname, ViBytes(vi)) : files' = [files EXCEPT ![vi.fname] = f]
  /\ vi' = [vi EXCEPT !.disk = "torn"]
  /\ Spend

ViQuits(how) == [ViFresh(vi) EXCEPT !.left = how]

CmdQuit ==
  /\ Normal
  /\ vi' = IF vi.modified THEN vi ELSE ViQuits("quit")
  /\ UNCHANGED << files, spent >>

CmdQuitNow ==
  /\ Normal
  /\ vi' = ViQuits("discard")
  /\ UNCHANGED << files, spent >>

CmdWriteQuit ==
  /\ Normal
  /\ files' = [files EXCEPT ![vi.fname] = ViBytes(vi)]
  /\ vi' = ViQuits("write")
  /\ UNCHANGED spent

(* :e does not ask about a modified text, and keeps the undo data. *)
CmdEdit ==
  /\ Normal
  /\ \E p \in Paths :
       ViEdits([Load(vi, files[p]) EXCEPT !.row = 0, !.col = 0, !.fname = p,
                                            !.exact = FALSE, !.disk = "same"])

CmdRead == Normal /\ \E p \in Paths : ViEdits(ReadFile(vi, files[p]))

CmdSubstitute ==
  /\ Normal
  /\ \E R \in {{vi.row}, 0 .. vi.lcount - 1}, pat \in Patterns, rep \in Reps :
       ViEdits(Substitute(vi, R, pat, rep))

CmdIndent == Normal /\ \E b \in {Indent(vi), Outdent(vi)} : ViEdits(b)

(* Nothing is said of a run that has left its arrays or loops for ever. *)
ViLost == vi.mode \in {"undef", "loop"} /\ UNCHANGED << vi, files, spent >>

(* The keys and commands that wait for funds: the ones that change the text, *)
(* the register or the files other than by undo or a save, and the motions, *)
(* which lead nowhere without a change to come.                             *)
ViBounded ==
  \/ MotionKey \/ NormMotionKey \/ KeyGG \/ KeyF
  \/ KeyX \/ KeyXBack \/ KeyD \/ KeyC \/ KeyS \/ KeyJ \/ KeyP \/ KeyTilde
  \/ KeyDot \/ KeyReplace \/ KeyIndent \/ KeyOutdent
  \/ KeyDD \/ KeyYY \/ KeyCC \/ (\E op \in {"d", "y", "c"} : KeyOp(op))
  \/ EnterInsert \/ EnterOpen \/ InsArrow \/ InsType \/ InsTab
  \/ InsBackspace \/ InsNewline \/ InsWord
  \/ VisDelete \/ VisChange \/ VisYank \/ VisPaste \/ SearchEnter \/ SearchEscape
  \/ CmdWriteFails \/ CmdEdit \/ CmdRead \/ CmdSubstitute \/ CmdIndent

ViStep ==
  \/ Funds /\ ViBounded
  \/ KeyUndo \/ KeyRedo \/ InsEscape
  \/ CmdWrite \/ CmdQuit \/ CmdQuitNow \/ CmdWriteQuit
  \/ ViLost
=============================================================================
