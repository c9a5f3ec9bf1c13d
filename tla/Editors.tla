------------------------------- MODULE Editors -------------------------------
(***************************************************************************)
(* The shell starts nano or vi on a file, any number of times, one at a    *)
(* time; they share the files.                                             *)
(***************************************************************************)
EXTENDS Vi, Nano

CONSTANT Starts       \* what the files may hold at first

ASSUME EditorsAssumption == Starts \subseteq [Paths -> Seq(Char) \cup {Absent}]

edVars == << vi, nano, files, spent >>

EdInit ==
  /\ ViInit
  /\ NanoInit
  /\ files \in Starts
  /\ spent = 0

Idle == vi.mode = "off" /\ ~nano.on

ShellVi == Idle /\ \E p, q \in Paths : ViStart(p, q) /\ UNCHANGED nano

ShellNano == Idle /\ \E p \in Paths : NanoStart(p) /\ UNCHANGED vi

(* The shell does something else. *)
ShellOther == Idle /\ UNCHANGED edVars

EdNext ==
  \/ ShellOther
  \/ ShellVi
  \/ ShellNano
  \/ ViStep /\ UNCHANGED nano
  \/ NanoStep /\ UNCHANGED vi

EdSpec == EdInit /\ [][EdNext]_edVars

-----------------------------------------------------------------------------
ViAlive == vi.mode \notin {"off", "undef", "loop"}

Shaped(b) ==
  /\ b.lcount \in 1 .. MaxLines
  /\ b.row \in 0 .. b.lcount - 1
  /\ b.col \in 0 .. Len(b.rows[b.row])
  /\ \A i \in 0 .. MaxLines - 1 : Len(b.rows[i]) < MaxCol

(* The cursor of either editor is on a character of the text or at the end *)
(* of a line, the lines fit the array and the rows and the register fits   *)
(* its buffer: every index the next key uses without a test is in range.   *)
BufferSound ==
  /\ ViAlive => Shaped(vi) /\ Len(vi.yank.text) < YankMax
  /\ nano.on => Shaped(nano)

(* The file is what a save of the text may write, or loads as the text. *)
Holds(f, b, saved) == f \in saved \/ Text(Load(b, f)) = Text(b)

(* An editor that is left without discarding the text leaves a file that   *)
(* holds it: "modified" is never clear while the text and the file differ. *)
(* Left aside: a save that failed before (:w of an unmodified text may     *)
(* destroy the file and :q does not ask), nano's answer Y whose save       *)
(* failed, and vi on a relative path, which loads another file.            *)
LeaveSaved ==
  [][/\ ViAlive /\ vi'.mode = "off" =>
          \/ vi'.left = "discard"
          \/ vi'.left = "quit" /\ vi.disk # "same"
          \/ Holds(files'[vi.fname], vi, {ViBytes(vi)})
     /\ nano.on /\ ~nano'.on =>
          \/ nano'.left \in {"discard", "failed"}
          \/ nano'.left = "quit" /\ nano.torn
          \/ Holds(files'[nano.fname], nano, NanoSaved(nano))]_edVars

(* u brings back the text there was when undo was saved, as long as only   *)
(* that line was changed since, or the lines that came or went did so at   *)
(* the end: one saved line and the line count are enough for that, because *)
(* the rows past the last line keep what they held.                        *)
UndoRestores ==
  ViAlive /\ vi.undo.valid /\ vi.exact => Text(Undo(vi)) = vi.snap

(* Backspace takes Enter back, the cursor apart, which it puts behind the  *)
(* joined line; P after dd (p on the last line) gives the lines back, and  *)
(* p after D the line.  Left aside: dd of an empty line leaves an empty    *)
(* register, and p refuses to fill a row to its last place.                *)
Reversible ==
  /\ \A b \in {vi, nano} :
       (b = vi => ViAlive) /\ b.lcount < MaxLines =>
         Text(Backspace(Newline(b))) = Text(b)
  /\ ViAlive /\ vi.lcount > 1 /\ Line(vi) # << >> =>
       LET d == DeleteLine(vi)
           p == IF vi.row = vi.lcount - 1 THEN PasteAfter(d) ELSE PasteBefore(d)
       IN  Text(p) = Text(vi) /\ p.row = vi.row
  /\ ViAlive /\ vi.col < LLen(vi) /\ LLen(vi) < MaxCol - 1 =>
       Text(PasteAfter(StepBack(DeleteToEol(SaveUndo(vi))))) = Text(vi)

(* What either editor saves, it loads again line for line, line ends at    *)
(* the end left aside, unless a line of vi holds a line end (a register of *)
(* several lines that was put) or a carriage return (:r keeps it), or      *)
(* every row of the array is in use: then the piece behind the last line   *)
(* end takes the place of the last line.                                   *)
RoundTrip ==
  /\ ViAlive /\ vi.lcount < MaxLines
       /\ (\A i \in 1 .. vi.lcount : Chars(Text(vi)[i]) \cap {NL, CR} = {}) =>
       Unpadded(Text(Load(vi, ViBytes(vi)))) = Unpadded(Text(vi))
  /\ nano.on /\ nano.lcount < MaxLines
       /\ (\A i \in 1 .. nano.lcount : Chars(Text(nano)[i]) \cap {NL, CR} = {}) =>
       Unpadded(Text(Load(nano, NanoBytes(nano)))) = Unpadded(Text(nano))
=============================================================================
