--------------------------------- MODULE Nano ---------------------------------
(***************************************************************************)
(* The nano editor (editors.c, cmd_nano): one action per kind of event.    *)
(* Status texts, drawing and scrolling are left out.                       *)
(***************************************************************************)
EXTENDS TextBuf

CONSTANT Typed      \* the characters a user types

ASSUME NanoAssumption == Typed \subseteq Char

VARIABLE nano       \* the buffer, with
                    \*   on     nano runs
                    \*   ask    it waits for the answer to "Save modified buffer?"
                    \*   fname  the file it edits
                    \* and, for the properties,
                    \*   torn   a save failed since the last one that was done
                    \*   left   how the last session ended

NanoOff ==
  [rows |-> EmptyRows, lcount |-> 1, row |-> 0, col |-> 0, modified |-> FALSE,
   on |-> FALSE, ask |-> FALSE, fname |-> CHOOSE p \in Paths : TRUE,
   torn |-> FALSE, left |-> "no"]

NanoInit == nano = NanoOff

NanoRuns == nano.on /\ ~nano.ask

(* The cursor is clamped before the next event is waited for. *)
NanoMoves(b) ==
  /\ nano' = Clamp(b)
  /\ UNCHANGED << files, spent >>

NanoEdits(b) ==
  /\ Spend
  /\ nano' = Clamp(b)
  /\ UNCHANGED files

(* cmd_nano up to its loop. *)
NanoStart(p) ==
  /\ ~nano.on
  /\ NanoEdits([Load(NanoOff, files[p]) EXCEPT !.on = TRUE, !.fname = p])

NanoType(c) == NanoRuns /\ NanoEdits(InsertChar(nano, c))

(* Blanks up to the next multiple of four. *)
NanoTab == NanoRuns /\ NanoEdits(InsertBlanks(nano, 4 - (nano.col % 4)))

NanoBackspace == NanoRuns /\ NanoEdits(Backspace(nano))

NanoNewline == NanoRuns /\ NanoEdits(Newline(nano))

NanoArrow ==
  /\ NanoRuns /\ Funds
  /\ \E b \in {Up(nano), Down(nano), Left(nano), Right(nano)} : NanoMoves(b)

-----------------------------------------------------------------------------
(* nano_save_file.  Every line is written with a line end, the empty last  *)
(* one too.  The result of writing a line end is not looked at: with the   *)
(* disk full, the line ends after the last character may be missing from a *)
(* save that counts as done.                                               *)
NanoBytes(b) == Bytes(Text(b))

NanoSaved(b) ==
  LET bytes == NanoBytes(b)
  IN  {Take(bytes, n) : n \in {k \in 0 .. Len(bytes) :
                                 \A i \in k + 1 .. Len(bytes) : bytes[i] = NL}}

(* Control-O. *)
NanoSave ==
  /\ NanoRuns
  /\ \E f \in NanoSaved(nano) :
       /\ files' = [files EXCEPT ![nano.fname] = f]
       /\ nano' = [nano EXCEPT !.modified = FALSE, !.torn = FALSE]
  /\ UNCHANGED spent

NanoSaveFails ==
  /\ NanoRuns
  /\ \E f \in Torn(nano.fname, NanoBytes(nano)) :
       files' = [files EXCEPT ![nano.fname] = f]
  /\ nano' = [nano EXCEPT !.torn = TRUE]
  /\ Spend

NanoQuits(how) == nano' = [NanoOff EXCEPT !.left = how] /\ UNCHANGED spent

(* Control-X. *)
NanoExit ==
  /\ NanoRuns
  /\ IF nano.modified
     THEN nano' = [nano EXCEPT !.ask = TRUE] /\ UNCHANGED spent
     ELSE NanoQuits("quit")
  /\ UNCHANGED files

(* The answer Y: nano leaves whether the save was done or not. *)
NanoYes ==
  /\ nano.ask
  /\ \E f \in NanoSaved(nano) : files' = [files EXCEPT ![nano.fname] = f]
  /\ NanoQuits("write")

NanoYesFails ==
  /\ nano.ask
  /\ \E f \in Torn(nano.fname, NanoBytes(nano)) :
       files' = [files EXCEPT ![nano.fname] = f]
  /\ NanoQuits("failed")

NanoNo == nano.ask /\ NanoQuits("discard") /\ UNCHANGED files

NanoCancel ==
  /\ nano.ask
  /\ nano' = [nano EXCEPT !.ask = FALSE]
  /\ UNCHANGED << files, spent >>

(* The cancel event, or Control-C: nano leaves without a question. *)
NanoAbandon == NanoRuns /\ NanoQuits("discard") /\ UNCHANGED files

NanoStep ==
  \/ \E c \in Typed : NanoType(c)
  \/ NanoTab
  \/ NanoBackspace
  \/ NanoNewline
  \/ NanoArrow
  \/ NanoSave
  \/ NanoSaveFails
  \/ NanoExit
  \/ NanoYes
  \/ NanoYesFails
  \/ NanoNo
  \/ NanoCancel
  \/ NanoAbandon
=============================================================================
