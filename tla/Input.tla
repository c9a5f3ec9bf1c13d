------------------------------- MODULE Input -------------------------------
(***************************************************************************)
(* Typing: the keyboard interrupt (kernel/dev/keyboard.c) against the code *)
(* that polls what it leaves behind, the line editor of the shell          *)
(* (kernel/shell/readline.c, the loop of kernel/shell/shell.c and the      *)
(* history of kernel/shell/commands.c) and the event loops of nano and vi  *)
(* (kernel/shell/editors.c).                                               *)
(*                                                                         *)
(* The two share a mailbox of one key and a few flags, all volatile.  The  *)
(* handler runs with interrupts off and is one action per scancode.  The   *)
(* pollers run with interrupts on: every read that decides something and   *)
(* every store is a step of its own.  Tests of one flag followed by its    *)
(* clearing are one step where a press in between leaves the same state as *)
(* a press before.                                                         *)
(*                                                                         *)
(* Interrupts are numbered, so that what happens to a key press can be     *)
(* followed: read_key, nav_key, word_del and cancel hold the press, None   *)
(* when they are 0.                                                        *)
(* prompt, origin, due, used, twice, stale and crowded are history         *)
(* variables.                                                              *)
(***************************************************************************)
EXTENDS Integers, Sequences

CONSTANTS
    MaxKeys,    \* bound on keyboard interrupts
    MaxCrowd,   \* bound on keys that come before the last is dealt with
    Typed,      \* the history when the first prompt of the model appears
    Size,       \* the size argument of readline (TERM_BUFF)
    HistLen,    \* characters kept of a history line (63)
    HistMax     \* lines of s_hist (64)

ASSUME InputAssumption ==
    /\ MaxKeys \in Nat /\ MaxCrowd \in Nat /\ Size \in Nat \ {0, 1}
    /\ HistLen \in Nat \ {0} /\ HistLen < Size /\ HistMax \in Nat \ {0}
    /\ Typed \in Seq(Seq({0} \X {"char", "space"}))
    /\ \A h \in 1 .. Len(Typed) : Len(Typed[h]) <= HistLen

VARIABLES
    modifier,      \* the modifier key held down, or "none"
    in_read,       \* something was typed
    read_key,      \* its character
    nav_key,       \* its arrow
    word_del,      \* Alt+Backspace
    do_clear,      \* do_clear_screen: Ctrl+L
    cancel,        \* cancel_input: Ctrl+C
    ctrl_char,     \* Ctrl with any other key
    pc,            \* where the shell task is
    editor,        \* which editor's event loop runs
    ln,            \* readline's buf, i and pos; None stands for the byte 0
    hooked,        \* the line was put there by an arrow key
    hist, hpos,    \* s_hist[0 .. s_hist_count - 1] and s_hist_pos
    prompt,        \* how many prompts there have been
    origin,        \* origin[n]: the prompt at which press n was made
    due,           \* the presses made while the reader was idle
    used,          \* the presses that took effect
    twice,         \* a press took effect a second time
    stale,         \* a press took effect at a later prompt
    crowded        \* keys that came while an earlier one was not dealt with

flags   == <<in_read, read_key, nav_key, word_del, do_clear, cancel, ctrl_char>>
line    == <<ln, hooked>>
history == <<hist, hpos>>
ghosts  == <<used, twice, stale>>
presses == <<due, crowded>>
shell   == <<pc, editor, line, history, prompt, ghosts>>
irq     == <<modifier, presses, origin>>
ivars   == <<irq, flags, shell>>

None    == <<0, "nul">>
Kinds   == {"char", "space", "nl", "bs", "tab", "cancel"}
Arrows  == {"up", "down", "left", "right"}
Cells   == 0 .. Size

Printable(k) == k[2] \in {"char", "space"}

(***************************************************************************)
(* The keyboard handler.  Typing keys have a scancode of at most 58; with  *)
(* Shift, Enter, Backspace and Tab yield 0, as Escape and a modifier       *)
(* pressed after another do.                                               *)
(***************************************************************************)
Modifiers  == {"alt", "ctrl", "shift"}
Yields(shifted) == IF shifted THEN {"char", "space"} ELSE Kinds \ {"cancel"}

(***************************************************************************)
(* History: the reader is idle at the tests of its loop when nothing is    *)
(* waiting.  A key that comes at another place of readline may be lost or  *)
(* displace another; one that comes while a command runs is not meant for  *)
(* the prompt.                                                             *)
(***************************************************************************)
Tests   == {"top", "nav", "word", "key"}
Running == {"command", "ev_ctrl", "ev_ctrl_clr", "ev_cancel", "ev_clear",
            "ev_nav", "ev_nav_clr", "ev_key", "ev_key_get", "ev_key_clr",
            "ev_esc", "ev_done", "leave"}
Idle    == pc \in Tests /\ ~in_read /\ cancel = None

Press(kind) == <<Len(origin) + 1, kind>>

Comes(key) ==
    /\ IF Idle \/ pc \in Running
         THEN UNCHANGED crowded
         ELSE crowded < MaxCrowd /\ crowded' = crowded + 1
    /\ due' = IF key # None /\ Idle THEN due \cup {key} ELSE due

\* read_key, nav_key and word_del are set and in_read raised.
Deposit(key, nav, word) ==
    /\ in_read' = TRUE
    /\ read_key' = key /\ nav_key' = nav /\ word_del' = word
    /\ Comes(key)
    /\ UNCHANGED <<do_clear, cancel, ctrl_char>>

HoldModifier(m) ==
    /\ modifier = "none"
    /\ modifier' = m
    /\ UNCHANGED <<flags, presses>>

ReleaseModifier ==
    /\ modifier' = "none"
    /\ UNCHANGED <<flags, presses>>

CtrlL ==
    /\ modifier = "ctrl" /\ modifier' = "none"
    /\ do_clear' = TRUE
    /\ UNCHANGED <<in_read, read_key, nav_key, word_del, cancel, ctrl_char,
                   presses>>

CtrlC ==
    /\ modifier = "ctrl" /\ modifier' = "none"
    /\ Comes(Press("cancel"))
    /\ cancel' = Press("cancel")
    /\ UNCHANGED <<in_read, read_key, nav_key, word_del, do_clear, ctrl_char>>

\* Ctrl with another key sets ctrl_char: to 0 for the keys without character,
\* and not at all above 58.
CtrlOther(c) ==
    /\ modifier = "ctrl" /\ modifier' = "none"
    /\ ctrl_char' = c
    /\ UNCHANGED <<in_read, read_key, nav_key, word_del, do_clear, cancel,
                   presses>>

AltBackspace ==
    /\ modifier = "alt" /\ modifier' = "none"
    /\ Deposit(None, None, Press("word"))

\* A typing key that yields a character, plain or with Shift held.
TypeKey(kind) ==
    /\ modifier \in {"none", "shift"}
    /\ kind \in Yields(modifier = "shift")
    /\ Deposit(Press(kind), None, None)
    /\ UNCHANGED modifier

\* A typing key that yields 0: Escape or Caps Lock; with Shift also Enter,
\* Backspace, Tab, and Shift itself when it repeats.
TypeNothing ==
    /\ modifier \in {"none", "shift"}
    /\ Deposit(None, None, None)
    /\ UNCHANGED modifier

\* An arrow leaves word_del alone.
Arrow(k) ==
    /\ modifier = "none"
    /\ Deposit(None, Press(k), word_del)
    /\ UNCHANGED modifier

\* Any other key ends a held Shift or Alt.
OtherKey ==
    /\ modifier \in {"alt", "shift"} /\ modifier' = "none"
    /\ UNCHANGED <<flags, presses>>

KeyIrq ==
    /\ Len(origin) < MaxKeys /\ origin' = Append(origin, prompt)
    /\ \/ \E m \in Modifiers : HoldModifier(m)
       \/ ReleaseModifier
       \/ CtrlL \/ CtrlC \/ \E c \in BOOLEAN : CtrlOther(c)
       \/ AltBackspace
       \/ \E kind \in Kinds : TypeKey(kind)
       \/ TypeNothing
       \/ \E k \in Arrows : Arrow(k)
       \/ OtherKey
    /\ UNCHANGED shell

(***************************************************************************)
(* The line, byte by byte: what is a string is decided by its 0.           *)
(***************************************************************************)
EmptyLine == [buf |-> [c \in Cells |-> None], len |-> 0, pos |-> 0]

\* memmove(buf + to, buf + from, n)
Moved(b, to, from, n) ==
    [c \in Cells |-> IF c \in to .. to + n - 1 THEN b[c - to + from] ELSE b[c]]

\* Mutant: the rest of the line is not moved to the right.
InsertedOver(l, k) ==
    IF l.len + 1 >= Size THEN l
    ELSE [buf |-> [l.buf EXCEPT ![l.pos] = k], len |-> l.len + 1, pos |-> l.pos + 1]

\* insert_char, which refuses when the buffer is full.
Inserted(l, k) ==
    IF l.len + 1 >= Size THEN l
    ELSE [buf |-> [Moved(l.buf, l.pos + 1, l.pos, l.len - l.pos + 1)
                      EXCEPT ![l.pos] = k],
          len |-> l.len + 1, pos |-> l.pos + 1]

\* Take away the characters from start to the cursor.
Cut(l, start) ==
    [buf |-> Moved(l.buf, start, l.pos, l.len - l.pos + 1),
     len |-> l.len - (l.pos - start), pos |-> start]

Backspaced(l) == IF l.pos = 0 THEN l ELSE Cut(l, l.pos - 1)

\* The start of the longest run before p of cells that are spaces, or not.
RunStart(b, p, spaces) == CHOOSE a \in 0 .. p :
    /\ \A c \in a .. p - 1 : (b[c][2] = "space") = spaces
    /\ a > 0 => (b[a - 1][2] = "space") # spaces

WordDeleted(l) ==
    Cut(l, RunStart(l.buf, RunStart(l.buf, l.pos, TRUE), FALSE))

Terminated(l) == [l EXCEPT !.buf[l.len] = None]

\* replace_line
Replaced(l, str) ==
    LET n == IF Len(str) < Size - 1 THEN Len(str) ELSE Size - 1
    IN  [buf |-> [c \in Cells |-> IF c < n THEN str[c + 1]
                                  ELSE IF c = n THEN None ELSE l.buf[c]],
         len |-> n, pos |-> n]

\* What strlen and strcmp see.
StrLen(b) == CHOOSE n \in Cells :
    (n = Size \/ b[n] = None) /\ \A c \in 0 .. n - 1 : b[c] # None
Str(b) == [c \in 1 .. StrLen(b) |-> b[c - 1]]

(***************************************************************************)
(* The history.                                                            *)
(***************************************************************************)
\* shell_history_current, "" when there is none.
Current(p) == IF p < Len(hist) THEN hist[p + 1] ELSE <<>>

\* shell_history_prev from p, shell_history_next.
Earlier(p) == IF Len(hist) > 0 /\ p > 0 THEN p - 1 ELSE p
Later(p)   == IF Len(hist) > 0 /\ p < Len(hist) - 1 THEN p + 1 ELSE p

Kept(str) == [c \in 1 .. (IF Len(str) < HistLen THEN Len(str) ELSE HistLen)
                |-> str[c]]

\* strcmp: two keys that are not spaces were different letters.
SameStr(a, b) ==
    /\ Len(a) = Len(b)
    /\ \A c \in 1 .. Len(a) : a[c] = b[c] \/ (a[c][2] = "space" /\ b[c][2] = "space")

\* shell_record: nothing is kept of a repeated line, or once s_hist is full.
Record(str) ==
    /\ hist' = IF (hist = <<>> \/ ~SameStr(hist[Len(hist)], str)) /\ Len(hist) < HistMax
                 THEN Append(hist, Kept(str)) ELSE hist
    /\ hpos' = Len(hist')

(***************************************************************************)
(* readline.  Its resets, its loop of tests and what each test leads to.   *)
(***************************************************************************)
\* A press takes effect.
Use(k) ==
    IF k = None THEN UNCHANGED ghosts
    ELSE /\ used' = used \cup {k}
         /\ twice' = (twice \/ k \in used)
         /\ stale' = (stale \/ origin[k[1]] # prompt)

At(from, to) == pc = from /\ pc' = to

\* What steps that touch only flags leave alone.
Quiet == UNCHANGED <<irq, editor, line, history, prompt, ghosts>>

\* The shell's loop: an empty buffer and a new call of readline.
NewPrompt(to) == ln' = EmptyLine /\ hooked' = FALSE /\ prompt' = prompt + 1
                 /\ pc' = to

ResetCancel ==
    /\ At("reset", "reset_word") /\ Quiet
    /\ cancel' = None
    /\ UNCHANGED <<in_read, read_key, nav_key, word_del, do_clear, ctrl_char>>

ResetWord ==
    /\ At("reset_word", "reset_key") /\ Quiet
    /\ word_del' = None
    /\ UNCHANGED <<in_read, read_key, nav_key, do_clear, cancel, ctrl_char>>

ResetKey ==
    /\ At("reset_key", "reset_nav") /\ Quiet
    /\ read_key' = None
    /\ UNCHANGED <<in_read, nav_key, word_del, do_clear, cancel, ctrl_char>>

ResetNav ==
    /\ At("reset_nav", "reset_in") /\ Quiet
    /\ nav_key' = None
    /\ UNCHANGED <<in_read, read_key, word_del, do_clear, cancel, ctrl_char>>

\* in_read = 0, here and wherever a key is taken.
TakeIn(from, to) ==
    /\ At(from, to) /\ Quiet
    /\ in_read' = FALSE
    /\ UNCHANGED <<read_key, nav_key, word_del, do_clear, cancel, ctrl_char>>

ResetIn == TakeIn("reset_in", "top")

\* Ctrl+C ends readline with an empty line, Ctrl+L starts it over.
TopTest ==
    /\ pc = "top"
    /\ \/ /\ cancel # None
          /\ cancel' = None
          /\ Use(cancel)
          /\ NewPrompt("reset")
          /\ UNCHANGED do_clear
       \/ /\ cancel = None /\ do_clear
          /\ do_clear' = FALSE
          /\ ln' = Terminated([ln EXCEPT !.len = 0, !.pos = 0])
          /\ hooked' = FALSE
          /\ UNCHANGED <<pc, cancel, prompt, ghosts>>
       \/ /\ cancel = None /\ ~do_clear
          /\ pc' = "nav"
          /\ UNCHANGED <<do_clear, cancel, line, prompt, ghosts>>
    /\ UNCHANGED <<in_read, read_key, nav_key, word_del, ctrl_char,
                   irq, editor, history>>

\* A test of the mailbox that changes nothing.
Test(from, cond, then, else) ==
    /\ pc = from /\ pc' = (IF cond THEN then ELSE else)
    /\ Quiet /\ UNCHANGED flags

\* Mutant: any key is taken for an arrow.
NavTestAny == Test("nav", in_read, "nav_take", "word")

\* Mutant: only printable keys are seen.
KeyTestPrintable == Test("key", in_read /\ Printable(read_key), "key_take", "top")

NavTest  == Test("nav", in_read /\ nav_key # None, "nav_take", "word")
KeyTest  == Test("key", in_read /\ read_key # None, "key_take", "top")

\* The word goes once word_del has been seen; it is not read again.
WordTest ==
    /\ pc = "word"
    /\ IF in_read /\ word_del # None
         THEN pc' = "word_take" /\ Use(word_del)
         ELSE pc' = "key" /\ UNCHANGED ghosts
    /\ UNCHANGED <<irq, flags, editor, line, history, prompt>>

\* nav_key is compared with the four arrows in turn, each time read again; doing
\* what the arrow says touches no flag.
NavCompare(k, from, next, p, l, h) ==
    /\ pc = from
    /\ IF nav_key[2] = k
         THEN pc' = "nav_clr" /\ Use(nav_key) /\ hpos' = p /\ ln' = l /\ hooked' = h
         ELSE pc' = next /\ UNCHANGED <<hpos, line, ghosts>>
    /\ UNCHANGED <<irq, flags, editor, hist, prompt>>

NavTake  == TakeIn("nav_take", "nav1")

NavUp    == LET p == Earlier(IF hooked THEN hpos ELSE Len(hist))
            IN  NavCompare("up", "nav1", "nav2", p, Replaced(ln, Current(p)), TRUE)
NavDown  == LET p == Later(hpos)
            IN  NavCompare("down", "nav2", "nav3", p, Replaced(ln, Current(p)), TRUE)
NavLeft  == NavCompare("left", "nav3", "nav4", hpos,
                [ln EXCEPT !.pos = IF @ > 0 THEN @ - 1 ELSE @], hooked)
NavRight == NavCompare("right", "nav4", "nav_clr", hpos,
                [ln EXCEPT !.pos = IF @ < ln.len THEN @ + 1 ELSE @], hooked)

NavClear ==
    /\ At("nav_clr", "top") /\ Quiet
    /\ nav_key' = None
    /\ UNCHANGED <<in_read, read_key, word_del, do_clear, cancel, ctrl_char>>

\* Alt+Backspace.
WordTake  == TakeIn("word_take", "word_clr")
WordClear ==
    /\ At("word_clr", "top")
    /\ word_del' = None
    /\ ln' = Terminated(WordDeleted(ln)) /\ hooked' = FALSE
    /\ UNCHANGED <<in_read, read_key, nav_key, do_clear, cancel, ctrl_char,
                   irq, editor, history, prompt, ghosts>>

\* read_key is compared with Enter, Backspace, Tab and the printable
\* characters in turn, each time read again.
KeyCompare(from, cond, then, next, l) ==
    /\ pc = from
    /\ IF cond
         THEN /\ pc' = then
              /\ Use(read_key)
              /\ ln' = Terminated(l) /\ hooked' = FALSE
         ELSE pc' = next /\ UNCHANGED <<line, ghosts>>
    /\ UNCHANGED <<irq, flags, editor, history, prompt>>

KeyTake  == TakeIn("key_take", "key_nl")
KeyEnter == /\ pc = "key_nl"
            /\ IF read_key[2] = "nl"
                 THEN pc' = "key_ret" /\ Use(read_key)
                 ELSE pc' = "key_bs" /\ UNCHANGED ghosts
            /\ UNCHANGED <<irq, flags, editor, line, history, prompt>>
KeyBack  == KeyCompare("key_bs", read_key[2] = "bs", "key_clr", "key_tab",
                       Backspaced(ln))
KeyTab   == KeyCompare("key_tab", read_key[2] = "tab", "key_clr", "key_ge", ln)

\* Neither: nothing is inserted, and the line is terminated all the same.
KeyPrint == /\ pc = "key_ge"
            /\ IF Printable(read_key)
                 THEN pc' = "key_ins" /\ UNCHANGED line
                 ELSE /\ pc' = "key_clr"
                      /\ ln' = Terminated(ln) /\ hooked' = FALSE
            /\ UNCHANGED <<irq, flags, editor, history, prompt,
                           ghosts>>
\* insert_char(..., read_key): the value may have changed once more.
KeyInsert == KeyCompare("key_ins", TRUE, "key_clr", "key_clr",
                        Inserted(ln, read_key))

\* read_key = 0.
ClearKey(from, to) ==
    /\ At(from, to) /\ Quiet
    /\ read_key' = None
    /\ UNCHANGED <<in_read, nav_key, word_del, do_clear, cancel, ctrl_char>>

\* Mutant: the key is left in the mailbox.
KeyClearNot == At("key_clr", "top") /\ Quiet /\ UNCHANGED flags

KeyClear == ClearKey("key_clr", "top")

\* Enter: readline returns; the shell records the line and runs it.
Return ==
    /\ pc = "key_ret"
    /\ read_key' = None
    /\ IF Str(ln.buf) = <<>>
         THEN NewPrompt("reset") /\ UNCHANGED history
         ELSE /\ Record(Str(ln.buf))
              /\ pc' = "command"
              /\ UNCHANGED <<line, prompt>>
    /\ UNCHANGED <<in_read, nav_key, word_del, do_clear, cancel, ctrl_char,
                   irq, editor, ghosts>>

\* The command ends, or is nano or vi and waits for events.
CommandEnds ==
    /\ pc \in {"command", "leave"}
    /\ NewPrompt("reset")
    /\ editor' = "none"
    /\ UNCHANGED <<irq, flags, history, ghosts>>

EditorStarts(e) ==
    /\ At("command", "ev_ctrl")
    /\ editor' = e
    /\ UNCHANGED <<irq, flags, line, history, prompt, ghosts>>

(***************************************************************************)
(* nano_event and vi_event, which differ in what they do with a key that   *)
(* is neither a character nor an arrow: nano waits on, vi takes it for     *)
(* Escape.                                                                 *)
(***************************************************************************)
EvCtrlTest  == Test("ev_ctrl", ctrl_char, "ev_ctrl_clr", "ev_cancel")
EvCtrlClear ==
    /\ At("ev_ctrl_clr", "ev_done") /\ Quiet
    /\ ctrl_char' = FALSE
    /\ UNCHANGED <<in_read, read_key, nav_key, word_del, do_clear, cancel>>

EvCancel ==
    /\ pc = "ev_cancel"
    /\ pc' = (IF cancel # None THEN "ev_done" ELSE "ev_clear")
    /\ Use(cancel) /\ cancel' = None
    /\ UNCHANGED <<in_read, read_key, nav_key, word_del, do_clear, ctrl_char,
                   irq, editor, line, history, prompt>>

EvClear ==
    /\ pc = "ev_clear"
    /\ pc' = (IF do_clear THEN "ev_ctrl" ELSE "ev_nav")
    /\ do_clear' = FALSE
    /\ UNCHANGED <<in_read, read_key, nav_key, word_del, cancel, ctrl_char>>
    /\ Quiet

EvNavTest  == Test("ev_nav", in_read /\ nav_key # None, "ev_nav_clr", "ev_key")
EvNavClear ==
    /\ At("ev_nav_clr", "ev_done")
    /\ Use(nav_key) /\ nav_key' = None
    /\ UNCHANGED <<in_read, read_key, word_del, do_clear, cancel, ctrl_char,
                   irq, editor, line, history, prompt>>

EvKeyTest ==
    Test("ev_key", in_read /\ read_key # None, "ev_key_get",
         IF in_read /\ editor = "vi" THEN "ev_esc" ELSE "ev_ctrl")
EvEscTest  == Test("ev_esc", nav_key = None, "ev_done", "ev_ctrl")

EvKeyGet ==
    /\ At("ev_key_get", "ev_key_clr")
    /\ Use(read_key)
    /\ UNCHANGED <<irq, flags, editor, line, history, prompt>>
EvKeyClear == ClearKey("ev_key_clr", "ev_done")

\* in_read = 0 and the event is returned; the editor goes on or ends.
EvDone == TakeIn("ev_done", "ev_ctrl") \/ TakeIn("ev_done", "leave")

(***************************************************************************)
(* The machine: the shell task's next step, or a key.                      *)
(***************************************************************************)
ReadlineStep ==
    \/ ResetCancel \/ ResetWord \/ ResetKey \/ ResetNav \/ ResetIn
    \/ TopTest \/ NavTest \/ WordTest \/ KeyTest
    \/ NavTake \/ NavUp \/ NavDown \/ NavLeft \/ NavRight \/ NavClear
    \/ WordTake \/ WordClear
    \/ KeyTake \/ KeyEnter \/ KeyBack \/ KeyTab \/ KeyPrint \/ KeyInsert
    \/ KeyClear \/ Return

EditorStep ==
    \/ EvCtrlTest \/ EvCtrlClear \/ EvCancel \/ EvClear
    \/ EvNavTest \/ EvNavClear
    \/ EvKeyTest \/ EvEscTest \/ EvKeyGet \/ EvKeyClear \/ EvDone

CommandStep == CommandEnds \/ \E e \in {"nano", "vi"} : EditorStarts(e)

\* A call of readline after the commands Typed, none at the start of the shell.
IInit ==
    /\ modifier = "none"
    /\ in_read = FALSE /\ read_key = None /\ nav_key = None /\ word_del = None
    /\ do_clear = FALSE /\ cancel = None /\ ctrl_char = FALSE
    /\ pc = "reset" /\ editor = "none"
    /\ ln = EmptyLine /\ hooked = FALSE
    /\ hist = Typed /\ hpos = Len(Typed)
    /\ prompt = 1 /\ origin = <<>> /\ due = {} /\ crowded = 0
    /\ used = {} /\ twice = FALSE /\ stale = FALSE

INext == KeyIrq \/ ReadlineStep \/ EditorStep \/ CommandStep

ISpec == IInit /\ [][INext]_ivars

\* The shell task keeps executing readline (the scheduler's RunnableRuns);
\* nothing is assumed of the keyboard, of commands or of editors.
IFairSpec == ISpec /\ WF_ivars(ReadlineStep)

(***************************************************************************)
(* Properties.                                                             *)
(***************************************************************************)
\* No character, arrow, Alt+Backspace or Ctrl+C takes effect twice, wherever the
\* interrupt falls between the steps that take it, and whether readline, nano or
\* vi takes it; and none that was pressed before a prompt has an effect at that
\* prompt or in an editor started from it (readline.c:143: "don't inherit stale
\* state from the previous prompt/command").  Not said of Ctrl with another key:
\* readline does not reset do_clear_screen, so Ctrl+L pressed while a command runs
\* clears the next prompt, and ctrl_char waits for the next editor.
UsedOnce == ~twice /\ ~stale

\* Where readline keeps the press it has taken.
Holding(k) == read_key = k /\ pc \in {"key_nl", "key_bs", "key_tab", "key_ge", "key_ins"}

\* Unless a key comes before the one before it has been dealt with, none that
\* is pressed at an idle prompt is lost: it has had its effect or waits for it.
NoneLost ==
    crowded = 0 =>
        \A k \in due : \/ k \in used
                       \/ in_read /\ read_key = k
                       \/ Holding(k)
                       \/ cancel = k

\* Unless keys crowd, the line is a string of printable characters of the
\* length readline believes it has, so what the shell runs is what is shown; and
\* a line that an arrow key recalled is the history line at s_hist_pos, until it
\* is edited: "hooked" never survives a change of the line.
LineSound ==
    /\ ln.len \in 0 .. Size - 1 /\ ln.pos \in 0 .. ln.len
    /\ crowded = 0 =>
          /\ ln.buf[ln.len] = None
          /\ \A c \in 0 .. ln.len - 1 : Printable(ln.buf[c])
    /\ hooked /\ pc \in Tests => Str(ln.buf) = Current(hpos)

\* What is pressed at an idle prompt takes effect in the end, unless Ctrl+L,
\* which starts the loop over, is pressed again and again.
KeyTakesEffect ==
    <>[]~do_clear => (~(due \subseteq used) ~> (crowded > 0 \/ due \subseteq used))
=============================================================================
