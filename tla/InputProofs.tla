---------------------------- MODULE InputProofs ----------------------------
(***************************************************************************)
(* Proofs about typing at the prompt and in the editors, for every number  *)
(* of key presses and of presses that crowd, and for every size of the     *)
(* line and of the history.                                                *)
(*                                                                         *)
(* The invariant follows a press through the mailbox: KeyInv says where it *)
(* can be at each step of the reader, LineInv what the line and the        *)
(* history look like.                                                      *)
(***************************************************************************)
EXTENDS Input, SequenceTheorems, WellFoundedInduction, TLAPS

\* The presses so far.
Made(kinds) == (1 .. Len(origin)) \X kinds

AllKinds == Kinds \cup Arrows \cup {"word"}

KeyTypeOK ==
    /\ origin \in Seq(Nat) /\ prompt \in Nat /\ crowded \in Nat
    /\ read_key \in Made(Kinds \ {"cancel"}) \cup {None}
    /\ cancel \in Made({"cancel"}) \cup {None}
    /\ nav_key \in Made(Arrows) \cup {None}
    /\ word_del \in Made({"word"}) \cup {None}
    /\ used \subseteq Made(AllKinds) /\ due \subseteq Made(Kinds)

\* An arrow or Alt+Backspace is not a character: the mailbox holds one of the three.
MailboxOK ==
    /\ nav_key = None \/ read_key = None
    /\ word_del = None \/ read_key = None

\* A press that took effect is in the mailbox only until its flag is cleared, and one
\* made at an earlier prompt only until the resets of readline.
OnceOK ==
    /\ UsedOnce
    /\ read_key \in used => pc \in {"key_clr", "key_ret", "ev_key_clr"}
    /\ nav_key \in used => pc = "nav_clr"
    /\ word_del \in used => pc \in {"word_take", "word_clr"}
    /\ cancel \notin used
    /\ read_key # None => \/ pc \in {"reset", "reset_word", "reset_key"}
                          \/ origin[read_key[1]] = prompt
    /\ nav_key # None => \/ pc \in {"reset", "reset_word", "reset_key", "reset_nav"}
                         \/ origin[nav_key[1]] = prompt
    /\ word_del # None => \/ pc \in {"reset", "reset_word"}
                          \/ origin[word_del[1]] = prompt
    /\ cancel # None => pc = "reset" \/ origin[cancel[1]] = prompt

\* readline has seen a character and has not yet done what it says.
Holds == {"key_take", "key_nl", "key_bs", "key_tab", "key_ge", "key_ins"}

\* It does what an arrow or Alt+Backspace says, or has done what the character said.
Acts == {"nav_take", "nav1", "nav2", "nav3", "nav4", "nav_clr", "word_take", "word_clr",
         "key_clr"}

\* Unless keys crowd: at the tests of its loop at most one press is waiting, and
\* what the reader went on to deal with is what is in the mailbox.
WaitingOK ==
    /\ pc \in Tests => /\ in_read => cancel = None
                       /\ \A k \in due : \/ k \in used
                                         \/ in_read /\ read_key = k
                                         \/ cancel = k
    /\ pc \in Holds => /\ cancel = None /\ read_key # None
                       /\ \A k \in due : k \in used \/ read_key = k
    /\ pc \in Acts => cancel = None
    /\ pc \notin Tests \cup Holds => due \subseteq used

ComparedOK ==
    /\ pc = "nav_take" => nav_key # None
    /\ pc = "word_take" => word_del # None
    /\ pc = "key_take" => in_read
    /\ pc = "key_bs" => read_key[2] # "nl"
    /\ pc = "key_tab" => read_key[2] \notin {"nl", "bs"}
    /\ pc = "key_ge" => read_key[2] \notin {"nl", "bs", "tab"}
    /\ pc = "key_ins" => Printable(read_key)

LostOK == crowded = 0 => WaitingOK /\ ComparedOK

KeyInv == KeyTypeOK /\ MailboxOK /\ OnceOK /\ LostOK

----------------------------------------------------------------------------
(* The presses *)

LEMMA KeyInitInv == IInit => KeyInv
  <1> SUFFICES ASSUME IInit
               PROVE  KeyInv
    OBVIOUS
  <1>1. KeyTypeOK
    BY DEF IInit, KeyTypeOK
  <1>2. MailboxOK /\ OnceOK /\ LostOK
    BY DEF IInit, MailboxOK, OnceOK, UsedOnce, LostOK, WaitingOK, ComparedOK, Tests, Holds, Acts
  <1> QED
    BY <1>1, <1>2 DEF KeyInv

\* A key that comes is new, and when it is meant for the prompt nothing else waits.
LEMMA KeyIrqInv ==
    ASSUME KeyInv, KeyIrq
    PROVE  KeyInv'
  <1> DEFINE n == Len(origin)
  <1>0. KeyTypeOK /\ MailboxOK /\ OnceOK /\ LostOK /\ UNCHANGED shell
    BY DEF KeyInv, KeyIrq
  <1>1. /\ n \in Nat /\ origin' \in Seq(Nat) /\ Len(origin') = n + 1
        /\ origin'[n + 1] = prompt /\ \A i \in 1 .. n : origin'[i] = origin[i]
    BY <1>0, LenProperties, AppendProperties DEF KeyIrq, KeyTypeOK
  <1> HIDE DEF n
  <1>2. /\ UNCHANGED <<pc, editor, ln, hooked, hist, hpos, prompt, used, twice, stale>>
        /\ Press("cancel") = <<n + 1, "cancel">>
        /\ Press("cancel") \in {n + 1} \X {"cancel"}
        /\ \A kind \in AllKinds : Press(kind) = <<n + 1, kind>>
    BY <1>0 DEF shell, line, history, ghosts, Press, n
  <1>a. /\ \A kinds : \A k \in Made(kinds) : k \in (Made(kinds))'
        /\ \A kinds : \A k \in {n + 1} \X kinds : k \in (Made(kinds))' /\ k # None
        /\ \A kinds : {n + 1} \X kinds \cap Made(AllKinds) = {}
        /\ \A kinds : \A k \in Made(kinds) : k # None /\ k[1] \in 1 .. n
    BY <1>1 DEF Made, None, n
  <1>3. CASE UNCHANGED <<in_read, read_key, nav_key, word_del, cancel, due, crowded>>
    <2>1. KeyTypeOK'
      BY <1>0, <1>1, <1>2, <1>3, <1>a DEF KeyTypeOK
    <2>2. OnceOK'
      BY <1>0, <1>1, <1>2, <1>3, <1>a DEF OnceOK, KeyTypeOK, UsedOnce
    <2>3. MailboxOK' /\ LostOK'
      BY <1>0, <1>2, <1>3 DEF MailboxOK, LostOK, WaitingOK, ComparedOK
    <2> QED
      BY <2>1, <2>2, <2>3 DEF KeyInv
  <1>4. ASSUME NEW key \in {None} \cup {n + 1} \X (Kinds \ {"cancel"}),
               NEW nav \in {None} \cup {n + 1} \X Arrows,
               NEW word \in {None, word_del} \cup {n + 1} \X {"word"},
               nav = None \/ key = None, word = None \/ key = None,
               Deposit(key, nav, word)
        PROVE  KeyInv'
    <2>0. /\ read_key' = key /\ nav_key' = nav /\ word_del' = word /\ cancel' = cancel
      BY <1>4 DEF Deposit
    <2>1. KeyTypeOK'
      <3>1. due' \subseteq due \cup ({key} \ {None}) /\ crowded' \in Nat
        BY <1>0, <1>4 DEF Deposit, Comes, KeyTypeOK
      <3>2. /\ read_key' \in (Made(Kinds \ {"cancel"}))' \cup {None}
            /\ nav_key' \in (Made(Arrows))' \cup {None}
            /\ word_del' \in (Made({"word"}))' \cup {None}
            /\ cancel' \in (Made({"cancel"}))' \cup {None}
        BY <1>0, <1>4, <1>a, <2>0 DEF KeyTypeOK
      <3>3. key \in {n + 1} \X Kinds \cup {None}
        BY <1>4
      <3>4. used' \subseteq (Made(AllKinds))' /\ due' \subseteq (Made(Kinds))'
        BY <1>0, <1>2, <1>a, <3>1, <3>3 DEF KeyTypeOK
      <3> QED
        BY <1>0, <1>1, <1>2, <3>1, <3>2, <3>4 DEF KeyTypeOK
    <2>2. OnceOK'
      <3>1. None \notin used
        BY <1>0, <1>a DEF KeyTypeOK
      <3>2. /\ key # None => key \notin used /\ key[1] = n + 1
            /\ nav # None => nav \notin used /\ nav[1] = n + 1
            /\ word \notin {None, word_del} => word \notin used /\ word[1] = n + 1
        BY <1>0, <1>4, <1>a DEF KeyTypeOK
      <3>3. /\ word_del # None => word_del[1] \in 1 .. n
            /\ cancel # None => cancel[1] \in 1 .. n
        BY <1>0, <1>a DEF KeyTypeOK
      <3> QED
        BY <1>0, <1>1, <1>2, <2>0, <3>1, <3>2, <3>3 DEF OnceOK, UsedOnce
    <2>3. MailboxOK'
      BY <1>4 DEF MailboxOK, Deposit
    <2>4. LostOK'
      <3> SUFFICES ASSUME crowded' = 0
                   PROVE  WaitingOK' /\ ComparedOK'
        BY DEF LostOK
      <3>1. crowded = 0 /\ (Idle \/ pc \in Running)
        BY <1>0, <1>4 DEF Deposit, Comes, KeyTypeOK
      <3>2. WaitingOK /\ pc \notin Holds
        BY <1>0, <3>1 DEF LostOK, Idle, Tests, Holds, Acts, Running
      <3>3. ComparedOK'
        BY <1>2, <3>1 DEF ComparedOK, Idle, Tests, Running
      <3>4. WaitingOK'
        BY <1>2, <1>4, <3>1, <3>2 DEF WaitingOK, Deposit, Comes, Idle, Tests, Holds, Acts, Running
      <3> QED
        BY <3>3, <3>4
    <2> QED
      BY <2>1, <2>2, <2>3, <2>4 DEF KeyInv
  <1>5. CASE CtrlC
    <2>0. /\ cancel' = <<n + 1, "cancel">> /\ Comes(cancel')
          /\ UNCHANGED <<in_read, read_key, nav_key, word_del>>
      BY <1>2, <1>5 DEF CtrlC
    <2>a. /\ cancel' \in {n + 1} \X {"cancel"} /\ cancel' \in {n + 1} \X Kinds
          /\ cancel' \in {n + 1} \X AllKinds
      BY <2>0 DEF Kinds, AllKinds
    <2>b. /\ due' \subseteq due \cup {cancel'} /\ (~Idle => due' = due)
          /\ crowded \in Nat => crowded' \in Nat
      BY <2>0 DEF Comes
    <2>c. cancel' \in (Made({"cancel"}))' /\ cancel' \in (Made(Kinds))'
      BY <1>a, <2>a
    <2>1. KeyTypeOK'
      <3>1. due' \subseteq (Made(Kinds))' /\ used' \subseteq (Made(AllKinds))'
        BY <1>0, <1>2, <1>a, <2>b, <2>c DEF KeyTypeOK
      <3>2. /\ read_key' \in (Made(Kinds \ {"cancel"}))' \cup {None}
            /\ nav_key' \in (Made(Arrows))' \cup {None}
            /\ word_del' \in (Made({"word"}))' \cup {None}
        BY <1>0, <2>0, <1>a DEF KeyTypeOK
      <3> QED
        BY <1>0, <1>1, <1>2, <2>b, <2>c, <3>1, <3>2 DEF KeyTypeOK
    <2>2. OnceOK'
      BY <1>0, <1>1, <1>2, <2>0, <2>a, <1>a DEF OnceOK, KeyTypeOK, UsedOnce
    <2>3. MailboxOK'
      BY <1>0, <2>0 DEF MailboxOK
    <2>4. LostOK'
      <3> SUFFICES ASSUME crowded' = 0
                   PROVE  WaitingOK' /\ ComparedOK'
        BY DEF LostOK
      <3>1. crowded = 0 /\ (Idle \/ pc \in Running)
        BY <1>0, <2>0 DEF Comes, KeyTypeOK
      <3>2. WaitingOK /\ pc \notin Holds
        BY <1>0, <3>1 DEF LostOK, Idle, Tests, Holds, Acts, Running
      <3>3. ComparedOK'
        BY <1>2, <3>1 DEF ComparedOK, Idle, Tests, Running
      <3>4. WaitingOK'
        <4>1. CASE Idle
          <5>1. \A k \in due' : k \in used \/ k = cancel'
            BY <1>0, <1>a, <2>b, <3>2, <4>1 DEF WaitingOK, Idle, KeyTypeOK
          <5> QED
            BY <1>2, <2>0, <3>2, <4>1, <5>1 DEF WaitingOK, Idle, Tests, Holds, Acts
        <4>2. CASE pc \in Running
          <5>1. pc \notin Tests /\ due' = due
            BY <2>b, <4>2 DEF Tests, Running, Idle
          <5> QED
            BY <1>2, <3>2, <4>2, <5>1 DEF WaitingOK, Acts, Running
        <4> QED
          BY <3>1, <4>1, <4>2
      <3> QED
        BY <3>3, <3>4
    <2> QED
      BY <2>1, <2>2, <2>3, <2>4 DEF KeyInv
  <1>6. CASE \/ \E m \in Modifiers : HoldModifier(m)
             \/ ReleaseModifier \/ CtrlL \/ (\E c \in BOOLEAN : CtrlOther(c)) \/ OtherKey
    BY <1>3, <1>6 DEF HoldModifier, ReleaseModifier, CtrlL, CtrlOther, OtherKey, flags, presses
  <1>7. CASE AltBackspace \/ TypeNothing \/ \E k \in Arrows : Arrow(k)
    <2>1. CASE AltBackspace
      <3>1. Deposit(None, None, Press("word")) /\ Press("word") \in {n + 1} \X {"word"}
        BY <1>2, <2>1 DEF AltBackspace, AllKinds
      <3> QED
        BY <1>4, <3>1
    <2>2. CASE TypeNothing
      BY <1>4, <2>2 DEF TypeNothing
    <2>3. ASSUME NEW k \in Arrows, Arrow(k)
          PROVE  KeyInv'
      <3>1. Deposit(None, Press(k), word_del) /\ Press(k) \in {n + 1} \X Arrows
        BY <1>2, <2>3 DEF Arrow, AllKinds
      <3> QED
        BY <1>4, <3>1
    <2> QED
      BY <1>7, <2>1, <2>2, <2>3
  <1>8. ASSUME NEW kind \in Kinds, TypeKey(kind)
        PROVE  KeyInv'
    <2>1. kind # "cancel" /\ Deposit(Press(kind), None, None)
      BY <1>8 DEF TypeKey, Yields, Kinds
    <2>2. Press(kind) \in {n + 1} \X (Kinds \ {"cancel"})
      BY <1>2, <1>8, <2>1 DEF AllKinds
    <2> QED
      BY <1>4, <2>1, <2>2
  <1> QED
    BY <1>5, <1>6, <1>7, <1>8 DEF KeyIrq

\* A step of the shell task that lets no press take effect: it may go on, clear flags
\* or begin a new prompt.
Passes ==
    /\ UNCHANGED <<origin, due, crowded, used, twice, stale>>
    /\ read_key' \in {read_key, None} /\ cancel' \in {cancel, None}
    /\ nav_key' \in {nav_key, None} /\ word_del' \in {word_del, None}
    /\ read_key \in used /\ read_key' = read_key =>
         pc' \in {"key_clr", "key_ret", "ev_key_clr"}
    /\ nav_key \in used /\ nav_key' = nav_key => pc' = "nav_clr"
    /\ word_del \in used /\ word_del' = word_del => pc' \in {"word_take", "word_clr"}
    /\ \/ /\ prompt' = prompt
          /\ pc \in {"reset", "reset_word", "reset_key"} /\ read_key' # None =>
               pc' \in {"reset", "reset_word", "reset_key"}
          /\ pc \in {"reset", "reset_word", "reset_key", "reset_nav"} /\ nav_key' # None =>
               pc' \in {"reset", "reset_word", "reset_key", "reset_nav"}
          /\ pc \in {"reset", "reset_word"} /\ word_del' # None =>
               pc' \in {"reset", "reset_word"}
          /\ pc = "reset" /\ cancel' # None => pc' = "reset"
       \/ prompt' = prompt + 1 /\ pc' = "reset"

LEMMA PassesInv ==
    ASSUME KeyInv, Passes,
           crowded = 0 /\ WaitingOK /\ ComparedOK => WaitingOK' /\ ComparedOK'
    PROVE  KeyInv'
  <1>0. /\ KeyTypeOK /\ MailboxOK /\ OnceOK /\ LostOK
        /\ UNCHANGED <<origin, due, crowded, used, twice, stale>>
    BY DEF KeyInv, Passes
  <1>1. KeyTypeOK'
    BY <1>0 DEF KeyTypeOK, Made, Passes
  <1>2. MailboxOK'
    BY <1>0 DEF MailboxOK, Passes
  <1>3. OnceOK'
    <2>1. None \notin used
      BY <1>0 DEF KeyTypeOK, Made, None
    <2> QED
      BY <1>0, <2>1 DEF OnceOK, UsedOnce, Passes, KeyTypeOK
  <1>4. LostOK'
    BY <1>0 DEF LostOK
  <1> QED
    BY <1>1, <1>2, <1>3, <1>4 DEF KeyInv

\* A press takes effect: it is new, and of this prompt.
LEMMA UseFacts ==
    ASSUME KeyInv, NEW k, Use(k), origin' = origin,
           \/ k = cancel /\ pc # "reset"
           \/ k = read_key /\ pc \notin {"key_clr", "key_ret", "ev_key_clr", "reset",
                                         "reset_word", "reset_key"}
           \/ k = nav_key /\ pc \notin {"nav_clr", "reset", "reset_word", "reset_key",
                                        "reset_nav"}
           \/ k = word_del /\ pc \notin {"word_take", "word_clr", "reset", "reset_word"}
    PROVE  /\ ~twice' /\ ~stale' /\ used' \subseteq Made(AllKinds)
           /\ used' = IF k = None THEN used ELSE used \cup {k}
  <1>1. KeyTypeOK /\ OnceOK
    BY DEF KeyInv
  <1>2. CASE k = None
    BY <1>1, <1>2 DEF Use, ghosts, OnceOK, UsedOnce, KeyTypeOK
  <1>3. CASE k # None
    <2>1. k \notin used /\ origin[k[1]] = prompt /\ k \in Made(AllKinds)
      BY <1>1, <1>3 DEF OnceOK, KeyTypeOK, Made, AllKinds, Kinds
    <2>2. /\ used' = used \cup {k} /\ twice' = (twice \/ k \in used)
          /\ stale' = (stale \/ origin[k[1]] # prompt)
      BY <1>3 DEF Use
    <2> QED
      BY <1>1, <1>3, <2>1, <2>2 DEF OnceOK, UsedOnce, KeyTypeOK
  <1> QED
    BY <1>2, <1>3

\* An arrow or Alt+Backspace takes effect: no character is touched.
LEMMA ActsInv ==
    ASSUME KeyInv, NEW k, Use(k),
           UNCHANGED <<origin, due, crowded, prompt, cancel, read_key, word_del>>,
           \/ k = word_del /\ nav_key' = nav_key /\ pc = "word" /\ pc' = "word_take"
           \/ /\ k = nav_key /\ nav_key' = nav_key
              /\ pc \in {"nav1", "nav2", "nav3", "nav4"} /\ pc' = "nav_clr"
           \/ k = nav_key /\ nav_key' = None /\ pc = "ev_nav_clr" /\ pc' = "ev_done",
           crowded = 0 /\ WaitingOK /\ ComparedOK /\ used \subseteq used'
             => WaitingOK' /\ ComparedOK'
    PROVE  KeyInv'
  <1>0. KeyTypeOK /\ MailboxOK /\ OnceOK /\ LostOK
    BY DEF KeyInv
  <1>1. /\ ~twice' /\ ~stale' /\ used' \subseteq Made(AllKinds)
        /\ used' = IF k = None THEN used ELSE used \cup {k}
    BY UseFacts
  <1>2. KeyTypeOK'
    BY <1>0, <1>1 DEF KeyTypeOK, Made
  <1>3. MailboxOK'
    BY <1>0 DEF MailboxOK
  <1>4. OnceOK'
    <2>1. None \notin used /\ None \notin used'
      BY <1>0, <1>1 DEF KeyTypeOK, Made, None
    <2>2. /\ k # None => k \notin {read_key, cancel}
          /\ k # None /\ k = nav_key => k # word_del
      BY <1>0 DEF KeyTypeOK, Made, Arrows, Kinds
    <2>3. read_key \notin used /\ cancel \notin used /\ (nav_key \in used => pc = "nav_clr")
          /\ (word_del \in used => pc \in {"word_take", "word_clr"})
      BY <1>0 DEF OnceOK
    <2>4. /\ read_key' \notin used' /\ cancel' \notin used'
          /\ nav_key' \in used' => pc' = "nav_clr"
          /\ word_del' \in used' => pc' \in {"word_take", "word_clr"}
      BY <1>1, <2>1, <2>2, <2>3
    <2> QED
      BY <1>0, <1>1, <2>4 DEF OnceOK, UsedOnce
  <1>5. LostOK'
    BY <1>0, <1>1 DEF LostOK
  <1> QED
    BY <1>2, <1>3, <1>4, <1>5 DEF KeyInv

----------------------------------------------------------------------------
LEMMA ResetKeyInv ==
    ASSUME KeyInv,
           ResetCancel \/ ResetWord \/ ResetKey \/ ResetNav \/ ResetIn
    PROVE  KeyInv'
  <1>0. /\ UNCHANGED <<origin, due, crowded, used, twice, stale, prompt>>
        /\ read_key \in used => pc \in {"key_clr", "key_ret", "ev_key_clr"}
        /\ nav_key \in used => pc = "nav_clr"
        /\ word_del \in used => pc \in {"word_take", "word_clr"}
    BY DEF ResetCancel, ResetWord, ResetKey, ResetNav, ResetIn, TakeIn, Quiet, irq, presses,
       ghosts, KeyInv, OnceOK
  <1>1. Passes
    BY <1>0 DEF Passes, ResetCancel, ResetWord, ResetKey, ResetNav, ResetIn, TakeIn, At
  <1>2. pc \notin Tests \cup Holds /\ due \subseteq used => due' \subseteq used'
    BY <1>0
  <1>3. WaitingOK /\ ComparedOK => WaitingOK' /\ ComparedOK'
    BY <1>0 DEF ResetCancel, ResetWord, ResetKey, ResetNav, ResetIn, TakeIn, At,
       WaitingOK, ComparedOK, Tests, Holds, Acts
  <1> QED
    BY <1>1, <1>3, PassesInv

\* Ctrl+C ends the line, unless keys crowd the only press that waits; Ctrl+L does not
\* touch any.
LEMMA TopKeyInv ==
    ASSUME KeyInv, TopTest
    PROVE  KeyInv'
  <1>0. /\ KeyTypeOK /\ MailboxOK /\ OnceOK /\ LostOK /\ pc = "top"
        /\ UNCHANGED <<origin, due, crowded, in_read, read_key, nav_key, word_del>>
    BY DEF KeyInv, TopTest, irq, presses
  <1>1. CASE cancel # None
    <2>1. Use(cancel) /\ cancel' = None /\ prompt' = prompt + 1 /\ pc' = "reset"
      BY <1>1 DEF TopTest, NewPrompt
    <2>2. ~twice' /\ ~stale' /\ used' \subseteq Made(AllKinds) /\ used' = used \cup {cancel}
      BY <1>0, <1>1, <2>1, UseFacts
    <2>3. KeyTypeOK'
      BY <1>0, <2>1, <2>2 DEF KeyTypeOK, Made
    <2>4. MailboxOK'
      BY <1>0 DEF MailboxOK
    <2>5. OnceOK'
      <3>1. None \notin used'
        BY <2>2 DEF Made, None
      <3>2. /\ cancel \notin {read_key, nav_key, word_del}
            /\ read_key \notin used /\ nav_key \notin used /\ word_del \notin used
        BY <1>0, <1>1 DEF KeyTypeOK, Made, OnceOK, Arrows
      <3> QED
        BY <1>0, <2>1, <2>2, <3>1, <3>2 DEF OnceOK, UsedOnce
    <2>6. LostOK'
      <3> SUFFICES ASSUME crowded' = 0
                   PROVE  WaitingOK' /\ ComparedOK'
        BY DEF LostOK
      <3>1. WaitingOK
        BY <1>0 DEF LostOK
      <3>2. due \subseteq used \cup {cancel}
        BY <1>0, <1>1, <3>1 DEF WaitingOK, Tests
      <3> QED
        BY <1>0, <2>1, <2>2, <3>2 DEF WaitingOK, ComparedOK, Tests, Holds, Acts
    <2> QED
      BY <2>3, <2>4, <2>5, <2>6 DEF KeyInv
  <1>2. CASE cancel = None
    <2>1. /\ UNCHANGED <<cancel, prompt, used, twice, stale>> /\ pc' \in {"top", "nav"}
      BY <1>0, <1>2 DEF TopTest, ghosts
    <2>2. Passes
      BY <1>0, <2>1 DEF Passes, OnceOK
    <2>3. WaitingOK /\ ComparedOK => WaitingOK' /\ ComparedOK'
      BY <1>0, <2>1 DEF WaitingOK, ComparedOK, Tests, Holds, Acts
    <2> QED
      BY <2>2, <2>3, PassesInv
  <1> QED
    BY <1>1, <1>2

\* The tests of the loop: a character is not taken for an arrow or Alt+Backspace.
LEMMA TestKeyInv ==
    ASSUME KeyInv, NavTest \/ WordTest \/ KeyTest, UNCHANGED ghosts
    PROVE  KeyInv'
  <1>0. /\ KeyTypeOK /\ MailboxOK /\ OnceOK /\ LostOK
        /\ UNCHANGED <<origin, due, crowded, in_read, read_key, nav_key, word_del, cancel,
                       prompt, used, twice, stale>>
    BY DEF KeyInv, NavTest, WordTest, KeyTest, Test, Quiet, irq, presses, ghosts, flags
  <1>1. \/ pc = "nav" /\ pc' = "word"
        \/ pc = "nav" /\ pc' = "nav_take" /\ in_read /\ nav_key # None
        \/ pc = "word" /\ pc' = "key"
        \/ pc = "word" /\ pc' = "word_take" /\ in_read /\ word_del # None
        \/ pc = "key" /\ pc' = "top" /\ ~(in_read /\ read_key # None)
        \/ pc = "key" /\ pc' = "key_take" /\ in_read /\ read_key # None
    BY DEF NavTest, WordTest, KeyTest, Test
  <1>2. Passes
    BY <1>0, <1>1 DEF Passes, OnceOK
  <1>3. ASSUME WaitingOK
        PROVE  WaitingOK' /\ ComparedOK'
    <2>1. \A k \in due : k # None
      BY <1>0 DEF KeyTypeOK, Made, None
    <2>2. pc \in Tests
      BY <1>1 DEF Tests
    <2>3. CASE pc' \in Tests
      BY <1>0, <1>3, <2>2, <2>3 DEF WaitingOK, ComparedOK, Tests, Holds, Acts
    <2>4. CASE pc' \in {"nav_take", "word_take"}
      <3>1. in_read /\ read_key = None /\ cancel = None
        BY <1>0, <1>1, <1>3, <2>2, <2>4 DEF MailboxOK, WaitingOK
      <3>2. due \subseteq used
        BY <1>3, <2>1, <2>2, <3>1 DEF WaitingOK
      <3> QED
        BY <1>0, <1>1, <2>4, <3>1, <3>2 DEF WaitingOK, ComparedOK, Tests, Holds, Acts
    <2>5. CASE pc' = "key_take"
      <3>1. in_read /\ read_key # None /\ cancel = None
        BY <1>1, <1>3, <2>2, <2>5 DEF WaitingOK
      <3>2. \A k \in due : k \in used \/ read_key = k
        BY <1>3, <2>1, <2>2, <3>1 DEF WaitingOK
      <3> QED
        BY <1>0, <2>5, <3>1, <3>2 DEF WaitingOK, ComparedOK, Tests, Holds, Acts
    <2> QED
      BY <1>1, <2>3, <2>4, <2>5 DEF Tests
  <1> QED
    BY <1>2, <1>3, PassesInv

\* Alt+Backspace is seen: no character waits.
LEMMA WordKeyInv ==
    ASSUME KeyInv, WordTest
    PROVE  KeyInv'
  <1>1. CASE UNCHANGED ghosts
    BY <1>1, TestKeyInv
  <1>2. CASE ~UNCHANGED ghosts
    <2>1. /\ UNCHANGED <<origin, due, crowded, in_read, read_key, nav_key, word_del, cancel,
                         prompt>>
          /\ pc = "word" /\ pc' = "word_take" /\ in_read /\ word_del # None /\ Use(word_del)
      BY <1>2 DEF WordTest, irq, presses, flags
    <2>2. ASSUME WaitingOK, used \subseteq used'
          PROVE  WaitingOK' /\ ComparedOK'
      <3>1. read_key = None /\ cancel = None /\ \A k \in due : k # None
        BY <2>1, <2>2 DEF KeyInv, MailboxOK, KeyTypeOK, Made, None, WaitingOK, Tests
      <3>2. due \subseteq used'
        BY <2>1, <2>2, <3>1 DEF WaitingOK, Tests
      <3> QED
        BY <2>1, <3>1, <3>2 DEF WaitingOK, ComparedOK, Tests, Holds, Acts
    <2> QED
      BY <2>1, <2>2, ActsInv
  <1> QED
    BY <1>1, <1>2

\* A step that goes from one place at which nothing waits to another.
LEMMA ElsewhereInv ==
    ASSUME KeyInv, Passes, pc \notin Tests \cup Holds, pc' \notin Holds,
           pc' \notin {"nav_take", "word_take"}, pc' \in Tests \cup Acts => pc \in Acts
    PROVE  KeyInv'
  <1>1. WaitingOK => WaitingOK'
    <2>1. cancel = None => cancel' = None
      BY DEF Passes
    <2> QED
      BY <2>1 DEF WaitingOK, Passes
  <1>2. ComparedOK'
    BY DEF ComparedOK, Holds
  <1> QED
    BY <1>1, <1>2, PassesInv

LEMMA ArrowKeyInv ==
    ASSUME KeyInv,
           \/ NavTake \/ NavUp \/ NavDown \/ NavLeft \/ NavRight \/ NavClear
           \/ WordTake \/ WordClear
    PROVE  KeyInv'
  <1>0. None \notin used
    BY DEF KeyInv, KeyTypeOK, Made, None
  <1>1. CASE NavTake \/ NavClear \/ WordTake \/ WordClear
    <2>1. /\ UNCHANGED <<origin, due, crowded, read_key, cancel, prompt, used, twice, stale>>
          /\ nav_key' \in {nav_key, None} /\ word_del' \in {word_del, None}
      BY <1>1 DEF NavTake, NavClear, WordTake, WordClear, TakeIn, At, Quiet, irq, presses, ghosts
    <2>2. \/ pc = "nav_take" /\ pc' = "nav1"
          \/ pc = "nav_clr" /\ pc' = "top" /\ nav_key' = None
          \/ pc = "word_take" /\ pc' = "word_clr"
          \/ pc = "word_clr" /\ pc' = "top" /\ word_del' = None
      BY <1>1 DEF NavTake, NavClear, WordTake, WordClear, TakeIn, At
    <2>3. Passes
      BY <1>0, <2>1, <2>2 DEF Passes, KeyInv, OnceOK
    <2> QED
      BY <2>2, <2>3, ElsewhereInv DEF Tests, Holds, Acts
  <1>2. CASE NavUp \/ NavDown \/ NavLeft \/ NavRight
    <2>1. /\ UNCHANGED <<origin, due, crowded, in_read, read_key, nav_key, word_del, cancel,
                         prompt>>
          /\ pc \in {"nav1", "nav2", "nav3", "nav4"}
          /\ \/ pc' = "nav_clr" /\ Use(nav_key)
             \/ pc' \in {"nav2", "nav3", "nav4", "nav_clr"} /\ UNCHANGED ghosts
      BY <1>2 DEF NavUp, NavDown, NavLeft, NavRight, NavCompare, irq, presses, flags
    <2>2. CASE pc' = "nav_clr" /\ Use(nav_key)
      <3>1. WaitingOK /\ used \subseteq used' => WaitingOK' /\ ComparedOK'
        BY <2>1, <2>2 DEF WaitingOK, ComparedOK, Tests, Holds, Acts
      <3> QED
        BY <2>1, <2>2, <3>1, ActsInv
    <2>3. CASE pc' \in {"nav2", "nav3", "nav4", "nav_clr"} /\ UNCHANGED ghosts
      <3>1. Passes
        BY <1>0, <2>1, <2>3 DEF Passes, KeyInv, OnceOK, ghosts
      <3> QED
        BY <2>1, <2>3, <3>1, ElsewhereInv DEF Tests, Holds, Acts
    <2> QED
      BY <2>1, <2>2, <2>3
  <1> QED
    BY <1>1, <1>2

\* What the reader holds takes effect.
LEMMA UsingInv ==
    ASSUME KeyInv, Use(read_key), pc \in {"key_nl", "key_bs", "key_tab", "key_ins", "ev_key_get"},
           pc' \in {"key_clr", "key_ret", "ev_key_clr"}, pc = "ev_key_get" => pc' = "ev_key_clr",
           UNCHANGED <<irq, flags, prompt>>
    PROVE  KeyInv'
  <1>0. /\ KeyTypeOK /\ MailboxOK /\ OnceOK /\ LostOK
        /\ UNCHANGED <<origin, due, crowded, in_read, read_key, nav_key, word_del, cancel,
                       prompt>>
    BY DEF KeyInv, irq, presses, flags
  <1>1. /\ ~twice' /\ ~stale' /\ used' \subseteq Made(AllKinds)
        /\ used' = IF read_key = None THEN used ELSE used \cup {read_key}
    BY <1>0, UseFacts
  <1>2. KeyTypeOK'
    BY <1>0, <1>1 DEF KeyTypeOK, Made
  <1>3. MailboxOK'
    BY <1>0 DEF MailboxOK
  <1>4. OnceOK'
    <2>1. cancel \notin used' /\ nav_key \notin used' /\ word_del \notin used'
      BY <1>0, <1>1 DEF OnceOK, KeyTypeOK, Made, None, Kinds, Arrows
    <2> QED
      BY <1>0, <1>1, <2>1 DEF OnceOK, UsedOnce
  <1>5. LostOK'
    <2> SUFFICES ASSUME crowded = 0
                 PROVE  WaitingOK' /\ ComparedOK'
      BY <1>0 DEF LostOK
    <2>1. WaitingOK
      BY <1>0 DEF LostOK
    <2>2. due \subseteq used'
      BY <1>1, <2>1 DEF WaitingOK, Tests, Holds
    <2>3. pc' = "key_clr" => cancel' = None
      BY <1>0, <2>1 DEF WaitingOK, Holds
    <2> QED
      BY <1>0, <2>2, <2>3 DEF WaitingOK, ComparedOK, Tests, Holds, Acts
  <1> QED
    BY <1>2, <1>3, <1>4, <1>5 DEF KeyInv

\* The comparisons: the character that is held is one of those looked for.
LEMMA CharKeyInv ==
    ASSUME KeyInv,
           \/ KeyTake \/ KeyEnter \/ KeyBack \/ KeyTab \/ KeyPrint \/ KeyInsert
           \/ KeyClear \/ Return
    PROVE  KeyInv'
  <1>0. KeyTypeOK /\ OnceOK
    BY DEF KeyInv
  <1>1. CASE KeyClear \/ Return
    <2>1. /\ UNCHANGED <<origin, due, crowded, cancel, nav_key, used, twice, stale>>
          /\ read_key' = None /\ word_del' = word_del
      BY <1>1 DEF KeyClear, ClearKey, Return, Quiet, irq, presses, ghosts
    <2>2. \/ pc = "key_clr" /\ pc' = "top" /\ prompt' = prompt
          \/ pc = "key_ret" /\ pc' = "command" /\ prompt' = prompt
          \/ pc = "key_ret" /\ pc' = "reset" /\ prompt' = prompt + 1
      BY <1>1 DEF KeyClear, ClearKey, Return, At, Quiet, NewPrompt
    <2>3. Passes
      <3>1. None \notin used
        BY <1>0 DEF KeyTypeOK, Made, None
      <3> QED
        BY <1>0, <2>1, <2>2, <3>1 DEF Passes, OnceOK
    <2> QED
      BY <2>2, <2>3, ElsewhereInv DEF Tests, Holds, Acts
  <1>2. CASE KeyTake
    <2>1. /\ UNCHANGED <<origin, due, crowded, cancel, nav_key, word_del, used, twice, stale,
                         prompt, read_key>>
          /\ pc = "key_take" /\ pc' = "key_nl"
      BY <1>2 DEF KeyTake, TakeIn, At, Quiet, irq, presses, ghosts
    <2>2. Passes
      BY <1>0, <2>1 DEF Passes, OnceOK
    <2>3. WaitingOK => WaitingOK' /\ ComparedOK'
      BY <2>1 DEF WaitingOK, ComparedOK, Tests, Holds, Acts
    <2> QED
      BY <2>2, <2>3, PassesInv
  <1>3. CASE KeyEnter \/ KeyBack \/ KeyTab \/ KeyPrint \/ KeyInsert
    <2>0. UNCHANGED <<irq, flags, prompt>>
      BY <1>3 DEF KeyEnter, KeyBack, KeyTab, KeyPrint, KeyInsert, KeyCompare
    <2>1. \/ /\ Use(read_key) /\ pc \in {"key_nl", "key_bs", "key_tab", "key_ins"}
             /\ pc' \in {"key_clr", "key_ret"}
          \/ /\ UNCHANGED ghosts
             /\ \/ pc = "key_nl" /\ pc' = "key_bs" /\ read_key[2] # "nl"
                \/ pc = "key_bs" /\ pc' = "key_tab" /\ read_key[2] # "bs"
                \/ pc = "key_tab" /\ pc' = "key_ge" /\ read_key[2] # "tab"
                \/ pc = "key_ge" /\ pc' = "key_ins" /\ Printable(read_key)
                \/ pc = "key_ge" /\ pc' = "key_clr" /\ ~Printable(read_key)
      BY <1>3 DEF KeyEnter, KeyBack, KeyTab, KeyPrint, KeyInsert, KeyCompare
    <2>2. CASE /\ Use(read_key) /\ pc \in {"key_nl", "key_bs", "key_tab", "key_ins"}
               /\ pc' \in {"key_clr", "key_ret"}
      BY <2>0, <2>2, UsingInv
    <2>3. CASE /\ UNCHANGED ghosts
               /\ \/ pc = "key_nl" /\ pc' = "key_bs" /\ read_key[2] # "nl"
                  \/ pc = "key_bs" /\ pc' = "key_tab" /\ read_key[2] # "bs"
                  \/ pc = "key_tab" /\ pc' = "key_ge" /\ read_key[2] # "tab"
                  \/ pc = "key_ge" /\ pc' = "key_ins" /\ Printable(read_key)
                  \/ pc = "key_ge" /\ pc' = "key_clr" /\ ~Printable(read_key)
      <3>1. UNCHANGED <<origin, due, crowded, in_read, read_key, nav_key, word_del, cancel,
                        prompt, used, twice, stale>>
        BY <2>0, <2>3 DEF irq, presses, flags, ghosts
      <3>2. Passes
        BY <1>0, <2>3, <3>1 DEF Passes, OnceOK
      <3>3. ASSUME WaitingOK, ComparedOK
            PROVE  WaitingOK' /\ ComparedOK'
        <4>1. read_key \in Made(Kinds \ {"cancel"}) /\ cancel = None
          BY <1>0, <2>3, <3>3 DEF WaitingOK, Holds, KeyTypeOK
        <4>2. read_key[2] \in Kinds \ {"cancel"}
          BY <4>1 DEF Made
        <4>3. pc # "key_ge" \/ Printable(read_key)
          BY <3>3, <4>2 DEF ComparedOK, Printable, Kinds
        <4>4. pc' \in Holds /\ pc' # "key_take" /\ ComparedOK'
          BY <2>3, <3>1, <3>3, <4>3 DEF ComparedOK, Printable, Holds
        <4>5. WaitingOK'
          BY <2>3, <3>1, <3>3, <4>4 DEF WaitingOK, Holds, Tests, Acts
        <4> QED
          BY <4>4, <4>5
      <3> QED
        BY <3>2, <3>3, PassesInv
    <2> QED
      BY <2>1, <2>2, <2>3
  <1> QED
    BY <1>1, <1>2, <1>3

\* Commands and the events of an editor.
LEMMA EditorKeyInv ==
    ASSUME KeyInv, EditorStep \/ CommandStep
    PROVE  KeyInv'
  <1>0. KeyTypeOK /\ OnceOK /\ LostOK /\ MailboxOK
    BY DEF KeyInv
  <1>1. CASE EvKeyGet
    BY <1>1, UsingInv DEF EvKeyGet, At
  <1>2. CASE EvCancel
    <2>1. /\ UNCHANGED <<origin, due, crowded, in_read, read_key, nav_key, word_del, prompt>>
          /\ Use(cancel) /\ cancel' = None
          /\ pc = "ev_cancel" /\ pc' \in {"ev_done", "ev_clear"}
      BY <1>2 DEF EvCancel, irq, presses
    <2>2. /\ ~twice' /\ ~stale' /\ used' \subseteq Made(AllKinds)
          /\ used' = IF cancel = None THEN used ELSE used \cup {cancel}
      BY <2>1, UseFacts
    <2>3. KeyTypeOK' /\ MailboxOK'
      BY <1>0, <2>1, <2>2 DEF KeyTypeOK, Made, MailboxOK
    <2>4. OnceOK'
      <3>1. None \notin used'
        BY <2>2 DEF Made, None
      <3>2. read_key \notin used' /\ nav_key \notin used' /\ word_del \notin used'
        BY <1>0, <2>1, <2>2 DEF KeyTypeOK, Made, OnceOK, None, Arrows
      <3> QED
        BY <1>0, <2>1, <2>2, <3>1, <3>2 DEF OnceOK, UsedOnce
    <2>5. LostOK'
      BY <1>0, <2>1, <2>2 DEF LostOK, WaitingOK, ComparedOK, Tests, Holds, Acts
    <2> QED
      BY <2>3, <2>4, <2>5 DEF KeyInv
  <1>4. CASE EvNavClear
    <2>1. /\ UNCHANGED <<origin, due, crowded, read_key, word_del, cancel, prompt>>
          /\ Use(nav_key) /\ nav_key' = None /\ pc = "ev_nav_clr" /\ pc' = "ev_done"
      BY <1>4 DEF EvNavClear, At, irq, presses
    <2>2. WaitingOK /\ used \subseteq used' => WaitingOK' /\ ComparedOK'
      BY <2>1 DEF WaitingOK, ComparedOK, Tests, Holds, Acts
    <2> QED
      BY <2>1, <2>2, ActsInv
  <1>3. CASE \/ EvCtrlTest \/ EvCtrlClear \/ EvClear \/ EvNavTest
             \/ EvKeyTest \/ EvEscTest \/ EvKeyClear \/ EvDone
             \/ CommandEnds \/ \E e \in {"nano", "vi"} : EditorStarts(e)
    <2>1. /\ UNCHANGED <<origin, due, crowded, cancel, used, twice, stale>>
          /\ read_key' \in {read_key, None} /\ UNCHANGED <<nav_key, word_del>>
      BY <1>3 DEF EvCtrlTest, EvCtrlClear, EvClear, EvNavTest, EvKeyTest,
         EvEscTest, EvKeyClear, EvDone, CommandEnds, EditorStarts, TakeIn, ClearKey,
         Test, Quiet, irq, presses, ghosts, flags
    <2>2. /\ pc \in Running /\ pc' \in Running \cup {"reset"}
          /\ \/ prompt' = prompt /\ pc' # "reset"
             \/ prompt' = prompt + 1 /\ pc' = "reset"
          /\ pc = "ev_key_clr" => read_key' = None
      <3>1. CASE CommandEnds \/ \E e \in {"nano", "vi"} : EditorStarts(e)
        BY <3>1 DEF CommandEnds, EditorStarts, At, NewPrompt, Running
      <3>2. CASE EvCtrlTest \/ EvNavTest \/ EvKeyTest \/ EvEscTest
        BY <3>2 DEF EvCtrlTest, EvNavTest, EvKeyTest, EvEscTest, Test, Quiet, Running
      <3>3. CASE EvCtrlClear \/ EvClear \/ EvKeyClear \/ EvDone
        BY <3>3 DEF EvCtrlClear, EvClear, EvKeyClear, EvDone, TakeIn, ClearKey,
           Quiet, At, Running
      <3> QED
        BY <1>3, <3>1, <3>2, <3>3
    <2>3. Passes
      <3>1. None \notin used
        BY <1>0 DEF KeyTypeOK, Made, None
      <3> QED
        BY <1>0, <2>1, <2>2, <3>1 DEF Passes, OnceOK, Running
    <2> QED
      BY <2>2, <2>3, ElsewhereInv DEF Tests, Holds, Acts, Running
  <1> QED
    BY <1>1, <1>2, <1>3, <1>4 DEF EditorStep, CommandStep

LEMMA KeyNextInv ==
    ASSUME KeyInv, [INext]_ivars
    PROVE  KeyInv'
  <1>1. CASE ReadlineStep
    <2>1. CASE NavTest \/ KeyTest
      <3>1. UNCHANGED ghosts
        BY <2>1 DEF NavTest, KeyTest, Test, Quiet
      <3> QED
        BY <2>1, <3>1, TestKeyInv
    <2> QED
      BY <1>1, <2>1, ResetKeyInv, TopKeyInv, WordKeyInv, ArrowKeyInv, CharKeyInv
         DEF ReadlineStep
  <1>2. CASE UNCHANGED ivars
    BY <1>2 DEF ivars, irq, flags, shell, presses, ghosts, KeyInv, KeyTypeOK, MailboxOK,
       OnceOK, UsedOnce, LostOK, WaitingOK, ComparedOK, Made
  <1> QED
    BY <1>1, <1>2, KeyIrqInv, EditorKeyInv DEF INext

----------------------------------------------------------------------------
(* The line *)

\* A byte of the line: a press, a character of the history, or 0.
Cell == (Nat \X Kinds) \cup {None}
Text == Seq(Cell \ {None})

LineOK(l) ==
    /\ l \in [buf : [Cells -> Cell], len : 0 .. Size - 1, pos : 0 .. Size - 1]
    /\ l.pos <= l.len

\* A string of printable characters of the length readline believes it has.
Shown(l) ==
    /\ l.buf[l.len] = None
    /\ \A c \in 0 .. l.len - 1 : Printable(l.buf[c])

PrintableText(str) == \A c \in 1 .. Len(str) : Printable(str[c])

HistOK ==
    /\ hist \in Seq(Text) /\ hpos \in Nat
    /\ \A h \in 1 .. Len(hist) : Len(hist[h]) <= HistLen

LineInv ==
    /\ LineOK(ln) /\ HistOK
    /\ crowded = 0 => Shown(ln) /\ \A h \in 1 .. Len(hist) : PrintableText(hist[h])
    /\ hooked /\ pc \notin Running => Str(ln.buf) = Current(hpos)

LEMMA SizeFacts == Size \in Nat /\ Size >= 2 /\ HistLen \in Nat /\ HistLen < Size
                   /\ Cells = 0 .. Size
  BY InputAssumption DEF Cells

\* A set of numbers that is not empty has a least element.
LEMMA SmallestOf ==
    ASSUME NEW T, T \subseteq Nat, T # {}
    PROVE  \E x \in T : \A y \in T : x <= y
  <1> DEFINE R == OpToRel(<, Nat)
  <1>1. IsWellFoundedOn(R, Nat)
    BY NatLessThanWellFounded
  <1>2. \A x, y \in Nat : y < x => <<y, x>> \in R
    BY DEF OpToRel
  <1> HIDE DEF R
  <1>3. PICK x \in T : \A y \in T : ~(<<y, x>> \in R)
    BY <1>1, WFMin
  <1>4. ASSUME NEW y \in T
        PROVE  x <= y
    <2>1. x \in Nat /\ y \in Nat /\ ~(<<y, x>> \in R)
      BY <1>3
    <2>2. ~(y < x)
      BY <1>2, <2>1
    <2> QED
      BY <2>1, <2>2
  <1> QED
    BY <1>4

LEMMA MovedFacts ==
    ASSUME NEW b \in [Cells -> Cell], NEW to \in Nat, NEW from \in Nat, NEW n \in Nat,
           to + n <= Size + 1, from + n <= Size + 1
    PROVE  /\ Moved(b, to, from, n) \in [Cells -> Cell]
           /\ \A c \in Cells : Moved(b, to, from, n)[c] =
                IF to <= c /\ c < to + n THEN b[c - to + from] ELSE b[c]
  <1>1. \A c \in Cells : c \in to .. to + n - 1 <=> to <= c /\ c < to + n
    BY SizeFacts
  <1>2. \A c \in Cells : c \in to .. to + n - 1 => c - to + from \in Cells
    BY SizeFacts
  <1> QED
    BY <1>1, <1>2 DEF Moved

\* insert_char keeps the line a line, and a line that is shown as it is run.
LEMMA InsertedOK ==
    ASSUME NEW l, LineOK(l), NEW k \in Cell
    PROVE  /\ LineOK(Inserted(l, k))
           /\ Shown(l) /\ Printable(k) => Shown(Inserted(l, k))
  <1>1. CASE l.len + 1 >= Size
    BY <1>1 DEF Inserted
  <1>2. CASE ~(l.len + 1 >= Size)
    <2> DEFINE m == Moved(l.buf, l.pos + 1, l.pos, l.len - l.pos + 1)
               b == [m EXCEPT ![l.pos] = k]
    <2>1. /\ l.buf \in [Cells -> Cell] /\ l.len \in Nat /\ l.pos \in Nat
          /\ l.pos <= l.len /\ l.len + 1 < Size
      BY <1>2, SizeFacts DEF LineOK
    <2>2. /\ m \in [Cells -> Cell]
          /\ \A c \in Cells : m[c] =
               IF l.pos + 1 <= c /\ c < l.pos + 1 + (l.len - l.pos + 1)
               THEN l.buf[c - (l.pos + 1) + l.pos] ELSE l.buf[c]
      <3>1. /\ l.pos + 1 \in Nat /\ l.len - l.pos + 1 \in Nat
            /\ l.pos + 1 + (l.len - l.pos + 1) <= Size + 1
            /\ l.pos + (l.len - l.pos + 1) <= Size + 1
        BY <2>1, SizeFacts
      <3> HIDE DEF m
      <3>2. PICK to \in Nat, n \in Nat : to = l.pos + 1 /\ n = l.len - l.pos + 1
        BY <3>1
      <3>3. m = Moved(l.buf, to, l.pos, n)
        BY <3>2 DEF m
      <3>4. to + n <= Size + 1 /\ l.pos + n <= Size + 1
        BY <3>1, <3>2
      <3>5. /\ Moved(l.buf, to, l.pos, n) \in [Cells -> Cell]
            /\ \A c \in Cells : Moved(l.buf, to, l.pos, n)[c] =
                 IF to <= c /\ c < to + n THEN l.buf[c - to + l.pos] ELSE l.buf[c]
        BY <2>1, <3>4, MovedFacts
      <3> QED
        BY <3>2, <3>3, <3>5
    <2> HIDE DEF m
    <2>3. \A c \in Cells : l.pos < c /\ c <= l.len + 1 => m[c] = l.buf[c - 1]
      <3> SUFFICES ASSUME NEW c \in Cells, l.pos < c, c <= l.len + 1
                   PROVE  m[c] = l.buf[c - 1]
        OBVIOUS
      <3>1. /\ c \in Int /\ l.pos + 1 <= c /\ c < l.pos + 1 + (l.len - l.pos + 1)
            /\ c - (l.pos + 1) + l.pos = c - 1
        BY <2>1, SizeFacts
      <3> QED
        BY <2>2, <3>1
    <2>4. \A c \in Cells : c < l.pos => m[c] = l.buf[c]
      BY <2>1, <2>2, SizeFacts
    <2>5. /\ b \in [Cells -> Cell] /\ b[l.pos] = k
          /\ \A c \in Cells : c # l.pos => b[c] = m[c]
      BY <2>1, <2>2, SizeFacts
    <2>6. Inserted(l, k) = [buf |-> b, len |-> l.len + 1, pos |-> l.pos + 1]
      BY <1>2 DEF Inserted, m
    <2> HIDE DEF b
    <2>7. LineOK(Inserted(l, k))
      BY <2>1, <2>5, <2>6, SizeFacts DEF LineOK
    <2>8. ASSUME Shown(l), Printable(k)
          PROVE  Shown(Inserted(l, k))
      <3>1. b[l.len + 1] = None
        <4>1. PICK e \in Cells : /\ e = l.len + 1 /\ e # l.pos /\ l.pos < e
                                 /\ e <= l.len + 1 /\ e - 1 = l.len
          BY <2>1, SizeFacts
        <4>2. b[e] = l.buf[l.len]
          BY <2>3, <2>5, <4>1
        <4> QED
          BY <2>8, <4>1, <4>2 DEF Shown
      <3>2. ASSUME NEW c \in 0 .. l.len
            PROVE  Printable(b[c])
        <4>0. c \in Cells /\ l.len \in Nat /\ l.pos \in Nat
          BY <2>1, SizeFacts
        <4>1. CASE c = l.pos
          BY <2>5, <2>8, <4>1
        <4>2. CASE c < l.pos
          <5>1. c \in 0 .. l.len - 1 /\ c # l.pos
            BY <2>1, <4>2
          <5> QED
            BY <2>4, <2>5, <2>8, <4>0, <4>2, <5>1 DEF Shown
        <4>3. CASE c > l.pos
          <5>1. c - 1 \in 0 .. l.len - 1 /\ c # l.pos /\ l.pos < c /\ c <= l.len + 1
            BY <2>1, <4>3
          <5> QED
            BY <2>3, <2>5, <2>8, <4>0, <5>1 DEF Shown
        <4> QED
          BY <4>0, <4>1, <4>2, <4>3
      <3>3. /\ Inserted(l, k).len = l.len + 1 /\ Inserted(l, k).len - 1 = l.len
            /\ Inserted(l, k).buf = b
        BY <2>1, <2>6
      <3> QED
        BY <3>1, <3>2, <3>3 DEF Shown
    <2> QED
      BY <2>7, <2>8
  <1> QED
    BY <1>1, <1>2

\* Backspace and Alt+Backspace.
LEMMA CutOK ==
    ASSUME NEW l, LineOK(l), NEW start \in 0 .. l.pos
    PROVE  LineOK(Cut(l, start)) /\ (Shown(l) => Shown(Cut(l, start)))
  <1> DEFINE m == Moved(l.buf, start, l.pos, l.len - l.pos + 1)
             n == l.len - (l.pos - start)
  <1>1. /\ l.buf \in [Cells -> Cell] /\ l.len \in Nat /\ l.pos \in Nat /\ start \in Nat
        /\ l.pos <= l.len /\ l.len < Size /\ start <= l.pos
    BY SizeFacts DEF LineOK
  <1>2. /\ m \in [Cells -> Cell]
        /\ \A c \in Cells : m[c] =
             IF start <= c /\ c < start + (l.len - l.pos + 1)
             THEN l.buf[c - start + l.pos] ELSE l.buf[c]
    <2>1. /\ l.len - l.pos + 1 \in Nat
          /\ start + (l.len - l.pos + 1) <= Size + 1
          /\ l.pos + (l.len - l.pos + 1) <= Size + 1
      BY <1>1, SizeFacts
    <2> HIDE DEF m
    <2>2. PICK k \in Nat : k = l.len - l.pos + 1
      BY <2>1
    <2>3. m = Moved(l.buf, start, l.pos, k)
      BY <2>2 DEF m
    <2>4. start + k <= Size + 1 /\ l.pos + k <= Size + 1
      BY <2>1, <2>2
    <2>5. /\ Moved(l.buf, start, l.pos, k) \in [Cells -> Cell]
          /\ \A c \in Cells : Moved(l.buf, start, l.pos, k)[c] =
               IF start <= c /\ c < start + k THEN l.buf[c - start + l.pos] ELSE l.buf[c]
      BY <1>1, <2>4, MovedFacts
    <2> QED
      BY <2>2, <2>3, <2>5
  <1>3. Cut(l, start) = [buf |-> m, len |-> n, pos |-> start]
    BY DEF Cut
  <1>4. n \in Nat /\ n <= l.len /\ start <= n /\ n \in Cells
    BY <1>1, SizeFacts
  <1> HIDE DEF m
  <1>5. LineOK(Cut(l, start))
    BY <1>1, <1>2, <1>3, <1>4, SizeFacts DEF LineOK
  <1>6. ASSUME Shown(l)
        PROVE  Shown(Cut(l, start))
    <2>1. m[n] = None
      <3>1. start <= n /\ n < start + (l.len - l.pos + 1) /\ n - start + l.pos = l.len
        BY <1>1
      <3> HIDE DEF n
      <3> QED
        BY <1>2, <1>4, <1>6, <3>1 DEF Shown
    <2>2. ASSUME NEW c \in 0 .. n - 1
          PROVE  Printable(m[c])
      <3>0. c \in Cells /\ c \in Nat
        BY <1>1, <1>4, SizeFacts
      <3>1. CASE c < start
        <4>1. ~(start <= c) /\ c \in 0 .. l.len - 1
          BY <1>1, <3>0, <3>1
        <4> QED
          BY <1>2, <1>6, <3>0, <4>1 DEF Shown
      <3>2. CASE start <= c
        <4>1. /\ c < start + (l.len - l.pos + 1)
              /\ c - start + l.pos \in 0 .. l.len - 1
          BY <1>1, <3>0, <3>2
        <4> QED
          BY <1>2, <1>6, <3>0, <3>2, <4>1 DEF Shown
      <3> QED
        BY <1>1, <3>0, <3>1, <3>2
    <2> HIDE DEF n
    <2> QED
      BY <1>3, <2>1, <2>2 DEF Shown
  <1> QED
    BY <1>5, <1>6

LEMMA TerminatedOK ==
    ASSUME NEW l, LineOK(l)
    PROVE  LineOK(Terminated(l)) /\ (Shown(l) => Shown(Terminated(l)))
  <1>1. l.len \in Cells /\ l.len \in Nat /\ None \in Cell
    BY SizeFacts DEF LineOK, Cell
  <1>2. LineOK(Terminated(l))
    BY <1>1 DEF LineOK, Terminated
  <1>3. /\ Terminated(l).len = l.len /\ Terminated(l).buf[l.len] = None
        /\ \A c \in Cells : c # l.len => Terminated(l).buf[c] = l.buf[c]
    BY <1>1 DEF LineOK, Terminated
  <1>4. \A c \in 0 .. l.len - 1 : c \in Cells /\ c # l.len
    BY <1>1, SizeFacts DEF LineOK
  <1> QED
    BY <1>2, <1>3, <1>4 DEF Shown

LEMMA RunStartIn ==
    ASSUME NEW b, NEW p \in Nat, NEW spaces \in BOOLEAN
    PROVE  RunStart(b, p, spaces) \in 0 .. p
  <1> DEFINE Run(a) == \A c \in a .. p - 1 : (b[c][2] = "space") = spaces
             T == {a \in 0 .. p : Run(a)}
  <1>1. p \in T
    OBVIOUS
  <1>2. PICK x \in T : \A y \in T : x <= y
    <2>1. T \subseteq Nat /\ T # {}
      BY <1>1
    <2> HIDE DEF T
    <2> QED
      BY <2>1, SmallestOf
  <1>3. x > 0 => (b[x - 1][2] = "space") # spaces
    <2> SUFFICES ASSUME x > 0, (b[x - 1][2] = "space") = spaces
                 PROVE  FALSE
      OBVIOUS
    <2>1. x \in 0 .. p /\ x - 1 \in 0 .. p
      OBVIOUS
    <2>2. Run(x - 1)
      <3> SUFFICES ASSUME NEW c \in x - 1 .. p - 1
                   PROVE  (b[c][2] = "space") = spaces
        OBVIOUS
      <3>1. c = x - 1 \/ c \in x .. p - 1
        BY <2>1
      <3> QED
        BY <1>2, <3>1
    <2>3. x - 1 \in T
      BY <2>1, <2>2
    <2> HIDE DEF T
    <2> QED
      BY <1>2, <2>1, <2>3
  <1> QED
    BY <1>2, <1>3 DEF RunStart

\* What strlen finds: the first 0, or the end of the buffer.
LEMMA StrFacts ==
    ASSUME NEW b \in [Cells -> Cell]
    PROVE  /\ StrLen(b) \in Cells /\ Str(b) \in Text /\ Len(Str(b)) = StrLen(b)
           /\ \A c \in 1 .. StrLen(b) : Str(b)[c] = b[c - 1] /\ c - 1 \in Cells
           /\ \A n \in Cells : b[n] = None /\ (\A c \in 0 .. n - 1 : b[c] # None) =>
                StrLen(b) = n
  <1> DEFINE Ends(n) == (n = Size \/ b[n] = None) /\ \A c \in 0 .. n - 1 : b[c] # None
             T == {n \in Cells : n = Size \/ b[n] = None}
  <1>1. \E n \in Cells : Ends(n)
    <2>1. T \subseteq Nat /\ Size \in T
      BY SizeFacts
    <2>2. PICK x \in T : \A y \in T : x <= y
      <3> HIDE DEF T
      <3> QED
        BY <2>1, SmallestOf
    <2>3. ASSUME NEW c \in 0 .. x - 1
          PROVE  b[c] # None
      <3>1. c \in Cells /\ ~(x <= c)
        BY SizeFacts
      <3> QED
        BY <2>2, <3>1
    <2> QED
      BY <2>2, <2>3
  <1>2. StrLen(b) \in Cells /\ Ends(StrLen(b))
    BY <1>1 DEF StrLen
  <1>3. PICK n \in Cells : n = StrLen(b)
    BY <1>2
  <1>4. n \in Nat /\ n <= Size /\ Ends(n)
    BY <1>2, <1>3, SizeFacts
  <1>5. \A c \in 1 .. n : c - 1 \in Cells /\ b[c - 1] \in Cell \ {None}
    BY <1>4, SizeFacts
  <1>6. Str(b) = [c \in 1 .. n |-> b[c - 1]]
    BY <1>3 DEF Str
  <1>7. Str(b) \in Text /\ Len(Str(b)) = n
    <2>1. [c \in 1 .. n |-> b[c - 1]] \in Seq(Cell \ {None})
      BY <1>4, <1>5, IsASeq
    <2>2. Len([c \in 1 .. n |-> b[c - 1]]) = n
      BY <1>4
    <2> QED
      BY <1>6, <2>1, <2>2 DEF Text
  <1>8. ASSUME NEW m \in Cells, b[m] = None, \A c \in 0 .. m - 1 : b[c] # None
        PROVE  n = m
    <2>1. m \in Nat /\ m <= Size
      BY SizeFacts
    <2>2. ~(n < m)
      <3> SUFFICES ASSUME n < m
                   PROVE  FALSE
        OBVIOUS
      <3>1. n # Size /\ n \in 0 .. m - 1
        BY <1>4, <2>1, SizeFacts
      <3> QED
        BY <1>4, <1>8, <3>1
    <2>3. ~(m < n)
      <3> SUFFICES ASSUME m < n
                   PROVE  FALSE
        OBVIOUS
      <3>1. m \in 0 .. n - 1
        BY <1>4, <2>1
      <3> QED
        BY <1>4, <1>8, <3>1
    <2> QED
      BY <1>4, <2>1, <2>2, <2>3
  <1> QED
    BY <1>3, <1>5, <1>6, <1>7, <1>8

\* replace_line: a history line fits, and is the string that is then in the buffer.
LEMMA ReplacedOK ==
    ASSUME NEW l, LineOK(l), NEW str \in Text, Len(str) <= HistLen
    PROVE  /\ LineOK(Replaced(l, str)) /\ Str(Replaced(l, str).buf) = str
           /\ PrintableText(str) => Shown(Replaced(l, str))
  <1> DEFINE b == [c \in Cells |-> IF c < Len(str) THEN str[c + 1]
                                   ELSE IF c = Len(str) THEN None ELSE l.buf[c]]
  <1>1. /\ Len(str) \in Nat /\ Len(str) < Size /\ Len(str) \in Cells
        /\ \A c \in 1 .. Len(str) : str[c] \in Cell \ {None}
    <2>1. Len(str) \in Nat /\ \A c \in 1 .. Len(str) : str[c] \in Cell \ {None}
      BY LenProperties, ElementOfSeq DEF Text
    <2> QED
      BY <2>1, SizeFacts
  <1>2. Replaced(l, str) = [buf |-> b, len |-> Len(str), pos |-> Len(str)]
    <2>1. (IF Len(str) < Size - 1 THEN Len(str) ELSE Size - 1) = Len(str)
      BY <1>1, SizeFacts
    <2> QED
      BY <2>1 DEF Replaced
  <1>3. /\ b \in [Cells -> Cell] /\ b[Len(str)] = None
        /\ \A c \in 0 .. Len(str) - 1 : b[c] = str[c + 1] /\ c + 1 \in 1 .. Len(str)
    <2>1. \A c \in Cells : c < Len(str) => c + 1 \in 1 .. Len(str)
      BY <1>1, SizeFacts
    <2>2. None \in Cell /\ l.buf \in [Cells -> Cell]
      BY DEF Cell, LineOK
    <2>3. b \in [Cells -> Cell]
      BY <1>1, <2>1, <2>2
    <2>4. \A c \in 0 .. Len(str) - 1 : c \in Cells /\ c < Len(str)
      BY <1>1, SizeFacts
    <2>5. b[Len(str)] = None
      BY <1>1
    <2> QED
      BY <2>1, <2>3, <2>4, <2>5
  <1> HIDE DEF b
  <1>4. LineOK(Replaced(l, str))
    BY <1>1, <1>2, <1>3, SizeFacts DEF LineOK
  <1>5. \A c \in 0 .. Len(str) - 1 : b[c] # None
    BY <1>1, <1>3
  <1>6. StrLen(b) = Len(str) /\ Str(b) \in Text /\ Len(Str(b)) = Len(str)
    BY <1>1, <1>3, <1>5, StrFacts
  <1>7. ASSUME NEW c \in 1 .. Len(str)
        PROVE  Str(b)[c] = str[c]
    <2>1. c - 1 \in 0 .. Len(str) - 1 /\ c - 1 + 1 = c
      BY <1>1
    <2>2. Str(b)[c] = b[c - 1]
      BY <1>3, <1>6, StrFacts
    <2> QED
      BY <1>3, <2>1, <2>2
  <1>8. Str(b) = str
    BY <1>6, <1>7, SeqEqual DEF Text
  <1>9. PrintableText(str) => Shown(Replaced(l, str))
    BY <1>2, <1>3 DEF PrintableText, Shown
  <1> QED
    BY <1>2, <1>4, <1>8, <1>9

LEMMA CurrentOK ==
    ASSUME HistOK, NEW p \in Nat
    PROVE  /\ Current(p) \in Text /\ Len(Current(p)) <= HistLen
           /\ (\A h \in 1 .. Len(hist) : PrintableText(hist[h])) => PrintableText(Current(p))
  <1>1. CASE p < Len(hist)
    <2>1. p + 1 \in 1 .. Len(hist)
      BY <1>1, LenProperties DEF HistOK
    <2>2. hist[p + 1] \in Text
      BY <2>1, ElementOfSeq DEF HistOK
    <2> QED
      BY <1>1, <2>1, <2>2 DEF HistOK, Current
  <1>2. CASE ~(p < Len(hist))
    <2>1. Current(p) = <<>> /\ <<>> \in Text /\ Len(<<>>) = 0
      BY <1>2 DEF Current, Text
    <2> QED
      BY <2>1, SizeFacts DEF PrintableText
  <1> QED
    BY <1>1, <1>2

\* shell_record keeps the beginning of the line.
LEMMA RecordOK ==
    ASSUME HistOK, NEW str \in Text, Record(str)
    PROVE  /\ HistOK'
           /\ PrintableText(str) /\ (\A h \in 1 .. Len(hist) : PrintableText(hist[h])) =>
                (\A h \in 1 .. Len(hist) : PrintableText(hist[h]))'
  <1> DEFINE m == IF Len(str) < HistLen THEN Len(str) ELSE HistLen
             k == [c \in 1 .. m |-> str[c]]
  <1>1. /\ Len(str) \in Nat /\ m \in Nat /\ m <= Len(str) /\ m <= HistLen
        /\ \A c \in 1 .. Len(str) : str[c] \in Cell \ {None}
    <2>1. Len(str) \in Nat /\ \A c \in 1 .. Len(str) : str[c] \in Cell \ {None}
      BY LenProperties, ElementOfSeq DEF Text
    <2> QED
      BY <2>1, SizeFacts
  <1> HIDE DEF m
  <1>2. k \in Text /\ Len(k) = m /\ \A c \in 1 .. m : k[c] = str[c]
    <2>1. \A c \in 1 .. m : str[c] \in Cell \ {None}
      BY <1>1
    <2>2. k \in Seq(Cell \ {None})
      BY <1>1, <2>1, IsASeq
    <2> QED
      BY <1>1, <2>2 DEF Text
  <1>3. Kept(str) = k
    BY DEF Kept, m
  <1>4. PrintableText(str) => PrintableText(k)
    BY <1>1, <1>2 DEF PrintableText
  <1> HIDE DEF k
  <1>5. Len(hist) \in Nat /\ hist \in Seq(Text) /\ \A h \in 1 .. Len(hist) : Len(hist[h]) <= HistLen
    BY LenProperties DEF HistOK
  <1>6. CASE hist' = Append(hist, k)
    <2>1. /\ hist' \in Seq(Text) /\ Len(hist') = Len(hist) + 1
          /\ \A h \in 1 .. Len(hist) : hist'[h] = hist[h]
          /\ hist'[Len(hist) + 1] = k
      BY <1>2, <1>5, <1>6, AppendProperties
    <2>2. hpos' \in Nat
      BY <1>5, <2>1 DEF Record
    <2>3. \A h \in 1 .. Len(hist) + 1 : h = Len(hist) + 1 \/ h \in 1 .. Len(hist)
      BY <1>5
    <2>4. HistOK'
      BY <1>1, <1>2, <1>5, <2>1, <2>2, <2>3 DEF HistOK
    <2>5. PrintableText(str) /\ (\A h \in 1 .. Len(hist) : PrintableText(hist[h])) =>
            \A h \in 1 .. Len(hist) + 1 : PrintableText(hist'[h])
      BY <1>4, <2>1, <2>3
    <2> QED
      BY <2>1, <2>4, <2>5
  <1>7. CASE hist' = hist
    <2>1. hpos' \in Nat
      BY <1>5, <1>7 DEF Record
    <2> QED
      BY <1>7, <2>1 DEF HistOK
  <1> QED
    BY <1>3, <1>6, <1>7 DEF Record

\* A step that leaves line and history alone.
LEMMA LineKept ==
    ASSUME LineInv, UNCHANGED <<ln, hooked, hist, hpos>>, crowded' = 0 => crowded = 0,
           pc \in Running => pc' \in Running
    PROVE  LineInv'
  BY DEF LineInv, LineOK, HistOK, Shown, Current

\* A step that edits the line.
LEMMA LineEdited ==
    ASSUME LineInv, UNCHANGED <<hist, hpos, crowded>>, LineOK(ln)', ~hooked',
           crowded = 0 /\ Shown(ln) => Shown(ln)'
    PROVE  LineInv'
  BY DEF LineInv, HistOK

LEMMA EmptyLineOK ==
    LineOK(EmptyLine) /\ Shown(EmptyLine)
  <1>1. None \in Cell /\ 0 \in Cells /\ 0 \in 0 .. Size - 1
    BY SizeFacts DEF Cell
  <1> QED
    BY <1>1 DEF EmptyLine, LineOK, Shown

LEMMA LineInitInv == IInit => LineInv
  <1> SUFFICES ASSUME IInit
               PROVE  LineInv
    OBVIOUS
  <1> DEFINE Char == {0} \X {"char", "space"}
  <1>1. LineOK(ln) /\ Shown(ln) /\ ~hooked /\ hist = Typed /\ hpos = Len(Typed)
    BY EmptyLineOK DEF IInit
  <1>2. /\ Typed \in Seq(Seq(Char)) /\ Len(Typed) \in Nat
        /\ \A h \in 1 .. Len(Typed) : Len(Typed[h]) <= HistLen
    BY InputAssumption, LenProperties
  <1>3. Char \subseteq Cell \ {None} /\ \A k \in Char : Printable(k)
    BY DEF Cell, None, Kinds, Printable
  <1>4. ASSUME NEW h \in 1 .. Len(Typed)
        PROVE  Typed[h] \in Text /\ PrintableText(Typed[h])
    <2>1. Typed[h] \in Seq(Char)
      BY <1>2, ElementOfSeq
    <2>2. \A c \in 1 .. Len(Typed[h]) : Typed[h][c] \in Char
      BY <2>1, ElementOfSeq
    <2>3. Typed[h] \in Seq(Cell \ {None})
      BY <1>3, <2>1, SeqMonotonic
    <2> QED
      BY <1>3, <2>2, <2>3 DEF Text, PrintableText
  <1>5. Typed \in Seq(Text)
    <2>1. Typed = [h \in 1 .. Len(Typed) |-> Typed[h]]
      BY <1>2, LenProperties
    <2> QED
      BY <1>2, <1>4
  <1> QED
    BY <1>1, <1>2, <1>4, <1>5 DEF LineInv, HistOK

\* The interrupt and the steps that only look at the flags or clear them.
LEMMA LineIrqInv ==
    ASSUME KeyInv, LineInv, KeyIrq
    PROVE  LineInv'
  <1>1. UNCHANGED <<ln, hooked, hist, hpos, pc>> /\ crowded \in Nat
    BY DEF KeyIrq, shell, line, history, KeyInv, KeyTypeOK
  <1>2. crowded' \in {crowded, crowded + 1}
    BY DEF KeyIrq, HoldModifier, ReleaseModifier, CtrlL, CtrlC, CtrlOther, AltBackspace,
       TypeKey, TypeNothing, Arrow, OtherKey, Deposit, Comes, presses
  <1> QED
    BY <1>1, <1>2, LineKept

LEMMA LineTestInv ==
    ASSUME LineInv,
           \/ ResetCancel \/ ResetWord \/ ResetKey \/ ResetNav \/ ResetIn
           \/ NavTest \/ WordTest \/ KeyTest \/ NavTake \/ NavClear \/ WordTake
           \/ KeyTake \/ KeyEnter \/ KeyClear \/ EditorStep
           \/ \E e \in {"nano", "vi"} : EditorStarts(e)
    PROVE  LineInv'
  <1>1. UNCHANGED <<ln, hooked, hist, hpos, crowded>>
    BY DEF ResetCancel, ResetWord, ResetKey, ResetNav, ResetIn, NavTest, WordTest, KeyTest,
       NavTake, NavClear, WordTake, KeyTake, KeyEnter, KeyClear, EditorStep, EditorStarts,
       EvCtrlTest, EvCtrlClear, EvCancel, EvClear, EvNavTest, EvNavClear, EvKeyTest, EvEscTest,
       EvKeyGet, EvKeyClear, EvDone, TakeIn, Test, ClearKey, Quiet, irq, presses,
       line, history
  <1>2. CASE EditorStep \/ \E e \in {"nano", "vi"} : EditorStarts(e)
    <2>1. pc' \in Running
      <3>1. CASE EvCtrlTest \/ EvNavTest \/ EvKeyTest \/ EvEscTest
        BY <3>1 DEF EvCtrlTest, EvNavTest, EvKeyTest, EvEscTest, Test, Running
      <3>2. CASE EvCtrlClear \/ EvCancel \/ EvClear \/ EvNavClear \/ EvKeyGet \/ EvKeyClear
        BY <3>2 DEF EvCtrlClear, EvCancel, EvClear, EvNavClear, EvKeyGet, EvKeyClear,
           ClearKey, At, Running
      <3>3. CASE EvDone \/ \E e \in {"nano", "vi"} : EditorStarts(e)
        BY <3>3 DEF EvDone, EditorStarts, TakeIn, At, Running
      <3> QED
        BY <1>2, <3>1, <3>2, <3>3 DEF EditorStep
    <2> QED
      BY <1>1, <2>1, LineKept
  <1>3. CASE ~(EditorStep \/ \E e \in {"nano", "vi"} : EditorStarts(e))
    <2>1. pc \notin Running
      BY <1>3 DEF ResetCancel, ResetWord, ResetKey, ResetNav, ResetIn, NavTest, WordTest,
         KeyTest, NavTake, NavClear, WordTake, KeyTake, KeyEnter, KeyClear, TakeIn, Test,
         ClearKey, At, Running
    <2> QED
      BY <1>1, <2>1, LineKept
  <1> QED
    BY <1>2, <1>3

\* Ctrl+C, Ctrl+L and the end of a command: an empty line.
LEMMA LineEmptyInv ==
    ASSUME LineInv, TopTest \/ CommandEnds
    PROVE  LineInv'
  <1>0. UNCHANGED <<hist, hpos, crowded>>
    BY DEF TopTest, CommandEnds, irq, presses, history
  <1>1. CASE ln' = EmptyLine /\ ~hooked'
    <2>1. LineOK(ln') /\ Shown(ln')
      BY <1>1, EmptyLineOK
    <2>2. LineOK(ln)' /\ Shown(ln)'
      BY <2>1 DEF LineOK, Shown
    <2> QED
      BY <1>0, <1>1, <2>2, LineEdited
  <1>2. CASE ln' = Terminated([ln EXCEPT !.len = 0, !.pos = 0]) /\ ~hooked'
    <2> DEFINE l == [ln EXCEPT !.len = 0, !.pos = 0]
    <2>1. LineOK(l) /\ l.len = 0
      <3>1. /\ 0 \in 0 .. Size - 1
            /\ ln \in [buf : [Cells -> Cell], len : 0 .. Size - 1, pos : 0 .. Size - 1]
        BY SizeFacts DEF LineInv, LineOK
      <3>2. /\ l \in [buf : [Cells -> Cell], len : 0 .. Size - 1, pos : 0 .. Size - 1]
            /\ l.len = 0 /\ l.pos = 0
        BY <3>1
      <3> HIDE DEF l
      <3> QED
        BY <3>2 DEF LineOK
    <2> HIDE DEF l
    <2>2. LineOK(Terminated(l)) /\ Terminated(l).len = 0 /\ Terminated(l).buf[0] = None
      <3>1. 0 \in Cells
        BY SizeFacts
      <3> QED
        BY <2>1, <3>1, TerminatedOK DEF Terminated, LineOK
    <2>3. ln' = Terminated(l)
      BY <1>2 DEF l
    <2>4. LineOK(ln)' /\ Shown(ln)'
      BY <2>2, <2>3 DEF LineOK, Shown
    <2> QED
      BY <1>0, <1>2, <2>4, LineEdited
  <1>3. CASE UNCHANGED <<ln, hooked>> /\ pc = "top"
    BY <1>0, <1>3, LineKept DEF Running
  <1> QED
    BY <1>1, <1>2, <1>3 DEF TopTest, CommandEnds, NewPrompt, line

\* The arrows: a history line replaces the line, or the cursor moves.
LEMMA LineArrowInv ==
    ASSUME LineInv, NavUp \/ NavDown \/ NavLeft \/ NavRight
    PROVE  LineInv'
  <1>0. LineOK(ln) /\ HistOK /\ UNCHANGED <<hist, crowded>> /\ pc \notin Running
    BY DEF LineInv, NavUp, NavDown, NavLeft, NavRight, NavCompare, irq, presses, Running
  <1>1. CASE UNCHANGED <<ln, hooked, hpos>>
    BY <1>0, <1>1, LineKept
  <1>2. ASSUME NEW p \in Nat, hpos' = p, ln' = Replaced(ln, Current(p)), hooked'
        PROVE  LineInv'
    <2>1. /\ Current(p) \in Text /\ Len(Current(p)) <= HistLen
          /\ (\A h \in 1 .. Len(hist) : PrintableText(hist[h])) => PrintableText(Current(p))
      BY <1>0, CurrentOK
    <2>2. /\ LineOK(ln') /\ Str(ln'.buf) = Current(p)
          /\ PrintableText(Current(p)) => Shown(ln')
      BY <1>0, <1>2, <2>1, ReplacedOK
    <2>3. /\ LineOK(ln)' /\ (Str(ln.buf) = Current(hpos))' /\ HistOK'
          /\ PrintableText(Current(p)) => Shown(ln)'
      BY <1>0, <1>2, <2>2 DEF LineOK, Shown, Str, StrLen, Current, HistOK
    <2> QED
      BY <1>0, <2>1, <2>3 DEF LineInv
  <1>3. ASSUME NEW p \in 0 .. ln.len, ln' = [ln EXCEPT !.pos = p], UNCHANGED <<hpos, hooked>>
        PROVE  LineInv'
    <2>1. LineOK(ln') /\ ln'.buf = ln.buf /\ ln'.len = ln.len
      BY <1>0, <1>3, SizeFacts DEF LineOK
    <2> QED
      BY <1>0, <1>3, <2>1 DEF LineInv, LineOK, Shown, HistOK, Current
  <1>4. Len(hist) \in Nat /\ hpos \in Nat
    BY <1>0, LenProperties DEF HistOK
  <1>5. CASE NavUp
    <2> DEFINE p == Earlier(IF hooked THEN hpos ELSE Len(hist))
    <2>1. p \in Nat
      BY <1>4 DEF Earlier
    <2>2. \/ UNCHANGED <<ln, hooked, hpos>>
          \/ hpos' = p /\ ln' = Replaced(ln, Current(p)) /\ hooked'
      BY <1>5 DEF NavUp, NavCompare, line
    <2> HIDE DEF p
    <2> QED
      BY <1>1, <1>2, <2>1, <2>2
  <1>6. CASE NavDown
    <2> DEFINE p == Later(hpos)
    <2>1. p \in Nat
      BY <1>4 DEF Later
    <2>2. \/ UNCHANGED <<ln, hooked, hpos>>
          \/ hpos' = p /\ ln' = Replaced(ln, Current(p)) /\ hooked'
      BY <1>6 DEF NavDown, NavCompare, line
    <2> HIDE DEF p
    <2> QED
      BY <1>1, <1>2, <2>1, <2>2
  <1>7. CASE NavLeft \/ NavRight
    <2>1. \/ UNCHANGED <<ln, hooked, hpos>>
          \/ /\ UNCHANGED <<hpos, hooked>>
             /\ \/ ln' = [ln EXCEPT !.pos = IF @ > 0 THEN @ - 1 ELSE @]
                \/ ln' = [ln EXCEPT !.pos = IF @ < ln.len THEN @ + 1 ELSE @]
      BY <1>7 DEF NavLeft, NavRight, NavCompare, line
    <2>2. \/ UNCHANGED <<ln, hooked, hpos>>
          \/ UNCHANGED <<hpos, hooked>> /\ \E p \in 0 .. ln.len : ln' = [ln EXCEPT !.pos = p]
      BY <1>0, <2>1, SizeFacts DEF LineOK
    <2> QED
      BY <1>1, <1>3, <2>2
  <1> QED
    BY <1>5, <1>6, <1>7

\* The keys that edit: what is inserted is printable, unless keys crowd.
LEMMA LineEditInv ==
    ASSUME KeyInv, LineInv,
           WordClear \/ KeyBack \/ KeyTab \/ KeyPrint \/ KeyInsert
    PROVE  LineInv'
  <1>0. LineOK(ln) /\ UNCHANGED <<hist, hpos, crowded>> /\ pc \notin Running
    <2>1. UNCHANGED <<hist, hpos, crowded>>
      BY DEF WordClear, KeyBack, KeyTab, KeyPrint, KeyInsert, KeyCompare, irq, presses, history
    <2>2. pc \in {"word_clr", "key_bs", "key_tab", "key_ge", "key_ins"}
      BY DEF WordClear, KeyBack, KeyTab, KeyPrint, KeyInsert, KeyCompare, At
    <2> QED
      BY <2>1, <2>2 DEF LineInv, Running
  <1>1. ASSUME NEW l, LineOK(l), crowded = 0 /\ Shown(ln) => Shown(l), ln' = Terminated(l),
               ~hooked'
        PROVE  LineInv'
    <2>1. LineOK(ln') /\ (crowded = 0 /\ Shown(ln) => Shown(ln'))
      BY <1>1, TerminatedOK
    <2>2. LineOK(ln)' /\ (crowded = 0 /\ Shown(ln) => Shown(ln)')
      BY <2>1 DEF LineOK, Shown
    <2> QED
      BY <1>0, <1>1, <2>2, LineEdited
  <1>2. CASE UNCHANGED <<ln, hooked>>
    BY <1>0, <1>2, LineKept
  <1>3. CASE WordClear
    <2> DEFINE q == RunStart(ln.buf, ln.pos, TRUE)
               r == RunStart(ln.buf, q, FALSE)
    <2>1. ln.pos \in Nat
      BY <1>0, SizeFacts DEF LineOK
    <2>2. q \in 0 .. ln.pos
      BY <2>1, RunStartIn
    <2> HIDE DEF q
    <2>3. r \in 0 .. q
      <3>1. q \in Nat
        BY <2>1, <2>2
      <3> QED
        BY <3>1, RunStartIn
    <2>4. ln' = Terminated(Cut(ln, r)) /\ ~hooked'
      BY <1>3 DEF WordClear, WordDeleted, q
    <2> HIDE DEF r
    <2>5. r \in 0 .. ln.pos
      BY <2>1, <2>2, <2>3
    <2> QED
      BY <1>0, <1>1, <2>4, <2>5, CutOK
  <1>4. CASE KeyBack
    <2>1. UNCHANGED <<ln, hooked>> \/ (ln' = Terminated(Backspaced(ln)) /\ ~hooked')
      BY <1>4 DEF KeyBack, KeyCompare, line
    <2>2. LineOK(Backspaced(ln)) /\ (Shown(ln) => Shown(Backspaced(ln)))
      <3>1. ln.pos = 0 \/ ln.pos - 1 \in 0 .. ln.pos
        BY <1>0, SizeFacts DEF LineOK
      <3> QED
        BY <1>0, <3>1, CutOK DEF Backspaced
    <2> QED
      BY <1>1, <1>2, <2>1, <2>2
  <1>5. CASE KeyTab \/ KeyPrint
    <2>1. UNCHANGED <<ln, hooked>> \/ (ln' = Terminated(ln) /\ ~hooked')
      BY <1>5 DEF KeyTab, KeyPrint, KeyCompare, line
    <2> QED
      BY <1>0, <1>1, <1>2, <2>1
  <1>6. CASE KeyInsert
    <2>1. ln' = Terminated(Inserted(ln, read_key)) /\ ~hooked' /\ pc = "key_ins"
      BY <1>6 DEF KeyInsert, KeyCompare
    <2>2. read_key \in Cell /\ (crowded = 0 => Printable(read_key))
      BY <2>1 DEF KeyInv, KeyTypeOK, LostOK, ComparedOK, Made, Cell
    <2> QED
      BY <1>0, <1>1, <2>1, <2>2, InsertedOK
  <1> QED
    BY <1>3, <1>4, <1>5, <1>6

\* Enter: the line becomes a line of the history.
LEMMA LineReturnInv ==
    ASSUME LineInv, Return
    PROVE  LineInv'
  <1>0. LineOK(ln) /\ HistOK /\ crowded' = crowded
    BY DEF LineInv, Return, irq, presses
  <1>1. CASE Str(ln.buf) = <<>>
    <2>1. ln' = EmptyLine /\ ~hooked' /\ UNCHANGED <<hist, hpos>>
      BY <1>1 DEF Return, NewPrompt, history
    <2>2. LineOK(ln') /\ Shown(ln')
      BY <2>1, EmptyLineOK
    <2>3. LineOK(ln)' /\ Shown(ln)'
      BY <2>2 DEF LineOK, Shown
    <2> QED
      BY <1>0, <2>1, <2>3, LineEdited
  <1>2. CASE Str(ln.buf) # <<>>
    <2>1. Record(Str(ln.buf)) /\ pc' = "command" /\ ln' = ln
      BY <1>2 DEF Return, line
    <2>2. ln.buf \in [Cells -> Cell] /\ ln.len \in Cells /\ ln.len \in Nat
      BY <1>0, SizeFacts DEF LineOK
    <2>3. Str(ln.buf) \in Text
      BY <2>2, StrFacts
    <2>4. ASSUME Shown(ln)
          PROVE  PrintableText(Str(ln.buf))
      <3>1. \A c \in 0 .. ln.len - 1 : ln.buf[c] # None
        BY <2>4 DEF Shown, Printable, None
      <3>2. StrLen(ln.buf) = ln.len /\ Len(Str(ln.buf)) = ln.len
        BY <2>2, <2>4, <3>1, StrFacts DEF Shown
      <3>3. ASSUME NEW c \in 1 .. ln.len
            PROVE  Printable(Str(ln.buf)[c])
        <4>1. c - 1 \in 0 .. ln.len - 1
          BY <2>2
        <4>2. Str(ln.buf)[c] = ln.buf[c - 1]
          BY <2>2, <3>2, StrFacts
        <4> QED
          BY <2>4, <4>1, <4>2 DEF Shown
      <3> QED
        BY <3>2, <3>3 DEF PrintableText
    <2>5. /\ HistOK'
          /\ PrintableText(Str(ln.buf)) /\ (\A h \in 1 .. Len(hist) : PrintableText(hist[h])) =>
                (\A h \in 1 .. Len(hist) : PrintableText(hist[h]))'
      BY <1>0, <2>1, <2>3, RecordOK
    <2>6. LineOK(ln)' /\ (Shown(ln) => Shown(ln)') /\ pc' \in Running
      BY <1>0, <2>1 DEF LineOK, Shown, Running
    <2> QED
      BY <1>0, <2>4, <2>5, <2>6 DEF LineInv
  <1> QED
    BY <1>1, <1>2

LEMMA LineNextInv ==
    ASSUME KeyInv, LineInv, [INext]_ivars
    PROVE  LineInv'
  <1>1. CASE ReadlineStep
    BY <1>1, LineTestInv, LineEmptyInv, LineArrowInv, LineEditInv, LineReturnInv
       DEF ReadlineStep
  <1>2. CASE EditorStep \/ CommandStep
    BY <1>2, LineTestInv, LineEmptyInv DEF CommandStep
  <1>3. CASE UNCHANGED ivars
    BY <1>3, LineKept DEF ivars, irq, shell, presses, line, history
  <1> QED
    BY <1>1, <1>2, <1>3, LineIrqInv DEF INext

----------------------------------------------------------------------------
(* The theorems *)

\* Where a press can be at each step of the reader, and what line and history hold.
THEOREM InputInvariance == ISpec => [](KeyInv /\ LineInv)
  <1>1. IInit => KeyInv /\ LineInv
    BY KeyInitInv, LineInitInv
  <1>2. KeyInv /\ LineInv /\ [INext]_ivars => (KeyInv /\ LineInv)'
    BY KeyNextInv, LineNextInv
  <1> QED
    BY <1>1, <1>2, PTL DEF ISpec

\* No character, arrow, Alt+Backspace or Ctrl+C takes effect twice, or at a later
\* prompt than its own, wherever the interrupts fall; nothing is said of Ctrl+L and
\* the other Ctrl keys, whose flags readline does not reset.
THEOREM PressUsedOnce == ISpec => []UsedOnce
  <1>1. KeyInv => UsedOnce
    BY DEF KeyInv, OnceOK
  <1> QED
    BY InputInvariance, <1>1, PTL

\* Unless keys crowd, no press that is made at an idle prompt is lost.
THEOREM PressNotLost == ISpec => []NoneLost
  <1>1. KeyInv => NoneLost
    BY DEF KeyInv, LostOK, WaitingOK, ComparedOK, NoneLost, Holding, Tests, Holds
  <1> QED
    BY InputInvariance, <1>1, PTL

\* The line stays within its buffer; unless keys crowd it is the string that is shown,
\* and a line that was recalled is the history's until it is edited.
THEOREM LineIsSound == ISpec => []LineSound
  <1>1. LineInv => LineSound
    <2> SUFFICES ASSUME LineInv
                 PROVE  LineSound
      OBVIOUS
    <2>1. ln.len \in 0 .. Size - 1 /\ ln.pos \in 0 .. ln.len
      BY SizeFacts DEF LineInv, LineOK
    <2> QED
      BY <2>1 DEF LineInv, Shown, LineSound, Tests, Running
  <1> QED
    BY InputInvariance, <1>1, PTL
=============================================================================
