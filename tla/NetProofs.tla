----------------------------- MODULE NetProofs -----------------------------
(***************************************************************************)
(* Proofs about address resolution, ping and queries for every set of      *)
(* hosts, every size of the cache and of the receive ring, every number of *)
(* commands and every depth to which calls may nest.                       *)
(*                                                                         *)
(* The state is a stack of calls.  StackOK says what it may look like,     *)
(* call by call; the rest of the invariant relates the variables the       *)
(* handlers share to the calls that wait for them.                         *)
(***************************************************************************)
EXTENDS Net, SequenceTheorems, TLAPS

Stored ==
    [type : {"arp", "echo"}, x : Local, long : BOOLEAN]
        \cup [type : {"pong", "answer"}, x : Nat, long : BOOLEAN]
Commands    == [op : {"ping", "query"}, at : {"send", "wait", "failed"}, id : Nat]
Resolves    == [op : {"arp"}, at : {"wait"}, ip : Local, crossed : BOOLEAN]
Receives    == [op : {"rx"}, at : {"test", "copy", "ack", "reply"},
                status : SUBSET Bits, frame : Stored \cup {NoFrame}]
Calls       == Commands \cup Resolves \cup Receives

NetTypeOK ==
    /\ calls \in Seq(Calls) /\ ring \in Seq(Stored)
    /\ cache \subseteq Local
    /\ pending \in Local \cup {None}
    /\ isr \subseteq Bits
    /\ id \in Nat

\* A command is the outermost call and the only one; a command or a handler calls
\* arp_resolve, which polls; a frame that is being handled has been copied.
StackOK ==
    \A i \in 1 .. Len(calls) :
        /\ calls[i].op \in {"ping", "query"} <=> i = 1
        /\ calls[i].op = "arp" => i > 1 /\ calls[i - 1].op # "arp"
        /\ calls[i].op = "rx" /\ calls[i].at = "copy" => calls[i].frame \in Stored

\* Only the innermost arp_resolve may be uncrossed, and that one is waited for, or
\* has been answered.
ResolvesOK ==
    /\ pending \notin cache
    /\ \A i \in 1 .. Len(calls) :
         calls[i].op = "arp" /\ ~calls[i].crossed =>
            /\ \A j \in i + 1 .. Len(calls) : calls[j].op # "arp"
            /\ \/ pending = calls[i].ip
               \/ pending = None /\ pending_mac = calls[i].ip

\* What is in the ring after the last look at it has come since or could not be
\* taken.
AckOK == In("rx", "ack") /\ ring # <<>> => window \/ Stuck

\* What a command waits for is its own, and what has come is its answer.
CommandOK ==
    IF calls = <<>> THEN waiting = None /\ active = None
    ELSE \/ /\ calls[1].op = "ping"
            /\ waiting = calls[1].id /\ active = None
            /\ reply_recv \in {None, calls[1].id}
         \/ /\ calls[1].op = "query"
            /\ waiting = None /\ active = calls[1].id
            /\ done = None \/ Port(done) = Port(calls[1].id)

NInv == NetTypeOK /\ StackOK /\ ResolvesOK /\ AckOK /\ Noticed /\ CommandOK

----------------------------------------------------------------------------
(* Stacks *)

\* Removing the innermost call.
LEMMA FrontFacts ==
    ASSUME NEW S, NEW s \in Seq(S), s # <<>>
    PROVE  /\ Front(s) \in Seq(S) /\ Len(Front(s)) = Len(s) - 1
           /\ \A i \in 1 .. Len(s) - 1 : Front(s)[i] = s[i]
           /\ Last(s) \in S /\ Len(s) \in Nat \ {0}
  <1> DEFINE k == Len(s) - 1
             t == SubSeq(s, 1, k)
  <1>1. Len(s) \in Nat \ {0} /\ \A i \in 1 .. Len(s) : s[i] \in S
    BY EmptySeq, ElementOfSeq
  <1>2. k \in Nat /\ Len(s) = k + 1 /\ \A i \in 1 .. k : s[i] \in S
    BY <1>1
  <1>3. Last(s) \in S
    BY <1>1 DEF Last
  <1> HIDE DEF k
  <1>4. /\ t \in Seq(S) /\ Len(t) = IF 1 <= k THEN k - 1 + 1 ELSE 0
        /\ \A i \in 1 .. k - 1 + 1 : t[i] = s[1 + i - 1]
    BY <1>2, SubSeqProperties
  <1>5. Front(s) = t
    BY DEF Front, k
  <1> HIDE DEF t
  <1>6. Len(t) = k /\ \A i \in 1 .. k : t[i] = s[i]
    BY <1>2, <1>4
  <1>7. k = Len(s) - 1
    BY DEF k
  <1> QED
    BY <1>1, <1>3, <1>4, <1>5, <1>6, <1>7

LEMMA AppendFacts ==
    ASSUME NEW S, NEW s \in Seq(S), NEW e \in S
    PROVE  /\ Append(s, e) \in Seq(S) /\ Len(Append(s, e)) = Len(s) + 1
           /\ Append(s, e) # <<>>
           /\ \A i \in 1 .. Len(s) + 1 :
                Append(s, e)[i] = IF i = Len(s) + 1 THEN e ELSE s[i]
  <1>1. /\ Append(s, e) \in Seq(S) /\ Len(Append(s, e)) = Len(s) + 1
        /\ \A i \in 1 .. Len(s) : Append(s, e)[i] = s[i]
        /\ Append(s, e)[Len(s) + 1] = e
    BY AppendProperties
  <1>2. Len(s) \in Nat
    BY LenProperties
  <1>3. Append(s, e) # <<>>
    BY <1>1, <1>2, EmptySeq
  <1> QED
    BY <1>1, <1>2, <1>3

\* Replacing the innermost call.
LEMMA OnTopFacts ==
    ASSUME calls \in Seq(Calls), calls # <<>>, NEW c \in Calls
    PROVE  /\ OnTop(c) \in Seq(Calls) /\ Len(OnTop(c)) = Len(calls)
           /\ \A i \in 1 .. Len(calls) :
                OnTop(c)[i] = IF i = Len(calls) THEN c ELSE calls[i]
  <1>1. Len(calls) \in 1 .. Len(calls)
    BY EmptySeq
  <1> QED
    BY <1>1, ExceptSeq DEF OnTop

LEMMA CallKinds ==
    ASSUME NEW c \in Calls
    PROVE  /\ c.op \in {"ping", "query"} <=> c \in Commands
           /\ c.op = "arp" <=> c \in Resolves
           /\ c.op = "rx" <=> c \in Receives
           /\ c.op \in {"ping", "query", "arp", "rx"}
  BY DEF Calls, Commands, Resolves, Receives

\* The frame has been handled: the loop of rtl8139_rx goes on.
LEMMA HandledFacts ==
    ASSUME NEW c \in Receives
    PROVE  /\ Handled(c) \in Receives /\ Handled(c).op = "rx" /\ Handled(c).at = "test"
           /\ [Handled(c) EXCEPT !.at = "reply"] \in Receives
           /\ [Handled(c) EXCEPT !.at = "reply"].op = "rx"
           /\ [Handled(c) EXCEPT !.at = "reply"].at = "reply"
  BY DEF Handled, Receives

\* The caller of ipv4_send goes on: the kind of call and its id are kept.
LEMMA AfterSendFacts ==
    ASSUME NEW c \in Calls, c.op # "arp", NEW ok \in BOOLEAN
    PROVE  /\ AfterSend(c, ok) \in Calls /\ AfterSend(c, ok).op = c.op
           /\ c.op = "rx" => AfterSend(c, ok).at = "test"
           /\ c.op # "rx" => AfterSend(c, ok).id = c.id
  <1>1. CASE c.op = "rx"
    BY <1>1, CallKinds, HandledFacts DEF AfterSend, Calls
  <1>2. CASE c.op # "rx"
    <2>1. c \in Commands
      BY <1>2, CallKinds
    <2> QED
      BY <1>2, <2>1 DEF AfterSend, Commands, Calls
  <1> QED
    BY <1>1, <1>2

\* The state after the innermost call, an arp_resolve, has returned.
LEMMA ReturnedFacts ==
    ASSUME calls \in Seq(Calls), StackOK, In("arp", "wait"), NEW ok \in BOOLEAN
    PROVE  /\ Len(calls) \in Nat /\ Len(calls) >= 2
           /\ calls[Len(calls) - 1] \in Calls /\ calls[Len(calls) - 1].op # "arp"
           /\ calls[Len(calls)].op = "arp"
           /\ Returned(ok) \in Seq(Calls) /\ Len(Returned(ok)) = Len(calls) - 1
           /\ \A i \in 1 .. Len(calls) - 1 :
                Returned(ok)[i] = IF i = Len(calls) - 1
                                  THEN AfterSend(calls[i], ok) ELSE calls[i]
  <1>1. /\ Len(calls) \in Nat \ {0} /\ calls # <<>> /\ calls[Len(calls)].op = "arp"
        /\ \A i \in 1 .. Len(calls) : calls[i] \in Calls
    BY EmptySeq, ElementOfSeq DEF In, Top, Last
  <1>2. Len(calls) >= 2 /\ calls[Len(calls) - 1].op # "arp"
    BY <1>1 DEF StackOK
  <1> DEFINE below == Front(calls)
             c == AfterSend(Last(below), ok)
  <1>3. /\ below \in Seq(Calls) /\ Len(below) = Len(calls) - 1
        /\ \A i \in 1 .. Len(calls) - 1 : below[i] = calls[i]
    BY <1>1, FrontFacts
  <1>4. below # <<>> /\ Last(below) = calls[Len(calls) - 1]
    BY <1>1, <1>2, <1>3, EmptySeq DEF Last
  <1> HIDE DEF below
  <1>5. /\ Front(below) \in Seq(Calls) /\ Len(Front(below)) = Len(below) - 1
        /\ \A i \in 1 .. Len(below) - 1 : Front(below)[i] = below[i]
    BY <1>3, <1>4, FrontFacts
  <1>6. c \in Calls /\ c = AfterSend(calls[Len(calls) - 1], ok)
    BY <1>1, <1>2, <1>4, AfterSendFacts
  <1> HIDE DEF c
  <1>7. /\ Append(Front(below), c) \in Seq(Calls)
        /\ Len(Append(Front(below), c)) = Len(Front(below)) + 1
        /\ \A i \in 1 .. Len(Front(below)) + 1 :
             Append(Front(below), c)[i] =
               IF i = Len(Front(below)) + 1 THEN c ELSE Front(below)[i]
    BY <1>5, <1>6, AppendFacts
  <1>8. Returned(ok) = Append(Front(below), c)
    BY DEF Returned, below, c
  <1>9. Len(Front(below)) + 1 = Len(calls) - 1
    BY <1>1, <1>3, <1>5
  <1>10. ASSUME NEW i \in 1 .. Len(calls) - 1
         PROVE  Append(Front(below), c)[i] =
                  IF i = Len(calls) - 1 THEN AfterSend(calls[i], ok) ELSE calls[i]
    <2>1. CASE i = Len(calls) - 1
      BY <1>6, <1>7, <1>9, <2>1
    <2>2. CASE i # Len(calls) - 1
      <3>1. i \in 1 .. Len(below) - 1
        BY <1>1, <1>3, <2>2
      <3> QED
        BY <1>3, <1>5, <1>7, <1>9, <2>2, <3>1
    <2> QED
      BY <2>1, <2>2
  <1> QED
    BY <1>1, <1>2, <1>7, <1>8, <1>9, <1>10

\* What ipv4_send leaves, when the next hop's MAC is known and when it is not.
LEMMA SendFacts ==
    ASSUME NEW stack \in Seq(Calls), stack # <<>>, stack[Len(stack)].op # "arp",
           NEW hop \in Local, Send(stack, hop)
    PROVE  LET n == Len(stack) IN
           /\ calls' \in Seq(Calls) /\ n \in Nat \ {0} /\ stack[n] \in Calls
           /\ \/ /\ hop \in cache /\ UNCHANGED <<pending, pending_mac>>
                 /\ Len(calls') = n
                 /\ \A i \in 1 .. n :
                      calls'[i] = IF i = n THEN AfterSend(stack[n], TRUE) ELSE stack[i]
              \/ /\ hop \notin cache /\ pending' = hop /\ UNCHANGED pending_mac
                 /\ Len(calls') = n + 1 /\ calls'[n + 1] = Resolve(hop)
                 /\ \A i \in 1 .. n :
                      calls'[i] = IF stack[i].op = "arp"
                                  THEN [stack[i] EXCEPT !.crossed = TRUE] ELSE stack[i]
  <1> DEFINE n == Len(stack)
             crossed == [i \in 1 .. n |->
                           IF stack[i].op = "arp" THEN [stack[i] EXCEPT !.crossed = TRUE]
                           ELSE stack[i]]
             c == AfterSend(Last(stack), TRUE)
  <1>1. /\ n \in Nat \ {0} /\ \A i \in 1 .. n : stack[i] \in Calls
        /\ Last(stack) = stack[n]
    BY EmptySeq, ElementOfSeq DEF Last
  <1>2. CASE hop \in cache
    <2>1. calls' = Append(Front(stack), c) /\ UNCHANGED <<pending, pending_mac>>
      BY <1>2 DEF Send, resolution
    <2>2. stack[n] \in Calls /\ stack[n].op # "arp"
      BY <1>1
    <2>3. c \in Calls /\ c = AfterSend(stack[n], TRUE)
      BY <1>1, <2>2, AfterSendFacts
    <2>4. /\ Front(stack) \in Seq(Calls) /\ Len(Front(stack)) = n - 1
          /\ \A i \in 1 .. n - 1 : Front(stack)[i] = stack[i]
      BY FrontFacts
    <2> HIDE DEF c, n
    <2>a. /\ Append(Front(stack), c) \in Seq(Calls)
          /\ Len(Append(Front(stack), c)) = Len(Front(stack)) + 1
          /\ \A i \in 1 .. Len(Front(stack)) + 1 :
               Append(Front(stack), c)[i] =
                 IF i = Len(Front(stack)) + 1 THEN c ELSE Front(stack)[i]
      <3>1. Front(stack) \in Seq(Calls)
        BY <2>4
      <3>2. c \in Calls
        BY <2>3
      <3> QED
        BY <3>1, <3>2, AppendFacts, Zenon
    <2>5. /\ calls' \in Seq(Calls) /\ Len(calls') = Len(Front(stack)) + 1
          /\ \A i \in 1 .. Len(Front(stack)) + 1 :
               calls'[i] = IF i = Len(Front(stack)) + 1 THEN c ELSE Front(stack)[i]
      BY <2>1, <2>a
    <2>6. Len(calls') = n /\ \A i \in 1 .. n : calls'[i] = IF i = n THEN c ELSE stack[i]
      BY <1>1, <2>4, <2>5
    <2>7. /\ calls' \in Seq(Calls) /\ n \in Nat \ {0} /\ stack[n] \in Calls
          /\ hop \in cache /\ UNCHANGED <<pending, pending_mac>>
          /\ Len(calls') = n
          /\ \A i \in 1 .. n :
                calls'[i] = IF i = n THEN AfterSend(stack[n], TRUE) ELSE stack[i]
      BY <1>1, <1>2, <2>1, <2>2, <2>3, <2>5, <2>6
    <2> QED
      BY <2>7 DEF n
  <1>3. CASE hop \notin cache
    <2>1. /\ calls' = Append(crossed, Resolve(hop))
          /\ pending' = hop /\ UNCHANGED pending_mac
      BY <1>3 DEF Send
    <2>2. Resolve(hop) \in Calls
      BY DEF Resolve, Resolves, Calls
    <2>3. \A i \in 1 .. n : stack[i].op = "arp" => [stack[i] EXCEPT !.crossed = TRUE] \in Calls
      BY <1>1, CallKinds DEF Resolves, Calls
    <2>4. crossed \in Seq(Calls) /\ Len(crossed) = n
      BY <1>1, <2>3
    <2>5. \A i \in 1 .. n : crossed[i] = IF stack[i].op = "arp"
                                        THEN [stack[i] EXCEPT !.crossed = TRUE] ELSE stack[i]
      OBVIOUS
    <2> HIDE DEF crossed, n
    <2>6. /\ calls' \in Seq(Calls) /\ Len(calls') = n + 1
          /\ \A i \in 1 .. n + 1 : calls'[i] = IF i = n + 1 THEN Resolve(hop) ELSE crossed[i]
      BY <2>1, <2>2, <2>4, AppendFacts
    <2>7. calls'[n + 1] = Resolve(hop) /\ \A i \in 1 .. n : calls'[i] = crossed[i]
      BY <1>1, <2>6
    <2>8. n \in 1 .. n
      BY <1>1
    <2>9. /\ calls' \in Seq(Calls) /\ n \in Nat \ {0} /\ stack[n] \in Calls
          /\ hop \notin cache /\ pending' = hop /\ UNCHANGED pending_mac
          /\ Len(calls') = n + 1 /\ calls'[n + 1] = Resolve(hop)
          /\ \A i \in 1 .. n :
               calls'[i] = IF stack[i].op = "arp"
                           THEN [stack[i] EXCEPT !.crossed = TRUE] ELSE stack[i]
      BY <1>1, <1>3, <2>1, <2>5, <2>6, <2>7, <2>8
    <2> QED
      BY <2>9 DEF n
  <1> QED
    BY <1>2, <1>3

----------------------------------------------------------------------------
(* The invariant, one action at a time *)

LEMMA NInitInv == NInit => NInv
  BY EmptySeq DEF NInit, NInv, NetTypeOK, StackOK, ResolvesOK, AckOK, Noticed, CommandOK,
     In, None, Bits, NetAssumption

\* arp_resolve returns, with or without an answer.
LEMMA ArpReturnInv ==
    ASSUME NInv, ArpDone \/ ArpTimeout
    PROVE  NInv'
  <1>0. /\ NetTypeOK /\ StackOK /\ ResolvesOK /\ AckOK /\ Noticed /\ CommandOK
        /\ In("arp", "wait")
    BY DEF NInv, ArpDone, ArpTimeout
  <1>1. PICK ok \in BOOLEAN : calls' = Returned(ok)
    BY DEF ArpDone, ArpTimeout
  <1>2. /\ UNCHANGED <<cache, pending_mac, ping, query, card, id>>
        /\ pending' = None
    BY DEF ArpDone, ArpTimeout, resolution
  <1> DEFINE n == Len(calls) - 1
             c == AfterSend(calls[n], ok)
  <1>3. /\ n \in Nat \ {0} /\ Len(calls) = n + 1
        /\ calls[n] \in Calls /\ calls[n].op # "arp" /\ calls[n + 1].op = "arp"
        /\ calls' \in Seq(Calls) /\ Len(calls') = n
        /\ \A i \in 1 .. n : calls'[i] = IF i = n THEN c ELSE calls[i]
    BY <1>0, <1>1, ReturnedFacts DEF NetTypeOK
  <1>4. /\ c.op = calls[n].op /\ c.op # "arp"
        /\ c.op = "rx" => c.at = "test"
        /\ c.op # "rx" => c.id = calls[n].id
    <2>1. calls[n] \in Calls /\ calls[n].op # "arp"
      BY <1>3
    <2> HIDE DEF n
    <2> QED
      BY <2>1, AfterSendFacts
  <1> HIDE DEF n, c
  <1>5. NetTypeOK'
    BY <1>0, <1>2, <1>3 DEF NetTypeOK, card
  <1>6. StackOK'
    <2> SUFFICES ASSUME NEW i \in 1 .. n
                 PROVE  /\ calls'[i].op \in {"ping", "query"} <=> i = 1
                        /\ calls'[i].op = "arp" => i > 1 /\ calls'[i - 1].op # "arp"
                        /\ calls'[i].op = "rx" /\ calls'[i].at = "copy" =>
                             calls'[i].frame \in Stored
      BY <1>3 DEF StackOK
    <2>1. /\ calls[i].op \in {"ping", "query"} <=> i = 1
          /\ calls[i].op = "arp" => i > 1 /\ calls[i - 1].op # "arp"
          /\ calls[i].op = "rx" /\ calls[i].at = "copy" => calls[i].frame \in Stored
      BY <1>0, <1>3 DEF StackOK
    <2>2. CASE i = n
      BY <1>3, <1>4, <2>1, <2>2
    <2>3. CASE i # n
      BY <1>3, <2>1, <2>3
    <2> QED
      BY <2>2, <2>3
  <1>7. ResolvesOK'
    <2>1. \A i \in 1 .. n : calls[i].op = "arp" => calls[i].crossed
      BY <1>0, <1>3 DEF ResolvesOK
    <2>2. None \notin cache
      BY <1>0, NetAssumption DEF NetTypeOK, None
    <2> QED
      BY <1>2, <1>3, <1>4, <2>1, <2>2 DEF ResolvesOK
  <1>8. AckOK'
    <2>1. ~In("rx", "ack")'
      <3>1. calls'[n].op = "rx" => calls'[n].at = "test"
        BY <1>0, <1>3, <1>4 DEF StackOK
      <3> QED
        BY <1>3, <3>1 DEF In, Top, Last
    <2> QED
      BY <2>1 DEF Stuck, AckOK
  <1>9. Noticed'
    <2>1. ASSUME NEW i \in 1 .. n + 1, calls[i].op = "rx", calls[i].at # "ack"
          PROVE  i \in 1 .. n /\ calls'[i].op = "rx" /\ calls'[i].at # "ack"
      BY <1>3, <1>4, <2>1
    <2> QED
      BY <1>0, <1>2, <1>3, <2>1 DEF Stuck, Noticed, card
  <1>10. CommandOK'
    <2>1. calls # <<>> /\ calls' # <<>>
      BY <1>0, <1>3, EmptySeq DEF In
    <2>2. calls[1].op \in {"ping", "query"}
      BY <1>0, <1>3 DEF StackOK
    <2>3. calls'[1].op = calls[1].op /\ calls'[1].id = calls[1].id
      BY <1>3, <1>4, <2>2
    <2> QED
      BY <1>0, <1>2, <2>1, <2>3 DEF CommandOK, ping, query
  <1> QED
    BY <1>5, <1>6, <1>7, <1>8, <1>9, <1>10 DEF NInv

\* rtl8139_rx, the innermost call, goes on to c: the calls below are untouched.
LEMMA RxTopFacts ==
    ASSUME NetTypeOK, StackOK, calls # <<>>, Top.op = "rx",
           NEW c \in Receives, c.at = "copy" => c.frame \in Stored, calls' = OnTop(c)
    PROVE  /\ Len(calls) \in Nat /\ Len(calls) >= 2 /\ calls[Len(calls)].op = "rx"
           /\ calls' \in Seq(Calls) /\ Len(calls') = Len(calls)
           /\ \A i \in 1 .. Len(calls) :
                calls'[i] = IF i = Len(calls) THEN c ELSE calls[i]
           /\ calls' # <<>> /\ calls'[1] = calls[1] /\ c.op = "rx" /\ Top' = c
           /\ StackOK'
  <1>1. calls \in Seq(Calls) /\ Len(calls) \in Nat \ {0} /\ calls[Len(calls)].op = "rx"
    BY EmptySeq DEF NetTypeOK, Top, Last
  <1>2. Len(calls) >= 2
    BY <1>1 DEF StackOK
  <1>3. c \in Calls /\ c.op = "rx"
    BY DEF Calls, Receives
  <1>4. /\ OnTop(c) \in Seq(Calls) /\ Len(OnTop(c)) = Len(calls)
        /\ \A i \in 1 .. Len(calls) :
             OnTop(c)[i] = IF i = Len(calls) THEN c ELSE calls[i]
    BY <1>1, <1>3, OnTopFacts
  <1>5. calls' # <<>>
    BY <1>1, <1>4, EmptySeq
  <1>6. Top' = c
    BY <1>1, <1>4 DEF Top, Last
  <1>7. StackOK'
    <2> SUFFICES ASSUME NEW i \in 1 .. Len(calls)
                 PROVE  /\ calls'[i].op \in {"ping", "query"} <=> i = 1
                        /\ calls'[i].op = "arp" => i > 1 /\ calls'[i - 1].op # "arp"
                        /\ calls'[i].op = "rx" /\ calls'[i].at = "copy" =>
                             calls'[i].frame \in Stored
      BY <1>4 DEF StackOK
    <2>1. /\ calls[i].op \in {"ping", "query"} <=> i = 1
          /\ calls[i].op = "arp" => i > 1 /\ calls[i - 1].op # "arp"
          /\ calls[i].op = "rx" /\ calls[i].at = "copy" => calls[i].frame \in Stored
      BY DEF StackOK
    <2> QED
      BY <1>1, <1>2, <1>3, <1>4, <2>1
  <1> QED
    BY <1>1, <1>2, <1>3, <1>4, <1>5, <1>6, <1>7

\* What waits and what is resolved is not touched by it.
LEMMA RxTopInv ==
    ASSUME NInv, calls # <<>>, Top.op = "rx",
           NEW c \in Receives, c.at = "copy" => c.frame \in Stored, calls' = OnTop(c),
           UNCHANGED <<cache, pending, pending_mac>>
    PROVE  ResolvesOK' /\ (UNCHANGED <<ping, query>> => CommandOK')
  <1>0. NetTypeOK /\ StackOK /\ ResolvesOK /\ CommandOK
    BY DEF NInv
  <1>1. /\ Len(calls) \in Nat /\ Len(calls) >= 2 /\ calls[Len(calls)].op = "rx"
        /\ Len(calls') = Len(calls) /\ calls' # <<>> /\ calls'[1] = calls[1]
        /\ \A i \in 1 .. Len(calls) : calls'[i] = IF i = Len(calls) THEN c ELSE calls[i]
        /\ c.op = "rx"
    BY <1>0, RxTopFacts
  <1>2. \A i \in 1 .. Len(calls) :
          /\ calls'[i].op = "arp" <=> calls[i].op = "arp"
          /\ calls'[i].op = "arp" => calls'[i] = calls[i]
    BY <1>1
  <1>3. ResolvesOK'
    BY <1>0, <1>1, <1>2 DEF ResolvesOK
  <1>4. UNCHANGED <<ping, query>> => CommandOK'
    BY <1>0, <1>1 DEF CommandOK, ping, query
  <1> QED
    BY <1>3, <1>4

LEMMA RxTestInv ==
    ASSUME NInv, RxTest
    PROVE  NInv'
  <1>0. /\ NetTypeOK /\ StackOK /\ calls # <<>> /\ Top.op = "rx" /\ Top.at = "test"
        /\ UNCHANGED <<cache, resolution, ping, query, isr, window, id>>
    BY DEF NInv, RxTest, In
  <1>a. Top \in Receives
    BY <1>0, FrontFacts, CallKinds DEF NetTypeOK, Top
  <1>1. CASE ring # <<>> /\ ~Stuck
    <2> DEFINE c == [Top EXCEPT !.at = "copy", !.frame = Head(ring)]
    <2>1. ring' = Tail(ring) /\ calls' = OnTop(c)
      BY <1>1 DEF RxTest
    <2>2. Head(ring) \in Stored /\ Tail(ring) \in Seq(Stored)
      BY <1>0, <1>1, HeadTailProperties DEF NetTypeOK
    <2>3. c \in Receives /\ c.at = "copy" /\ c.frame = Head(ring)
      BY <1>a, <2>2 DEF Receives
    <2> HIDE DEF c
    <2>4. /\ calls' \in Seq(Calls) /\ StackOK' /\ Len(calls') = Len(calls)
          /\ Len(calls) \in Nat /\ Len(calls) >= 2
          /\ calls'[Len(calls)] = c /\ c.op = "rx" /\ Top' = c
      BY <1>0, <2>1, <2>2, <2>3, RxTopFacts
    <2>5. ResolvesOK' /\ CommandOK'
      BY <1>0, <2>1, <2>2, <2>3, RxTopInv DEF resolution
    <2>6. NetTypeOK'
      BY <1>0, <2>1, <2>2, <2>4 DEF NetTypeOK, resolution
    <2>7. AckOK'
      BY <2>3, <2>4 DEF Stuck, AckOK, In
    <2>8. Noticed'
      BY <2>3, <2>4 DEF Stuck, Noticed
    <2> QED
      BY <2>4, <2>5, <2>6, <2>7, <2>8 DEF NInv
  <1>2. CASE ring = <<>> \/ Stuck
    <2> DEFINE c == [Top EXCEPT !.at = "ack"]
    <2>1. ring' = ring /\ calls' = OnTop(c)
      BY <1>2 DEF RxTest, GoTo
    <2>2. c \in Receives /\ c.at = "ack"
      BY <1>a DEF Receives
    <2> HIDE DEF c
    <2>3. calls' \in Seq(Calls) /\ StackOK'
      BY <1>0, <2>1, <2>2, RxTopFacts
    <2>4. ResolvesOK' /\ CommandOK'
      BY <1>0, <2>1, <2>2, RxTopInv DEF resolution
    <2>5. NetTypeOK'
      BY <1>0, <2>1, <2>3 DEF NetTypeOK, resolution
    <2>6. AckOK' /\ Noticed'
      BY <1>2, <2>1 DEF AckOK, Noticed, Stuck
    <2> QED
      BY <2>3, <2>4, <2>5, <2>6 DEF NInv
  <1> QED
    BY <1>1, <1>2

LEMMA RxAckInv ==
    ASSUME NInv, RxAck
    PROVE  NInv'
  <1>0. /\ NetTypeOK /\ StackOK /\ ResolvesOK /\ AckOK /\ CommandOK
        /\ calls # <<>> /\ calls \in Seq(Calls) /\ In("rx", "ack")
        /\ calls[Len(calls)].op = "rx"
        /\ calls' = Front(calls) /\ isr' = isr \ Top.status
        /\ UNCHANGED <<cache, resolution, ping, query, ring, window, id>>
    BY DEF NInv, RxAck, In, Top, Last, NetTypeOK
  <1>1. /\ Len(calls) \in Nat \ {0} /\ calls' \in Seq(Calls)
        /\ Len(calls') = Len(calls) - 1
        /\ \A i \in 1 .. Len(calls) - 1 : calls'[i] = calls[i]
    BY <1>0, FrontFacts
  <1>2. Len(calls) >= 2
    BY <1>0, <1>1 DEF StackOK
  <1>3. NetTypeOK'
    BY <1>0, <1>1 DEF NetTypeOK, resolution
  <1>4. StackOK'
    BY <1>0, <1>1 DEF StackOK
  <1>5. ResolvesOK'
    <2> SUFFICES ASSUME NEW i \in 1 .. Len(calls) - 1, calls[i].op = "arp",
                        ~calls[i].crossed
                 PROVE  /\ \A j \in i + 1 .. Len(calls) - 1 : calls[j].op # "arp"
                        /\ \/ pending = calls[i].ip
                           \/ pending = None /\ pending_mac = calls[i].ip
      BY <1>0, <1>1 DEF ResolvesOK, resolution
    <2> QED
      BY <1>0, <1>1 DEF ResolvesOK
  <1>6. AckOK' /\ Noticed'
    BY <1>0 DEF Stuck, AckOK, Noticed
  <1>7. CommandOK'
    <2>1. calls' # <<>> /\ calls'[1] = calls[1]
      BY <1>1, <1>2, EmptySeq
    <2> QED
      BY <1>0, <2>1 DEF CommandOK, ping, query
  <1> QED
    BY <1>3, <1>4, <1>5, <1>6, <1>7 DEF NInv

LEMMA PollInv ==
    ASSUME NInv, Poll
    PROVE  NInv'
  <1>0. /\ NetTypeOK /\ StackOK /\ ResolvesOK /\ CommandOK
        /\ calls # <<>> /\ calls \in Seq(Calls) /\ Len(calls) \in Nat \ {0}
        /\ calls' = Append(calls, Receive(isr))
        /\ UNCHANGED <<cache, resolution, ping, query, card, id>>
    BY EmptySeq DEF NInv, Poll, Unanswered, In, NetTypeOK
  <1>1. /\ Receive(isr) \in Calls /\ Receive(isr).op = "rx" /\ Receive(isr).at = "test"
    BY <1>0 DEF NetTypeOK, Receive, Receives, Calls
  <1>2. /\ calls' \in Seq(Calls) /\ Len(calls') = Len(calls) + 1 /\ calls' # <<>>
        /\ \A i \in 1 .. Len(calls) + 1 :
             calls'[i] = IF i = Len(calls) + 1 THEN Receive(isr) ELSE calls[i]
    BY <1>0, <1>1, AppendFacts
  <1>a. calls'[Len(calls) + 1] = Receive(isr) /\ calls'[1] = calls[1]
    BY <1>0, <1>2
  <1>3. NetTypeOK'
    BY <1>0, <1>2 DEF NetTypeOK, resolution, card
  <1>4. StackOK'
    BY <1>0, <1>1, <1>2 DEF StackOK
  <1>5. ResolvesOK'
    BY <1>0, <1>1, <1>2 DEF ResolvesOK, resolution
  <1>6. AckOK'
    BY <1>0, <1>1, <1>2, <1>a DEF Stuck, AckOK, In, Top, Last
  <1>7. Noticed'
    BY <1>0, <1>1, <1>2, <1>a DEF Stuck, Noticed
  <1>8. CommandOK'
    BY <1>0, <1>2, <1>a DEF CommandOK, ping, query
  <1> QED
    BY <1>3, <1>4, <1>5, <1>6, <1>7, <1>8 DEF NInv

----------------------------------------------------------------------------
(* The handlers *)

\* net_receive is about to handle the frame that was copied.
LEMMA HandlingFacts ==
    ASSUME NInv, In("rx", "copy")
    PROVE  /\ NetTypeOK /\ StackOK /\ calls # <<>> /\ Top.op = "rx"
           /\ Top \in Receives /\ Top.frame \in Stored
           /\ Handled(Top) \in Receives /\ Handled(Top).at = "test"
  <1>1. NetTypeOK /\ StackOK /\ calls # <<>> /\ Top.op = "rx" /\ Top.at = "copy"
    BY DEF NInv, In
  <1>2. Top \in Receives
    BY <1>1, FrontFacts, CallKinds DEF NetTypeOK, Top
  <1>3. Top.frame \in Stored
    <2>1. Len(calls) \in 1 .. Len(calls) /\ Top = calls[Len(calls)]
      BY <1>1, EmptySeq DEF NetTypeOK, Top, Last
    <2> QED
      BY <1>1, <2>1 DEF StackOK
  <1> QED
    BY <1>1, <1>2, <1>3, HandledFacts

\* A handler that returns at once.
LEMMA HandledInv ==
    ASSUME NInv, In("rx", "copy"), calls' = OnTop(Handled(Top)), UNCHANGED <<card, id>>,
           cache' \subseteq Local, pending' \in Local \cup {None}
    PROVE  NetTypeOK' /\ StackOK' /\ AckOK' /\ Noticed'
  <1>0. /\ NetTypeOK /\ StackOK /\ calls # <<>> /\ Top.op = "rx"
        /\ Handled(Top) \in Receives /\ Handled(Top).at = "test"
    BY HandlingFacts
  <1>1. PICK c \in Receives : c = Handled(Top)
    BY <1>0
  <1>2. /\ calls' \in Seq(Calls) /\ StackOK' /\ Len(calls') = Len(calls)
        /\ Len(calls) \in Nat /\ Len(calls) >= 2
        /\ calls'[Len(calls)] = c /\ c.op = "rx" /\ Top' = c
    BY <1>0, <1>1, RxTopFacts
  <1>3. NetTypeOK'
    BY <1>0, <1>2 DEF NetTypeOK, card
  <1>4. AckOK'
    BY <1>0, <1>1, <1>2 DEF Stuck, AckOK, In
  <1>5. Noticed'
    BY <1>0, <1>1, <1>2 DEF Stuck, Noticed
  <1> QED
    BY <1>2, <1>3, <1>4, <1>5

\* arp_cache_add: the address that is waited for is added only by ending the wait.
LEMMA HandleArpInv ==
    ASSUME NInv, In("rx", "copy"), NEW h \in Local, HandleArp(h), UNCHANGED <<card, id>>
    PROVE  NInv'
  <1>0. /\ NetTypeOK /\ StackOK /\ calls # <<>> /\ Top.op = "rx" /\ ResolvesOK
        /\ CommandOK /\ Handled(Top) \in Receives /\ Handled(Top).at = "test"
        /\ calls' = OnTop(Handled(Top)) /\ UNCHANGED <<ping, query>>
    BY HandlingFacts DEF NInv, HandleArp
  <1>1. cache' \subseteq cache \cup {h} /\ cache' \subseteq Local
    BY <1>0 DEF HandleArp, Added, NetTypeOK
  <1>2. \/ /\ h \notin cache /\ h = pending /\ pending' = None /\ pending_mac' = h
        \/ /\ h \in cache \/ h # pending
           /\ UNCHANGED <<pending, pending_mac>>
    BY DEF HandleArp, Answers
  <1>3. pending' \in Local \cup {None} /\ None \notin Local
    BY <1>0, <1>2, NetAssumption DEF NetTypeOK, None
  <1>4. NetTypeOK' /\ StackOK' /\ AckOK' /\ Noticed'
    BY <1>0, <1>1, <1>3, HandledInv
  <1>5. PICK c \in Receives : c = Handled(Top)
    BY <1>0
  <1>6. /\ Len(calls) \in Nat /\ Len(calls) >= 2 /\ calls[Len(calls)].op = "rx"
        /\ Len(calls') = Len(calls) /\ calls' # <<>> /\ calls'[1] = calls[1]
        /\ \A i \in 1 .. Len(calls) : calls'[i] = IF i = Len(calls) THEN c ELSE calls[i]
        /\ c.op = "rx"
    BY <1>0, <1>5, RxTopFacts
  <1>7. CommandOK'
    BY <1>0, <1>6 DEF CommandOK, ping, query
  <1>8. ResolvesOK'
    <2>1. pending' \notin cache'
      BY <1>0, <1>1, <1>2, <1>3 DEF ResolvesOK, NetTypeOK
    <2>2. \A i \in 1 .. Len(calls) :
            /\ calls'[i].op = "arp" <=> calls[i].op = "arp"
            /\ calls'[i].op = "arp" => calls'[i] = calls[i]
      BY <1>6
    <2>3. ASSUME NEW i \in 1 .. Len(calls), calls[i].op = "arp", ~calls[i].crossed
          PROVE  /\ \A j \in i + 1 .. Len(calls) : calls[j].op # "arp"
                 /\ \/ pending' = calls[i].ip
                    \/ pending' = None /\ pending_mac' = calls[i].ip
      <3>1. /\ \A j \in i + 1 .. Len(calls) : calls[j].op # "arp"
            /\ \/ pending = calls[i].ip
               \/ pending = None /\ pending_mac = calls[i].ip
        BY <1>0, <2>3 DEF ResolvesOK
      <3> QED
        BY <1>2, <1>3, <3>1
    <2>4. ASSUME NEW i \in 1 .. Len(calls), calls'[i].op = "arp", ~calls'[i].crossed
          PROVE  /\ \A j \in i + 1 .. Len(calls) : calls'[j].op # "arp"
                 /\ \/ pending' = calls'[i].ip
                    \/ pending' = None /\ pending_mac' = calls'[i].ip
      BY <1>6, <2>2, <2>3, <2>4
    <2> QED
      BY <1>6, <2>1, <2>4 DEF ResolvesOK
  <1> QED
    BY <1>4, <1>7, <1>8 DEF NInv

\* An answer is stored only for the command that waits for it.
LEMMA HandleAnswerInv ==
    ASSUME NInv, In("rx", "copy"), NEW i \in Nat, HandlePong(i) \/ HandleAnswer(i),
           UNCHANGED <<card, id>>
    PROVE  NInv'
  <1>0. /\ NetTypeOK /\ StackOK /\ calls # <<>> /\ Top.op = "rx"
        /\ CommandOK /\ Handled(Top) \in Receives /\ Handled(Top).at = "test"
        /\ calls' = OnTop(Handled(Top)) /\ UNCHANGED <<cache, pending, pending_mac>>
    BY HandlingFacts DEF NInv, HandlePong, HandleAnswer, resolution
  <1>1. NetTypeOK' /\ StackOK' /\ AckOK' /\ Noticed'
    BY <1>0, HandledInv DEF NetTypeOK
  <1>2. ResolvesOK'
    BY <1>0, RxTopInv
  <1>3. calls' # <<>> /\ calls'[1] = calls[1]
    BY <1>0, RxTopFacts
  <1>4. CommandOK'
    <2>1. CASE HandlePong(i)
      BY <1>0, <1>3, <2>1 DEF HandlePong, CommandOK, query, None
    <2>2. CASE HandleAnswer(i)
      BY <1>0, <1>3, <2>2 DEF HandleAnswer, CommandOK, ping, None
    <2> QED
      BY <2>1, <2>2
  <1> QED
    BY <1>1, <1>2, <1>4 DEF NInv

----------------------------------------------------------------------------
(* Sending *)

\* The parts of the invariant about a stack that is about to send.
Sends(s) ==
    /\ s \in Seq(Calls) /\ s # <<>> /\ s[Len(s)].op # "arp"
    /\ \A i \in 1 .. Len(s) :
         /\ s[i].op \in {"ping", "query"} <=> i = 1
         /\ s[i].op = "arp" => i > 1 /\ s[i - 1].op # "arp"
         /\ s[i].op = "rx" /\ s[i].at = "copy" => s[i].frame \in Stored
         /\ s[i].op = "arp" /\ ~s[i].crossed =>
              /\ \A j \in i + 1 .. Len(s) : s[j].op # "arp"
              /\ \/ pending = s[i].ip
                 \/ pending = None /\ pending_mac = s[i].ip

LEMMA SendInv ==
    ASSUME NInv, NEW stack, Sends(stack), NEW hop \in Local, Send(stack, hop), cache' = cache
    PROVE  /\ calls' \in Seq(Calls) /\ calls' # <<>> /\ StackOK' /\ ResolvesOK'
           /\ pending' \in Local \cup {None}
           /\ calls'[1].op = stack[1].op /\ calls'[1].id = stack[1].id
           /\ stack[Len(stack)].op = "rx" /\ stack[Len(stack)].at # "ack" =>
                \E i \in 1 .. Len(calls') : calls'[i].op = "rx" /\ calls'[i].at # "ack"
           /\ ~In("rx", "ack")'
  <1> DEFINE n == Len(stack)
             c == AfterSend(stack[n], TRUE)
  <1>1. /\ stack \in Seq(Calls) /\ stack # <<>> /\ stack[n].op # "arp"
        /\ pending \in Local \cup {None} /\ pending \notin cache
    BY DEF Sends, NInv, NetTypeOK, ResolvesOK
  <1>2. /\ calls' \in Seq(Calls) /\ n \in Nat \ {0} /\ stack[n] \in Calls
        /\ \/ /\ UNCHANGED <<pending, pending_mac>>
              /\ Len(calls') = n
              /\ \A i \in 1 .. n : calls'[i] = IF i = n THEN c ELSE stack[i]
           \/ /\ hop \notin cache /\ pending' = hop
              /\ Len(calls') = n + 1 /\ calls'[n + 1] = Resolve(hop)
              /\ \A i \in 1 .. n :
                   calls'[i] = IF stack[i].op = "arp"
                               THEN [stack[i] EXCEPT !.crossed = TRUE] ELSE stack[i]
    BY <1>1, SendFacts
  <1>a. /\ \A i \in 1 .. n : stack[i] \in Calls
        /\ calls' # <<>> /\ n \in 1 .. n
    <2>1. \A i \in 1 .. n : stack[i] \in Calls
      BY <1>1, ElementOfSeq
    <2> HIDE DEF n, c
    <2>2. n \in 1 .. n /\ Len(calls') \in Nat /\ Len(calls') # 0
      BY <1>2
    <2>3. calls' # <<>>
      BY <1>2, <2>2, EmptySeq
    <2> QED
      BY <2>1, <2>2, <2>3
  <1>3. /\ c.op = stack[n].op /\ (c.op = "rx" => c.at = "test")
        /\ (c.op # "rx" => c.id = stack[n].id)
    <2>1. stack[n] \in Calls /\ stack[n].op # "arp"
      BY <1>1, <1>2
    <2> HIDE DEF n
    <2> QED
      BY <2>1, AfterSendFacts
  <1>4. \A i \in 1 .. n :
          /\ stack[i].op \in {"ping", "query"} <=> i = 1
          /\ stack[i].op = "arp" => i > 1 /\ stack[i - 1].op # "arp"
          /\ stack[i].op = "rx" /\ stack[i].at = "copy" => stack[i].frame \in Stored
          /\ stack[i].op = "arp" /\ ~stack[i].crossed =>
               /\ \A j \in i + 1 .. n : stack[j].op # "arp"
               /\ \/ pending = stack[i].ip
                  \/ pending = None /\ pending_mac = stack[i].ip
    BY DEF Sends
  <1> HIDE DEF n, c
  <1>5. CASE /\ UNCHANGED <<pending, pending_mac>> /\ Len(calls') = n
             /\ \A i \in 1 .. n : calls'[i] = IF i = n THEN c ELSE stack[i]
    <2>1. \A i \in 1 .. n :
            /\ calls'[i].op = stack[i].op
            /\ calls'[i].op = "arp" => calls'[i] = stack[i]
            /\ calls'[i].op = "rx" /\ calls'[i].at = "copy" => calls'[i] = stack[i]
      BY <1>1, <1>3, <1>5 DEF n
    <2>2. StackOK'
      <3> SUFFICES ASSUME NEW i \in 1 .. n
                   PROVE  /\ calls'[i].op \in {"ping", "query"} <=> i = 1
                          /\ calls'[i].op = "arp" => i > 1 /\ calls'[i - 1].op # "arp"
                          /\ calls'[i].op = "rx" /\ calls'[i].at = "copy" =>
                               calls'[i].frame \in Stored
        BY <1>5 DEF StackOK
      <3>1. i > 1 => i - 1 \in 1 .. n
        BY <1>2
      <3> QED
        BY <1>4, <2>1, <3>1
    <2>3. ResolvesOK'
      <3> SUFFICES ASSUME NEW i \in 1 .. n, calls'[i].op = "arp", ~calls'[i].crossed
                   PROVE  /\ \A j \in i + 1 .. n : calls'[j].op # "arp"
                          /\ \/ pending = calls'[i].ip
                             \/ pending = None /\ pending_mac = calls'[i].ip
        BY <1>1, <1>5 DEF ResolvesOK
      <3>1. \A j \in i + 1 .. n : j \in 1 .. n
        BY <1>2
      <3> QED
        BY <1>4, <2>1, <3>1
    <2>4. calls'[n] = c /\ Top' = c
      BY <1>2, <1>5, <1>a DEF Top, Last
    <2>5. calls'[1].op = stack[1].op /\ calls'[1].id = stack[1].id
      <3>1. 1 \in 1 .. n /\ stack[1].op # "rx"
        BY <1>2, <1>4
      <3> QED
        BY <1>3, <1>5, <3>1
    <2>6. ~In("rx", "ack")'
      BY <1>3, <2>4 DEF In
    <2>7. stack[n].op = "rx" =>
            \E i \in 1 .. Len(calls') : calls'[i].op = "rx" /\ calls'[i].at # "ack"
      BY <1>3, <1>5, <1>a, <2>4
    <2> QED
      BY <1>1, <1>2, <1>5, <1>a, <2>2, <2>3, <2>5, <2>6, <2>7 DEF n
  <1>6. CASE /\ hop \notin cache /\ pending' = hop
             /\ Len(calls') = n + 1 /\ calls'[n + 1] = Resolve(hop)
             /\ \A i \in 1 .. n :
                  calls'[i] = IF stack[i].op = "arp"
                              THEN [stack[i] EXCEPT !.crossed = TRUE] ELSE stack[i]
    <2>1. \A i \in 1 .. n :
            /\ calls'[i].op = stack[i].op
            /\ calls'[i].op = "arp" => calls'[i].crossed
            /\ calls'[i].op # "arp" => calls'[i] = stack[i]
      BY <1>6, <1>a, CallKinds DEF Resolves
    <2>2. /\ Resolve(hop).op = "arp" /\ Resolve(hop).ip = hop
      BY DEF Resolve
    <2>3. StackOK'
      <3> SUFFICES ASSUME NEW i \in 1 .. n + 1
                   PROVE  /\ calls'[i].op \in {"ping", "query"} <=> i = 1
                          /\ calls'[i].op = "arp" => i > 1 /\ calls'[i - 1].op # "arp"
                          /\ calls'[i].op = "rx" /\ calls'[i].at = "copy" =>
                               calls'[i].frame \in Stored
        BY <1>6 DEF StackOK
      <3>1. CASE i = n + 1
        <4>1. i > 1 /\ i - 1 = n
          BY <1>2, <3>1
        <4>2. calls'[n].op # "arp"
          BY <1>1, <1>a, <2>1 DEF n
        <4> QED
          BY <1>6, <2>2, <3>1, <4>1, <4>2
      <3>2. CASE i \in 1 .. n
        <4>1. i > 1 => i - 1 \in 1 .. n
          BY <1>2, <3>2
        <4> QED
          BY <1>4, <2>1, <3>2, <4>1
      <3> QED
        BY <1>2, <3>1, <3>2
    <2>4. ResolvesOK'
      <3> SUFFICES ASSUME NEW i \in 1 .. n + 1, calls'[i].op = "arp", ~calls'[i].crossed
                   PROVE  /\ \A j \in i + 1 .. n + 1 : calls'[j].op # "arp"
                          /\ pending' = calls'[i].ip
        BY <1>6 DEF ResolvesOK
      <3>1. i = n + 1
        BY <1>2, <2>1
      <3> QED
        BY <1>2, <1>6, <2>2, <3>1
    <2>5. calls'[1].op = stack[1].op /\ calls'[1].id = stack[1].id
      <3>1. 1 \in 1 .. n /\ stack[1].op # "arp"
        BY <1>2, <1>4
      <3> QED
        BY <1>6, <3>1
    <2>6. ~In("rx", "ack")'
      BY <1>2, <1>6, <2>2 DEF In, Top, Last
    <2>7. stack[n].op = "rx" /\ stack[n].at # "ack" =>
            \E i \in 1 .. Len(calls') : calls'[i].op = "rx" /\ calls'[i].at # "ack"
      <3>1. n \in 1 .. Len(calls')
        BY <1>2, <1>6
      <3> QED
        BY <1>a, <2>1, <3>1
    <2> QED
      BY <1>1, <1>2, <1>6, <1>a, <2>3, <2>4, <2>5, <2>6, <2>7 DEF n
  <1> QED
    BY <1>2, <1>5, <1>6

\* icmp_handle answers from inside the handler.
LEMMA HandleEchoInv ==
    ASSUME NInv, In("rx", "copy"), NEW hop \in Local, HandleEcho(hop), UNCHANGED <<card, id>>
    PROVE  NInv'
  <1> DEFINE r == [Handled(Top) EXCEPT !.at = "reply"]
             stack == OnTop(r)
  <1>0. /\ NetTypeOK /\ StackOK /\ ResolvesOK /\ CommandOK /\ calls # <<>> /\ Top.op = "rx"
        /\ Top \in Receives /\ calls \in Seq(Calls)
        /\ Send(stack, hop) /\ UNCHANGED <<cache, ping, query>>
    BY HandlingFacts DEF NInv, HandleEcho, NetTypeOK
  <1>1. r \in Receives /\ r.op = "rx" /\ r.at = "reply" /\ r \in Calls
    BY <1>0, HandledFacts DEF Calls
  <1> HIDE DEF r
  <1>2. /\ stack \in Seq(Calls) /\ Len(stack) = Len(calls)
        /\ \A i \in 1 .. Len(calls) : stack[i] = IF i = Len(calls) THEN r ELSE calls[i]
    BY <1>0, <1>1, OnTopFacts
  <1>3. /\ Len(calls) \in Nat \ {0} /\ Len(calls) \in 1 .. Len(calls)
        /\ calls[Len(calls)].op = "rx"
    BY <1>0, EmptySeq DEF Top, Last
  <1> HIDE DEF stack
  <1>4. stack # <<>> /\ stack[Len(stack)] = r
    BY <1>2, <1>3, EmptySeq
  <1>5. Len(calls) >= 2 /\ stack[1] = calls[1]
    <2>1. Len(calls) # 1
      BY <1>0, <1>3 DEF StackOK
    <2> QED
      BY <1>2, <1>3, <2>1
  <1>6. Sends(stack)
    <2>1. \A i \in 1 .. Len(calls) :
            /\ stack[i].op = calls[i].op
            /\ stack[i].op = "arp" => stack[i] = calls[i]
            /\ stack[i].op = "rx" /\ stack[i].at = "copy" => stack[i] = calls[i]
      BY <1>1, <1>2, <1>3
    <2>2. ASSUME NEW i \in 1 .. Len(calls)
          PROVE  /\ stack[i].op \in {"ping", "query"} <=> i = 1
                 /\ stack[i].op = "arp" => i > 1 /\ stack[i - 1].op # "arp"
                 /\ stack[i].op = "rx" /\ stack[i].at = "copy" => stack[i].frame \in Stored
      <3>1. i > 1 => i - 1 \in 1 .. Len(calls)
        BY <1>3
      <3>2. /\ calls[i].op \in {"ping", "query"} <=> i = 1
            /\ calls[i].op = "arp" => i > 1 /\ calls[i - 1].op # "arp"
            /\ calls[i].op = "rx" /\ calls[i].at = "copy" => calls[i].frame \in Stored
        BY <1>0 DEF StackOK
      <3> QED
        BY <2>1, <3>1, <3>2
    <2>3. ASSUME NEW i \in 1 .. Len(calls), stack[i].op = "arp", ~stack[i].crossed
          PROVE  /\ \A j \in i + 1 .. Len(calls) : stack[j].op # "arp"
                 /\ \/ pending = stack[i].ip
                    \/ pending = None /\ pending_mac = stack[i].ip
      <3>1. \A j \in i + 1 .. Len(calls) : j \in 1 .. Len(calls)
        BY <1>3
      <3>2. stack[i] = calls[i]
        BY <2>1, <2>3
      <3> QED
        BY <1>0, <2>1, <2>3, <3>1, <3>2 DEF ResolvesOK
    <2>4. stack[Len(stack)].op # "arp"
      BY <1>1, <1>4
    <2> QED
      BY <1>2, <1>4, <2>2, <2>3, <2>4 DEF Sends
  <1>7. /\ calls' \in Seq(Calls) /\ calls' # <<>> /\ StackOK' /\ ResolvesOK'
        /\ pending' \in Local \cup {None}
        /\ calls'[1].op = stack[1].op /\ calls'[1].id = stack[1].id
        /\ stack[Len(stack)].op = "rx" /\ stack[Len(stack)].at # "ack" =>
             \E i \in 1 .. Len(calls') : calls'[i].op = "rx" /\ calls'[i].at # "ack"
        /\ ~In("rx", "ack")'
    BY <1>0, <1>6, SendInv
  <1>8. NetTypeOK'
    BY <1>0, <1>7 DEF NetTypeOK, card
  <1>9. AckOK' /\ Noticed'
    BY <1>1, <1>4, <1>7 DEF Stuck, AckOK, Noticed
  <1>10. CommandOK'
    BY <1>0, <1>5, <1>7 DEF CommandOK, ping, query
  <1> QED
    BY <1>7, <1>8, <1>9, <1>10 DEF NInv

LEMMA NextHopLocal == \A dst : NextHop(dst) \in Local
  BY NetAssumption DEF NextHop

LEMMA RxHandleInv ==
    ASSUME NInv, RxHandle
    PROVE  NInv'
  <1>1. In("rx", "copy") /\ Top.frame \in Stored /\ UNCHANGED <<card, id>>
    BY HandlingFacts DEF RxHandle
  <1>2. /\ Top.frame.type \in {"arp", "echo"} => Top.frame.x \in Local
        /\ Top.frame.type \in {"pong", "answer"} => Top.frame.x \in Nat
    BY <1>1 DEF Stored
  <1>3. CASE Top.frame.type = "arp" /\ HandleArp(Top.frame.x)
    BY <1>1, <1>2, <1>3, HandleArpInv
  <1>4. CASE Top.frame.type = "echo" /\ HandleEcho(Top.frame.x)
    BY <1>1, <1>2, <1>4, HandleEchoInv
  <1>5. CASE Top.frame.type = "pong" /\ HandlePong(Top.frame.x)
    BY <1>1, <1>2, <1>5, HandleAnswerInv
  <1>6. CASE Top.frame.type = "answer" /\ HandleAnswer(Top.frame.x)
    BY <1>1, <1>2, <1>6, HandleAnswerInv
  <1> QED
    BY <1>3, <1>4, <1>5, <1>6 DEF RxHandle

----------------------------------------------------------------------------
(* Commands and the card *)

\* A command begins when no other is under way.
LEMMA StartInv ==
    ASSUME NInv, NEW op \in {"ping", "query"}, NEW hop \in Local, Start(op, hop)
    PROVE  /\ NetTypeOK' /\ StackOK' /\ ResolvesOK' /\ AckOK' /\ Noticed'
           /\ waiting = None /\ active = None
           /\ calls' # <<>> /\ calls'[1].op = op /\ calls'[1].id = id + 1
  <1> DEFINE c == Command(op, id + 1)
             stack == <<c>>
  <1>0. /\ NetTypeOK /\ Noticed /\ CommandOK /\ calls = <<>> /\ id \in Nat
        /\ id' = id + 1 /\ Send(stack, hop) /\ UNCHANGED <<cache, card>>
    BY DEF NInv, NetTypeOK, Start
  <1>1. c \in Calls /\ c.op = op /\ c.at = "send" /\ c.id = id + 1
    BY <1>0 DEF Command, Commands, Calls
  <1> HIDE DEF c
  <1>2. stack \in Seq(Calls) /\ stack # <<>> /\ Len(stack) = 1 /\ stack[1] = c
    BY <1>1
  <1> HIDE DEF stack
  <1>3. Sends(stack)
    BY <1>1, <1>2 DEF Sends
  <1>4. /\ calls' \in Seq(Calls) /\ calls' # <<>> /\ StackOK' /\ ResolvesOK'
        /\ pending' \in Local \cup {None}
        /\ calls'[1].op = stack[1].op /\ calls'[1].id = stack[1].id
        /\ ~In("rx", "ack")'
    BY <1>0, <1>3, SendInv
  <1>5. NetTypeOK'
    BY <1>0, <1>4 DEF NetTypeOK, card
  <1>6. AckOK'
    BY <1>4 DEF Stuck, AckOK
  <1>7. Noticed'
    <2>1. Len(calls) = 0
      BY <1>0, EmptySeq DEF NetTypeOK
    <2>2. ring # <<>> /\ isr = {} => window \/ Stuck
      BY <1>0, <2>1 DEF Stuck, Noticed
    <2> QED
      BY <1>0, <2>2 DEF Stuck, Noticed, card
  <1> QED
    BY <1>0, <1>1, <1>2, <1>4, <1>5, <1>6, <1>7 DEF CommandOK

LEMMA UserInv ==
    ASSUME NInv, User
    PROVE  NInv'
  <1>0. id \in Nat
    BY DEF NInv, NetTypeOK
  <1>1. CASE StartQuery
    <2>1. Start("query", NextHop(Dns)) /\ active' = id + 1 /\ done' = None /\ UNCHANGED ping
      BY <1>1 DEF StartQuery
    <2>2. /\ NetTypeOK' /\ StackOK' /\ ResolvesOK' /\ AckOK' /\ Noticed'
          /\ waiting = None
          /\ calls' # <<>> /\ calls'[1].op = "query" /\ calls'[1].id = id + 1
      BY <2>1, NextHopLocal, StartInv
    <2>3. CommandOK'
      BY <2>1, <2>2 DEF CommandOK, ping
    <2> QED
      BY <2>2, <2>3 DEF NInv
  <1>2. ASSUME NEW dst \in Hosts, StartPing(dst)
        PROVE  NInv'
    <2>1. /\ Start("ping", NextHop(dst)) /\ waiting' = id + 1 /\ reply_recv' = None
          /\ UNCHANGED query
      BY <1>2 DEF StartPing
    <2>2. /\ NetTypeOK' /\ StackOK' /\ ResolvesOK' /\ AckOK' /\ Noticed'
          /\ active = None
          /\ calls' # <<>> /\ calls'[1].op = "ping" /\ calls'[1].id = id + 1
      BY <2>1, NextHopLocal, StartInv
    <2>3. CommandOK'
      BY <2>1, <2>2 DEF CommandOK, query
    <2> QED
      BY <2>2, <2>3 DEF NInv
  <1> QED
    BY <1>1, <1>2 DEF User

\* A command that is the innermost call is the only one, so no poll is under way.
LEMMA EndInv ==
    ASSUME NInv, PingEnds \/ QueryEnds
    PROVE  NInv'
  <1>0. /\ NetTypeOK /\ StackOK /\ ResolvesOK /\ Noticed /\ CommandOK
        /\ calls # <<>> /\ Top.op \in {"ping", "query"} /\ calls \in Seq(Calls)
        /\ calls' = <<>> /\ UNCHANGED <<cache, resolution, card, id>>
    BY DEF NInv, NetTypeOK, PingEnds, QueryEnds, In
  <1>1. Len(calls) \in 1 .. Len(calls) /\ Top = calls[Len(calls)]
    BY <1>0, EmptySeq DEF Top, Last
  <1>2. Len(calls) = 1 /\ calls[1].op \in {"ping", "query"} /\ Top = calls[1]
    <2>1. Len(calls) = 1
      BY <1>0, <1>1 DEF StackOK
    <2> QED
      BY <1>0, <1>1, <2>1
  <1>3. Len(calls') = 0 /\ calls' \in Seq(Calls)
    BY <1>0
  <1>4. NetTypeOK'
    BY <1>0, <1>3 DEF NetTypeOK, resolution, card
  <1>5. StackOK' /\ AckOK'
    BY <1>0, <1>3 DEF StackOK, AckOK, In
  <1>6. ResolvesOK'
    BY <1>0, <1>3 DEF ResolvesOK, resolution
  <1>7. Noticed'
    <2>1. ring # <<>> /\ isr = {} => window \/ Stuck
      BY <1>0, <1>2 DEF Stuck, Noticed
    <2> QED
      BY <1>0, <2>1 DEF Stuck, Noticed, card
  <1>8. CommandOK'
    <2>1. CASE PingEnds
      <3>1. calls[1].op = "ping" /\ waiting' = None /\ active' = active
        BY <1>2, <2>1 DEF PingEnds, In, query
      <3> QED
        BY <1>0, <3>1 DEF CommandOK
    <2>2. CASE QueryEnds
      <3>1. calls[1].op = "query" /\ active' = None /\ waiting' = waiting
        BY <1>2, <2>2 DEF QueryEnds, In, ping
      <3> QED
        BY <1>0, <3>1 DEF CommandOK
    <2> QED
      BY <2>1, <2>2
  <1> QED
    BY <1>4, <1>5, <1>6, <1>7, <1>8 DEF NInv

\* Whatever the card stores, and wherever: a status bit is set.
LEMMA ArriveInv ==
    ASSUME NInv, NEW f \in Frames, Arrive(f)
    PROVE  NInv'
  <1>0. /\ NetTypeOK /\ StackOK /\ ResolvesOK /\ AckOK /\ CommandOK
        /\ calls \in Seq(Calls) /\ ring \in Seq(Stored)
        /\ window' = ((ring # <<>> /\ window) \/ In("rx", "ack"))
        /\ UNCHANGED <<cache, resolution, ping, query, id>>
    BY DEF NInv, NetTypeOK, Arrive
  <1>1. f \in Stored
    <2>1. ASSUME NEW long \in BOOLEAN, NEW g \in FramesOf(long)
          PROVE  g \in Stored
      BY <1>0, NextHopLocal DEF FramesOf, Frame, Stored, NetTypeOK
    <2> QED
      BY <2>1 DEF Frames
  <1>2. isr' \subseteq Bits /\ isr' # {}
    BY <1>0 DEF Arrive, Bits, NetTypeOK
  <1>3. ring' \in Seq(Stored)
    <2>1. Append(ring, f) \in Seq(Stored)
      BY <1>0, <1>1, AppendFacts
    <2> QED
      BY <1>0, <2>1 DEF Arrive
  <1>4. Noticed'
    BY <1>2 DEF Stuck, Noticed
  <1>5. CASE calls' = calls
    <2>1. NetTypeOK'
      BY <1>0, <1>2, <1>3, <1>5 DEF NetTypeOK, resolution
    <2>2. StackOK' /\ ResolvesOK' /\ CommandOK'
      BY <1>0, <1>5 DEF StackOK, ResolvesOK, CommandOK, resolution, ping, query
    <2>3. AckOK'
      BY <1>0, <1>5 DEF Stuck, AckOK, In, Top
    <2> QED
      BY <1>4, <2>1, <2>2, <2>3 DEF NInv
  <1>6. CASE In("rx", "copy") /\ calls' = OnTop([Top EXCEPT !.frame = f])
    <2> DEFINE c == [Top EXCEPT !.frame = f]
    <2>1. Top \in Receives /\ calls # <<>> /\ Top.op = "rx" /\ Top.at = "copy"
      BY <1>6, HandlingFacts DEF In
    <2>2. c \in Receives /\ c.at = "copy" /\ c.frame = f
      BY <1>1, <2>1 DEF Receives
    <2>3. calls' = OnTop(c)
      BY <1>6
    <2> HIDE DEF c
    <2>4. calls' \in Seq(Calls) /\ StackOK' /\ Top' = c
      BY <1>0, <1>1, <2>1, <2>2, <2>3, RxTopFacts
    <2>5. ResolvesOK' /\ CommandOK'
      BY <1>0, <1>1, <2>1, <2>2, <2>3, RxTopInv DEF resolution
    <2>6. NetTypeOK'
      BY <1>0, <1>2, <1>3, <2>4 DEF NetTypeOK, resolution
    <2>7. AckOK'
      BY <2>2, <2>4 DEF Stuck, AckOK, In
    <2> QED
      BY <1>4, <2>4, <2>5, <2>6, <2>7 DEF NInv
  <1> QED
    BY <1>5, <1>6 DEF Arrive

----------------------------------------------------------------------------
(* The theorems *)

LEMMA NNextInv ==
    ASSUME NInv, [NNext]_nvars
    PROVE  NInv'
  <1>1. CASE Step
    BY <1>1, ArpReturnInv, EndInv, PollInv, RxTestInv, RxAckInv, RxHandleInv DEF Step
  <1>2. CASE Card
    BY <1>2, ArriveInv DEF Card
  <1>3. CASE User
    BY <1>3, UserInv
  <1>4. CASE UNCHANGED nvars
    BY <1>4 DEF nvars, resolution, ping, query, card, NInv, NetTypeOK, StackOK, ResolvesOK,
       AckOK, Stuck, Noticed, CommandOK, In, Top
  <1> QED
    BY <1>1, <1>2, <1>3, <1>4 DEF NNext

\* The stack of calls is what arp_resolve, ping, the query and rtl8139_rx can build of
\* it, and what the handlers store belongs to the calls that wait.
THEOREM NInvariance == NSpec => []NInv
  <1>1. NInv /\ [NNext]_nvars => NInv'
    BY NNextInv
  <1> QED
    BY NInitInv, <1>1, PTL DEF NSpec

\* The address that arp_resolve waits for is never in the cache, and a resolution in
\* which no other was entered ends on the MAC of the address it asked for.
THEOREM HopRight == NSpec => []RightHop
  <1>1. NInv => RightHop
    <2> SUFFICES ASSUME NInv, In("arp", "wait"), pending = None, ~Top.crossed
                 PROVE  pending_mac = Top.ip
      BY DEF NInv, ResolvesOK, RightHop
    <2>1. /\ Len(calls) \in 1 .. Len(calls) /\ Top = calls[Len(calls)]
          /\ Top.op = "arp" /\ Top \in Calls
      BY EmptySeq, FrontFacts DEF NInv, NetTypeOK, In, Top, Last
    <2>2. Top.ip # None
      BY <2>1, CallKinds, NetAssumption DEF Resolves, None
    <2>3. pending = Top.ip \/ pending_mac = Top.ip
      BY <2>1 DEF NInv, ResolvesOK
    <2> QED
      BY <2>2, <2>3
  <1> QED
    BY NInvariance, <1>1, PTL

\* A stored frame is announced by a status bit or looked for by a poll that goes on,
\* unless it came in the window of rtl8139_poll or a frame that rtl8139_rx does not
\* take is at the head of the ring.
THEOREM FramesNoticed == NSpec => []Noticed
  <1>1. NInv => Noticed
    BY DEF NInv
  <1> QED
    BY NInvariance, <1>1, PTL

\* Commands end on their own answers, however late the others come.
THEOREM OwnAnswers == NSpec => []AnswersOwn
  <1>1. NInv => AnswersOwn
    <2> SUFFICES ASSUME NInv
                 PROVE  AnswersOwn
      OBVIOUS
    <2>1. calls \in Seq(Calls) /\ CommandOK
      BY DEF NInv, NetTypeOK
    <2>2. calls # <<>> => Head(calls) = calls[1]
      BY <2>1
    <2> QED
      BY <2>1, <2>2 DEF CommandOK, AnswersOwn
  <1> QED
    BY NInvariance, <1>1, PTL
=============================================================================
