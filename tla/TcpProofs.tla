----------------------------- MODULE TcpProofs -----------------------------
(***************************************************************************)
(* Proofs about Tcp, for all buffer sizes, request lengths and segments.   *)
(***************************************************************************)
EXTENDS Tcp, TLAPS

(***************************************************************************)
(* The inductive invariant.                                                *)
(***************************************************************************)
\* Where http_get is, and what it has by then.
Bounds ==
    /\ pc \in {"syn", "connecting", "send"} => rpos = 0
    /\ pc = "recv" => rpos < RespSize
    /\ pc \in {"send", "recv", "close"} => established
    /\ pc # "idle" => k > 0

\* tcp_handle is under way only inside a poll of an http_get.
NestInv == (depth > 0 => polling) /\ (polling => pc # "idle")

\* Segments of this connection are the peer's.
NetInv ==
    \A s \in net :
        /\ s.conn <= k
        /\ s.conn = k /\ s.conn > 0 =>
              IF s.syn THEN s.seq = 0
              ELSE s.seq + s.len <= psent + 1 /\ (s.fin => pfin /\ s.seq + s.len = psent + 1)

\* The connection is or is about to be established, or closed.
Open   == established \/ Awaited("established")
Ending == closed \/ Awaited("closed")

\* Nothing is in the buffers before the peer's SYN is taken.
Fresh == ~Open /\ disorder = 0 => inlen = 0 /\ rpos = 0 /\ (pc # "idle" => ~Ending)

\* EndHonest, also before the closing call of tcp_handle has gone on.
End == pc # "idle" /\ Ending /\ disorder = 0 /\ ~cut => pfin /\ my_ack = psent + 1

Rest == Bounds /\ NestInv /\ NetInv /\ NoDangling /\ Fresh /\ StreamIntact /\ End
TInv == TTypeOK /\ Rest

(***************************************************************************)
(* What calls of tcp_handle that are under way will do.                    *)
(***************************************************************************)
USE DEF link, stream, reader, nest, peer, marks

\* Without a call of tcp_handle nothing is awaited.
LEMMA AwaitedNone ==
    ASSUME depth = 0
    PROVE  \A x : ~Awaited(x)
  BY DEF Awaited

\* A step of the client or of the peer leaves the calls as they are.
LEMMA AwaitedSame ==
    ASSUME UNCHANGED <<depth, rest>>
    PROVE  \A x : Awaited(x)' <=> Awaited(x)
  BY DEF Awaited

\* tcp_send_seg of an acknowledgement adds one call.
LEMMA AwaitedMore ==
    ASSUME TTypeOK, depth < MaxNest, NEW kind \in Kinds, Acknowledge(kind)
    PROVE  /\ depth' \in 0 .. MaxNest /\ depth' > 0 /\ rest' \in [1 .. MaxNest -> Kinds]
           /\ \A x : Awaited(x)' <=> Awaited(x) \/ x = kind
<1>1. depth \in 0 .. MaxNest /\ rest \in [1 .. MaxNest -> Kinds] /\ MaxNest \in Nat
  BY TcpAssumption DEF TTypeOK
<1>2. depth' = depth + 1 /\ rest' = [rest EXCEPT ![depth + 1] = kind]
  BY DEF Acknowledge
<1>3. \A i \in 1 .. depth : rest'[i] = rest[i]
  BY <1>1, <1>2
<1>4. rest'[depth'] = kind /\ 1 .. depth' = (1 .. depth) \cup {depth'}
  BY <1>1, <1>2
<1> QED
  BY <1>1, <1>2, <1>3, <1>4 DEF Awaited

\* The innermost call of tcp_handle returns and the others stay.
LEMMA AwaitedLess ==
    ASSUME TTypeOK, HandleRest
    PROVE  /\ depth' \in 0 .. MaxNest /\ depth > 0 /\ rest' \in [1 .. MaxNest -> Kinds]
           /\ \A x : Awaited(x) <=> Awaited(x)' \/ x = rest[depth]
<1>1. depth \in 1 .. MaxNest /\ rest \in [1 .. MaxNest -> Kinds] /\ MaxNest \in Nat
  BY TcpAssumption DEF TTypeOK, HandleRest
<1>2. depth' = depth - 1 /\ rest' = [rest EXCEPT ![depth] = "nothing"]
  BY DEF HandleRest
<1>3. \A i \in 1 .. depth' : rest'[i] = rest[i]
  BY <1>1, <1>2
<1>4. 1 .. depth = (1 .. depth') \cup {depth}
  BY <1>1, <1>2
<1>5. "nothing" \in Kinds
  BY DEF Kinds
<1> QED
  BY <1>1, <1>2, <1>3, <1>4, <1>5 DEF Awaited

(***************************************************************************)
(* Every action preserves the invariant.                                   *)
(***************************************************************************)
\* tcp_connect clears the connection: nothing of the last one is left in it.
LEMMA ConnectStep ==
    ASSUME TInv, NEW p \in Ports, Connect(p)
    PROVE  TInv'
<1>0. \A x : ~Awaited(x) /\ ~Awaited(x)'
  <2>1. depth = 0 /\ depth' = 0
    BY TcpAssumption DEF TInv, Rest, NestInv, TTypeOK, Connect, At
  <2> QED
    BY <2>1, AwaitedNone DEF Awaited
<1>1. TTypeOK'
  <2>1. /\ pc' \in Places /\ my_seq' \in Nat /\ my_ack' \in Nat /\ port' \in Ports
        /\ cur' \in BOOLEAN /\ active' \in BOOLEAN /\ established' \in BOOLEAN /\ closed' \in BOOLEAN
        /\ polling' \in BOOLEAN /\ late' \in BOOLEAN /\ pfin' \in BOOLEAN /\ cut' \in BOOLEAN
    BY DEF Connect, Places
  <2>2. inbuf' \in [Cells -> Nat] /\ resp' \in [0 .. RespSize - 1 -> Nat]
    BY DEF Connect
  <2>3. /\ inlen' \in 0 .. BufSize /\ rpos' \in 0 .. RespSize /\ k' \in 0 .. MaxConn
        /\ psent' \in 0 .. Total /\ disorder' \in 0 .. MaxAmiss
    BY TcpAssumption DEF TInv, TTypeOK, Connect
  <2> QED
    BY <2>1, <2>2, <2>3 DEF TInv, TTypeOK, Connect, Cells
<1>2. Bounds'
  BY TcpAssumption, <1>0 DEF TInv, Rest, Connect, Bounds, TTypeOK
<1>3. NestInv'
  BY TcpAssumption, <1>0 DEF TInv, Rest, Connect, NestInv, TTypeOK
<1>4. NetInv'
  BY TcpAssumption, <1>0 DEF TInv, Rest, Connect, NetInv, TTypeOK, Segments
<1>5. NoDangling'
  BY TcpAssumption, <1>0 DEF TInv, Rest, Connect, NoDangling
<1>6. Fresh'
  BY TcpAssumption, <1>0 DEF TInv, Rest, Connect, Fresh, Open, Ending, Bounds, TTypeOK
<1>7. StreamIntact'
  BY TcpAssumption, <1>0 DEF TInv, Rest, Connect, StreamIntact, Fresh, Open, Bounds, TTypeOK, Cells
<1>8. End'
  BY TcpAssumption, <1>0 DEF TInv, Rest, Connect, End, Fresh, Open, Ending, Bounds, TTypeOK
<1> QED
  BY <1>1, <1>2, <1>3, <1>4, <1>5, <1>6, <1>7, <1>8 DEF TInv, Rest

\* tcp_connect's SYN, sent or failed.
LEMMA SendSynStep ==
    ASSUME TInv, SendSyn
    PROVE  TInv'
<1>0. \A x : ~Awaited(x) /\ ~Awaited(x)'
  <2>1. depth = 0 /\ depth' = 0
    BY TcpAssumption DEF TInv, Rest, NestInv, TTypeOK, SendSyn, At
  <2> QED
    BY <2>1, AwaitedNone DEF Awaited
<1>1. TTypeOK'
  <2>1. my_seq' \in Nat /\ pc' \in Places
    BY TcpAssumption DEF TInv, TTypeOK, SendSyn, Places
  <2>2. cur' \in BOOLEAN /\ active' \in BOOLEAN /\ polling' \in BOOLEAN
    BY DEF TInv, TTypeOK, SendSyn, HangUp
  <2> QED
    BY <2>1, <2>2 DEF TInv, TTypeOK, SendSyn, Cells
<1>2. Bounds'
  BY TcpAssumption, <1>0 DEF TInv, Rest, SendSyn, At, HangUp, Bounds, TTypeOK
<1>3. NestInv'
  BY TcpAssumption, <1>0 DEF TInv, Rest, SendSyn, At, HangUp, NestInv, TTypeOK
<1>4. NetInv'
  BY TcpAssumption, <1>0 DEF TInv, Rest, SendSyn, At, HangUp, NetInv, TTypeOK, Segments
<1>5. NoDangling'
  BY TcpAssumption, <1>0 DEF TInv, Rest, SendSyn, At, HangUp, NoDangling
<1>6. Fresh'
  BY TcpAssumption, <1>0 DEF TInv, Rest, SendSyn, At, HangUp, Fresh, Open, Ending, Bounds, TTypeOK
<1>7. StreamIntact'
  BY TcpAssumption, <1>0 DEF TInv, Rest, SendSyn, At, HangUp, StreamIntact, Fresh, Open, Bounds, TTypeOK, Cells
<1>8. End'
  BY TcpAssumption, <1>0 DEF TInv, Rest, SendSyn, At, HangUp, End, Fresh, Open, Ending, Bounds, TTypeOK
<1> QED
  BY <1>1, <1>2, <1>3, <1>4, <1>5, <1>6, <1>7, <1>8 DEF TInv, Rest

\* A loop begins to poll.
LEMMA BeginPollStep ==
    ASSUME TInv, BeginPoll
    PROVE  TInv'
<1>1. \A x : Awaited(x)' <=> Awaited(x)
  BY AwaitedSame DEF BeginPoll
<1> QED
  BY <1>1 DEF TInv, Rest, BeginPoll, TTypeOK, Places, Cells, Bounds, NestInv, NetInv,
     NoDangling, Fresh, Open, Ending, StreamIntact, End

\* A poll ends when no call of tcp_handle is under way.
LEMMA EndPollStep ==
    ASSUME TInv, EndPoll
    PROVE  TInv'
<1>0. \A x : Awaited(x)' <=> Awaited(x)
  BY AwaitedSame DEF EndPoll
<1>1. TTypeOK'
  BY TcpAssumption, <1>0 DEF TInv, Rest, EndPoll, At, TTypeOK, Places, Cells, Bounds, Segments
<1>2. Bounds'
  BY TcpAssumption, <1>0 DEF TInv, Rest, EndPoll, At, Bounds, TTypeOK
<1>3. NestInv'
  BY TcpAssumption, <1>0 DEF TInv, Rest, EndPoll, At, NestInv, TTypeOK
<1>4. NetInv'
  BY TcpAssumption, <1>0 DEF TInv, Rest, EndPoll, At, NetInv, TTypeOK, Segments
<1>5. NoDangling'
  BY TcpAssumption, <1>0 DEF TInv, Rest, EndPoll, At, NoDangling
<1>6. Fresh'
  BY TcpAssumption, <1>0 DEF TInv, Rest, EndPoll, At, Fresh, Open, Ending, Bounds, TTypeOK
<1>7. StreamIntact'
  BY TcpAssumption, <1>0 DEF TInv, Rest, EndPoll, At, StreamIntact, Fresh, Open, Bounds, TTypeOK, Cells
<1>8. End'
  BY TcpAssumption, <1>0 DEF TInv, Rest, EndPoll, At, End, Fresh, Open, Ending, Bounds, TTypeOK
<1> QED
  BY <1>1, <1>2, <1>3, <1>4, <1>5, <1>6, <1>7, <1>8 DEF TInv, Rest

\* tcp_connect returns 0 only for an established connection.
LEMMA ConnectedStep ==
    ASSUME TInv, Connected
    PROVE  TInv'
<1>1. \A x : Awaited(x)' <=> Awaited(x)
  BY AwaitedSame DEF Connected
<1> QED
  BY <1>1 DEF TInv, Rest, Connected, TTypeOK, Places, Cells, Bounds, NestInv, NetInv,
     NoDangling, Fresh, Open, Ending, StreamIntact, End

\* tcp_connect gives up and takes the connection out of current_conn.
LEMMA NotConnectedStep ==
    ASSUME TInv, NotConnected
    PROVE  TInv'
<1>1. \A x : Awaited(x)' <=> Awaited(x)
  BY AwaitedSame DEF NotConnected
<1> QED
  BY <1>1 DEF TInv, Rest, NotConnected, HangUp, TTypeOK, Places, Cells, Bounds, NestInv, NetInv,
     NoDangling, Fresh, Open, Ending, StreamIntact, End

\* tcp_send's segment, sent or failed.
LEMMA SendRequestStep ==
    ASSUME TInv, SendRequest
    PROVE  TInv'
<1>0. \A x : ~Awaited(x) /\ ~Awaited(x)'
  <2>1. depth = 0 /\ depth' = 0
    BY TcpAssumption DEF TInv, Rest, NestInv, TTypeOK, SendRequest, At
  <2> QED
    BY <2>1, AwaitedNone DEF Awaited
<1>1. TTypeOK'
  <2>1. my_seq' \in Nat /\ pc' \in Places
    BY TcpAssumption DEF TInv, TTypeOK, SendRequest, Places
  <2>2. cur' \in BOOLEAN /\ active' \in BOOLEAN /\ polling' \in BOOLEAN
    BY DEF TInv, TTypeOK, SendRequest
  <2> QED
    BY <2>1, <2>2 DEF TInv, TTypeOK, SendRequest, Cells
<1>2. Bounds'
  BY TcpAssumption, <1>0 DEF TInv, Rest, SendRequest, At, Bounds, TTypeOK
<1>3. NestInv'
  BY TcpAssumption, <1>0 DEF TInv, Rest, SendRequest, At, NestInv, TTypeOK
<1>4. NetInv'
  BY TcpAssumption, <1>0 DEF TInv, Rest, SendRequest, At, NetInv, TTypeOK, Segments
<1>5. NoDangling'
  BY TcpAssumption, <1>0 DEF TInv, Rest, SendRequest, At, NoDangling
<1>6. Fresh'
  BY TcpAssumption, <1>0 DEF TInv, Rest, SendRequest, At, Fresh, Open, Ending, Bounds, TTypeOK
<1>7. StreamIntact'
  BY TcpAssumption, <1>0 DEF TInv, Rest, SendRequest, At, StreamIntact, Fresh, Open, Bounds, TTypeOK, Cells
<1>8. End'
  BY TcpAssumption, <1>0 DEF TInv, Rest, SendRequest, At, End, Fresh, Open, Ending, Bounds, TTypeOK
<1> QED
  BY <1>1, <1>2, <1>3, <1>4, <1>5, <1>6, <1>7, <1>8 DEF TInv, Rest

\* tcp_recv continues the response with what it takes out of inbuf.
LEMMA RecvStep ==
    ASSUME TInv, Recv
    PROVE  TInv'
<1>0. \A x : ~Awaited(x) /\ ~Awaited(x)'
  <2>1. depth = 0 /\ depth' = 0
    BY TcpAssumption DEF TInv, Rest, NestInv, TTypeOK, Recv, At
  <2> QED
    BY <2>1, AwaitedNone DEF Awaited
<1>a. PICK m \in Nat : m = Taken
  <2>1. inlen \in Nat /\ rpos \in Nat /\ rpos < RespSize /\ RespSize \in Nat
    BY TcpAssumption DEF TInv, Rest, Bounds, TTypeOK, Recv
  <2>2. Taken \in Nat
    BY <2>1 DEF Taken, Least
  <2> QED
    BY <2>2
<1>b. m <= inlen /\ rpos + m <= RespSize /\ rpos \in Nat /\ inlen \in 0 .. BufSize
  BY <1>a, TcpAssumption DEF TInv, Rest, Bounds, TTypeOK, Recv, Taken, Least
<1>c. /\ inlen' = inlen - m /\ rpos' = rpos + m
      /\ inbuf' = [c \in Cells |-> IF c < inlen - m THEN inbuf[c + m] ELSE inbuf[c]]
      /\ resp' = [c \in 0 .. RespSize - 1 |->
                    IF c \in rpos .. rpos + m - 1 THEN inbuf[c - rpos] ELSE resp[c]]
  BY <1>a DEF Recv, Moved
<1>d. polling' \in BOOLEAN /\ pc' \in Places
  <2>1. polling' \in BOOLEAN
    BY Zenon DEF Recv
  <2>2. pc' \in {"recv", "close"}
    BY DEF Recv
  <2> QED
    BY <2>1, <2>2 DEF Places
<1>1. TTypeOK'
  <2>1. inlen' \in 0 .. BufSize /\ rpos' \in 0 .. RespSize
    BY <1>b, <1>c, TcpAssumption
  <2>2. inbuf' \in [Cells -> Nat]
    BY <1>b, <1>c, TcpAssumption DEF TInv, TTypeOK, Cells
  <2>3. resp' \in [0 .. RespSize - 1 -> Nat]
    BY <1>b, <1>c, TcpAssumption DEF TInv, TTypeOK, Cells
  <2> QED
    BY <1>d, <2>1, <2>2, <2>3 DEF TInv, TTypeOK, Recv, Cells
<1>2. Bounds'
  BY TcpAssumption, <1>0 DEF TInv, Rest, Recv, Taken, Least, Moved, Bounds, TTypeOK
<1>3. NestInv'
  BY TcpAssumption, <1>0 DEF TInv, Rest, Recv, Taken, Least, Moved, NestInv, TTypeOK
<1>4. NetInv'
  BY TcpAssumption, <1>0 DEF TInv, Rest, Recv, Taken, Least, Moved, NetInv, TTypeOK, Segments
<1>5. NoDangling'
  BY TcpAssumption, <1>0 DEF TInv, Rest, Recv, Taken, Least, Moved, NoDangling
<1>6. Fresh'
  BY TcpAssumption, <1>0 DEF TInv, Rest, Recv, Taken, Least, Moved, Fresh, Open, Ending, Bounds, TTypeOK
<1>7. StreamIntact'
  <2> SUFFICES ASSUME established, disorder = 0
               PROVE  /\ my_ack' = rpos' + inlen' + 1
                      /\ \A c \in 0 .. rpos' - 1 : resp'[c] = c + 1
                      /\ \A c \in 0 .. inlen' - 1 : inbuf'[c] = rpos' + c + 1
    BY <1>0 DEF StreamIntact, Recv
  <2>1. /\ my_ack = rpos + inlen + 1
        /\ \A c \in 0 .. rpos - 1 : resp[c] = c + 1
        /\ \A c \in 0 .. inlen - 1 : inbuf[c] = rpos + c + 1
    BY DEF TInv, Rest, StreamIntact
  <2>2. my_ack' = my_ack
    BY DEF Recv
  <2>3. \A c \in 0 .. rpos' - 1 : resp'[c] = c + 1
    BY <1>b, <1>c, <2>1, TcpAssumption
  <2>4. \A c \in 0 .. inlen' - 1 : inbuf'[c] = rpos' + c + 1
    BY <1>b, <1>c, <2>1, TcpAssumption DEF Cells
  <2> QED
    BY <1>b, <1>c, <2>1, <2>2, <2>3, <2>4
<1>8. End'
  BY TcpAssumption, <1>0 DEF TInv, Rest, Recv, Taken, Least, Moved, End, Fresh, Open, Ending, Bounds, TTypeOK
<1> QED
  BY <1>1, <1>2, <1>3, <1>4, <1>5, <1>6, <1>7, <1>8 DEF TInv, Rest

\* tcp_recv returns without data.
LEMMA RecvEndStep ==
    ASSUME TInv, RecvEnd
    PROVE  TInv'
<1>1. \A x : Awaited(x)' <=> Awaited(x)
  BY AwaitedSame DEF RecvEnd
<1> QED
  BY <1>1 DEF TInv, Rest, RecvEnd, TTypeOK, Places, Cells, Bounds, NestInv, NetInv,
     NoDangling, Fresh, Open, Ending, StreamIntact, End

\* tcp_close takes the connection out of current_conn before http_get returns.
LEMMA CloseStep ==
    ASSUME TInv, Close
    PROVE  TInv'
<1>0. \A x : ~Awaited(x) /\ ~Awaited(x)'
  <2>1. depth = 0 /\ depth' = 0
    BY TcpAssumption DEF TInv, Rest, NestInv, TTypeOK, Close, At
  <2> QED
    BY <2>1, AwaitedNone DEF Awaited
<1>1. TTypeOK'
  BY TcpAssumption, <1>0 DEF TInv, Rest, Close, At, HangUp, TTypeOK, Places, Cells, Bounds, Segments
<1>2. Bounds'
  BY TcpAssumption, <1>0 DEF TInv, Rest, Close, At, HangUp, Bounds, TTypeOK
<1>3. NestInv'
  BY TcpAssumption, <1>0 DEF TInv, Rest, Close, At, HangUp, NestInv, TTypeOK
<1>4. NetInv'
  BY TcpAssumption, <1>0 DEF TInv, Rest, Close, At, HangUp, NetInv, TTypeOK, Segments
<1>5. NoDangling'
  BY TcpAssumption, <1>0 DEF TInv, Rest, Close, At, HangUp, NoDangling
<1>6. Fresh'
  BY TcpAssumption, <1>0 DEF TInv, Rest, Close, At, HangUp, Fresh, Open, Ending, Bounds, TTypeOK
<1>7. StreamIntact'
  BY TcpAssumption, <1>0 DEF TInv, Rest, Close, At, HangUp, StreamIntact, Fresh, Open, Bounds, TTypeOK, Cells
<1>8. End'
  BY TcpAssumption, <1>0 DEF TInv, Rest, Close, At, HangUp, End, Fresh, Open, Ending, Bounds, TTypeOK
<1> QED
  BY <1>1, <1>2, <1>3, <1>4, <1>5, <1>6, <1>7, <1>8 DEF TInv, Rest

\* timer_ticks reaches the end of a wait.
LEMMA TickStep ==
    ASSUME TInv, Tick
    PROVE  TInv'
<1>1. \A x : Awaited(x)' <=> Awaited(x)
  BY AwaitedSame DEF Tick
<1> QED
  BY <1>1 DEF TInv, Rest, Tick, TTypeOK, Places, Cells, Bounds, NestInv, NetInv,
     NoDangling, Fresh, Open, Ending, StreamIntact, End

\* A step that changes nothing.
LEMMA StutterStep ==
    ASSUME TInv, UNCHANGED tvars
    PROVE  TInv'
<1>1. \A x : Awaited(x)' <=> Awaited(x)
  BY AwaitedSame DEF tvars
<1> QED
  BY <1>1 DEF TInv, Rest, tvars, TTypeOK, Places, Cells, Bounds, NestInv, NetInv,
     NoDangling, Fresh, Open, Ending, StreamIntact, End

\* What tcp_handle does with any segment that passes its tests.
LEMMA HandleFacts ==
    ASSUME TInv, NEW s \in net, Handle(s)
    PROVE  /\ s.conn \in Nat /\ s.seq \in Nat /\ s.len \in Nat
           /\ s.syn \in BOOLEAN /\ s.fin \in BOOLEAN
           /\ \/ InOrder(s) /\ disorder' = disorder
              \/ disorder' \in 1 .. MaxAmiss
           /\ UNCHANGED <<pc, link, my_seq, reader, polling, late, k, peer>>
           /\ pc # "idle" /\ k > 0 /\ polling /\ depth < MaxNest
<1>1. s \in Segments
  BY DEF TInv, TTypeOK
<1>2. /\ s.conn \in Nat /\ s.seq \in Nat /\ s.len \in Nat
      /\ s.syn \in BOOLEAN /\ s.fin \in BOOLEAN
  BY <1>1, TcpAssumption DEF Segments
<1>3. \/ InOrder(s) /\ disorder' = disorder
      \/ disorder' \in 1 .. MaxAmiss
  BY TcpAssumption DEF Handle, TInv, TTypeOK
<1>4. UNCHANGED <<pc, link, my_seq, reader, polling, late, k, peer>> /\ polling /\ depth < MaxNest
  BY DEF Handle
<1>5. pc # "idle" /\ k > 0
  BY <1>4 DEF TInv, Rest, NestInv, Bounds
<1> QED
  BY <1>2, <1>3, <1>4, <1>5

\* tcp_handle on a SYN: in order, it begins the stream or changes nothing.
LEMMA TakeSynStep ==
    ASSUME TInv, NEW s \in net, Handle(s), s.syn
    PROVE  TInv'
<1>1. /\ my_ack' = s.seq + 1 /\ Acknowledge("established")
      /\ UNCHANGED <<established, closed, inbuf, inlen, cut>>
  BY DEF Handle, TakeSyn
<1>2. /\ depth' \in 0 .. MaxNest /\ rest' \in [1 .. MaxNest -> Kinds]
      /\ \A x : Awaited(x)' <=> Awaited(x) \/ x = "established"
  BY <1>1, HandleFacts, AwaitedMore DEF TInv, Kinds
<1>3. TTypeOK'
  <2>1. s.seq \in Nat /\ disorder' \in 0 .. MaxAmiss
    BY HandleFacts, TcpAssumption DEF TInv, TTypeOK
  <2>2. UNCHANGED <<pc, link, my_seq, reader, polling, late, k, peer>>
    BY HandleFacts
  <2> QED
    BY <1>1, <1>2, <2>1, <2>2 DEF TInv, TTypeOK, Cells
<1>4. Bounds' /\ NestInv' /\ NoDangling'
  BY <1>1, HandleFacts DEF TInv, Rest, Bounds, NestInv, NoDangling
<1>5. NetInv'
  BY HandleFacts DEF TInv, Rest, NetInv
<1>6. Open' /\ (Ending' <=> Ending)
  BY <1>1, <1>2 DEF Open, Ending
\* In order, the number is what the peer began with, or changes nothing.
<1>7. disorder' = 0 => /\ disorder = 0
                       /\ Open => my_ack' = my_ack
                       /\ ~Open => my_ack' = 1
  <2>1. disorder' = 0 => disorder = 0 /\ InOrder(s)
    BY HandleFacts DEF TInv, TTypeOK
  <2>2. s.conn = k => s.seq = 0
    BY HandleFacts DEF TInv, Rest, NetInv
  <2> QED
    BY <1>1, <2>1, <2>2 DEF InOrder, Open
<1>8. Fresh'
  BY <1>6 DEF Fresh
<1>9. StreamIntact'
  <2> SUFFICES ASSUME disorder' = 0
               PROVE  StreamIntact'
    BY DEF StreamIntact
  <2>1. UNCHANGED <<reader, inbuf, inlen>> /\ rpos \in Nat /\ inlen \in Nat
    BY <1>1, HandleFacts, TcpAssumption DEF TInv, TTypeOK
  <2>2. CASE Open
    BY <1>7, <2>1, <2>2 DEF TInv, Rest, StreamIntact, Open
  <2>3. CASE ~Open
    BY <1>7, <2>1, <2>3 DEF TInv, Rest, StreamIntact, Fresh
  <2> QED
    BY <2>2, <2>3
<1>10. End'
  BY <1>1, <1>6, <1>7, HandleFacts DEF TInv, Rest, End, Fresh
<1> QED
  BY <1>3, <1>4, <1>5, <1>8, <1>9, <1>10 DEF TInv, Rest

\* tcp_handle on data and FIN: in order, they continue the stream.
LEMMA TakeDataStep ==
    ASSUME TInv, NEW s \in net, Handle(s), ~s.syn
    PROVE  TInv'
<1>0. /\ s.seq \in Nat /\ s.len \in Nat /\ disorder' \in 0 .. MaxAmiss
      /\ UNCHANGED <<pc, link, my_seq, reader, polling, late, k, peer>>
  BY HandleFacts, TcpAssumption DEF TInv, TTypeOK
<1>1. TakeData(s)
  BY DEF Handle
<1>2. established' = established
  BY <1>1 DEF TakeData
<1>3. \/ /\ s.len > 0 /\ inlen + s.len <= BufSize
         /\ inlen' = inlen + s.len /\ my_ack' = my_ack + s.len
         /\ inbuf' = [c \in Cells |-> IF c \in inlen .. inlen + s.len - 1
                                        THEN s.seq + (c - inlen) ELSE inbuf[c]]
      \/ /\ ~(s.len > 0 /\ inlen + s.len <= BufSize)
         /\ UNCHANGED <<inbuf, inlen, my_ack>>
  BY <1>1 DEF TakeData, Fits
\* What is left to do, and what is done: FIN counts in both cases.
<1>4. /\ closed' \in BOOLEAN /\ depth' \in 0 .. MaxNest /\ rest' \in [1 .. MaxNest -> Kinds]
      /\ Awaited("established")' <=> Awaited("established")
      /\ Ending' <=> Ending \/ s.fin
  <2>1. CASE s.len > 0 /\ Fits(s)
    <3> DEFINE kind == IF Ends(s) THEN "closed" ELSE "nothing"
    <3>1. Acknowledge(kind) /\ closed' = closed
      BY <1>1, <2>1 DEF TakeData
    <3>2. kind \in Kinds /\ (kind = "closed" <=> s.fin) /\ kind # "established"
      BY HandleFacts DEF Kinds, Ends
    <3> HIDE DEF kind
    <3>3. /\ depth' \in 0 .. MaxNest /\ rest' \in [1 .. MaxNest -> Kinds]
          /\ \A x : Awaited(x)' <=> Awaited(x) \/ x = kind
      BY <3>1, <3>2, HandleFacts, AwaitedMore DEF TInv
    <3> QED
      BY <3>1, <3>2, <3>3 DEF Ending, TInv, TTypeOK
  <2>2. CASE ~(s.len > 0 /\ Fits(s))
    <3>1. closed' = (closed \/ s.fin) /\ UNCHANGED <<depth, rest>>
      BY <1>1, <2>2 DEF TakeData, Ends
    <3>2. \A x : Awaited(x)' <=> Awaited(x)
      BY <3>1, AwaitedSame
    <3>3. closed' \in BOOLEAN
      BY <3>1
    <3>4. closed' <=> closed \/ s.fin
      BY <3>1
    <3> QED
      BY <3>1, <3>2, <3>3, <3>4 DEF Ending, TInv, TTypeOK
  <2> QED
    BY <2>1, <2>2
<1>5. cut' \in BOOLEAN /\ (cut' <=> cut \/ (s.fin /\ ~(inlen + s.len <= BufSize)))
  BY <1>1, HandleFacts, Zenon DEF TakeData, Fits, TInv, TTypeOK
<1>6. /\ inlen \in 0 .. BufSize /\ inlen' \in 0 .. BufSize
      /\ my_ack \in Nat /\ my_ack' \in Nat
  <2>1. inlen \in 0 .. BufSize /\ my_ack \in Nat
    BY DEF TInv, TTypeOK
  <2> QED
    BY <1>0, <1>3, <2>1, TcpAssumption
<1>7. inbuf' \in [Cells -> Nat]
  <2>1. inbuf \in [Cells -> Nat]
    BY DEF TInv, TTypeOK
  <2>2. CASE inbuf' = inbuf
    BY <2>1, <2>2
  <2>3. CASE inbuf' = [c \in Cells |-> IF c \in inlen .. inlen + s.len - 1
                                         THEN s.seq + (c - inlen) ELSE inbuf[c]]
    <3>1. inlen \in Nat
      BY <1>6, TcpAssumption
    <3>2. \A c \in Cells : c \in inlen .. inlen + s.len - 1 => s.seq + (c - inlen) \in Nat
      BY <1>0, <3>1, TcpAssumption DEF Cells
    <3> QED
      BY <2>1, <2>3, <3>2
  <2> QED
    BY <1>3, <2>2, <2>3
<1>8. TTypeOK'
  BY <1>0, <1>2, <1>4, <1>5, <1>6, <1>7 DEF TInv, TTypeOK, Cells
<1>9. Bounds' /\ NestInv' /\ NoDangling'
  BY <1>2, HandleFacts DEF TInv, Rest, Bounds, NestInv, NoDangling
<1>10. NetInv'
  BY HandleFacts DEF TInv, Rest, NetInv
<1>11. Open' <=> Open
  BY <1>2, <1>4 DEF Open
<1>12. disorder' = 0 => disorder = 0 /\ s.conn = k /\ Open /\ my_ack = s.seq
  BY HandleFacts DEF InOrder, Open, TInv, TTypeOK
<1>13. Fresh'
  BY <1>11, <1>12 DEF Fresh
<1>14. StreamIntact'
  <2> SUFFICES ASSUME disorder' = 0
               PROVE  /\ my_ack' = rpos' + inlen' + 1
                      /\ \A c \in 0 .. rpos' - 1 : resp'[c] = c + 1
                      /\ \A c \in 0 .. inlen' - 1 : inbuf'[c] = rpos' + c + 1
    BY DEF StreamIntact
  <2>1. my_ack = s.seq /\ rpos \in Nat /\ inlen \in Nat /\ inlen' \in Nat
    BY <1>6, <1>12, TcpAssumption DEF TInv, TTypeOK
  <2>2. /\ my_ack = rpos + inlen + 1
        /\ \A c \in 0 .. rpos - 1 : resp[c] = c + 1
        /\ \A c \in 0 .. inlen - 1 : inbuf[c] = rpos + c + 1
    BY <1>12 DEF TInv, Rest, StreamIntact, Open
  <2>3. my_ack' = rpos + inlen' + 1
    <3>1. CASE my_ack' = my_ack /\ inlen' = inlen
      BY <2>2, <3>1
    <3>2. CASE my_ack' = my_ack + s.len /\ inlen' = inlen + s.len
      BY <1>0, <2>1, <2>2, <3>2
    <3> QED
      BY <1>3, <3>1, <3>2
  <2>4. PICK m \in 0 .. BufSize : m = inlen'
    BY <1>6
  <2>5. \A c \in 0 .. m - 1 : inbuf'[c] = rpos + c + 1
    <3>1. CASE inbuf' = inbuf /\ m = inlen
      BY <2>2, <3>1
    <3>2. CASE /\ m = inlen + s.len
               /\ inbuf' = [c \in Cells |-> IF c \in inlen .. inlen + s.len - 1
                                              THEN s.seq + (c - inlen) ELSE inbuf[c]]
      <4> SUFFICES ASSUME NEW c \in 0 .. m - 1
                   PROVE  inbuf'[c] = rpos + c + 1
        OBVIOUS
      <4>1. c \in Cells
        BY TcpAssumption DEF Cells
      <4>2. CASE c < inlen
        BY <2>1, <2>2, <3>2, <4>1, <4>2
      <4>3. CASE ~(c < inlen)
        <5>1. inbuf'[c] = s.seq + (c - inlen)
          BY <1>0, <2>1, <3>2, <4>1, <4>3
        <5>2. PICK q \in Nat : q = s.seq
          BY <1>0
        <5>3. q = rpos + inlen + 1
          BY <2>1, <2>2, <5>2
        <5> QED
          BY <2>1, <5>1, <5>2, <5>3
      <4> QED
        BY <4>2, <4>3
    <3> QED
      BY <1>3, <2>4, <3>1, <3>2
  <2> QED
    BY <1>0, <2>2, <2>3, <2>4, <2>5
<1>15. End'
  <2> SUFFICES ASSUME Ending', disorder' = 0, ~cut'
               PROVE  pfin /\ my_ack' = psent + 1
    BY HandleFacts DEF End
  <2>1. disorder = 0 /\ s.conn = k /\ my_ack = s.seq /\ ~cut /\ psent \in Nat
    BY <1>5, <1>12, HandleFacts DEF TInv, TTypeOK
  <2>2. s.seq + s.len <= psent + 1 /\ (s.fin => pfin /\ s.seq + s.len = psent + 1)
    BY <2>1, HandleFacts DEF TInv, Rest, NetInv
  <2>3. CASE s.fin
    <3>1. inlen + s.len <= BufSize
      BY <1>5, <2>3
    <3> QED
      BY <1>0, <1>3, <1>6, <2>1, <2>2, <2>3, <3>1
  <2>4. CASE ~s.fin
    <3>1. pfin /\ my_ack = psent + 1
      BY <1>4, <2>1, <2>4, HandleFacts DEF TInv, Rest, End
    <3> QED
      BY <1>0, <1>3, <1>6, <2>1, <2>2, <3>1
  <2> QED
    BY <2>3, <2>4
<1> QED
  BY <1>8, <1>9, <1>10, <1>13, <1>14, <1>15 DEF TInv, Rest

\* The rest of tcp_handle does what was awaited.
LEMMA HandleRestStep ==
    ASSUME TInv, HandleRest
    PROVE  TInv'
<1>0. /\ depth' \in 0 .. MaxNest /\ depth > 0 /\ rest' \in [1 .. MaxNest -> Kinds]
      /\ \A x : Awaited(x) <=> Awaited(x)' \/ x = rest[depth]
  BY AwaitedLess DEF TInv
<1>1. /\ closed' = (closed \/ rest[depth] = "closed")
      /\ established' = (established \/ rest[depth] = "established")
      /\ UNCHANGED <<pc, link, my_ack, inbuf, inlen, my_seq, reader, polling, late, k, peer, marks>>
  BY DEF HandleRest
<1>2. closed' \in BOOLEAN /\ established' \in BOOLEAN
  BY <1>1
<1>3. TTypeOK'
  BY <1>0, <1>1, <1>2 DEF TInv, TTypeOK, Cells
<1>4. (closed' <=> closed \/ rest[depth] = "closed")
      /\ (established' <=> established \/ rest[depth] = "established")
  BY <1>1
<1>5. (Open' <=> Open) /\ (Ending' <=> Ending)
  BY <1>0, <1>4 DEF Open, Ending
<1>6. Bounds' /\ NestInv' /\ NetInv' /\ NoDangling'
  BY <1>0, <1>1, <1>4 DEF TInv, Rest, Bounds, NestInv, NetInv, NoDangling
<1>7. Fresh' /\ End'
  BY <1>1, <1>5 DEF TInv, Rest, Fresh, End
<1>8. StreamIntact'
  BY <1>1, <1>5 DEF TInv, Rest, StreamIntact, Open
<1> QED
  BY <1>3, <1>6, <1>7, <1>8 DEF TInv, Rest

\* The peer's actions: the rest of the state stays as it is.
LEMMA PeerStep ==
    ASSUME TInv, Peer
    PROVE  TInv'
<1>0. \A x : Awaited(x)' <=> Awaited(x)
  BY AwaitedSame DEF Peer
<1>1. UNCHANGED <<pc, link, stream, my_seq, reader, nest, late, k, marks>> /\ pc # "idle"
  BY DEF Peer, PeerAccept, PeerSend
<1>2. /\ k \in 1 .. MaxConn /\ port \in Ports /\ psent \in 0 .. Total /\ net \subseteq Segments
      /\ pfin \in BOOLEAN
  BY <1>1, TcpAssumption DEF TInv, Rest, TTypeOK, Bounds
<1>3. Bounds' /\ NestInv' /\ NoDangling' /\ Fresh' /\ StreamIntact' /\ (Ending' <=> Ending)
  BY <1>0, <1>1 DEF TInv, Rest, Bounds, NestInv, NoDangling, Fresh, Open, Ending, StreamIntact
<1>4. CASE PeerAccept
  <2> DEFINE s == [conn |-> k, port |-> port, syn |-> TRUE, seq |-> 0, len |-> 0, fin |-> FALSE]
  <2>1. net' = net \cup {s} /\ UNCHANGED <<psent, pfin>>
    BY <1>4 DEF PeerAccept, Sent
  <2>2. s \in Segments
    BY <1>2, TcpAssumption DEF Segments
  <2>3. TTypeOK'
    BY <1>1, <1>2, <2>1, <2>2 DEF TInv, TTypeOK, Cells
  <2>4. NetInv'
    BY <1>1, <1>2, <2>1 DEF TInv, Rest, NetInv
  <2>5. End'
    BY <1>1, <1>3, <2>1 DEF TInv, Rest, End
  <2> QED
    BY <1>3, <2>3, <2>4, <2>5 DEF TInv, Rest
<1>5. CASE \E len \in 0 .. Mss, fin \in BOOLEAN : PeerSend(len, fin)
  <2>1. PICK len \in 0 .. Mss, fin \in BOOLEAN : PeerSend(len, fin)
    BY <1>5
  <2> DEFINE s == [conn |-> k, port |-> port, syn |-> FALSE, seq |-> psent + 1, len |-> len,
                   fin |-> fin]
  <2>2. /\ net' = net \cup {s} /\ psent' = psent + len /\ pfin' = fin
        /\ ~pfin /\ psent + len <= Total
    BY <2>1 DEF PeerSend, Sent
  <2>3. s \in Segments /\ psent' \in 0 .. Total
    BY <1>2, <2>2, TcpAssumption DEF Segments
  <2>4. TTypeOK'
    BY <1>1, <1>2, <2>2, <2>3 DEF TInv, TTypeOK, Cells
  <2>5. NetInv'
    <3>1. \A t \in net : t.seq \in Nat /\ t.len \in Nat
      BY <1>2, TcpAssumption DEF Segments
    <3> QED
      BY <1>1, <1>2, <2>2, <3>1, TcpAssumption DEF TInv, Rest, NetInv
  <2>6. End'
    BY <1>1, <1>3, <2>2 DEF TInv, Rest, End
  <2> QED
    BY <1>3, <2>4, <2>5, <2>6 DEF TInv, Rest
<1> QED
  BY <1>4, <1>5 DEF Peer

\* Before the first http_get there is no connection.
LEMMA InitStep ==
    ASSUME TInit
    PROVE  TInv
<1>1. Old \subseteq Segments /\ \A s \in Old : s.conn = 0
  BY OldAssumption, TcpAssumption DEF Segments
<1>2. TTypeOK
  <2>1. inbuf \in [Cells -> Nat] /\ resp \in [0 .. RespSize - 1 -> Nat]
    BY DEF TInit
  <2>2. /\ inlen \in 0 .. BufSize /\ rpos \in 0 .. RespSize /\ depth \in 0 .. MaxNest
        /\ k \in 0 .. MaxConn /\ psent \in 0 .. Total /\ disorder \in 0 .. MaxAmiss
    BY TcpAssumption DEF TInit
  <2>3. rest \in [1 .. MaxNest -> Kinds]
    BY DEF TInit, Kinds
  <2> QED
    BY <1>1, <2>1, <2>2, <2>3 DEF TInit, TTypeOK, Places
<1>3. NetInv
  BY <1>1 DEF TInit, NetInv
<1>4. \A x : ~Awaited(x)
  BY AwaitedNone DEF TInit
<1> QED
  BY <1>2, <1>3, <1>4 DEF TInit, TInv, Rest, Bounds, NestInv, NoDangling, Fresh, Open,
     StreamIntact, End

\* All actions together.
LEMMA NextStep ==
    ASSUME TInv, [TNext]_tvars
    PROVE  TInv'
<1>1. CASE \E p \in Ports : Connect(p)
  BY <1>1, ConnectStep
<1>2. CASE HttpStep
  BY <1>2, SendSynStep, ConnectedStep, NotConnectedStep, SendRequestStep, RecvStep,
     RecvEndStep, CloseStep, BeginPollStep, EndPollStep, HandleRestStep
  DEF HttpStep
<1>3. CASE \E s \in net : Handle(s)
  BY <1>3, TakeSynStep, TakeDataStep
<1>4. CASE Peer
  BY <1>4, PeerStep
<1>5. CASE Tick
  BY <1>5, TickStep
<1>6. CASE UNCHANGED tvars
  BY <1>6, StutterStep
<1> QED
  BY <1>1, <1>2, <1>3, <1>4, <1>5, <1>6 DEF TNext, Over

(***************************************************************************)
(* The theorems.                                                           *)
(***************************************************************************)
\* The invariant holds in every state of every behaviour.
THEOREM TInvariant == TSpec => []TInv
<1>1. TInit => TInv
  BY InitStep
<1>2. TInv /\ [TNext]_tvars => TInv'
  BY NextStep
<1> QED
  BY <1>1, <1>2, PTL DEF TSpec

\* c->inlen and rpos stay within their buffers whatever the network sends
\* (tcp_handle, tcp_recv).
THEOREM TcpTypeCorrect == TSpec => []TTypeOK
<1>1. TInv => TTypeOK
  BY DEF TInv
<1> QED
  BY <1>1, TInvariant, PTL

\* What is read is what was acknowledged, unless a segment came amiss, however
\* deep the calls of tcp_handle are inside each other (tcp_handle, tcp_recv).
THEOREM StreamKept == TSpec => []StreamIntact
<1>1. TInv => StreamIntact
  BY DEF TInv, Rest
<1> QED
  BY <1>1, TInvariant, PTL

\* The end of the stream is the peer's, but for disorder and a last segment that
\* does not fit (tcp_handle).
THEOREM EndKept == TSpec => []EndHonest
<1>1. TInv => EndHonest
  BY DEF TInv, Rest, End, Ending, EndHonest
<1> QED
  BY <1>1, TInvariant, PTL

\* current_conn is 0 whenever no http_get runs (tcp_connect, tcp_close).
THEOREM NeverDangling == TSpec => []NoDangling
<1>1. TInv => NoDangling
  BY DEF TInv, Rest
<1> QED
  BY <1>1, TInvariant, PTL
=============================================================================
