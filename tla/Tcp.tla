-------------------------------- MODULE Tcp --------------------------------
(***************************************************************************)
(* One HTTP exchange after another over the TCP client of                  *)
(* kernel/net/network.c (tcp_connect, tcp_send, tcp_recv, tcp_close and    *)
(* tcp_handle), with a peer and a network that loses, repeats and reorders *)
(* segments and keeps those of earlier connections.                        *)
(*                                                                         *)
(* The card's interrupt is masked (irq_remap), so tcp_handle runs only when *)
(* the client polls: in its two waits, and wherever ipv4_send waits for an *)
(* address, in the acknowledgement that tcp_handle itself sends too.  Then *)
(* tcp_handle is entered again before it has returned.                     *)
(*                                                                         *)
(* The peer sends the bytes 1, 2, 3 ... and its sequence numbers start at  *)
(* 0, as the client's do, so that byte b has sequence number b.  ipv4_send *)
(* succeeds or fails, whatever the reason; a wait ends when the tick count *)
(* says so, which Tick decides.  disorder and cut are history variables.   *)
(***************************************************************************)
EXTENDS Integers

CONSTANTS
    BufSize,    \* sizeof(c->inbuf), 4096
    RespSize,   \* HTTP_BUF, 2048
    Req,        \* the length of the request
    Total, Mss, \* bounds on the bytes a peer sends, in all and at a time
    Ports,      \* what 49152 + ticks % 5000 may be
    Old,        \* segments of earlier connections, numbered 0
    MaxConn,    \* bound on connections
    MaxAmiss,   \* bound on the segments of a connection that come amiss
    MaxNest     \* bound on the calls of tcp_handle inside each other

ASSUME TcpAssumption ==
    /\ BufSize \in Nat \ {0} /\ RespSize \in Nat \ {0} /\ Req \in Nat \ {0}
    /\ Total \in Nat /\ Mss \in Nat /\ MaxConn \in Nat /\ MaxAmiss \in Nat
    /\ MaxNest \in Nat \ {0}

ASSUME OldAssumption ==
    Old \subseteq [conn : {0}, port : Ports, syn : BOOLEAN, seq : 0 .. Total + 1,
                   len : 0 .. Total, fin : BOOLEAN]

VARIABLES
    pc,           \* where http_get is; "idle" when there is none
    cur,          \* current_conn points to its connection
    active, established, closed,
    port,         \* src_port
    my_seq, my_ack,
    inbuf, inlen,
    resp, rpos,   \* http_get's resp and rpos
    polling,      \* inside rtl8139_poll
    depth, rest,  \* calls of tcp_handle in ipv4_send, and what each has left to do
    late,         \* the wait has lasted for its number of ticks, or was cancelled
    k,            \* the number of the connection
    net,          \* segments the peers have sent
    psent, pfin,  \* bytes sent by the peer of this connection; it has ended
    disorder,     \* segments taken that were not the next one
    cut           \* the end was taken from a segment whose data did not fit

link   == <<cur, active, port>>
stream == <<established, closed, my_ack, inbuf, inlen>>
reader == <<resp, rpos>>
nest   == <<polling, depth, rest>>
peer   == <<net, psent, pfin>>
marks  == <<disorder, cut>>
tvars  == <<pc, link, stream, my_seq, reader, nest, late, k, peer, marks>>

Cells    == 0 .. BufSize - 1
Bytes    == 0 .. Total
Segments == [conn : 0 .. MaxConn, port : Ports, syn : BOOLEAN, seq : 0 .. Total + 1,
             len : 0 .. Total, fin : BOOLEAN]

Least(a, b) == IF a < b THEN a ELSE b

(***************************************************************************)
(* http_get and tcp_connect.  Wherever a segment is sent, polling is true: *)
(* ipv4_send may have to wait for an address.                              *)
(***************************************************************************)
\* The steps of the client are taken when no call of tcp_handle is under way.
At(p) == pc = p /\ depth = 0

\* The connection is cleared and becomes current_conn.
Connect(p) ==
    /\ pc = "idle" /\ pc' = "syn"
    /\ k < MaxConn /\ k' = k + 1
    /\ port' = p /\ active' = TRUE /\ cur' = TRUE
    /\ established' = FALSE /\ closed' = FALSE
    /\ my_seq' = 0 /\ my_ack' = 0
    /\ inbuf' = [c \in Cells |-> 0] /\ inlen' = 0
    /\ resp' = [c \in 0 .. RespSize - 1 |-> 0] /\ rpos' = 0
    /\ polling' = TRUE /\ UNCHANGED <<depth, rest>>
    /\ late' = FALSE
    /\ psent' = 0 /\ pfin' = FALSE /\ UNCHANGED net
    /\ disorder' = 0 /\ cut' = FALSE

\* Mutant: current_conn is left as it is.
HangUpKeeps == active' = FALSE /\ UNCHANGED cur

\* active = 0, current_conn = 0
HangUp == active' = FALSE /\ cur' = FALSE

SendSyn ==
    /\ At("syn")
    /\ \/ pc' = "connecting" /\ my_seq' = my_seq + 1 /\ UNCHANGED <<cur, active>>
       \/ pc' = "idle" /\ HangUp /\ UNCHANGED my_seq
    /\ polling' = FALSE
    /\ UNCHANGED <<port, stream, reader, depth, rest, late, k, peer, marks>>

\* The loops of tcp_connect and tcp_recv poll until there is something to see.
BeginPoll ==
    /\ \/ pc = "connecting" /\ ~established
       \/ pc = "recv" /\ inlen = 0
    /\ ~polling /\ ~closed /\ ~late
    /\ polling' = TRUE
    /\ UNCHANGED <<pc, link, stream, my_seq, reader, depth, rest, late, k, peer, marks>>

EndPoll ==
    /\ At("connecting") \/ At("recv")
    /\ polling /\ polling' = FALSE
    /\ UNCHANGED <<pc, link, stream, my_seq, reader, depth, rest, late, k, peer, marks>>

Connected ==
    /\ pc = "connecting" /\ ~polling
    /\ established
    /\ pc' = "send" /\ polling' = TRUE
    /\ UNCHANGED <<link, stream, my_seq, reader, depth, rest, late, k, peer, marks>>

NotConnected ==
    /\ pc = "connecting" /\ ~polling
    /\ ~established
    /\ closed \/ late
    /\ pc' = "idle"
    /\ HangUp
    /\ UNCHANGED <<port, stream, my_seq, reader, nest, late, k, peer, marks>>

(***************************************************************************)
(* The request, tcp_send; on failure the connection is closed.             *)
(***************************************************************************)
SendRequest ==
    /\ At("send")
    /\ \/ pc' = "recv" /\ my_seq' = my_seq + Req /\ polling' = FALSE
       \/ pc' = "close" /\ UNCHANGED <<my_seq, polling>>
    /\ late' = FALSE
    /\ UNCHANGED <<link, stream, reader, depth, rest, k, peer, marks>>

(***************************************************************************)
(* The response: tcp_recv until it returns nothing or resp is full.        *)
(***************************************************************************)
Taken == Least(inlen, RespSize - rpos)

\* Mutant: the bytes that are left are not moved to the front.
MovedNot(m) == inbuf

\* memmove(c->inbuf, c->inbuf + n, c->inlen - n)
Moved(m) == [c \in Cells |-> IF c < inlen - m THEN inbuf[c + m] ELSE inbuf[c]]

\* tcp_recv with data, and http_get goes on behind what it has.
Recv ==
    /\ pc = "recv" /\ ~polling
    /\ inlen > 0
    /\ resp' = [c \in 0 .. RespSize - 1 |->
                  IF c \in rpos .. rpos + Taken - 1 THEN inbuf[c - rpos] ELSE resp[c]]
    /\ inbuf' = Moved(Taken)
    /\ inlen' = inlen - Taken
    /\ rpos' = rpos + Taken
    /\ pc' = (IF rpos + Taken < RespSize THEN "recv" ELSE "close")
    /\ polling' = (pc' = "close")
    /\ late' = FALSE
    /\ UNCHANGED <<link, established, closed, my_ack, my_seq, depth, rest, k, peer, marks>>

\* Mutant: only data or the end of the stream ends the wait.
RecvEndClosed ==
    /\ pc = "recv" /\ ~polling
    /\ inlen = 0
    /\ closed
    /\ pc' = "close" /\ polling' = TRUE
    /\ UNCHANGED <<link, stream, my_seq, reader, depth, rest, late, k, peer, marks>>

\* Nothing came: the peer has closed, or the wait was given up.
RecvEnd ==
    /\ pc = "recv" /\ ~polling
    /\ inlen = 0
    /\ closed \/ late
    /\ pc' = "close" /\ polling' = TRUE
    /\ UNCHANGED <<link, stream, my_seq, reader, depth, rest, late, k, peer, marks>>

(***************************************************************************)
(* tcp_close, at the end of http_get.  FIN is sent and not counted.        *)
(***************************************************************************)
Close ==
    /\ At("close")
    /\ pc' = "idle"
    /\ closed' = TRUE
    /\ HangUp
    /\ polling' = FALSE
    /\ UNCHANGED <<port, established, my_ack, inbuf, inlen, my_seq, reader, depth, rest,
                   late, k, peer, marks>>

(***************************************************************************)
(* tcp_handle, up to the acknowledgement, and what it does after it.       *)
(***************************************************************************)
Kinds == {"established", "closed", "nothing"}

\* A call of tcp_handle that is in ipv4_send will do this.
Awaited(kind) == \E i \in 1 .. depth : rest[i] = kind

\* The segments that the standard would have taken.
InOrder(s) ==
    /\ s.conn = k
    /\ IF s.syn THEN established \/ Awaited("established") => my_ack = s.seq + 1
                ELSE (established \/ Awaited("established")) /\ my_ack = s.seq

\* tcp_send_seg of the acknowledgement; it may fail, which nothing looks at.
Acknowledge(kind) == depth' = depth + 1 /\ rest' = [rest EXCEPT ![depth + 1] = kind]

\* Mutant: a segment that exactly does not fit is taken.
FitsOneMore(s) == inlen + s.len <= BufSize + 1

Fits(s) == inlen + s.len <= BufSize

TakeSyn(s) ==
    /\ my_ack' = s.seq + 1
    /\ Acknowledge("established")
    /\ UNCHANGED <<established, closed, inbuf, inlen, cut>>

\* Mutant: the end of the stream is taken from any segment.
EndsAlways(s) == TRUE

Ends(s) == s.fin

\* Data that fit are appended, whatever their sequence number, others are
\* dropped; FIN counts in both cases.
TakeData(s) ==
    /\ IF s.len > 0 /\ Fits(s)
         THEN /\ inbuf' = [c \in Cells |-> IF c \in inlen .. inlen + s.len - 1
                                             THEN s.seq + (c - inlen) ELSE inbuf[c]]
              /\ inlen' = inlen + s.len
              /\ my_ack' = my_ack + s.len
              /\ Acknowledge(IF Ends(s) THEN "closed" ELSE "nothing")
              /\ UNCHANGED closed
         ELSE /\ closed' = (closed \/ Ends(s))
              /\ UNCHANGED <<inbuf, inlen, my_ack, depth, rest>>
    /\ cut' = (cut \/ (s.fin /\ ~Fits(s)))
    /\ UNCHANGED established

\* The handler looks at the port and at nothing else.
Handle(s) ==
    /\ polling /\ depth < MaxNest
    /\ cur /\ active /\ s.port = port
    /\ IF s.syn THEN TakeSyn(s) ELSE TakeData(s)
    /\ IF InOrder(s) THEN UNCHANGED disorder
         ELSE disorder < MaxAmiss /\ disorder' = disorder + 1
    /\ UNCHANGED <<pc, link, my_seq, reader, polling, late, k, peer>>

\* The innermost call goes on after its acknowledgement, and returns.
HandleRest ==
    /\ depth > 0
    /\ established' = (established \/ rest[depth] = "established")
    /\ closed' = (closed \/ rest[depth] = "closed")
    /\ depth' = depth - 1
    /\ rest' = [rest EXCEPT ![depth] = "nothing"]
    /\ UNCHANGED <<pc, link, my_ack, inbuf, inlen, my_seq, reader, polling, late, k, peer, marks>>

(***************************************************************************)
(* The peer and the network (external).  A segment that was sent can come  *)
(* at any time, any number of times, or never.                             *)
(***************************************************************************)
Sent(s) == net' = net \cup {s}

PeerAccept ==
    /\ pc # "idle" /\ my_seq > 0
    /\ Sent([conn |-> k, port |-> port, syn |-> TRUE, seq |-> 0, len |-> 0, fin |-> FALSE])
    /\ UNCHANGED <<psent, pfin>>

PeerSend(len, fin) ==
    /\ pc # "idle" /\ established
    /\ ~pfin /\ psent + len <= Total /\ (len > 0 \/ fin)
    /\ Sent([conn |-> k, port |-> port, syn |-> FALSE, seq |-> psent + 1, len |-> len,
             fin |-> fin])
    /\ psent' = psent + len /\ pfin' = fin

Peer ==
    /\ PeerAccept \/ \E len \in 0 .. Mss, fin \in BOOLEAN : PeerSend(len, fin)
    /\ UNCHANGED <<pc, link, stream, my_seq, reader, nest, late, k, marks>>

(***************************************************************************)
(* Time, and the user: a wait that Ctrl+C ends is one that ends early.     *)
(***************************************************************************)
Tick ==
    /\ pc \in {"connecting", "recv"} /\ ~late
    /\ late' = TRUE
    /\ UNCHANGED <<pc, link, stream, my_seq, reader, nest, k, peer, marks>>

HttpStep ==
    \/ SendSyn \/ Connected \/ NotConnected \/ SendRequest
    \/ Recv \/ RecvEnd \/ Close
    \/ BeginPoll \/ EndPoll \/ HandleRest

\* No connection is left to be made within the bound.
Over == pc = "idle" /\ k = MaxConn /\ UNCHANGED tvars

TInit ==
    /\ pc = "idle" /\ cur = FALSE /\ active = FALSE /\ port \in Ports
    /\ established = FALSE /\ closed = FALSE /\ my_seq = 0 /\ my_ack = 0
    /\ inbuf = [c \in Cells |-> 0] /\ inlen = 0
    /\ resp = [c \in 0 .. RespSize - 1 |-> 0] /\ rpos = 0
    /\ polling = FALSE /\ depth = 0 /\ rest = [i \in 1 .. MaxNest |-> "nothing"]
    /\ late = FALSE /\ k = 0
    /\ net = Old /\ psent = 0 /\ pfin = FALSE
    /\ disorder = 0 /\ cut = FALSE

TNext ==
    \/ \E p \in Ports : Connect(p)
    \/ HttpStep
    \/ \E s \in net : Handle(s)
    \/ Peer \/ Tick \/ Over

TSpec == TInit /\ [][TNext]_tvars

\* The shell task runs and the timer ticks.  Of the network it is assumed that
\* it does not fill the ring for ever, so that a poll, and every ipv4_send
\* with it, ends (SF: between two frames it could).
TFairSpec ==
    /\ TSpec /\ WF_tvars(HttpStep) /\ WF_tvars(Tick)
    /\ SF_tvars(EndPoll) /\ SF_tvars(SendSyn \/ SendRequest \/ Close)
    /\ \A d \in 1 .. MaxNest : SF_tvars(depth = d /\ HandleRest)

(***************************************************************************)
(* Properties.                                                             *)
(***************************************************************************)
Places == {"idle", "syn", "connecting", "send", "recv", "close"}

\* Every variable is in its domain, c->inlen and rpos within their buffers
\* whatever the network does.
TTypeOK ==
    /\ pc \in Places
    /\ cur \in BOOLEAN /\ active \in BOOLEAN /\ port \in Ports
    /\ established \in BOOLEAN /\ closed \in BOOLEAN
    /\ my_seq \in Nat /\ my_ack \in Nat
    /\ inbuf \in [Cells -> Nat] /\ inlen \in 0 .. BufSize
    /\ resp \in [0 .. RespSize - 1 -> Nat] /\ rpos \in 0 .. RespSize
    /\ polling \in BOOLEAN /\ depth \in 0 .. MaxNest /\ rest \in [1 .. MaxNest -> Kinds]
    /\ late \in BOOLEAN /\ k \in 0 .. MaxConn
    /\ net \subseteq Segments
    /\ psent \in 0 .. Total /\ pfin \in BOOLEAN
    /\ disorder \in 0 .. MaxAmiss /\ cut \in BOOLEAN

\* The bytes that http_get has or will get from inbuf are the bytes that were
\* acknowledged, each once and in order, unless tcp_handle took a segment that
\* was not the next one: also while calls of tcp_handle are inside each other.
StreamIntact ==
    (established \/ Awaited("established")) /\ disorder = 0 =>
        /\ my_ack = rpos + inlen + 1
        /\ \A c \in 0 .. rpos - 1 : resp[c] = c + 1
        /\ \A c \in 0 .. inlen - 1 : inbuf[c] = rpos + c + 1

\* A connection that the peer closed has taken all that the peer sent, unless
\* segments came out of order or the last one did not fit into inbuf.
EndHonest ==
    pc # "idle" /\ closed /\ disorder = 0 /\ ~cut => pfin /\ my_ack = psent + 1

\* current_conn never points to the connection of an http_get that has
\* returned, whose stack frame is gone.
NoDangling == cur => pc # "idle"

\* Every http_get returns, whatever the network does.
CallsReturn == []<>(pc = "idle")
=============================================================================
