-------------------------------- MODULE Net --------------------------------
(***************************************************************************)
(* The network stack of kernel/net/network.c below TCP, on the receive     *)
(* ring of kernel/dev/rtl8139.c: arp_resolve and the ARP cache, ping, and  *)
(* the UDP exchange of a DNS query.                                        *)
(*                                                                         *)
(* The card's interrupt is masked (irq_remap), so frames are handled only  *)
(* inside rtl8139_poll, which every wait calls.  A frame that has to be    *)
(* answered is answered from inside its handler, and when the address of   *)
(* its next hop is not known that means another arp_resolve, another wait  *)
(* and another poll: the stack of calls under way is the state.  The card  *)
(* stores frames and sets its status bits at any time.                     *)
(*                                                                         *)
(* A host's MAC is the host itself, so that what arp_resolve returned can  *)
(* be compared with what was asked.  Frames to others and malformed ones   *)
(* are taken from the ring without effect and are left out, as are the     *)
(* contents.  A frame that is long, over NET_BUF_SIZE - 4 bytes with its   *)
(* checksum, is not taken from the ring at all.  crossed and window are    *)
(* history.                                                                *)
(***************************************************************************)
EXTENDS Integers, Sequences, SequencesExt, FiniteSets

CONSTANTS
    Local,      \* hosts of the local network
    Remote,     \* hosts beyond the gateway
    Gateway, Dns,
    CacheSize,  \* ARP_CACHE_SIZE, 8
    RingSize,   \* frames that the receive ring holds
    Long,       \* types of the frames that may also come as long ones
    Ports,      \* 5353 + id % 1000 for the id of a query: 1000
    MaxId,      \* bound on commands, numbered by the ticks they start at
    MaxNest     \* bound on calls of arp_resolve inside each other, those to come too

ASSUME NetAssumption ==
    /\ Gateway \in Local /\ Dns \in Local /\ Local \cap Remote = {}
    /\ 0 \notin Local                 \* 0 stands for no address and no id
    /\ CacheSize \in Nat \ {0} /\ RingSize \in Nat \ {0}
    /\ Ports \in Nat \ {0} /\ MaxId \in Nat /\ MaxNest \in Nat \ {0}

VARIABLES
    calls,        \* the calls under way, the innermost last
    cache,        \* arp_cache: the hosts whose MAC is known
    pending,      \* arp_pending_ip while arp_pending, else None
    pending_mac,
    waiting,      \* icmp_wait_id while icmp_waiting, else None
    reply_recv,   \* icmp_reply_recv: the id of the reply that set it, or None
    active,       \* g_active_tx: the id of the query it belongs to, or None
    done,         \* tx->done: the id of the query that was answered, or None
    ring, isr,    \* what the card has stored, and its status bits
    id,           \* the last command's
    window        \* a frame came after the last look at the ring and before the
                  \* status bits were cleared

resolution == <<pending, pending_mac>>
ping       == <<waiting, reply_recv>>
query      == <<active, done>>
card       == <<ring, isr, window>>
nvars      == <<calls, cache, resolution, ping, query, card, id>>

None  == 0
Hosts == Local \cup Remote
Ids   == 1 .. MaxId
Frame(type, x, long) == [type |-> type, x |-> x, long |-> long]
NoFrame == Frame("none", None, FALSE)
Bits  == {"ok", "overflow"}

\* is_local_network, and what ipv4_send makes of it.
NextHop(dst) == IF dst \in Local THEN dst ELSE Gateway

Port(i) == i % Ports

(***************************************************************************)
(* The calls.  crossed: another arp_resolve was entered while this one     *)
(* waited.  A wait may end at any time, by its timeout or by Ctrl+C.       *)
(***************************************************************************)
Command(op, i)    == [op |-> op, at |-> "send", id |-> i]
Resolve(ip)       == [op |-> "arp", at |-> "wait", ip |-> ip, crossed |-> FALSE]
Receive(status)   == [op |-> "rx", at |-> "test", status |-> status, frame |-> NoFrame]

Top          == Last(calls)
In(op, at)   == calls # <<>> /\ Top.op = op /\ Top.at = at
OnTop(call)  == [calls EXCEPT ![Len(calls)] = call]
GoTo(at)     == OnTop([Top EXCEPT !.at = at])

\* Mutant: one frame for each poll.
HandledOne(rx) == [rx EXCEPT !.at = "ack", !.frame = NoFrame]

\* net_receive has returned, and the loop of rtl8139_rx goes on.
Handled(rx)  == [rx EXCEPT !.at = "test", !.frame = NoFrame]

\* The bound: calls of arp_resolve, and stored frames that will need one.
Resolutions ==
    LET arps   == {i \in 1 .. Len(calls) : calls[i].op = "arp"}
        echoes == {i \in 1 .. Len(ring) : ring[i].type = "echo"}
        copied == IF In("rx", "copy") /\ Top.frame.type = "echo" THEN 1 ELSE 0
    IN  Cardinality(arps) + Cardinality(echoes) + copied

(***************************************************************************)
(* arp_resolve, for ipv4_send.                                             *)
(***************************************************************************)
\* The caller goes on after ipv4_send: a command waits or has failed, a handler
\* looks for the next frame.
AfterSend(call, ok) ==
    IF call.op = "rx" THEN Handled(call)
    ELSE [call EXCEPT !.at = IF ok THEN "wait" ELSE "failed"]

Returned(ok) ==
    LET below == Front(calls) IN Append(Front(below), AfterSend(Last(below), ok))

\* ipv4_send by the last call of stack: the next hop's MAC is known, or a request
\* for it is sent and the wait begins; one that waits further down is crossed.
Send(stack, hop) ==
    LET crossed == [i \in 1 .. Len(stack) |->
                      IF stack[i].op = "arp" THEN [stack[i] EXCEPT !.crossed = TRUE] ELSE stack[i]]
    IN  IF hop \in cache
        THEN /\ calls' = Append(Front(stack), AfterSend(Last(stack), TRUE))
             /\ UNCHANGED resolution
        ELSE /\ calls' = Append(crossed, Resolve(hop))
             /\ pending' = hop
             /\ UNCHANGED pending_mac

ArpDone ==
    /\ In("arp", "wait") /\ pending = None
    /\ calls' = Returned(TRUE)
    /\ UNCHANGED <<cache, resolution, ping, query, card, id>>

\* Mutant: only an answer ends the wait.
ArpTimeoutNot == FALSE /\ UNCHANGED nvars

ArpTimeout ==
    /\ In("arp", "wait") /\ pending # None
    /\ pending' = None
    /\ calls' = Returned(FALSE)
    /\ UNCHANGED <<cache, pending_mac, ping, query, card, id>>

(***************************************************************************)
(* icmp_ping and udp_exchange.                                             *)
(***************************************************************************)
Start(op, hop) ==
    /\ calls = <<>> /\ Resolutions < MaxNest
    /\ id < MaxId /\ id' = id + 1
    /\ Send(<<Command(op, id + 1)>>, hop)
    /\ UNCHANGED <<cache, card>>

\* Mutant: icmp_reply_recv is not cleared.
StartPingStale(dst) ==
    /\ Start("ping", NextHop(dst))
    /\ waiting' = id + 1
    /\ UNCHANGED <<reply_recv, query>>

StartPing(dst) ==
    /\ Start("ping", NextHop(dst))
    /\ waiting' = id + 1 /\ reply_recv' = None
    /\ UNCHANGED query

StartQuery ==
    /\ Start("query", NextHop(Dns))
    /\ active' = id + 1 /\ done' = None
    /\ UNCHANGED ping

\* The last lines of both, whatever ended the wait.
PingEnds ==
    /\ In("ping", "failed") \/ In("ping", "wait")
    /\ calls' = <<>>
    /\ waiting' = None
    /\ UNCHANGED <<cache, resolution, reply_recv, query, card, id>>

QueryEnds ==
    /\ In("query", "failed") \/ In("query", "wait")
    /\ calls' = <<>>
    /\ active' = None /\ done' = None
    /\ UNCHANGED <<cache, resolution, ping, card, id>>

(***************************************************************************)
(* rtl8139_poll, from any of the three waits, and rtl8139_rx.              *)
(***************************************************************************)
Unanswered ==
    \/ In("arp", "wait") /\ pending # None
    \/ In("ping", "wait") /\ reply_recv = None
    \/ In("query", "wait") /\ done = None

Poll ==
    /\ Unanswered /\ isr # {}
    /\ calls' = Append(calls, Receive(isr))
    /\ UNCHANGED <<cache, resolution, ping, query, card, id>>

\* rtl8139_rx looks no further than a frame it takes for the end of the data.
Stuck == ring # <<>> /\ Head(ring).long

\* The loop of rtl8139_rx: CAPR gives the frame's place back to the card before
\* the frame is copied; a long frame ends the loop and keeps its place.  That the
\* loop is run again after an overflow is no more than a later look.
RxTest ==
    /\ In("rx", "test")
    /\ IF ring # <<>> /\ ~Stuck
         THEN /\ ring' = Tail(ring)
              /\ calls' = OnTop([Top EXCEPT !.at = "copy", !.frame = Head(ring)])
         ELSE calls' = GoTo("ack") /\ UNCHANGED ring
    /\ UNCHANGED <<cache, resolution, ping, query, isr, window, id>>

\* The status that was read at first is cleared, whatever has come since.
RxAck ==
    /\ In("rx", "ack")
    /\ isr' = isr \ Top.status
    /\ calls' = Front(calls)
    /\ UNCHANGED <<cache, resolution, ping, query, ring, window, id>>

(***************************************************************************)
(* The handlers, net_handle_frame to the last.                             *)
(***************************************************************************)
\* A new host takes an empty entry or the oldest one's; which one that is is
\* left open.
Added(h) ==
    IF h \in cache \/ Cardinality(cache) < CacheSize THEN {cache \cup {h}}
    ELSE {(cache \ {old}) \cup {h} : old \in cache}

\* Mutant: any address ends the resolution.
AnswersAny(h) == pending # None /\ h \notin cache

\* The refresh of a known host returns before it looks at arp_pending.
Answers(h) == h \notin cache /\ h = pending

\* arp_cache_add, which arp_handle calls for requests and replies; the reply to
\* a request needs no address to be resolved.
HandleArp(h) ==
    /\ cache' \in Added(h)
    /\ IF Answers(h) THEN pending' = None /\ pending_mac' = h
       ELSE UNCHANGED <<pending, pending_mac>>
    /\ calls' = OnTop(Handled(Top))
    /\ UNCHANGED <<ping, query>>

\* icmp_handle of an echo request: the reply is sent from here.  tcp_handle
\* acknowledges in the same way.
HandleEcho(hop) ==
    /\ Send(OnTop([Handled(Top) EXCEPT !.at = "reply"]), hop)
    /\ UNCHANGED <<cache, ping, query>>

HandlePong(i) ==
    /\ reply_recv' = (IF i = waiting THEN i ELSE reply_recv)
    /\ calls' = OnTop(Handled(Top))
    /\ UNCHANGED <<cache, resolution, waiting, query>>

\* udp_handle: the port decides, and a second answer replaces the first.
HandleAnswer(i) ==
    /\ done' = (IF active # None /\ Port(active) = Port(i) THEN i ELSE done)
    /\ calls' = OnTop(Handled(Top))
    /\ UNCHANGED <<cache, resolution, ping, active>>

RxHandle ==
    /\ In("rx", "copy")
    /\ \/ Top.frame.type = "arp" /\ HandleArp(Top.frame.x)
       \/ Top.frame.type = "echo" /\ HandleEcho(Top.frame.x)
       \/ Top.frame.type = "pong" /\ HandlePong(Top.frame.x)
       \/ Top.frame.type = "answer" /\ HandleAnswer(Top.frame.x)
    /\ UNCHANGED <<card, id>>

(***************************************************************************)
(* The card, the hosts and time (external).  Hosts speak at any time, and  *)
(* answers to this and to earlier commands come late, repeatedly or never. *)
(***************************************************************************)
FramesOf(long) ==
    {Frame("arp", h, long) : h \in Local} \cup {Frame("echo", NextHop(h), long) : h \in Hosts}
        \cup {Frame("pong", i, long) : i \in 1 .. id} \cup {Frame("answer", i, long) : i \in 1 .. id}

Frames == FramesOf(FALSE) \cup {f \in FramesOf(TRUE) : f.type \in Long}

\* A frame may be put where one was that has been given back and not yet copied.
Arrive(f) ==
    /\ IF Len(ring) < RingSize
         THEN /\ ring' = Append(ring, f)
              /\ isr' = isr \cup {"ok"}
              /\ calls' = (IF In("rx", "copy") /\ Len(ring) = RingSize - 1
                           THEN OnTop([Top EXCEPT !.frame = f]) ELSE calls)
         ELSE /\ isr' = isr \cup {"overflow"}
              /\ UNCHANGED <<ring, calls>>
    /\ window' = ((ring # <<>> /\ window) \/ In("rx", "ack"))
    /\ UNCHANGED <<cache, resolution, ping, query, id>>

Step ==
    \/ ArpDone \/ ArpTimeout
    \/ PingEnds \/ QueryEnds
    \/ Poll \/ RxTest \/ RxAck \/ RxHandle

Card == \E f \in Frames : Arrive(f) /\ Resolutions' <= MaxNest
User == StartQuery \/ \E h \in Hosts : StartPing(h)

NInit ==
    /\ calls = <<>> /\ cache = {}
    /\ pending = None /\ pending_mac = None
    /\ waiting = None /\ reply_recv = None
    /\ active = None /\ done = None
    /\ ring = <<>> /\ isr = {} /\ window = FALSE
    /\ id = 0

NNext == Step \/ Card \/ User

NSpec == NInit /\ [][NNext]_nvars

\* The shell task runs, and what it waits for comes or the ticks run out.
Returns == ArpTimeout \/ PingEnds \/ QueryEnds

NFairSpec == NSpec /\ WF_nvars(Step) /\ WF_nvars(Returns)

(***************************************************************************)
(* Properties.                                                             *)
(***************************************************************************)
\* The address that is waited for is never one that arp_cache_add would only
\* refresh, without a look at arp_pending, so its answer always ends the wait; and
\* what ends it is that answer, so the packet goes out to the MAC of its next hop,
\* unless another arp_resolve was entered meanwhile.
RightHop ==
    /\ pending \notin cache
    /\ In("arp", "wait") /\ pending = None /\ ~Top.crossed => pending_mac = Top.ip

\* A stored frame has its status bit set or a poll that will look at the ring
\* again, unless one came between the last look and the clearing of the bits, or a
\* long frame is at the head of the ring: the loop of rtl8139_rx stops at it each
\* time, the bits are cleared, and all that is behind it is overlooked.
Noticed ==
    ring # <<>> /\ isr = {} =>
        \/ window
        \/ Stuck
        \/ \E i \in 1 .. Len(calls) : calls[i].op = "rx" /\ calls[i].at # "ack"

\* A ping ends on its own answer, and a query on its own or on one to an earlier
\* query from the same port; nothing is left of a command that has ended that a
\* late answer could be stored in.
AnswersOwn ==
    IF calls = <<>> THEN waiting = None /\ active = None
    ELSE LET command == Head(calls) IN
         /\ command.op = "ping" /\ reply_recv # None => reply_recv = command.id
         /\ command.op = "query" /\ done # None => Port(done) = Port(command.id)

\* Every command returns once the network is quiet.
CommandsReturn == []<><<Card>>_nvars \/ []<>(calls = <<>>)
=============================================================================
