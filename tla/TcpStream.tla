----------------------------- MODULE TcpStream -----------------------------
(***************************************************************************)
(* The transfer of data over an established connection of lwIP's TCP       *)
(* (tcp_out.c, tcp_in.c and the timers of tcp.c): two connection blocks,   *)
(* each with its application, and a network between them that loses,       *)
(* duplicates and reorders segments.                                       *)
(*                                                                         *)
(* A pcb is a record of the fields of struct tcp_pcb the transfer uses,    *)
(* with their names.  Each function of the code is an operator from pcbs   *)
(* to pcbs; the segments it hands to ip_output are appended to the field   *)
(* "out", and the global recv_data is a field too; both are empty between  *)
(* steps.  Sequence numbers are counted modulo Seq32 and compared by the   *)
(* sign of their difference, as u32_t and s32_t are.                       *)
(*                                                                         *)
(* Left out: SYN and FIN segments (the model starts with the handshake     *)
(* done), keep-alive, the estimate of the round-trip time: the             *)
(* retransmission and persist timers are running or not, and a running one *)
(* may expire at any slow tick.  TCP_QUEUE_OOSEQ is 0 in lwipopts.h.       *)
(***************************************************************************)
EXTENDS Integers, SequencesExt, FiniteSetsExt

CONSTANTS
    Seq32,      \* number of sequence numbers (2^32)
    U16, U8,    \* number of values of a u16_t and a u8_t
    Mss,        \* pcb->mss
    Wnd,        \* TCP_WND
    SndBuf,     \* TCP_SND_BUF
    SndQueueLen,\* TCP_SND_QUEUELEN
    MaxRtx,     \* TCP_MAXRTX
    Iss,        \* the first sequence number of each end
    Writers,    \* ends whose application writes
    Lengths,    \* lengths of a write
    Copies,     \* values of TCP_WRITE_FLAG_COPY
    NoDelay,    \* values of TF_NODELAY
    Takes,      \* what a receive callback does with data
    MaxBytes,   \* bound on the bytes written at an end
    MaxFaults,  \* bound on network faults and failed allocations
    NetCap      \* bound on the segments under way to an end

End == {"client", "server"}

Peer(e) == CHOOSE f \in End : f # e

ASSUME StreamAssumption ==
    /\ {Seq32, U16, U8, Mss, Wnd, SndBuf, SndQueueLen} \subseteq Nat \ {0}
    /\ {MaxRtx, MaxBytes, MaxFaults, NetCap} \subseteq Nat
    /\ Seq32 % 2 = 0 /\ 2 * (Wnd + SndBuf) <= Seq32 /\ 10 * Mss < U16 /\ Wnd < U16
    /\ Iss \in [End -> 0..(Seq32 - 1)]
    /\ Writers \subseteq End /\ Lengths \subseteq Nat \ {0}
    /\ Copies \subseteq BOOLEAN /\ NoDelay \subseteq BOOLEAN
    /\ Takes \subseteq {"now", "later", "refuse"}

VARIABLES
    pcb,        \* the connection block of each end
    net,        \* the segments under way to each end, oldest first
    written,    \* how many bytes each application has written
    got,        \* the bytes each application has been given
    unread,     \* how many of them it has not yet reported to tcp_recved
    faults      \* faults so far

vars == <<pcb, net, written, got, unread, faults>>

-----------------------------------------------------------------------------
\* tcp.h:146-154

Plus(a, n) == (a + n) % Seq32
SEQ_LT(a, b) == (a - b) % Seq32 >= Seq32 \div 2
SEQ_LEQ(a, b) == a = b \/ SEQ_LT(a, b)
SEQ_GEQ(a, b) == ~SEQ_LT(a, b)
SEQ_GT(a, b) == ~SEQ_LEQ(a, b)
SEQ_BETWEEN(a, b, c) == SEQ_GEQ(a, b) /\ SEQ_LEQ(a, c)

\* TCP_TCPLEN: only data takes sequence numbers here
TCPLEN(seg) == Len(seg.data)
SegEnd(seg) == Plus(seg.seqno, TCPLEN(seg))

\* the list without its longest prefix of members that satisfy P
SkipWhile(list, P(_)) ==
    LET n == Max({k \in 0..Len(list) : \A i \in 1..k : P(list[i])})
    IN  SubSeq(list, n + 1, Len(list))

\* in front of the first member that is not before seg
Insert(list, seg) ==
    LET rest == SkipWhile(list, LAMBDA s : SEQ_LT(s.seqno, seg.seqno))
        n == Len(list) - Len(rest)
    IN  SubSeq(list, 1, n) \o <<seg>> \o rest

-----------------------------------------------------------------------------
\* Output

\* tcp_output_set_header and tcp_output_segment: every segment carries the
\* acknowledgment and the window, and the edge of that window is remembered
Emit(p, seqno, data) ==
    [p EXCEPT !.rcv_ann_right_edge = Plus(p.rcv_nxt, p.rcv_ann_wnd),
              !.out = Append(@, [rst |-> FALSE, seqno |-> seqno, data |-> data,
                                 ackno |-> p.rcv_nxt, wnd |-> p.rcv_ann_wnd])]

\* how far a segment reaches behind the last acknowledged byte (u32_t)
Reach(p, seg) == (seg.seqno - p.lastack + TCPLEN(seg)) % Seq32

\* tcp_do_output_nagle, for the i-th segment of unsent once those before it
\* have gone to unacked
tcp_do_output_nagle(p, i) ==
    \/ p.unacked = <<>> /\ i = 1
    \/ p.nodelay
    \/ i < Len(p.unsent)
    \/ TCPLEN(p.unsent[i]) >= Mss

Sendable(p, i) ==
    /\ Reach(p, p.unsent[i]) <= Min({p.snd_wnd, p.cwnd})
    /\ tcp_do_output_nagle(p, i) \/ p.naglememerr

\* one turn of the loop of tcp_output
SendSegment(p, seg) ==
    LET q == Emit(p, seg.seqno, seg.data)
    IN  [q EXCEPT !.ack_delay = FALSE, !.ack_now = FALSE, !.rtime = TRUE,
                  !.snd_nxt = IF SEQ_LT(@, SegEnd(seg)) THEN SegEnd(seg) ELSE @,
                  !.unsent = Tail(@),
                  !.unacked = IF @ # <<>> /\ SEQ_LT(seg.seqno, Last(@).seqno)
                              THEN Insert(@, seg) ELSE Append(@, seg)]

tcp_output(p, mem) ==
    LET stuck == \/ p.unsent = <<>>
                 \/ Reach(p, p.unsent[1]) > Min({p.snd_wnd, p.cwnd})
        n == Max({k \in 0..Len(p.unsent) : \A i \in 1..k : Sendable(p, i)})
        turn[k \in 0..n] == IF k = 0 THEN p ELSE SendSegment(turn[k - 1], p.unsent[k])
        sent == turn[n]
        late == /\ sent.unsent # <<>> /\ ~sent.persist
                /\ Reach(sent, sent.unsent[1]) > sent.snd_wnd
    IN  IF p.ack_now /\ stuck
        THEN IF mem
             THEN [Emit(p, p.snd_nxt, <<>>) EXCEPT !.ack_delay = FALSE, !.ack_now = FALSE]
             ELSE p
        ELSE [sent EXCEPT !.persist = @ \/ late, !.naglememerr = FALSE]

\* tcp_enqueue: the data in segments of at most Mss bytes; the first is joined
\* to the last unsent one if there is room.  A segment is one pbuf, or two
\* when the data is not copied; a joined one loses its header pbuf.
tcp_enqueue(p, data, copy, mem) ==
    LET n == (Len(data) + Mss - 1) \div Mss
        pbufs == IF copy THEN 1 ELSE 2
        part(i) == [seqno |-> Plus(p.snd_lbb, (i - 1) * Mss), pbufs |-> pbufs,
                    data |-> SubSeq(data, (i - 1) * Mss + 1, Min({i * Mss, Len(data)}))]
        queue == [i \in 1..n |-> part(i)]
        fails == \/ Len(data) > p.snd_buf
                 \/ p.snd_queuelen >= SndQueueLen
                 \/ p.snd_queuelen + n * pbufs > SndQueueLen
                 \/ ~mem
        joins == p.unsent # <<>> /\ TCPLEN(Last(p.unsent)) + TCPLEN(queue[1]) <= Mss
        joined == [Last(p.unsent) EXCEPT !.data = @ \o queue[1].data, !.pbufs = @ + 1]
    IN  IF fails THEN [p EXCEPT !.naglememerr = TRUE]
        ELSE [p EXCEPT !.unsent = IF joins THEN Front(@) \o <<joined>> \o Tail(queue)
                                  ELSE @ \o queue,
                       !.snd_lbb = Plus(@, Len(data)),
                       !.snd_buf = @ - Len(data),
                       !.snd_queuelen = @ + n * pbufs - (IF joins /\ ~copy THEN 1 ELSE 0)]

\* all unacknowledged segments go in front of the unsent ones
tcp_rexmit_rto(p, mem) ==
    tcp_output([p EXCEPT !.unsent = p.unacked \o @, !.unacked = <<>>, !.nrtx = (@ + 1) % U8], mem)

\* the first unacknowledged segment goes to its place among the unsent ones;
\* called from tcp_receive, where tcp_output does nothing
tcp_rexmit(p) ==
    [p EXCEPT !.unacked = Tail(@), !.unsent = Insert(@, p.unacked[1]), !.nrtx = (@ + 1) % U8]

\* one byte of the first unacknowledged, or else unsent, segment
tcp_zero_window_probe(p, mem) ==
    LET queue == p.unacked \o p.unsent
    IN  IF queue = <<>> \/ ~mem THEN p
        ELSE Emit(p, queue[1].seqno, SubSeq(queue[1].data, 1, 1))

-----------------------------------------------------------------------------
\* Input.  tcp_ack_now and tcp_ack inside tcp_receive only set the flags, as
\* tcp_output returns while tcp_input_pcb is set.

tcp_ack_now(p) == [p EXCEPT !.ack_now = TRUE]

tcp_ack(p) == IF p.ack_delay THEN [p EXCEPT !.ack_delay = FALSE, !.ack_now = TRUE]
              ELSE [p EXCEPT !.ack_delay = TRUE]

\* the window is announced anew only when it has grown by a segment
RightEdge(p) == Plus(p.rcv_nxt, p.rcv_wnd)

CanAnnounce(p) == SEQ_GEQ(RightEdge(p), Plus(p.rcv_ann_right_edge, Mss))

tcp_update_rcv_ann_wnd(p) ==
    [p EXCEPT !.rcv_ann_wnd =
        IF CanAnnounce(p) THEN p.rcv_wnd
        ELSE IF SEQ_GT(p.rcv_nxt, p.rcv_ann_right_edge) THEN 0
        ELSE (p.rcv_ann_right_edge - p.rcv_nxt) % Seq32]

\* the inflation tcp_update_rcv_ann_wnd returns; TCP_WND_UPDATE_THRESHOLD is Wnd / 4
tcp_recved(p, len, mem) ==
    LET q == [p EXCEPT !.rcv_wnd = Min({@ + len, Wnd})]
        inflation == IF CanAnnounce(q)
                     THEN (RightEdge(q) - q.rcv_ann_right_edge) % Seq32 ELSE 0
        u == tcp_update_rcv_ann_wnd(q)
    IN  IF inflation >= Wnd \div 4 THEN tcp_output(tcp_ack_now(u), mem) ELSE u

\* mutant: a larger window is taken from an older acknowledgment too
UpdateWindowStale(p, s) ==
    IF SEQ_LEQ(p.snd_wl1, s.seqno) \/ s.wnd > p.snd_wnd
    THEN [p EXCEPT !.snd_wnd = s.wnd, !.snd_wl1 = s.seqno, !.snd_wl2 = s.ackno,
                   !.persist = @ /\ s.wnd = 0]
    ELSE p

\* tcp_receive, in the order of the code: the window of the peer,
UpdateWindow(p, s) ==
    IF \/ SEQ_LT(p.snd_wl1, s.seqno)
       \/ p.snd_wl1 = s.seqno /\ SEQ_LT(p.snd_wl2, s.ackno)
       \/ p.snd_wl2 = s.ackno /\ s.wnd > p.snd_wnd
    THEN [p EXCEPT !.snd_wnd = s.wnd, !.snd_wl1 = s.seqno, !.snd_wl2 = s.ackno,
                   !.persist = @ /\ s.wnd = 0]
    ELSE p

\* a u16_t is only increased where that does not overflow it
Grown(cwnd, more) == IF (cwnd + more) % U16 > cwnd THEN (cwnd + more) % U16 ELSE cwnd

\* a repeated acknowledgment, the third of which starts a fast retransmit,
DuplicateAck(p) ==
    LET q == [p EXCEPT !.dupacks = (@ + 1) % U8]
        half == Min({q.cwnd, q.snd_wnd}) \div 2
        ssthresh == IF half < 2 * Mss THEN 2 * Mss ELSE half
    IN  IF q.dupacks < 3 \/ q.unacked = <<>> THEN q
        ELSE IF q.infr THEN [q EXCEPT !.cwnd = Grown(@, Mss)]
        ELSE [tcp_rexmit(q) EXCEPT !.ssthresh = ssthresh, !.infr = TRUE,
                                   !.cwnd = (ssthresh + 3 * Mss) % U16]

\* pbufs of the segments that left a list
Freed(before, after) ==
    FoldLeft(LAMBDA n, seg : n + seg.pbufs, 0,
             SubSeq(before, 1, Len(before) - Len(after)))

\* mutant: a segment acknowledged in part is freed as well
NewAckPart(p, ackno) ==
    LET unacked == SkipWhile(p.unacked, LAMBDA seg : SEQ_LT(seg.seqno, ackno))
    IN  [p EXCEPT !.infr = FALSE, !.nrtx = 0, !.dupacks = 0, !.lastack = ackno,
                  !.snd_buf = @ + ((ackno - p.lastack) % Seq32),
                  !.unacked = unacked,
                  !.snd_queuelen = @ - Freed(p.unacked, unacked),
                  !.rtime = unacked # <<>>]

\* an acknowledgment of new data,
NewAck(p, ackno) ==
    LET unacked == SkipWhile(p.unacked, LAMBDA seg : SEQ_LEQ(SegEnd(seg), ackno))
        cwnd == IF p.infr THEN p.ssthresh ELSE p.cwnd
    IN  [p EXCEPT !.infr = FALSE, !.nrtx = 0, !.dupacks = 0, !.lastack = ackno,
                  !.snd_buf = @ + ((ackno - p.lastack) % Seq32),
                  !.cwnd = IF cwnd < p.ssthresh THEN Grown(cwnd, Mss)
                           ELSE Grown(cwnd, (Mss * Mss) \div cwnd),
                  !.unacked = unacked,
                  !.snd_queuelen = @ - Freed(p.unacked, unacked),
                  !.rtime = unacked # <<>>]

\* mutant: their pbufs are not counted down
DropUnsentUncounted(p, ackno) ==
    [p EXCEPT !.unsent =
        SkipWhile(@, LAMBDA seg : SEQ_BETWEEN(ackno, SegEnd(seg), p.snd_nxt))]

\* segments put back for retransmission and acknowledged meanwhile,
DropUnsent(p, ackno) ==
    LET unsent == SkipWhile(p.unsent, LAMBDA seg : SEQ_BETWEEN(ackno, SegEnd(seg), p.snd_nxt))
    IN  [p EXCEPT !.unsent = unsent, !.snd_queuelen = @ - Freed(p.unsent, unsent)]

\* and the data
InWindow(p, seqno) == SEQ_BETWEEN(seqno, p.rcv_nxt, Plus(p.rcv_nxt, p.rcv_wnd - 1))

Accept(p, data) ==
    LET q == [p EXCEPT !.rcv_nxt = Plus(@, Len(data)), !.rcv_wnd = @ - Len(data),
                       !.recv_data = data]
    IN  tcp_ack(tcp_update_rcv_ann_wnd(q))

\* mutant: the front of a segment received in part is not cut off
ReceiveDataUncut(p, s) ==
    IF SEQ_BETWEEN(p.rcv_nxt, s.seqno, Plus(s.seqno, TCPLEN(s) - 1)) /\ p.rcv_wnd > 0
    THEN Accept(p, SubSeq(s.data, 1, Min({TCPLEN(s), p.rcv_wnd})))
    ELSE tcp_ack_now(p)

ReceiveData(p, s) ==
    LET trims == SEQ_BETWEEN(p.rcv_nxt, Plus(s.seqno, 1), Plus(s.seqno, TCPLEN(s) - 1))
        off == (p.rcv_nxt - s.seqno) % Seq32
        seqno == IF trims THEN p.rcv_nxt ELSE s.seqno
        data == IF trims THEN SubSeq(s.data, off + 1, TCPLEN(s)) ELSE s.data
    IN  IF InWindow(p, seqno) /\ seqno = p.rcv_nxt
        THEN Accept(p, SubSeq(data, 1, Min({Len(data), p.rcv_wnd})))
        ELSE tcp_ack_now(p)

tcp_receive(p, s) ==
    LET u == UpdateWindow(p, s)
        repeats == Plus(u.snd_wl2, u.snd_wnd) = Plus(p.snd_wl2, p.snd_wnd)
        a == IF p.lastack = s.ackno THEN IF repeats THEN DuplicateAck(u) ELSE u
             ELSE IF SEQ_BETWEEN(s.ackno, Plus(p.lastack, 1), p.snd_nxt)
                  THEN NewAck(u, s.ackno) ELSE u
        d == DropUnsent(a, s.ackno)
    IN  IF s.data # <<>> THEN ReceiveData(d, s)
        ELSE IF InWindow(d, s.seqno) THEN d ELSE tcp_ack_now(d)

-----------------------------------------------------------------------------
\* Timers

\* tcp_pcb_purge, when the connection is given up
Purged(p) == [p EXCEPT !.state = "CLOSED", !.unsent = <<>>, !.unacked = <<>>,
                       !.refused_data = <<>>]

\* mutant: no probe of a closed window
tcp_slowtmrNoProbe(p, due, mem) ==
    IF p.nrtx = MaxRtx THEN Purged(p)
    ELSE tcp_output(IF ~p.persist /\ p.rtime /\ due /\ p.unacked # <<>>
                    THEN tcp_rexmit_rto(p, mem) ELSE p, mem)

tcp_slowtmr(p, due, mem) ==
    LET half == Min({p.cwnd, p.snd_wnd}) \div 2
        cut == [p EXCEPT !.ssthresh = IF half < Mss THEN 2 * Mss ELSE half, !.cwnd = Mss]
        q == IF p.persist THEN IF due THEN tcp_zero_window_probe(p, mem) ELSE p
             ELSE IF p.rtime /\ due /\ p.unacked # <<>> THEN tcp_rexmit_rto(cut, mem)
             ELSE p
    IN  IF p.nrtx = MaxRtx THEN Purged(p)
        ELSE tcp_output(q, mem)

\* a pending acknowledgment is sent, and forgotten if that fails
DelayedAck(p, mem) ==
    IF p.ack_delay
    THEN [tcp_output(tcp_ack_now(p), mem) EXCEPT !.ack_delay = FALSE, !.ack_now = FALSE]
    ELSE p

-----------------------------------------------------------------------------
\* The application's receive callback: it reads the data and calls tcp_recved
\* at once or later, or refuses it.  The fields given and owed are the bytes it
\* got in this step, and how many of them it has still to report.

TCP_EVENT_RECV(p, data, take, mem) ==
    LET q == [p EXCEPT !.refused_data = <<>>, !.given = @ \o data]
    IN  CASE data = <<>> -> p
          [] data # <<>> /\ take = "refuse" -> [p EXCEPT !.refused_data = data]
          [] data # <<>> /\ take = "later" -> [q EXCEPT !.owed = @ + Len(data)]
          [] data # <<>> /\ take = "now" -> tcp_recved(q, Len(data), mem)

\* Ends the step of e, which leaves it the pcb p and the segments rest still
\* under way to it: what it sent goes to the network, as far as there is room
Settle(e, p, rest) ==
    LET sent == net[Peer(e)] \o p.out
    IN  /\ pcb' = [pcb EXCEPT ![e] = [p EXCEPT !.out = <<>>, !.recv_data = <<>>,
                                               !.given = <<>>, !.owed = 0]]
        /\ net' = [net EXCEPT ![e] = rest,
                              ![Peer(e)] = SubSeq(sent, 1, Min({Len(sent), NetCap}))]
        /\ got' = [got EXCEPT ![e] = @ \o p.given]
        /\ unread' = [unread EXCEPT ![e] = @ + p.owed]

Faulty(n) == faults + n <= MaxFaults /\ faults' = faults + n

Cost(happens) == IF happens THEN 1 ELSE 0

-----------------------------------------------------------------------------
Pcb(e, nodelay) ==
    [state |-> "ESTABLISHED", nodelay |-> nodelay,
     snd_nxt |-> Iss[e], lastack |-> Iss[e], snd_lbb |-> Iss[e],
     snd_wnd |-> Wnd, snd_wl1 |-> Plus(Iss[Peer(e)], IF e = "client" THEN -2 ELSE 0),
     snd_wl2 |-> Plus(Iss[e], IF e = "client" THEN -1 ELSE 0),
     snd_buf |-> SndBuf, snd_queuelen |-> 0, unsent |-> <<>>, unacked |-> <<>>,
     cwnd |-> 2 * Mss, ssthresh |-> IF e = "client" THEN 10 * Mss ELSE Wnd,
     dupacks |-> 0, infr |-> FALSE, nrtx |-> 0, rtime |-> FALSE, persist |-> FALSE,
     naglememerr |-> FALSE, ack_delay |-> FALSE, ack_now |-> FALSE,
     rcv_nxt |-> Iss[Peer(e)], rcv_wnd |-> Wnd, rcv_ann_wnd |-> Wnd,
     rcv_ann_right_edge |-> Plus(Iss[Peer(e)], Wnd),
     refused_data |-> <<>>, recv_data |-> <<>>, out |-> <<>>,
     given |-> <<>>, owed |-> 0]

\* the handshake is done and nothing has been written
Init ==
    /\ \E nodelay \in NoDelay : pcb = [e \in End |-> Pcb(e, nodelay)]
    /\ net = [e \in End |-> <<>>]
    /\ written = [e \in End |-> 0]
    /\ got = [e \in End |-> <<>>]
    /\ unread = [e \in End |-> 0]
    /\ faults = 0

Open(e) == pcb[e].state = "ESTABLISHED"

\* TcpClient.c:444-445: tcp_write and tcp_output, whatever the former returns
Write(e, n, copy, mem) ==
    LET data == [i \in 1..n |-> written[e] + i]
        q == tcp_enqueue(pcb[e], data, copy, mem)
    IN  /\ Open(e) /\ e \in Writers /\ written[e] + n <= MaxBytes
        /\ Faulty(Cost(~mem))
        /\ written' = [written EXCEPT ![e] = @ + (pcb[e].snd_buf - q.snd_buf)]
        /\ Settle(e, tcp_output(q, mem), net[e])

\* the application has used what it was given
Recved(e, mem) ==
    /\ Open(e) /\ unread[e] > 0
    /\ Faulty(Cost(~mem))
    /\ Settle(e, [tcp_recved(pcb[e], unread[e], mem) EXCEPT !.owed = -unread[e]], net[e])
    /\ UNCHANGED written

\* a reset within the window closes the connection
tcp_process(p, s) ==
    IF ~s.rst THEN tcp_receive(p, s)
    ELSE IF SEQ_BETWEEN(s.seqno, p.rcv_nxt, RightEdge(p)) THEN Purged(p)
    ELSE p

\* tcp_input, with what the application does with data refused before (again)
\* and with new data (take)
Input(p, s, again, take, mem) ==
    LET kept == p.refused_data # <<>>
        p1 == TCP_EVENT_RECV(p, p.refused_data, again, mem)
        p2 == tcp_process(p1, s)
        p3 == TCP_EVENT_RECV(p2, p2.recv_data, take, mem)
    IN  IF kept /\ again = "refuse" THEN p
        ELSE IF p2.state = "CLOSED" \/ p3.refused_data # <<>> THEN p3
        ELSE tcp_output(p3, mem)

\* tcp_rst, the answer to a segment for a connection that is gone
Refuse(p, s, mem) ==
    IF s.rst \/ ~mem THEN p
    ELSE [p EXCEPT !.out = <<[rst |-> TRUE, seqno |-> s.ackno, data |-> <<>>,
                              ackno |-> SegEnd(s), wnd |-> Wnd]>>]

\* Segment i under way to e arrives; overtaking another or leaving a copy
\* behind is a fault of the network, refusing new data one of the application
tcp_input(e, i, stays, again, take, mem) ==
    LET s == net[e][i]
        rest == IF stays THEN net[e] ELSE RemoveAt(net[e], i)
    IN  /\ Faulty(Cost(i > 1) + Cost(stays) + Cost(~mem) + Cost(take = "refuse"))
        /\ Settle(e, IF Open(e) THEN Input(pcb[e], s, again, take, mem)
                     ELSE Refuse(pcb[e], s, mem), rest)
        /\ UNCHANGED written

\* tcp_tmr: tcp_fasttmr, and every other time tcp_slowtmr
Tick(p, slow, due, again, mem) ==
    LET fast == DelayedAck(TCP_EVENT_RECV(p, p.refused_data, again, mem), mem)
    IN  IF slow THEN tcp_slowtmr(fast, due, mem) ELSE fast

Quiet == \A e \in End : net[e] = <<>>

\* A timer that expires while segments are under way, before their answer,
\* counts as a fault.
tcp_tmr(e, slow, due, again, mem) ==
    /\ Open(e)
    /\ Faulty(Cost(~mem) + Cost(due /\ ~Quiet))
    /\ Settle(e, Tick(pcb[e], slow, due, again, mem), net[e])
    /\ UNCHANGED written

Lose(e, i) ==
    /\ Faulty(1)
    /\ net' = [net EXCEPT ![e] = RemoveAt(@, i)]
    /\ UNCHANGED <<pcb, written, got, unread>>

\* what a receive callback may do, where there is data for it
Answers(data) == IF data = <<>> THEN {"now"} ELSE Takes

Next == \E e \in End :
    \/ \E n \in Lengths, copy \in Copies, mem \in BOOLEAN : Write(e, n, copy, mem)
    \/ \E mem \in BOOLEAN : Recved(e, mem)
    \/ \E i \in DOMAIN net[e], stays \in BOOLEAN, mem \in BOOLEAN,
          again \in Answers(pcb[e].refused_data) :
        \E take \in Answers(net[e][i].data) : tcp_input(e, i, stays, again, take, mem)
    \/ \E slow \in BOOLEAN, mem \in BOOLEAN, again \in Answers(pcb[e].refused_data) :
        \E due \in {FALSE, slow} : tcp_tmr(e, slow, due, again, mem)
    \/ \E i \in DOMAIN net[e] : Lose(e, i)

Spec == Init /\ [][Next]_vars

\* Segments arrive, the fast and the slow timer run, the latter's timers expire
\* once nothing is under way, memory is found, and an application that refused
\* data takes it in the end and reads what it is given.  Each line is weak
\* fairness of an action, with the condition that enables it spelt out.
Fairness == \A e \in End :
    /\ \/ []<>(net[e] = <<>>)
       \/ []<><<\E again \in Answers(pcb[e].refused_data) : \E take \in Takes :
                  tcp_input(e, 1, FALSE, again, take, TRUE)>>_vars
    /\ \/ []<>~(Open(e) /\ Quiet /\ Tick(pcb[e], TRUE, TRUE, "now", TRUE) # pcb[e])
       \/ []<><<Quiet /\ tcp_tmr(e, TRUE, TRUE, "now", TRUE)>>_vars
    /\ \/ []<>~(Open(e) /\ Tick(pcb[e], FALSE, FALSE, "now", TRUE) # pcb[e])
       \/ []<><<tcp_tmr(e, FALSE, FALSE, "now", TRUE)>>_vars
    /\ \/ []<>~(Open(e) /\ unread[e] > 0)
       \/ []<><<Recved(e, TRUE)>>_vars

FairSpec == Spec /\ Fairness

-----------------------------------------------------------------------------
\* Properties

SeqNo == 0..(Seq32 - 1)
Bytes == Seq(1..MaxBytes)
Queue == Seq([seqno : SeqNo, data : Bytes, pbufs : Nat])

\* Every field of a connection block keeps its type and nothing of a step is
\* left over; the unsigned counters of the code do not run below zero.
TypeOK ==
    /\ \A e \in End :
        /\ DOMAIN pcb[e] = DOMAIN Pcb(e, TRUE)
        /\ {pcb[e].snd_nxt, pcb[e].lastack, pcb[e].snd_lbb, pcb[e].snd_wl1, pcb[e].snd_wl2,
            pcb[e].rcv_nxt, pcb[e].rcv_ann_right_edge} \subseteq SeqNo
        /\ {pcb[e].snd_wnd, pcb[e].snd_buf, pcb[e].snd_queuelen, pcb[e].cwnd,
            pcb[e].ssthresh, pcb[e].rcv_wnd, pcb[e].rcv_ann_wnd} \subseteq 0..(U16 - 1)
        /\ {pcb[e].dupacks, pcb[e].nrtx} \subseteq 0..(U8 - 1)
        /\ pcb[e].unsent \in Queue /\ pcb[e].unacked \in Queue
        /\ pcb[e].refused_data \in Bytes
        /\ pcb[e].out = <<>> /\ pcb[e].given = <<>>
    /\ written \in [End -> 0..MaxBytes] /\ unread \in [End -> 0..MaxBytes]

\* The connection is a byte stream, whatever the network does: nothing is
\* delivered twice, out of order or altered (tcp_receive, tcp_enqueue).
Stream == INSTANCE ByteStream
IsByteStream == Stream!Spec

\* The segments on the two queues
Queued(e) == pcb[e].unacked \o pcb[e].unsent

\* The unacknowledged and the unsent segments together are what was written and
\* is not acknowledged, each byte once, under its own sequence number
\* (tcp_enqueue, tcp_rexmit, tcp_rexmit_rto, tcp_receive).
NothingForgotten ==
    \A e \in End : Open(e) =>
        LET acked == (pcb[e].lastack - Iss[e]) % Seq32
            of(b) == {x \in (DOMAIN Queued(e)) \X (1..Mss) :
                        /\ x[2] <= TCPLEN(Queued(e)[x[1]])
                        /\ Queued(e)[x[1]].data[x[2]] = b}
        IN  /\ \A b \in (acked + 1)..written[e] : Cardinality(of(b)) = 1
            /\ \A seg \in Range(Queued(e)) : \A j \in DOMAIN seg.data :
                   Plus(seg.seqno, j) = Plus(Iss[e], seg.data[j])

\* Each queue is in the order of the sequence numbers ("Keep the unsent queue
\* sorted", tcp_out.c:837).
QueuesSorted ==
    \A e \in End : \A q \in {pcb[e].unacked, pcb[e].unsent} :
        \A i \in 1..(Len(q) - 1) : SEQ_LT(q[i].seqno, q[i + 1].seqno)

\* The free send buffer and the unacknowledged bytes make up TCP_SND_BUF, and
\* snd_queuelen counts the pbufs of the queues (the LWIP_ASSERTs of tcp_receive
\* and tcp_enqueue).
SendBufferKept ==
    \A e \in End : Open(e) =>
        /\ pcb[e].snd_buf + ((pcb[e].snd_lbb - pcb[e].lastack) % Seq32) = SndBuf
        /\ pcb[e].snd_queuelen = Freed(Queued(e), <<>>)

\* The sender's queues, their order and the counters derived from them agree.
QueuesKept == TypeOK /\ QueuesSorted /\ SendBufferKept

\* The sender never counts on more window than the receiver has announced, so
\* that a segment is never cut (UpdateWindow, tcp_update_rcv_ann_wnd).
WindowHonoured ==
    \A e \in End : Open(e) /\ Open(Peer(e)) =>
        /\ SEQ_LEQ(Plus(pcb[e].lastack, pcb[e].snd_wnd), pcb[Peer(e)].rcv_ann_right_edge)
        /\ \A i \in DOMAIN net[Peer(e)] : LET s == net[Peer(e)][i] IN
               TCPLEN(s) > 1 => SEQ_LEQ(SegEnd(s), pcb[Peer(e)].rcv_ann_right_edge)

\* What is written is delivered, or the connection is given up: it never comes
\* to rest with bytes that have not arrived.
Arrives ==
    []<>(\A e \in End : Len(got[Peer(e)]) = written[e] \/ ~Open(e) \/ ~Open(Peer(e)))

=============================================================================
