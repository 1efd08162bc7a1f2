-------------------------- MODULE TcpStreamProofs --------------------------
EXTENDS TcpStream, SequenceTheorems, FiniteSetTheorems, WellFoundedInduction, TLAPS

-----------------------------------------------------------------------------
(* Numbers and sequences                                                   *)

\* Every set of naturals with a member has a least one.
LEMMA Least ==
  ASSUME NEW S \in SUBSET Nat, S # {}
  PROVE  \E x \in S : \A y \in S : x <= y
<1> DEFINE R == {ss \in Nat \X Nat : ss[1] < ss[2]}
<1>1. IsWellFoundedOn(R, Nat)
  BY NatLessThanWellFounded DEF OpToRel
<1>2. PICK x \in S : \A y \in S : ~(<<y, x>> \in R)
  <2> HIDE DEF R
  <2> QED BY <1>1, WFMin
<1>3. \A y \in S : ~(y < x)
  <2> TAKE y \in S
  <2>1. <<y, x>> \in R <=> y < x
    OBVIOUS
  <2> QED BY <2>1, <1>2
<1> QED BY <1>3

\* A set of numbers up to n has a greatest one.
LEMMA GreatestIn ==
    ASSUME NEW n \in Nat, NEW K \in SUBSET (0..n), K # {}
    PROVE  Max(K) \in K
  <1> DEFINE D == {n - k : k \in K}
  <1>1. D \in SUBSET Nat /\ D # {}
    <2>1. \A k \in K : k \in 0..n /\ n - k \in Nat
      OBVIOUS
    <2> QED BY <2>1
  <1>2. PICK d \in D : \A x \in D : d <= x
    <2> HIDE DEF D
    <2> QED BY <1>1, Least
  <1>3. PICK k \in K : d = n - k
    OBVIOUS
  <1>4. \A j \in K : k >= j
    BY <1>2, <1>3
  <1> QED BY <1>4 DEF Max

\* The smaller of two numbers is one of them.
LEMMA Smaller ==
    ASSUME NEW a \in Int, NEW b \in Int
    PROVE  Min({a, b}) \in Int /\ Min({a, b}) <= a /\ Min({a, b}) <= b
  <1>1. \E x \in {a, b} : \A y \in {a, b} : x <= y
    OBVIOUS
  <1>2. Min({a, b}) \in {a, b} /\ \A y \in {a, b} : Min({a, b}) <= y
    BY <1>1 DEF Min
  <1> QED BY <1>2

\* A piece of a list is a list of its members.
LEMMA Piece ==
    ASSUME NEW S, NEW s \in Seq(S), NEW m \in Int, NEW n \in Int, 1 <= m, n <= Len(s)
    PROVE  /\ SubSeq(s, m, n) \in Seq(S)
           /\ Len(SubSeq(s, m, n)) = IF m <= n THEN n - m + 1 ELSE 0
           /\ \A i \in 1..(n - m + 1) : SubSeq(s, m, n)[i] = s[m + i - 1]
  <1>1. \A i \in m..n : s[i] \in S
    BY ElementOfSeq, LenProperties
  <1> QED BY <1>1, SubSeqProperties

\* What SkipWhile leaves
LEMMA Rest ==
    ASSUME NEW S, NEW s \in Seq(S), NEW K \in SUBSET (0..Len(s)), 0 \in K
    PROVE  /\ Max(K) \in 0..Len(s)
           /\ SubSeq(s, Max(K) + 1, Len(s)) \in Seq(S)
           /\ Len(SubSeq(s, Max(K) + 1, Len(s))) = Len(s) - Max(K)
  <1>1. Len(s) \in Nat
    BY LenProperties
  <1>2. Max(K) \in 0..Len(s)
    BY <1>1, GreatestIn
  <1> HIDE DEF Max
  <1> QED BY <1>1, <1>2, Piece

\* A list with a member put in
LEMMA PutIn ==
    ASSUME NEW S, NEW s \in Seq(S), NEW x \in S, NEW n \in 0..Len(s)
    PROVE  LET l == SubSeq(s, 1, n) \o <<x>> \o SubSeq(s, n + 1, Len(s))
           IN  /\ l \in Seq(S)
               /\ Range(l) = Range(s) \cup {x}
  <1> DEFINE a == SubSeq(s, 1, n)
             b == SubSeq(s, n + 1, Len(s))
             one == <<x>>
  <1>0. Len(s) \in Nat /\ n \in Nat
    BY LenProperties
  <1>1. a \in Seq(S) /\ b \in Seq(S)
    BY <1>0, Piece
  <1>2. one \in Seq(S) /\ Range(one) = {x}
    <2>1. one \in Seq(S) /\ DOMAIN one = {1} /\ one[1] = x
      OBVIOUS
    <2> HIDE DEF one
    <2> QED BY <2>1 DEF Range
  <1>3. a \o b = s
    <2>1. n = Len(s) => b = <<>> /\ a = s
      BY <1>0, SubSeqEmpty, SubSeqFull
    <2>2. SubSeq(s, 1, n) \o SubSeq(s, n + 1, Len(s)) = SubSeq(s, 1, Len(s))
      <3>1. 1 \in 1..(Len(s) + 1) /\ n \in (1 - 1)..Len(s) /\ Len(s) \in n..Len(s)
        BY <1>0
      <3> QED BY <3>1, ConcatAdjacentSubSeq
    <2> QED BY <2>2, SubSeqFull
  <1>4. Range(s) = Range(a) \cup Range(b)
    <2> HIDE DEF a, b
    <2> QED BY <1>1, <1>3, RangeConcatenation
  <1> DEFINE c == a \o one
  <1> HIDE DEF a, b, one
  <1>5. a \o one \in Seq(S) /\ Range(a \o one) = Range(a) \cup {x}
    BY <1>1, <1>2, RangeConcatenation, ConcatProperties
  <1>6. /\ c \o b \in Seq(S)
        /\ Range(c \o b) = Range(c) \cup Range(b)
    <2> HIDE DEF c
    <2>1. c \in Seq(S)
      BY <1>5 DEF c
    <2> QED BY <1>1, <2>1, RangeConcatenation, ConcatProperties
  <1>7. /\ (a \o one) \o b \in Seq(S)
        /\ Range((a \o one) \o b) = Range(s) \cup {x}
    BY <1>4, <1>5, <1>6
  <1> QED BY <1>7 DEF a, b, one

\* ... in its place
LEMMA InsertIn ==
    ASSUME NEW S, NEW list \in Seq(S), NEW seg \in S
    PROVE  /\ Insert(list, seg) \in Seq(S)
           /\ Range(Insert(list, seg)) = Range(list) \cup {seg}
  <1> DEFINE K == {k \in 0..Len(list) : \A i \in 1..k : SEQ_LT(list[i].seqno, seg.seqno)}
             rest == SubSeq(list, Max(K) + 1, Len(list))
  <1>1. K \in SUBSET (0..Len(list)) /\ 0 \in K /\ Len(list) \in Nat
    BY LenProperties
  <1>2. Insert(list, seg) =
          SubSeq(list, 1, Len(list) - Len(rest)) \o <<seg>> \o rest
    BY Zenon DEF Insert, SkipWhile
  <1>3. Max(K) \in 0..Len(list) /\ Len(rest) = Len(list) - Max(K)
    <2> HIDE DEF K
    <2> QED BY <1>1, Rest
  <1>4. Len(list) - Len(rest) = Max(K)
    <2> HIDE DEF K, rest
    <2> QED BY <1>1, <1>3
  <1>5. Insert(list, seg) = SubSeq(list, 1, Max(K)) \o <<seg>> \o SubSeq(list, Max(K) + 1, Len(list))
    BY <1>2, <1>4
  <1> DEFINE n == Max(K)
             l == SubSeq(list, 1, n) \o <<seg>> \o SubSeq(list, n + 1, Len(list))
  <1> HIDE DEF K, rest
  <1>6. l \in Seq(S) /\ Range(l) = Range(list) \cup {seg}
    <2>1. n \in 0..Len(list)
      BY <1>3
    <2> HIDE DEF n
    <2> QED BY <2>1, PutIn
  <1>7. Insert(list, seg) = l
    BY <1>5
  <1> HIDE DEF l
  <1> QED BY <1>6, <1>7

\* Behind the last member
LEMMA AppendIn ==
    ASSUME NEW S, NEW s \in Seq(S), NEW x \in S
    PROVE  /\ Append(s, x) \in Seq(S)
           /\ Range(Append(s, x)) = Range(s) \cup {x}
  <1> DEFINE one == <<x>>
  <1>1. one \in Seq(S) /\ Range(one) = {x}
    <2>1. one \in Seq(S) /\ DOMAIN one = {1} /\ one[1] = x
      OBVIOUS
    <2> HIDE DEF one
    <2> QED BY <2>1 DEF Range
  <1>2. Append(s, x) = s \o one
    BY AppendIsConcat
  <1> HIDE DEF one
  <1> QED BY <1>1, <1>2, RangeConcatenation, ConcatProperties

-----------------------------------------------------------------------------
(* Connection blocks                                                       *)

Fields == DOMAIN Pcb("client", TRUE)

\* The fields that matter to the stream of bytes
LEMMA FieldsAre ==
    /\ {"state", "snd_nxt", "unsent", "unacked", "rcv_nxt", "rcv_wnd", "rcv_ann_wnd",
        "rcv_ann_right_edge", "snd_lbb", "lastack", "snd_buf", "refused_data", "recv_data", "out", "given", "owed"} \subseteq Fields
    /\ \A e, nodelay : DOMAIN Pcb(e, nodelay) = Fields
  BY DEF Fields, Pcb

\* Pieces of data with the sequence numbers of their first bytes; a piece may be
\* empty.
Pieces(G) == G \subseteq Int \X Seq(Nat) /\ \A n \in Int : <<n, <<>>>> \in G

\* Segments of a queue, and segments on their way, that carry such pieces
Segs(G) == {seg \in [seqno : Int, data : Seq(Nat), pbufs : Int] : <<seg.seqno, seg.data>> \in G}

Packets(G) ==
    {s \in [rst : BOOLEAN, seqno : Int, data : Seq(Nat), ackno : Int, wnd : Int] :
        <<s.seqno, s.data>> \in G}

\* The queues of a block, in terms of the segments S that may be on them
Queues(p, S) == p.unsent \in Seq(S) /\ p.unacked \in Seq(S)

Numbers(p) ==
    /\ p.snd_nxt \in Int /\ p.rcv_nxt \in Int /\ p.rcv_wnd \in Int
    /\ p.rcv_ann_wnd \in Int /\ p.rcv_ann_right_edge \in Int /\ p.owed \in Int
    /\ p.snd_lbb \in Int /\ p.lastack \in Int /\ p.snd_buf \in Int

\* A block that queues and sends only pieces of G
Sound(G, p) ==
    /\ DOMAIN p = Fields
    /\ Numbers(p)
    /\ Queues(p, Segs(G))
    /\ p.out \in Seq(Packets(G))

\* What a function that only sends leaves alone: all that was received
SameInput(p, q) ==
    /\ q.state = p.state /\ q.rcv_nxt = p.rcv_nxt /\ q.refused_data = p.refused_data
    /\ q.recv_data = p.recv_data /\ q.given = p.given /\ q.owed = p.owed

\* what has been written and acknowledged,
SameAccount(p, q) ==
    q.snd_lbb = p.snd_lbb /\ q.lastack = p.lastack /\ q.snd_buf = p.snd_buf

\* and what is queued
SameQueues(p, q) == q.unsent = p.unsent /\ q.unacked = p.unacked

SameNumbers(p, q) ==
    /\ SameAccount(p, q)
    /\ q.snd_nxt = p.snd_nxt /\ q.rcv_wnd = p.rcv_wnd /\ q.rcv_ann_wnd = p.rcv_ann_wnd
    /\ q.rcv_ann_right_edge = p.rcv_ann_right_edge

\* Nothing that matters has changed.
Alike(p, q) ==
    /\ DOMAIN q = Fields
    /\ SameInput(p, q) /\ SameQueues(p, q) /\ SameNumbers(p, q) /\ q.out = p.out

\* A block that differs in nothing that matters is as sound.
LEMMA AlikeSound ==
    ASSUME NEW G, NEW p, NEW q, Sound(G, p), Alike(p, q)
    PROVE  Sound(G, q) /\ SameInput(p, q)
  BY DEF Sound, Alike, Numbers, Queues, SameInput, SameQueues, SameNumbers, SameAccount

\* Parameters are numbers.
LEMMA Constants ==
    /\ {Seq32, U16, U8, Mss, Wnd, SndBuf, SndQueueLen} \subseteq Nat \ {0}
    /\ Seq32 \in Nat \ {0} /\ Mss \in Nat \ {0} /\ Wnd \in Nat \ {0}
    /\ MaxBytes \in Nat /\ NetCap \in Nat /\ Lengths \subseteq Nat \ {0}
    /\ Iss \in [End -> 0..(Seq32 - 1)] /\ \A e \in End : Iss[e] \in Int
  BY StreamAssumption

\* Sequence numbers are numbers.
LEMMA PlusIn ==
    ASSUME NEW a \in Int, NEW b \in Int
    PROVE  Plus(a, b) \in 0..(Seq32 - 1) /\ Plus(a, b) \in Int
  BY StreamAssumption DEF Plus

\* Emit adds a packet and remembers the edge of the window.
LEMMA EmitFields ==
    ASSUME NEW p, DOMAIN p = Fields, NEW seqno, NEW data
    PROVE  LET q == Emit(p, seqno, data)
               s == [rst |-> FALSE, seqno |-> seqno, data |-> data,
                     ackno |-> p.rcv_nxt, wnd |-> p.rcv_ann_wnd]
           IN  /\ DOMAIN q = Fields
               /\ SameInput(p, q) /\ SameQueues(p, q) /\ SameAccount(p, q)
               /\ q.snd_nxt = p.snd_nxt /\ q.rcv_wnd = p.rcv_wnd
               /\ q.rcv_ann_wnd = p.rcv_ann_wnd
               /\ q.rcv_ann_right_edge = Plus(p.rcv_nxt, p.rcv_ann_wnd)
               /\ q.out = Append(p.out, s)
  BY FieldsAre, Zenon DEF Emit, SameInput, SameQueues, SameAccount

\* Emit sends a piece of G: the block stays sound.
LEMMA EmitSound ==
    ASSUME NEW G, Pieces(G), NEW p, Sound(G, p), NEW seqno, NEW data, <<seqno, data>> \in G
    PROVE  LET q == Emit(p, seqno, data)
           IN  Sound(G, q) /\ SameInput(p, q) /\ SameQueues(p, q) /\ q.snd_nxt = p.snd_nxt
  <1> DEFINE q == Emit(p, seqno, data)
             s == [rst |-> FALSE, seqno |-> seqno, data |-> data,
                   ackno |-> p.rcv_nxt, wnd |-> p.rcv_ann_wnd]
  <1>1. DOMAIN p = Fields /\ Numbers(p) /\ Queues(p, Segs(G)) /\ p.out \in Seq(Packets(G))
    BY DEF Sound
  <1>2. /\ DOMAIN q = Fields
        /\ SameInput(p, q) /\ SameQueues(p, q) /\ SameAccount(p, q)
        /\ q.snd_nxt = p.snd_nxt /\ q.rcv_wnd = p.rcv_wnd
        /\ q.rcv_ann_wnd = p.rcv_ann_wnd
        /\ q.rcv_ann_right_edge = Plus(p.rcv_nxt, p.rcv_ann_wnd)
        /\ q.out = Append(p.out, s)
    BY <1>1, EmitFields
  <1>3. s \in Packets(G)
    <2>1. seqno \in Int /\ data \in Seq(Nat)
      BY DEF Pieces
    <2>2. s \in [rst : BOOLEAN, seqno : Int, data : Seq(Nat), ackno : Int, wnd : Int]
      BY <1>1, <2>1 DEF Numbers
    <2>3. s.seqno = seqno /\ s.data = data
      OBVIOUS
    <2> HIDE DEF s
    <2> QED BY <2>2, <2>3 DEF Packets
  <1> HIDE DEF q, s
  <1>4. q.out \in Seq(Packets(G))
    BY <1>1, <1>2, <1>3, AppendIn
  <1>5. Numbers(q)
    BY <1>1, <1>2, PlusIn DEF Numbers, SameInput, SameAccount
  <1>6. Queues(q, Segs(G))
    BY <1>1, <1>2 DEF Queues, SameQueues
  <1> QED BY <1>2, <1>4, <1>5, <1>6 DEF Sound, q

-----------------------------------------------------------------------------
(* tcp_output                                                              *)

\* The end of a segment is a number.
LEMMA SegEndIn ==
    ASSUME NEW G, NEW seg \in Segs(G)
    PROVE  SegEnd(seg) \in Int
  <1>1. seg.seqno \in Int /\ seg.data \in Seq(Nat)
    BY DEF Segs
  <1>2. Len(seg.data) \in Int
    BY <1>1, LenProperties
  <1> QED BY <1>1, <1>2, PlusIn DEF SegEnd, TCPLEN

\* One turn of the loop: the segment at the head of unsent goes out and to
\* unacked.
LEMMA SendSegmentSound ==
    ASSUME NEW G, Pieces(G), NEW p, Sound(G, p), NEW seg \in Segs(G)
    PROVE  /\ p.unsent # <<>> => Sound(G, SendSegment(p, seg))
           /\ SameInput(p, SendSegment(p, seg))
           /\ SendSegment(p, seg).unsent = Tail(p.unsent)
           /\ Range(SendSegment(p, seg).unacked) = Range(p.unacked) \cup {seg}
  <1> DEFINE m == Emit(p, seg.seqno, seg.data)
             nxt == IF SEQ_LT(m.snd_nxt, SegEnd(seg)) THEN SegEnd(seg) ELSE m.snd_nxt
             una == IF m.unacked # <<>> /\ SEQ_LT(seg.seqno, Last(m.unacked).seqno)
                    THEN Insert(m.unacked, seg) ELSE Append(m.unacked, seg)
             q == [m EXCEPT !.ack_delay = FALSE, !.ack_now = FALSE, !.rtime = TRUE,
                            !.snd_nxt = nxt, !.unsent = Tail(m.unsent), !.unacked = una]
  <1>1. SendSegment(p, seg) = q
    BY Zenon DEF SendSegment
  <1>2. /\ Sound(G, m) /\ SameInput(p, m) /\ SameQueues(p, m) /\ m.snd_nxt = p.snd_nxt
    <2>1. <<seg.seqno, seg.data>> \in G
      BY DEF Segs
    <2> QED BY <2>1, EmitSound
  <1>3. nxt \in Int
    <2>1. SegEnd(seg) \in Int
      BY SegEndIn
    <2> HIDE DEF m
    <2> QED BY <1>2, <2>1 DEF Sound, Numbers
  <1>4. una \in Seq(Segs(G)) /\ Range(una) = Range(p.unacked) \cup {seg}
    <2>1. m.unacked \in Seq(Segs(G)) /\ m.unacked = p.unacked
      BY <1>2 DEF Sound, Queues, SameQueues
    <2> HIDE DEF m
    <2> QED BY <2>1, InsertIn, AppendIn
  <1>5. /\ DOMAIN q = Fields
        /\ SameInput(m, q) /\ SameAccount(m, q)
        /\ q.out = m.out
        /\ q.snd_nxt = nxt /\ q.rcv_wnd = m.rcv_wnd /\ q.rcv_ann_wnd = m.rcv_ann_wnd
        /\ q.rcv_ann_right_edge = m.rcv_ann_right_edge
        /\ q.unsent = Tail(m.unsent) /\ q.unacked = una
    <2> DOMAIN m = Fields
      BY <1>2 DEF Sound
    <2> HIDE DEF m, una, nxt
    <2> QED BY FieldsAre, Zenon DEF SameInput, SameAccount
  <1> HIDE DEF q, una, nxt, m
  <1>6. SameInput(p, q)
    BY <1>2, <1>5 DEF SameInput
  <1>7. m.unsent = p.unsent
    BY <1>2 DEF SameQueues
  <1>8. ASSUME p.unsent # <<>> PROVE Sound(G, q)
    <2>1. q.unsent \in Seq(Segs(G))
      BY <1>2, <1>5, <1>7, <1>8, HeadTailProperties DEF Sound, Queues
    <2> QED BY <1>2, <1>3, <1>4, <1>5, <2>1 DEF Sound, Queues, Numbers, SameInput, SameAccount
  <1> QED BY <1>1, <1>4, <1>5, <1>6, <1>7, <1>8

\* The turns of the loop, one after the other, are a function.
LEMMA TurnsExist ==
    ASSUME NEW p, NEW n \in Nat
    PROVE  \E g : g = [k \in 0..n |-> IF k = 0 THEN p ELSE SendSegment(g[k - 1], p.unsent[k])]
  <1> DEFINE Good(m, f) == f = [k \in 0..m |-> IF k = 0 THEN p
                                               ELSE SendSegment(f[k - 1], p.unsent[k])]
             Bad == {m \in 0..n : ~ \E f : Good(m, f)}
  <1>1. Bad = {}
    <2> SUFFICES ASSUME Bad # {} PROVE FALSE
      OBVIOUS
    <2>1. PICK m \in Bad : \A x \in Bad : m <= x
      <3>1. Bad \in SUBSET Nat
        OBVIOUS
      <3> HIDE DEF Bad
      <3> QED BY <3>1, Least
    <2>2. m \in 0..n /\ ~ \E f : Good(m, f)
      BY <2>1
    <2>3. m # 0
      <3> DEFINE f == [k \in 0..0 |-> p]
      <3>1. Good(0, f)
        OBVIOUS
      <3> QED BY <2>2, <3>1
    <2>4. m \in 1..n /\ m - 1 \in 0..n /\ m - 1 \notin Bad
      <3> HIDE DEF Bad, Good
      <3>1. m \in 1..n /\ m - 1 \in 0..n /\ ~(m <= m - 1)
        BY <2>2, <2>3
      <3> QED BY <2>1, <3>1
    <2>5. PICK f : Good(m - 1, f)
      BY <2>4
    <2> DEFINE g == [i \in 0..m |-> IF i = m THEN SendSegment(f[m - 1], p.unsent[m]) ELSE f[i]]
    <2>6. Good(m, g)
      <3>1. \A i \in 0..m : g[i] = IF i = 0 THEN p ELSE SendSegment(g[i - 1], p.unsent[i])
        <4> TAKE i \in 0..m
        <4>1. CASE i = m
          <5>1. g[i] = SendSegment(f[m - 1], p.unsent[m]) /\ g[m - 1] = f[m - 1]
            BY <2>4, <4>1
          <5> QED BY <2>3, <4>1, <5>1
        <4>2. CASE i # m
          <5>1. i \in 0..(m - 1) /\ g[i] = f[i]
            BY <2>4, <4>2
          <5>2. f[i] = IF i = 0 THEN p ELSE SendSegment(f[i - 1], p.unsent[i])
            BY <2>5, <5>1
          <5>3. i # 0 => g[i - 1] = f[i - 1]
            BY <2>4, <5>1
          <5> HIDE DEF g
          <5> QED BY <5>1, <5>2, <5>3
        <4> QED BY <4>1, <4>2
      <3>2. g = [i \in 0..m |-> g[i]]
        OBVIOUS
      <3> HIDE DEF g
      <3> QED BY <3>1, <3>2
    <2> QED BY <2>2, <2>6
  <1>2. n \in 0..n
    OBVIOUS
  <1> QED BY <1>1, <1>2

\* After k turns the first k segments of unsent are on unacked.
LEMMA AfterTurns ==
    ASSUME NEW G, Pieces(G), NEW p, Sound(G, p), NEW n \in 0..Len(p.unsent), NEW turn,
           turn[0] = p, \A k \in 1..n : turn[k] = SendSegment(turn[k - 1], p.unsent[k])
    PROVE  /\ Sound(G, turn[n]) /\ SameInput(p, turn[n])
           /\ Range(p.unsent) \cup Range(p.unacked)
                \subseteq Range(turn[n].unsent) \cup Range(turn[n].unacked)
  <1> DEFINE u == p.unsent
             After(k) == /\ Sound(G, turn[k]) /\ SameInput(p, turn[k])
                         /\ turn[k].unsent = SubSeq(u, k + 1, Len(u))
                         /\ Range(p.unacked) \subseteq Range(turn[k].unacked)
                         /\ \A i \in 1..k : u[i] \in Range(turn[k].unacked)
             Bad == {k \in 0..n : ~ After(k)}
  <1>0. u \in Seq(Segs(G)) /\ Len(u) \in Nat /\ n \in Nat /\ n <= Len(u)
    BY LenProperties DEF Sound, Queues
  <1>1. Bad = {}
    <2> SUFFICES ASSUME Bad # {} PROVE FALSE
      OBVIOUS
    <2>1. PICK m \in Bad : \A x \in Bad : m <= x
      <3>1. Bad \in SUBSET Nat
        BY <1>0
      <3> HIDE DEF Bad
      <3> QED BY <3>1, Least
    <2>2. m \in 0..n /\ ~ After(m)
      BY <2>1
    <2>3. m # 0
      <3>1. turn[0] = p
        OBVIOUS
      <3>2. SubSeq(u, 0 + 1, Len(u)) = u
        BY <1>0, SubSeqFull
      <3>3. After(0)
        BY <3>1, <3>2 DEF SameInput
      <3> HIDE DEF After
      <3> QED BY <2>2, <3>3
    <2>4. m \in 1..n /\ m - 1 \in 0..n /\ m - 1 \notin Bad
      <3> HIDE DEF Bad, After
      <3>1. m \in 1..n /\ m - 1 \in 0..n /\ ~(m <= m - 1)
        BY <1>0, <2>2, <2>3
      <3> QED BY <2>1, <3>1
    <2>5. After(m - 1)
      <3> HIDE DEF After
      <3> QED BY <2>4
    <2> DEFINE o == turn[m - 1]
               seg == u[m]
               q == turn[m]
    <2>6. q = SendSegment(o, seg)
      BY <1>0, <2>4
    <2>7. seg \in Segs(G)
      BY <1>0, <2>4, ElementOfSeq
    <2>8. o.unsent = SubSeq(u, m, Len(u)) /\ Sound(G, o) /\ SameInput(p, o)
      BY <1>0, <2>4, <2>5
    <2>9. o.unsent # <<>> /\ Tail(o.unsent) = SubSeq(u, m + 1, Len(u))
      <3>1. m \in 1..Len(u) /\ Len(u) \in m..Len(u)
        BY <1>0, <2>4
      <3>2. Len(SubSeq(u, m, Len(u))) = Len(u) - m + 1
        BY <1>0, <3>1, Piece
      <3>3. SubSeq(u, m, Len(u)) # <<>>
        <4> DEFINE r == SubSeq(u, m, Len(u))
        <4>1. Len(r) > 0
          BY <1>0, <3>1, <3>2
        <4> HIDE DEF r
        <4>2. r # <<>>
          BY <4>1
        <4> QED BY <4>2 DEF r
      <3>4. Tail(SubSeq(u, m, Len(u))) = SubSeq(u, m + 1, Len(u))
        <4> HIDE DEF u
        <4> QED BY <1>0, <3>1, HeadTailOfSubSeq
      <3> HIDE DEF o, u
      <3> QED BY <2>8, <3>3, <3>4
    <2>10. /\ Sound(G, q) /\ SameInput(o, q)
           /\ q.unsent = Tail(o.unsent)
           /\ Range(q.unacked) = Range(o.unacked) \cup {seg}
      <3> HIDE DEF o, seg, q
      <3>1. /\ o.unsent # <<>> => Sound(G, SendSegment(o, seg))
            /\ SameInput(o, SendSegment(o, seg))
            /\ SendSegment(o, seg).unsent = Tail(o.unsent)
            /\ Range(SendSegment(o, seg).unacked) = Range(o.unacked) \cup {seg}
        <4>1. Sound(G, o) /\ seg \in Segs(G)
          BY <2>7, <2>8
        <4> HIDE DEF Bad, After, u
        <4> QED BY <4>1, SendSegmentSound
      <3> QED BY <2>6, <2>9, <3>1
    <2>11. SameInput(p, q)
      <3> HIDE DEF o, q
      <3> QED BY <2>8, <2>10 DEF SameInput
    <2>12. \A i \in 1..m : u[i] \in Range(q.unacked)
      <3> TAKE i \in 1..m
      <3>1. i = m \/ i \in 1..(m - 1)
        BY <1>0, <2>4
      <3>2. i \in 1..(m - 1) => u[i] \in Range(o.unacked)
        BY <2>5
      <3> HIDE DEF o, q
      <3> QED BY <2>10, <3>1, <3>2
    <2>13. Range(p.unacked) \subseteq Range(q.unacked)
      <3>1. Range(p.unacked) \subseteq Range(o.unacked)
        BY <2>5
      <3> HIDE DEF o, q, seg
      <3> QED BY <2>10, <3>1
    <2>14. q.unsent = SubSeq(u, m + 1, Len(u))
      BY <2>9, <2>10
    <2>15. After(m)
      BY <2>10, <2>11, <2>12, <2>13, <2>14
    <2> HIDE DEF After
    <2> QED BY <2>2, <2>15
  <1>2. After(n)
    <2> HIDE DEF After
    <2>1. n \in 0..n
      BY <1>0
    <2> QED BY <1>1, <2>1
  <1>3. \A i \in 1..Len(u) : u[i] \in Range(turn[n].unsent) \cup Range(turn[n].unacked)
    <2> TAKE i \in 1..Len(u)
    <2>1. CASE i <= n
      BY <1>0, <1>2, <2>1
    <2>2. CASE i > n
      <3> DEFINE r == SubSeq(u, n + 1, Len(u))
      <3>1. r \in Seq(Segs(G)) /\ Len(r) = Len(u) - n /\ r[i - n] = u[i]
        BY <1>0, <2>2, Piece
      <3>2. i - n \in DOMAIN r
        <4> HIDE DEF r
        <4> QED BY <1>0, <2>2, <3>1, LenProperties
      <3>3. r[i - n] \in Range(r)
        <4> HIDE DEF r
        <4> QED BY <3>2 DEF Range
      <3> QED BY <1>2, <3>1, <3>3
    <2> QED BY <1>0, <2>1, <2>2
  <1>4. Range(u) \subseteq Range(turn[n].unsent) \cup Range(turn[n].unacked)
    <2> HIDE DEF u
    <2> QED BY <1>0, <1>3, RangeEquality
  <1> QED BY <1>2, <1>4

\* tcp_output sends good segments only and loses none.
LEMMA OutputSound ==
    ASSUME NEW G, Pieces(G), NEW p, Sound(G, p), NEW mem
    PROVE  LET q == tcp_output(p, mem)
           IN  /\ Sound(G, q) /\ SameInput(p, q)
               /\ Range(p.unsent) \cup Range(p.unacked)
                    \subseteq Range(q.unsent) \cup Range(q.unacked)
  <1> DEFINE stuck == \/ p.unsent = <<>>
                      \/ Reach(p, p.unsent[1]) > Min({p.snd_wnd, p.cwnd})
             K == {k \in 0..Len(p.unsent) : \A i \in 1..k : Sendable(p, i)}
             n == Max(K)
             turn[k \in 0..n] == IF k = 0 THEN p ELSE SendSegment(turn[k - 1], p.unsent[k])
             sent == turn[n]
             late == /\ sent.unsent # <<>> /\ ~sent.persist
                     /\ Reach(sent, sent.unsent[1]) > sent.snd_wnd
             q1 == Emit(p, p.snd_nxt, <<>>)
             q2 == [q1 EXCEPT !.ack_delay = FALSE, !.ack_now = FALSE]
             q3 == [sent EXCEPT !.persist = sent.persist \/ late, !.naglememerr = FALSE]
  <1>1. tcp_output(p, mem) = IF p.ack_now /\ stuck THEN IF mem THEN q2 ELSE p ELSE q3
    BY Zenon DEF tcp_output
  <1>2. /\ Sound(G, q2) /\ SameInput(p, q2)
        /\ q2.unsent = p.unsent /\ q2.unacked = p.unacked
    <2> DEFINE none == <<>>
    <2>1. <<p.snd_nxt, none>> \in G
      BY DEF Sound, Numbers, Pieces
    <2>2. Sound(G, q1) /\ SameInput(p, q1) /\ SameQueues(p, q1)
      <3> HIDE DEF none
      <3>1. LET q == Emit(p, p.snd_nxt, none) IN Sound(G, q) /\ SameInput(p, q) /\ SameQueues(p, q)
        BY <2>1, EmitSound
      <3> QED BY <3>1 DEF none
    <2>3. Alike(q1, q2)
      <3> DOMAIN q1 = Fields
        BY <2>2 DEF Sound
      <3> HIDE DEF q1
      <3> QED BY FieldsAre, Zenon DEF Alike, SameInput, SameQueues, SameNumbers, SameAccount
    <2> HIDE DEF q1, q2
    <2>4. Sound(G, q2) /\ SameInput(q1, q2)
      BY <2>2, <2>3, AlikeSound
    <2> QED BY <2>2, <2>3, <2>4 DEF SameInput, SameQueues, Alike
  <1>3. n \in 0..Len(p.unsent) /\ n \in Nat
    <2>1. p.unsent \in Seq(Segs(G)) /\ Len(p.unsent) \in Nat
      BY LenProperties DEF Sound, Queues
    <2>2. K \in SUBSET (0..Len(p.unsent)) /\ 0 \in K
      BY <2>1
    <2> HIDE DEF K
    <2> QED BY <2>1, <2>2, Rest
  <1>4. turn = [k \in 0..n |-> IF k = 0 THEN p ELSE SendSegment(turn[k - 1], p.unsent[k])]
    <2> HIDE DEF n
    <2>1. \E g : g = [k \in 0..n |-> IF k = 0 THEN p ELSE SendSegment(g[k - 1], p.unsent[k])]
      BY <1>3, TurnsExist
    <2> QED BY <2>1
  <1>5. /\ Sound(G, sent) /\ SameInput(p, sent)
        /\ Range(p.unsent) \cup Range(p.unacked) \subseteq Range(sent.unsent) \cup Range(sent.unacked)
    <2>1. turn[0] = p /\ \A k \in 1..n : turn[k] = SendSegment(turn[k - 1], p.unsent[k])
      <3> HIDE DEF turn, n
      <3> QED BY <1>3, <1>4
    <2> HIDE DEF turn, n
    <2> QED BY <1>3, <2>1, AfterTurns
  <1>6. Sound(G, q3) /\ SameInput(p, q3) /\ q3.unsent = sent.unsent /\ q3.unacked = sent.unacked
    <2>1. Alike(sent, q3)
      <3> DOMAIN sent = Fields
        BY <1>5 DEF Sound
      <3> HIDE DEF sent, late
      <3> QED BY FieldsAre, Zenon DEF Alike, SameInput, SameQueues, SameNumbers, SameAccount
    <2> HIDE DEF sent, q3
    <2>2. Sound(G, q3) /\ SameInput(sent, q3)
      BY <1>5, <2>1, AlikeSound
    <2> QED BY <1>5, <2>1, <2>2 DEF SameInput, SameQueues, Alike
  <1> HIDE DEF stuck, q2, q3, sent
  <1> QED BY <1>1, <1>2, <1>5, <1>6 DEF SameInput


-----------------------------------------------------------------------------
(* Retransmission, acknowledgments and windows                             *)

\* The flags that ask for an acknowledgment
LEMMA AckSound ==
    ASSUME NEW G, NEW p, Sound(G, p)
    PROVE  /\ Sound(G, tcp_ack_now(p)) /\ SameInput(p, tcp_ack_now(p))
           /\ Sound(G, tcp_ack(p)) /\ SameInput(p, tcp_ack(p))
  <1> DOMAIN p = Fields
    BY DEF Sound
  <1>1. Alike(p, tcp_ack_now(p))
    BY FieldsAre, Zenon DEF tcp_ack_now, Alike, SameInput, SameQueues, SameNumbers, SameAccount
  <1>2. Alike(p, tcp_ack(p))
    BY FieldsAre, Zenon DEF tcp_ack, Alike, SameInput, SameQueues, SameNumbers, SameAccount
  <1> QED BY <1>1, <1>2, AlikeSound

\* A retransmission moves segments from one queue to the other,
LEMMA MoveSound ==
    ASSUME NEW G, NEW p, Sound(G, p), NEW unsent \in Seq(Segs(G)), NEW unacked \in Seq(Segs(G)),
           NEW nrtx
    PROVE  LET q == [p EXCEPT !.unsent = unsent, !.unacked = unacked, !.nrtx = nrtx]
           IN  Sound(G, q) /\ SameInput(p, q) /\ q.unsent = unsent /\ q.unacked = unacked
  <1> DEFINE q == [p EXCEPT !.unsent = unsent, !.unacked = unacked, !.nrtx = nrtx]
  <1>1. /\ DOMAIN q = Fields /\ SameInput(p, q) /\ SameNumbers(p, q) /\ q.out = p.out
        /\ q.unsent = unsent /\ q.unacked = unacked
    <2> DOMAIN p = Fields
      BY DEF Sound
    <2> QED BY FieldsAre, Zenon DEF SameInput, SameNumbers, SameAccount
  <1> HIDE DEF q
  <1>2. Sound(G, q)
    BY <1>1 DEF Sound, Numbers, Queues, SameInput, SameNumbers, SameAccount
  <1> QED BY <1>1, <1>2 DEF q

\* all of them after a timeout,
LEMMA RtoSound ==
    ASSUME NEW G, Pieces(G), NEW p, Sound(G, p), NEW mem
    PROVE  LET q == tcp_rexmit_rto(p, mem) IN Sound(G, q) /\ SameInput(p, q)
  <1> DEFINE unsent == p.unacked \o p.unsent
             none == <<>>
             nrtx == (p.nrtx + 1) % U8
             m == [p EXCEPT !.unsent = unsent, !.unacked = none, !.nrtx = nrtx]
  <1>1. tcp_rexmit_rto(p, mem) = tcp_output(m, mem)
    BY Zenon DEF tcp_rexmit_rto
  <1>2. unsent \in Seq(Segs(G)) /\ none \in Seq(Segs(G))
    BY ConcatProperties DEF Sound, Queues
  <1>3. Sound(G, m) /\ SameInput(p, m)
    <2> HIDE DEF unsent, none, nrtx
    <2> QED BY <1>2, MoveSound
  <1> HIDE DEF m
  <1>4. Sound(G, tcp_output(m, mem)) /\ SameInput(m, tcp_output(m, mem))
    BY <1>3, OutputSound
  <1> QED BY <1>1, <1>3, <1>4 DEF SameInput

\* the first of them after three acknowledgments of what is in front of it.
LEMMA RexmitSound ==
    ASSUME NEW G, NEW p, Sound(G, p), p.unacked # <<>>
    PROVE  Sound(G, tcp_rexmit(p)) /\ SameInput(p, tcp_rexmit(p))
  <1> DEFINE first == p.unacked[1]
             unsent == Insert(p.unsent, first)
             unacked == Tail(p.unacked)
             nrtx == (p.nrtx + 1) % U8
             m == [p EXCEPT !.unsent = unsent, !.unacked = unacked, !.nrtx = nrtx]
  <1>1. DOMAIN p = Fields /\ p.unacked \in Seq(Segs(G)) /\ p.unsent \in Seq(Segs(G))
    BY DEF Sound, Queues
  <1>2. tcp_rexmit(p) = m
    <2>1. [p EXCEPT !.unacked = unacked, !.unsent = unsent, !.nrtx = nrtx] = m
      <3> HIDE DEF unsent, unacked, nrtx
      <3> QED BY Zenon
    <2> QED BY <2>1, Zenon DEF tcp_rexmit
  <1>3. first \in Segs(G) /\ unacked \in Seq(Segs(G))
    <2>1. Len(p.unacked) \in Nat /\ Len(p.unacked) # 0
      BY <1>1, EmptySeq, LenProperties
    <2> QED BY <1>1, <2>1, ElementOfSeq, HeadTailProperties
  <1>4. unsent \in Seq(Segs(G))
    <2> HIDE DEF first
    <2> QED BY <1>1, <1>3, InsertIn
  <1>5. Sound(G, m) /\ SameInput(p, m)
    <2> HIDE DEF unsent, unacked, nrtx
    <2> QED BY <1>3, <1>4, MoveSound
  <1> HIDE DEF m
  <1> QED BY <1>2, <1>5

\* The first byte of a piece is a piece.
FirstBytes(G) == \A d \in G : <<d[1], SubSeq(d[2], 1, 1)>> \in G

\* A probe is the first byte of a queued segment, under its number.
LEMMA ProbeSound ==
    ASSUME NEW G, Pieces(G), FirstBytes(G), NEW p, Sound(G, p), NEW mem
    PROVE  LET q == tcp_zero_window_probe(p, mem) IN Sound(G, q) /\ SameInput(p, q)
  <1> DEFINE queue == p.unacked \o p.unsent
             seqno == queue[1].seqno
             data == SubSeq(queue[1].data, 1, 1)
             q == Emit(p, seqno, data)
  <1>1. tcp_zero_window_probe(p, mem) = IF queue = <<>> \/ ~mem THEN p ELSE q
    BY Zenon DEF tcp_zero_window_probe
  <1>2. ASSUME queue # <<>> PROVE Sound(G, q) /\ SameInput(p, q)
    <2>1. queue \in Seq(Segs(G))
      BY ConcatProperties DEF Sound, Queues
    <2> HIDE DEF queue
    <2>2. Len(queue) \in Nat /\ Len(queue) # 0
      BY <1>2, <2>1, EmptySeq, LenProperties
    <2>3. queue[1] \in Segs(G)
      BY <2>1, <2>2, ElementOfSeq
    <2>4. <<queue[1].seqno, queue[1].data>> \in G
      BY <2>3 DEF Segs
    <2>5. <<seqno, data>> \in G
      BY <2>4 DEF FirstBytes
    <2> HIDE DEF seqno, data
    <2> QED BY <2>5, EmitSound
  <1> HIDE DEF queue, q
  <1> QED BY <1>1, <1>2 DEF SameInput

\* The window that is announced is a number.
LEMMA AnnounceSound ==
    ASSUME NEW G, NEW p, Sound(G, p)
    PROVE  LET q == tcp_update_rcv_ann_wnd(p) IN Sound(G, q) /\ SameInput(p, q)
  <1> DEFINE wnd == IF CanAnnounce(p) THEN p.rcv_wnd
                    ELSE IF SEQ_GT(p.rcv_nxt, p.rcv_ann_right_edge) THEN 0
                    ELSE (p.rcv_ann_right_edge - p.rcv_nxt) % Seq32
             q == [p EXCEPT !.rcv_ann_wnd = wnd]
  <1>1. tcp_update_rcv_ann_wnd(p) = q
    BY Zenon DEF tcp_update_rcv_ann_wnd
  <1>2. wnd \in Int
    <2>1. p.rcv_wnd \in Int /\ p.rcv_nxt \in Int /\ p.rcv_ann_right_edge \in Int
      BY DEF Sound, Numbers
    <2>2. (p.rcv_ann_right_edge - p.rcv_nxt) % Seq32 \in Int
      BY <2>1, StreamAssumption
    <2> QED BY <2>1, <2>2
  <1>3. /\ DOMAIN q = Fields /\ SameInput(p, q) /\ SameAccount(p, q) /\ SameQueues(p, q)
        /\ q.out = p.out /\ q.snd_nxt = p.snd_nxt /\ q.rcv_wnd = p.rcv_wnd
        /\ q.rcv_ann_wnd = wnd /\ q.rcv_ann_right_edge = p.rcv_ann_right_edge
    <2> DOMAIN p = Fields
      BY DEF Sound
    <2> HIDE DEF wnd
    <2> QED BY FieldsAre, Zenon DEF SameInput, SameAccount, SameQueues
  <1> HIDE DEF q, wnd
  <1> QED BY <1>1, <1>2, <1>3 DEF Sound, Numbers, Queues, SameInput, SameAccount, SameQueues

\* A number in the place of another
LEMMA RcvWndSound ==
    ASSUME NEW G, NEW p, Sound(G, p), NEW wnd \in Int
    PROVE  LET q == [p EXCEPT !.rcv_wnd = wnd] IN Sound(G, q) /\ SameInput(p, q)
  <1> DEFINE q == [p EXCEPT !.rcv_wnd = wnd]
  <1>1. /\ DOMAIN q = Fields /\ SameInput(p, q) /\ SameAccount(p, q) /\ SameQueues(p, q)
        /\ q.out = p.out /\ q.snd_nxt = p.snd_nxt /\ q.rcv_wnd = wnd
        /\ q.rcv_ann_wnd = p.rcv_ann_wnd /\ q.rcv_ann_right_edge = p.rcv_ann_right_edge
    <2> DOMAIN p = Fields
      BY DEF Sound
    <2> QED BY FieldsAre, Zenon DEF SameInput, SameAccount, SameQueues
  <1> HIDE DEF q
  <1>2. Sound(G, q) /\ SameInput(p, q)
    BY <1>1 DEF Sound, Numbers, Queues, SameInput, SameAccount, SameQueues
  <1> QED BY <1>2 DEF q

\* tcp_recved opens the window and may send.
LEMMA RecvedSound ==
    ASSUME NEW G, Pieces(G), NEW p, Sound(G, p), NEW len \in Int, NEW mem
    PROVE  LET q == tcp_recved(p, len, mem) IN Sound(G, q) /\ SameInput(p, q)
  <1> DEFINE wnd == Min({p.rcv_wnd + len, Wnd})
             q == [p EXCEPT !.rcv_wnd = wnd]
             inflation == IF CanAnnounce(q)
                          THEN (RightEdge(q) - q.rcv_ann_right_edge) % Seq32 ELSE 0
             u == tcp_update_rcv_ann_wnd(q)
             a == tcp_ack_now(u)
             o == tcp_output(a, mem)
  <1>1. tcp_recved(p, len, mem) = IF inflation >= Wnd \div 4 THEN o ELSE u
    BY Zenon DEF tcp_recved
  <1>2. wnd \in Int
    <2>1. Wnd \in Int
      BY Constants
    <2>2. p.rcv_wnd + len \in Int
      BY DEF Sound, Numbers
    <2>3. \A x, y \in Int : Min({x, y}) \in Int
      BY Smaller
    <2> QED BY <2>1, <2>2, <2>3
  <1>3. Sound(G, q) /\ SameInput(p, q)
    <2> HIDE DEF wnd
    <2> QED BY <1>2, RcvWndSound
  <1> HIDE DEF q
  <1>4. Sound(G, u) /\ SameInput(q, u)
    BY <1>3, AnnounceSound
  <1> HIDE DEF u
  <1>5. Sound(G, a) /\ SameInput(u, a)
    BY <1>4, AckSound
  <1> HIDE DEF a
  <1>6. Sound(G, o) /\ SameInput(a, o)
    BY <1>5, OutputSound
  <1> HIDE DEF o, inflation
  <1> QED BY <1>1, <1>3, <1>4, <1>5, <1>6 DEF SameInput

-----------------------------------------------------------------------------
(* The acknowledgment of a segment, and the timers                         *)

\* A window update touches neither queues nor numbers.
LEMMA UpdateWindowSound ==
    ASSUME NEW G, NEW p, Sound(G, p), NEW s
    PROVE  LET q == UpdateWindow(p, s) IN Sound(G, q) /\ SameInput(p, q)
  <1> DOMAIN p = Fields
    BY DEF Sound
  <1>1. Alike(p, UpdateWindow(p, s))
    BY FieldsAre, Zenon DEF UpdateWindow, Alike, SameInput, SameQueues, SameNumbers, SameAccount
  <1> QED BY <1>1, AlikeSound

\* A duplicate acknowledgment counts, and may start a fast retransmit.
LEMMA DuplicateAckSound ==
    ASSUME NEW G, NEW p, Sound(G, p)
    PROVE  Sound(G, DuplicateAck(p)) /\ SameInput(p, DuplicateAck(p))
  <1> DEFINE dupacks == (p.dupacks + 1) % U8
             q == [p EXCEPT !.dupacks = dupacks]
             half == Min({q.cwnd, q.snd_wnd}) \div 2
             ssthresh == IF half < 2 * Mss THEN 2 * Mss ELSE half
             grown == Grown(q.cwnd, Mss)
             cut == (ssthresh + 3 * Mss) % U16
             a == [q EXCEPT !.cwnd = grown]
             x == tcp_rexmit(q)
             b == [x EXCEPT !.ssthresh = ssthresh, !.infr = TRUE, !.cwnd = cut]
  <1>1. DuplicateAck(p) = IF q.dupacks < 3 \/ q.unacked = <<>> THEN q ELSE IF q.infr THEN a ELSE b
    BY Zenon DEF DuplicateAck
  <1>2. Sound(G, q) /\ SameInput(p, q)
    <2>1. Alike(p, q)
      <3> DOMAIN p = Fields
        BY DEF Sound
      <3> HIDE DEF dupacks
      <3> QED BY FieldsAre, Zenon DEF Alike, SameInput, SameQueues, SameNumbers, SameAccount
    <2> QED BY <2>1, AlikeSound
  <1> HIDE DEF ssthresh, half, grown, cut, q
  <1>3. Sound(G, a) /\ SameInput(q, a)
    <2>1. Alike(q, a)
      <3> DOMAIN q = Fields
        BY <1>2 DEF Sound
      <3> QED BY FieldsAre, Zenon DEF Alike, SameInput, SameQueues, SameNumbers, SameAccount
    <2> QED BY <1>2, <2>1, AlikeSound
  <1>4. ASSUME q.unacked # <<>> PROVE Sound(G, b) /\ SameInput(q, b)
    <2>1. Sound(G, x) /\ SameInput(q, x)
      BY <1>2, <1>4, RexmitSound
    <2> HIDE DEF x
    <2>2. Alike(x, b)
      <3> DOMAIN x = Fields
        BY <2>1 DEF Sound
      <3> QED BY FieldsAre, Zenon DEF Alike, SameInput, SameQueues, SameNumbers, SameAccount
    <2>3. Sound(G, b) /\ SameInput(x, b)
      BY <2>1, <2>2, AlikeSound
    <2> QED BY <2>1, <2>3 DEF SameInput
  <1> HIDE DEF a, b
  <1> QED BY <1>1, <1>2, <1>3, <1>4 DEF SameInput

\* A list without its first members is a list of members.
LEMMA NewAckSound ==
    ASSUME NEW G, NEW p, Sound(G, p), NEW ackno \in Int
    PROVE  Sound(G, NewAck(p, ackno)) /\ SameInput(p, NewAck(p, ackno))
  <1> DEFINE K == {k \in 0..Len(p.unacked) :
                      \A i \in 1..k : SEQ_LEQ(SegEnd(p.unacked[i]), ackno)}
             unacked == SubSeq(p.unacked, Max(K) + 1, Len(p.unacked))
             fast == IF p.infr THEN p.ssthresh ELSE p.cwnd
             snd_buf == p.snd_buf + ((ackno - p.lastack) % Seq32)
             cwnd == IF fast < p.ssthresh THEN Grown(fast, Mss)
                     ELSE Grown(fast, (Mss * Mss) \div fast)
             len == p.snd_queuelen - Freed(p.unacked, unacked)
             runs == unacked # <<>>
             q == [p EXCEPT !.infr = FALSE, !.nrtx = 0, !.dupacks = 0, !.lastack = ackno,
                            !.snd_buf = snd_buf, !.cwnd = cwnd, !.unacked = unacked,
                            !.snd_queuelen = len, !.rtime = runs]
  <1>1. NewAck(p, ackno) = q
    BY Zenon DEF NewAck, SkipWhile
  <1>2. unacked \in Seq(Segs(G))
    <2>1. p.unacked \in Seq(Segs(G)) /\ Len(p.unacked) \in Nat
      BY LenProperties DEF Sound, Queues
    <2>2. K \in SUBSET (0..Len(p.unacked)) /\ 0 \in K
      BY <2>1
    <2> HIDE DEF K
    <2> QED BY <2>1, <2>2, Rest
  <1>3. snd_buf \in Int
    <2>1. p.snd_buf \in Int /\ p.lastack \in Int
      BY DEF Sound, Numbers
    <2>2. (ackno - p.lastack) % Seq32 \in Int
      BY <2>1, Constants
    <2> QED BY <2>1, <2>2
  <1>4. /\ DOMAIN q = Fields /\ SameInput(p, q)
        /\ q.out = p.out /\ q.unsent = p.unsent /\ q.unacked = unacked
        /\ q.snd_nxt = p.snd_nxt /\ q.rcv_wnd = p.rcv_wnd
        /\ q.rcv_ann_wnd = p.rcv_ann_wnd /\ q.rcv_ann_right_edge = p.rcv_ann_right_edge
        /\ q.snd_lbb = p.snd_lbb /\ q.lastack = ackno /\ q.snd_buf = snd_buf
    <2> DOMAIN p = Fields
      BY DEF Sound
    <2> HIDE DEF unacked, fast, snd_buf, cwnd, len, runs
    <2> QED BY FieldsAre, Zenon DEF SameInput
  <1> HIDE DEF q, unacked, snd_buf
  <1>5. Sound(G, q)
    BY <1>2, <1>3, <1>4 DEF Sound, Numbers, Queues, SameInput
  <1> QED BY <1>1, <1>4, <1>5

\* Acknowledged segments are dropped from the front of unsent.
LEMMA DropUnsentSound ==
    ASSUME NEW G, NEW p, Sound(G, p), NEW ackno
    PROVE  Sound(G, DropUnsent(p, ackno)) /\ SameInput(p, DropUnsent(p, ackno))
  <1> DEFINE K == {k \in 0..Len(p.unsent) :
                      \A i \in 1..k : SEQ_BETWEEN(ackno, SegEnd(p.unsent[i]), p.snd_nxt)}
             unsent == SubSeq(p.unsent, Max(K) + 1, Len(p.unsent))
             len == p.snd_queuelen - Freed(p.unsent, unsent)
             q == [p EXCEPT !.unsent = unsent, !.snd_queuelen = len]
  <1>1. DropUnsent(p, ackno) = q
    BY Zenon DEF DropUnsent, SkipWhile
  <1>2. unsent \in Seq(Segs(G))
    <2>1. p.unsent \in Seq(Segs(G)) /\ Len(p.unsent) \in Nat
      BY LenProperties DEF Sound, Queues
    <2>2. K \in SUBSET (0..Len(p.unsent)) /\ 0 \in K
      BY <2>1
    <2> HIDE DEF K
    <2> QED BY <2>1, <2>2, Rest
  <1>3. /\ DOMAIN q = Fields /\ SameInput(p, q) /\ SameNumbers(p, q)
        /\ q.out = p.out /\ q.unsent = unsent /\ q.unacked = p.unacked
    <2> DOMAIN p = Fields
      BY DEF Sound
    <2> HIDE DEF unsent, len
    <2> QED BY FieldsAre, Zenon DEF SameInput, SameNumbers, SameAccount
  <1> HIDE DEF q, unsent
  <1>4. Sound(G, q)
    BY <1>2, <1>3 DEF Sound, Numbers, Queues, SameInput, SameNumbers, SameAccount
  <1> QED BY <1>1, <1>3, <1>4

\* A connection that is given up keeps what was given to the application.
Ended(p, q) ==
    /\ q.state = "CLOSED" /\ q.refused_data = <<>> /\ q.rcv_nxt = p.rcv_nxt
    /\ q.recv_data = p.recv_data /\ q.given = p.given /\ q.owed = p.owed

\* A purged block has empty queues and keeps nothing refused.
LEMMA PurgedSound ==
    ASSUME NEW G, NEW p, Sound(G, p)
    PROVE  Sound(G, Purged(p)) /\ Ended(p, Purged(p))
  <1> DEFINE none == <<>>
             closed == "CLOSED"
             q == [p EXCEPT !.state = closed, !.unsent = none, !.unacked = none,
                            !.refused_data = none]
  <1>1. Purged(p) = q
    BY Zenon DEF Purged
  <1>2. none \in Seq(Segs(G))
    OBVIOUS
  <1>3. /\ DOMAIN q = Fields /\ SameNumbers(p, q) /\ q.out = p.out
        /\ q.state = closed /\ q.refused_data = none /\ q.rcv_nxt = p.rcv_nxt
        /\ q.recv_data = p.recv_data /\ q.given = p.given /\ q.owed = p.owed
        /\ q.unsent = none /\ q.unacked = none
    <2> DOMAIN p = Fields
      BY DEF Sound
    <2> HIDE DEF none, closed
    <2> QED BY FieldsAre, Zenon DEF SameNumbers, SameAccount
  <1>4. Ended(p, q)
    <2> HIDE DEF q
    <2> QED BY <1>3 DEF Ended
  <1> HIDE DEF q, none, closed
  <1>5. Sound(G, q)
    BY <1>2, <1>3 DEF Sound, Numbers, Queues, SameNumbers, SameAccount
  <1> QED BY <1>1, <1>4, <1>5

\* The slow timer gives the connection up, or probes, or retransmits.
LEMMA SlowSound ==
    ASSUME NEW G, Pieces(G), FirstBytes(G), NEW p, Sound(G, p), NEW due, NEW mem
    PROVE  LET q == tcp_slowtmr(p, due, mem)
           IN  Sound(G, q) /\ (SameInput(p, q) \/ Ended(p, q))
  <1> DEFINE half == Min({p.cwnd, p.snd_wnd}) \div 2
             ssthresh == IF half < Mss THEN 2 * Mss ELSE half
             cut == [p EXCEPT !.ssthresh = ssthresh, !.cwnd = Mss]
             probe == tcp_zero_window_probe(p, mem)
             rto == tcp_rexmit_rto(cut, mem)
             q == IF p.persist THEN IF due THEN probe ELSE p
                  ELSE IF p.rtime /\ due /\ p.unacked # <<>> THEN rto
                  ELSE p
             o == tcp_output(q, mem)
  <1>1. tcp_slowtmr(p, due, mem) = IF p.nrtx = MaxRtx THEN Purged(p) ELSE o
    BY Zenon DEF tcp_slowtmr
  <1>2. Sound(G, probe) /\ SameInput(p, probe)
    BY ProbeSound
  <1>3. Sound(G, cut) /\ SameInput(p, cut)
    <2>1. Alike(p, cut)
      <3> DOMAIN p = Fields
        BY DEF Sound
      <3> HIDE DEF ssthresh
      <3> QED BY FieldsAre, Zenon DEF Alike, SameInput, SameQueues, SameNumbers, SameAccount
    <2> HIDE DEF cut
    <2> QED BY <2>1, AlikeSound
  <1> HIDE DEF cut
  <1>4. Sound(G, rto) /\ SameInput(cut, rto)
    BY <1>3, RtoSound
  <1> HIDE DEF probe, rto
  <1>5. Sound(G, q) /\ SameInput(p, q)
    BY <1>2, <1>3, <1>4 DEF SameInput
  <1> HIDE DEF q
  <1>6. Sound(G, o) /\ SameInput(q, o)
    BY <1>5, OutputSound
  <1>7. Sound(G, Purged(p)) /\ Ended(p, Purged(p))
    BY PurgedSound
  <1> HIDE DEF o
  <1> QED BY <1>1, <1>5, <1>6, <1>7 DEF SameInput

\* tcp_fasttmr sends the acknowledgment that is due.
LEMMA DelayedSound ==
    ASSUME NEW G, Pieces(G), NEW p, Sound(G, p), NEW mem
    PROVE  LET q == DelayedAck(p, mem) IN Sound(G, q) /\ SameInput(p, q)
  <1> DEFINE a == tcp_ack_now(p)
             o == tcp_output(a, mem)
             q == [o EXCEPT !.ack_delay = FALSE, !.ack_now = FALSE]
  <1>1. DelayedAck(p, mem) = IF p.ack_delay THEN q ELSE p
    BY Zenon DEF DelayedAck
  <1>2. Sound(G, a) /\ SameInput(p, a)
    BY AckSound
  <1> HIDE DEF a
  <1>3. Sound(G, o) /\ SameInput(a, o)
    BY <1>2, OutputSound
  <1> HIDE DEF o
  <1>4. Sound(G, q) /\ SameInput(o, q)
    <2>1. Alike(o, q)
      <3> DOMAIN o = Fields
        BY <1>3 DEF Sound
      <3> QED BY FieldsAre, Zenon DEF Alike, SameInput, SameQueues, SameNumbers, SameAccount
    <2> QED BY <1>3, <2>1, AlikeSound
  <1> HIDE DEF q
  <1> QED BY <1>1, <1>2, <1>3, <1>4 DEF SameInput

-----------------------------------------------------------------------------
(* Counting modulo Seq32                                                   *)

\* Quotient and remainder
LEMMA DivMod ==
    ASSUME NEW a \in Int, NEW m \in Nat \ {0}
    PROVE  a \div m \in Int /\ a % m \in 0..(m - 1) /\ a = m * (a \div m) + (a % m)
  OBVIOUS

\* A multiple of m between -m and m is 0.
LEMMA SmallMultiple ==
    ASSUME NEW m \in Nat \ {0}, NEW q \in Int, -m < m * q, m * q < m
    PROVE  q = 0
  <1>1. ASSUME q >= 1 PROVE FALSE
    <2>1. m * q = m + m * (q - 1)
      OBVIOUS
    <2>2. m * (q - 1) >= 0
      BY <1>1
    <2> QED BY <2>1, <2>2
  <1>2. ASSUME q <= -1 PROVE FALSE
    <2>1. m * q = (-m) - m * ((-q) - 1)
      OBVIOUS
    <2>2. m * ((-q) - 1) >= 0
      BY <1>2
    <2> QED BY <2>1, <2>2
  <1> QED BY <1>1, <1>2

\* Numbers less than m apart are the same modulo m only if they are the same.
LEMMA ModSame ==
    ASSUME NEW a \in Int, NEW b \in Int, NEW m \in Nat \ {0}, a % m = b % m,
           -m < a - b, a - b < m
    PROVE  a = b
  <1> DEFINE x == a \div m
             y == b \div m
             r == a % m
  <1>1. x \in Int /\ y \in Int /\ r \in Int /\ a = m * x + r /\ b = m * y + r
    BY DivMod
  <1> HIDE DEF x, y, r
  <1>2. a - b = m * (x - y)
    BY <1>1
  <1>3. x - y = 0
    <2>1. x - y \in Int
      BY <1>1
    <2> QED BY <1>2, <2>1, SmallMultiple
  <1> QED BY <1>1, <1>3

\* Adding a multiple of m changes nothing.
LEMMA ModShift ==
    ASSUME NEW a \in Int, NEW q \in Int, NEW m \in Nat \ {0}
    PROVE  (a + m * q) % m = a % m
  <1> DEFINE b == a + m * q
             x == a \div m
             y == b \div m
             r == a % m
             s == b % m
  <1>0. b \in Int
    OBVIOUS
  <1>1. x \in Int /\ r \in 0..(m - 1) /\ a = m * x + r
    BY DivMod
  <1>2. y \in Int /\ s \in 0..(m - 1) /\ b = m * y + s
    <2> HIDE DEF b
    <2> QED BY <1>0, DivMod
  <1>3. b = a + m * q
    OBVIOUS
  <1> HIDE DEF b, x, y, r, s
  <1>4. r - s = m * ((y - x) - q)
    BY <1>0, <1>1, <1>2, <1>3
  <1>5. (y - x) - q = 0
    <2>1. (y - x) - q \in Int /\ -m < r - s /\ r - s < m
      BY <1>1, <1>2
    <2> QED BY <1>4, <2>1, SmallMultiple
  <1>6. r = s
    BY <1>1, <1>2, <1>4, <1>5
  <1> QED BY <1>6 DEF b, r, s

\* A sum does not notice that a summand has been reduced.
LEMMA ModPlus ==
    ASSUME NEW a \in Int, NEW b \in Int, NEW m \in Nat \ {0}
    PROVE  ((a % m) + b) % m = (a + b) % m
  <1> DEFINE x == a \div m
             r == a % m
  <1>1. x \in Int /\ r \in Int /\ a = m * x + r
    BY DivMod
  <1> HIDE DEF x, r
  <1>2. a + b = (r + b) + m * x
    BY <1>1
  <1>3. ((r + b) + m * x) % m = (r + b) % m
    <2>1. r + b \in Int
      BY <1>1
    <2> QED BY <1>1, <2>1, ModShift
  <1> QED BY <1>2, <1>3 DEF r

\* Numbers add up round the circle.
LEMMA PlusPlus ==
    ASSUME NEW a \in Int, NEW b \in Int, NEW c \in Int
    PROVE  Plus(Plus(a, b), c) = Plus(a, b + c)
  <1> DEFINE d == a + b
  <1>1. d \in Int /\ Seq32 \in Nat \ {0}
    BY Constants
  <1>2. d + c = a + (b + c)
    OBVIOUS
  <1>3. ((d % Seq32) + c) % Seq32 = (d + c) % Seq32
    <2> HIDE DEF d
    <2> QED BY <1>1, ModPlus
  <1> QED BY <1>2, <1>3 DEF Plus

\* The distance from a to b leads from a to b, when b is a sequence number.
LEMMA PlusDistance ==
    ASSUME NEW a \in Int, NEW b \in Int, NEW c \in Int
    PROVE  Plus(a, ((b - a) % Seq32) + c) = Plus(b, c)
  <1> DEFINE d == b - a
             r == d % Seq32
  <1>1. d \in Int /\ Seq32 \in Nat \ {0}
    BY Constants
  <1>2. r \in Int
    <2> HIDE DEF d
    <2> QED BY <1>1, DivMod
  <1>3. (r + (a + c)) % Seq32 = (d + (a + c)) % Seq32
    <2> HIDE DEF d
    <2>1. a + c \in Int
      OBVIOUS
    <2>2. \A i \in Int : ((d % Seq32) + i) % Seq32 = (d + i) % Seq32
      BY <1>1, ModPlus
    <2> QED BY <2>1, <2>2
  <1>4. d + (a + c) = b + c
    OBVIOUS
  <1> HIDE DEF d
  <1> HIDE DEF r
  <1>5. a + (r + c) = r + (a + c)
    BY <1>2
  <1>6. (a + (r + c)) % Seq32 = (b + c) % Seq32
    BY <1>3, <1>4, <1>5
  <1> QED BY <1>6 DEF Plus, r, d

-----------------------------------------------------------------------------
(* The bytes of a stream                                                   *)

\* The pieces of what e has written so far: w bytes, the n-th of which is n,
\* each under its own sequence number
BytesOf(e, w) ==
    {d \in Int \X Seq(1..w) : \A j \in DOMAIN d[2] : Plus(d[1], j) = Plus(Iss[e], d[2][j])}

\* The bytes of an end are pieces, and so is the first byte of each.
LEMMA BytesArePieces ==
    ASSUME NEW e \in End, NEW w \in Nat
    PROVE  Pieces(BytesOf(e, w)) /\ FirstBytes(BytesOf(e, w))
  <1>1. BytesOf(e, w) \subseteq Int \X Seq(Nat)
    <2>1. 1..w \subseteq Nat
      OBVIOUS
    <2>2. Seq(1..w) \subseteq Seq(Nat)
      BY <2>1
    <2> QED BY <2>2 DEF BytesOf
  <1>2. ASSUME NEW n \in Int PROVE <<n, <<>>>> \in BytesOf(e, w)
    <2> DEFINE none == <<>>
               d == <<n, none>>
    <2>1. none \in Seq(1..w) /\ DOMAIN none = {}
      OBVIOUS
    <2>2. d[1] = n /\ d[2] = none
      OBVIOUS
    <2>3. d \in Int \X Seq(1..w)
      BY <2>1
    <2> HIDE DEF d, none
    <2>4. d \in BytesOf(e, w)
      BY <2>1, <2>2, <2>3 DEF BytesOf
    <2> QED BY <2>4 DEF d, none
  <1>3. ASSUME NEW d \in BytesOf(e, w) PROVE <<d[1], SubSeq(d[2], 1, 1)>> \in BytesOf(e, w)
    <2> DEFINE s == d[2]
               one == SubSeq(s, 1, 1)
               c == <<d[1], one>>
    <2>1. d[1] \in Int /\ s \in Seq(1..w) /\ \A j \in DOMAIN s : Plus(d[1], j) = Plus(Iss[e], s[j])
      BY DEF BytesOf
    <2>2. CASE s = <<>>
      <3>1. one = <<>>
        BY <2>1, <2>2
      <3> HIDE DEF one, s
      <3>2. <<d[1], one>> \in BytesOf(e, w)
        BY <1>2, <2>1, <3>1
      <3> QED BY <3>2 DEF one, s
    <2>3. CASE s # <<>>
      <3>1. Len(s) \in Nat /\ Len(s) >= 1 /\ DOMAIN s = 1..Len(s)
        <4> HIDE DEF s
        <4> QED BY <2>1, <2>3, EmptySeq, LenProperties
      <3>2. one \in Seq(1..w) /\ Len(one) = 1 /\ one[1] = s[1]
        <4> HIDE DEF s
        <4> QED BY <2>1, <3>1, Piece
      <3>3. DOMAIN one = {1}
        <4> HIDE DEF one
        <4> QED BY <3>2
      <3>4. c[1] = d[1] /\ c[2] = one /\ c \in Int \X Seq(1..w)
        <4> HIDE DEF one
        <4> QED BY <2>1, <3>2
      <3>5. \A j \in DOMAIN one : Plus(d[1], j) = Plus(Iss[e], one[j])
        <4> HIDE DEF one, s
        <4> QED BY <2>1, <3>1, <3>2, <3>3
      <3> HIDE DEF c, one, s
      <3>6. c \in BytesOf(e, w)
        BY <3>4, <3>5 DEF BytesOf
      <3> QED BY <3>6 DEF c, one, s
    <2> QED BY <2>2, <2>3
  <1> QED BY <1>1, <1>2, <1>3 DEF Pieces, FirstBytes

\* What was a piece remains one when more is written.
LEMMA BytesGrow ==
    ASSUME NEW e \in End, NEW v \in Nat, NEW w \in Nat, v <= w
    PROVE  BytesOf(e, v) \subseteq BytesOf(e, w)
  <1>1. 1..v \subseteq 1..w
    OBVIOUS
  <1>2. Seq(1..v) \subseteq Seq(1..w)
    BY <1>1
  <1> QED BY <1>2 DEF BytesOf

\* s has the bytes that follow the k-th.
Line(s, k) == s \in Seq(Nat) /\ \A i \in DOMAIN s : s[i] = k + i

\* A piece that begins with the number behind the k-th byte has the bytes that
\* follow the k-th: within one round of the numbers no other could be meant.
LEMMA PieceInLine ==
    ASSUME NEW f \in End, NEW w \in Nat, w < Seq32, NEW k \in 0..w, NEW data \in Seq(1..w),
           \A j \in DOMAIN data : Plus(Plus(Iss[f], k), j) = Plus(Iss[f], data[j])
    PROVE  Line(data, k) /\ k + Len(data) <= w
  <1> DEFINE Bad == {j \in 1..Len(data) : data[j] # k + j}
  <1>1. Len(data) \in Nat /\ DOMAIN data = 1..Len(data) /\ \A j \in 1..Len(data) : data[j] \in 1..w
    BY LenProperties, ElementOfSeq
  <1>2. Bad = {}
    <2> SUFFICES ASSUME Bad # {} PROVE FALSE
      OBVIOUS
    <2>1. PICK m \in Bad : \A x \in Bad : m <= x
      <3>1. Bad \in SUBSET Nat
        OBVIOUS
      <3> HIDE DEF Bad
      <3> QED BY <3>1, Least
    <2>2. m \in 1..Len(data) /\ data[m] # k + m
      BY <2>1
    <2>3. k + m <= w + 1
      <3>1. CASE m = 1
        BY <3>1
      <3>2. CASE m # 1
        <4>1. m - 1 \in 1..Len(data) /\ ~(m <= m - 1)
          BY <1>1, <2>2, <3>2
        <4>2. data[m - 1] = k + (m - 1)
          BY <2>1, <4>1
        <4> QED BY <1>1, <2>2, <4>1, <4>2
      <3> QED BY <3>1, <3>2
    <2>4. Plus(Iss[f], k + m) = Plus(Iss[f], data[m])
      <3>1. Iss[f] \in Int /\ k \in Int /\ m \in Int
        BY <2>2, Constants
      <3>2. Plus(Plus(Iss[f], k), m) = Plus(Iss[f], k + m)
        BY <3>1, PlusPlus
      <3> QED BY <1>1, <2>2, <3>2
    <2> DEFINE a == Iss[f] + (k + m)
               b == Iss[f] + data[m]
    <2>5. a \in Int /\ b \in Int /\ a - b = (k + m) - data[m]
      <3>1. Iss[f] \in Int /\ k \in Nat /\ m \in Nat /\ data[m] \in Nat
        <4> HIDE DEF Bad
        <4>1. data[m] \in 1..w
          BY <1>1, <2>2
        <4> QED BY <2>2, <4>1, Constants
      <3> HIDE DEF Bad
      <3> QED BY <3>1
    <2>6. a % Seq32 = b % Seq32
      BY <2>4 DEF Plus
    <2>7. -Seq32 < a - b /\ a - b < Seq32
      <3> HIDE DEF a, b, Bad
      <3>1. data[m] \in 1..w /\ m \in Nat /\ m >= 1 /\ k \in 0..w
        BY <1>1, <2>2
      <3>2. data[m] \in Int /\ 1 <= data[m] /\ data[m] <= w /\ k \in Int /\ 0 <= k /\ Seq32 \in Int
        BY <3>1, Constants
      <3> QED BY <2>3, <2>5, <3>1, <3>2
    <2>8. a = b
      <3> HIDE DEF a, b
      <3> QED BY <2>5, <2>6, <2>7, ModSame, Constants
    <2>9. (k + m) - data[m] = 0
      <3> HIDE DEF a, b, Bad
      <3> QED BY <2>5, <2>8
    <2>10. k \in Int /\ m \in Int /\ data[m] \in Int
      <3> HIDE DEF Bad
      <3>1. data[m] \in 1..w
        BY <1>1, <2>2
      <3> QED BY <2>2, <3>1
    <2> HIDE DEF Bad
    <2> QED BY <2>2, <2>9, <2>10
  <1>3. \A j \in 1..Len(data) : data[j] = k + j
    BY <1>2
  <1>4. data \in Seq(Nat)
    <2>1. 1..w \subseteq Nat
      OBVIOUS
    <2> QED BY <2>1
  <1>5. k + Len(data) <= w
    <2>1. CASE Len(data) = 0
      BY <2>1
    <2>2. CASE Len(data) # 0
      <3>1. Len(data) \in 1..Len(data)
        BY <1>1, <2>2
      <3> QED BY <1>1, <1>3, <3>1
    <2> QED BY <2>1, <2>2
  <1> QED BY <1>1, <1>3, <1>4, <1>5 DEF Line

\* The rest of a line is a line.
LEMMA LinesJoin ==
    ASSUME NEW k \in Nat, NEW s, NEW t, Line(s, k), Line(t, k + Len(s))
    PROVE  Line(s \o t, k) /\ Len(s \o t) = Len(s) + Len(t)
  <1>1. s \in Seq(Nat) /\ t \in Seq(Nat) /\ Len(s) \in Nat /\ Len(t) \in Nat
    BY LenProperties DEF Line
  <1>2. /\ s \o t \in Seq(Nat) /\ Len(s \o t) = Len(s) + Len(t)
        /\ \A i \in 1..(Len(s) + Len(t)) : (s \o t)[i] = IF i <= Len(s) THEN s[i] ELSE t[i - Len(s)]
    BY <1>1, ConcatProperties
  <1>3. DOMAIN s = 1..Len(s) /\ DOMAIN t = 1..Len(t)
    BY <1>1, LenProperties
  <1> DEFINE st == s \o t
  <1>4. DOMAIN st = 1..Len(st)
    <2>1. st \in Seq(Nat)
      BY <1>2
    <2> HIDE DEF st
    <2> QED BY <2>1, LenProperties
  <1>5. \A i \in DOMAIN st : st[i] = k + i
    <2> TAKE i \in DOMAIN st
    <2>1. i \in 1..(Len(s) + Len(t)) /\ st[i] = IF i <= Len(s) THEN s[i] ELSE t[i - Len(s)]
      BY <1>2, <1>4
    <2> HIDE DEF st
    <2>2. CASE i <= Len(s)
      BY <1>1, <1>3, <2>1, <2>2 DEF Line
    <2>3. CASE i > Len(s)
      <3>1. i - Len(s) \in DOMAIN t
        BY <1>1, <1>3, <2>1, <2>3
      <3>2. t[i - Len(s)] = (k + Len(s)) + (i - Len(s))
        BY <3>1 DEF Line
      <3> QED BY <1>1, <2>1, <2>3, <3>2
    <2> QED BY <1>1, <2>1, <2>2, <2>3
  <1> QED BY <1>2, <1>5 DEF Line

-----------------------------------------------------------------------------
(* The data of a segment                                                   *)

\* The block q is p after data have been accepted.
Took(p, q, data) ==
    /\ q.state = p.state /\ q.refused_data = p.refused_data
    /\ q.given = p.given /\ q.owed = p.owed
    /\ q.recv_data = data /\ q.rcv_nxt = Plus(p.rcv_nxt, Len(data))

\* What is accepted is behind what was received, and rcv_nxt counts it.
LEMMA AcceptSound ==
    ASSUME NEW G, NEW p, Sound(G, p), NEW data \in Seq(Nat)
    PROVE  Sound(G, Accept(p, data)) /\ Took(p, Accept(p, data), data)
  <1> DEFINE nxt == Plus(p.rcv_nxt, Len(data))
             wnd == p.rcv_wnd - Len(data)
             m == [p EXCEPT !.rcv_nxt = nxt, !.rcv_wnd = wnd, !.recv_data = data]
             u == tcp_update_rcv_ann_wnd(m)
             q == tcp_ack(u)
  <1>1. Accept(p, data) = q
    BY Zenon DEF Accept
  <1>2. nxt \in Int /\ wnd \in Int
    <2>1. Len(data) \in Int /\ p.rcv_nxt \in Int /\ p.rcv_wnd \in Int
      BY LenProperties DEF Sound, Numbers
    <2> HIDE DEF m
    <2>2. nxt \in Int
      BY <2>1, PlusIn
    <2> QED BY <2>1, <2>2
  <1>3. /\ DOMAIN m = Fields /\ SameAccount(p, m) /\ SameQueues(p, m)
        /\ m.state = p.state /\ m.refused_data = p.refused_data
        /\ m.given = p.given /\ m.owed = p.owed /\ m.recv_data = data
        /\ m.rcv_nxt = nxt /\ m.rcv_wnd = wnd /\ m.out = p.out /\ m.snd_nxt = p.snd_nxt
        /\ m.rcv_ann_wnd = p.rcv_ann_wnd /\ m.rcv_ann_right_edge = p.rcv_ann_right_edge
    <2> DOMAIN p = Fields
      BY DEF Sound
    <2> HIDE DEF nxt, wnd
    <2> QED BY FieldsAre, Zenon DEF SameAccount, SameQueues
  <1>4. Took(p, m, data)
    <2> HIDE DEF m
    <2> QED BY <1>3 DEF Took
  <1> HIDE DEF m, nxt, wnd
  <1>5. Sound(G, m)
    BY <1>2, <1>3 DEF Sound, Numbers, Queues, SameAccount, SameQueues
  <1>6. Sound(G, u) /\ SameInput(m, u)
    BY <1>5, AnnounceSound
  <1> HIDE DEF u
  <1>7. Sound(G, q) /\ SameInput(u, q)
    BY <1>6, AckSound
  <1> HIDE DEF q
  <1> QED BY <1>1, <1>4, <1>6, <1>7 DEF Took, SameInput

\* The front of a piece in line
LEMMA FrontInLine ==
    ASSUME NEW f \in End, NEW w \in Nat, w < Seq32, NEW k \in 0..w, NEW data \in Seq(1..w),
           \A j \in DOMAIN data : Plus(Plus(Iss[f], k), j) = Plus(Iss[f], data[j]),
           NEW n \in Int, n <= Len(data)
    PROVE  Line(SubSeq(data, 1, n), k) /\ k + Len(SubSeq(data, 1, n)) <= w
  <1> DEFINE t == SubSeq(data, 1, n)
  <1>1. Len(data) \in Nat /\ DOMAIN data = 1..Len(data)
    BY LenProperties
  <1>2. t \in Seq(1..w) /\ Len(t) = (IF 1 <= n THEN n ELSE 0) /\ \A i \in 1..n : t[i] = data[i]
    <2>1. /\ t \in Seq(1..w)
          /\ Len(t) = IF 1 <= n THEN n - 1 + 1 ELSE 0
          /\ \A i \in 1..(n - 1 + 1) : t[i] = data[1 + i - 1]
      BY Piece
    <2> HIDE DEF t
    <2> QED BY <2>1
  <1> HIDE DEF t
  <1>3. DOMAIN t = 1..Len(t)
    BY <1>2, LenProperties
  <1>4. \A j \in DOMAIN t : Plus(Plus(Iss[f], k), j) = Plus(Iss[f], t[j])
    <2> TAKE j \in DOMAIN t
    <2>1. j \in DOMAIN data /\ t[j] = data[j]
      BY <1>1, <1>2, <1>3
    <2> QED BY <2>1
  <1>5. Line(t, k) /\ k + Len(t) <= w
    BY <1>2, <1>4, PieceInLine
  <1> QED BY <1>5 DEF t

\* The rest of a piece behind the bytes that have been received before
Behind(nxt, seqno, data) == SubSeq(data, ((nxt - seqno) % Seq32) + 1, Len(data))

\* Without its front a piece is in place at rcv_nxt.
LEMMA TrimmedPiece ==
    ASSUME NEW f \in End, NEW w \in Nat, NEW nxt \in Int,
           NEW seqno, NEW all, <<seqno, all>> \in BytesOf(f, w)
    PROVE  /\ Behind(nxt, seqno, all) \in Seq(1..w)
           /\ \A j \in DOMAIN Behind(nxt, seqno, all) :
                  Plus(nxt, j) = Plus(Iss[f], Behind(nxt, seqno, all)[j])
  <1> DEFINE off == (nxt - seqno) % Seq32
             data == SubSeq(all, off + 1, Len(all))
  <1>1. seqno \in Int /\ all \in Seq(1..w) /\ \A j \in DOMAIN all : Plus(seqno, j) = Plus(Iss[f], all[j])
    BY DEF BytesOf
  <1>2. off \in Nat
    <2>1. nxt - seqno \in Int
      BY <1>1
    <2> QED BY <2>1, DivMod, Constants
  <1>3. \A j \in Int : Plus(seqno, off + j) = Plus(nxt, j)
    BY <1>1, PlusDistance
  <1> HIDE DEF off
  <1>4. Len(all) \in Nat /\ DOMAIN all = 1..Len(all)
    BY <1>1, LenProperties
  <1>5. /\ data \in Seq(1..w)
        /\ Len(data) = IF off + 1 <= Len(all) THEN Len(all) - off ELSE 0
        /\ \A i \in 1..(Len(all) - off) : data[i] = all[off + i]
    <2>1. /\ data \in Seq(1..w)
          /\ Len(data) = IF off + 1 <= Len(all) THEN Len(all) - (off + 1) + 1 ELSE 0
          /\ \A i \in 1..(Len(all) - (off + 1) + 1) : data[i] = all[off + 1 + i - 1]
      BY <1>1, <1>2, <1>4, Piece
    <2> HIDE DEF data
    <2>2. Len(all) - (off + 1) + 1 = Len(all) - off
      BY <1>2, <1>4
    <2>3. \A i \in 1..(Len(all) - off) : off + 1 + i - 1 = off + i
      BY <1>2, <1>4
    <2> QED BY <2>1, <2>2, <2>3
  <1> HIDE DEF data
  <1>6. ASSUME NEW j \in DOMAIN data PROVE Plus(nxt, j) = Plus(Iss[f], data[j])
    <2>1. j \in 1..Len(data)
      BY <1>5, LenProperties
    <2>2. Len(data) = Len(all) - off
      <3>1. Len(data) # 0
        BY <2>1
      <3> QED BY <1>5, <3>1
    <2>3. j \in Int /\ 1 <= j /\ j <= Len(all) - off
      BY <1>2, <1>4, <2>1, <2>2
    <2>4. off + j \in 1..Len(all)
      BY <1>2, <1>4, <2>3
    <2>5. j \in 1..(Len(all) - off) /\ off + j \in DOMAIN all /\ j \in Int
      BY <1>4, <2>1, <2>2, <2>3, <2>4
    <2> QED BY <1>1, <1>3, <1>5, <2>5
  <1>7. data = Behind(nxt, seqno, all)
    BY DEF data, off, Behind
  <1> QED BY <1>5, <1>6, <1>7

\* The block q is p after a segment: with w bytes written at the other end, of
\* which p has k, it has taken none or those that follow.
Receives(p, q, k, w) ==
    \/ SameInput(p, q)
    \/ \E data : Took(p, q, data) /\ Line(data, k) /\ k + Len(data) <= w

\* Whatever its window, its numbers and the segment: what a block accepts are
\* the bytes that follow those it has.
LEMMA ReceiveDataSound ==
    ASSUME NEW G, NEW p, Sound(G, p),
           NEW f \in End, NEW w \in Nat, w < Seq32, NEW k \in 0..w, p.rcv_nxt = Plus(Iss[f], k),
           NEW s, <<s.seqno, s.data>> \in BytesOf(f, w)
    PROVE  LET q == ReceiveData(p, s)
           IN  Sound(G, q) /\ Receives(p, q, k, w)
  <1> DEFINE trims == SEQ_BETWEEN(p.rcv_nxt, Plus(s.seqno, 1), Plus(s.seqno, TCPLEN(s) - 1))
             off == (p.rcv_nxt - s.seqno) % Seq32
             seqno == IF trims THEN p.rcv_nxt ELSE s.seqno
             cut == SubSeq(s.data, off + 1, Len(s.data))
             data == IF trims THEN cut ELSE s.data
             n == Min({Len(data), p.rcv_wnd})
             taken == SubSeq(data, 1, n)
             a == Accept(p, taken)
             i == tcp_ack_now(p)
  <1>1. ReceiveData(p, s) = IF InWindow(p, seqno) /\ seqno = p.rcv_nxt THEN a ELSE i
    BY Zenon DEF ReceiveData, TCPLEN
  <1>2. Sound(G, i) /\ SameInput(p, i)
    BY AckSound
  <1>3. ASSUME seqno = p.rcv_nxt
        PROVE  /\ data \in Seq(1..w)
               /\ \A j \in DOMAIN data : Plus(Plus(Iss[f], k), j) = Plus(Iss[f], data[j])
    <2>1. CASE trims
      <3>1. p.rcv_nxt \in Int
        BY DEF Sound, Numbers
      <3>2. /\ cut \in Seq(1..w)
            /\ \A j \in DOMAIN cut : Plus(p.rcv_nxt, j) = Plus(Iss[f], cut[j])
        <4>1. cut = Behind(p.rcv_nxt, s.seqno, s.data)
          BY DEF Behind
        <4> HIDE DEF trims, seqno, data, n, taken, a, i, cut, off
        <4> QED BY <3>1, <4>1, TrimmedPiece
      <3>3. data = cut /\ p.rcv_nxt = Plus(Iss[f], k)
        BY <2>1
      <3> HIDE DEF cut, data
      <3> QED BY <3>2, <3>3
    <2>2. CASE ~trims
      <3>1. s.data \in Seq(1..w) /\ \A j \in DOMAIN s.data : Plus(s.seqno, j) = Plus(Iss[f], s.data[j])
        BY DEF BytesOf
      <3>2. s.seqno = Plus(Iss[f], k) /\ data = s.data
        BY <1>3, <2>2
      <3> HIDE DEF trims, data
      <3> QED BY <3>1, <3>2
    <2> QED BY <2>1, <2>2
  <1>4. ASSUME seqno = p.rcv_nxt
        PROVE  Sound(G, a) /\ Took(p, a, taken) /\ Line(taken, k) /\ k + Len(taken) <= w
    <2>1. /\ data \in Seq(1..w)
          /\ \A j \in DOMAIN data : Plus(Plus(Iss[f], k), j) = Plus(Iss[f], data[j])
      BY <1>3, <1>4
    <2> HIDE DEF data
    <2>2. n \in Int /\ n <= Len(data)
      <3>1. Len(data) \in Int /\ p.rcv_wnd \in Int
        BY <2>1, LenProperties DEF Sound, Numbers
      <3>2. \A x, y \in Int : Min({x, y}) \in Int /\ Min({x, y}) <= x
        BY Smaller
      <3> QED BY <3>1, <3>2
    <2> HIDE DEF n
    <2>3. Line(taken, k) /\ k + Len(taken) <= w
      BY <2>1, <2>2, FrontInLine
    <2> HIDE DEF taken
    <2>4. Sound(G, a) /\ Took(p, a, taken)
      <3>1. taken \in Seq(Nat)
        BY <2>3 DEF Line
      <3> QED BY <3>1, AcceptSound
    <2> QED BY <2>3, <2>4
  <1> HIDE DEF a, i, taken, seqno
  <1> QED BY <1>1, <1>2, <1>4 DEF Receives

\* A segment: its window, its acknowledgment, its data
LEMMA TcpReceiveSound ==
    ASSUME NEW G, NEW p, Sound(G, p),
           NEW f \in End, NEW w \in Nat, w < Seq32, NEW k \in 0..w, p.rcv_nxt = Plus(Iss[f], k),
           NEW s \in Packets(BytesOf(f, w))
    PROVE  LET q == tcp_receive(p, s) IN Sound(G, q) /\ Receives(p, q, k, w)
  <1> DEFINE u == UpdateWindow(p, s)
             repeats == Plus(u.snd_wl2, u.snd_wnd) = Plus(p.snd_wl2, p.snd_wnd)
             dup == DuplicateAck(u)
             new == NewAck(u, s.ackno)
             a == IF p.lastack = s.ackno THEN IF repeats THEN dup ELSE u
                  ELSE IF SEQ_BETWEEN(s.ackno, Plus(p.lastack, 1), p.snd_nxt) THEN new ELSE u
             d == DropUnsent(a, s.ackno)
             now == tcp_ack_now(d)
             r == ReceiveData(d, s)
  <1>1. tcp_receive(p, s) = IF s.data # <<>> THEN r ELSE IF InWindow(d, s.seqno) THEN d ELSE now
    BY Zenon DEF tcp_receive
  <1>2. s.ackno \in Int /\ <<s.seqno, s.data>> \in BytesOf(f, w)
    BY DEF Packets
  <1>3. Sound(G, u) /\ SameInput(p, u)
    BY UpdateWindowSound
  <1> HIDE DEF u
  <1>4. Sound(G, dup) /\ SameInput(u, dup)
    BY <1>3, DuplicateAckSound
  <1>5. Sound(G, new) /\ SameInput(u, new)
    BY <1>2, <1>3, NewAckSound
  <1> HIDE DEF dup, new, repeats
  <1>6. Sound(G, a) /\ SameInput(p, a)
    BY <1>3, <1>4, <1>5 DEF SameInput
  <1> HIDE DEF a
  <1>7. Sound(G, d) /\ SameInput(a, d)
    BY <1>6, DropUnsentSound
  <1> HIDE DEF d
  <1>8. SameInput(p, d) /\ d.rcv_nxt = Plus(Iss[f], k)
    BY <1>6, <1>7 DEF SameInput
  <1>9. Sound(G, now) /\ SameInput(d, now)
    BY <1>7, AckSound
  <1>10. Sound(G, r) /\ Receives(d, r, k, w)
    BY <1>2, <1>7, <1>8, ReceiveDataSound
  <1> HIDE DEF now, r
  <1>11. Receives(p, r, k, w)
    <2>1. CASE SameInput(d, r)
      BY <1>8, <2>1 DEF SameInput, Receives
    <2>2. ASSUME NEW data, Took(d, r, data), Line(data, k), k + Len(data) <= w
          PROVE  Receives(p, r, k, w)
      <3>1. Took(p, r, data)
        BY <1>8, <2>2 DEF SameInput, Took
      <3> QED BY <2>2, <3>1 DEF Receives
    <2> QED BY <1>10, <2>1, <2>2 DEF Receives
  <1>12. Receives(p, d, k, w) /\ Receives(p, now, k, w)
    BY <1>8, <1>9 DEF SameInput, Receives
  <1> QED BY <1>1, <1>7, <1>9, <1>10, <1>11, <1>12

\* A block in the middle of a step: it has given the bytes that follow the k-th
\* of the w written at f, and those that come next are data.
Pending(f, k, w, p, data) ==
    /\ Line(p.given, k) /\ Line(data, k + Len(p.given))
    /\ k + Len(p.given) + Len(data) <= w
    /\ data = <<>> => p.refused_data = <<>>
    /\ p.state # "CLOSED" => p.rcv_nxt = Plus(Iss[f], k + Len(p.given) + Len(data))

\* ... those that were refused.
Heard(f, k, w, p) == Pending(f, k, w, p, p.refused_data)

\* What an end was told depends on the input side of its block alone.
LEMMA HeardSame ==
    ASSUME NEW f, NEW k, NEW w, NEW p, NEW q, Heard(f, k, w, p), SameInput(p, q)
    PROVE  Heard(f, k, w, q)
  BY DEF Heard, Pending, SameInput

\* No bytes are in line anywhere.
LEMMA EmptyLine == \A k : Line(<<>>, k) /\ Len(<<>>) = 0
  BY DEF Line

\* The end of a connection takes back nothing that was given.
LEMMA HeardEnded ==
    ASSUME NEW f, NEW k \in Nat, NEW w \in Nat, NEW p, NEW q, Heard(f, k, w, p), Ended(p, q)
    PROVE  Heard(f, k, w, q)
  <1> DEFINE none == <<>>
  <1>1. Line(none, k + Len(q.given)) /\ Len(none) = 0
    BY EmptyLine
  <1>2. q.state = "CLOSED" /\ q.refused_data = none /\ q.given = p.given
    BY DEF Ended
  <1> HIDE DEF none
  <1>3. Line(q.given, k) /\ k + Len(q.given) + Len(p.refused_data) <= w
    BY <1>2 DEF Heard, Pending
  <1>4. Len(q.given) \in Nat /\ Len(p.refused_data) \in Nat
    BY <1>3, LenProperties DEF Line, Heard, Pending
  <1>5. k + Len(q.given) + Len(none) <= w
    <2>1. \A a, b \in Nat : k + a + b <= w => k + a + 0 <= w
      OBVIOUS
    <2> QED BY <1>1, <1>3, <1>4, <2>1
  <1> QED BY <1>1, <1>2, <1>3, <1>5 DEF Heard, Pending

\* The block q is p after a receive callback.
Answered(p, q, data, take) ==
    /\ q.state = p.state /\ q.recv_data = p.recv_data
    /\ data = <<>> \/ take # "refuse" => q.refused_data = <<>>

\* The callback is given what comes next, or refuses it.
LEMMA EventSound ==
    ASSUME NEW G, Pieces(G), NEW p, Sound(G, p),
           NEW f, NEW k \in Nat, NEW w \in Nat, NEW data, Pending(f, k, w, p, data),
           NEW take \in {"now", "later", "refuse"}, NEW mem
    PROVE  LET q == TCP_EVENT_RECV(p, data, take, mem)
           IN  Sound(G, q) /\ Heard(f, k, w, q) /\ Answered(p, q, data, take)
  <1> DEFINE none == <<>>
             given == p.given \o data
             g == [p EXCEPT !.refused_data = none, !.given = given]
             refused == [p EXCEPT !.refused_data = data]
             owed == g.owed + Len(data)
             later == [g EXCEPT !.owed = owed]
             now == tcp_recved(g, Len(data), mem)
             q == TCP_EVENT_RECV(p, data, take, mem)
             Fine(x) == /\ Sound(G, x) /\ Heard(f, k, w, x)
                        /\ x.state = p.state /\ x.recv_data = p.recv_data
  <1>1. /\ data = <<>> => q = p
        /\ data # <<>> /\ take = "refuse" => q = refused
        /\ data # <<>> /\ take = "later" => q = later
        /\ data # <<>> /\ take = "now" => q = now
    BY Zenon DEF TCP_EVENT_RECV
  <1>2. /\ Line(p.given, k) /\ Line(data, k + Len(p.given)) /\ data \in Seq(Nat)
        /\ Len(data) \in Nat /\ Len(p.given) \in Nat
    BY LenProperties DEF Pending, Line
  <1>3. Line(given, k) /\ Len(given) = Len(p.given) + Len(data)
    <2>1. \A s, t : Line(s, k) /\ Line(t, k + Len(s))
                    => Line(s \o t, k) /\ Len(s \o t) = Len(s) + Len(t)
      BY LinesJoin
    <2>2. Line(p.given \o data, k) /\ Len(p.given \o data) = Len(p.given) + Len(data)
      BY <1>2, <2>1, Zenon
    <2> QED BY <2>2
  <1>4. Line(none, k + Len(given)) /\ Len(none) = 0
    BY EmptyLine
  <1>5. /\ DOMAIN g = Fields /\ SameNumbers(p, g) /\ SameQueues(p, g) /\ g.out = p.out
        /\ g.state = p.state /\ g.recv_data = p.recv_data /\ g.rcv_nxt = p.rcv_nxt
        /\ g.owed = p.owed /\ g.refused_data = none /\ g.given = given
    <2> DOMAIN p = Fields
      BY DEF Sound
    <2> HIDE DEF none, given
    <2> QED BY FieldsAre, Zenon DEF SameNumbers, SameAccount, SameQueues
  <1>6. /\ DOMAIN refused = Fields /\ SameNumbers(p, refused) /\ SameQueues(p, refused)
        /\ refused.out = p.out
        /\ refused.state = p.state /\ refused.recv_data = p.recv_data
        /\ refused.rcv_nxt = p.rcv_nxt /\ refused.given = p.given
        /\ refused.owed = p.owed /\ refused.refused_data = data
    <2> DOMAIN p = Fields
      BY DEF Sound
    <2> QED BY FieldsAre, Zenon DEF SameNumbers, SameAccount, SameQueues
  <1> HIDE DEF none, given, g, refused, q
  <1>7. Fine(g)
    <2>1. Sound(G, g)
      BY <1>5 DEF Sound, Numbers, Queues, SameNumbers, SameAccount, SameQueues
    <2>2. \A a, b \in Nat : k + (a + b) + 0 = k + a + b
      OBVIOUS
    <2>3. k + Len(g.given) + Len(g.refused_data) = k + Len(p.given) + Len(data)
      <3>1. Len(g.given) = Len(p.given) + Len(data) /\ Len(g.refused_data) = 0
        BY <1>3, <1>4, <1>5
      <3> QED BY <1>2, <2>2, <3>1
    <2>4. Heard(f, k, w, g)
      BY <1>3, <1>4, <1>5, <2>3 DEF Heard, Pending
    <2> QED BY <1>5, <2>1, <2>4
  <1>8. Fine(refused)
    <2>1. Sound(G, refused)
      BY <1>6 DEF Sound, Numbers, Queues, SameNumbers, SameAccount, SameQueues
    <2>2. Heard(f, k, w, refused)
      BY <1>6 DEF Heard, Pending
    <2> QED BY <1>6, <2>1, <2>2
  <1>9. Fine(later) /\ later.refused_data = none
    <2>1. owed \in Int
      BY <1>2, <1>7 DEF Sound, Numbers
    <2>2. /\ DOMAIN later = Fields /\ SameNumbers(g, later) /\ SameQueues(g, later)
          /\ later.out = g.out
          /\ later.state = g.state /\ later.recv_data = g.recv_data
          /\ later.rcv_nxt = g.rcv_nxt /\ later.given = g.given
          /\ later.owed = owed /\ later.refused_data = g.refused_data
      <3> DOMAIN g = Fields
        BY <1>5
      <3> HIDE DEF owed
      <3> QED BY FieldsAre, Zenon DEF SameNumbers, SameAccount, SameQueues
    <2> HIDE DEF later, owed
    <2>3. Sound(G, later)
      BY <1>7, <2>1, <2>2 DEF Sound, Numbers, Queues, SameNumbers, SameAccount, SameQueues
    <2>4. Heard(f, k, w, later)
      BY <1>7, <2>2 DEF Heard, Pending
    <2> QED BY <1>5, <2>2, <2>3, <2>4
  <1>10. Fine(now) /\ now.refused_data = none
    <2>1. Sound(G, now) /\ SameInput(g, now)
      <3>1. Sound(G, g) /\ Len(data) \in Int
        BY <1>2, <1>7
      <3> QED BY <3>1, RecvedSound
    <2> HIDE DEF now
    <2>2. Heard(f, k, w, now)
      BY <1>7, <2>1, HeardSame
    <2> QED BY <1>5, <2>1, <2>2 DEF SameInput
  <1>11. data = <<>> => Fine(p) /\ p.refused_data = none
    <2>1. data = <<>> => p.refused_data = data /\ data = none
      BY DEF none, Pending
    <2>2. p.refused_data = data => Heard(f, k, w, p)
      BY DEF Heard
    <2> QED BY <2>1, <2>2
  <1> HIDE DEF later, now, Fine
  <1>12. Fine(q) /\ (data = <<>> \/ take # "refuse" => q.refused_data = none)
    BY <1>1, <1>8, <1>9, <1>10, <1>11
  <1> QED BY <1>12 DEF Fine, none, q, Answered

-----------------------------------------------------------------------------
(* Steps of a connection block                                             *)

\* A segment, a reset or not
LEMMA ProcessSound ==
    ASSUME NEW G, NEW p, Sound(G, p), p.state # "CLOSED", p.recv_data = <<>>, p.refused_data = <<>>,
           NEW f \in End, NEW w \in Nat, w < Seq32, NEW k \in Nat, Heard(f, k, w, p),
           NEW s \in Packets(BytesOf(f, w))
    PROVE  LET q == tcp_process(p, s)
           IN  Sound(G, q) /\ Pending(f, k, w, q, q.recv_data) /\ q.refused_data = <<>>
  <1> DEFINE r == tcp_receive(p, s)
             c == Purged(p)
             m == k + Len(p.given)
             none == <<>>
             Fine(q) == Pending(f, k, w, q, q.recv_data) /\ q.refused_data = none
  <1>1. tcp_process(p, s) \in {r, c, p}
    BY Zenon DEF tcp_process
  <1>2. /\ Line(p.given, k) /\ Len(p.given) \in Nat /\ Len(none) = 0
        /\ m + 0 <= w /\ p.rcv_nxt = Plus(Iss[f], m + 0)
    <2>1. p.refused_data = none /\ Len(none) = 0
      BY EmptyLine
    <2> HIDE DEF none
    <2> QED BY <2>1, LenProperties DEF Heard, Pending, Line
  <1>3. m \in 0..w /\ m + 0 = m
    BY <1>2
  <1>4. Sound(G, r) /\ Receives(p, r, m, w)
    <2> HIDE DEF r, c, m
    <2>1. m \in 0..w /\ p.rcv_nxt = Plus(Iss[f], m)
      BY <1>2, <1>3
    <2> QED BY <2>1, TcpReceiveSound DEF r
  <1>5. Sound(G, c) /\ Ended(p, c)
    BY PurgedSound
  <1>6. \A q : SameInput(p, q) => Fine(q)
    <2> TAKE q
    <2> HAVE SameInput(p, q)
    <2> QED BY DEF SameInput, Heard, Pending
  <1>7. Fine(c)
    <2> HIDE DEF c
    <2>1. Heard(f, k, w, c)
      BY <1>5, HeardEnded
    <2> QED BY <1>5, <2>1 DEF Ended, Heard
  <1>8. Fine(r)
    <2> HIDE DEF r
    <2>1. ASSUME NEW data, Took(p, r, data), Line(data, m), m + Len(data) <= w
          PROVE  Fine(r)
      <3>1. Len(data) \in Nat
        BY <2>1, LenProperties DEF Line
      <3>2. r.rcv_nxt = Plus(Iss[f], m + Len(data))
        <4> HIDE DEF m
        <4>1. p.rcv_nxt = Plus(Iss[f], m) /\ m \in Int /\ Iss[f] \in Int /\ Len(data) \in Int
          BY <1>2, <1>3, <3>1, Constants
        <4>2. r.rcv_nxt = Plus(Plus(Iss[f], m), Len(data))
          BY <2>1, <4>1 DEF Took
        <4> QED BY <4>1, <4>2, PlusPlus
      <3> HIDE DEF none
      <3>3. r.given = p.given /\ r.recv_data = data /\ r.refused_data = p.refused_data
        BY <2>1 DEF Took
      <3>4. p.refused_data = none
        BY DEF none
      <3> QED BY <1>2, <2>1, <3>2, <3>3, <3>4 DEF Pending
    <2> HIDE DEF m, Fine
    <2> QED BY <1>4, <1>6, <2>1 DEF Receives
  <1>9. Fine(p)
    <2> HIDE DEF Fine
    <2> QED BY <1>6 DEF SameInput
  <1> HIDE DEF r, c, Fine
  <1>10. LET q == tcp_process(p, s) IN Sound(G, q) /\ Fine(q)
    BY <1>1, <1>4, <1>5, <1>7, <1>8, <1>9
  <1> QED BY <1>10 DEF Fine, none

\* A segment of the peer, whatever it carries and whatever the callback answers
LEMMA InputSound ==
    ASSUME NEW G, Pieces(G), NEW p, Sound(G, p), p.state # "CLOSED", p.recv_data = <<>>,
           NEW f \in End, NEW w \in Nat, w < Seq32, NEW k \in Nat, Heard(f, k, w, p),
           NEW s \in Packets(BytesOf(f, w)),
           NEW again \in {"now", "later", "refuse"}, NEW take \in {"now", "later", "refuse"},
           NEW mem
    PROVE  LET q == Input(p, s, again, take, mem) IN Sound(G, q) /\ Heard(f, k, w, q)
  <1> DEFINE none == <<>>
             kept == p.refused_data # none
             p1 == TCP_EVENT_RECV(p, p.refused_data, again, mem)
             p2 == tcp_process(p1, s)
             p3 == TCP_EVENT_RECV(p2, p2.recv_data, take, mem)
             o == tcp_output(p3, mem)
             Fine(q) == Sound(G, q) /\ Heard(f, k, w, q)
  <1>1. Input(p, s, again, take, mem) =
          IF kept /\ again = "refuse" THEN p
          ELSE IF p2.state = "CLOSED" \/ p3.refused_data # none THEN p3 ELSE o
    BY Zenon DEF Input
  <1>2. /\ Fine(p1) /\ p1.state = p.state /\ p1.recv_data = p.recv_data
        /\ ~kept \/ again # "refuse" => p1.refused_data = none
    <2> DEFINE data == p.refused_data
    <2>1. Pending(f, k, w, p, data)
      BY DEF Heard
    <2> HIDE DEF data, p1, p2, p3, o, none, kept, Fine
    <2>3. LET q == TCP_EVENT_RECV(p, data, again, mem)
          IN  Sound(G, q) /\ Heard(f, k, w, q) /\ Answered(p, q, data, again)
      BY <2>1, EventSound
    <2> QED BY <2>3 DEF data, p1, none, kept, Fine, Answered
  <1> HIDE DEF p1
  <1>3. ASSUME ~kept \/ again # "refuse" PROVE Fine(p3) /\ Fine(o)
    <2>1. Sound(G, p2) /\ Pending(f, k, w, p2, p2.recv_data) /\ p2.refused_data = none
      <3>1. p1.state # "CLOSED" /\ p1.recv_data = <<>> /\ p1.refused_data = <<>>
        BY <1>2, <1>3
      <3> HIDE DEF p3, o, none
      <3>2. LET q == tcp_process(p1, s)
            IN  Sound(G, q) /\ Pending(f, k, w, q, q.recv_data) /\ q.refused_data = <<>>
        BY <1>2, <3>1, ProcessSound
      <3> QED BY <3>2 DEF none
    <2> HIDE DEF p2, o
    <2>2. Sound(G, p3) /\ Heard(f, k, w, p3)
      <3> HIDE DEF none
      <3> QED BY <2>1, EventSound
    <2> HIDE DEF p3
    <2>3. Sound(G, o) /\ SameInput(p3, o)
      BY <2>2, OutputSound DEF o
    <2> HIDE DEF o
    <2> QED BY <2>2, <2>3, HeardSame
  <1> HIDE DEF p2, p3, o, kept
  <1> QED BY <1>1, <1>3

\* Both timers, with the callback for what was refused
LEMMA TickSound ==
    ASSUME NEW G, Pieces(G), FirstBytes(G), NEW p, Sound(G, p),
           NEW f \in End, NEW w \in Nat, NEW k \in Nat, Heard(f, k, w, p),
           NEW again \in {"now", "later", "refuse"}, NEW slow, NEW due, NEW mem
    PROVE  LET q == Tick(p, slow, due, again, mem) IN Sound(G, q) /\ Heard(f, k, w, q)
  <1> DEFINE p1 == TCP_EVENT_RECV(p, p.refused_data, again, mem)
             fast == DelayedAck(p1, mem)
             q == tcp_slowtmr(fast, due, mem)
  <1>1. Tick(p, slow, due, again, mem) = IF slow THEN q ELSE fast
    BY Zenon DEF Tick
  <1>2. Sound(G, p1) /\ Heard(f, k, w, p1)
    <2>1. Pending(f, k, w, p, p.refused_data)
      BY DEF Heard
    <2> HIDE DEF fast, q
    <2> QED BY <2>1, EventSound
  <1> HIDE DEF p1
  <1>3. Sound(G, fast) /\ SameInput(p1, fast)
    BY <1>2, DelayedSound
  <1> HIDE DEF fast
  <1>4. Heard(f, k, w, fast)
    BY <1>2, <1>3, HeardSame
  <1>5. Sound(G, q) /\ (SameInput(fast, q) \/ Ended(fast, q))
    BY <1>3, SlowSound
  <1> HIDE DEF q
  <1>6. Heard(f, k, w, q)
    BY <1>4, <1>5, HeardSame, HeardEnded
  <1> QED BY <1>1, <1>3, <1>4, <1>5, <1>6

-----------------------------------------------------------------------------
(* tcp_enqueue                                                             *)

\* Pieces with bytes among the first w, under whatever numbers
AnyBytes(w) == Int \X Seq(1..w)

\* Bytes under any number are pieces too.
LEMMA AnyPieces ==
    ASSUME NEW w \in Nat
    PROVE  Pieces(AnyBytes(w))
  <1>1. Seq(1..w) \subseteq Seq(Nat)
    <2>1. 1..w \subseteq Nat
      OBVIOUS
    <2> QED BY <2>1
  <1>2. \A n \in Int : <<n, <<>>>> \in Int \X Seq(1..w)
    <2> DEFINE none == <<>>
    <2>1. none \in Seq(1..w)
      OBVIOUS
    <2> HIDE DEF none
    <2>2. \A n \in Int : <<n, none>> \in Int \X Seq(1..w)
      BY <2>1
    <2> QED BY <2>2 DEF none
  <1> QED BY <1>1, <1>2 DEF AnyBytes, Pieces

\* A segment of them
LEMMA AnySegs ==
    ASSUME NEW w \in Nat, NEW seqno \in Int, NEW data \in Seq(1..w), NEW pbufs \in Int
    PROVE  [seqno |-> seqno, pbufs |-> pbufs, data |-> data] \in Segs(AnyBytes(w))
  <1> DEFINE seg == [seqno |-> seqno, pbufs |-> pbufs, data |-> data]
  <1>1. 1..w \subseteq Nat
    OBVIOUS
  <1>2. data \in Seq(Nat)
    BY <1>1
  <1>3. seg \in [seqno : Int, data : Seq(Nat), pbufs : Int] /\ seg.seqno = seqno /\ seg.data = data
    BY <1>2
  <1> HIDE DEF seg
  <1>4. <<seg.seqno, seg.data>> \in Int \X Seq(1..w)
    BY <1>3
  <1>5. seg \in Segs(AnyBytes(w))
    BY <1>3, <1>4 DEF Segs, AnyBytes
  <1> QED BY <1>5 DEF seg

\* Something to send takes at least one segment.
LEMMA SomeSegments ==
    ASSUME NEW len \in Nat \ {0}
    PROVE  (len + Mss - 1) \div Mss \in Nat \ {0}
  <1> DEFINE b == len + Mss - 1
             q == b \div Mss
             r == b % Mss
  <1>0. Mss \in Nat \ {0}
    BY Constants
  <1>1. b \in Int /\ b >= Mss
    BY <1>0
  <1>2. q \in Int /\ r \in 0..(Mss - 1) /\ b = Mss * q + r
    <2> HIDE DEF b
    <2> QED BY <1>0, <1>1, DivMod
  <1> HIDE DEF b, q, r
  <1>3. ASSUME q <= 0 PROVE FALSE
    <2>1. Mss * q <= 0
      <3>1. Mss * (-q) >= 0
        BY <1>0, <1>2, <1>3
      <3>2. Mss * q = -(Mss * (-q))
        BY <1>0, <1>2
      <3>3. Mss * (-q) \in Int
        BY <1>0, <1>2
      <3> QED BY <3>1, <3>2, <3>3
    <2>2. Mss * q \in Int
      BY <1>0, <1>2
    <2> QED BY <1>0, <1>1, <1>2, <2>1, <2>2
  <1>4. q \in Nat \ {0}
    BY <1>2, <1>3
  <1> QED BY <1>4 DEF q, b

\* tcp_enqueue queues the data, and touches nothing that was received.
LEMMA EnqueueSound ==
    ASSUME NEW w \in Nat, NEW p, Sound(AnyBytes(w), p),
           NEW data \in Seq(1..w), Len(data) # 0, NEW copy \in BOOLEAN, NEW mem
    PROVE  LET q == tcp_enqueue(p, data, copy, mem)
           IN  \/ Alike(p, q)
               \/ /\ Sound(AnyBytes(w), q) /\ SameInput(p, q) /\ q.out = p.out
                  /\ q.snd_buf = p.snd_buf - Len(data)
  <1> DEFINE n == (Len(data) + Mss - 1) \div Mss
             pbufs == IF copy THEN 1 ELSE 2
             part(i) == [seqno |-> Plus(p.snd_lbb, (i - 1) * Mss), pbufs |-> pbufs,
                         data |-> SubSeq(data, (i - 1) * Mss + 1, Min({i * Mss, Len(data)}))]
             queue == [i \in 1..n |-> part(i)]
             fails == \/ Len(data) > p.snd_buf
                      \/ p.snd_queuelen >= SndQueueLen
                      \/ p.snd_queuelen + n * pbufs > SndQueueLen
                      \/ ~mem
             last == Last(p.unsent)
             joins == p.unsent # <<>> /\ TCPLEN(last) + TCPLEN(queue[1]) <= Mss
             joined == [last EXCEPT !.data = last.data \o queue[1].data, !.pbufs = last.pbufs + 1]
             unsent == IF joins THEN Front(p.unsent) \o <<joined>> \o Tail(queue)
                       ELSE p.unsent \o queue
             lbb == Plus(p.snd_lbb, Len(data))
             buf == p.snd_buf - Len(data)
             len == p.snd_queuelen + n * pbufs - (IF joins /\ ~copy THEN 1 ELSE 0)
             f == [p EXCEPT !.naglememerr = TRUE]
             q == [p EXCEPT !.unsent = unsent, !.snd_lbb = lbb, !.snd_buf = buf,
                            !.snd_queuelen = len]
             S == Segs(AnyBytes(w))
  <1>1. tcp_enqueue(p, data, copy, mem) = IF fails THEN f ELSE q
    BY Zenon DEF tcp_enqueue
  <1>2. Alike(p, f)
    <2> DOMAIN p = Fields
      BY DEF Sound
    <2> QED BY FieldsAre, Zenon DEF Alike, SameInput, SameQueues, SameNumbers, SameAccount
  <1>3. Len(data) \in Nat \ {0} /\ Mss \in Nat \ {0} /\ p.snd_lbb \in Int /\ p.snd_buf \in Int
    <2>1. Len(data) \in Nat
      BY LenProperties
    <2> QED BY <2>1, Constants DEF Sound, Numbers
  <1>4. n \in Nat \ {0}
    <2> DEFINE l == Len(data)
    <2>1. l \in Nat \ {0}
      BY <1>3
    <2> HIDE DEF l
    <2>2. (l + Mss - 1) \div Mss \in Nat \ {0}
      BY <2>1, SomeSegments
    <2> QED BY <2>2 DEF l
  <1>5. ASSUME NEW i \in 1..n PROVE part(i) \in S
    <2> DEFINE from == (i - 1) * Mss
               to == Min({i * Mss, Len(data)})
               bytes == SubSeq(data, from + 1, to)
               seqno == Plus(p.snd_lbb, from)
    <2>1. from \in Nat /\ i * Mss \in Int
      <3>1. i - 1 \in Nat /\ i \in Nat
        BY <1>4
      <3> HIDE DEF n
      <3> QED BY <1>3, <3>1
    <2>2. to \in Int /\ to <= Len(data)
      <3>1. \A x, y \in Int : Min({x, y}) \in Int /\ Min({x, y}) <= y
        BY Smaller
      <3>2. Len(data) \in Int
        BY <1>3
      <3> QED BY <2>1, <3>1, <3>2
    <2>3. part(i) = [seqno |-> seqno, pbufs |-> pbufs, data |-> bytes]
      OBVIOUS
    <2> HIDE DEF from, to, part
    <2>4. bytes \in Seq(1..w)
      <3>1. from + 1 \in Int /\ 1 <= from + 1
        BY <2>1
      <3> QED BY <2>2, <3>1, Piece
    <2>5. seqno \in Int
      <3>1. \A a, b \in Int : Plus(a, b) \in Int
        BY PlusIn
      <3>2. p.snd_lbb \in Int /\ from \in Int
        BY <1>3, <2>1
      <3> QED BY <3>1, <3>2, Zenon
    <2>6. pbufs \in Int
      OBVIOUS
    <2> HIDE DEF bytes, seqno, pbufs, S
    <2>7. [seqno |-> seqno, pbufs |-> pbufs, data |-> bytes] \in S
      BY <2>4, <2>5, <2>6, AnySegs DEF S
    <2> QED BY <2>3, <2>7
  <1>6. queue \in Seq(S) /\ queue[1] \in S /\ Tail(queue) \in Seq(S)
    <2> HIDE DEF n, part, S
    <2>1. queue \in Seq(S) /\ Len(queue) = n /\ 1 \in 1..n
      BY <1>4, <1>5
    <2>2. queue[1] \in S
      BY <1>4, <1>5
    <2> HIDE DEF queue
    <2>3. queue # <<>>
      BY <1>4, <2>1
    <2> QED BY <2>1, <2>2, <2>3, HeadTailProperties
  <1>7. p.unsent \in Seq(S)
    BY DEF Sound, Queues
  <1>8. ASSUME p.unsent # <<>> PROVE Front(p.unsent) \in Seq(S) /\ joined \in S
    <2> HIDE DEF queue, S
    <2>1. Len(p.unsent) \in Nat /\ Len(p.unsent) # 0
      BY <1>7, <1>8, EmptySeq, LenProperties
    <2>2. Front(p.unsent) \in Seq(S)
      <3>1. Len(p.unsent) - 1 \in Int /\ Len(p.unsent) - 1 <= Len(p.unsent)
        BY <2>1
      <3> QED BY <1>7, <3>1, Piece DEF Front
    <2>3. last \in S
      BY <1>7, <2>1, ElementOfSeq DEF Last
    <2> HIDE DEF last
    <2>4. /\ last \in [seqno : Int, data : Seq(Nat), pbufs : Int]
          /\ queue[1] \in [seqno : Int, data : Seq(Nat), pbufs : Int]
          /\ last.data \in Seq(1..w) /\ queue[1].data \in Seq(1..w)
      BY <1>6, <2>3 DEF S, Segs, AnyBytes
    <2> DEFINE bytes == last.data \o queue[1].data
    <2>5. bytes \in Seq(1..w)
      BY <2>4, ConcatProperties
    <2>6. joined = [seqno |-> last.seqno, pbufs |-> last.pbufs + 1, data |-> bytes]
      <3> HIDE DEF bytes
      <3> DEFINE a == last.seqno
                 b == last.data
                 c == last.pbufs
                 k == last.pbufs + 1
      <3>1. last = [seqno |-> a, data |-> b, pbufs |-> c]
        BY <2>4
      <3> HIDE DEF a, b, c, k
      <3>2. [[seqno |-> a, data |-> b, pbufs |-> c] EXCEPT !.data = bytes, !.pbufs = k]
              = [seqno |-> a, pbufs |-> k, data |-> bytes]
        <4> DEFINE r == [seqno |-> a, data |-> b, pbufs |-> c]
                   s == [seqno |-> a, data |-> bytes, pbufs |-> c]
        <4>1. [r EXCEPT !.data = bytes] = s
          OBVIOUS
        <4>2. [s EXCEPT !.pbufs = k] = [seqno |-> a, pbufs |-> k, data |-> bytes]
          OBVIOUS
        <4> HIDE DEF r, s
        <4>3. [r EXCEPT !.data = bytes, !.pbufs = k] = [[r EXCEPT !.data = bytes] EXCEPT !.pbufs = k]
          BY Zenon
        <4>4. [r EXCEPT !.data = bytes, !.pbufs = k] = [seqno |-> a, pbufs |-> k, data |-> bytes]
          BY <4>1, <4>2, <4>3
        <4> QED BY <4>4 DEF r
      <3>3. [last EXCEPT !.data = bytes, !.pbufs = k] = [seqno |-> a, pbufs |-> k, data |-> bytes]
        BY <3>1, <3>2
      <3> QED BY <3>3 DEF a, k, bytes
    <2> HIDE DEF joined, bytes
    <2>7. joined \in S
      BY <2>4, <2>5, <2>6, AnySegs DEF S
    <2> QED BY <2>2, <2>7
  <1>9. unsent \in Seq(S)
    <2>1. p.unsent \o queue \in Seq(S)
      <3> HIDE DEF queue, S
      <3> QED BY <1>6, <1>7, ConcatProperties
    <2>2. ASSUME p.unsent # <<>> PROVE Front(p.unsent) \o <<joined>> \o Tail(queue) \in Seq(S)
      <3> HIDE DEF queue, S, joined
      <3> DEFINE one == <<joined>>
      <3>1. one \in Seq(S)
        BY <1>8, <2>2
      <3> HIDE DEF one
      <3>2. (Front(p.unsent) \o one) \o Tail(queue) \in Seq(S)
        BY <1>6, <1>8, <2>2, <3>1, ConcatProperties
      <3> QED BY <3>2 DEF one
    <2> HIDE DEF queue, joined, S, last
    <2> QED BY <2>1, <2>2
  <1>10. lbb \in Int /\ buf \in Int
    <2>1. \A a, b \in Int : Plus(a, b) \in Int /\ a - b \in Int
      BY PlusIn
    <2>2. p.snd_lbb \in Int /\ p.snd_buf \in Int /\ Len(data) \in Int
      BY <1>3
    <2> QED BY <2>1, <2>2, Zenon
  <1>11. /\ DOMAIN q = Fields /\ SameInput(p, q)
         /\ q.out = p.out /\ q.unsent = unsent /\ q.unacked = p.unacked
         /\ q.snd_nxt = p.snd_nxt /\ q.rcv_wnd = p.rcv_wnd
         /\ q.rcv_ann_wnd = p.rcv_ann_wnd /\ q.rcv_ann_right_edge = p.rcv_ann_right_edge
         /\ q.snd_lbb = lbb /\ q.lastack = p.lastack /\ q.snd_buf = buf
    <2> DOMAIN p = Fields
      BY DEF Sound
    <2> HIDE DEF unsent, lbb, buf, len
    <2> QED BY FieldsAre, Zenon DEF SameInput
  <1> HIDE DEF q, f, unsent, lbb, len, S, fails
  <1>12. Sound(AnyBytes(w), q)
    <2> HIDE DEF buf
    <2>1. p.unacked \in Seq(S)
      BY DEF Sound, Queues, S
    <2> QED BY <1>9, <1>10, <1>11, <2>1 DEF Sound, Numbers, Queues, SameInput, S
  <1> QED BY <1>1, <1>2, <1>11, <1>12

-----------------------------------------------------------------------------
(* The two ends                                                            *)

\* There are two ends.
LEMMA Ends ==
    /\ \A e \in End : Peer(e) \in End /\ Peer(e) # e /\ Peer(Peer(e)) = e
    /\ \A e, f \in End : f = e \/ f = Peer(e)
  <1>1. Peer("client") = "server"
    <2>1. \A f \in End : f # "client" <=> f = "server"
      BY DEF End
    <2> QED BY <2>1 DEF Peer, End
  <1>2. Peer("server") = "client"
    <2>1. \A f \in End : f # "server" <=> f = "client"
      BY DEF End
    <2> QED BY <2>1 DEF Peer, End
  <1> QED BY <1>1, <1>2 DEF End

\* One end between two steps: w bytes written there, v at the other end, the
\* block p, the bytes g delivered, the packets under way to it
EndOK(e, w, v, p, g, packets) ==
    /\ Sound(BytesOf(e, w), p)
    /\ p.out = <<>> /\ p.recv_data = <<>> /\ p.given = <<>> /\ p.owed = 0
    /\ Line(g, 0)
    /\ Heard(Peer(e), Len(g), v, p)
    /\ packets \in Seq(Packets(BytesOf(Peer(e), v)))

\* Whatever is queued or under way stands under its own numbers, and an end
\* counts on exactly what it has received.
ByteInv ==
    /\ written \in [End -> 0..MaxBytes]
    /\ unread \in [End -> Int] /\ got \in [End -> Seq(Nat)]
    /\ DOMAIN pcb = End /\ DOMAIN net = End
    /\ \A e \in End : EndOK(e, written[e], written[Peer(e)], pcb[e], got[e], net[e])

\* What is under way remains in order when more is written.
LEMMA PacketsGrow ==
    ASSUME NEW G, NEW H, G \subseteq H
    PROVE  Packets(G) \subseteq Packets(H) /\ Seq(Packets(G)) \subseteq Seq(Packets(H))
  <1>1. Packets(G) \subseteq Packets(H)
    BY DEF Packets
  <1> HIDE DEF Packets
  <1> QED BY <1>1

\* More may be written meanwhile.
LEMMA HeardGrows ==
    ASSUME NEW f, NEW k \in Nat, NEW v \in Nat, NEW w \in Nat, v <= w, NEW p, Heard(f, k, v, p)
    PROVE  Heard(f, k, w, p)
  <1>1. Len(p.given) \in Nat /\ Len(p.refused_data) \in Nat
    BY LenProperties DEF Heard, Pending, Line
  <1>2. \A a, b \in Nat : k + a + b <= v => k + a + b <= w
    OBVIOUS
  <1> QED BY <1>1, <1>2 DEF Heard, Pending

\* What Settle leaves in the block
Cleared(p) == [p EXCEPT !.out = <<>>, !.recv_data = <<>>, !.given = <<>>, !.owed = 0]

\* What the step hands on is taken from the block.
LEMMA ClearedFields ==
    ASSUME NEW p, DOMAIN p = Fields
    PROVE  LET q == Cleared(p)
           IN  /\ DOMAIN q = Fields /\ SameNumbers(p, q) /\ SameQueues(p, q)
               /\ q.state = p.state /\ q.rcv_nxt = p.rcv_nxt /\ q.refused_data = p.refused_data
               /\ q.out = <<>> /\ q.recv_data = <<>> /\ q.given = <<>> /\ q.owed = 0
  <1> DEFINE none == <<>>
             zero == 0
             q == [p EXCEPT !.out = none, !.recv_data = none, !.given = none, !.owed = zero]
  <1>1. /\ DOMAIN q = Fields /\ SameNumbers(p, q) /\ SameQueues(p, q)
        /\ q.state = p.state /\ q.rcv_nxt = p.rcv_nxt /\ q.refused_data = p.refused_data
        /\ q.out = none /\ q.recv_data = none /\ q.given = none /\ q.owed = zero
    <2> HIDE DEF none, zero
    <2> QED BY FieldsAre, Zenon DEF SameNumbers, SameAccount, SameQueues
  <1>2. q = Cleared(p)
    BY Zenon DEF Cleared
  <1> HIDE DEF q
  <1> QED BY <1>1, <1>2

\* The block is as sound without it, and what was given counts as received.
LEMMA ClearedSound ==
    ASSUME NEW f, NEW k \in Nat, NEW w \in Nat, NEW G, NEW p, Sound(G, p), Heard(f, k, w, p)
    PROVE  LET q == Cleared(p)
           IN  /\ Sound(G, q) /\ Heard(f, k + Len(p.given), w, q)
               /\ q.out = <<>> /\ q.recv_data = <<>> /\ q.given = <<>> /\ q.owed = 0
  <1> DEFINE q == Cleared(p)
             none == <<>>
             m == k + Len(p.given)
  <1>1. /\ DOMAIN q = Fields /\ SameNumbers(p, q) /\ SameQueues(p, q)
        /\ q.state = p.state /\ q.rcv_nxt = p.rcv_nxt /\ q.refused_data = p.refused_data
        /\ q.out = none /\ q.recv_data = none /\ q.given = none /\ q.owed = 0
    <2> DOMAIN p = Fields
      BY DEF Sound
    <2> QED BY ClearedFields
  <1>2. none \in Seq(Packets(G)) /\ Line(none, m) /\ Len(none) = 0
    BY EmptyLine
  <1> HIDE DEF q, none
  <1>3. Sound(G, q)
    BY <1>1, <1>2 DEF Sound, Numbers, Queues, SameNumbers, SameAccount, SameQueues
  <1>4. Len(p.given) \in Nat /\ Len(p.refused_data) \in Nat
    BY LenProperties DEF Heard, Pending, Line
  <1>5. m \in Nat /\ m + Len(none) = m /\ m + Len(none) + Len(q.refused_data) = m + Len(p.refused_data)
    BY <1>1, <1>2, <1>4
  <1>6. Heard(f, m, w, q)
    <2>1. /\ Line(p.refused_data, m) /\ m + Len(p.refused_data) <= w
          /\ p.state # "CLOSED" => p.rcv_nxt = Plus(Iss[f], m + Len(p.refused_data))
      BY DEF Heard, Pending
    <2> HIDE DEF m
    <2> QED BY <1>1, <1>2, <1>5, <2>1 DEF Heard, Pending
  <1> QED BY <1>1, <1>3, <1>6 DEF q, none

\* A line from the first byte on is the stream itself.
LEMMA LineIs ==
    ASSUME NEW g, Line(g, 0)
    PROVE  g = [i \in 1..Len(g) |-> i]
  <1>1. g \in Seq(Nat) /\ DOMAIN g = 1..Len(g) /\ g = [i \in DOMAIN g |-> g[i]]
    BY LenProperties DEF Line
  <1>2. \A i \in 1..Len(g) : g[i] = i
    BY <1>1 DEF Line
  <1> QED BY <1>1, <1>2

\* What a step of e may do: give its application the next bytes of its peer
Delivers(e, g, v) == Line(g, 0) /\ Len(got[e]) <= Len(g) /\ Len(g) <= v

\* Settle ends a step of e soundly if the step has left e a sound block.
LEMMA SettleSound ==
    ASSUME ByteInv, NEW e \in End, NEW p, NEW rest, Settle(e, p, rest),
           NEW w \in 0..MaxBytes, written[e] <= w, written' = [written EXCEPT ![e] = w],
           Sound(BytesOf(e, w), p), Heard(Peer(e), Len(got[e]), written[Peer(e)], p),
           rest \in Seq(Packets(BytesOf(Peer(e), written[Peer(e)])))
    PROVE  /\ ByteInv'
           /\ got' = [got EXCEPT ![e] = got[e] \o p.given]
           /\ Delivers(e, got[e] \o p.given, written[Peer(e)])
  <1> DEFINE f == Peer(e)
             v == written[f]
             k == Len(got[e])
             q == Cleared(p)
             g == got[e] \o p.given
             sent == net[f] \o p.out
             m == Min({Len(sent), NetCap})
             packets == SubSeq(sent, 1, m)
  <1>1. f \in End /\ f # e /\ Peer(f) = e /\ \A x \in End : x = e \/ x = f
    BY Ends
  <1>2. /\ written \in [End -> 0..MaxBytes] /\ v \in 0..MaxBytes /\ written[e] \in 0..MaxBytes
        /\ MaxBytes \in Nat /\ w \in Nat /\ v \in Nat
        /\ unread \in [End -> Int]
        /\ DOMAIN pcb = End /\ DOMAIN net = End /\ got \in [End -> Seq(Nat)]
    <2>1. written \in [End -> 0..MaxBytes] /\ MaxBytes \in Nat
      BY Constants DEF ByteInv
    <2>2. v \in 0..MaxBytes /\ written[e] \in 0..MaxBytes
      <3> HIDE DEF f
      <3> QED BY <1>1, <2>1 DEF v
    <2> HIDE DEF f, v
    <2> QED BY <2>1, <2>2 DEF ByteInv
  <1>3. /\ EndOK(e, written[e], v, pcb[e], got[e], net[e])
        /\ EndOK(f, v, written[e], pcb[f], got[f], net[f])
    <2>1. \A x \in End : EndOK(x, written[x], written[Peer(x)], pcb[x], got[x], net[x])
      BY DEF ByteInv
    <2>2. EndOK(e, written[e], written[Peer(e)], pcb[e], got[e], net[e])
      BY <2>1
    <2>3. EndOK(f, written[f], written[Peer(f)], pcb[f], got[f], net[f])
      <3> HIDE DEF f
      <3> QED BY <1>1, <2>1
    <2> HIDE DEF f
    <2> QED BY <1>1, <2>2, <2>3 DEF f
  <1>4. /\ pcb' = [pcb EXCEPT ![e] = q]
        /\ net' = [net EXCEPT ![e] = rest, ![f] = packets]
        /\ got' = [got EXCEPT ![e] = g]
        /\ unread' = [unread EXCEPT ![e] = @ + p.owed]
    BY Zenon DEF Settle, Cleared
  <1>5. k \in Nat /\ Line(got[e], 0) /\ k = Len(got[e])
    <2>1. Line(got[e], 0)
      BY <1>3 DEF EndOK
    <2> QED BY <2>1, LenProperties DEF Line
  <1>6. /\ Line(p.given, k) /\ Len(p.given) \in Nat /\ Len(p.refused_data) \in Nat
        /\ k + Len(p.given) + Len(p.refused_data) <= v
    <2>1. Heard(f, k, v, p)
      OBVIOUS
    <2> HIDE DEF f, k, v
    <2> QED BY <2>1, LenProperties DEF Heard, Pending, Line
  <1>7. Line(g, 0) /\ Len(g) = k + Len(p.given)
    <2> HIDE DEF f, v, q, sent, m, packets
    <2>1. Line(p.given, 0 + Len(got[e]))
      BY <1>5, <1>6
    <2>2. \A s, t : Line(s, 0) /\ Line(t, 0 + Len(s))
                    => Line(s \o t, 0) /\ Len(s \o t) = Len(s) + Len(t)
      BY LinesJoin
    <2>3. Line(got[e] \o p.given, 0) /\ Len(got[e] \o p.given) = Len(got[e]) + Len(p.given)
      BY <1>5, <2>1, <2>2, Zenon
    <2> QED BY <2>3
  <1>8. EndOK(e, w, v, q, g, rest)
    <2>1. /\ Sound(BytesOf(e, w), q) /\ Heard(f, k + Len(p.given), v, q)
          /\ q.out = <<>> /\ q.recv_data = <<>> /\ q.given = <<>> /\ q.owed = 0
      <3>1. Heard(f, k, v, p)
        OBVIOUS
      <3> HIDE DEF f, k, v, g, sent, m, packets
      <3>2. LET c == Cleared(p)
            IN  /\ Sound(BytesOf(e, w), c) /\ Heard(f, k + Len(p.given), v, c)
                /\ c.out = <<>> /\ c.recv_data = <<>> /\ c.given = <<>> /\ c.owed = 0
        <4>1. k \in Nat /\ v \in Nat /\ Sound(BytesOf(e, w), p)
          BY <1>2, <1>5
        <4> DEFINE G == BytesOf(e, w)
        <4> HIDE DEF G, q
        <4>2. Sound(G, p)
          BY <4>1 DEF G
        <4>3. LET c == Cleared(p)
              IN  /\ Sound(G, c) /\ Heard(f, k + Len(p.given), v, c)
                  /\ c.out = <<>> /\ c.recv_data = <<>> /\ c.given = <<>> /\ c.owed = 0
          BY <3>1, <4>1, <4>2, ClearedSound, ZenonT(60)
        <4> QED BY <4>3 DEF G
      <3> QED BY <3>2
    <2>2. rest \in Seq(Packets(BytesOf(f, v)))
      OBVIOUS
    <2>3. Heard(f, Len(g), v, q)
      BY <1>7, <2>1
    <2> HIDE DEF q, g, k, v
    <2> QED BY <1>7, <2>1, <2>2, <2>3 DEF EndOK
  <1>9. EndOK(f, v, w, pcb[f], got[f], packets)
    <2> HIDE DEF f, v
    <2>1. Len(got[f]) \in Nat
      BY <1>3, LenProperties DEF EndOK, Line
    <2>2. Heard(e, Len(got[f]), w, pcb[f])
      <3>1. Heard(e, Len(got[f]), written[e], pcb[f]) /\ written[e] \in Nat
        BY <1>1, <1>2, <1>3 DEF EndOK
      <3> HIDE DEF k, q, g, sent, m, packets
      <3> QED BY <1>2, <2>1, <3>1, HeardGrows
    <2>3. net[f] \in Seq(Packets(BytesOf(e, w)))
      <3>1. net[f] \in Seq(Packets(BytesOf(e, written[e])))
        BY <1>1, <1>3 DEF EndOK
      <3>2. written[e] \in Nat /\ w \in Nat
        BY <1>2
      <3> HIDE DEF k, q, g, sent, m, packets
      <3>3. BytesOf(e, written[e]) \subseteq BytesOf(e, w)
        BY <3>2, BytesGrow
      <3> QED BY <3>1, <3>3, PacketsGrow
    <2>4. sent \in Seq(Packets(BytesOf(e, w)))
      <3>1. p.out \in Seq(Packets(BytesOf(e, w)))
        BY DEF Sound
      <3> HIDE DEF k, q, g, packets
      <3> QED BY <2>3, <3>1, ConcatProperties
    <2>5. packets \in Seq(Packets(BytesOf(e, w)))
      <3> HIDE DEF sent
      <3>1. m \in Int /\ m <= Len(sent)
        <4>1. Len(sent) \in Int /\ NetCap \in Int
          BY <2>4, LenProperties, Constants
        <4>2. \A x, y \in Int : Min({x, y}) \in Int /\ Min({x, y}) <= x
          BY Smaller
        <4> QED BY <4>1, <4>2
      <3> HIDE DEF m, k, q, g
      <3> QED BY <2>4, <3>1, Piece
    <2> HIDE DEF packets
    <2> QED BY <1>1, <1>3, <2>2, <2>5 DEF EndOK
  <1> HIDE DEF q, g, sent, m, packets, k
  <1>10. /\ pcb'[e] = q /\ pcb'[f] = pcb[f] /\ DOMAIN pcb' = End
         /\ got'[e] = g /\ got'[f] = got[f] /\ got' \in [End -> Seq(Nat)]
         /\ net'[e] = rest /\ net'[f] = packets /\ DOMAIN net' = End
         /\ written'[e] = w /\ written'[f] = v /\ written' \in [End -> 0..MaxBytes]
    <2> HIDE DEF f
    <2>1. pcb'[e] = q /\ pcb'[f] = pcb[f] /\ DOMAIN pcb' = End
      BY <1>1, <1>2, <1>4
    <2>2. got'[e] = g /\ got'[f] = got[f] /\ got' \in [End -> Seq(Nat)]
      <3>1. g \in Seq(Nat)
        BY <1>7 DEF Line
      <3> QED BY <1>1, <1>2, <1>4, <3>1
    <2>3. net'[e] = rest /\ net'[f] = packets /\ DOMAIN net' = End
      BY <1>1, <1>2, <1>4
    <2>4. written'[e] = w /\ written'[f] = v /\ written' \in [End -> 0..MaxBytes]
      BY <1>1, <1>2
    <2> QED BY <2>1, <2>2, <2>3, <2>4
  <1>11. unread' \in [End -> Int]
    <2>1. p.owed \in Int
      BY DEF Sound, Numbers
    <2> HIDE DEF f, v
    <2> QED BY <1>2, <1>4, <2>1
  <1>12. ASSUME NEW x \in End
         PROVE  EndOK(x, written'[x], written'[Peer(x)], pcb'[x], got'[x], net'[x])
    <2> HIDE DEF f, v
    <2>1. Peer(e) = f
      BY DEF f
    <2>2. CASE x = e
      BY <1>1, <1>8, <1>10, <2>1, <2>2
    <2>3. CASE x = f
      BY <1>1, <1>9, <1>10, <2>3
    <2> QED BY <1>1, <2>2, <2>3
  <1>13. ByteInv'
    <2> HIDE DEF f, v
    <2> QED BY <1>10, <1>11, <1>12 DEF ByteInv
  <1>14. Delivers(e, g, v)
    <2>1. Len(got[e]) <= Len(g) /\ Len(g) <= v
      <3>1. \A a, b, c \in Nat : a + b + c <= v => a <= a + b /\ a + b <= v
        BY <1>2
      <3> HIDE DEF f, v
      <3> QED BY <1>5, <1>6, <1>7, <3>1
    <2> QED BY <1>7, <2>1 DEF Delivers
  <1> QED BY <1>4, <1>13, <1>14 DEF g

\* What ByteInv says of an end
LEMMA EndFacts ==
    ASSUME ByteInv, NEW e \in End
    PROVE  /\ Sound(BytesOf(e, written[e]), pcb[e])
           /\ pcb[e].out = <<>> /\ pcb[e].recv_data = <<>>
           /\ pcb[e].given = <<>> /\ pcb[e].owed = 0
           /\ Line(got[e], 0) /\ Len(got[e]) \in Nat
           /\ Heard(Peer(e), Len(got[e]), written[Peer(e)], pcb[e])
           /\ net[e] \in Seq(Packets(BytesOf(Peer(e), written[Peer(e)])))
           /\ Peer(e) \in End
           /\ written[e] \in 0..MaxBytes /\ written[e] \in Nat
           /\ written[Peer(e)] \in 0..MaxBytes /\ written[Peer(e)] \in Nat
           /\ unread[e] \in Int
           /\ Pieces(BytesOf(e, written[e])) /\ FirstBytes(BytesOf(e, written[e]))
           /\ written \in [End -> 0..MaxBytes] /\ got = [got EXCEPT ![e] = got[e]]
  <1>1. Peer(e) \in End /\ MaxBytes \in Nat
    BY Ends, Constants
  <1>2. written \in [End -> 0..MaxBytes] /\ unread \in [End -> Int] /\ got \in [End -> Seq(Nat)]
    BY DEF ByteInv
  <1>3. EndOK(e, written[e], written[Peer(e)], pcb[e], got[e], net[e])
    BY DEF ByteInv
  <1>4. Len(got[e]) \in Nat
    BY <1>3, LenProperties DEF EndOK, Line
  <1>5. written[e] \in 0..MaxBytes /\ written[e] \in Nat
    BY <1>1, <1>2
  <1>6. written[Peer(e)] \in 0..MaxBytes /\ written[Peer(e)] \in Nat
    <2> DEFINE f == Peer(e)
    <2> HIDE DEF f
    <2>1. written[f] \in 0..MaxBytes /\ written[f] \in Nat
      <3>1. f \in End
        BY <1>1 DEF f
      <3> QED BY <1>1, <1>2, <3>1
    <2> QED BY <2>1 DEF f
  <1>7. Pieces(BytesOf(e, written[e])) /\ FirstBytes(BytesOf(e, written[e]))
    BY <1>5, BytesArePieces
  <1>8. got = [got EXCEPT ![e] = got[e]]
    BY <1>2
  <1> QED BY <1>1, <1>2, <1>3, <1>4, <1>5, <1>6, <1>7, <1>8 DEF EndOK

\* A step that writes nothing delivers at most what is written.
LEMMA StepSound ==
    ASSUME ByteInv, NEW e \in End, NEW p, NEW rest, Settle(e, p, rest), written' = written,
           Sound(BytesOf(e, written[e]), p),
           Heard(Peer(e), Len(got[e]), written[Peer(e)], p),
           rest \in Seq(Packets(BytesOf(Peer(e), written[Peer(e)])))
    PROVE  ByteInv' /\ Stream!Deliver(e)
  <1> DEFINE w == written[e]
             v == written[Peer(e)]
             g == got[e] \o p.given
  <1>1. /\ written \in [End -> 0..MaxBytes] /\ w \in 0..MaxBytes /\ w \in Nat /\ v \in Nat
        /\ got \in [End -> Seq(Nat)] /\ Len(got[e]) \in Nat
    BY EndFacts DEF ByteInv
  <1>2. written' = [written EXCEPT ![e] = w]
    BY <1>1
  <1>3. /\ ByteInv'
        /\ got' = [got EXCEPT ![e] = g]
        /\ Delivers(e, g, v)
    <2>1. Sound(BytesOf(e, w), p) /\ written[e] <= w
      BY <1>1
    <2> HIDE DEF w
    <2> QED BY <1>1, <1>2, <2>1, SettleSound
  <1> HIDE DEF g, v
  <1>4. got'[e] = g /\ got' = [got EXCEPT ![e] = got'[e]]
    BY <1>1, <1>3
  <1>5. g = [i \in 1..Len(g) |-> i] /\ Len(g) \in Nat
    BY <1>3, LineIs, LenProperties DEF Delivers, Line
  <1>6. Len(g) \in Len(got[e])..v
    BY <1>1, <1>3, <1>5 DEF Delivers
  <1> QED BY <1>3, <1>4, <1>5, <1>6 DEF Stream!Deliver, v

\* tcp_recved: the application has read
LEMMA RecvedStep ==
    ASSUME ByteInv, NEW e \in End, NEW mem \in BOOLEAN, Recved(e, mem)
    PROVE  ByteInv' /\ Stream!Deliver(e)
  <1> DEFINE G == BytesOf(e, written[e])
             r == tcp_recved(pcb[e], unread[e], mem)
             owed == -unread[e]
             p == [r EXCEPT !.owed = owed]
  <1>1. Settle(e, p, net[e]) /\ written' = written
    BY Zenon DEF Recved
  <1>2. /\ Pieces(G) /\ Sound(G, pcb[e]) /\ unread[e] \in Int
        /\ Heard(Peer(e), Len(got[e]), written[Peer(e)], pcb[e])
        /\ net[e] \in Seq(Packets(BytesOf(Peer(e), written[Peer(e)])))
    BY EndFacts
  <1>3. Sound(G, r) /\ SameInput(pcb[e], r)
    <2> HIDE DEF G, p
    <2> QED BY <1>2, RecvedSound
  <1>4. Heard(Peer(e), Len(got[e]), written[Peer(e)], r)
    <2> HIDE DEF G, r, p
    <2> QED BY <1>2, <1>3, HeardSame
  <1>5. /\ DOMAIN p = Fields /\ SameNumbers(r, p) /\ SameQueues(r, p)
        /\ p.out = r.out /\ p.state = r.state /\ p.rcv_nxt = r.rcv_nxt
        /\ p.given = r.given /\ p.refused_data = r.refused_data /\ p.owed = owed
    <2> DOMAIN r = Fields
      BY <1>3 DEF Sound
    <2> HIDE DEF r, owed
    <2> QED BY FieldsAre, Zenon DEF SameNumbers, SameAccount, SameQueues
  <1>6. owed \in Int
    BY <1>2
  <1> HIDE DEF p, r, owed
  <1>7. Sound(G, p)
    <2> HIDE DEF G
    <2> QED BY <1>3, <1>5, <1>6 DEF Sound, Numbers, Queues, SameNumbers, SameAccount, SameQueues
  <1>8. Heard(Peer(e), Len(got[e]), written[Peer(e)], p)
    BY <1>4, <1>5 DEF Heard, Pending
  <1> QED BY <1>1, <1>2, <1>7, <1>8, StepSound

\* The answer to a segment for a closed connection carries no data.
LEMMA RefuseSound ==
    ASSUME NEW G, Pieces(G), NEW p, Sound(G, p), NEW H, NEW s \in Packets(H), NEW mem
    PROVE  LET q == Refuse(p, s, mem) IN Sound(G, q) /\ SameInput(p, q)
  <1> DEFINE none == <<>>
             rst == [rst |-> TRUE, seqno |-> s.ackno, data |-> none, ackno |-> SegEnd(s), wnd |-> Wnd]
             out == <<rst>>
             q == [p EXCEPT !.out = out]
  <1>1. Refuse(p, s, mem) = IF s.rst \/ ~mem THEN p ELSE q
    BY Zenon DEF Refuse
  <1>2. rst \in Packets(G)
    <2>1. s.seqno \in Int /\ s.ackno \in Int /\ s.data \in Seq(Nat)
      BY DEF Packets
    <2>2. SegEnd(s) \in Int
      <3>1. Len(s.data) \in Int
        BY <2>1, LenProperties
      <3> HIDE DEF rst
      <3> QED BY <2>1, <3>1, PlusIn DEF SegEnd, TCPLEN
    <2>3. <<s.ackno, none>> \in G
      BY <2>1 DEF Pieces
    <2>4. none \in Seq(Nat) /\ Wnd \in Int
      BY Constants
    <2> HIDE DEF none
    <2>5. /\ rst \in [rst : BOOLEAN, seqno : Int, data : Seq(Nat), ackno : Int, wnd : Int]
          /\ rst.seqno = s.ackno /\ rst.data = none
      BY <2>1, <2>2, <2>4
    <2> HIDE DEF rst
    <2> QED BY <2>3, <2>5 DEF Packets
  <1> HIDE DEF rst
  <1>3. out \in Seq(Packets(G))
    BY <1>2
  <1>4. /\ DOMAIN q = Fields /\ SameInput(p, q) /\ SameNumbers(p, q) /\ SameQueues(p, q)
        /\ q.out = out
    <2> DOMAIN p = Fields
      BY DEF Sound
    <2> HIDE DEF out
    <2> QED BY FieldsAre, Zenon DEF SameInput, SameNumbers, SameAccount, SameQueues
  <1> HIDE DEF q, out
  <1>5. Sound(G, q)
    BY <1>3, <1>4 DEF Sound, Numbers, Queues, SameInput, SameNumbers, SameAccount, SameQueues
  <1> QED BY <1>1, <1>4, <1>5 DEF SameInput

\* A sequence without one member
LEMMA RemoveIn ==
    ASSUME NEW S, NEW s \in Seq(S), NEW i \in 1..Len(s)
    PROVE  RemoveAt(s, i) \in Seq(S)
  <1>1. Len(s) \in Nat /\ i \in Nat
    BY LenProperties
  <1>2. SubSeq(s, 1, i - 1) \in Seq(S) /\ SubSeq(s, i + 1, Len(s)) \in Seq(S)
    BY <1>1, Piece
  <1> QED BY <1>2, ConcatProperties DEF RemoveAt

\* A callback answers in one of three ways.
LEMMA AnswersAre == \A data : Answers(data) \subseteq {"now", "later", "refuse"}
  BY StreamAssumption DEF Answers

\* A packet arrives; it may stay under way (a duplicate).
LEMMA InputStep ==
    ASSUME ByteInv, MaxBytes < Seq32, NEW e \in End, NEW i \in DOMAIN net[e],
           NEW stays \in BOOLEAN, NEW mem \in BOOLEAN,
           NEW again \in {"now", "later", "refuse"}, NEW take \in {"now", "later", "refuse"},
           tcp_input(e, i, stays, again, take, mem)
    PROVE  ByteInv' /\ Stream!Deliver(e)
  <1> DEFINE G == BytesOf(e, written[e])
             f == Peer(e)
             v == written[f]
             H == BytesOf(f, v)
             k == Len(got[e])
             s == net[e][i]
             rest == IF stays THEN net[e] ELSE RemoveAt(net[e], i)
             p == pcb[e]
             a == Input(p, s, again, take, mem)
             r == Refuse(p, s, mem)
             q == IF Open(e) THEN a ELSE r
  <1>1. Settle(e, q, rest) /\ written' = written
    BY Zenon DEF tcp_input
  <1>2. /\ Pieces(G) /\ Sound(G, p) /\ p.recv_data = <<>> /\ Heard(f, k, v, p)
        /\ net[e] \in Seq(Packets(H)) /\ f \in End /\ v \in Nat /\ k \in Nat
    BY EndFacts
  <1>3. v < Seq32
    <2>1. v \in 0..MaxBytes
      BY EndFacts
    <2> HIDE DEF v
    <2> QED BY <2>1, Constants
  <1>4. s \in Packets(H) /\ rest \in Seq(Packets(H))
    <2> HIDE DEF H, a, r, q
    <2>1. i \in 1..Len(net[e])
      BY <1>2, LenProperties
    <2>2. s \in Packets(H) /\ RemoveAt(net[e], i) \in Seq(Packets(H))
      <3> HIDE DEF s, rest
      <3>1. RemoveAt(net[e], i) \in Seq(Packets(H))
        BY <1>2, <2>1, RemoveIn
      <3>2. net[e][i] \in Packets(H)
        BY <1>2, <2>1, ElementOfSeq
      <3> QED BY <3>1, <3>2 DEF s
    <2> QED BY <1>2, <2>2
  <1>5. ASSUME Open(e) PROVE Sound(G, a) /\ Heard(f, k, v, a)
    <2>1. p.state # "CLOSED"
      BY <1>5 DEF Open
    <2> HIDE DEF G, f, v, H, k, s, rest, p, q
    <2>2. s \in Packets(BytesOf(f, v))
      BY <1>4 DEF H
    <2>3. LET x == Input(p, s, again, take, mem) IN Sound(G, x) /\ Heard(f, k, v, x)
      BY <1>2, <1>3, <2>1, <2>2, InputSound
    <2> QED BY <2>3
  <1>6. Sound(G, r) /\ Heard(f, k, v, r)
    <2> HIDE DEF G, f, v, H, k, s, rest, p, q
    <2>1. Sound(G, r) /\ SameInput(p, r)
      BY <1>2, <1>4, RefuseSound
    <2> HIDE DEF r
    <2> QED BY <1>2, <2>1, HeardSame
  <1> HIDE DEF a, r
  <1>7. Sound(G, q) /\ Heard(f, k, v, q)
    <2> HIDE DEF G, f, v, k
    <2> QED BY <1>5, <1>6
  <1> HIDE DEF q, rest
  <1> QED BY <1>1, <1>4, <1>7, StepSound

\* The timers of one end
LEMMA TimerStep ==
    ASSUME ByteInv, NEW e \in End, NEW slow \in BOOLEAN, NEW due, NEW mem \in BOOLEAN,
           NEW again \in {"now", "later", "refuse"}, tcp_tmr(e, slow, due, again, mem)
    PROVE  ByteInv' /\ Stream!Deliver(e)
  <1> DEFINE G == BytesOf(e, written[e])
             f == Peer(e)
             v == written[f]
             k == Len(got[e])
             p == pcb[e]
             q == Tick(p, slow, due, again, mem)
  <1>1. Settle(e, q, net[e]) /\ written' = written
    BY Zenon DEF tcp_tmr
  <1>2. /\ Pieces(G) /\ FirstBytes(G) /\ Sound(G, p) /\ Heard(f, k, v, p)
        /\ net[e] \in Seq(Packets(BytesOf(f, v))) /\ f \in End /\ v \in Nat /\ k \in Nat
    BY EndFacts
  <1>3. Sound(G, q) /\ Heard(f, k, v, q)
    <2> HIDE DEF G, f, v, k, p
    <2> QED BY <1>2, TickSound
  <1> HIDE DEF q
  <1> QED BY <1>1, <1>2, <1>3, StepSound

\* A segment that is lost changes nothing else.
LEMMA LoseStep ==
    ASSUME ByteInv, NEW e \in End, NEW i \in DOMAIN net[e], Lose(e, i)
    PROVE  ByteInv' /\ UNCHANGED <<written, got>>
  <1> DEFINE rest == RemoveAt(net[e], i)
             S == Packets(BytesOf(Peer(e), written[Peer(e)]))
  <1>1. /\ net' = [net EXCEPT ![e] = rest]
        /\ pcb' = pcb /\ written' = written /\ got' = got /\ unread' = unread
    BY DEF Lose
  <1>2. rest \in Seq(S)
    <2>1. net[e] \in Seq(S)
      BY EndFacts
    <2> HIDE DEF S
    <2>2. i \in 1..Len(net[e])
      BY <2>1, LenProperties
    <2> QED BY <2>1, <2>2, RemoveIn
  <1> HIDE DEF rest
  <1>3. ASSUME NEW x \in End
        PROVE  EndOK(x, written[x], written[Peer(x)], pcb[x], got[x], net'[x])
    <2>1. EndOK(x, written[x], written[Peer(x)], pcb[x], got[x], net[x])
      BY DEF ByteInv
    <2>2. CASE x = e
      <3>1. net'[x] = rest
        BY <1>1, <2>2 DEF ByteInv
      <3> QED BY <1>2, <2>1, <2>2, <3>1 DEF EndOK
    <2>3. CASE x # e
      <3>1. net'[x] = net[x]
        BY <1>1, <2>3 DEF ByteInv
      <3> QED BY <2>1, <3>1
    <2> QED BY <2>2, <2>3
  <1>4. DOMAIN net' = End
    BY <1>1 DEF ByteInv
  <1> QED BY <1>1, <1>3, <1>4 DEF ByteInv

-----------------------------------------------------------------------------
(* A write, and the stream                                                 *)

\* What NothingForgotten says of the numbers: every byte on a queue stands
\* under its own.
NumbersRight ==
    \A e \in End : Open(e) =>
        \A seg \in Range(Queued(e)) : \A j \in DOMAIN seg.data :
            Plus(seg.seqno, j) = Plus(Iss[e], seg.data[j])

\* NothingForgotten says that queued bytes have their own numbers.
LEMMA NumbersAreRight == NothingForgotten => NumbersRight
  <1> SUFFICES ASSUME NothingForgotten, NEW e \in End, Open(e)
               PROVE  \A seg \in Range(Queued(e)) : \A j \in DOMAIN seg.data :
                          Plus(seg.seqno, j) = Plus(Iss[e], seg.data[j])
    BY DEF NumbersRight
  <1> QED BY Zenon DEF NothingForgotten

\* A larger set of pieces
LEMMA SoundGrows ==
    ASSUME NEW G, NEW H, G \subseteq H, NEW p, Sound(G, p)
    PROVE  Sound(H, p)
  <1>1. Segs(G) \subseteq Segs(H)
    BY DEF Segs
  <1>2. Seq(Packets(G)) \subseteq Seq(Packets(H))
    BY PacketsGrow
  <1>3. Seq(Segs(G)) \subseteq Seq(Segs(H))
    <2> HIDE DEF Segs
    <2> QED BY <1>1
  <1> HIDE DEF Segs, Packets
  <1> QED BY <1>2, <1>3 DEF Sound, Queues

\* Sequences over a larger set
LEMMA SeqGrows ==
    ASSUME NEW S, NEW T, S \subseteq T
    PROVE  Seq(S) \subseteq Seq(T)
  OBVIOUS

\* A sequence whose members are all in T
LEMMA MembersIn ==
    ASSUME NEW S, NEW T, NEW s \in Seq(S), \A x \in Range(s) : x \in S => x \in T
    PROVE  s \in Seq(T)
  <1>1. Len(s) \in Nat /\ DOMAIN s = 1..Len(s) /\ s = [i \in 1..Len(s) |-> s[i]]
    BY LenProperties
  <1>2. \A i \in 1..Len(s) : s[i] \in T
    <2> TAKE i \in 1..Len(s)
    <2>1. s[i] \in S
      BY ElementOfSeq
    <2>2. s[i] \in Range(s)
      BY <1>1 DEF Range
    <2> QED BY <2>1, <2>2
  <1> QED BY <1>1, <1>2

\* A segment of written bytes under their own numbers
LEMMA RightSegs ==
    ASSUME NEW e \in End, NEW w \in Nat, NEW seg \in Segs(AnyBytes(w)),
           \A j \in DOMAIN seg.data : Plus(seg.seqno, j) = Plus(Iss[e], seg.data[j])
    PROVE  seg \in Segs(BytesOf(e, w))
  <1> DEFINE d == <<seg.seqno, seg.data>>
  <1>1. /\ seg \in [seqno : Int, data : Seq(Nat), pbufs : Int]
        /\ d \in Int \X Seq(1..w) /\ d[1] = seg.seqno /\ d[2] = seg.data
    BY DEF Segs, AnyBytes
  <1> HIDE DEF d
  <1>2. d \in BytesOf(e, w)
    BY <1>1 DEF BytesOf
  <1> QED BY <1>1, <1>2 DEF Segs, d

\* After a successful write the data are queued and perhaps sent; that they
\* stand under their own numbers is what the next state has to show.
LEMMA WriteSound ==
    ASSUME NEW e \in End, NEW w \in Nat, NEW q, Sound(AnyBytes(w), q), q.out = <<>>, NEW mem,
           LET o == tcp_output(q, mem)
           IN  \A seg \in Range(o.unsent) \cup Range(o.unacked) : \A j \in DOMAIN seg.data :
                   Plus(seg.seqno, j) = Plus(Iss[e], seg.data[j])
    PROVE  LET o == tcp_output(q, mem) IN Sound(BytesOf(e, w), o) /\ SameInput(q, o)
  <1> DEFINE o == tcp_output(q, mem)
             S == Segs(AnyBytes(w))
             T == Segs(BytesOf(e, w))
             none == <<>>
  <1>1. /\ Sound(AnyBytes(w), o) /\ SameInput(q, o)
        /\ Range(q.unsent) \cup Range(q.unacked) \subseteq Range(o.unsent) \cup Range(o.unacked)
    BY AnyPieces, OutputSound
  <1>2. \A seg \in Range(q.unsent) \cup Range(q.unacked) : seg \in S => seg \in T
    <2> TAKE seg \in Range(q.unsent) \cup Range(q.unacked)
    <2> HAVE seg \in S
    <2>1. \A j \in DOMAIN seg.data : Plus(seg.seqno, j) = Plus(Iss[e], seg.data[j])
      <3>1. seg \in Range(o.unsent) \cup Range(o.unacked)
        BY <1>1
      <3> QED BY <3>1
    <2> QED BY <2>1, RightSegs
  <1> HIDE DEF S, T
  <1>3. q.unsent \in Seq(T) /\ q.unacked \in Seq(T)
    <2>1. q.unsent \in Seq(S) /\ q.unacked \in Seq(S)
      BY DEF Sound, Queues, S
    <2> HIDE DEF o
    <2> QED BY <1>2, <2>1, MembersIn
  <1>4. Sound(BytesOf(e, w), q)
    <2>1. q.out = none /\ none \in Seq(Packets(BytesOf(e, w)))
      OBVIOUS
    <2> HIDE DEF none, o
    <2> QED BY <1>3, <2>1 DEF Sound, Queues, T
  <1>5. Sound(BytesOf(e, w), o)
    <2> DEFINE G == BytesOf(e, w)
    <2>1. Pieces(G) /\ Sound(G, q)
      BY <1>4, BytesArePieces
    <2> HIDE DEF G
    <2>2. Sound(G, o)
      BY <2>1, OutputSound
    <2> QED BY <2>2 DEF G
  <1> QED BY <1>1, <1>5

\* The application writes; the bytes may join those that wait.
LEMMA WriteStep ==
    ASSUME ByteInv, NumbersRight', NEW e \in End, NEW n \in Lengths, NEW copy \in BOOLEAN,
           NEW mem \in BOOLEAN, Write(e, n, copy, mem)
    PROVE  ByteInv' /\ (Stream!Write(e) \/ Stream!Deliver(e))
  <1> DEFINE p == pcb[e]
             w == written[e]
             u == w + n
             f == Peer(e)
             v == written[f]
             k == Len(got[e])
             data == [i \in 1..n |-> w + i]
             q == tcp_enqueue(p, data, copy, mem)
             o == tcp_output(q, mem)
             G == BytesOf(e, w)
             none == <<>>
  <1>1. /\ Open(e) /\ w + n <= MaxBytes
        /\ written' = [written EXCEPT ![e] = w + (p.snd_buf - q.snd_buf)]
        /\ Settle(e, o, net[e])
    BY Zenon DEF Write
  <1>2. /\ Sound(G, p) /\ p.out = none /\ p.given = none /\ Heard(f, k, v, p) /\ Pieces(G)
        /\ net[e] \in Seq(Packets(BytesOf(f, v)))
        /\ w \in Nat /\ v \in Nat /\ k \in Nat /\ written \in [End -> 0..MaxBytes]
    BY EndFacts
  <1>3. n \in Nat \ {0} /\ u \in Nat /\ u \in 0..MaxBytes /\ w <= u /\ MaxBytes \in Nat
    <2> HIDE DEF w
    <2> QED BY <1>1, <1>2, Constants
  <1>4. data \in Seq(1..u) /\ Len(data) = n
    <2> HIDE DEF w, u
    <2>1. \A i \in 1..n : w + i \in 1..u
      BY <1>2, <1>3 DEF u
    <2> QED BY <1>3, <2>1
  <1>5. Sound(AnyBytes(u), p)
    <2>1. Seq(1..w) \subseteq Seq(1..u)
      <3>1. 1..w \subseteq 1..u
        <4> HIDE DEF w
        <4> QED BY <1>2, <1>3
      <3> QED BY <3>1, SeqGrows
    <2>2. G \subseteq AnyBytes(u)
      <3> HIDE DEF w, u
      <3> QED BY <2>1 DEF BytesOf, AnyBytes
    <2> HIDE DEF G, p, u
    <2> QED BY <1>2, <2>2, SoundGrows
  <1> HIDE DEF data
  <1>6. \/ Alike(p, q)
        \/ /\ Sound(AnyBytes(u), q) /\ SameInput(p, q) /\ q.out = p.out
           /\ q.snd_buf = p.snd_buf - n
    <2> HIDE DEF p, u, w, f, v, k, G, o
    <2>1. Len(data) # 0
      BY <1>3, <1>4
    <2>2. LET x == tcp_enqueue(p, data, copy, mem)
          IN  \/ Alike(p, x)
              \/ /\ Sound(AnyBytes(u), x) /\ SameInput(p, x) /\ x.out = p.out
                 /\ x.snd_buf = p.snd_buf - Len(data)
      BY <1>3, <1>4, <1>5, <2>1, EnqueueSound
    <2> QED BY <1>4, <2>2
  <1>7. p.snd_buf \in Int
    BY <1>2 DEF Sound, Numbers
  <1> HIDE DEF q
  <1>8. CASE Alike(p, q)
    <2>1. Sound(G, q) /\ SameInput(p, q) /\ q.snd_buf = p.snd_buf
      <3> HIDE DEF G, p
      <3> QED BY <1>2, <1>8, AlikeSound DEF Alike, SameNumbers, SameAccount
    <2>2. Sound(G, o) /\ SameInput(q, o)
      <3> HIDE DEF G, p
      <3> QED BY <1>2, <2>1, OutputSound
    <2> HIDE DEF o
    <2>3. Heard(f, k, v, o)
      <3> HIDE DEF f, k, v, p
      <3> QED BY <1>2, <2>1, <2>2, HeardSame
    <2>4. written' = written
      <3>1. w + (p.snd_buf - q.snd_buf) = w
        <4> HIDE DEF w, p
        <4> QED BY <1>2, <1>7, <2>1
      <3>2. written = [written EXCEPT ![e] = w]
        BY <1>2
      <3> HIDE DEF w, p
      <3> QED BY <1>1, <3>1, <3>2
    <2> QED BY <1>1, <1>2, <2>2, <2>3, <2>4, StepSound
  <1>9. CASE /\ Sound(AnyBytes(u), q) /\ SameInput(p, q) /\ q.out = p.out
             /\ q.snd_buf = p.snd_buf - n
    <2>1. Sound(AnyBytes(u), o) /\ SameInput(q, o)
      <3> DEFINE A == AnyBytes(u)
      <3>1. Pieces(A) /\ Sound(A, q)
        BY <1>3, <1>9, AnyPieces
      <3> HIDE DEF A, u
      <3>2. Sound(A, o) /\ SameInput(q, o)
        BY <3>1, OutputSound
      <3> QED BY <3>2 DEF A
    <2>2. pcb' = [pcb EXCEPT ![e] = Cleared(o)]
      BY <1>1, Zenon DEF Settle, Cleared
    <2>3. pcb'[e] = Cleared(o)
      <3> HIDE DEF o
      <3> QED BY <2>2 DEF ByteInv
    <2>4. SameQueues(o, pcb'[e]) /\ pcb'[e].state = o.state
      <3>1. DOMAIN o = Fields
        BY <2>1 DEF Sound
      <3> HIDE DEF o
      <3> QED BY <2>3, <3>1, ClearedFields
    <2>5. Open(e)'
      <3>1. p.state = "ESTABLISHED"
        BY <1>1 DEF Open
      <3> HIDE DEF o, p
      <3> QED BY <1>9, <2>1, <2>4, <3>1 DEF SameInput, Open
    <2>6. \A seg \in Range(o.unsent) \cup Range(o.unacked) : \A j \in DOMAIN seg.data :
              Plus(seg.seqno, j) = Plus(Iss[e], seg.data[j])
      <3>1. \A seg \in Range(Queued(e)') : \A j \in DOMAIN seg.data :
                Plus(seg.seqno, j) = Plus(Iss[e], seg.data[j])
        BY <2>5 DEF NumbersRight
      <3>2. Queued(e)' = o.unacked \o o.unsent
        <4> HIDE DEF o
        <4> QED BY <2>4 DEF Queued, SameQueues
      <3>3. Range(o.unacked \o o.unsent) = Range(o.unacked) \cup Range(o.unsent)
        <4>1. o.unsent \in Seq(Segs(AnyBytes(u))) /\ o.unacked \in Seq(Segs(AnyBytes(u)))
          BY <2>1 DEF Sound, Queues
        <4> HIDE DEF o
        <4> QED BY <4>1, RangeConcatenation
      <3> HIDE DEF o
      <3> QED BY <3>1, <3>2, <3>3
    <2>7. Sound(BytesOf(e, u), o)
      <3>1. q.out = <<>>
        BY <1>2, <1>9
      <3>2. LET x == tcp_output(q, mem)
            IN  \A seg \in Range(x.unsent) \cup Range(x.unacked) : \A j \in DOMAIN seg.data :
                    Plus(seg.seqno, j) = Plus(Iss[e], seg.data[j])
        BY <2>6
      <3> HIDE DEF u, w, p
      <3>3. LET x == tcp_output(q, mem) IN Sound(BytesOf(e, u), x) /\ SameInput(q, x)
        BY <1>3, <1>9, <3>1, <3>2, WriteSound
      <3> QED BY <3>3 DEF u
    <2> HIDE DEF o
    <2>8. Heard(f, k, v, o)
      <3>1. Heard(f, k, v, q)
        <4> HIDE DEF f, k, v, p
        <4> QED BY <1>2, <1>9, HeardSame
      <3> HIDE DEF f, k, v, p
      <3> QED BY <2>1, <3>1, HeardSame
    <2>9. written' = [written EXCEPT ![e] = u]
      <3>1. w + (p.snd_buf - q.snd_buf) = u
        <4>1. \A x \in Int : x - (x - n) = n
          BY <1>3
        <4> HIDE DEF w, p
        <4> QED BY <1>7, <1>9, <4>1 DEF u
      <3> HIDE DEF w, p, u
      <3> QED BY <1>1, <3>1
    <2>10. /\ ByteInv'
           /\ got' = [got EXCEPT ![e] = got[e] \o o.given]
      <3>1. written[e] <= u
        BY <1>3
      <3> HIDE DEF u
      <3> QED BY <1>1, <1>2, <1>3, <2>7, <2>8, <2>9, <3>1, SettleSound
    <2>11. got' = got
      <3>1. o.given = none
        <4> HIDE DEF p
        <4> QED BY <1>2, <1>9, <2>1 DEF SameInput
      <3>2. got \in [End -> Seq(Nat)] /\ got[e] \in Seq(Nat)
        BY DEF ByteInv
      <3>3. got[e] \o none = got[e]
        BY <3>2
      <3> HIDE DEF none
      <3>4. got' = [got EXCEPT ![e] = got[e]]
        BY <2>10, <3>1, <3>3
      <3> QED BY <3>2, <3>4
    <2>12. written'[e] = u /\ written' = [written EXCEPT ![e] = written'[e]]
      <3> HIDE DEF u
      <3> QED BY <1>2, <2>9
    <2>13. u > written[e]
      BY <1>2, <1>3
    <2> QED BY <2>10, <2>11, <2>12, <2>13 DEF Stream!Write
  <1> QED BY <1>6, <1>8, <1>9

\* In the beginning nothing is queued, under way or delivered.
LEMMA ByteInit == Init => ByteInv /\ Stream!Init
  <1> SUFFICES ASSUME Init PROVE ByteInv /\ Stream!Init
    OBVIOUS
  <1>1. PICK nodelay \in NoDelay : pcb = [e \in End |-> Pcb(e, nodelay)]
    BY DEF Init
  <1>2. /\ written = [e \in End |-> 0] /\ got = [e \in End |-> <<>>]
        /\ net = [e \in End |-> <<>>] /\ unread = [e \in End |-> 0]
    BY DEF Init
  <1>3. 0 \in 0..MaxBytes /\ 0 \in Nat
    BY Constants
  <1>4. ASSUME NEW e \in End
        PROVE  EndOK(e, written[e], written[Peer(e)], pcb[e], got[e], net[e])
    <2> DEFINE p == Pcb(e, nodelay)
               none == <<>>
               f == Peer(e)
    <2>1. f \in End
      BY Ends
    <2>2. /\ written[e] = 0 /\ written[f] = 0 /\ pcb[e] = p /\ got[e] = none /\ net[e] = none
      <3> HIDE DEF p, f
      <3> QED BY <1>1, <1>2, <2>1 DEF p
    <2>3. /\ p.unsent = none /\ p.unacked = none /\ p.out = none /\ p.recv_data = none
          /\ p.given = none /\ p.owed = 0 /\ p.refused_data = none /\ p.rcv_nxt = Iss[f]
          /\ p.snd_nxt = Iss[e] /\ p.rcv_wnd = Wnd /\ p.rcv_ann_wnd = Wnd
          /\ p.rcv_ann_right_edge = Plus(Iss[f], Wnd)
          /\ p.snd_lbb = Iss[e] /\ p.lastack = Iss[e] /\ p.snd_buf = SndBuf
      BY DEF Pcb
    <2>4. DOMAIN p = Fields
      BY FieldsAre
    <2>5. Iss[e] \in Int /\ Iss[f] \in Int /\ Wnd \in Int /\ SndBuf \in Int /\ Iss[f] \in 0..(Seq32 - 1)
      <3> HIDE DEF f, p
      <3> QED BY <2>1, Constants
    <2> HIDE DEF p
    <2>6. none \in Seq(Segs(BytesOf(e, 0))) /\ none \in Seq(Packets(BytesOf(e, 0)))
          /\ none \in Seq(Packets(BytesOf(f, 0)))
      OBVIOUS
    <2>7. Line(none, 0) /\ Line(none, 0 + Len(none)) /\ Len(none) = 0
      BY EmptyLine
    <2>8. Plus(Iss[f], Wnd) \in Int /\ Plus(Iss[f], 0) = Iss[f]
      <3> HIDE DEF f
      <3>1. Iss[f] % Seq32 = Iss[f]
        BY <2>5, Constants
      <3> QED BY <2>5, <3>1, PlusIn DEF Plus
    <2> HIDE DEF none, f
    <2>9. Sound(BytesOf(e, 0), p)
      BY <2>3, <2>4, <2>5, <2>6, <2>8 DEF Sound, Numbers, Queues
    <2>10. Heard(f, Len(none), 0, p)
      <3>1. Len(none) = 0 /\ 0 + 0 + 0 <= 0 /\ 0 + 0 = 0
        BY <2>7
      <3> QED BY <2>3, <2>7, <2>8, <3>1 DEF Heard, Pending
    <2> QED BY <2>2, <2>3, <2>6, <2>7, <2>9, <2>10 DEF EndOK, none, f
  <1>5. DOMAIN pcb = End /\ DOMAIN net = End /\ got \in [End -> Seq(Nat)]
        /\ written \in [End -> 0..MaxBytes] /\ unread \in [End -> Int]
    BY <1>1, <1>2, <1>3
  <1> QED BY <1>2, <1>4, <1>5 DEF ByteInv, Stream!Init

\* Every step keeps the invariant and is one of ByteStream, or changes nothing there.
LEMMA ByteStep ==
    ASSUME MaxBytes < Seq32, ByteInv, NumbersRight', [Next]_vars
    PROVE  ByteInv' /\ [Stream!Next]_<<written, got>>
  <1>1. CASE UNCHANGED vars
    <2>1. pcb' = pcb /\ net' = net /\ written' = written /\ got' = got /\ unread' = unread
      BY <1>1 DEF vars
    <2> QED BY <2>1 DEF ByteInv
  <1>2. ASSUME NEW e \in End, NEW n \in Lengths, NEW copy \in Copies, NEW mem \in BOOLEAN,
               Write(e, n, copy, mem)
        PROVE  ByteInv' /\ Stream!Next
    <2>1. copy \in BOOLEAN
      BY StreamAssumption
    <2> QED BY <1>2, <2>1, WriteStep DEF Stream!Next
  <1>3. ASSUME NEW e \in End, NEW mem \in BOOLEAN, Recved(e, mem)
        PROVE  ByteInv' /\ Stream!Next
    BY <1>3, RecvedStep DEF Stream!Next
  <1>4. ASSUME NEW e \in End, NEW i \in DOMAIN net[e], NEW stays \in BOOLEAN, NEW mem \in BOOLEAN,
               NEW again \in Answers(pcb[e].refused_data),
               NEW take \in Answers(net[e][i].data),
               tcp_input(e, i, stays, again, take, mem)
        PROVE  ByteInv' /\ Stream!Next
    <2>1. again \in {"now", "later", "refuse"} /\ take \in {"now", "later", "refuse"}
      BY AnswersAre
    <2> QED BY <1>4, <2>1, InputStep DEF Stream!Next
  <1>5. ASSUME NEW e \in End, NEW slow \in BOOLEAN, NEW mem \in BOOLEAN,
               NEW again \in Answers(pcb[e].refused_data), NEW due \in {FALSE, slow},
               tcp_tmr(e, slow, due, again, mem)
        PROVE  ByteInv' /\ Stream!Next
    <2>1. again \in {"now", "later", "refuse"}
      BY AnswersAre
    <2> QED BY <1>5, <2>1, TimerStep DEF Stream!Next
  <1>6. ASSUME NEW e \in End, NEW i \in DOMAIN net[e], Lose(e, i)
        PROVE  ByteInv' /\ UNCHANGED <<written, got>>
    BY <1>6, LoseStep
  <1> QED BY <1>1, <1>2, <1>3, <1>4, <1>5, <1>6 DEF Next

\* As long as no byte is queued under the number of another, the connection is
\* a byte stream: whatever is lost, doubled, overtaken or refused, however the
\* windows, the timers and the heap behave, and wherever the sequence numbers
\* wrap, each end is given the bytes of the other in order and once
\* (tcp_receive, tcp_output, tcp_rexmit, tcp_rexmit_rto, tcp_zero_window_probe,
\* tcp_recved).  What is written has to stay within one round of the numbers,
\* which count the bytes here.
THEOREM StreamKept ==
    ASSUME MaxBytes < Seq32
    PROVE  Spec /\ []NothingForgotten => IsByteStream
  <1>1. ByteInv /\ NumbersRight' /\ [Next]_vars => ByteInv' /\ [Stream!Next]_<<written, got>>
    BY ByteStep
  <1> QED BY ByteInit, NumbersAreRight, <1>1, PTL DEF Spec, IsByteStream, Stream!Spec

-----------------------------------------------------------------------------
(* What is held on the two queues: lists without repetitions               *)

\* The difference of two remainders
LEMMA ModMinus ==
    ASSUME NEW a \in Int, NEW b \in Int, NEW m \in Nat \ {0}
    PROVE  ((a % m) - (b % m)) % m = (a - b) % m
  <1> DEFINE x == a \div m
             y == b \div m
             r == a % m
             s == b % m
  <1>1. x \in Int /\ r \in Int /\ a = m * x + r
    BY DivMod
  <1>2. y \in Int /\ s \in Int /\ b = m * y + s
    BY DivMod
  <1> HIDE DEF x, y, r, s
  <1>3. a - b = (r - s) + m * (x - y)
    BY <1>1, <1>2
  <1>4. ((r - s) + m * (x - y)) % m = (r - s) % m
    <2>1. r - s \in Int /\ x - y \in Int
      BY <1>1, <1>2
    <2> QED BY <2>1, ModShift
  <1> QED BY <1>3, <1>4 DEF r, s

\* A number within one round either way
LEMMA ModNear ==
    ASSUME NEW d \in Int, NEW m \in Nat \ {0}, -m <= d, d < m
    PROVE  d % m = IF d < 0 THEN d + m ELSE d
  <1>1. ASSUME d >= 0 PROVE d % m = d
    BY <1>1
  <1>2. ASSUME d < 0 PROVE d % m = d + m
    <2>1. d + m \in 0..(m - 1)
      BY <1>2
    <2>2. (d + m) % m = d + m
      BY <2>1
    <2>3. (d + m * 1) % m = d % m
      <3>1. \A q \in Int : (d + m * q) % m = d % m
        BY ModShift
      <3> QED BY <3>1
    <2>4. d + m * 1 = d + m
      OBVIOUS
    <2> QED BY <2>2, <2>3, <2>4
  <1> QED BY <1>1, <1>2

\* The number behind the k-th byte of e
At(e, k) == Plus(Iss[e], k)

\* The distance between two numbers is that of the bytes.
LEMMA AtDistance ==
    ASSUME NEW e \in End, NEW x \in Int, NEW y \in Int
    PROVE  (At(e, x) - At(e, y)) % Seq32 = (x - y) % Seq32
  <1> DEFINE a == Iss[e] + x
             b == Iss[e] + y
  <1>1. a \in Int /\ b \in Int /\ a - b = x - y /\ Seq32 \in Nat \ {0}
    BY Constants
  <1>2. At(e, x) = a % Seq32 /\ At(e, y) = b % Seq32
    BY DEF At, Plus
  <1> HIDE DEF a, b
  <1>3. ((a % Seq32) - (b % Seq32)) % Seq32 = (a - b) % Seq32
    BY <1>1, ModMinus
  <1> QED BY <1>1, <1>2, <1>3

\* Within half a round the comparison of numbers is that of the bytes.
LEMMA AtCompare ==
    ASSUME 2 * MaxBytes < Seq32, NEW e \in End, NEW x \in Int, NEW y \in Int,
           y - x <= MaxBytes + 1, x - y <= MaxBytes
    PROVE  /\ SEQ_LT(At(e, x), At(e, y)) <=> x < y
           /\ At(e, x) = At(e, y) <=> x = y
           /\ SEQ_LEQ(At(e, x), At(e, y)) <=> x <= y
           /\ SEQ_GEQ(At(e, x), At(e, y)) <=> x >= y
  <1> DEFINE h == Seq32 \div 2
             d == x - y
             r == (At(e, x) - At(e, y)) % Seq32
  <1>1. Seq32 \in Nat \ {0} /\ Seq32 % 2 = 0 /\ MaxBytes \in Nat
    BY StreamAssumption
  <1>2. h \in Int /\ Seq32 = 2 * h
    BY <1>1, DivMod
  <1>3. d \in Int /\ -h <= d /\ d < h
    <2> HIDE DEF h
    <2> QED BY <1>1, <1>2
  <1>4. r = IF d < 0 THEN d + Seq32 ELSE d
    <2>1. r = d % Seq32
      BY AtDistance
    <2> HIDE DEF d, h, r
    <2>2. -Seq32 <= d /\ d < Seq32
      BY <1>1, <1>2, <1>3
    <2> QED BY <1>1, <1>3, <2>1, <2>2, ModNear
  <1>5. SEQ_LT(At(e, x), At(e, y)) <=> r >= h
    BY DEF SEQ_LT
  <1>6. SEQ_LT(At(e, x), At(e, y)) <=> x < y
    <2>1. d < 0 <=> x < y
      OBVIOUS
    <2> HIDE DEF d, h, r
    <2> QED BY <1>2, <1>3, <1>4, <1>5, <2>1
  <1>7. At(e, x) = At(e, y) <=> x = y
    <2>1. ASSUME At(e, x) = At(e, y) PROVE x = y
      <3> DEFINE i == At(e, x)
      <3>1. i \in Int
        BY Constants, PlusIn DEF At
      <3>2. r = (i - i) % Seq32
        BY <2>1
      <3> HIDE DEF i
      <3>3. r = 0
        <4>1. i - i = 0 /\ 0 % Seq32 = 0
          BY <1>1, <3>1
        <4> QED BY <3>2, <4>1
      <3>4. d = 0
        <4> HIDE DEF d, r, h
        <4> QED BY <1>1, <1>2, <1>3, <1>4, <3>3
      <3> QED BY <3>4
    <2> QED BY <2>1
  <1> QED BY <1>6, <1>7 DEF SEQ_LEQ, SEQ_GEQ

-----------------------------------------------------------------------------
\* Two lists without repetitions and without a common member make up one, and
\* the other way round.
LEMMA NoRepeats ==
    ASSUME NEW S, NEW s \in Seq(S), NEW t \in Seq(S)
    PROVE  IsInjective(s \o t) <=>
             IsInjective(s) /\ IsInjective(t) /\ Range(s) \cap Range(t) = {}
  <1> DEFINE m == Len(s)
             n == Len(t)
             st == s \o t
  <1>1. m \in Nat /\ n \in Nat /\ DOMAIN s = 1..m /\ DOMAIN t = 1..n
    BY LenProperties
  <1>2. /\ st \in Seq(S) /\ DOMAIN st = 1..(m + n)
        /\ \A i \in 1..(m + n) : st[i] = IF i <= m THEN s[i] ELSE t[i - m]
    <2>1. /\ s \o t \in Seq(S) /\ Len(s \o t) = m + n
          /\ \A i \in 1..(m + n) : (s \o t)[i] = IF i <= m THEN s[i] ELSE t[i - m]
      BY ConcatProperties
    <2> HIDE DEF st
    <2>2. DOMAIN st = 1..Len(st)
      BY <2>1, LenProperties DEF st
    <2> QED BY <2>1, <2>2 DEF st
  <1> HIDE DEF m, n, st
  <1>3. ASSUME IsInjective(st)
        PROVE  IsInjective(s) /\ IsInjective(t) /\ Range(s) \cap Range(t) = {}
    <2>1. ASSUME NEW i \in DOMAIN s, NEW j \in DOMAIN s, s[i] = s[j] PROVE i = j
      <3>1. i \in 1..(m + n) /\ j \in 1..(m + n) /\ st[i] = s[i] /\ st[j] = s[j]
        BY <1>1, <1>2
      <3> QED BY <1>2, <1>3, <2>1, <3>1 DEF IsInjective
    <2>2. ASSUME NEW i \in DOMAIN t, NEW j \in DOMAIN t, t[i] = t[j] PROVE i = j
      <3>1. /\ m + i \in 1..(m + n) /\ m + j \in 1..(m + n)
            /\ ~(m + i <= m) /\ ~(m + j <= m) /\ (m + i) - m = i /\ (m + j) - m = j
        BY <1>1
      <3>2. st[m + i] = t[i] /\ st[m + j] = t[j]
        BY <1>2, <3>1
      <3>3. m + i = m + j
        BY <1>2, <1>3, <2>2, <3>1, <3>2 DEF IsInjective
      <3> QED BY <1>1, <3>3
    <2>3. ASSUME NEW i \in DOMAIN s, NEW j \in DOMAIN t, s[i] = t[j] PROVE FALSE
      <3>1. /\ i \in 1..(m + n) /\ m + j \in 1..(m + n)
            /\ ~(m + j <= m) /\ (m + j) - m = j /\ i <= m
        BY <1>1
      <3>2. st[i] = s[i] /\ st[m + j] = t[j]
        BY <1>2, <3>1
      <3>3. i = m + j
        BY <1>2, <1>3, <2>3, <3>1, <3>2 DEF IsInjective
      <3> QED BY <1>1, <3>3
    <2> QED BY <2>1, <2>2, <2>3 DEF IsInjective, Range
  <1>4. ASSUME IsInjective(s), IsInjective(t), Range(s) \cap Range(t) = {},
               NEW i \in 1..(m + n), NEW j \in 1..(m + n), st[i] = st[j]
        PROVE  i = j
    <2>1. \A x \in DOMAIN s, y \in DOMAIN t : s[x] # t[y]
      BY <1>4 DEF Range
    <2>2. CASE i <= m /\ j <= m
      <3>1. s[i] = s[j] /\ i \in DOMAIN s /\ j \in DOMAIN s
        BY <1>1, <1>2, <1>4, <2>2
      <3> QED BY <1>4, <3>1 DEF IsInjective
    <2>3. CASE i > m /\ j > m
      <3>1. ~(i <= m) /\ ~(j <= m) /\ i - m \in DOMAIN t /\ j - m \in DOMAIN t
        BY <1>1, <2>3
      <3>2. t[i - m] = t[j - m]
        BY <1>2, <1>4, <3>1
      <3>3. i - m = j - m
        BY <1>4, <3>1, <3>2 DEF IsInjective
      <3> QED BY <1>1, <3>3
    <2>4. CASE i <= m /\ j > m
      <3>1. i \in DOMAIN s /\ ~(j <= m) /\ j - m \in DOMAIN t
        BY <1>1, <2>4
      <3> QED BY <1>2, <1>4, <2>1, <2>4, <3>1
    <2>5. CASE i > m /\ j <= m
      <3>1. j \in DOMAIN s /\ ~(i <= m) /\ i - m \in DOMAIN t
        BY <1>1, <2>5
      <3> QED BY <1>2, <1>4, <2>1, <2>5, <3>1
    <2> QED BY <1>1, <2>2, <2>3, <2>4, <2>5
  <1> QED BY <1>2, <1>3, <1>4 DEF IsInjective, st

\* A list with one member
LEMMA OneMember ==
    ASSUME NEW S, NEW x \in S
    PROVE  <<x>> \in Seq(S) /\ IsInjective(<<x>>) /\ Range(<<x>>) = {x}
  <1> DEFINE one == <<x>>
  <1>1. one \in Seq(S) /\ DOMAIN one = {1} /\ one[1] = x
    OBVIOUS
  <1> HIDE DEF one
  <1>2. IsInjective(one) /\ Range(one) = {x}
    BY <1>1 DEF IsInjective, Range
  <1> QED BY <1>1, <1>2 DEF one

\* A list is its first members and the rest.
LEMMA SplitAt ==
    ASSUME NEW S, NEW s \in Seq(S), NEW n \in 0..Len(s)
    PROVE  /\ SubSeq(s, 1, n) \in Seq(S) /\ SubSeq(s, n + 1, Len(s)) \in Seq(S)
           /\ SubSeq(s, 1, n) \o SubSeq(s, n + 1, Len(s)) = s
  <1>0. Len(s) \in Nat /\ n \in Nat
    BY LenProperties
  <1>1. SubSeq(s, 1, n) \in Seq(S) /\ SubSeq(s, n + 1, Len(s)) \in Seq(S)
    BY <1>0, Piece
  <1>2. 1 \in 1..(Len(s) + 1) /\ n \in (1 - 1)..Len(s) /\ Len(s) \in n..Len(s)
    BY <1>0
  <1>3. SubSeq(s, 1, n) \o SubSeq(s, n + 1, Len(s)) = SubSeq(s, 1, Len(s))
    BY <1>2, ConcatAdjacentSubSeq
  <1> QED BY <1>1, <1>3, SubSeqFull

\* A list with its first member apart
LEMMA HeadApart ==
    ASSUME NEW S, NEW s \in Seq(S), s # <<>>
    PROVE  /\ s[1] \in S /\ Tail(s) \in Seq(S)
           /\ <<s[1]>> \o Tail(s) = s
  <1>1. Len(s) \in Nat /\ Len(s) # 0
    BY EmptySeq, LenProperties
  <1>2. s[1] \in S /\ Tail(s) \in Seq(S) /\ Len(Tail(s)) = Len(s) - 1
        /\ \A i \in 1..Len(Tail(s)) : Tail(s)[i] = s[i + 1]
    BY <1>1, ElementOfSeq, HeadTailProperties
  <1> DEFINE one == <<s[1]>>
             t == Tail(s)
  <1>3. one \in Seq(S) /\ Len(one) = 1 /\ one[1] = s[1] /\ t \in Seq(S)
    BY <1>2
  <1> HIDE DEF one, t
  <1>4. /\ one \o t \in Seq(S) /\ Len(one \o t) = Len(s)
        /\ \A i \in 1..Len(s) : (one \o t)[i] = s[i]
    <2>1. /\ one \o t \in Seq(S) /\ Len(one \o t) = Len(one) + Len(t)
          /\ \A i \in 1..(Len(one) + Len(t)) : (one \o t)[i] = IF i <= Len(one) THEN one[i] ELSE t[i - Len(one)]
      BY <1>3, ConcatProperties
    <2>2. Len(one) + Len(t) = Len(s)
      BY <1>1, <1>2, <1>3 DEF t
    <2>3. ASSUME NEW i \in 1..Len(s) PROVE (one \o t)[i] = s[i]
      <3>1. CASE i = 1
        BY <1>1, <1>3, <2>1, <2>2, <3>1
      <3>2. CASE i # 1
        <4>1. ~(i <= Len(one)) /\ i - Len(one) \in 1..Len(t) /\ (i - Len(one)) + 1 = i
          BY <1>1, <1>2, <1>3, <3>2 DEF t
        <4> QED BY <1>2, <2>1, <2>2, <4>1 DEF t
      <3> QED BY <3>1, <3>2
    <2> QED BY <2>1, <2>2, <2>3
  <1>5. one \o t = s
    <2> DEFINE ot == one \o t
    <2>1. ot \in Seq(S) /\ Len(ot) = Len(s) /\ \A i \in 1..Len(s) : ot[i] = s[i]
      BY <1>4
    <2> HIDE DEF ot
    <2>2. ot = s
      BY <2>1, SeqEqual
    <2> QED BY <2>2 DEF ot
  <1> QED BY <1>2, <1>5 DEF one, t

-----------------------------------------------------------------------------
(* What a sender holds                                                     *)

\* A segment put in its place, or behind the others, is there once.
LEMMA PutOnce ==
    ASSUME NEW S, NEW list \in Seq(S), NEW seg \in S, IsInjective(list), seg \notin Range(list)
    PROVE  IsInjective(Insert(list, seg)) /\ IsInjective(Append(list, seg))
  <1> DEFINE K == {k \in 0..Len(list) : \A i \in 1..k : SEQ_LT(list[i].seqno, seg.seqno)}
             rest == SubSeq(list, Max(K) + 1, Len(list))
             one == <<seg>>
  <1>1. K \in SUBSET (0..Len(list)) /\ 0 \in K /\ Len(list) \in Nat
    BY LenProperties
  <1>2. Insert(list, seg) =
          SubSeq(list, 1, Len(list) - Len(rest)) \o <<seg>> \o rest
    BY Zenon DEF Insert, SkipWhile
  <1>3. Max(K) \in 0..Len(list) /\ Len(rest) = Len(list) - Max(K)
    <2> HIDE DEF K
    <2> QED BY <1>1, Rest
  <1> DEFINE n == Max(K)
             front == SubSeq(list, 1, n)
  <1>4. Insert(list, seg) = (front \o one) \o rest
    <2>1. Len(list) - Len(rest) = n
      <3> HIDE DEF n, rest
      <3> QED BY <1>1, <1>3 DEF n
    <2> HIDE DEF n, rest
    <2> QED BY <1>2, <2>1
  <1>5. front \in Seq(S) /\ rest \in Seq(S) /\ front \o rest = list
    <2>1. n \in 0..Len(list)
      BY <1>3
    <2>2. rest = SubSeq(list, n + 1, Len(list))
      OBVIOUS
    <2> HIDE DEF n, rest
    <2> QED BY <2>1, <2>2, SplitAt
  <1>6. one \in Seq(S) /\ IsInjective(one) /\ Range(one) = {seg}
    BY OneMember
  <1> HIDE DEF front, rest, one, K, n
  <1>7. /\ IsInjective(front) /\ IsInjective(rest) /\ Range(front) \cap Range(rest) = {}
        /\ Range(list) = Range(front) \cup Range(rest)
    <2>1. IsInjective(front \o rest)
      BY <1>5
    <2>2. IsInjective(front) /\ IsInjective(rest) /\ Range(front) \cap Range(rest) = {}
      BY <1>5, <2>1, NoRepeats
    <2>3. front \in Seq(S) /\ rest \in Seq(S)
      BY <1>5
    <2>4. Range(front \o rest) = Range(front) \cup Range(rest)
      BY <2>3, RangeConcatenation, ZenonT(30)
    <2> QED BY <1>5, <2>2, <2>4
  <1>8. /\ front \o one \in Seq(S) /\ IsInjective(front \o one)
        /\ Range(front \o one) = Range(front) \cup {seg}
    <2>1. Range(front) \cap Range(one) = {}
      BY <1>6, <1>7
    <2> QED BY <1>5, <1>6, <1>7, <2>1, NoRepeats, RangeConcatenation, ConcatProperties
  <1>9. IsInjective((front \o one) \o rest)
    <2> DEFINE c == front \o one
    <2>1. c \in Seq(S) /\ IsInjective(c) /\ Range(c) \cap Range(rest) = {}
      BY <1>7, <1>8
    <2> HIDE DEF c
    <2>2. IsInjective(c \o rest)
      BY <1>5, <1>7, <2>1, NoRepeats
    <2> QED BY <2>2 DEF c
  <1>10. IsInjective(Append(list, seg))
    <2>1. Append(list, seg) = list \o one
      BY AppendIsConcat DEF one
    <2>2. Range(list) \cap Range(one) = {}
      BY <1>6
    <2> QED BY <1>6, <2>1, <2>2, NoRepeats
  <1> QED BY <1>4, <1>9, <1>10

\* The first member of a list without repetitions is not in the rest.
LEMMA HeadOnce ==
    ASSUME NEW S, NEW s \in Seq(S), s # <<>>, IsInjective(s)
    PROVE  /\ s[1] \in S /\ Tail(s) \in Seq(S)
           /\ IsInjective(Tail(s)) /\ s[1] \notin Range(Tail(s))
           /\ Range(s) = {s[1]} \cup Range(Tail(s))
  <1> DEFINE one == <<s[1]>>
             t == Tail(s)
  <1>1. s[1] \in S /\ t \in Seq(S) /\ one \o t = s
    BY HeadApart
  <1>2. one \in Seq(S) /\ IsInjective(one) /\ Range(one) = {s[1]}
    BY <1>1, OneMember
  <1> HIDE DEF one, t
  <1>3. IsInjective(one \o t)
    BY <1>1
  <1>4. IsInjective(t) /\ Range(one) \cap Range(t) = {}
    BY <1>1, <1>2, <1>3, NoRepeats
  <1>5. Range(one \o t) = Range(one) \cup Range(t)
    <2>1. one \in Seq(S) /\ t \in Seq(S)
      BY <1>1, <1>2
    <2> QED BY <2>1, RangeConcatenation, ZenonT(30)
  <1> QED BY <1>1, <1>2, <1>4, <1>5 DEF t

\* A segment with the bytes behind the k-th under their number, no more than an
\* mss of them, all among the w written
InPlace(e, w, seg) ==
    \E k \in 0..w :
        /\ seg.seqno = At(e, k) /\ Line(seg.data, k)
        /\ Len(seg.data) \in 1..Mss /\ k + Len(seg.data) <= w

\* The segments H hold what is behind the a-th of w bytes, and none twice.
Complete(e, w, a, H) ==
    /\ \A seg \in H : InPlace(e, w, seg)
    /\ \A s, t \in H : s # t => Range(s.data) \cap Range(t.data) = {}
    /\ \A b \in (a + 1)..w : \E seg \in H : b \in Range(seg.data)

\* The segments on the two queues of a block
Held(p) == Range(p.unacked) \cup Range(p.unsent)

\* Each is there once.
Apart(p) ==
    /\ IsInjective(p.unacked) /\ IsInjective(p.unsent)
    /\ Range(p.unacked) \cap Range(p.unsent) = {}

\* The sender's half of a block of e with w bytes written: a of them are
\* acknowledged and n have been sent.
Sending(e, w, a, n, p) ==
    /\ a \in 0..n /\ n \in 0..w
    /\ p.lastack = At(e, a) /\ p.snd_nxt = At(e, n) /\ p.snd_lbb = At(e, w)
    /\ p.snd_buf = SndBuf - (w - a)
    /\ Apart(p) /\ Complete(e, w, a, Held(p))

\* The numbers of the first w bytes of e, with the one behind them
Marks(e, w) == {At(e, k) : k \in 0..w}

\* Segments that acknowledge one of the numbers K; a reset acknowledges nothing.
Acknowledges(K, packets) == \A s \in Range(packets) : s.rst \/ s.ackno \in K

\* A block of e that keeps account of w bytes written and acknowledges only K
Right(e, w, K, p) ==
    /\ p.rcv_nxt \in K
    /\ Acknowledges(K, p.out)
    /\ p.state = "ESTABLISHED" => \E a, n : Sending(e, w, a, n, p)

\* The parts of a block the account depends on
SameSender(p, q) == SameAccount(p, q) /\ SameQueues(p, q) /\ q.snd_nxt = p.snd_nxt

\* Where they are the same the account is.
LEMMA SameSending ==
    ASSUME NEW e, NEW w, NEW a, NEW n, NEW p, NEW q, Sending(e, w, a, n, p), SameSender(p, q)
    PROVE  Sending(e, w, a, n, q)
  BY DEF Sending, SameSender, SameAccount, SameQueues, Apart, Held

\* What is neither about the sender nor about what it acknowledges
Keeps(p, q) ==
    SameSender(p, q) /\ q.rcv_nxt = p.rcv_nxt /\ q.out = p.out /\ q.state = p.state

\* ... may change.
LEMMA KeepsRight ==
    ASSUME NEW e, NEW w, NEW K, NEW p, NEW q, Right(e, w, K, p), Keeps(p, q)
    PROVE  Right(e, w, K, q)
  BY SameSending DEF Right, Keeps

\* A block like it is as good.
LEMMA AlikeKeeps ==
    ASSUME NEW p, NEW q, Alike(p, q)
    PROVE  Keeps(p, q)
  BY DEF Alike, Keeps, SameSender, SameNumbers, SameInput

\* A segment that is sent acknowledges what was received.
LEMMA EmitRight ==
    ASSUME NEW G, Pieces(G), NEW e, NEW w, NEW K, NEW p, Sound(G, p), Right(e, w, K, p),
           NEW seqno, NEW data, <<seqno, data>> \in G
    PROVE  Right(e, w, K, Emit(p, seqno, data))
  <1> DEFINE q == Emit(p, seqno, data)
             s == [rst |-> FALSE, seqno |-> seqno, data |-> data,
                   ackno |-> p.rcv_nxt, wnd |-> p.rcv_ann_wnd]
  <1>1. DOMAIN p = Fields /\ p.out \in Seq(Packets(G))
    BY DEF Sound
  <1>2. /\ SameInput(p, q) /\ SameQueues(p, q) /\ SameAccount(p, q) /\ q.snd_nxt = p.snd_nxt
        /\ q.out = Append(p.out, s)
    BY <1>1, EmitFields
  <1>3. s.ackno = p.rcv_nxt
    OBVIOUS
  <1>4. Sound(G, q) /\ q.out \in Seq(Packets(G))
    BY EmitSound DEF Sound
  <1> HIDE DEF q, s
  <1>5. Range(Append(p.out, s)) = Range(p.out) \cup {s}
    <2> DEFINE P == Packets(G) \cup {s}
    <2>1. p.out \in Seq(P) /\ s \in P
      <3>1. Packets(G) \subseteq P
        OBVIOUS
      <3> HIDE DEF P
      <3>2. p.out \in Seq(P)
        BY <1>1, <3>1, SeqGrows
      <3> QED BY <3>2 DEF P
    <2> HIDE DEF P
    <2> QED BY <2>1, AppendIn
  <1>6. Acknowledges(K, q.out)
    BY <1>2, <1>3, <1>5 DEF Acknowledges, Right
  <1>7. p.state = "ESTABLISHED" => \E a, n : Sending(e, w, a, n, q)
    BY <1>2, SameSending DEF Right, SameSender
  <1> QED BY <1>2, <1>6, <1>7 DEF Right, SameInput, q

\* The end of a segment in its place
LEMMA PlaceEnd ==
    ASSUME NEW e \in End, NEW w \in Nat, NEW seg, NEW k \in 0..w,
           seg.seqno = At(e, k), Line(seg.data, k)
    PROVE  /\ Len(seg.data) \in Nat
           /\ SegEnd(seg) = At(e, k + Len(seg.data))
           /\ \A j \in DOMAIN seg.data : Plus(seg.seqno, j) = Plus(Iss[e], seg.data[j])
  <1>1. /\ seg.data \in Seq(Nat) /\ Len(seg.data) \in Nat /\ DOMAIN seg.data = 1..Len(seg.data)
        /\ Iss[e] \in Int /\ k \in Int
    BY LenProperties, Constants DEF Line
  <1>2. \A j \in Int : Plus(Plus(Iss[e], k), j) = Plus(Iss[e], k + j)
    BY <1>1, PlusPlus
  <1>3. Plus(Plus(Iss[e], k), Len(seg.data)) = Plus(Iss[e], k + Len(seg.data))
    BY <1>1, <1>2
  <1>4. ASSUME NEW j \in DOMAIN seg.data
        PROVE  Plus(seg.seqno, j) = Plus(Iss[e], seg.data[j])
    <2>1. j \in Int /\ seg.data[j] = k + j
      BY <1>1 DEF Line
    <2> QED BY <1>2, <2>1 DEF At
  <1> QED BY <1>1, <1>3, <1>4 DEF SegEnd, TCPLEN, At

-----------------------------------------------------------------------------
(* Sending keeps the account                                               *)

\* One turn of the loop moves the first segment from one queue to the other.
LEMMA TurnSending ==
    ASSUME 2 * MaxBytes < Seq32, NEW G, Pieces(G), NEW p, Sound(G, p), p.unsent # <<>>,
           NEW e \in End, NEW w \in 0..MaxBytes, NEW a, NEW n, Sending(e, w, a, n, p)
    PROVE  \E m : Sending(e, w, a, m, SendSegment(p, p.unsent[1]))
  <1> DEFINE seg == p.unsent[1]
             x == Emit(p, seg.seqno, seg.data)
             nxt == IF SEQ_LT(x.snd_nxt, SegEnd(seg)) THEN SegEnd(seg) ELSE x.snd_nxt
             una == IF x.unacked # <<>> /\ SEQ_LT(seg.seqno, Last(x.unacked).seqno)
                    THEN Insert(x.unacked, seg) ELSE Append(x.unacked, seg)
             q == [x EXCEPT !.ack_delay = FALSE, !.ack_now = FALSE, !.rtime = TRUE,
                            !.snd_nxt = nxt, !.unsent = Tail(x.unsent), !.unacked = una]
  <1>1. SendSegment(p, seg) = q
    BY Zenon DEF SendSegment
  <1>2. /\ DOMAIN p = Fields /\ p.unsent \in Seq(Segs(G)) /\ p.unacked \in Seq(Segs(G))
    BY DEF Sound, Queues
  <1>3. /\ DOMAIN x = Fields /\ SameQueues(p, x) /\ SameAccount(p, x) /\ x.snd_nxt = p.snd_nxt
    <2> DEFINE number == seg.seqno
               bytes == seg.data
    <2> HIDE DEF seg, q
    <2>1. x = Emit(p, number, bytes)
      OBVIOUS
    <2> HIDE DEF x, number, bytes
    <2> QED BY <1>2, <2>1, EmitFields
  <1> HIDE DEF x
  <1>4. q.snd_nxt = nxt /\ q.unsent = Tail(x.unsent) /\ q.unacked = una /\ SameAccount(x, q)
    <2> HIDE DEF seg, nxt, una
    <2> QED BY <1>3, FieldsAre, Zenon DEF SameAccount
  <1> DEFINE t == Tail(p.unsent)
  <1>5. /\ seg \in Segs(G) /\ t \in Seq(Segs(G)) /\ IsInjective(t) /\ seg \notin Range(t)
        /\ Range(p.unsent) = {seg} \cup Range(t)
    <2>1. IsInjective(p.unsent)
      BY DEF Sending, Apart
    <2> QED BY <1>2, <2>1, HeadOnce
  <1>6. una \in Seq(Segs(G)) /\ Range(una) = Range(p.unacked) \cup {seg} /\ IsInjective(una)
    <2>1. IsInjective(p.unacked) /\ Range(p.unacked) \cap Range(p.unsent) = {}
      BY DEF Sending, Apart
    <2>2. seg \notin Range(p.unacked) /\ x.unacked = p.unacked
      BY <1>3, <1>5, <2>1 DEF SameQueues
    <2> DEFINE u == p.unacked
    <2> HIDE DEF seg, t, q, x
    <2>3. u \in Seq(Segs(G)) /\ IsInjective(u) /\ seg \in Segs(G) /\ seg \notin Range(u)
      BY <1>2, <1>5, <2>1, <2>2
    <2> HIDE DEF u
    <2>4. IsInjective(Insert(u, seg)) /\ IsInjective(Append(u, seg))
      BY <2>3, PutOnce
    <2>5. /\ Insert(u, seg) \in Seq(Segs(G)) /\ Range(Insert(u, seg)) = Range(u) \cup {seg}
          /\ Append(u, seg) \in Seq(Segs(G)) /\ Range(Append(u, seg)) = Range(u) \cup {seg}
      BY <2>3, InsertIn, AppendIn
    <2>6. una = Insert(u, seg) \/ una = Append(u, seg)
      BY <2>2 DEF u
    <2> HIDE DEF una
    <2> QED BY <2>4, <2>5, <2>6 DEF u
  <1>7. Apart(q) /\ Held(q) = Held(p)
    <2>1. q.unsent = t /\ q.unacked = una
      BY <1>3, <1>4 DEF SameQueues
    <2>2. Range(p.unacked) \cap Range(p.unsent) = {}
      BY DEF Sending, Apart
    <2> HIDE DEF q, una, seg, t
    <2> QED BY <1>5, <1>6, <2>1, <2>2 DEF Apart, Held
  <1>8. PICK m \in Int : a <= m /\ m <= w /\ nxt = At(e, m)
    <2>1. seg \in Held(p)
      BY <1>5 DEF Held
    <2>2. InPlace(e, w, seg)
      BY <2>1 DEF Sending, Complete
    <2> HIDE DEF seg
    <2>3. PICK k \in 0..w : seg.seqno = At(e, k) /\ Line(seg.data, k) /\ k + Len(seg.data) <= w
      BY <2>2 DEF InPlace
    <2>4. w \in Nat /\ w <= MaxBytes /\ MaxBytes \in Nat
      BY Constants
    <2>5. Len(seg.data) \in Nat /\ SegEnd(seg) = At(e, k + Len(seg.data))
      BY <2>3, <2>4, PlaceEnd
    <2> DEFINE l == k + Len(seg.data)
    <2>6. l \in 0..w /\ a \in 0..n /\ n \in 0..w
      BY <2>3, <2>4, <2>5 DEF Sending
    <2>7. x.snd_nxt = At(e, n) /\ SegEnd(seg) = At(e, l)
      BY <1>3, <2>5 DEF Sending
    <2> HIDE DEF l
    <2>8. SEQ_LT(At(e, n), At(e, l)) <=> n < l
      <3>1. n \in Int /\ l \in Int /\ l - n <= MaxBytes + 1 /\ n - l <= MaxBytes
        BY <2>4, <2>6
      <3> HIDE DEF nxt, una, q, t
      <3> QED BY <3>1, AtCompare
    <2> DEFINE o == IF n < l THEN l ELSE n
    <2>9. o \in Int /\ a <= o /\ o <= w
      BY <2>4, <2>6
    <2>10. nxt = At(e, o)
      BY <2>7, <2>8
    <2> QED BY <2>9, <2>10
  <1> HIDE DEF q, nxt, una, t, seg
  <1>9. Sending(e, w, a, m, q)
    <2>1. a \in 0..m /\ m \in 0..w
      BY <1>8 DEF Sending
    <2> QED BY <1>3, <1>4, <1>7, <1>8, <2>1 DEF Sending, SameAccount
  <1> QED BY <1>1, <1>9 DEF seg

\* What the turn sends acknowledges what was received.
LEMMA TurnRight ==
    ASSUME 2 * MaxBytes < Seq32, NEW G, Pieces(G), NEW p, Sound(G, p), p.unsent # <<>>,
           NEW e \in End, NEW w \in 0..MaxBytes, NEW K, Right(e, w, K, p)
    PROVE  Right(e, w, K, SendSegment(p, p.unsent[1]))
  <1> DEFINE seg == p.unsent[1]
             x == Emit(p, seg.seqno, seg.data)
             q == SendSegment(p, seg)
  <1>1. seg \in Segs(G)
    <2>1. p.unsent \in Seq(Segs(G))
      BY DEF Sound, Queues
    <2> QED BY <2>1, HeadApart
  <1>2. <<seg.seqno, seg.data>> \in G
    BY <1>1 DEF Segs
  <1>3. Right(e, w, K, x) /\ DOMAIN x = Fields
    <2> HIDE DEF seg, q
    <2> QED BY <1>2, EmitRight, EmitSound DEF Sound
  <1>4. q.out = x.out /\ q.rcv_nxt = x.rcv_nxt
    <2> HIDE DEF seg
    <2> DEFINE nxt == IF SEQ_LT(x.snd_nxt, SegEnd(seg)) THEN SegEnd(seg) ELSE x.snd_nxt
               una == IF x.unacked # <<>> /\ SEQ_LT(seg.seqno, Last(x.unacked).seqno)
                      THEN Insert(x.unacked, seg) ELSE Append(x.unacked, seg)
               r == [x EXCEPT !.ack_delay = FALSE, !.ack_now = FALSE, !.rtime = TRUE,
                              !.snd_nxt = nxt, !.unsent = Tail(x.unsent), !.unacked = una]
    <2>1. q = r
      BY Zenon DEF SendSegment
    <2> HIDE DEF nxt, una, x, q
    <2>2. r.out = x.out /\ r.rcv_nxt = x.rcv_nxt
      BY <1>3, FieldsAre, Zenon
    <2> QED BY <2>1, <2>2
  <1>5. q.state = p.state
    <2> HIDE DEF seg
    <2>1. SameInput(p, q)
      BY <1>1, SendSegmentSound
    <2> QED BY <2>1 DEF SameInput
  <1>6. ASSUME q.state = "ESTABLISHED" PROVE \E a, n : Sending(e, w, a, n, q)
    <2>1. PICK a, n : Sending(e, w, a, n, p)
      BY <1>5, <1>6 DEF Right
    <2>2. \E m : Sending(e, w, a, m, SendSegment(p, p.unsent[1]))
      <3> HIDE DEF q, x, seg
      <3> QED BY <2>1, TurnSending
    <2> QED BY <2>2
  <1> HIDE DEF q, x
  <1> QED BY <1>3, <1>4, <1>6 DEF Right, q, seg

\* So do the turns together.
LEMMA TurnsRight ==
    ASSUME 2 * MaxBytes < Seq32, NEW G, Pieces(G), NEW p, Sound(G, p),
           NEW e \in End, NEW w \in 0..MaxBytes, NEW K, Right(e, w, K, p),
           NEW n \in 0..Len(p.unsent), NEW turn,
           turn[0] = p, \A k \in 1..n : turn[k] = SendSegment(turn[k - 1], p.unsent[k])
    PROVE  Right(e, w, K, turn[n])
  <1> DEFINE u == p.unsent
             After(k) == Right(e, w, K, turn[k]) /\ turn[k].unsent = SubSeq(u, k + 1, Len(u))
             Bad == {k \in 0..n : ~ After(k)}
  <1>0. u \in Seq(Segs(G)) /\ Len(u) \in Nat /\ n \in Nat /\ n <= Len(u)
    BY LenProperties DEF Sound, Queues
  <1>1. \A k \in 0..n : Sound(G, turn[k])
    <2> TAKE k \in 0..n
    <2>1. k \in 0..Len(p.unsent) /\ \A i \in 1..k : turn[i] = SendSegment(turn[i - 1], p.unsent[i])
      <3>1. k \in 0..Len(p.unsent) /\ 1..k \subseteq 1..n
        BY <1>0
      <3> QED BY <3>1
    <2> HIDE DEF u, After, Bad
    <2> QED BY <2>1, AfterTurns
  <1>2. Bad = {}
    <2> SUFFICES ASSUME Bad # {} PROVE FALSE
      OBVIOUS
    <2>1. PICK m \in Bad : \A y \in Bad : m <= y
      <3>1. Bad \in SUBSET Nat
        BY <1>0
      <3> HIDE DEF Bad
      <3> QED BY <3>1, Least
    <2>2. m \in 0..n /\ ~ After(m)
      BY <2>1
    <2>3. m # 0
      <3>1. SubSeq(u, 0 + 1, Len(u)) = u
        BY <1>0, SubSeqFull
      <3>2. After(0)
        BY <3>1
      <3> HIDE DEF After
      <3> QED BY <2>2, <3>2
    <2>4. m \in 1..n /\ m - 1 \in 0..n /\ m - 1 \notin Bad
      <3> HIDE DEF Bad, After
      <3>1. m \in 1..n /\ m - 1 \in 0..n /\ ~(m <= m - 1)
        BY <1>0, <2>2, <2>3
      <3> QED BY <2>1, <3>1
    <2>5. After(m - 1)
      <3> HIDE DEF After
      <3> QED BY <2>4
    <2> DEFINE o == turn[m - 1]
    <2>6. turn[m] = SendSegment(o, u[m]) /\ Sound(G, o) /\ u[m] \in Segs(G)
      <3>1. m \in 1..Len(u)
        BY <1>0, <2>4
      <3> QED BY <1>0, <1>1, <2>4, <3>1, ElementOfSeq
    <2>7. o.unsent = SubSeq(u, m, Len(u)) /\ Right(e, w, K, o)
      BY <1>0, <2>4, <2>5
    <2>8. o.unsent # <<>> /\ o.unsent[1] = u[m] /\ Tail(o.unsent) = SubSeq(u, m + 1, Len(u))
      <3> DEFINE r == SubSeq(u, m, Len(u))
      <3>1. m \in 1..Len(u) /\ Len(u) \in m..Len(u)
        BY <1>0, <2>4
      <3>2. Len(r) = Len(u) - m + 1 /\ r[1] = u[m]
        <4>1. /\ Len(SubSeq(u, m, Len(u))) = IF m <= Len(u) THEN Len(u) - m + 1 ELSE 0
              /\ \A i \in 1..(Len(u) - m + 1) : SubSeq(u, m, Len(u))[i] = u[m + i - 1]
          BY <1>0, <3>1, Piece
        <4>2. 1 \in 1..(Len(u) - m + 1) /\ m + 1 - 1 = m
          BY <1>0, <3>1
        <4> QED BY <3>1, <4>1, <4>2
      <3>3. Tail(r) = SubSeq(u, m + 1, Len(u))
        <4> HIDE DEF u
        <4> QED BY <1>0, <3>1, HeadTailOfSubSeq
      <3>4. r # <<>>
        <4>1. Len(r) > 0
          BY <1>0, <3>1, <3>2
        <4> HIDE DEF r
        <4> QED BY <4>1
      <3> HIDE DEF r
      <3> QED BY <2>7, <3>2, <3>3, <3>4 DEF r
    <2>9. Right(e, w, K, turn[m])
      <3> HIDE DEF o, u, Bad, After
      <3>1. Right(e, w, K, SendSegment(o, o.unsent[1]))
        BY <2>6, <2>7, <2>8, TurnRight
      <3> QED BY <2>6, <2>8, <3>1
    <2>10. turn[m].unsent = Tail(o.unsent)
      <3> HIDE DEF o, u, Bad, After
      <3> QED BY <2>6, SendSegmentSound
    <2>11. After(m)
      BY <2>8, <2>9, <2>10
    <2> HIDE DEF After
    <2> QED BY <2>2, <2>11
  <1>3. After(n)
    <2> HIDE DEF After
    <2>1. n \in 0..n
      BY <1>0
    <2> QED BY <1>2, <2>1
  <1> QED BY <1>3

\* tcp_output keeps the account.
LEMMA OutputRight ==
    ASSUME 2 * MaxBytes < Seq32, NEW G, Pieces(G), NEW p, Sound(G, p),
           NEW e \in End, NEW w \in 0..MaxBytes, NEW K, Right(e, w, K, p), NEW mem
    PROVE  Right(e, w, K, tcp_output(p, mem))
  <1> DEFINE stuck == \/ p.unsent = <<>>
                      \/ Reach(p, p.unsent[1]) > Min({p.snd_wnd, p.cwnd})
             T == {k \in 0..Len(p.unsent) : \A i \in 1..k : Sendable(p, i)}
             n == Max(T)
             turn[k \in 0..n] == IF k = 0 THEN p ELSE SendSegment(turn[k - 1], p.unsent[k])
             sent == turn[n]
             late == /\ sent.unsent # <<>> /\ ~sent.persist
                     /\ Reach(sent, sent.unsent[1]) > sent.snd_wnd
             q1 == Emit(p, p.snd_nxt, <<>>)
             q2 == [q1 EXCEPT !.ack_delay = FALSE, !.ack_now = FALSE]
             q3 == [sent EXCEPT !.persist = sent.persist \/ late, !.naglememerr = FALSE]
  <1>1. tcp_output(p, mem) = IF p.ack_now /\ stuck THEN IF mem THEN q2 ELSE p ELSE q3
    BY Zenon DEF tcp_output
  <1>2. Right(e, w, K, q2)
    <2> DEFINE none == <<>>
    <2>1. <<p.snd_nxt, none>> \in G
      BY DEF Sound, Numbers, Pieces
    <2>2. Sound(G, q1) /\ Right(e, w, K, q1)
      <3> HIDE DEF none
      <3>1. Sound(G, Emit(p, p.snd_nxt, none)) /\ Right(e, w, K, Emit(p, p.snd_nxt, none))
        BY <2>1, EmitSound, EmitRight
      <3> QED BY <3>1 DEF none
    <2>3. Alike(q1, q2)
      <3> DOMAIN q1 = Fields
        BY <2>2 DEF Sound
      <3> HIDE DEF q1
      <3> QED BY FieldsAre, Zenon DEF Alike, SameInput, SameQueues, SameNumbers, SameAccount
    <2> HIDE DEF q1, q2
    <2> QED BY <2>2, <2>3, AlikeKeeps, KeepsRight
  <1>3. n \in 0..Len(p.unsent) /\ n \in Nat
    <2>1. p.unsent \in Seq(Segs(G)) /\ Len(p.unsent) \in Nat
      BY LenProperties DEF Sound, Queues
    <2>2. T \in SUBSET (0..Len(p.unsent)) /\ 0 \in T
      BY <2>1
    <2> HIDE DEF T
    <2> QED BY <2>1, <2>2, Rest
  <1>4. turn = [k \in 0..n |-> IF k = 0 THEN p ELSE SendSegment(turn[k - 1], p.unsent[k])]
    <2> HIDE DEF n
    <2>1. \E g : g = [k \in 0..n |-> IF k = 0 THEN p ELSE SendSegment(g[k - 1], p.unsent[k])]
      BY <1>3, TurnsExist
    <2> QED BY <2>1
  <1>5. Sound(G, sent) /\ Right(e, w, K, sent)
    <2>1. turn[0] = p /\ \A k \in 1..n : turn[k] = SendSegment(turn[k - 1], p.unsent[k])
      <3> HIDE DEF turn, n
      <3> QED BY <1>3, <1>4
    <2> HIDE DEF turn, n
    <2> QED BY <1>3, <2>1, AfterTurns, TurnsRight
  <1>6. Right(e, w, K, q3)
    <2>1. Alike(sent, q3)
      <3> DOMAIN sent = Fields
        BY <1>5 DEF Sound
      <3> HIDE DEF sent, late
      <3> QED BY FieldsAre, Zenon DEF Alike, SameInput, SameQueues, SameNumbers, SameAccount
    <2> HIDE DEF sent, q3
    <2> QED BY <1>5, <2>1, AlikeKeeps, KeepsRight
  <1> HIDE DEF stuck, q2, q3, sent
  <1> QED BY <1>1, <1>2, <1>6

-----------------------------------------------------------------------------
(* Retransmission keeps the account                                        *)

\* Segments that move from one queue to the other
LEMMA MoveSending ==
    ASSUME NEW e, NEW w, NEW a, NEW n, NEW p, NEW q, Sending(e, w, a, n, p),
           SameAccount(p, q), q.snd_nxt = p.snd_nxt, Apart(q), Held(q) = Held(p)
    PROVE  Sending(e, w, a, n, q)
  BY DEF Sending, SameAccount

\* All of them go back after a timeout.
LEMMA RtoRight ==
    ASSUME 2 * MaxBytes < Seq32, NEW G, Pieces(G), NEW p, Sound(G, p),
           NEW e \in End, NEW w \in 0..MaxBytes, NEW K, Right(e, w, K, p), NEW mem
    PROVE  Right(e, w, K, tcp_rexmit_rto(p, mem))
  <1> DEFINE unsent == p.unacked \o p.unsent
             none == <<>>
             nrtx == (p.nrtx + 1) % U8
             m == [p EXCEPT !.unsent = unsent, !.unacked = none, !.nrtx = nrtx]
  <1>1. tcp_rexmit_rto(p, mem) = tcp_output(m, mem)
    BY Zenon DEF tcp_rexmit_rto
  <1>2. /\ DOMAIN p = Fields /\ p.unsent \in Seq(Segs(G)) /\ p.unacked \in Seq(Segs(G))
        /\ unsent \in Seq(Segs(G)) /\ none \in Seq(Segs(G))
    BY ConcatProperties DEF Sound, Queues
  <1>3. Sound(G, m)
    <2> HIDE DEF unsent, none, nrtx
    <2> QED BY <1>2, MoveSound
  <1>4. /\ SameAccount(p, m) /\ m.snd_nxt = p.snd_nxt /\ m.rcv_nxt = p.rcv_nxt
        /\ m.out = p.out /\ m.state = p.state /\ m.unsent = unsent /\ m.unacked = none
    <2> HIDE DEF unsent, none, nrtx
    <2> QED BY <1>2, FieldsAre, Zenon DEF SameAccount
  <1> HIDE DEF m
  <1>5. ASSUME NEW a, NEW n, Sending(e, w, a, n, p) PROVE Sending(e, w, a, n, m)
    <2>1. IsInjective(unsent) /\ Range(unsent) = Range(p.unacked) \cup Range(p.unsent)
      <3>1. IsInjective(p.unacked) /\ IsInjective(p.unsent) /\ Range(p.unacked) \cap Range(p.unsent) = {}
        BY <1>5 DEF Sending, Apart
      <3> QED BY <1>2, <3>1, NoRepeats, RangeConcatenation
    <2>2. Range(none) = {} /\ IsInjective(none)
      BY DEF Range, IsInjective
    <2> HIDE DEF unsent, none
    <2>3. Apart(m) /\ Held(m) = Held(p)
      BY <1>4, <2>1, <2>2 DEF Apart, Held
    <2> QED BY <1>4, <1>5, <2>3, MoveSending
  <1>6. Right(e, w, K, m)
    <2> HIDE DEF unsent, none
    <2> QED BY <1>4, <1>5 DEF Right
  <1> QED BY <1>1, <1>3, <1>6, OutputRight

\* The first goes back after three acknowledgments of what is in front of it.
LEMMA RexmitSending ==
    ASSUME NEW G, NEW p, Sound(G, p), p.unacked # <<>>,
           NEW e, NEW w, NEW a, NEW n, Sending(e, w, a, n, p)
    PROVE  Sending(e, w, a, n, tcp_rexmit(p)) /\ tcp_rexmit(p).out = p.out
  <1> DEFINE first == p.unacked[1]
             unsent == Insert(p.unsent, first)
             unacked == Tail(p.unacked)
             nrtx == (p.nrtx + 1) % U8
             m == [p EXCEPT !.unsent = unsent, !.unacked = unacked, !.nrtx = nrtx]
  <1>1. DOMAIN p = Fields /\ p.unacked \in Seq(Segs(G)) /\ p.unsent \in Seq(Segs(G))
    BY DEF Sound, Queues
  <1>2. tcp_rexmit(p) = m
    <2>1. [p EXCEPT !.unacked = unacked, !.unsent = unsent, !.nrtx = nrtx] = m
      <3> HIDE DEF unsent, unacked, nrtx
      <3> QED BY Zenon
    <2> QED BY <2>1, Zenon DEF tcp_rexmit
  <1>3. IsInjective(p.unacked) /\ IsInjective(p.unsent) /\ Range(p.unacked) \cap Range(p.unsent) = {}
    BY DEF Sending, Apart
  <1>4. /\ first \in Segs(G) /\ IsInjective(unacked) /\ first \notin Range(unacked)
        /\ Range(p.unacked) = {first} \cup Range(unacked)
    BY <1>1, <1>3, HeadOnce
  <1> HIDE DEF first, unacked
  <1>5. IsInjective(unsent) /\ Range(unsent) = Range(p.unsent) \cup {first}
    <2> DEFINE u == p.unsent
    <2>1. u \in Seq(Segs(G)) /\ IsInjective(u) /\ first \notin Range(u)
      BY <1>1, <1>3, <1>4
    <2> HIDE DEF u
    <2>2. IsInjective(Insert(u, first)) /\ Range(Insert(u, first)) = Range(u) \cup {first}
      BY <1>4, <2>1, PutOnce, InsertIn
    <2> QED BY <2>2 DEF u
  <1>6. /\ SameAccount(p, m) /\ m.snd_nxt = p.snd_nxt /\ m.out = p.out
        /\ m.unsent = unsent /\ m.unacked = unacked
    <2> HIDE DEF unsent, nrtx
    <2> QED BY <1>1, FieldsAre, Zenon DEF SameAccount
  <1> HIDE DEF m, unsent
  <1>7. Apart(m) /\ Held(m) = Held(p)
    BY <1>3, <1>4, <1>5, <1>6 DEF Apart, Held
  <1> QED BY <1>2, <1>6, <1>7, MoveSending

\* A probe leaves the queues alone.
LEMMA ProbeRight ==
    ASSUME NEW G, Pieces(G), FirstBytes(G), NEW p, Sound(G, p),
           NEW e, NEW w, NEW K, Right(e, w, K, p), NEW mem
    PROVE  Right(e, w, K, tcp_zero_window_probe(p, mem))
  <1> DEFINE queue == p.unacked \o p.unsent
             seqno == queue[1].seqno
             data == SubSeq(queue[1].data, 1, 1)
             q == Emit(p, seqno, data)
  <1>1. tcp_zero_window_probe(p, mem) = IF queue = <<>> \/ ~mem THEN p ELSE q
    BY Zenon DEF tcp_zero_window_probe
  <1>2. ASSUME queue # <<>> PROVE Right(e, w, K, q)
    <2>1. queue \in Seq(Segs(G))
      BY ConcatProperties DEF Sound, Queues
    <2> HIDE DEF queue
    <2>2. Len(queue) \in Nat /\ Len(queue) # 0
      BY <1>2, <2>1, EmptySeq, LenProperties
    <2>3. queue[1] \in Segs(G)
      BY <2>1, <2>2, ElementOfSeq
    <2>4. <<queue[1].seqno, queue[1].data>> \in G
      BY <2>3 DEF Segs
    <2>5. <<seqno, data>> \in G
      BY <2>4 DEF FirstBytes
    <2> HIDE DEF seqno, data
    <2> QED BY <2>5, EmitRight
  <1> HIDE DEF queue, q
  <1> QED BY <1>1, <1>2

-----------------------------------------------------------------------------
(* Windows                                                                 *)

\* The flags, the window and its announcement are not of the account.
LEMMA WindowKeeps ==
    ASSUME NEW p, DOMAIN p = Fields, NEW wnd, NEW s
    PROVE  /\ Keeps(p, tcp_ack_now(p)) /\ Keeps(p, tcp_ack(p))
           /\ Keeps(p, tcp_update_rcv_ann_wnd(p))
           /\ Keeps(p, [p EXCEPT !.rcv_wnd = wnd])
           /\ Keeps(p, UpdateWindow(p, s))
           /\ DOMAIN tcp_update_rcv_ann_wnd(p) = Fields
  <1>1. Keeps(p, tcp_ack_now(p)) /\ Keeps(p, tcp_ack(p))
    BY FieldsAre, Zenon DEF tcp_ack_now, tcp_ack, Keeps, SameSender, SameQueues, SameAccount
  <1>2. Keeps(p, tcp_update_rcv_ann_wnd(p)) /\ Keeps(p, [p EXCEPT !.rcv_wnd = wnd])
    BY FieldsAre, Zenon DEF tcp_update_rcv_ann_wnd, Keeps, SameSender, SameQueues, SameAccount
  <1>3. Keeps(p, UpdateWindow(p, s))
    BY FieldsAre, Zenon DEF UpdateWindow, Keeps, SameSender, SameQueues, SameAccount
  <1>4. DOMAIN tcp_update_rcv_ann_wnd(p) = Fields
    BY DEF tcp_update_rcv_ann_wnd
  <1> QED BY <1>1, <1>2, <1>3, <1>4

\* tcp_recved keeps the account.
LEMMA RecvedRight ==
    ASSUME 2 * MaxBytes < Seq32, NEW G, Pieces(G), NEW p, Sound(G, p),
           NEW e \in End, NEW w \in 0..MaxBytes, NEW K, Right(e, w, K, p), NEW len \in Int, NEW mem
    PROVE  Right(e, w, K, tcp_recved(p, len, mem))
  <1> DEFINE wnd == Min({p.rcv_wnd + len, Wnd})
             q == [p EXCEPT !.rcv_wnd = wnd]
             inflation == IF CanAnnounce(q)
                          THEN (RightEdge(q) - q.rcv_ann_right_edge) % Seq32 ELSE 0
             u == tcp_update_rcv_ann_wnd(q)
             a == tcp_ack_now(u)
             o == tcp_output(a, mem)
  <1>1. tcp_recved(p, len, mem) = IF inflation >= Wnd \div 4 THEN o ELSE u
    BY Zenon DEF tcp_recved
  <1>2. wnd \in Int
    <2>1. Wnd \in Int
      BY Constants
    <2>2. p.rcv_wnd + len \in Int
      BY DEF Sound, Numbers
    <2>3. \A x, y \in Int : Min({x, y}) \in Int
      BY Smaller
    <2> QED BY <2>1, <2>2, <2>3
  <1>3. Sound(G, q) /\ Right(e, w, K, q) /\ DOMAIN q = Fields
    <2>1. DOMAIN p = Fields
      BY DEF Sound
    <2> HIDE DEF wnd
    <2> QED BY <1>2, <2>1, RcvWndSound, WindowKeeps, KeepsRight DEF Sound
  <1> HIDE DEF q
  <1>4. Sound(G, u) /\ Right(e, w, K, u) /\ DOMAIN u = Fields
    BY <1>3, AnnounceSound, WindowKeeps, KeepsRight DEF Sound
  <1> HIDE DEF u
  <1>5. Sound(G, a) /\ Right(e, w, K, a)
    BY <1>4, AckSound, WindowKeeps, KeepsRight
  <1> HIDE DEF a
  <1>6. Right(e, w, K, o)
    BY <1>5, OutputRight
  <1> HIDE DEF o, inflation
  <1> QED BY <1>1, <1>4, <1>6

-----------------------------------------------------------------------------
(* The acknowledgment of a segment                                         *)

\* A repeated acknowledgment moves at most the first segment.
LEMMA DuplicateAckSending ==
    ASSUME NEW G, NEW p, Sound(G, p), NEW e, NEW w, NEW a, NEW n, Sending(e, w, a, n, p)
    PROVE  Sending(e, w, a, n, DuplicateAck(p)) /\ DuplicateAck(p).out = p.out
  <1> DEFINE dupacks == (p.dupacks + 1) % U8
             q == [p EXCEPT !.dupacks = dupacks]
             half == Min({q.cwnd, q.snd_wnd}) \div 2
             ssthresh == IF half < 2 * Mss THEN 2 * Mss ELSE half
             grown == Grown(q.cwnd, Mss)
             cut == (ssthresh + 3 * Mss) % U16
             c == [q EXCEPT !.cwnd = grown]
             x == tcp_rexmit(q)
             b == [x EXCEPT !.ssthresh = ssthresh, !.infr = TRUE, !.cwnd = cut]
             Fine(r) == Sending(e, w, a, n, r) /\ r.out = p.out
  <1>1. DuplicateAck(p) = IF q.dupacks < 3 \/ q.unacked = <<>> THEN q ELSE IF q.infr THEN c ELSE b
    BY Zenon DEF DuplicateAck
  <1>0. \A r, s : Fine(r) /\ Alike(r, s) => Fine(s)
    BY AlikeKeeps, SameSending DEF Keeps
  <1>2. Sound(G, q) /\ Fine(q)
    <2>1. Alike(p, q)
      <3> DOMAIN p = Fields
        BY DEF Sound
      <3> HIDE DEF dupacks
      <3> QED BY FieldsAre, Zenon DEF Alike, SameInput, SameQueues, SameNumbers, SameAccount
    <2>2. Fine(p)
      OBVIOUS
    <2> HIDE DEF q, Fine
    <2> QED BY <1>0, <2>1, <2>2, AlikeSound
  <1> HIDE DEF ssthresh, half, grown, cut, q
  <1>3. Fine(c)
    <2>1. Alike(q, c)
      <3> DOMAIN q = Fields
        BY <1>2 DEF Sound
      <3> QED BY FieldsAre, Zenon DEF Alike, SameInput, SameQueues, SameNumbers, SameAccount
    <2> HIDE DEF c, Fine
    <2> QED BY <1>0, <1>2, <2>1
  <1>4. ASSUME q.unacked # <<>> PROVE Fine(b)
    <2>1. Sound(G, x) /\ Fine(x)
      BY <1>2, <1>4, RexmitSound, RexmitSending
    <2> HIDE DEF x
    <2>2. Alike(x, b)
      <3> DOMAIN x = Fields
        BY <2>1 DEF Sound
      <3> QED BY FieldsAre, Zenon DEF Alike, SameInput, SameQueues, SameNumbers, SameAccount
    <2> HIDE DEF b, Fine
    <2> QED BY <1>0, <2>1, <2>2
  <1>5. Fine(DuplicateAck(p))
    <2> HIDE DEF c, b, Fine
    <2> QED BY <1>1, <1>2, <1>3, <1>4
  <1> QED BY <1>5

\* What leaves the queues is acknowledged.
LEMMA AckedSending ==
    ASSUME NEW e, NEW w \in Nat, NEW a, NEW n, NEW p, NEW q, Sending(e, w, a, n, p),
           NEW b \in a..n, q.lastack = At(e, b), q.snd_nxt = p.snd_nxt, q.snd_lbb = p.snd_lbb,
           q.snd_buf = SndBuf - (w - b), Apart(q), Held(q) \subseteq Held(p),
           \A seg \in Held(p) \ Held(q) : \A j \in DOMAIN seg.data : seg.data[j] <= b
    PROVE  Sending(e, w, b, n, q)
  <1>1. a \in 0..n /\ n \in 0..w /\ b \in 0..n /\ (b + 1)..w \subseteq (a + 1)..w
    BY DEF Sending
  <1>2. ASSUME NEW i \in (b + 1)..w PROVE \E seg \in Held(q) : i \in Range(seg.data)
    <2>1. PICK seg \in Held(p) : i \in Range(seg.data)
      BY <1>1 DEF Sending, Complete
    <2>2. seg \in Held(q)
      <3>1. PICK j \in DOMAIN seg.data : seg.data[j] = i
        BY <2>1 DEF Range
      <3>2. ~(i <= b)
        BY <1>1
      <3> QED BY <3>1, <3>2
    <2> QED BY <2>1, <2>2
  <1>3. Complete(e, w, b, Held(q))
    BY <1>2 DEF Sending, Complete
  <1> QED BY <1>1, <1>3 DEF Sending

\* The bytes of a segment that ends before the j-th byte
LEMMA EndsBefore ==
    ASSUME 2 * MaxBytes < Seq32, NEW e \in End, NEW w \in 0..MaxBytes, NEW seg, InPlace(e, w, seg),
           NEW j \in 0..w,
           SEQ_LEQ(SegEnd(seg), At(e, j)) \/ SEQ_GEQ(At(e, j), SegEnd(seg))
    PROVE  \A i \in DOMAIN seg.data : seg.data[i] <= j
  <1>1. PICK k \in 0..w : seg.seqno = At(e, k) /\ Line(seg.data, k) /\ k + Len(seg.data) <= w
    BY DEF InPlace
  <1>2. w \in Nat /\ w <= MaxBytes /\ MaxBytes \in Nat /\ j \in Int
    BY Constants
  <1>3. Len(seg.data) \in Nat /\ SegEnd(seg) = At(e, k + Len(seg.data))
    BY <1>1, <1>2, PlaceEnd
  <1> DEFINE l == k + Len(seg.data)
  <1>4. l \in Int /\ l - j <= MaxBytes /\ j - l <= MaxBytes /\ l - j <= MaxBytes + 1
        /\ j - l <= MaxBytes + 1
    <2>1. l \in 0..w
      BY <1>1, <1>2, <1>3
    <2> HIDE DEF l
    <2> QED BY <1>2, <2>1
  <1>5. l <= j
    <2> HIDE DEF l
    <2>1. SEQ_LEQ(At(e, l), At(e, j)) <=> l <= j
      BY <1>2, <1>4, AtCompare
    <2>2. SEQ_GEQ(At(e, j), At(e, l)) <=> j >= l
      BY <1>2, <1>4, AtCompare
    <2>3. SegEnd(seg) = At(e, l)
      BY <1>3 DEF l
    <2> QED BY <1>2, <1>4, <2>1, <2>2, <2>3
  <1>6. seg.data \in Seq(Nat) /\ DOMAIN seg.data = 1..Len(seg.data)
    BY <1>1, LenProperties DEF Line
  <1> QED BY <1>1, <1>2, <1>3, <1>5, <1>6 DEF Line

\* A list without its first members repeats none, and what has left it was
\* among those first.
LEMMA Skipped ==
    ASSUME NEW S, NEW s \in Seq(S), IsInjective(s), NEW T \in SUBSET (0..Len(s)), 0 \in T
    PROVE  LET r == SubSeq(s, Max(T) + 1, Len(s))
           IN  /\ r \in Seq(S) /\ IsInjective(r) /\ Range(r) \subseteq Range(s)
               /\ Max(T) \in T
               /\ \A x \in Range(s) \ Range(r) : \E i \in 1..Max(T) : x = s[i]
  <1> DEFINE n == Max(T)
             r == SubSeq(s, n + 1, Len(s))
             f == SubSeq(s, 1, n)
  <1>1. Len(s) \in Nat
    BY LenProperties
  <1>2. n \in 0..Len(s) /\ n \in T
    BY <1>1, GreatestIn
  <1> HIDE DEF n
  <1>3. f \in Seq(S) /\ r \in Seq(S) /\ f \o r = s
    BY <1>2, SplitAt
  <1>4. Len(f) = n /\ \A i \in 1..n : f[i] = s[i]
    <2>1. /\ Len(f) = IF 1 <= n THEN n - 1 + 1 ELSE 0
          /\ \A i \in 1..(n - 1 + 1) : f[i] = s[1 + i - 1]
      BY <1>1, <1>2, Piece
    <2> HIDE DEF f
    <2> QED BY <1>1, <1>2, <2>1
  <1> HIDE DEF f, r
  <1>5. IsInjective(r)
    <2>1. IsInjective(f \o r)
      BY <1>3
    <2> QED BY <1>3, <2>1, NoRepeats
  <1>6. Range(s) = Range(f) \cup Range(r)
    BY <1>3, RangeConcatenation, ZenonT(30)
  <1>7. ASSUME NEW x \in Range(f) PROVE \E i \in 1..n : x = s[i]
    <2>1. PICK i \in DOMAIN f : f[i] = x
      BY DEF Range
    <2>2. i \in 1..n
      BY <1>3, <1>4, <2>1, LenProperties
    <2> QED BY <1>4, <2>1, <2>2
  <1> QED BY <1>2, <1>3, <1>5, <1>6, <1>7 DEF r, n

\* An acknowledgment of new data
LEMMA NewAckSending ==
    ASSUME 2 * MaxBytes < Seq32, NEW G, NEW p, Sound(G, p),
           NEW e \in End, NEW w \in 0..MaxBytes, NEW a, NEW n, Sending(e, w, a, n, p),
           NEW j \in a..n
    PROVE  Sending(e, w, j, n, NewAck(p, At(e, j))) /\ NewAck(p, At(e, j)).out = p.out
  <1> DEFINE ackno == At(e, j)
             T == {k \in 0..Len(p.unacked) :
                      \A i \in 1..k : SEQ_LEQ(SegEnd(p.unacked[i]), ackno)}
             unacked == SubSeq(p.unacked, Max(T) + 1, Len(p.unacked))
             fast == IF p.infr THEN p.ssthresh ELSE p.cwnd
             snd_buf == p.snd_buf + ((ackno - p.lastack) % Seq32)
             cwnd == IF fast < p.ssthresh THEN Grown(fast, Mss)
                     ELSE Grown(fast, (Mss * Mss) \div fast)
             len == p.snd_queuelen - Freed(p.unacked, unacked)
             runs == unacked # <<>>
             q == [p EXCEPT !.infr = FALSE, !.nrtx = 0, !.dupacks = 0, !.lastack = ackno,
                            !.snd_buf = snd_buf, !.cwnd = cwnd, !.unacked = unacked,
                            !.snd_queuelen = len, !.rtime = runs]
  <1>1. NewAck(p, ackno) = q
    BY Zenon DEF NewAck, SkipWhile
  <1>2. /\ DOMAIN p = Fields /\ p.unacked \in Seq(Segs(G)) /\ Len(p.unacked) \in Nat
        /\ IsInjective(p.unacked)
    BY LenProperties DEF Sound, Queues, Sending, Apart
  <1>3. /\ unacked \in Seq(Segs(G)) /\ IsInjective(unacked) /\ Range(unacked) \subseteq Range(p.unacked)
        /\ \A seg \in Range(p.unacked) \ Range(unacked) : SEQ_LEQ(SegEnd(seg), ackno)
    <2>1. T \in SUBSET (0..Len(p.unacked)) /\ 0 \in T
      BY <1>2
    <2>2. \A m \in T : \A i \in 1..m : SEQ_LEQ(SegEnd(p.unacked[i]), ackno)
      OBVIOUS
    <2> DEFINE u == p.unacked
    <2>3. u \in Seq(Segs(G)) /\ IsInjective(u) /\ T \in SUBSET (0..Len(u))
      BY <1>2, <2>1
    <2> HIDE DEF T, ackno, q, u
    <2>4. LET r == SubSeq(u, Max(T) + 1, Len(u))
          IN  /\ r \in Seq(Segs(G)) /\ IsInjective(r) /\ Range(r) \subseteq Range(u)
              /\ Max(T) \in T
              /\ \A x \in Range(u) \ Range(r) : \E i \in 1..Max(T) : x = u[i]
      BY <2>1, <2>3, Skipped
    <2> QED BY <2>2, <2>4 DEF u
  <1>4. /\ q.out = p.out /\ q.unsent = p.unsent /\ q.unacked = unacked
        /\ q.snd_nxt = p.snd_nxt /\ q.snd_lbb = p.snd_lbb /\ q.lastack = ackno
        /\ q.snd_buf = snd_buf
    <2> HIDE DEF unacked, fast, snd_buf, cwnd, len, runs, ackno
    <2> QED BY <1>2, FieldsAre, Zenon
  <1>5. w \in Nat /\ w <= MaxBytes /\ MaxBytes \in Nat /\ a \in 0..n /\ n \in 0..w /\ j \in 0..w
    <2>1. a \in 0..n /\ n \in 0..w /\ MaxBytes \in Nat
      BY Constants DEF Sending
    <2> QED BY <2>1
  <1>6. snd_buf = SndBuf - (w - j)
    <2>1. p.lastack = At(e, a) /\ p.snd_buf = SndBuf - (w - a)
      BY DEF Sending
    <2>2. (ackno - p.lastack) % Seq32 = (j - a) % Seq32
      <3>1. j \in Int /\ a \in Int
        BY <1>5
      <3> HIDE DEF q
      <3> QED BY <2>1, <3>1, AtDistance
    <2>3. (j - a) % Seq32 = j - a
      <3>1. j - a \in Int /\ 0 <= j - a /\ j - a < Seq32 /\ Seq32 \in Nat \ {0}
        BY <1>5, Constants
      <3> QED BY <3>1, ModNear
    <2>4. snd_buf = (SndBuf - (w - a)) + (j - a)
      BY <2>1, <2>2, <2>3
    <2>5. SndBuf \in Int /\ w \in Int /\ a \in Int /\ j \in Int
      BY <1>5, Constants
    <2> HIDE DEF q, ackno, snd_buf
    <2> QED BY <2>4, <2>5
  <1> HIDE DEF q, unacked, snd_buf
  <1>7. Apart(q) /\ Held(q) \subseteq Held(p)
    BY <1>3, <1>4 DEF Sending, Apart, Held
  <1>8. ASSUME NEW seg \in Held(p) \ Held(q) PROVE \A i \in DOMAIN seg.data : seg.data[i] <= j
    <2>1. InPlace(e, w, seg)
      BY DEF Sending, Complete
    <2>2. seg \in Range(p.unacked) \ Range(unacked)
      BY <1>4 DEF Held
    <2>3. SEQ_LEQ(SegEnd(seg), At(e, j))
      BY <1>3, <2>2
    <2> QED BY <1>5, <2>1, <2>3, EndsBefore
  <1>9. Sending(e, w, j, n, q)
    <2>1. q.lastack = At(e, j) /\ q.snd_buf = SndBuf - (w - j)
      BY <1>4, <1>6
    <2> HIDE DEF ackno
    <2> QED BY <1>4, <1>5, <1>7, <1>8, <2>1, AckedSending
  <1> QED BY <1>1, <1>4, <1>9

\* Segments that wait for retransmission and have been acknowledged
LEMMA DropUnsentSending ==
    ASSUME 2 * MaxBytes < Seq32, NEW G, NEW p, Sound(G, p),
           NEW e \in End, NEW w \in 0..MaxBytes, NEW a, NEW n, Sending(e, w, a, n, p),
           NEW j \in 0..w, j <= n => j <= a
    PROVE  Sending(e, w, a, n, DropUnsent(p, At(e, j))) /\ DropUnsent(p, At(e, j)).out = p.out
  <1> DEFINE ackno == At(e, j)
             T == {k \in 0..Len(p.unsent) :
                      \A i \in 1..k : SEQ_BETWEEN(ackno, SegEnd(p.unsent[i]), p.snd_nxt)}
             unsent == SubSeq(p.unsent, Max(T) + 1, Len(p.unsent))
             len == p.snd_queuelen - Freed(p.unsent, unsent)
             q == [p EXCEPT !.unsent = unsent, !.snd_queuelen = len]
  <1>1. DropUnsent(p, ackno) = q
    BY Zenon DEF DropUnsent, SkipWhile
  <1>2. /\ DOMAIN p = Fields /\ p.unsent \in Seq(Segs(G)) /\ Len(p.unsent) \in Nat
        /\ IsInjective(p.unsent)
    BY LenProperties DEF Sound, Queues, Sending, Apart
  <1>3. /\ IsInjective(unsent) /\ Range(unsent) \subseteq Range(p.unsent)
        /\ \A seg \in Range(p.unsent) \ Range(unsent) : SEQ_BETWEEN(ackno, SegEnd(seg), p.snd_nxt)
    <2>1. T \in SUBSET (0..Len(p.unsent)) /\ 0 \in T
      BY <1>2
    <2>2. \A m \in T : \A i \in 1..m : SEQ_BETWEEN(ackno, SegEnd(p.unsent[i]), p.snd_nxt)
      OBVIOUS
    <2> DEFINE u == p.unsent
    <2>3. u \in Seq(Segs(G)) /\ IsInjective(u) /\ T \in SUBSET (0..Len(u))
      BY <1>2, <2>1
    <2> HIDE DEF T, ackno, q, u
    <2>4. LET r == SubSeq(u, Max(T) + 1, Len(u))
          IN  /\ r \in Seq(Segs(G)) /\ IsInjective(r) /\ Range(r) \subseteq Range(u)
              /\ Max(T) \in T
              /\ \A x \in Range(u) \ Range(r) : \E i \in 1..Max(T) : x = u[i]
      BY <2>1, <2>3, Skipped
    <2> QED BY <2>2, <2>4 DEF u
  <1>4. /\ q.out = p.out /\ q.unsent = unsent /\ q.unacked = p.unacked
        /\ q.snd_nxt = p.snd_nxt /\ SameAccount(p, q)
    <2> HIDE DEF unsent, len
    <2> QED BY <1>2, FieldsAre, Zenon DEF SameAccount
  <1> HIDE DEF q, unsent
  <1>5. w \in Nat /\ w <= MaxBytes /\ MaxBytes \in Nat /\ a \in 0..n /\ n \in 0..w
    <2>1. a \in 0..n /\ n \in 0..w /\ MaxBytes \in Nat
      BY Constants DEF Sending
    <2> QED BY <2>1
  <1>6. Apart(q) /\ Held(q) \subseteq Held(p)
    BY <1>3, <1>4 DEF Sending, Apart, Held
  <1>7. ASSUME NEW seg \in Held(p) \ Held(q) PROVE \A i \in DOMAIN seg.data : seg.data[i] <= a
    <2>1. InPlace(e, w, seg)
      BY DEF Sending, Complete
    <2>2. seg \in Range(p.unsent) \ Range(unsent)
      BY <1>4 DEF Held
    <2>3. SEQ_GEQ(At(e, j), SegEnd(seg)) /\ SEQ_LEQ(At(e, j), p.snd_nxt)
      BY <1>3, <2>2 DEF SEQ_BETWEEN
    <2>4. \A i \in DOMAIN seg.data : seg.data[i] <= j
      BY <1>5, <2>1, <2>3, EndsBefore
    <2>5. j <= a
      <3>1. p.snd_nxt = At(e, n)
        BY DEF Sending
      <3>2. j \in Int /\ n \in Int /\ n - j <= MaxBytes + 1 /\ j - n <= MaxBytes
        BY <1>5
      <3>3. SEQ_LEQ(At(e, j), At(e, n)) <=> j <= n
        BY <3>2, AtCompare
      <3> QED BY <2>3, <3>1, <3>3
    <2>6. seg.data \in Seq(Nat) /\ \A i \in DOMAIN seg.data : seg.data[i] \in Nat
      <3>1. seg.data \in Seq(Nat)
        BY <2>1 DEF InPlace, Line
      <3> QED BY <3>1, LenProperties, ElementOfSeq
    <2> QED BY <1>5, <2>4, <2>5, <2>6
  <1>8. Sending(e, w, a, n, q)
    <2>1. /\ q.lastack = At(e, a) /\ q.snd_lbb = p.snd_lbb /\ q.snd_buf = SndBuf - (w - a)
          /\ a \in a..n
      BY <1>4, <1>5 DEF Sending, SameAccount
    <2> QED BY <1>4, <1>5, <1>6, <1>7, <2>1, AckedSending
  <1> QED BY <1>1, <1>4, <1>8

-----------------------------------------------------------------------------
(* Input keeps the account                                                 *)

\* Data that are taken or not leave the sender alone.
LEMMA ReceiveDataSender ==
    ASSUME NEW p, DOMAIN p = Fields, NEW s
    PROVE  LET q == ReceiveData(p, s) IN SameSender(p, q) /\ q.out = p.out
  <1> DEFINE trims == SEQ_BETWEEN(p.rcv_nxt, Plus(s.seqno, 1), Plus(s.seqno, TCPLEN(s) - 1))
             off == (p.rcv_nxt - s.seqno) % Seq32
             seqno == IF trims THEN p.rcv_nxt ELSE s.seqno
             data == IF trims THEN SubSeq(s.data, off + 1, TCPLEN(s)) ELSE s.data
             taken == SubSeq(data, 1, Min({Len(data), p.rcv_wnd}))
             nxt == Plus(p.rcv_nxt, Len(taken))
             wnd == p.rcv_wnd - Len(taken)
             m == [p EXCEPT !.rcv_nxt = nxt, !.rcv_wnd = wnd, !.recv_data = taken]
             u == tcp_update_rcv_ann_wnd(m)
             a == tcp_ack(u)
             i == tcp_ack_now(p)
  <1>1. ReceiveData(p, s) = IF InWindow(p, seqno) /\ seqno = p.rcv_nxt THEN a ELSE i
    BY Zenon DEF ReceiveData, Accept
  <1>2. DOMAIN m = Fields /\ SameSender(p, m) /\ m.out = p.out
    <2> HIDE DEF nxt, wnd, taken
    <2> QED BY FieldsAre, Zenon DEF SameSender, SameQueues, SameAccount
  <1> HIDE DEF m
  <1>3. Keeps(m, u) /\ DOMAIN u = Fields
    BY <1>2, WindowKeeps
  <1> HIDE DEF u
  <1>4. Keeps(u, a)
    BY <1>3, WindowKeeps
  <1>5. Keeps(p, i)
    BY WindowKeeps
  <1> HIDE DEF a, i, seqno
  <1>6. SameSender(p, a) /\ a.out = p.out
    BY <1>2, <1>3, <1>4 DEF Keeps, SameSender, SameQueues, SameAccount
  <1> QED BY <1>1, <1>5, <1>6 DEF Keeps

\* A segment that acknowledges one of the numbers that were written
LEMMA TcpReceiveSending ==
    ASSUME 2 * MaxBytes < Seq32, NEW G, NEW p, Sound(G, p),
           NEW e \in End, NEW w \in 0..MaxBytes, NEW a, NEW n, Sending(e, w, a, n, p),
           NEW s, NEW j \in 0..w, s.ackno = At(e, j)
    PROVE  LET q == tcp_receive(p, s) IN q.out = p.out /\ \E b : Sending(e, w, b, n, q)
  <1> DEFINE u == UpdateWindow(p, s)
             repeats == Plus(u.snd_wl2, u.snd_wnd) = Plus(p.snd_wl2, p.snd_wnd)
             dup == DuplicateAck(u)
             new == NewAck(u, s.ackno)
             x == IF p.lastack = s.ackno THEN IF repeats THEN dup ELSE u
                  ELSE IF SEQ_BETWEEN(s.ackno, Plus(p.lastack, 1), p.snd_nxt) THEN new ELSE u
             d == DropUnsent(x, s.ackno)
             now == tcp_ack_now(d)
             r == ReceiveData(d, s)
             Fine(y, b) == Sound(G, y) /\ y.out = p.out /\ Sending(e, w, b, n, y)
  <1>1. tcp_receive(p, s) = IF s.data # <<>> THEN r ELSE IF InWindow(d, s.seqno) THEN d ELSE now
    BY Zenon DEF tcp_receive
  <1>2. /\ w \in Nat /\ w <= MaxBytes /\ MaxBytes \in Nat /\ a \in 0..n /\ n \in 0..w
        /\ j \in Int /\ a \in Int /\ n \in Int /\ s.ackno \in Int
    <2>1. a \in 0..n /\ n \in 0..w /\ MaxBytes \in Nat
      BY Constants DEF Sending
    <2>2. w \in Nat /\ w <= MaxBytes /\ j \in Int /\ n \in Int
      BY <2>1
    <2>3. At(e, j) \in Int
      BY <2>2, PlusIn, Constants DEF At
    <2> QED BY <2>1, <2>2, <2>3
  <1>3. p.lastack = At(e, a) /\ p.snd_nxt = At(e, n)
    BY DEF Sending
  <1>4. Fine(u, a)
    <2>1. Keeps(p, u)
      BY WindowKeeps DEF Sound
    <2> QED BY <2>1, UpdateWindowSound, SameSending DEF Keeps
  <1> HIDE DEF u
  <1>5. Fine(dup, a)
    BY <1>4, DuplicateAckSound, DuplicateAckSending
  <1>6. ASSUME j \in a..n PROVE Fine(new, j)
    <2>1. Sound(G, new)
      BY <1>2, <1>4, NewAckSound
    <2>2. Sending(e, w, j, n, NewAck(u, At(e, j))) /\ NewAck(u, At(e, j)).out = u.out
      BY <1>4, <1>6, NewAckSending
    <2> QED BY <1>4, <2>1, <2>2
  <1>7. /\ p.lastack = s.ackno <=> a = j
        /\ SEQ_BETWEEN(s.ackno, Plus(p.lastack, 1), p.snd_nxt) <=> a + 1 <= j /\ j <= n
    <2>1. At(e, a) = At(e, j) <=> a = j
      <3>1. a - j <= MaxBytes /\ j - a <= MaxBytes + 1
        BY <1>2
      <3> QED BY <1>2, <3>1, AtCompare
    <2>2. SEQ_LEQ(At(e, j), At(e, n)) <=> j <= n
      <3>1. j - n <= MaxBytes /\ n - j <= MaxBytes + 1
        BY <1>2
      <3> QED BY <1>2, <3>1, AtCompare
    <2> DEFINE b == a + 1
    <2>3. SEQ_GEQ(At(e, j), At(e, b)) <=> j >= b
      <3>1. j - b <= MaxBytes /\ b - j <= MaxBytes + 1 /\ b \in Int
        BY <1>2
      <3> HIDE DEF b
      <3> QED BY <1>2, <3>1, AtCompare
    <2>4. Plus(At(e, a), 1) = At(e, b)
      <3>1. Iss[e] \in Int /\ a \in Int /\ 1 \in Int
        BY <1>2, Constants
      <3>2. Plus(Plus(Iss[e], a), 1) = Plus(Iss[e], a + 1)
        BY <3>1, PlusPlus
      <3> QED BY <3>2 DEF At
    <2> HIDE DEF b
    <2>5. j >= b <=> b <= j
      BY <1>2 DEF b
    <2> QED BY <1>3, <2>1, <2>2, <2>3, <2>4, <2>5 DEF SEQ_BETWEEN, b
  <1> HIDE DEF dup, new, repeats, Fine
  <1>8. \E b \in 0..w : Fine(x, b) /\ (j <= n => j <= b)
    <2>1. CASE p.lastack = s.ackno
      BY <1>2, <1>4, <1>5, <1>7, <2>1
    <2>2. CASE /\ p.lastack # s.ackno
               /\ SEQ_BETWEEN(s.ackno, Plus(p.lastack, 1), p.snd_nxt)
      <3>1. j \in a..n /\ x = new
        BY <1>2, <1>7, <2>2
      <3> HIDE DEF x
      <3> QED BY <1>2, <1>6, <3>1
    <2>3. CASE /\ p.lastack # s.ackno
               /\ ~SEQ_BETWEEN(s.ackno, Plus(p.lastack, 1), p.snd_nxt)
      <3>1. (j <= n => j <= a) /\ x = u
        BY <1>2, <1>7, <2>3
      <3> HIDE DEF x
      <3> QED BY <1>2, <1>4, <3>1
    <2> QED BY <2>1, <2>2, <2>3
  <1> HIDE DEF x
  <1>9. PICK b \in 0..w : Fine(x, b) /\ (j <= n => j <= b)
    BY <1>8
  <1>10. Fine(d, b)
    <2>1. Sound(G, x) /\ x.out = p.out /\ Sending(e, w, b, n, x)
      BY <1>9 DEF Fine
    <2>2. Sending(e, w, b, n, DropUnsent(x, At(e, j))) /\ DropUnsent(x, At(e, j)).out = x.out
      BY <1>9, <2>1, DropUnsentSending
    <2>3. Sound(G, d)
      BY <2>1, DropUnsentSound
    <2> QED BY <2>1, <2>2, <2>3 DEF Fine
  <1> HIDE DEF d
  <1>11. DOMAIN d = Fields /\ d.out = p.out /\ Sending(e, w, b, n, d)
    BY <1>10 DEF Fine, Sound
  <1>12. Sending(e, w, b, n, now) /\ now.out = p.out
    BY <1>11, WindowKeeps, SameSending DEF Keeps
  <1>13. Sending(e, w, b, n, r) /\ r.out = p.out
    BY <1>11, ReceiveDataSender, SameSending
  <1> HIDE DEF now, r
  <1> QED BY <1>1, <1>11, <1>12, <1>13

\* The end of a connection ends the account.
LEMMA PurgedRight ==
    ASSUME NEW p, DOMAIN p = Fields, NEW e, NEW w, NEW K, Right(e, w, K, p)
    PROVE  Right(e, w, K, Purged(p))
  <1> DEFINE none == <<>>
             closed == "CLOSED"
             q == [p EXCEPT !.state = closed, !.unsent = none, !.unacked = none,
                            !.refused_data = none]
  <1>1. Purged(p) = q
    BY Zenon DEF Purged
  <1>2. q.out = p.out /\ q.state = closed /\ q.rcv_nxt = p.rcv_nxt
    <2> HIDE DEF none, closed
    <2> QED BY FieldsAre, Zenon
  <1>3. closed # "ESTABLISHED"
    OBVIOUS
  <1> HIDE DEF q, closed
  <1> QED BY <1>1, <1>2, <1>3 DEF Right

\* The receive callback may open the window, and tcp_recved may send.
LEMMA EventRight ==
    ASSUME 2 * MaxBytes < Seq32, NEW G, Pieces(G), NEW p, Sound(G, p),
           NEW e \in End, NEW w \in 0..MaxBytes, NEW K, Right(e, w, K, p),
           NEW data, data \in Seq(Nat), NEW take \in {"now", "later", "refuse"}, NEW mem
    PROVE  Right(e, w, K, TCP_EVENT_RECV(p, data, take, mem))
  <1> DEFINE none == <<>>
             given == p.given \o data
             g == [p EXCEPT !.refused_data = none, !.given = given]
             refused == [p EXCEPT !.refused_data = data]
             owed == g.owed + Len(data)
             later == [g EXCEPT !.owed = owed]
             now == tcp_recved(g, Len(data), mem)
             q == TCP_EVENT_RECV(p, data, take, mem)
  <1>1. /\ data = <<>> => q = p
        /\ data # <<>> /\ take = "refuse" => q = refused
        /\ data # <<>> /\ take = "later" => q = later
        /\ data # <<>> /\ take = "now" => q = now
    BY Zenon DEF TCP_EVENT_RECV
  <1>2. DOMAIN p = Fields /\ Len(data) \in Int
    BY LenProperties DEF Sound
  <1>3. DOMAIN g = Fields /\ Keeps(p, g) /\ SameNumbers(p, g) /\ g.owed = p.owed
    <2> HIDE DEF none, given
    <2> QED BY <1>2, FieldsAre, Zenon DEF Keeps, SameSender, SameQueues, SameNumbers, SameAccount
  <1>4. Keeps(p, refused)
    BY <1>2, FieldsAre, Zenon DEF Keeps, SameSender, SameQueues, SameAccount
  <1> HIDE DEF g
  <1>5. Keeps(g, later)
    <2> HIDE DEF owed
    <2> QED BY <1>3, FieldsAre, Zenon DEF Keeps, SameSender, SameQueues, SameAccount
  <1>6. Sound(G, g)
    BY <1>3 DEF Sound, Numbers, Queues, Keeps, SameSender, SameQueues, SameNumbers, SameAccount
  <1>7. Right(e, w, K, g)
    BY <1>3, KeepsRight
  <1>8. Right(e, w, K, now)
    BY <1>2, <1>6, <1>7, RecvedRight
  <1>9. Right(e, w, K, refused) /\ Right(e, w, K, later)
    BY <1>4, <1>5, <1>7, KeepsRight
  <1> HIDE DEF q, now, later, refused
  <1>10. Right(e, w, K, q)
    BY <1>1, <1>8, <1>9
  <1> QED BY <1>10 DEF q

\* A segment taken leaves the block right.
LEMMA TakenRight ==
    ASSUME NEW e, NEW w, NEW K, NEW p, NEW q, Acknowledges(K, p.out), q.out = p.out,
           q.rcv_nxt \in K, NEW n, \E b : Sending(e, w, b, n, q)
    PROVE  Right(e, w, K, q)
  BY DEF Right

\* A segment, a reset or not
LEMMA ProcessRight ==
    ASSUME 2 * MaxBytes < Seq32, NEW G, NEW p, Sound(G, p), p.state = "ESTABLISHED",
           p.refused_data = <<>>,
           NEW f \in End, NEW v \in Nat, v < Seq32, NEW k \in Nat, Heard(f, k, v, p),
           NEW s \in Packets(BytesOf(f, v)),
           NEW e \in End, NEW w \in 0..MaxBytes, Right(e, w, Marks(f, v), p),
           s.rst \/ s.ackno \in Marks(e, w)
    PROVE  Right(e, w, Marks(f, v), tcp_process(p, s))
  <1> DEFINE r == tcp_receive(p, s)
             c == Purged(p)
             m == k + Len(p.given)
             none == <<>>
             K == Marks(f, v)
             q == tcp_process(p, s)
  <1>0. p.rcv_nxt \in K /\ Acknowledges(K, p.out)
    BY DEF Right
  <1>1. q \in {c, p} \/ (~s.rst /\ q = r)
    BY Zenon DEF tcp_process
  <1>2. Right(e, w, K, c)
    BY PurgedRight DEF Sound
  <1>3. m \in 0..v /\ p.rcv_nxt = Plus(Iss[f], m)
    <2>1. p.refused_data = none /\ Len(none) = 0
      BY EmptyLine
    <2>2. /\ Len(p.given) \in Nat /\ k + Len(p.given) + 0 <= v
          /\ p.rcv_nxt = Plus(Iss[f], k + Len(p.given) + 0)
      <3> HIDE DEF none
      <3> QED BY <2>1, LenProperties DEF Heard, Pending, Line
    <2>3. k + Len(p.given) + 0 = m
      BY <2>2
    <2> QED BY <2>2, <2>3
  <1>4. ASSUME ~s.rst PROVE Right(e, w, K, r)
    <2>1. PICK j \in 0..w : s.ackno = At(e, j)
      BY <1>4 DEF Marks
    <2>2. PICK a, n : Sending(e, w, a, n, p)
      BY DEF Right
    <2>3. r.out = p.out /\ \E b : Sending(e, w, b, n, r)
      <3> HIDE DEF r, K, m
      <3> QED BY <2>1, <2>2, TcpReceiveSending DEF r
    <2>4. Receives(p, r, m, v)
      <3> HIDE DEF r, c, m
      <3> QED BY <1>3, TcpReceiveSound DEF r
    <2> HIDE DEF r
    <2>5. CASE SameInput(p, r)
      <3> HIDE DEF K, m
      <3>3. r.rcv_nxt = p.rcv_nxt
        BY <2>5 DEF SameInput
      <3> QED BY <1>0, <2>3, <3>3, TakenRight
    <2>6. ASSUME NEW data, Took(p, r, data), Line(data, m), m + Len(data) <= v
          PROVE  Right(e, w, K, r)
      <3> HIDE DEF m
      <3>1. Len(data) \in Nat /\ m + Len(data) \in 0..v
        <4>1. Len(data) \in Nat
          BY <2>6, LenProperties DEF Line
        <4> QED BY <1>3, <2>6, <4>1
      <3>2. r.rcv_nxt = At(f, m + Len(data))
        <4>1. m \in Int /\ Iss[f] \in Int /\ Len(data) \in Int
          BY <1>3, <3>1, Constants
        <4>2. r.rcv_nxt = Plus(Plus(Iss[f], m), Len(data))
          BY <1>3, <2>6 DEF Took
        <4> QED BY <4>1, <4>2, PlusPlus DEF At
      <3>3. r.rcv_nxt \in K
        BY <3>1, <3>2 DEF Marks
      <3> HIDE DEF K
      <3> QED BY <1>0, <2>3, <3>3, TakenRight
    <2> QED BY <2>4, <2>5, <2>6 DEF Receives
  <1> HIDE DEF q, r, c
  <1> QED BY <1>1, <1>2, <1>4 DEF q

\* A segment of the peer, whatever it carries and whatever the callback answers
LEMMA InputRight ==
    ASSUME 2 * MaxBytes < Seq32, NEW G, Pieces(G), NEW p, Sound(G, p), p.state = "ESTABLISHED",
           p.recv_data = <<>>,
           NEW f \in End, NEW v \in Nat, v < Seq32, NEW k \in Nat, Heard(f, k, v, p),
           NEW s \in Packets(BytesOf(f, v)),
           NEW again \in {"now", "later", "refuse"}, NEW take \in {"now", "later", "refuse"},
           NEW mem,
           NEW e \in End, NEW w \in 0..MaxBytes, Right(e, w, Marks(f, v), p),
           s.rst \/ s.ackno \in Marks(e, w)
    PROVE  Right(e, w, Marks(f, v), Input(p, s, again, take, mem))
  <1> DEFINE none == <<>>
             kept == p.refused_data # none
             old == p.refused_data
             p1 == TCP_EVENT_RECV(p, old, again, mem)
             p2 == tcp_process(p1, s)
             new == p2.recv_data
             p3 == TCP_EVENT_RECV(p2, new, take, mem)
             o == tcp_output(p3, mem)
             K == Marks(f, v)
  <1>1. Input(p, s, again, take, mem) =
          IF kept /\ again = "refuse" THEN p
          ELSE IF p2.state = "CLOSED" \/ p3.refused_data # none THEN p3 ELSE o
    BY Zenon DEF Input
  <1>2. /\ Sound(G, p1) /\ Heard(f, k, v, p1) /\ p1.state = p.state /\ p1.recv_data = p.recv_data
        /\ ~kept \/ again # "refuse" => p1.refused_data = none
        /\ Right(e, w, K, p1)
    <2>1. Pending(f, k, v, p, old) /\ old \in Seq(Nat)
      BY DEF Heard, Pending, Line
    <2> HIDE DEF old, p2, p3, o, K
    <2>2. Sound(G, p1) /\ Heard(f, k, v, p1) /\ Answered(p, p1, old, again)
      BY <2>1, EventSound
    <2>3. Right(e, w, K, p1)
      BY <2>1, EventRight DEF K
    <2> HIDE DEF p1
    <2> QED BY <2>2, <2>3 DEF Answered, old
  <1> HIDE DEF p1
  <1>3. ASSUME ~kept \/ again # "refuse" PROVE Right(e, w, K, p3) /\ Right(e, w, K, o)
    <2>1. p1.state = "ESTABLISHED" /\ p1.state # "CLOSED" /\ p1.recv_data = <<>> /\ p1.refused_data = <<>>
      BY <1>2, <1>3
    <2>2. Sound(G, p2) /\ Pending(f, k, v, p2, new)
      <3> HIDE DEF p3, o, none
      <3> QED BY <1>2, <2>1, ProcessSound
    <2>3. Right(e, w, K, p2)
      <3> HIDE DEF p3, o, none
      <3> QED BY <1>2, <2>1, ProcessRight
    <2> HIDE DEF p2, o, K
    <2>4. new \in Seq(Nat)
      BY <2>2 DEF Pending, Line
    <2> HIDE DEF new
    <2>5. Sound(G, p3) /\ Right(e, w, K, p3)
      <3> HIDE DEF none
      <3> QED BY <2>2, <2>3, <2>4, EventSound, EventRight
    <2> HIDE DEF p3
    <2>6. Right(e, w, K, o)
      BY <2>5, OutputRight DEF o
    <2> QED BY <2>5, <2>6
  <1> HIDE DEF p2, p3, o, kept
  <1> QED BY <1>1, <1>3

\* The slow timer
LEMMA SlowRight ==
    ASSUME 2 * MaxBytes < Seq32, NEW G, Pieces(G), FirstBytes(G), NEW p, Sound(G, p),
           NEW e \in End, NEW w \in 0..MaxBytes, NEW K, Right(e, w, K, p), NEW due, NEW mem
    PROVE  Right(e, w, K, tcp_slowtmr(p, due, mem))
  <1> DEFINE half == Min({p.cwnd, p.snd_wnd}) \div 2
             ssthresh == IF half < Mss THEN 2 * Mss ELSE half
             cut == [p EXCEPT !.ssthresh = ssthresh, !.cwnd = Mss]
             probe == tcp_zero_window_probe(p, mem)
             rto == tcp_rexmit_rto(cut, mem)
             q == IF p.persist THEN IF due THEN probe ELSE p
                  ELSE IF p.rtime /\ due /\ p.unacked # <<>> THEN rto
                  ELSE p
             o == tcp_output(q, mem)
             Fine(x) == Sound(G, x) /\ Right(e, w, K, x)
  <1>1. tcp_slowtmr(p, due, mem) = IF p.nrtx = MaxRtx THEN Purged(p) ELSE o
    BY Zenon DEF tcp_slowtmr
  <1>2. Fine(probe)
    BY ProbeSound, ProbeRight
  <1>3. Fine(cut)
    <2>1. Alike(p, cut)
      <3> DOMAIN p = Fields
        BY DEF Sound
      <3> HIDE DEF ssthresh
      <3> QED BY FieldsAre, Zenon DEF Alike, SameInput, SameQueues, SameNumbers, SameAccount
    <2> HIDE DEF cut
    <2> QED BY <2>1, AlikeSound, AlikeKeeps, KeepsRight
  <1> HIDE DEF cut
  <1>4. Fine(rto)
    BY <1>3, RtoSound, RtoRight
  <1> HIDE DEF probe, rto
  <1>5. Fine(q)
    BY <1>2, <1>3, <1>4
  <1> HIDE DEF q
  <1>6. Right(e, w, K, o)
    BY <1>5, OutputRight
  <1>7. Right(e, w, K, Purged(p))
    BY PurgedRight DEF Sound
  <1> HIDE DEF o
  <1> QED BY <1>1, <1>6, <1>7

\* Both timers, with the callback for what was refused
LEMMA TickRight ==
    ASSUME 2 * MaxBytes < Seq32, NEW G, Pieces(G), FirstBytes(G), NEW p, Sound(G, p),
           NEW f \in End, NEW v \in Nat, NEW k \in Nat, Heard(f, k, v, p),
           NEW again \in {"now", "later", "refuse"}, NEW slow, NEW due, NEW mem,
           NEW e \in End, NEW w \in 0..MaxBytes, NEW K, Right(e, w, K, p)
    PROVE  Right(e, w, K, Tick(p, slow, due, again, mem))
  <1> DEFINE old == p.refused_data
             p1 == TCP_EVENT_RECV(p, old, again, mem)
             fast == DelayedAck(p1, mem)
             q == tcp_slowtmr(fast, due, mem)
             a == tcp_ack_now(p1)
             o == tcp_output(a, mem)
             x == [o EXCEPT !.ack_delay = FALSE, !.ack_now = FALSE]
  <1>1. Tick(p, slow, due, again, mem) = IF slow THEN q ELSE fast
    BY Zenon DEF Tick
  <1>2. Sound(G, p1) /\ Right(e, w, K, p1) /\ DOMAIN p1 = Fields
    <2>1. Pending(f, k, v, p, old) /\ old \in Seq(Nat)
      BY DEF Heard, Pending, Line
    <2> HIDE DEF fast, q, old, a, o, x
    <2>2. Sound(G, p1)
      BY <2>1, EventSound
    <2>3. Right(e, w, K, p1)
      BY <2>1, EventRight
    <2> QED BY <2>2, <2>3 DEF Sound
  <1> HIDE DEF p1
  <1>3. Sound(G, a) /\ Right(e, w, K, a)
    BY <1>2, AckSound, WindowKeeps, KeepsRight
  <1> HIDE DEF a
  <1>4. Sound(G, o) /\ Right(e, w, K, o) /\ DOMAIN o = Fields
    BY <1>3, OutputSound, OutputRight DEF Sound
  <1>5. fast = IF p1.ack_delay THEN x ELSE p1
    BY Zenon DEF DelayedAck, a
  <1> HIDE DEF o
  <1>6. Right(e, w, K, x)
    <2>1. Alike(o, x)
      BY <1>4, FieldsAre, Zenon DEF Alike, SameInput, SameQueues, SameNumbers, SameAccount
    <2> HIDE DEF x
    <2> QED BY <1>4, <2>1, AlikeKeeps, KeepsRight
  <1>7. Sound(G, fast)
    BY <1>2, DelayedSound
  <1> HIDE DEF fast, x
  <1>8. Right(e, w, K, fast)
    BY <1>2, <1>5, <1>6
  <1>9. Right(e, w, K, q)
    BY <1>7, <1>8, SlowRight
  <1> QED BY <1>1, <1>8, <1>9

\* The answer to a segment for a closed connection acknowledges nothing.
LEMMA RefuseRight ==
    ASSUME NEW p, DOMAIN p = Fields, NEW e, NEW w, NEW K, Right(e, w, K, p), NEW s, NEW mem
    PROVE  Right(e, w, K, Refuse(p, s, mem)) \/ p.state = "ESTABLISHED"
  <1> DEFINE none == <<>>
             rst == [rst |-> TRUE, seqno |-> s.ackno, data |-> none, ackno |-> SegEnd(s), wnd |-> Wnd]
             out == <<rst>>
             q == [p EXCEPT !.out = out]
  <1>1. Refuse(p, s, mem) = IF s.rst \/ ~mem THEN p ELSE q
    BY Zenon DEF Refuse
  <1>2. q.out = out /\ q.state = p.state /\ q.rcv_nxt = p.rcv_nxt
    <2> HIDE DEF out
    <2> QED BY FieldsAre, Zenon
  <1>3. Acknowledges(K, out)
    <2>1. rst.rst
      OBVIOUS
    <2> HIDE DEF rst
    <2>2. Range(out) = {rst}
      <3>1. \A x : Range(<<x>>) = {x}
        BY OneMember
      <3> QED BY <3>1
    <2> QED BY <2>1, <2>2 DEF Acknowledges
  <1> HIDE DEF q, out
  <1> QED BY <1>1, <1>2, <1>3 DEF Right

-----------------------------------------------------------------------------
(* What a write adds                                                       *)

\* Multiples grow with the factor.
LEMMA Multiples ==
    ASSUME NEW m \in Nat, NEW x \in Int, NEW y \in Int, x <= y
    PROVE  x * m \in Int /\ y * m \in Int /\ x * m <= y * m
  <1>1. (y - x) * m >= 0
    OBVIOUS
  <1>2. (y - x) * m = y * m - x * m
    OBVIOUS
  <1> QED BY <1>1, <1>2

\* A write of len bytes is cut into (len + m - 1) \div m parts of m bytes and
\* what is left: none of them is empty, and each byte is in one.
LEMMA CutInParts ==
    ASSUME NEW len \in Nat \ {0}, NEW m \in Nat \ {0}
    PROVE  LET n == (len + m - 1) \div m
           IN  /\ n \in Nat
               /\ \A i \in 1..n : (i - 1) * m \in Nat /\ i * m = (i - 1) * m + m /\ (i - 1) * m < len
               /\ \A j \in 1..len : \E i \in 1..n : (i - 1) * m < j /\ j <= i * m
  <1> DEFINE b == len + m - 1
             n == b \div m
             r == b % m
  <1>0. b \in Int
    OBVIOUS
  <1>1. n \in Int /\ r \in 0..(m - 1) /\ b = m * n + r /\ b \in Int
    <2> HIDE DEF b
    <2> QED BY <1>0, DivMod
  <1> HIDE DEF n, r
  <1>2. n * m = m * n /\ n * m \in Int /\ len <= n * m /\ n * m <= len + m - 1
    BY <1>1
  <1>3. \A x, y \in Int : x <= y => x * m <= y * m /\ x * m \in Int /\ y * m \in Int
    BY Multiples
  <1>4. n >= 0
    <2>1. ASSUME n <= 0 PROVE FALSE
      <3>1. n * m <= 0 * m
        BY <1>1, <1>3, <2>1
      <3> QED BY <1>2, <3>1
    <2> QED BY <1>1, <2>1
  <1>5. ASSUME NEW i \in 1..n
        PROVE  (i - 1) * m \in Nat /\ i * m = (i - 1) * m + m /\ (i - 1) * m < len
    <2>1. i \in Int /\ 0 <= i - 1 /\ i <= n
      BY <1>1, <1>5
    <2>2. (i - 1) * m >= 0 * m /\ i * m <= n * m /\ (i - 1) * m \in Int
      BY <1>1, <1>3, <2>1
    <2>3. i * m = (i - 1) * m + m
      BY <2>1
    <2> QED BY <1>2, <2>2, <2>3
  <1>6. ASSUME NEW j \in 1..len PROVE \E i \in 1..n : (i - 1) * m < j /\ j <= i * m
    <2> DEFINE c == j - 1
               x == c \div m
               y == c % m
    <2>0. c \in Int /\ c \in Nat
      OBVIOUS
    <2>1. x \in Int /\ y \in 0..(m - 1) /\ c = m * x + y /\ c \in Nat
      <3> HIDE DEF c
      <3> QED BY <2>0, DivMod
    <2> HIDE DEF x, y
    <2>2. x * m = m * x /\ x * m \in Int /\ x * m <= j - 1 /\ j <= x * m + m
      BY <2>1
    <2>3. x < n
      <3>1. ASSUME n <= x PROVE FALSE
        <4>1. n * m <= x * m
          BY <1>1, <1>3, <2>1, <3>1
        <4> QED BY <1>2, <2>2, <4>1
      <3> QED BY <1>1, <2>1, <3>1
    <2>4. x >= 0
      <3>1. ASSUME x <= -1 PROVE FALSE
        <4>1. x * m <= (-1) * m
          BY <1>3, <2>1, <3>1
        <4> QED BY <2>1, <2>2, <4>1
      <3> QED BY <2>1, <3>1
    <2>5. x + 1 \in 1..n
      BY <1>1, <2>1, <2>3, <2>4
    <2> WITNESS x + 1 \in 1..n
    <2>6. (x + 1) * m = x * m + m /\ (x + 1) - 1 = x
      BY <2>1
    <2>7. ((x + 1) - 1) * m = x * m
      BY <2>6
    <2> QED BY <2>1, <2>2, <2>6, <2>7
  <1> QED BY <1>1, <1>4, <1>5, <1>6 DEF n

\* The bytes of a segment in its place are among the first w.
LEMMA InPlaceBytes ==
    ASSUME NEW e, NEW w \in Nat, NEW seg, InPlace(e, w, seg)
    PROVE  /\ Range(seg.data) \subseteq 1..w /\ Range(seg.data) # {}
           /\ \A u \in Nat : w <= u => InPlace(e, u, seg)
  <1>1. PICK k \in 0..w : /\ seg.seqno = At(e, k) /\ Line(seg.data, k)
                          /\ Len(seg.data) \in 1..Mss /\ k + Len(seg.data) <= w
    BY DEF InPlace
  <1>2. /\ DOMAIN seg.data = 1..Len(seg.data) /\ Len(seg.data) \in Nat
        /\ \A i \in DOMAIN seg.data : seg.data[i] = k + i
    BY <1>1, LenProperties DEF Line
  <1>3. \A i \in DOMAIN seg.data : seg.data[i] \in 1..w
    BY <1>1, <1>2
  <1>4. seg.data[1] \in Range(seg.data)
    <2>1. 1 \in DOMAIN seg.data
      BY <1>1, <1>2
    <2> QED BY <2>1 DEF Range
  <1>5. ASSUME NEW u \in Nat, w <= u PROVE InPlace(e, u, seg)
    <2>1. k \in 0..u /\ k + Len(seg.data) <= u
      BY <1>1, <1>2, <1>5
    <2> QED BY <1>1, <2>1 DEF InPlace
  <1> QED BY <1>3, <1>4, <1>5 DEF Range

\* Segments with the bytes behind the w-th, up to the u-th, each once
Fresh(e, w, u, Q) ==
    /\ \A seg \in Q : InPlace(e, u, seg) /\ \A b \in Range(seg.data) : b > w
    /\ \A s, t \in Q : s # t => Range(s.data) \cap Range(t.data) = {}
    /\ \A b \in (w + 1)..u : \E seg \in Q : b \in Range(seg.data)

\* A list of segments, each with its own bytes
LEMMA FreshList ==
    ASSUME NEW e, NEW w, NEW u, NEW queue, NEW n, DOMAIN queue = 1..n,
           \A i \in 1..n : /\ InPlace(e, u, queue[i]) /\ Range(queue[i].data) # {}
                           /\ \A b \in Range(queue[i].data) : b > w,
           \A i, j \in 1..n : i # j => Range(queue[i].data) \cap Range(queue[j].data) = {},
           \A b \in (w + 1)..u : \E i \in 1..n : b \in Range(queue[i].data)
    PROVE  Fresh(e, w, u, Range(queue)) /\ IsInjective(queue)
  <1>1. \A seg : seg \in Range(queue) <=> \E i \in 1..n : seg = queue[i]
    BY DEF Range
  <1>2. ASSUME NEW seg \in Range(queue)
        PROVE  InPlace(e, u, seg) /\ \A b \in Range(seg.data) : b > w
    <2>1. PICK i \in 1..n : seg = queue[i]
      BY <1>1
    <2> QED BY <2>1
  <1>3. ASSUME NEW s \in Range(queue), NEW t \in Range(queue), s # t
        PROVE  Range(s.data) \cap Range(t.data) = {}
    <2>1. PICK i \in 1..n : s = queue[i]
      BY <1>1
    <2>2. PICK j \in 1..n : t = queue[j]
      BY <1>1
    <2>3. Range(queue[i].data) \cap Range(queue[j].data) = {}
      BY <1>3, <2>1, <2>2
    <2> QED BY <2>1, <2>2, <2>3
  <1>4. \A b \in (w + 1)..u : \E seg \in Range(queue) : b \in Range(seg.data)
    BY <1>1, Zenon
  <1>5. \A i, j \in DOMAIN queue : queue[i] = queue[j] => i = j
    <2> SUFFICES ASSUME NEW i \in DOMAIN queue, NEW j \in DOMAIN queue,
                        queue[i] = queue[j], i # j
                 PROVE  FALSE
      OBVIOUS
    <2>1. Range(queue[i].data) \cap Range(queue[j].data) = {} /\ Range(queue[i].data) # {}
      OBVIOUS
    <2>2. Range(queue[i].data) = Range(queue[j].data)
      BY Zenon
    <2> QED BY <2>1, <2>2
  <1> QED BY <1>2, <1>3, <1>4, <1>5 DEF Fresh, IsInjective

\* The segments tcp_enqueue makes of a write
Parts(lbb, data, pbufs) ==
    [i \in 1..((Len(data) + Mss - 1) \div Mss) |->
        [seqno |-> Plus(lbb, (i - 1) * Mss), pbufs |-> pbufs,
         data |-> SubSeq(data, (i - 1) * Mss + 1, Min({i * Mss, Len(data)}))]]

\* have the bytes written, each once.
LEMMA PartsFresh ==
    ASSUME NEW e \in End, NEW w \in Nat, NEW len \in Nat \ {0}, NEW lbb, lbb = At(e, w),
           NEW data, Line(data, w), Len(data) = len, NEW pbufs
    PROVE  LET queue == Parts(lbb, data, pbufs)
           IN  /\ queue \in Seq(Range(queue))
               /\ Fresh(e, w, w + len, Range(queue)) /\ IsInjective(queue)
               /\ 1 \in DOMAIN queue /\ Line(queue[1].data, w)
               /\ Len(queue[1].data) = Min({len, Mss})
  <1> DEFINE queue == Parts(lbb, data, pbufs)
             n == (len + Mss - 1) \div Mss
             from(i) == (i - 1) * Mss
             to(i) == Min({i * Mss, len})
             u == w + len
  <1>1. Mss \in Nat \ {0} /\ Iss[e] \in Int
    BY Constants
  <1>2. /\ n \in Nat
        /\ \A i \in 1..n : from(i) \in Nat /\ i * Mss = from(i) + Mss /\ from(i) < len
        /\ \A j \in 1..len : \E i \in 1..n : from(i) < j /\ j <= i * Mss
    <2>1. LET c == (len + Mss - 1) \div Mss
          IN  /\ c \in Nat
              /\ \A i \in 1..c : (i - 1) * Mss \in Nat /\ i * Mss = (i - 1) * Mss + Mss /\ (i - 1) * Mss < len
              /\ \A j \in 1..len : \E i \in 1..c : (i - 1) * Mss < j /\ j <= i * Mss
      BY <1>1, CutInParts
    <2> QED BY <2>1
  <1>3. \A i \in 1..n : /\ to(i) \in from(i)..len /\ from(i) < to(i) /\ to(i) - from(i) <= Mss
                        /\ \A j \in 1..len : j <= to(i) <=> j <= i * Mss
    <2> TAKE i \in 1..n
    <2> DEFINE x == i * Mss
               z == Min({x, len})
    <2>1. x \in Int /\ x = from(i) + Mss /\ from(i) \in Nat /\ from(i) < len
      BY <1>1, <1>2
    <2>2. z \in {x, len} /\ z <= x /\ z <= len
      <3> HIDE DEF x
      <3>1. \E y \in {x, len} : \A t \in {x, len} : y <= t
        BY <2>1
      <3>2. Min({x, len}) \in {x, len} /\ \A y \in {x, len} : Min({x, len}) <= y
        BY <3>1 DEF Min
      <3> QED BY <3>2
    <2>3. to(i) = z
      OBVIOUS
    <2> HIDE DEF to, from, z, x
    <2>4. z \in from(i)..len /\ from(i) < z /\ z - from(i) <= Mss
      BY <1>1, <2>1, <2>2
    <2>5. \A j \in 1..len : j <= z <=> j <= x
      BY <2>1, <2>2
    <2> QED BY <2>3, <2>4, <2>5 DEF x
  <1>4. /\ DOMAIN queue = 1..n
        /\ \A i \in 1..n : /\ queue[i].seqno = Plus(lbb, from(i))
                           /\ queue[i].data = SubSeq(data, from(i) + 1, to(i))
    <2> HIDE DEF n, from, to
    <2> DEFINE part(i) == [seqno |-> Plus(lbb, from(i)), pbufs |-> pbufs,
                           data |-> SubSeq(data, from(i) + 1, to(i))]
    <2>1. queue = [i \in 1..n |-> part(i)]
      BY DEF n, from, to, Parts
    <2>2. \A i \in 1..n : /\ part(i).seqno = Plus(lbb, from(i))
                          /\ part(i).data = SubSeq(data, from(i) + 1, to(i))
      OBVIOUS
    <2> HIDE DEF part
    <2> QED BY <2>1, <2>2
  <1>16. queue \in Seq(Range(queue))
    <2>1. DOMAIN queue = 1..n /\ queue = [i \in 1..n |-> queue[i]]
      BY DEF Parts, n
    <2> HIDE DEF queue, n
    <2>2. \A i \in 1..n : queue[i] \in Range(queue)
      BY <2>1 DEF Range
    <2> QED BY <1>2, <2>1, <2>2
  <1>5. data \in Seq(Nat) /\ DOMAIN data = 1..len /\ \A j \in 1..len : data[j] = w + j
    BY LenProperties DEF Line
  <1> HIDE DEF n, from, to, queue
  <1>15. \A i \in 1..n : /\ from(i) \in Nat /\ to(i) \in Nat /\ from(i) < to(i)
                         /\ to(i) <= len /\ to(i) - from(i) <= Mss
    BY <1>2, <1>3, SMTT(30)
  <1>6. ASSUME NEW i \in 1..n
        PROVE  /\ queue[i].seqno = At(e, w + from(i))
               /\ Line(queue[i].data, w + from(i)) /\ Len(queue[i].data) = to(i) - from(i)
               /\ Range(queue[i].data) = (w + from(i) + 1)..(w + to(i))
    <2> DEFINE a == from(i)
               z == to(i)
               d == SubSeq(data, a + 1, z)
    <2>1. a \in Nat /\ z \in a..len /\ a < z /\ Len(data) = len
      BY <1>2, <1>3
    <2> HIDE DEF a, z
    <2>2. /\ d \in Seq(Nat) /\ Len(d) = z - a
          /\ \A j \in 1..(z - a) : d[j] = w + a + j
      <3>1. a + 1 \in Int /\ 1 <= a + 1 /\ z \in Int /\ z <= Len(data)
        BY <2>1
      <3>2. /\ d \in Seq(Nat)
            /\ Len(d) = IF a + 1 <= z THEN z - (a + 1) + 1 ELSE 0
            /\ \A j \in 1..(z - (a + 1) + 1) : d[j] = data[a + 1 + j - 1]
        <4> DEFINE x == a + 1
        <4>2. x \in Int /\ 1 <= x /\ z \in Int /\ z <= Len(data)
          BY <3>1
        <4> HIDE DEF x, queue
        <4>1. /\ SubSeq(data, x, z) \in Seq(Nat)
              /\ Len(SubSeq(data, x, z)) = IF x <= z THEN z - x + 1 ELSE 0
              /\ \A j \in 1..(z - x + 1) : SubSeq(data, x, z)[j] = data[x + j - 1]
          BY <1>5, <4>2, Piece
        <4> QED BY <4>1 DEF x
      <3> HIDE DEF d
      <3>3. z - (a + 1) + 1 = z - a /\ a + 1 <= z
        BY <2>1
      <3>4. \A j \in 1..(z - a) : a + 1 + j - 1 = a + j /\ a + j \in 1..len /\ w + (a + j) = w + a + j
        BY <2>1
      <3> QED BY <1>5, <3>2, <3>3, <3>4
    <2>3. queue[i].data = d /\ queue[i].seqno = Plus(lbb, a)
      BY <1>4 DEF a, z
    <2> HIDE DEF d
    <2>4. DOMAIN d = 1..(z - a)
      BY <2>2, LenProperties
    <2>5. Line(d, w + a)
      BY <2>2, <2>4 DEF Line
    <2>6. Plus(lbb, a) = At(e, w + a)
      <3>1. w \in Int /\ a \in Int /\ Iss[e] \in Int
        BY <1>1, <2>1
      <3>2. Plus(Plus(Iss[e], w), a) = Plus(Iss[e], w + a)
        BY <3>1, PlusPlus
      <3> QED BY <3>2 DEF At
    <2>7. Range(d) = (w + a + 1)..(w + z)
      <3>1. \A j \in DOMAIN d : d[j] \in (w + a + 1)..(w + z)
        BY <2>1, <2>2, <2>4
      <3>2. \A b \in (w + a + 1)..(w + z) : b - (w + a) \in DOMAIN d /\ d[b - (w + a)] = b
        BY <2>1, <2>2, <2>4
      <3> QED BY <3>1, <3>2 DEF Range
    <2> QED BY <2>2, <2>3, <2>5, <2>6, <2>7 DEF a, z
  <1>7. ASSUME NEW i \in 1..n
        PROVE  InPlace(e, u, queue[i]) /\ \A b \in Range(queue[i].data) : b > w
    <2>1. /\ w + from(i) \in 0..u /\ to(i) - from(i) \in 1..Mss
          /\ w + from(i) + (to(i) - from(i)) <= u
      <3>1. /\ from(i) \in Nat /\ to(i) \in Nat /\ from(i) < to(i)
            /\ to(i) <= len /\ to(i) - from(i) <= Mss
        BY <1>15
      <3> QED BY <1>1, <3>1
    <2>2. InPlace(e, u, queue[i])
      <3> HIDE DEF u
      <3> QED BY <1>6, <2>1 DEF InPlace
    <2>3. \A b \in (w + from(i) + 1)..(w + to(i)) : b > w
      BY <1>2, <1>3, SMTT(30)
    <2> QED BY <1>6, <2>2, <2>3
  <1>8. ASSUME NEW i \in 1..n, NEW j \in 1..n, i # j
        PROVE  Range(queue[i].data) \cap Range(queue[j].data) = {}
    <2>1. \A x, y \in 1..n : x < y => to(x) <= from(y)
      <3> TAKE x, y \in 1..n
      <3> HAVE x < y
      <3>1. x * Mss <= from(y)
        <4>1. x \in Int /\ y - 1 \in Int /\ x <= y - 1 /\ Mss \in Nat
          BY <1>1
        <4> QED BY <4>1, Multiples DEF from
      <3>2. to(x) <= x * Mss
        <4>1. x * Mss \in Int /\ len \in Int
          BY <1>1
        <4> HIDE DEF n
        <4> QED BY <4>1, Smaller DEF to
      <3>3. x * Mss \in Int /\ to(x) \in Int /\ from(y) \in Int
        <4>1. x \in Int /\ x * Mss \in Int
          BY <1>1
        <4>2. to(x) \in Nat /\ from(y) \in Nat
          BY <1>15
        <4> QED BY <4>1, <4>2
      <3> QED BY <3>1, <3>2, <3>3
    <2>2. to(i) <= from(j) \/ to(j) <= from(i)
      BY <1>2, <1>8, <2>1
    <2>3. from(i) \in Nat /\ from(j) \in Nat /\ to(i) \in Nat /\ to(j) \in Nat
      BY <1>15
    <2>4. (w + from(i) + 1)..(w + to(i)) \cap (w + from(j) + 1)..(w + to(j)) = {}
      BY <2>2, <2>3
    <2> QED BY <1>6, <2>4
  <1>9. ASSUME NEW b \in (w + 1)..u PROVE \E i \in 1..n : b \in Range(queue[i].data)
    <2>1. b - w \in 1..len
      OBVIOUS
    <2>2. PICK i \in 1..n : from(i) < b - w /\ b - w <= i * Mss
      BY <1>2, <2>1
    <2>3. b - w <= to(i)
      BY <1>3, <2>1, <2>2
    <2>4. b \in (w + from(i) + 1)..(w + to(i))
      <3>1. from(i) \in Nat /\ to(i) \in Nat
        BY <1>15
      <3> QED BY <2>2, <2>3, <3>1
    <2> QED BY <1>6, <2>4
  <1>10. \A i \in 1..n : Range(queue[i].data) # {}
    <2> TAKE i \in 1..n
    <2>1. w + to(i) \in (w + from(i) + 1)..(w + to(i))
      <3>1. from(i) \in Nat /\ to(i) \in Nat /\ from(i) < to(i)
        BY <1>15
      <3> QED BY <3>1
    <2> QED BY <1>6, <2>1
  <1>11. Fresh(e, w, u, Range(queue)) /\ IsInjective(queue)
    <2>1. DOMAIN queue = 1..n
      BY <1>4
    <2>2. \A i \in 1..n : /\ InPlace(e, u, queue[i]) /\ Range(queue[i].data) # {}
                         /\ \A b \in Range(queue[i].data) : b > w
      BY <1>7, <1>10
    <2>3. \A i, j \in 1..n : i # j => Range(queue[i].data) \cap Range(queue[j].data) = {}
      BY <1>8
    <2>4. \A b \in (w + 1)..u : \E i \in 1..n : b \in Range(queue[i].data)
      BY <1>9
    <2> HIDE DEF u
    <2> QED BY <2>1, <2>2, <2>3, <2>4, FreshList
  <1>12. 1 \in 1..n /\ from(1) = 0
    <2>1. 1 \in 1..len
      OBVIOUS
    <2>2. \E i \in 1..n : TRUE
      BY <1>2, <2>1
    <2>3. 1 \in 1..n
      BY <1>2, <2>2
    <2> QED BY <1>1, <2>3 DEF from
  <1>13. to(1) = Min({len, Mss})
    <2>1. 1 * Mss = Mss /\ {Mss, len} = {len, Mss}
      BY <1>1
    <2> QED BY <2>1 DEF to
  <1>14. Line(queue[1].data, w) /\ Len(queue[1].data) = Min({len, Mss})
    <2>1. w + from(1) = w /\ to(1) - from(1) = to(1)
      BY <1>2, <1>3, <1>12
    <2> QED BY <1>6, <1>12, <1>13, <2>1
  <1> QED BY <1>4, <1>11, <1>12, <1>14, <1>16 DEF queue

-----------------------------------------------------------------------------
(* What is written is held                                                 *)

\* What is held and what is written behind it together are complete.
LEMMA CompleteAppended ==
    ASSUME NEW e, NEW w \in Nat, NEW u \in Nat, w <= u, NEW a \in 0..w, NEW H, NEW Q,
           Complete(e, w, a, H), Fresh(e, w, u, Q)
    PROVE  Complete(e, u, a, H \cup Q) /\ H \cap Q = {}
  <1>1. ASSUME NEW s \in H
        PROVE  InPlace(e, u, s) /\ Range(s.data) \subseteq 1..w /\ Range(s.data) # {}
    BY InPlaceBytes DEF Complete
  <1>2. ASSUME NEW t \in Q
        PROVE  InPlace(e, u, t) /\ \A b \in Range(t.data) : b > w
    BY DEF Fresh
  <1>3. ASSUME NEW s \in H, NEW t \in Q PROVE Range(s.data) \cap Range(t.data) = {} /\ s # t
    <2>1. \A b \in 1..w : ~(b > w)
      OBVIOUS
    <2>2. Range(s.data) \cap Range(t.data) = {}
      BY <1>1, <1>2, <2>1
    <2>3. Range(s.data) # {}
      BY <1>1
    <2> QED BY <2>2, <2>3
  <1>4. ASSUME NEW s \in H \cup Q, NEW t \in H \cup Q, s # t
        PROVE  Range(s.data) \cap Range(t.data) = {}
    <2>1. CASE s \in H /\ t \in H
      BY <1>4, <2>1 DEF Complete
    <2>2. CASE s \in Q /\ t \in Q
      BY <1>4, <2>2 DEF Fresh
    <2>3. CASE s \in H /\ t \in Q
      BY <1>3, <2>3
    <2>4. CASE s \in Q /\ t \in H
      <3>1. Range(t.data) \cap Range(s.data) = {}
        BY <1>3, <2>4
      <3> QED BY <3>1
    <2> QED BY <2>1, <2>2, <2>3, <2>4
  <1>5. ASSUME NEW b \in (a + 1)..u PROVE \E s \in H \cup Q : b \in Range(s.data)
    <2>1. CASE b <= w
      <3>1. b \in (a + 1)..w
        BY <2>1
      <3> QED BY <3>1 DEF Complete
    <2>2. CASE b > w
      <3>1. b \in (w + 1)..u
        BY <2>2
      <3> QED BY <3>1 DEF Fresh
    <2> QED BY <2>1, <2>2
  <1>6. \A s \in H \cup Q : InPlace(e, u, s)
    BY <1>1, <1>2
  <1>7. H \cap Q = {}
    BY <1>3
  <1> QED BY <1>4, <1>5, <1>6, <1>7 DEF Complete

\* A segment with the bytes of two others
Gathers(joined, last, first) == Range(joined.data) = Range(last.data) \cup Range(first.data)

\* So they are when the first part is joined to one of the segments.
LEMMA CompleteJoined ==
    ASSUME NEW e, NEW w \in Nat, NEW u \in Nat, w <= u, NEW a \in 0..w, NEW H, NEW R,
           NEW last \in H, NEW first, first \notin R, NEW joined,
           Complete(e, w, a, H), Fresh(e, w, u, {first} \cup R), InPlace(e, u, joined),
           Gathers(joined, last, first)
    PROVE  /\ Complete(e, u, a, (H \ {last}) \cup {joined} \cup R)
           /\ joined \notin H /\ joined \notin R /\ H \cap R = {}
  <1> DEFINE Q == {first} \cup R
             A == H \cup Q
             B == (H \ {last}) \cup {joined} \cup R
  <1>0. Range(joined.data) = Range(last.data) \cup Range(first.data)
    BY DEF Gathers
  <1>1. Complete(e, u, a, A) /\ H \cap Q = {}
    BY CompleteAppended
  <1>2. last \in A /\ first \in A /\ last # first /\ last \notin R
    BY <1>1
  <1>3. \A s \in A : InPlace(e, u, s) /\ Range(s.data) # {}
    BY <1>1, InPlaceBytes DEF Complete
  <1>4. \A s, t \in A : s # t => Range(s.data) \cap Range(t.data) = {}
    BY <1>1 DEF Complete
  <1>5. ASSUME NEW s \in A, s # last, s # first
        PROVE  Range(s.data) \cap Range(joined.data) = {}
    <2>1. Range(s.data) \cap Range(last.data) = {} /\ Range(s.data) \cap Range(first.data) = {}
      BY <1>2, <1>4, <1>5
    <2> QED BY <1>0, <2>1
  <1>6. ASSUME joined \in A PROVE FALSE
    <2>1. CASE joined # last
      <3>1. Range(joined.data) \cap Range(last.data) = {}
        BY <1>2, <1>4, <1>6, <2>1
      <3> QED BY <1>0, <1>2, <1>3, <3>1
    <2>2. CASE joined = last
      <3>1. Range(joined.data) \cap Range(first.data) = {}
        BY <1>2, <1>4, <2>2
      <3> QED BY <1>0, <1>2, <1>3, <3>1
    <2> QED BY <2>1, <2>2
  <1>7. \A s \in B : s = joined \/ (s \in A /\ s # last /\ s # first)
    BY <1>1, <1>2
  <1> HIDE DEF A, B
  <1>8. \A s \in B : InPlace(e, u, s)
    BY <1>3, <1>7
  <1>9. ASSUME NEW s \in B, NEW t \in B, s # t PROVE Range(s.data) \cap Range(t.data) = {}
    <2>1. CASE s = joined
      <3>1. t \in A /\ t # last /\ t # first
        BY <1>7, <1>9, <2>1
      <3>2. Range(t.data) \cap Range(joined.data) = {}
        BY <1>5, <3>1
      <3> QED BY <2>1, <3>2
    <2>2. CASE t = joined
      <3>1. s \in A /\ s # last /\ s # first
        BY <1>7, <1>9, <2>2
      <3>2. Range(s.data) \cap Range(joined.data) = {}
        BY <1>5, <3>1
      <3> QED BY <2>2, <3>2
    <2>3. CASE s # joined /\ t # joined
      BY <1>4, <1>7, <1>9, <2>3
    <2> QED BY <2>1, <2>2, <2>3
  <1>10. ASSUME NEW b \in (a + 1)..u PROVE \E s \in B : b \in Range(s.data)
    <2>1. PICK s \in A : b \in Range(s.data)
      BY <1>1 DEF Complete
    <2>2. CASE s = last \/ s = first
      <3>1. b \in Range(joined.data) /\ joined \in B
        BY <1>0, <2>1, <2>2 DEF B
      <3> QED BY <3>1
    <2>3. CASE s # last /\ s # first
      <3>1. s \in B
        BY <2>3 DEF A, B
      <3> QED BY <2>1, <3>1
    <2> QED BY <2>2, <2>3
  <1>11. Complete(e, u, a, B)
    BY <1>8, <1>9, <1>10 DEF Complete
  <1> QED BY <1>1, <1>6, <1>11 DEF A, B

\* A list with its last member apart
LEMMA LastApart ==
    ASSUME NEW S, NEW s \in Seq(S), s # <<>>
    PROVE  /\ Front(s) \in Seq(S) /\ Last(s) \in S
           /\ Range(s) = Range(Front(s)) \cup {Last(s)}
           /\ IsInjective(s) => IsInjective(Front(s)) /\ Last(s) \notin Range(Front(s))
  <1> DEFINE m == Len(s) - 1
             front == SubSeq(s, 1, m)
             rest == SubSeq(s, m + 1, Len(s))
             last == s[Len(s)]
             one == <<last>>
  <1>1. Len(s) \in Nat /\ Len(s) # 0 /\ m \in 0..Len(s) /\ m + 1 = Len(s)
    BY EmptySeq, LenProperties
  <1>2. last \in S
    BY <1>1, ElementOfSeq
  <1>3. front \in Seq(S) /\ rest \in Seq(S) /\ front \o rest = s
    BY <1>1, SplitAt
  <1>4. rest = one
    <2>1. /\ rest \in Seq(S) /\ Len(rest) = 1 /\ rest[1] = s[Len(s)]
      <3>1. rest = SubSeq(s, Len(s), Len(s))
        BY <1>1
      <3> HIDE DEF rest
      <3>2. Len(SubSeq(s, Len(s), Len(s))) = 1 /\ SubSeq(s, Len(s), Len(s))[1] = s[Len(s)]
        <4> DEFINE l == Len(s)
        <4>1. l \in Int /\ 1 <= l /\ l <= Len(s)
          BY <1>1
        <4> HIDE DEF l
        <4>2. /\ Len(SubSeq(s, l, l)) = IF l <= l THEN l - l + 1 ELSE 0
              /\ \A i \in 1..(l - l + 1) : SubSeq(s, l, l)[i] = s[l + i - 1]
          BY <4>1, Piece
        <4>3. l <= l /\ l - l + 1 = 1 /\ 1 \in 1..(l - l + 1) /\ l + 1 - 1 = l
          BY <4>1
        <4>4. Len(SubSeq(s, l, l)) = 1 /\ SubSeq(s, l, l)[1] = s[l]
          BY <4>2, <4>3
        <4> QED BY <4>4 DEF l
      <3> QED BY <1>3, <3>1, <3>2
    <2> HIDE DEF rest
    <2> QED BY <2>1
  <1>5. one \in Seq(S) /\ IsInjective(one) /\ Range(one) = {last}
    BY <1>2, OneMember
  <1> HIDE DEF one, front, rest
  <1>6. Range(front \o one) = Range(front) \cup Range(one)
    BY <1>3, <1>5, RangeConcatenation
  <1>7. IsInjective(front \o one) => IsInjective(front) /\ Range(front) \cap Range(one) = {}
    BY <1>3, <1>5, NoRepeats
  <1>8. front \o one = s
    BY <1>3, <1>4
  <1> QED BY <1>2, <1>3, <1>5, <1>6, <1>7, <1>8 DEF front, Front, Last

-----------------------------------------------------------------------------
(* tcp_enqueue keeps the account                                           *)

\* A segment with more bytes behind its own
Longer(last, data, joined) ==
    joined.seqno = last.seqno /\ joined.data = last.data \o data

\* ... is in its place if it ended where they begin.
LEMMA JoinedInPlace ==
    ASSUME 2 * MaxBytes < Seq32, NEW e \in End, NEW w \in 0..MaxBytes, NEW u \in Nat, w <= u,
           NEW last, InPlace(e, w, last), SegEnd(last) = At(e, w),
           NEW data, Line(data, w), Len(last.data) + Len(data) <= Mss, w + Len(data) <= u,
           NEW joined, Longer(last, data, joined)
    PROVE  InPlace(e, u, joined) /\ Range(joined.data) = Range(last.data) \cup Range(data)
  <1>1. PICK k \in 0..w : /\ last.seqno = At(e, k) /\ Line(last.data, k)
                          /\ Len(last.data) \in 1..Mss /\ k + Len(last.data) <= w
    BY DEF InPlace
  <1>2. /\ last.data \in Seq(Nat) /\ data \in Seq(Nat)
        /\ Len(last.data) \in Nat /\ Len(data) \in Nat /\ MaxBytes \in Nat /\ w \in Nat /\ k \in Nat
    BY <1>1, Constants, LenProperties DEF Line
  <1>0. joined.seqno = last.seqno /\ joined.data = last.data \o data
    BY DEF Longer
  <1>3. SegEnd(last) = At(e, k + Len(last.data))
    BY <1>1, <1>2, PlaceEnd
  <1>4. k + Len(last.data) = w
    <2> DEFINE x == k + Len(last.data)
    <2>1. x \in Int /\ w \in Int /\ w - x <= MaxBytes + 1 /\ x - w <= MaxBytes
      <3> DEFINE l == Len(last.data)
      <3>1. l \in Nat /\ k \in Nat /\ k + l <= w /\ w \in Nat /\ w <= MaxBytes /\ MaxBytes \in Nat
        BY <1>1, <1>2
      <3> HIDE DEF l
      <3>2. /\ k + l \in Int /\ w \in Int
            /\ w - (k + l) <= MaxBytes + 1 /\ (k + l) - w <= MaxBytes
        BY <3>1
      <3> QED BY <3>2 DEF l
    <2> HIDE DEF x
    <2>2. At(e, x) = At(e, w) <=> x = w
      BY <2>1, AtCompare
    <2> QED BY <1>3, <2>2 DEF x
  <1>5. Line(joined.data, k) /\ Len(joined.data) = Len(last.data) + Len(data)
    <2>1. Line(data, k + Len(last.data))
      BY <1>4
    <2> QED BY <1>0, <1>1, <1>2, <2>1, LinesJoin
  <1>6. Len(joined.data) \in 1..Mss /\ k + Len(joined.data) <= u /\ k \in 0..u
    BY <1>1, <1>2, <1>4, <1>5
  <1>7. Range(last.data \o data) = Range(last.data) \cup Range(data)
    BY <1>2, RangeConcatenation
  <1> QED BY <1>0, <1>1, <1>5, <1>6, <1>7 DEF InPlace

\* tcp_enqueue keeps account of what it queues, as long as it joins it only to
\* the segment with the last bytes.
LEMMA EnqueueSending ==
    ASSUME 2 * MaxBytes < Seq32, NEW e \in End, NEW w \in Nat, NEW u \in 0..MaxBytes, w < u,
           NEW p, Sound(AnyBytes(u), p), NEW a, NEW n, Sending(e, w, a, n, p),
           NEW data, Line(data, w), Len(data) = u - w, NEW copy \in BOOLEAN, NEW mem,
           p.unsent # <<>> /\ TCPLEN(Last(p.unsent)) + Min({u - w, Mss}) <= Mss
               => SegEnd(Last(p.unsent)) = p.snd_lbb
    PROVE  LET q == tcp_enqueue(p, data, copy, mem)
           IN  Alike(p, q) \/ Sending(e, u, a, n, q)
  <1> DEFINE len == u - w
             m == (Len(data) + Mss - 1) \div Mss
             pbufs == IF copy THEN 1 ELSE 2
             queue == Parts(p.snd_lbb, data, pbufs)
             fails == \/ Len(data) > p.snd_buf
                      \/ p.snd_queuelen >= SndQueueLen
                      \/ p.snd_queuelen + m * pbufs > SndQueueLen
                      \/ ~mem
             last == Last(p.unsent)
             joins == p.unsent # <<>> /\ TCPLEN(last) + TCPLEN(queue[1]) <= Mss
             bytes == last.data \o queue[1].data
             joined == [last EXCEPT !.data = bytes, !.pbufs = last.pbufs + 1]
             unsent == IF joins THEN Front(p.unsent) \o <<joined>> \o Tail(queue)
                       ELSE p.unsent \o queue
             lbb == Plus(p.snd_lbb, Len(data))
             buf == p.snd_buf - Len(data)
             size == p.snd_queuelen + m * pbufs - (IF joins /\ ~copy THEN 1 ELSE 0)
             f == [p EXCEPT !.naglememerr = TRUE]
             q == [p EXCEPT !.unsent = unsent, !.snd_lbb = lbb, !.snd_buf = buf,
                            !.snd_queuelen = size]
             S == Segs(AnyBytes(u))
             H == Held(p)
             Q == Range(queue)
  <1>1. tcp_enqueue(p, data, copy, mem) = IF fails THEN f ELSE q
    BY Zenon DEF tcp_enqueue, Parts
  <1>2. Alike(p, f)
    <2> DOMAIN p = Fields
      BY DEF Sound
    <2> QED BY FieldsAre, Zenon DEF Alike, SameInput, SameQueues, SameNumbers, SameAccount
  <1>3. /\ a \in 0..n /\ n \in 0..w /\ a \in 0..w /\ a \in Nat /\ n \in Nat
        /\ p.lastack = At(e, a) /\ p.snd_nxt = At(e, n) /\ p.snd_lbb = At(e, w)
        /\ p.snd_buf = SndBuf - (w - a) /\ Apart(p) /\ Complete(e, w, a, H)
    BY DEF Sending
  <1>0. len \in Nat \ {0} /\ Len(data) = len /\ w + len = u
    BY Constants
  <1> HIDE DEF len
  <1>4. /\ queue \in Seq(Q) /\ Fresh(e, w, u, Q) /\ IsInjective(queue)
        /\ 1 \in DOMAIN queue /\ Line(queue[1].data, w)
        /\ Len(queue[1].data) = Min({len, Mss})
    <2> DEFINE x == p.snd_lbb
               list == Parts(x, data, pbufs)
    <2>1. x = At(e, w) /\ Line(data, w) /\ Len(data) = len
      BY <1>0, <1>3
    <2> HIDE DEF pbufs, H, x
    <2>2. LET y == Parts(x, data, pbufs)
          IN  /\ y \in Seq(Range(y))
              /\ Fresh(e, w, w + len, Range(y)) /\ IsInjective(y)
              /\ 1 \in DOMAIN y /\ Line(y[1].data, w)
              /\ Len(y[1].data) = Min({len, Mss})
      BY <1>0, <2>1, PartsFresh, SMTT(30)
    <2>3. queue = list
      BY DEF x
    <2> HIDE DEF queue, list
    <2> QED BY <1>0, <2>2, <2>3 DEF list
  <1>5. p.unsent \in Seq(S) /\ p.unacked \in Seq(S)
    BY DEF Sound, Queues
  <1>6. w <= u /\ u \in Nat /\ w \in 0..MaxBytes /\ SndBuf \in Nat
    BY Constants
  <1> HIDE DEF queue, S, Q
  <1>7. ASSUME ~joins
        PROVE  /\ IsInjective(p.unacked) /\ IsInjective(unsent)
               /\ Range(p.unacked) \cap Range(unsent) = {}
               /\ Complete(e, u, a, Range(p.unacked) \cup Range(unsent))
    <2> DEFINE T == S \cup Q
    <2>1. p.unsent \in Seq(T) /\ queue \in Seq(T)
      <3>1. S \subseteq T /\ Q \subseteq T
        OBVIOUS
      <3> HIDE DEF T, unsent
      <3> QED BY <1>4, <1>5, <3>1, SeqGrows
    <2> HIDE DEF T
    <2>2. unsent = p.unsent \o queue
      BY <1>7
    <2>3. Range(unsent) = Range(p.unsent) \cup Q
      <3> HIDE DEF unsent
      <3> QED BY <2>1, <2>2, RangeConcatenation DEF Q
    <2>4. Complete(e, u, a, H \cup Q) /\ H \cap Q = {}
      <3>1. Complete(e, w, a, H) /\ Fresh(e, w, u, Q) /\ w <= u /\ u \in Nat /\ a \in 0..w
        BY <1>3, <1>4, <1>6
      <3> HIDE DEF H, joins, unsent
      <3> QED BY <3>1, CompleteAppended
    <2> HIDE DEF unsent
    <2>5. IsInjective(unsent)
      <3>1. IsInjective(p.unsent) /\ Range(p.unsent) \cap Range(queue) = {}
        BY <1>3, <2>4 DEF Apart, Held, Q
      <3> QED BY <1>4, <2>1, <2>2, <3>1, NoRepeats
    <2>6. Range(p.unacked) \cap Range(unsent) = {} /\ Range(p.unacked) \cup Range(unsent) = H \cup Q
      BY <1>3, <2>3, <2>4 DEF Apart, Held
    <2> QED BY <1>3, <2>4, <2>5, <2>6 DEF Apart
  <1>8. ASSUME joins
        PROVE  /\ IsInjective(p.unacked) /\ IsInjective(unsent)
               /\ Range(p.unacked) \cap Range(unsent) = {}
               /\ Complete(e, u, a, Range(p.unacked) \cup Range(unsent))
    <2> DEFINE first == queue[1]
               front == Front(p.unsent)
               rest == Tail(queue)
               R == Range(rest)
               one == <<joined>>
               T == S \cup Q \cup {joined}
    <2>1. p.unsent # <<>> /\ Len(last.data) + Len(first.data) <= Mss
      BY <1>8 DEF TCPLEN
    <2>2. /\ front \in Seq(S) /\ last \in S /\ Range(p.unsent) = Range(front) \cup {last}
          /\ IsInjective(front) /\ last \notin Range(front)
      <3>1. IsInjective(p.unsent)
        BY <1>3 DEF Apart
      <3> HIDE DEF unsent, joined, H
      <3> QED BY <1>5, <2>1, <3>1, LastApart
    <2>3. /\ rest \in Seq(Q) /\ IsInjective(rest) /\ first \notin R /\ Q = {first} \cup R
      <3>1. queue # <<>>
        BY <1>4
      <3> HIDE DEF unsent, joined, H
      <3> QED BY <1>4, <3>1, HeadOnce DEF Q
    <2>4. joined.seqno = last.seqno /\ joined.data = bytes
      <3> DOMAIN last = {"seqno", "data", "pbufs"}
        BY <2>2 DEF S, Segs
      <3> HIDE DEF bytes, last
      <3> QED OBVIOUS
    <2>5. SegEnd(last) = At(e, w)
      <3>1. TCPLEN(last) + Min({len, Mss}) <= Mss
        BY <1>4, <2>1 DEF TCPLEN
      <3> HIDE DEF joined, unsent, H
      <3> QED BY <1>3, <2>1, <3>1 DEF len
    <2>6. last \in H /\ InPlace(e, w, last)
      BY <1>3, <2>2 DEF Held, Complete
    <2>7. w + Len(first.data) <= u
      <3>1. Min({len, Mss}) <= len /\ Min({len, Mss}) \in Int
        <4>1. len \in Int /\ Mss \in Int
          BY <1>0, Constants
        <4> QED BY <4>1, Smaller
      <3> HIDE DEF joined, unsent, H
      <3> QED BY <1>0, <1>4, <3>1
    <2> HIDE DEF joined, unsent, H, last
    <2>8. InPlace(e, u, joined) /\ Range(joined.data) = Range(last.data) \cup Range(first.data)
      <3>1. joined.data = last.data \o first.data
        BY <2>4
      <3>2. Line(first.data, w)
        BY <1>4
      <3>3. w \in 0..MaxBytes /\ u \in Nat /\ w <= u
        BY <1>6
      <3>4. joined.seqno = last.seqno
        BY <2>4
      <3> DEFINE d == first.data
      <3>5. /\ Line(d, w) /\ Len(last.data) + Len(d) <= Mss /\ w + Len(d) <= u
            /\ Longer(last, d, joined)
        BY <2>1, <2>7, <3>1, <3>2, <3>4 DEF Longer
      <3> HIDE DEF bytes, joins, queue, first, d
      <3>6. InPlace(e, u, joined) /\ Range(joined.data) = Range(last.data) \cup Range(d)
        BY <2>5, <2>6, <3>3, <3>5, JoinedInPlace
      <3> QED BY <3>6 DEF d
    <2> HIDE DEF first, rest, R, front
    <2>9. /\ Complete(e, u, a, (H \ {last}) \cup {joined} \cup R)
          /\ joined \notin H /\ joined \notin R /\ H \cap R = {}
      <3>1. Fresh(e, w, u, {first} \cup R)
        BY <1>4, <2>3
      <3>2. Complete(e, w, a, H) /\ u \in Nat /\ w <= u /\ a \in 0..w
        BY <1>3, <1>6
      <3>3. last \in H /\ first \notin R /\ InPlace(e, u, joined)
            /\ Gathers(joined, last, first)
        BY <2>3, <2>6, <2>8 DEF Gathers
      <3> HIDE DEF joins, bytes, queue, unsent, S, Q, T
      <3>4. w \in Nat
        BY <1>0
      <3> QED BY <3>1, <3>2, <3>3, <3>4, CompleteJoined
    <2>10. unsent = (front \o one) \o rest
      BY <1>8 DEF unsent, front, rest, last, joined
    <2>11. front \in Seq(T) /\ rest \in Seq(T) /\ joined \in T
      <3>1. S \subseteq T /\ Q \subseteq T
        OBVIOUS
      <3>2. joined \in T
        OBVIOUS
      <3> HIDE DEF T
      <3> QED BY <2>2, <2>3, <3>1, <3>2, SeqGrows
    <2>12. one \in Seq(T) /\ IsInjective(one) /\ Range(one) = {joined}
      <3> HIDE DEF T
      <3> QED BY <2>11, OneMember
    <2> HIDE DEF T, one
    <2>13. Range(front) \subseteq H /\ R = Range(rest)
      BY <2>2 DEF H, Held, R
    <2> DEFINE c == front \o one
    <2>14. c \in Seq(T) /\ IsInjective(c) /\ Range(c) = Range(front) \cup {joined}
      <3>1. Range(front) \cap Range(one) = {}
        BY <2>9, <2>12, <2>13
      <3>2. IsInjective(front \o one)
        BY <2>2, <2>11, <2>12, <3>1, NoRepeats
      <3>3. Range(front \o one) = Range(front) \cup Range(one)
        BY <2>11, <2>12, RangeConcatenation
      <3> QED BY <2>11, <2>12, <3>2, <3>3, ConcatProperties
    <2> HIDE DEF c
    <2>15. IsInjective(unsent) /\ Range(unsent) = Range(front) \cup {joined} \cup R
      <3>1. Range(c) \cap Range(rest) = {}
        BY <2>9, <2>13, <2>14
      <3>2. IsInjective(c \o rest)
        BY <2>3, <2>11, <2>14, <3>1, NoRepeats
      <3>3. Range(c \o rest) = Range(c) \cup Range(rest)
        BY <2>11, <2>14, RangeConcatenation
      <3>4. unsent = c \o rest
        BY <2>10 DEF c
      <3> QED BY <2>13, <2>14, <3>2, <3>3, <3>4
    <2>16. /\ Range(p.unacked) \subseteq H /\ last \notin Range(p.unacked)
           /\ Range(p.unacked) \cap Range(front) = {}
           /\ (H \ {last}) \cup {joined} \cup R = Range(p.unacked) \cup Range(unsent)
      <3>1. H = Range(p.unacked) \cup Range(p.unsent) /\ Range(p.unacked) \cap Range(p.unsent) = {}
        BY <1>3 DEF H, Held, Apart
      <3> QED BY <2>2, <2>15, <3>1
    <2>17. Range(p.unacked) \cap Range(unsent) = {}
      BY <2>9, <2>15, <2>16
    <2> QED BY <1>3, <2>9, <2>15, <2>16, <2>17 DEF Apart
  <1>9. /\ q.unsent = unsent /\ q.unacked = p.unacked /\ q.snd_nxt = p.snd_nxt
        /\ q.snd_lbb = lbb /\ q.lastack = p.lastack /\ q.snd_buf = buf
    <2> DOMAIN p = Fields
      BY DEF Sound
    <2> HIDE DEF unsent, lbb, buf, size
    <2> QED BY FieldsAre, Zenon
  <1>10. lbb = At(e, u) /\ buf = SndBuf - (u - a)
    <2>1. buf = SndBuf - (u - a)
      BY <1>0, <1>3, <1>6
    <2>2. Plus(Plus(Iss[e], w), len) = Plus(Iss[e], w + len)
      <3>1. Iss[e] \in Int /\ w \in Int /\ len \in Int
        BY <1>0, Constants
      <3> QED BY <3>1, PlusPlus
    <2> HIDE DEF buf
    <2> QED BY <1>0, <1>3, <2>1, <2>2 DEF At
  <1> HIDE DEF unsent, lbb, buf, size, q, f, fails, H
  <1>11. /\ Apart(q) /\ Complete(e, u, a, Held(q))
    <2>1. /\ IsInjective(p.unacked) /\ IsInjective(unsent)
          /\ Range(p.unacked) \cap Range(unsent) = {}
          /\ Complete(e, u, a, Range(p.unacked) \cup Range(unsent))
      <3> HIDE DEF joins
      <3> QED BY <1>7, <1>8
    <2> QED BY <1>9, <2>1 DEF Apart, Held
  <1>12. Sending(e, u, a, n, q)
    <2>1. n \in 0..u
      BY <1>3, <1>6
    <2> QED BY <1>3, <1>9, <1>10, <1>11, <2>1 DEF Sending
  <1> QED BY <1>1, <1>2, <1>12

-----------------------------------------------------------------------------
(* The two senders                                                         *)

\* Each end keeps account of what it has written, and what it has received and
\* acknowledged, in its block or under way, is something the other has written.
SenderInv ==
    \A e \in End :
        /\ Right(e, written[e], Marks(Peer(e), written[Peer(e)]), pcb[e])
        /\ Acknowledges(Marks(e, written[e]), net[e])

\* More bytes, more numbers
LEMMA MarksGrow ==
    ASSUME NEW e, NEW w \in Nat, NEW u \in Nat, w <= u
    PROVE  Marks(e, w) \subseteq Marks(e, u)
  <1>1. 0..w \subseteq 0..u
    OBVIOUS
  <1> QED BY <1>1 DEF Marks

\* ... may be acknowledged.
LEMMA RightGrows ==
    ASSUME NEW e, NEW w, NEW K, NEW L, K \subseteq L, NEW p, Right(e, w, K, p)
    PROVE  Right(e, w, L, p)
  <1>1. p.rcv_nxt \in L /\ Acknowledges(L, p.out)
    BY DEF Right, Acknowledges
  <1>2. p.state = "ESTABLISHED" => \E a, n : Sending(e, w, a, n, p)
    BY DEF Right
  <1> QED BY <1>1, <1>2 DEF Right

\* A part of a list has no other members.
LEMMA PieceRange ==
    ASSUME NEW S, NEW s \in Seq(S), NEW m \in Int, NEW n \in Int, 1 <= m, n <= Len(s)
    PROVE  Range(SubSeq(s, m, n)) \subseteq Range(s)
  <1> DEFINE t == SubSeq(s, m, n)
  <1>1. /\ t \in Seq(S) /\ Len(t) = (IF m <= n THEN n - m + 1 ELSE 0)
        /\ \A i \in 1..(n - m + 1) : t[i] = s[m + i - 1]
    BY Piece
  <1>2. Len(s) \in Nat /\ DOMAIN s = 1..Len(s)
    BY LenProperties
  <1> HIDE DEF t
  <1>3. DOMAIN t = 1..Len(t)
    BY <1>1, LenProperties
  <1>4. \A i \in DOMAIN t : m + i - 1 \in DOMAIN s /\ t[i] = s[m + i - 1]
    BY <1>1, <1>2, <1>3
  <1>5. \A i \in DOMAIN t : t[i] \in Range(s)
    BY <1>4 DEF Range
  <1>6. Range(t) \subseteq Range(s)
    BY <1>5 DEF Range
  <1> QED BY <1>6 DEF t

\* Nor has a list without one of its own.
LEMMA RemovedRange ==
    ASSUME NEW S, NEW s \in Seq(S), NEW i \in 1..Len(s)
    PROVE  Range(RemoveAt(s, i)) \subseteq Range(s)
  <1> DEFINE m == i - 1
             n == i + 1
             l == Len(s)
             a == SubSeq(s, 1, m)
             b == SubSeq(s, n, l)
  <1>1. m \in Int /\ m <= Len(s) /\ n \in Int /\ 1 <= n /\ l \in Int /\ l <= Len(s) /\ 1 \in Int
    BY LenProperties
  <1>2. RemoveAt(s, i) = a \o b
    BY DEF RemoveAt
  <1> HIDE DEF m, n, l
  <1>3. a \in Seq(S) /\ b \in Seq(S)
    BY <1>1, Piece
  <1>4. Range(a) \subseteq Range(s) /\ Range(b) \subseteq Range(s)
    BY <1>1, PieceRange
  <1> HIDE DEF a, b
  <1>5. Range(a \o b) = Range(a) \cup Range(b)
    BY <1>3, RangeConcatenation
  <1> QED BY <1>2, <1>4, <1>5

\* A block without what the step handed on is as right.
LEMMA ClearedRight ==
    ASSUME NEW e, NEW w, NEW K, NEW p, DOMAIN p = Fields, Right(e, w, K, p)
    PROVE  Right(e, w, K, Cleared(p))
  <1> DEFINE q == Cleared(p)
             none == <<>>
  <1>1. /\ SameNumbers(p, q) /\ SameQueues(p, q) /\ q.state = p.state /\ q.rcv_nxt = p.rcv_nxt
        /\ q.out = none
    BY ClearedFields
  <1>2. Range(none) = {}
    BY DEF Range
  <1> HIDE DEF q, none
  <1>3. Acknowledges(K, q.out) /\ q.rcv_nxt \in K
    BY <1>1, <1>2 DEF Acknowledges, Right
  <1>4. SameSender(p, q)
    BY <1>1 DEF SameSender, SameNumbers
  <1>5. q.state = "ESTABLISHED" => \E a, n : Sending(e, w, a, n, q)
    <2>1. q.state = "ESTABLISHED" => \E a, n : Sending(e, w, a, n, p)
      BY <1>1 DEF Right
    <2> QED BY <1>4, <2>1, SameSending
  <1>6. Right(e, w, K, q)
    BY <1>3, <1>5 DEF Right
  <1> QED BY <1>6 DEF q

\* Settle keeps the account of both ends if the step has kept that of its own.
LEMMA SettleRight ==
    ASSUME ByteInv, SenderInv, NEW e \in End, NEW p, NEW rest, Settle(e, p, rest),
           NEW w \in 0..MaxBytes, written[e] <= w, written' = [written EXCEPT ![e] = w],
           NEW G, Sound(G, p), Right(e, w, Marks(Peer(e), written[Peer(e)]), p),
           Range(rest) \subseteq Range(net[e])
    PROVE  SenderInv'
  <1> DEFINE f == Peer(e)
             v == written[f]
             q == Cleared(p)
             sent == net[f] \o p.out
             m == Min({Len(sent), NetCap})
             packets == SubSeq(sent, 1, m)
  <1>1. f \in End /\ f # e /\ Peer(f) = e /\ \A x \in End : x = e \/ x = f
    BY Ends
  <1>2. /\ written \in [End -> 0..MaxBytes] /\ DOMAIN pcb = End /\ DOMAIN net = End
        /\ written[e] \in Nat /\ w \in Nat
    BY EndFacts, Constants DEF ByteInv
  <1>3. pcb' = [pcb EXCEPT ![e] = q] /\ net' = [net EXCEPT ![e] = rest, ![f] = packets]
    BY Zenon DEF Settle, Cleared
  <1>4. \E S : net[f] \in Seq(S)
    <2> HIDE DEF f, v, q, m, packets
    <2>1. net[f] \in Seq(Packets(BytesOf(Peer(f), written[Peer(f)])))
      BY <1>1, EndFacts
    <2> QED BY <2>1
  <1>5. Range(packets) \subseteq Range(net[f]) \cup Range(p.out)
    <2> HIDE DEF f
    <2>1. PICK S : net[f] \in Seq(S)
      BY <1>4
    <2> DEFINE T == S \cup Packets(G)
    <2>2. net[f] \in Seq(T) /\ p.out \in Seq(T)
      <3>1. S \subseteq T /\ Packets(G) \subseteq T
        OBVIOUS
      <3>2. p.out \in Seq(Packets(G))
        BY DEF Sound
      <3> HIDE DEF T
      <3> QED BY <2>1, <3>1, <3>2, SeqGrows
    <2> HIDE DEF T
    <2>3. sent \in Seq(T) /\ Range(sent) = Range(net[f]) \cup Range(p.out)
      BY <2>2, ConcatProperties, RangeConcatenation
    <2> HIDE DEF sent
    <2>4. m \in Int /\ m <= Len(sent)
      <3>1. Len(sent) \in Int /\ NetCap \in Int
        BY <2>3, LenProperties, Constants
      <3>2. \A x, y \in Int : Min({x, y}) \in Int /\ Min({x, y}) <= x
        BY Smaller
      <3> QED BY <3>1, <3>2
    <2> HIDE DEF m
    <2>5. Range(packets) \subseteq Range(sent)
      BY <2>3, <2>4, PieceRange
    <2> QED BY <2>3, <2>5
  <1>6. Acknowledges(Marks(f, v), packets)
    <2>1. Acknowledges(Marks(f, v), net[f])
      <3> HIDE DEF f
      <3> QED BY <1>1 DEF SenderInv
    <2>2. Acknowledges(Marks(f, v), p.out)
      BY DEF Right
    <2> HIDE DEF packets, f, v
    <2> QED BY <1>5, <2>1, <2>2 DEF Acknowledges
  <1>7. Acknowledges(Marks(e, w), rest)
    <2>1. Acknowledges(Marks(e, written[e]), net[e])
      BY DEF SenderInv
    <2>2. Marks(e, written[e]) \subseteq Marks(e, w)
      BY <1>2, MarksGrow
    <2> QED BY <2>1, <2>2 DEF Acknowledges
  <1>8. Right(e, w, Marks(f, v), q)
    <2>1. DOMAIN p = Fields /\ Right(e, w, Marks(f, v), p)
      BY DEF Sound
    <2> HIDE DEF f, v
    <2> QED BY <2>1, ClearedRight
  <1>9. Right(f, v, Marks(e, w), pcb[f])
    <2>1. Right(f, v, Marks(e, written[e]), pcb[f])
      <3>1. Right(f, written[f], Marks(Peer(f), written[Peer(f)]), pcb[f])
        <4> HIDE DEF f
        <4> QED BY <1>1 DEF SenderInv
      <3> HIDE DEF f
      <3> QED BY <1>1, <3>1
    <2>2. Marks(e, written[e]) \subseteq Marks(e, w)
      BY <1>2, MarksGrow
    <2> HIDE DEF f, v
    <2> QED BY <2>1, <2>2, RightGrows
  <1> HIDE DEF q, packets, sent, m
  <1>10. /\ pcb'[e] = q /\ pcb'[f] = pcb[f] /\ net'[e] = rest /\ net'[f] = packets
         /\ written'[e] = w /\ written'[f] = v
    <2> HIDE DEF f
    <2> QED BY <1>1, <1>2, <1>3
  <1>11. ASSUME NEW x \in End
         PROVE  /\ Right(x, written'[x], Marks(Peer(x), written'[Peer(x)]), pcb'[x])
                /\ Acknowledges(Marks(x, written'[x]), net'[x])
    <2>1. Peer(e) = f
      OBVIOUS
    <2> HIDE DEF f, v
    <2>2. CASE x = e
      BY <1>7, <1>8, <1>10, <2>1, <2>2
    <2>3. CASE x = f
      BY <1>1, <1>6, <1>9, <1>10, <2>3
    <2> QED BY <1>1, <2>2, <2>3
  <1> QED BY <1>11 DEF SenderInv

\* A step that writes nothing
LEMMA StepRight ==
    ASSUME ByteInv, SenderInv, NEW e \in End, NEW p, NEW rest, Settle(e, p, rest),
           written' = written, NEW G, Sound(G, p),
           Right(e, written[e], Marks(Peer(e), written[Peer(e)]), p),
           Range(rest) \subseteq Range(net[e])
    PROVE  SenderInv'
  <1> DEFINE w == written[e]
  <1>1. /\ w \in 0..MaxBytes /\ written[e] <= w /\ written' = [written EXCEPT ![e] = w]
        /\ Right(e, w, Marks(Peer(e), written[Peer(e)]), p)
    BY EndFacts DEF ByteInv
  <1> HIDE DEF w
  <1> QED BY <1>1, SettleRight

-----------------------------------------------------------------------------
(* The steps that write nothing                                            *)

\* tcp_recved keeps the account.
LEMMA RecvedKeeps ==
    ASSUME 2 * MaxBytes < Seq32, ByteInv, SenderInv, NEW e \in End, NEW mem \in BOOLEAN,
           Recved(e, mem)
    PROVE  SenderInv'
  <1> DEFINE G == BytesOf(e, written[e])
             K == Marks(Peer(e), written[Peer(e)])
             w == written[e]
             r == tcp_recved(pcb[e], unread[e], mem)
             owed == -unread[e]
             p == [r EXCEPT !.owed = owed]
  <1>1. Settle(e, p, net[e]) /\ written' = written
    BY Zenon DEF Recved
  <1>2. Pieces(G) /\ Sound(G, pcb[e]) /\ unread[e] \in Int /\ w \in 0..MaxBytes
    BY EndFacts
  <1>3. Right(e, w, K, pcb[e])
    BY DEF SenderInv
  <1>4. Sound(G, r) /\ Right(e, w, K, r)
    <2> HIDE DEF G, K, w
    <2> QED BY <1>2, <1>3, RecvedSound, RecvedRight
  <1>5. /\ DOMAIN p = Fields /\ SameNumbers(r, p) /\ SameQueues(r, p)
        /\ p.out = r.out /\ p.state = r.state /\ p.rcv_nxt = r.rcv_nxt /\ p.owed = owed
    <2> DOMAIN r = Fields
      BY <1>4 DEF Sound
    <2> HIDE DEF r, owed
    <2> QED BY FieldsAre, Zenon DEF SameNumbers, SameAccount, SameQueues
  <1>6. owed \in Int
    BY <1>2
  <1> HIDE DEF p, r, owed
  <1>7. Sound(G, p)
    <2> HIDE DEF G
    <2> QED BY <1>4, <1>5, <1>6 DEF Sound, Numbers, Queues, SameNumbers, SameAccount, SameQueues
  <1>8. Right(e, w, K, p)
    <2>1. Keeps(r, p)
      BY <1>5 DEF Keeps, SameSender, SameNumbers
    <2> HIDE DEF K, w
    <2> QED BY <1>4, <2>1, KeepsRight
  <1> QED BY <1>1, <1>7, <1>8, StepRight

\* So does the arrival of a packet,
LEMMA InputKeeps ==
    ASSUME 2 * MaxBytes < Seq32, ByteInv, SenderInv, NEW e \in End, NEW i \in DOMAIN net[e],
           NEW stays \in BOOLEAN, NEW mem \in BOOLEAN,
           NEW again \in {"now", "later", "refuse"}, NEW take \in {"now", "later", "refuse"},
           tcp_input(e, i, stays, again, take, mem)
    PROVE  SenderInv'
  <1> DEFINE G == BytesOf(e, written[e])
             f == Peer(e)
             v == written[f]
             w == written[e]
             H == BytesOf(f, v)
             k == Len(got[e])
             s == net[e][i]
             rest == IF stays THEN net[e] ELSE RemoveAt(net[e], i)
             p == pcb[e]
             a == Input(p, s, again, take, mem)
             r == Refuse(p, s, mem)
             q == IF Open(e) THEN a ELSE r
             K == Marks(f, v)
  <1>1. Settle(e, q, rest) /\ written' = written
    BY Zenon DEF tcp_input
  <1>2. /\ Pieces(G) /\ Sound(G, p) /\ p.recv_data = <<>> /\ Heard(f, k, v, p)
        /\ net[e] \in Seq(Packets(H)) /\ f \in End /\ v \in Nat /\ k \in Nat
        /\ w \in 0..MaxBytes
    BY EndFacts
  <1>3. v < Seq32 /\ MaxBytes < Seq32
    <2>1. v \in 0..MaxBytes /\ MaxBytes \in Nat /\ Seq32 \in Nat
      BY EndFacts, Constants
    <2> HIDE DEF v
    <2> QED BY <2>1
  <1>4. Right(e, w, K, p) /\ Acknowledges(Marks(e, w), net[e])
    BY DEF SenderInv
  <1>5. s \in Packets(H) /\ s \in Range(net[e]) /\ Range(rest) \subseteq Range(net[e])
    <2> HIDE DEF H, a, r, q, K, w
    <2>1. i \in 1..Len(net[e])
      BY <1>2, LenProperties
    <2>2. Range(RemoveAt(net[e], i)) \subseteq Range(net[e])
      BY <1>2, <2>1, RemovedRange
    <2>3. net[e][i] \in Packets(H)
      BY <1>2, <2>1, ElementOfSeq
    <2>4. net[e][i] \in Range(net[e])
      BY DEF Range
    <2> QED BY <2>2, <2>3, <2>4
  <1>6. s.rst \/ s.ackno \in Marks(e, w)
    <2> HIDE DEF s, w
    <2> QED BY <1>4, <1>5 DEF Acknowledges
  <1>7. ASSUME Open(e) PROVE Sound(G, a) /\ Right(e, w, K, a)
    <2>1. p.state = "ESTABLISHED" /\ p.state # "CLOSED"
      BY <1>7 DEF Open
    <2> HIDE DEF G, f, v, w, H, k, s, rest, p, q
    <2>2. s \in Packets(BytesOf(f, v)) /\ Right(e, w, Marks(f, v), p)
      BY <1>4, <1>5 DEF H
    <2>3. LET x == Input(p, s, again, take, mem) IN Sound(G, x) /\ Heard(f, k, v, x)
      BY <1>2, <1>3, <2>1, <2>2, InputSound
    <2>4. Right(e, w, Marks(f, v), Input(p, s, again, take, mem))
      BY <1>2, <1>3, <1>6, <2>1, <2>2, InputRight
    <2> QED BY <2>3, <2>4
  <1>8. ASSUME ~Open(e) PROVE Sound(G, r) /\ Right(e, w, K, r)
    <2>1. p.state # "ESTABLISHED" /\ DOMAIN p = Fields
      BY <1>2, <1>8 DEF Open, Sound
    <2> HIDE DEF G, f, v, w, H, k, s, rest, p, q, K
    <2>2. Sound(G, r)
      BY <1>2, <1>5, RefuseSound
    <2>3. Right(e, w, K, r)
      BY <1>4, <2>1, RefuseRight
    <2> QED BY <2>2, <2>3
  <1> HIDE DEF a, r
  <1>9. Sound(G, q) /\ Right(e, w, K, q)
    <2> HIDE DEF G, K, w
    <2> QED BY <1>7, <1>8
  <1> HIDE DEF q, rest
  <1> QED BY <1>1, <1>5, <1>9, StepRight

\* the timers,
LEMMA TimerKeeps ==
    ASSUME 2 * MaxBytes < Seq32, ByteInv, SenderInv, NEW e \in End, NEW slow \in BOOLEAN,
           NEW due, NEW mem \in BOOLEAN,
           NEW again \in {"now", "later", "refuse"}, tcp_tmr(e, slow, due, again, mem)
    PROVE  SenderInv'
  <1> DEFINE G == BytesOf(e, written[e])
             f == Peer(e)
             v == written[f]
             w == written[e]
             k == Len(got[e])
             p == pcb[e]
             q == Tick(p, slow, due, again, mem)
             K == Marks(f, v)
  <1>1. Settle(e, q, net[e]) /\ written' = written
    BY Zenon DEF tcp_tmr
  <1>2. /\ Pieces(G) /\ FirstBytes(G) /\ Sound(G, p) /\ Heard(f, k, v, p)
        /\ f \in End /\ v \in Nat /\ k \in Nat /\ w \in 0..MaxBytes
    BY EndFacts
  <1>3. Right(e, w, K, p)
    BY DEF SenderInv
  <1>4. Sound(G, q)
    <2> HIDE DEF G, f, v, k, p
    <2> QED BY <1>2, TickSound
  <1>5. Right(e, w, K, q)
    <2> HIDE DEF G, f, v, k, p, w, K
    <2> QED BY <1>2, <1>3, TickRight
  <1> HIDE DEF q
  <1> QED BY <1>1, <1>4, <1>5, StepRight

\* and the loss of a segment.
LEMMA LoseKeeps ==
    ASSUME ByteInv, SenderInv, NEW e \in End, NEW i \in DOMAIN net[e], Lose(e, i)
    PROVE  SenderInv'
  <1> DEFINE rest == RemoveAt(net[e], i)
             S == Packets(BytesOf(Peer(e), written[Peer(e)]))
  <1>1. net' = [net EXCEPT ![e] = rest] /\ pcb' = pcb /\ written' = written
    BY DEF Lose
  <1>2. Range(rest) \subseteq Range(net[e])
    <2>1. net[e] \in Seq(S)
      BY EndFacts
    <2> HIDE DEF S
    <2>2. i \in 1..Len(net[e])
      BY <2>1, LenProperties
    <2> QED BY <2>1, <2>2, RemovedRange
  <1> HIDE DEF rest
  <1>3. ASSUME NEW x \in End PROVE Acknowledges(Marks(x, written[x]), net'[x])
    <2>1. Acknowledges(Marks(x, written[x]), net[x])
      BY DEF SenderInv
    <2>2. CASE x = e
      <3>1. net'[x] = rest
        BY <1>1, <2>2 DEF ByteInv
      <3> QED BY <1>2, <2>1, <2>2, <3>1 DEF Acknowledges
    <2>3. CASE x # e
      <3>1. net'[x] = net[x]
        BY <1>1, <2>3 DEF ByteInv
      <3> QED BY <2>1, <3>1
    <2> QED BY <2>2, <2>3
  <1> QED BY <1>1, <1>3 DEF SenderInv

-----------------------------------------------------------------------------
(* The step that writes                                                    *)

\* What is written is joined to the last unsent segment only where that is the
\* one with the last bytes of all: tcp_enqueue compares no numbers
\* (tcp_out.c:341-350).
JoinStep ==
    \A e \in End :
        /\ written'[e] # written[e] /\ pcb[e].unsent # <<>>
        /\ TCPLEN(Last(pcb[e].unsent)) + Min({written'[e] - written[e], Mss}) <= Mss
        => SegEnd(Last(pcb[e].unsent)) = pcb[e].snd_lbb

\* So does every write.
JoinsAtEnd == [][JoinStep]_vars

\* The bytes on the queues of a block with an account stand under their numbers.
LEMMA QueuedNumbers ==
    ASSUME NEW e \in End, NEW w \in Nat, NEW K, NEW p, NEW S, Queues(p, S), Right(e, w, K, p),
           p.state = "ESTABLISHED"
    PROVE  \A seg \in Range(p.unacked \o p.unsent) : \A j \in DOMAIN seg.data :
               Plus(seg.seqno, j) = Plus(Iss[e], seg.data[j])
  <1>1. PICK a, n : Sending(e, w, a, n, p)
    BY DEF Right
  <1>2. Range(p.unacked \o p.unsent) = Held(p)
    BY RangeConcatenation DEF Queues, Held
  <1>3. ASSUME NEW seg \in Held(p)
        PROVE  \A j \in DOMAIN seg.data : Plus(seg.seqno, j) = Plus(Iss[e], seg.data[j])
    <2>1. PICK k \in 0..w : seg.seqno = At(e, k) /\ Line(seg.data, k)
      BY <1>1 DEF Sending, Complete, InPlace
    <2>2. seg.seqno = At(e, k) /\ Line(seg.data, k)
      BY <2>1
    <2> QED BY <2>2, PlaceEnd, ZenonT(60)
  <1> QED BY <1>2, <1>3

\* A write keeps the account if it joins its bytes to the last of all.
LEMMA WriteKeeps ==
    ASSUME 2 * MaxBytes < Seq32, ByteInv, SenderInv, JoinStep, NEW e \in End, NEW n \in Lengths,
           NEW copy \in BOOLEAN, NEW mem \in BOOLEAN, Write(e, n, copy, mem)
    PROVE  SenderInv' /\ NumbersRight'
  <1> DEFINE p == pcb[e]
             w == written[e]
             u == w + n
             f == Peer(e)
             v == written[f]
             K == Marks(f, v)
             data == [i \in 1..n |-> w + i]
             q == tcp_enqueue(p, data, copy, mem)
             o == tcp_output(q, mem)
             G == BytesOf(e, w)
             none == <<>>
  <1>1. /\ Open(e) /\ w + n <= MaxBytes
        /\ written' = [written EXCEPT ![e] = w + (p.snd_buf - q.snd_buf)]
        /\ Settle(e, o, net[e])
    BY Zenon DEF Write
  <1>2. /\ Sound(G, p) /\ p.out = none /\ Pieces(G) /\ p.snd_buf \in Int
        /\ w \in Nat /\ w \in 0..MaxBytes /\ written \in [End -> 0..MaxBytes]
        /\ p.state = "ESTABLISHED"
    BY <1>1, EndFacts DEF Sound, Numbers, Open
  <1>3. n \in Nat \ {0} /\ u \in Nat /\ u \in 0..MaxBytes /\ w <= u /\ w < u /\ u - w = n
    <2> HIDE DEF w
    <2> QED BY <1>1, <1>2, Constants
  <1>4. data \in Seq(1..u) /\ Len(data) = n /\ Line(data, w)
    <2> HIDE DEF w, u
    <2>1. \A i \in 1..n : w + i \in 1..u /\ w + i \in Nat
      BY <1>2, <1>3 DEF u
    <2>2. data \in Seq(1..u) /\ data \in Seq(Nat) /\ Len(data) = n /\ DOMAIN data = 1..n
      BY <1>3, <2>1
    <2>3. \A i \in 1..n : data[i] = w + i
      OBVIOUS
    <2> HIDE DEF data
    <2> QED BY <2>2, <2>3 DEF Line
  <1>5. Sound(AnyBytes(u), p)
    <2>1. Seq(1..w) \subseteq Seq(1..u)
      <3>1. 1..w \subseteq 1..u
        <4> HIDE DEF w
        <4> QED BY <1>2, <1>3
      <3> QED BY <3>1, SeqGrows
    <2>2. G \subseteq AnyBytes(u)
      <3> HIDE DEF w, u
      <3> QED BY <2>1 DEF BytesOf, AnyBytes
    <2> HIDE DEF G, p, u
    <2> QED BY <1>2, <2>2, SoundGrows
  <1> HIDE DEF data
  <1>6. \/ Alike(p, q)
        \/ /\ Sound(AnyBytes(u), q) /\ SameInput(p, q) /\ q.out = p.out
           /\ q.snd_buf = p.snd_buf - n
    <2> HIDE DEF p, u, w, f, v, K, G, o
    <2>1. Len(data) # 0
      BY <1>3, <1>4
    <2>2. LET x == tcp_enqueue(p, data, copy, mem)
          IN  \/ Alike(p, x)
              \/ /\ Sound(AnyBytes(u), x) /\ SameInput(p, x) /\ x.out = p.out
                 /\ x.snd_buf = p.snd_buf - Len(data)
      BY <1>3, <1>4, <1>5, <2>1, EnqueueSound
    <2> QED BY <1>4, <2>2
  <1>7. Right(e, w, K, p)
    BY DEF SenderInv
  <1>8. NumbersRight
    <2> SUFFICES ASSUME NEW x \in End, Open(x)
                 PROVE  \A seg \in Range(Queued(x)) : \A j \in DOMAIN seg.data :
                            Plus(seg.seqno, j) = Plus(Iss[x], seg.data[j])
      BY DEF NumbersRight
    <2> DEFINE y == pcb[x]
               z == written[x]
               L == Marks(Peer(x), written[Peer(x)])
               S == Segs(BytesOf(x, z))
    <2>1. z \in Nat /\ Queues(y, S)
      BY EndFacts DEF Sound
    <2>2. Right(x, z, L, y) /\ y.state = "ESTABLISHED"
      BY DEF SenderInv, Open
    <2> HIDE DEF y, z, L, S
    <2>3. \A seg \in Range(y.unacked \o y.unsent) : \A j \in DOMAIN seg.data :
              Plus(seg.seqno, j) = Plus(Iss[x], seg.data[j])
      BY <2>1, <2>2, QueuedNumbers
    <2> QED BY <2>3 DEF Queued, y
  <1>9. \E y \in 0..MaxBytes :
            /\ w <= y /\ written' = [written EXCEPT ![e] = y]
            /\ Right(e, y, K, q) /\ Sound(AnyBytes(u), q)
    <2> HIDE DEF q, K, o, G
    <2>1. CASE Alike(p, q)
      <3>1. Sound(AnyBytes(u), q) /\ q.snd_buf = p.snd_buf
        <4> HIDE DEF p, u
        <4> QED BY <1>5, <2>1, AlikeSound DEF Alike, SameNumbers, SameAccount
      <3>2. Right(e, w, K, q)
        <4> HIDE DEF p, w
        <4> QED BY <1>7, <2>1, AlikeKeeps, KeepsRight
      <3>3. w + (p.snd_buf - q.snd_buf) = w
        <4> HIDE DEF p, w
        <4> QED BY <1>2, <3>1
      <3> HIDE DEF w, p, u
      <3>4. written' = [written EXCEPT ![e] = w]
        BY <1>1, <3>3
      <3>5. w <= w
        BY <1>2
      <3> QED BY <1>2, <3>1, <3>2, <3>4, <3>5
    <2>2. CASE ~Alike(p, q)
      <3>1. /\ Sound(AnyBytes(u), q) /\ SameInput(p, q) /\ q.out = p.out
            /\ q.snd_buf = p.snd_buf - n
        BY <1>6, <2>2
      <3>2. w + (p.snd_buf - q.snd_buf) = u
        <4>1. \A x \in Int : x - (x - n) = n
          BY <1>3
        <4> HIDE DEF w, p
        <4> QED BY <1>2, <3>1, <4>1 DEF u
      <3>3. written' = [written EXCEPT ![e] = u]
        <4> HIDE DEF w, p, u
        <4> QED BY <1>1, <3>2
      <3>4. p.unsent # <<>> /\ TCPLEN(Last(p.unsent)) + Min({u - w, Mss}) <= Mss
            => SegEnd(Last(p.unsent)) = p.snd_lbb
        <4>1. written'[e] = u
          <5> HIDE DEF u
          <5> QED BY <1>2, <3>3
        <4>2. u # w
          BY <1>3
        <4> HIDE DEF u
        <4> QED BY <4>1, <4>2 DEF JoinStep
      <3>5. PICK a, m : Sending(e, w, a, m, p)
        BY <1>2, <1>7 DEF Right
      <3>6. Sending(e, u, a, m, q)
        <4>1. Len(data) = u - w
          BY <1>3, <1>4
        <4> HIDE DEF u, w, p
        <4>2. LET x == tcp_enqueue(p, data, copy, mem)
              IN  Alike(p, x) \/ Sending(e, u, a, m, x)
          BY <1>2, <1>3, <1>4, <1>5, <3>4, <3>5, <4>1, EnqueueSending
        <4> QED BY <2>2, <4>2 DEF q
      <3> HIDE DEF u, w, p
      <3>7. Acknowledges(K, p.out) /\ p.rcv_nxt \in K
        BY <1>7 DEF Right
      <3>8. Right(e, u, K, q)
        BY <3>1, <3>6, <3>7 DEF Right, SameInput
      <3> QED BY <1>3, <3>1, <3>3, <3>8
    <2> QED BY <2>1, <2>2
  <1>10. PICK y \in 0..MaxBytes :
            /\ w <= y /\ written' = [written EXCEPT ![e] = y]
            /\ Right(e, y, K, q) /\ Sound(AnyBytes(u), q)
    BY <1>9
  <1> DEFINE A == AnyBytes(u)
  <1>11. Sound(A, o) /\ Right(e, y, K, o)
    <2>1. Pieces(A) /\ Sound(A, q) /\ Right(e, y, K, q)
      BY <1>3, <1>10, AnyPieces
    <2> HIDE DEF A, K, q
    <2> QED BY <2>1, OutputSound, OutputRight
  <1>12. SenderInv'
    <2>1. written[e] <= y
      BY <1>10
    <2>2. Right(e, y, Marks(Peer(e), written[Peer(e)]), o)
      BY <1>11
    <2>3. Range(net[e]) \subseteq Range(net[e])
      OBVIOUS
    <2> HIDE DEF A, K, o, q
    <2> QED BY <1>1, <1>10, <1>11, <2>1, <2>2, <2>3, SettleRight
  <1> HIDE DEF A, K, q, o
  <1>13. pcb' = [pcb EXCEPT ![e] = Cleared(o)]
    BY <1>1, Zenon DEF Settle, Cleared
  <1>14. SameQueues(o, pcb'[e]) /\ pcb'[e].state = o.state
    <2>1. pcb'[e] = Cleared(o)
      BY <1>13 DEF ByteInv
    <2>2. DOMAIN o = Fields
      BY <1>11 DEF Sound
    <2> QED BY <2>1, <2>2, ClearedFields
  <1>15. ASSUME NEW x \in End, Open(x)'
         PROVE  \A seg \in Range(Queued(x)') : \A j \in DOMAIN seg.data :
                    Plus(seg.seqno, j) = Plus(Iss[x], seg.data[j])
    <2>1. CASE x = e
      <3>1. o.state = "ESTABLISHED" /\ Queued(x)' = o.unacked \o o.unsent
        BY <1>14, <1>15, <2>1 DEF Open, Queued, SameQueues
      <3>2. Queues(o, Segs(A)) /\ y \in Nat
        BY <1>11, Constants DEF Sound
      <3>3. \A seg \in Range(o.unacked \o o.unsent) : \A j \in DOMAIN seg.data :
                Plus(seg.seqno, j) = Plus(Iss[e], seg.data[j])
        BY <1>11, <3>1, <3>2, QueuedNumbers
      <3> QED BY <2>1, <3>1, <3>3
    <2>2. CASE x # e
      <3>1. pcb'[x] = pcb[x]
        BY <1>13, <2>2 DEF ByteInv
      <3>2. Open(x) /\ Queued(x)' = Queued(x)
        BY <1>15, <3>1 DEF Open, Queued
      <3> QED BY <1>8, <3>2 DEF NumbersRight
    <2> QED BY <2>1, <2>2
  <1>16. NumbersRight'
    BY <1>15 DEF NumbersRight
  <1> QED BY <1>12, <1>16

-----------------------------------------------------------------------------
(* Nothing is forgotten                                                    *)

\* The account begins with nothing written.
LEMMA SenderInit == Init => SenderInv
  <1> SUFFICES ASSUME Init, NEW e \in End
               PROVE  /\ Right(e, written[e], Marks(Peer(e), written[Peer(e)]), pcb[e])
                      /\ Acknowledges(Marks(e, written[e]), net[e])
    BY DEF SenderInv
  <1> DEFINE f == Peer(e)
             none == <<>>
             p == pcb[e]
  <1>1. f \in End
    BY Ends
  <1>2. PICK nodelay \in NoDelay : pcb = [x \in End |-> Pcb(x, nodelay)]
    BY DEF Init
  <1>3. written[e] = 0 /\ written[f] = 0 /\ net[e] = none /\ p = Pcb(e, nodelay)
    <2>1. written = [x \in End |-> 0] /\ net = [x \in End |-> none]
      BY DEF Init
    <2> HIDE DEF f, none
    <2> QED BY <1>1, <1>2, <2>1
  <1>4. /\ p.unsent = none /\ p.unacked = none /\ p.out = none /\ p.rcv_nxt = Iss[f]
        /\ p.snd_nxt = Iss[e] /\ p.snd_lbb = Iss[e] /\ p.lastack = Iss[e] /\ p.snd_buf = SndBuf
    <2> HIDE DEF p
    <2> QED BY <1>3 DEF Pcb
  <1> HIDE DEF p, f
  <1>5. \A x \in End : At(x, 0) = Iss[x]
    <2> TAKE x \in End
    <2>1. Iss[x] \in 0..(Seq32 - 1) /\ Seq32 \in Nat \ {0}
      BY Constants
    <2>2. Iss[x] % Seq32 = Iss[x]
      BY <2>1
    <2> QED BY <2>1, <2>2 DEF At, Plus
  <1>6. Range(none) = {} /\ IsInjective(none)
    BY DEF Range, IsInjective
  <1> HIDE DEF none
  <1>7. p.rcv_nxt \in Marks(f, 0)
    <2>1. At(f, 0) \in Marks(f, 0)
      BY DEF Marks
    <2> QED BY <1>1, <1>4, <1>5, <2>1
  <1>8. \A K : Acknowledges(K, none)
    BY <1>6 DEF Acknowledges
  <1>9. Sending(e, 0, 0, 0, p)
    <2>1. Apart(p) /\ Held(p) = {}
      BY <1>4, <1>6 DEF Apart, Held
    <2>2. Complete(e, 0, 0, Held(p))
      BY <2>1 DEF Complete
    <2>3. SndBuf - (0 - 0) = SndBuf
      BY Constants
    <2> QED BY <1>4, <1>5, <2>1, <2>2, <2>3 DEF Sending
  <1>10. Right(e, 0, Marks(f, 0), p)
    BY <1>4, <1>7, <1>8, <1>9 DEF Right
  <1> QED BY <1>3, <1>8, <1>10 DEF p, f

\* Every step keeps both invariants as long as a write joins its bytes to the
\* last of all.
LEMMA SenderStep ==
    ASSUME 2 * MaxBytes < Seq32, ByteInv, SenderInv, [Next]_vars, [JoinStep]_vars
    PROVE  ByteInv' /\ SenderInv'
  <1>0. MaxBytes < Seq32
    BY Constants
  <1>1. CASE UNCHANGED vars
    <2>1. pcb' = pcb /\ net' = net /\ written' = written /\ got' = got /\ unread' = unread
      BY <1>1 DEF vars
    <2> QED BY <2>1 DEF ByteInv, SenderInv
  <1>2. ASSUME NEW e \in End, NEW n \in Lengths, NEW copy \in Copies, NEW mem \in BOOLEAN,
               Write(e, n, copy, mem), ~UNCHANGED vars
        PROVE  ByteInv' /\ SenderInv'
    <2>1. copy \in BOOLEAN /\ JoinStep
      BY <1>2, StreamAssumption
    <2>2. SenderInv' /\ NumbersRight'
      BY <1>2, <2>1, WriteKeeps
    <2> QED BY <1>2, <2>1, <2>2, WriteStep
  <1>3. ASSUME NEW e \in End, NEW mem \in BOOLEAN, Recved(e, mem)
        PROVE  ByteInv' /\ SenderInv'
    BY <1>3, RecvedStep, RecvedKeeps
  <1>4. ASSUME NEW e \in End, NEW i \in DOMAIN net[e], NEW stays \in BOOLEAN, NEW mem \in BOOLEAN,
               NEW again \in Answers(pcb[e].refused_data),
               NEW take \in Answers(net[e][i].data),
               tcp_input(e, i, stays, again, take, mem)
        PROVE  ByteInv' /\ SenderInv'
    <2>1. again \in {"now", "later", "refuse"} /\ take \in {"now", "later", "refuse"}
      BY AnswersAre
    <2> QED BY <1>0, <1>4, <2>1, InputStep, InputKeeps
  <1>5. ASSUME NEW e \in End, NEW slow \in BOOLEAN, NEW mem \in BOOLEAN,
               NEW again \in Answers(pcb[e].refused_data), NEW due \in {FALSE, slow},
               tcp_tmr(e, slow, due, again, mem)
        PROVE  ByteInv' /\ SenderInv'
    <2>1. again \in {"now", "later", "refuse"}
      BY AnswersAre
    <2> QED BY <1>5, <2>1, TimerStep, TimerKeeps
  <1>6. ASSUME NEW e \in End, NEW i \in DOMAIN net[e], Lose(e, i)
        PROVE  ByteInv' /\ SenderInv'
    BY <1>6, LoseStep, LoseKeeps
  <1> QED BY <1>1, <1>2, <1>3, <1>4, <1>5, <1>6 DEF Next

\* The places of a list at which byte b is: a segment and a place in it.
Places(list, b) ==
    {x \in (DOMAIN list) \X (1..Mss) :
        x[2] <= TCPLEN(list[x[1]]) /\ list[x[1]].data[x[2]] = b}

\* A byte that is held is at one place of one segment.
LEMMA HeldOnce ==
    ASSUME NEW e, NEW w \in Nat, NEW a, NEW list, IsInjective(list),
           Complete(e, w, a, Range(list)), NEW b \in (a + 1)..w
    PROVE  Cardinality(Places(list, b)) = 1
  <1> DEFINE of == {x \in (DOMAIN list) \X (1..Mss) :
                       x[2] <= TCPLEN(list[x[1]]) /\ list[x[1]].data[x[2]] = b}
  <1>1. PICK seg \in Range(list) : b \in Range(seg.data)
    BY DEF Complete
  <1>2. PICK i \in DOMAIN list : list[i] = seg
    BY DEF Range
  <1>3. PICK j \in DOMAIN seg.data : seg.data[j] = b
    BY <1>1 DEF Range
  <1>4. PICK k \in 0..w : Line(seg.data, k) /\ Len(seg.data) \in 1..Mss
    BY DEF Complete, InPlace
  <1>5. DOMAIN seg.data = 1..Len(seg.data) /\ Len(seg.data) \in Nat /\ Mss \in Nat
    BY <1>4, LenProperties, Constants DEF Line
  <1>6. ASSUME NEW x \in of PROVE x = <<i, j>>
    <2>1. /\ x \in (DOMAIN list) \X (1..Mss) /\ x[1] \in DOMAIN list /\ x[2] \in 1..Mss
          /\ x[2] <= Len(list[x[1]].data) /\ list[x[1]].data[x[2]] = b
      BY DEF TCPLEN
    <2> DEFINE t == list[x[1]]
               y == x[2]
    <2>2. t \in Range(list)
      BY <2>1 DEF Range
    <2>3. PICK l \in 0..w : Line(t.data, l)
      BY <2>2 DEF Complete, InPlace
    <2>4. DOMAIN t.data = 1..Len(t.data) /\ Len(t.data) \in Nat
      BY <2>3, LenProperties DEF Line
    <2>5. y \in DOMAIN t.data /\ t.data[y] = b
      BY <2>1, <2>4, <1>5
    <2>6. b \in Range(t.data)
      BY <2>5 DEF Range
    <2>7. t = seg
      BY <1>1, <2>2, <2>6 DEF Complete
    <2>8. x[1] = i
      BY <1>2, <2>1, <2>7 DEF IsInjective
    <2>9. x[2] = j
      <3>1. seg.data[j] = k + j /\ seg.data[y] = k + y /\ y \in Nat /\ j \in Nat /\ k \in Nat
        BY <1>3, <1>4, <1>5, <2>5, <2>7, SMTT(30) DEF Line
      <3>2. k + j = k + y
        BY <1>3, <2>5, <2>7, <3>1
      <3> QED BY <3>1, <3>2
    <2> QED BY <2>1, <2>8, <2>9
  <1>7. <<i, j>> \in of
    <2>1. j \in 1..Mss /\ j <= TCPLEN(list[i]) /\ list[i].data[j] = b
      BY <1>2, <1>3, <1>4, <1>5 DEF TCPLEN
    <2> QED BY <2>1
  <1> HIDE DEF of
  <1>8. of = {<<i, j>>}
    BY <1>6, <1>7
  <1>9. Cardinality(of) = 1
    BY <1>8, FS_Singleton
  <1> QED BY <1>9 DEF of, Places

\* Both invariants say that nothing is forgotten.
LEMMA NotForgotten ==
    ASSUME 2 * MaxBytes < Seq32, ByteInv, SenderInv
    PROVE  NothingForgotten
  <1> SUFFICES ASSUME NEW e \in End, Open(e)
               PROVE  LET acked == (pcb[e].lastack - Iss[e]) % Seq32
                          of(b) == {x \in (DOMAIN Queued(e)) \X (1..Mss) :
                                      /\ x[2] <= TCPLEN(Queued(e)[x[1]])
                                      /\ Queued(e)[x[1]].data[x[2]] = b}
                      IN  /\ \A b \in (acked + 1)..written[e] : Cardinality(of(b)) = 1
                          /\ \A seg \in Range(Queued(e)) : \A j \in DOMAIN seg.data :
                                 Plus(seg.seqno, j) = Plus(Iss[e], seg.data[j])
    BY Zenon DEF NothingForgotten
  <1> DEFINE p == pcb[e]
             w == written[e]
             K == Marks(Peer(e), written[Peer(e)])
             S == Segs(BytesOf(e, w))
             list == Queued(e)
  <1>1. w \in Nat /\ w \in 0..MaxBytes /\ Queues(p, S) /\ Right(e, w, K, p) /\ p.state = "ESTABLISHED"
    BY EndFacts DEF Sound, SenderInv, Open
  <1>2. list = p.unacked \o p.unsent
    BY DEF Queued
  <1> HIDE DEF p, w, K, S, list
  <1>3. \A seg \in Range(list) : \A j \in DOMAIN seg.data :
            Plus(seg.seqno, j) = Plus(Iss[e], seg.data[j])
    BY <1>1, <1>2, QueuedNumbers
  <1>4. PICK a, n : Sending(e, w, a, n, p)
    BY <1>1 DEF Right
  <1>5. (p.lastack - Iss[e]) % Seq32 = a
    <2>1. p.lastack = At(e, a) /\ a \in Int /\ 0 <= a /\ a <= MaxBytes /\ Seq32 \in Nat \ {0}
          /\ MaxBytes \in Nat /\ Iss[e] \in 0..(Seq32 - 1)
      BY <1>1, <1>4, Constants DEF Sending
    <2>2. Iss[e] = At(e, 0)
      <3>1. Iss[e] % Seq32 = Iss[e]
        BY <2>1
      <3> QED BY <2>1, <3>1 DEF At, Plus
    <2>3. (At(e, a) - At(e, 0)) % Seq32 = (a - 0) % Seq32
      BY <2>1, AtDistance
    <2>4. (a - 0) % Seq32 = a
      BY <2>1
    <2> QED BY <2>1, <2>2, <2>3, <2>4
  <1>6. IsInjective(list) /\ Complete(e, w, a, Range(list))
    <2>1. p.unacked \in Seq(S) /\ p.unsent \in Seq(S)
      BY <1>1 DEF Queues
    <2>2. Range(p.unacked \o p.unsent) = Held(p)
      BY <2>1, RangeConcatenation DEF Held
    <2>3. IsInjective(p.unacked \o p.unsent)
      BY <1>4, <2>1, NoRepeats DEF Sending, Apart
    <2> QED BY <1>2, <1>4, <2>2, <2>3 DEF Sending
  <1>7. ASSUME NEW b \in (a + 1)..w
        PROVE  Cardinality(Places(list, b)) = 1
    BY <1>1, <1>6, HeldOnce
  <1> QED BY <1>3, <1>5, <1>7 DEF p, w, list, Places

\* As long as a write joins its bytes to the segment with the last bytes, or to
\* none, nothing is forgotten (tcp_enqueue, tcp_output, tcp_receive, tcp_rexmit,
\* tcp_rexmit_rto): what is written and not acknowledged is on the two queues,
\* each byte once and under its own number, whatever is lost, doubled or
\* overtaken and wherever the numbers wrap.  All that is written has to stay
\* within half a round of the numbers, where SEQ_LT is the order of the bytes.
THEOREM NoneForgotten ==
    ASSUME 2 * MaxBytes < Seq32
    PROVE  Spec /\ JoinsAtEnd => []NothingForgotten
  <1>1. ByteInv /\ SenderInv /\ [Next]_vars /\ [JoinStep]_vars => ByteInv' /\ SenderInv'
    BY SenderStep
  <1>2. Init => ByteInv /\ SenderInv
    BY ByteInit, SenderInit
  <1>3. ByteInv /\ SenderInv => NothingForgotten
    BY NotForgotten
  <1> QED BY <1>1, <1>2, <1>3, PTL DEF Spec, JoinsAtEnd

\* The connection is then a byte stream, without a word about the queues
\* (StreamKept, with the account the sender keeps).
THEOREM StreamOfWrites ==
    ASSUME 2 * MaxBytes < Seq32
    PROVE  Spec /\ JoinsAtEnd => IsByteStream
  <1>1. MaxBytes < Seq32
    BY Constants
  <1>2. Spec /\ []NothingForgotten => IsByteStream
    BY <1>1, StreamKept
  <1> QED BY <1>2, NoneForgotten, PTL

\* What is free of the send buffer (tcp_write, tcp_enqueue, tcp_receive)
BufferCounted ==
    \A e \in End : Open(e) =>
        pcb[e].snd_buf + ((pcb[e].snd_lbb - pcb[e].lastack) % Seq32) = SndBuf

\* The bytes written and not acknowledged and the free part of the send buffer
\* make up TCP_SND_BUF: snd_buf, which tcp_enqueue lowers and tcp_receive raises
\* by what an acknowledgment covers, never drifts (a part of SendBufferKept).
THEOREM BufferNeverDrifts ==
    ASSUME 2 * MaxBytes < Seq32
    PROVE  Spec /\ JoinsAtEnd => []BufferCounted
  <1>1. ByteInv /\ SenderInv => BufferCounted
    <2> SUFFICES ASSUME ByteInv, SenderInv, NEW e \in End, Open(e)
                 PROVE  pcb[e].snd_buf + ((pcb[e].snd_lbb - pcb[e].lastack) % Seq32) = SndBuf
      BY DEF BufferCounted
    <2> DEFINE p == pcb[e]
               w == written[e]
               K == Marks(Peer(e), written[Peer(e)])
    <2>1. w \in 0..MaxBytes /\ Right(e, w, K, p) /\ p.state = "ESTABLISHED"
      BY EndFacts DEF Sound, SenderInv, Open
    <2> HIDE DEF p, w, K
    <2>2. PICK a, n : Sending(e, w, a, n, p)
      BY <2>1 DEF Right
    <2>3. /\ p.lastack = At(e, a) /\ p.snd_lbb = At(e, w) /\ p.snd_buf = SndBuf - (w - a)
          /\ a \in Int /\ 0 <= a /\ a <= w
      BY <2>1, <2>2 DEF Sending
    <2>4. w \in Int /\ w <= MaxBytes /\ MaxBytes \in Nat /\ Seq32 \in Nat \ {0} /\ SndBuf \in Nat
      BY <2>1, Constants
    <2>5. (At(e, w) - At(e, a)) % Seq32 = (w - a) % Seq32
      BY <2>3, <2>4, AtDistance
    <2>6. (w - a) % Seq32 = w - a
      BY <2>3, <2>4
    <2>7. (p.snd_lbb - p.lastack) % Seq32 = w - a
      BY <2>3, <2>5, <2>6
    <2> QED BY <2>3, <2>4, <2>7 DEF p
  <1>2. ByteInv /\ SenderInv /\ [Next]_vars /\ [JoinStep]_vars => ByteInv' /\ SenderInv'
    BY SenderStep
  <1>3. Init => ByteInv /\ SenderInv
    BY ByteInit, SenderInit
  <1> QED BY <1>1, <1>2, <1>3, PTL DEF Spec, JoinsAtEnd
=============================================================================
