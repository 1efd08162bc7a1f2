--------------------------- MODULE NetInputProofs ---------------------------
(***************************************************************************)
(* For every number of descriptors, pbufs and messages: the input task and *)
(* the DMA stay in step, a suspended DMA is resumed, no message and no     *)
(* pbuf is lost, and each interface is a lossy FIFO.                       *)
(*                                                                         *)
(* What is defined by recursion over the mailbox, its pbufs and the frames *)
(* of a netif in it, is reasoned about by the least index at which a claim *)
(* fails (Least).                                                          *)
(***************************************************************************)
EXTENDS NetInput, SequenceTheorems, FiniteSetTheorems, WellFoundedInduction, TLAPS

\* The DMA is about to write only to a descriptor that is its own.
DmaOwns == dmast = "ready" => own[dma] = "dma"

\* A task that is in tcpip_input has a frame to pass on.
Holding == \A n \in Netifs : pc[n] \in {"input", "post"} => hold[n] # None

\* A task that polls or sleeps has none.
Empty == \A n \in Netifs : pc[n] \in {"poll", "sleep"} => hold[n] = None

\* The inductive invariant. RingInStep is not inductive without DmaOwns, nor
\* MessagesKept without Holding: a message with no frame would be lost to the
\* count when tcpip_thread fetches it. PbufsKept is not without Empty: the next
\* frame would take the place of one that still holds its pbufs.
IInv ==
    /\ TypeOK /\ MessagesKept /\ RingInStep /\ DmaOwns /\ DmaNotStuck
    /\ Holding /\ Empty /\ PbufsKept

\* What the typing of the state and the assumption on the constants give.
LEMMA Facts ==
  ASSUME TypeOK
  PROVE  /\ N \in Nat /\ N >= 2 /\ MsgSize \in Nat
         /\ dma \in 0..(N-1) /\ get \in 0..(N-1) /\ desc \in 0..(N-1)
         /\ pool \in Nat /\ msgs \in Nat /\ reass \in Nat
         /\ mbox \in Seq(Messages) /\ enc \in Seq(Parts)
BY NetInputAssumption DEF TypeOK, Descs

\* Taking from a queue and adding to it keep it one.
LEMMA Queue ==
  ASSUME NEW S, NEW s \in Seq(S)
  PROVE  /\ Len(s) \in Nat
         /\ s # <<>> => /\ Head(s) \in S
                        /\ Tail(s) \in Seq(S)
                        /\ Len(Tail(s)) = Len(s) - 1
         /\ \A e \in S : /\ Append(s, e) \in Seq(S)
                         /\ Len(Append(s, e)) = Len(s) + 1
BY HeadTailProperties, AppendProperties, LenProperties

\* A frame takes a natural number of pbufs.
LEMMA SizeType == \A n \in Netifs : \A k : Size(n, k) \in Nat
BY DEF Size

\* The chain of the descriptors stays on the ring and has no loop of one.
LEMMA SuccType == \A i \in Descs : Succ(i) \in Descs /\ Succ(i) # i
BY NetInputAssumption DEF Succ, Descs

-----------------------------------------------------------------------------
(* Recursion and induction over a queue                                    *)

\* Every set of naturals with a member has a least one.
LEMMA Least ==
  ASSUME NEW S \in SUBSET Nat, S # {}
  PROVE  \E x \in S : \A y \in S : x <= y
<1> DEFINE R == {ss \in Nat \X Nat : ss[1] < ss[2]}
<1>1. IsWellFoundedOn(R, Nat)
  BY NatLessThanWellFounded DEF OpToRel
<1>2. PICK x \in S : \A y \in S : ~(<<y, x>> \in R)
  <2> HIDE DEF R
  <2> QED BY <1>1, WFMin
<1>3. \A y \in S : ~(y < x)
  <2> TAKE y \in S
  <2>1. <<y, x>> \in R <=> y < x
    OBVIOUS
  <2> QED BY <2>1, <1>2
<1> QED BY <1>3

\* A value for 0 and a step from each number to the next make a function on
\* 0..n.
LEMMA Recursion ==
  ASSUME NEW X, NEW b \in X, NEW n \in Nat, NEW s \in [1..n -> [X -> X]]
  PROVE  \E f \in [0..n -> X] : f[0] = b /\ \A i \in 1..n : f[i] = s[i][f[i - 1]]
<1> DEFINE Good(m, f) == /\ f \in [0..m -> X]
                         /\ \A i \in 0..m : f[i] = IF i = 0 THEN b ELSE s[i][f[i - 1]]
           Bad == {m \in 0..n : ~ \E f : Good(m, f)}
<1>1. Bad = {}
  <2> SUFFICES ASSUME Bad # {} PROVE FALSE
    OBVIOUS
  <2>1. PICK m \in Bad : \A x \in Bad : m <= x
    <3>1. Bad \in SUBSET Nat
      OBVIOUS
    <3> HIDE DEF Bad
    <3> QED BY <3>1, Least
  <2>2. m \in 0..n /\ ~ \E f : Good(m, f)
    BY <2>1
  <2>3. m # 0
    <3> DEFINE f == [k \in 0..0 |-> b]
    <3>1. Good(0, f)
      OBVIOUS
    <3> QED BY <2>2, <3>1
  <2>4. m \in 1..n /\ m - 1 \in 0..n /\ m - 1 \notin Bad
    <3> HIDE DEF Bad, Good
    <3>1. m \in 1..n /\ m - 1 \in 0..n /\ ~(m <= m - 1)
      BY <2>2, <2>3
    <3> QED BY <2>1, <3>1
  <2>5. PICK f : Good(m - 1, f)
    BY <2>4
  <2> DEFINE g == [i \in 0..m |-> IF i = m THEN s[m][f[m - 1]] ELSE f[i]]
  <2>6. Good(m, g)
    <3>1. f[m - 1] \in X /\ s[m] \in [X -> X]
      BY <2>4, <2>5
    <3>2. s[m][f[m - 1]] \in X
      BY <3>1
    <3>3. g \in [0..m -> X]
      <4>1. \A i \in 0..m : i # m => i \in 0..(m - 1) /\ f[i] \in X
        BY <2>4, <2>5
      <4> QED BY <3>2, <4>1
    <3>4. \A i \in 0..m : g[i] = IF i = 0 THEN b ELSE s[i][g[i - 1]]
      <4> TAKE i \in 0..m
      <4>1. CASE i = m
        <5>1. g[i] = s[m][f[m - 1]] /\ g[m - 1] = f[m - 1]
          BY <2>4, <4>1
        <5> QED BY <2>3, <4>1, <5>1
      <4>2. CASE i # m
        <5>1. i \in 0..(m - 1) /\ g[i] = f[i]
          BY <2>4, <4>2
        <5>2. f[i] = IF i = 0 THEN b ELSE s[i][f[i - 1]]
          BY <2>5, <5>1
        <5>3. i # 0 => g[i - 1] = f[i - 1]
          BY <2>4, <5>1
        <5> HIDE DEF g
        <5> QED BY <5>1, <5>2, <5>3
      <4> QED BY <4>1, <4>2
    <3> HIDE DEF g
    <3> QED BY <3>3, <3>4
  <2> QED BY <2>2, <2>6
<1>2. PICK f : Good(n, f)
  <2>1. n \in 0..n
    OBVIOUS
  <2> QED BY <1>1, <2>1
<1>3. f[0] = b /\ \A i \in 1..n : f[i] = s[i][f[i - 1]]
  <2>1. 0 \in 0..n /\ \A i \in 1..n : i \in 0..n /\ i # 0
    OBVIOUS
  <2> QED BY <1>2, <2>1
<1> QED BY <1>2, <1>3

\* The messages of a queue, one by one
LEMMA Entry ==
  ASSUME NEW q \in Seq(Messages)
  PROVE  /\ Len(q) \in Nat
         /\ \A i \in 1..Len(q) : q[i] \in Messages /\ q[i].netif \in Netifs /\ q[i].k \in Parts
<1>1. Len(q) \in Nat /\ \A i \in 1..Len(q) : q[i] \in Messages
  BY LenProperties, ElementOfSeq
<1> QED BY <1>1 DEF Messages

\* The sum that PbufsIn takes is one: step by step over the messages.
LEMMA PbufsInIs ==
  ASSUME NEW q \in Seq(Messages)
  PROVE  \E f \in [0..Len(q) -> Nat] :
            /\ f[0] = 0 /\ PbufsIn(q) = f[Len(q)]
            /\ \A i \in 1..Len(q) : f[i] = f[i - 1] + Size(q[i].netif, q[i].k)
<1> DEFINE n == Len(q)
           s == [i \in 1..n |-> [x \in Nat |-> x + Size(q[i].netif, q[i].k)]]
           rhs(g) == [i \in 0..n |-> IF i = 0 THEN 0
                                     ELSE g[i - 1] + Size(q[i].netif, q[i].k)]
<1>1. n \in Nat /\ \A i \in 1..n : Size(q[i].netif, q[i].k) \in Nat
  BY Entry, SizeType
<1>2. s \in [1..n -> [Nat -> Nat]]
  BY <1>1
<1>3. PICK f \in [0..n -> Nat] : f[0] = 0 /\ \A i \in 1..n : f[i] = s[i][f[i - 1]]
  <2> HIDE DEF s, n
  <2> DEFINE X == Nat
             zero == 0
  <2>1. zero \in X /\ n \in Nat /\ s \in [1..n -> [X -> X]]
    BY <1>1, <1>2
  <2>2. \E f \in [0..n -> X] : f[0] = zero /\ \A i \in 1..n : f[i] = s[i][f[i - 1]]
    <3> HIDE DEF X, zero
    <3> QED BY <2>1, Recursion
  <2> QED BY <2>2
<1>4. f = rhs(f)
  <2>1. \A i \in 1..n : s[i][f[i - 1]] = f[i - 1] + Size(q[i].netif, q[i].k)
    <3> TAKE i \in 1..n
    <3>1. i - 1 \in 0..n
      BY <1>1
    <3>2. f[i - 1] \in Nat
      <4> HIDE DEF s
      <4> QED BY <1>3, <3>1
    <3> QED BY <3>2
  <2>2. \A i \in 0..n : f[i] = IF i = 0 THEN 0 ELSE f[i - 1] + Size(q[i].netif, q[i].k)
    <3> TAKE i \in 0..n
    <3>1. i # 0 => i \in 1..n
      BY <1>1
    <3> HIDE DEF s
    <3> QED BY <1>3, <2>1, <3>1
  <2> HIDE DEF s
  <2> QED BY <1>3, <2>2
<1> DEFINE sum == CHOOSE g : g = rhs(g)
<1>5. sum = rhs(sum) /\ PbufsIn(q) = sum[n]
  <2>1. PbufsIn(q) = sum[n]
    BY DEF PbufsIn
  <2> HIDE DEF rhs
  <2> QED BY <1>4, <2>1
<1>6. sum[0] = 0 /\ \A i \in 1..n : sum[i] = sum[i - 1] + Size(q[i].netif, q[i].k)
  <2>1. \A i \in 0..n : sum[i] = IF i = 0 THEN 0 ELSE sum[i - 1] + Size(q[i].netif, q[i].k)
    <3> HIDE DEF sum
    <3> QED BY <1>5
  <2>2. 0 \in 0..n /\ \A i \in 1..n : i \in 0..n /\ i # 0
    BY <1>1
  <2> HIDE DEF sum, n
  <2> QED BY <2>1, <2>2
<1>7. \A i \in 0..n : sum[i] \in Nat
  <2> HIDE DEF sum
  <2> DEFINE Bad == {i \in 0..n : sum[i] \notin Nat}
  <2> SUFFICES ASSUME Bad # {} PROVE FALSE
    OBVIOUS
  <2>1. PICK i \in Bad : \A j \in Bad : i <= j
    <3>1. Bad \in SUBSET Nat
      BY <1>1
    <3> HIDE DEF Bad
    <3> QED BY <3>1, Least
  <2>2. i \in 1..n /\ i - 1 \in 0..n /\ ~(i <= i - 1)
    BY <1>1, <1>6, <2>1
  <2>3. sum[i - 1] \in Nat
    BY <2>1, <2>2
  <2> QED BY <1>1, <1>6, <2>1, <2>2, <2>3
<1>8. sum \in [0..n -> Nat]
  <2>1. sum = [i \in 0..n |-> sum[i]]
    <3> HIDE DEF sum
    <3> QED BY <1>5
  <2> HIDE DEF sum
  <2> QED BY <1>7, <2>1
<1> HIDE DEF sum
<1> QED BY <1>5, <1>6, <1>8

\* The sum is the only one.
LEMMA PbufsInOnly ==
  ASSUME NEW q \in Seq(Messages), NEW f, f[0] = 0,
         \A i \in 1..Len(q) : f[i] = f[i - 1] + Size(q[i].netif, q[i].k)
  PROVE  PbufsIn(q) = f[Len(q)]
<1>1. PICK g \in [0..Len(q) -> Nat] :
         /\ g[0] = 0 /\ PbufsIn(q) = g[Len(q)]
         /\ \A i \in 1..Len(q) : g[i] = g[i - 1] + Size(q[i].netif, q[i].k)
  BY PbufsInIs
<1>2. Len(q) \in Nat
  BY Entry
<1> DEFINE Bad == {i \in 0..Len(q) : f[i] # g[i]}
<1> SUFFICES ASSUME Bad # {} PROVE FALSE
  BY <1>1, <1>2
<1>3. PICK i \in Bad : \A j \in Bad : i <= j
  <2>1. Bad \in SUBSET Nat
    BY <1>2
  <2> HIDE DEF Bad
  <2> QED BY <2>1, Least
<1>4. i \in 1..Len(q) /\ i - 1 \in 0..Len(q) /\ ~(i <= i - 1)
  BY <1>1, <1>2, <1>3
<1>5. f[i - 1] = g[i - 1]
  BY <1>3, <1>4
<1> QED BY <1>1, <1>3, <1>4, <1>5

\* A message at the end, or one less at the front
LEMMA PbufsInQueue ==
  /\ PbufsIn(<<>>) = 0
  /\ \A q \in Seq(Messages) :
       /\ PbufsIn(q) \in Nat
       /\ \A e \in Messages : PbufsIn(Append(q, e)) = PbufsIn(q) + Size(e.netif, e.k)
       /\ q # <<>> => PbufsIn(q) = Size(Head(q).netif, Head(q).k) + PbufsIn(Tail(q))
<1>1. PbufsIn(<<>>) = 0
  <2>1. <<>> \in Seq(Messages) /\ Len(<<>>) = 0
    BY EmptySeq
  <2> QED BY <2>1, PbufsInIs
<1>2. ASSUME NEW q \in Seq(Messages) PROVE PbufsIn(q) \in Nat /\ Len(q) \in Nat
  <2>1. Len(q) \in 0..Len(q) /\ Len(q) \in Nat
    BY Entry
  <2> QED BY <2>1, PbufsInIs
<1>3. ASSUME NEW q \in Seq(Messages), NEW e \in Messages
      PROVE  PbufsIn(Append(q, e)) = PbufsIn(q) + Size(e.netif, e.k)
  <2>1. PICK f \in [0..Len(q) -> Nat] :
           /\ f[0] = 0 /\ PbufsIn(q) = f[Len(q)]
           /\ \A i \in 1..Len(q) : f[i] = f[i - 1] + Size(q[i].netif, q[i].k)
    BY PbufsInIs
  <2> DEFINE r == Append(q, e)
             g == [i \in 0..Len(r) |-> IF i = Len(r) THEN f[Len(q)] + Size(e.netif, e.k)
                                       ELSE f[i]]
  <2>2. /\ r \in Seq(Messages) /\ Len(r) = Len(q) + 1 /\ Len(q) \in Nat
        /\ r[Len(r)] = e /\ \A i \in 1..Len(q) : r[i] = q[i]
    BY <1>2, AppendProperties
  <2> HIDE DEF r
  <2>3. g[0] = 0 /\ g[Len(r)] = f[Len(q)] + Size(e.netif, e.k)
    BY <2>1, <2>2
  <2>4. ASSUME NEW i \in 1..Len(r) PROVE g[i] = g[i - 1] + Size(r[i].netif, r[i].k)
    <3>1. CASE i = Len(r)
      <4>1. g[i - 1] = f[Len(q)]
        BY <2>2, <3>1
      <4> QED BY <2>2, <2>3, <3>1, <4>1
    <3>2. CASE i # Len(r)
      <4>1. i \in 1..Len(q) /\ g[i] = f[i] /\ g[i - 1] = f[i - 1]
        BY <2>2, <3>2
      <4> HIDE DEF g
      <4> QED BY <2>1, <2>2, <4>1
    <3> QED BY <3>1, <3>2
  <2>5. PbufsIn(r) = g[Len(r)]
    <3> HIDE DEF g
    <3> QED BY <2>2, <2>3, <2>4, PbufsInOnly
  <2> QED BY <2>1, <2>3, <2>5 DEF r
<1>4. ASSUME NEW q \in Seq(Messages), q # <<>>
      PROVE  PbufsIn(q) = Size(Head(q).netif, Head(q).k) + PbufsIn(Tail(q))
  <2> DEFINE r == Tail(q)
  <2>1. /\ r \in Seq(Messages) /\ Len(r) = Len(q) - 1 /\ Len(q) \in Nat /\ Len(r) \in Nat
        /\ \A i \in 1..Len(r) : r[i] = q[i + 1]
        /\ Head(q) = q[1] /\ Head(q) \in Messages
    <3>1. Head(q) = q[1]
      BY <1>4
    <3>2. Tail(q) \in Seq(Messages) /\ Head(q) \in Messages /\ Len(Tail(q)) = Len(q) - 1
      BY <1>4, Queue
    <3>3. \A i \in 1..Len(Tail(q)) : Tail(q)[i] = q[i + 1]
      BY <1>4, <3>2, HeadTailProperties
    <3>4. Len(q) \in Nat /\ Len(Tail(q)) \in Nat
      BY <3>2, Entry
    <3> QED BY <3>1, <3>2, <3>3, <3>4
  <2> DEFINE x == Size(Head(q).netif, Head(q).k)
  <2> HIDE DEF r
  <2>2. PICK f \in [0..Len(q) -> Nat] :
           /\ f[0] = 0 /\ PbufsIn(q) = f[Len(q)]
           /\ \A i \in 1..Len(q) : f[i] = f[i - 1] + Size(q[i].netif, q[i].k)
    BY PbufsInIs
  <2>3. x \in Nat
    BY <2>1, SizeType DEF Messages
  <2> DEFINE g == [i \in 0..Len(r) |-> f[i + 1] - x]
  <2>4. f[1] = x
    BY <2>1, <2>2, <2>3
  <2> HIDE DEF x
  <2>5. g[0] = 0 /\ g[Len(r)] = f[Len(q)] - x
    BY <2>1, <2>3, <2>4
  <2>6. ASSUME NEW i \in 1..Len(r) PROVE g[i] = g[i - 1] + Size(r[i].netif, r[i].k)
    <3>1. /\ i + 1 \in 1..Len(q) /\ i + 1 \in 0..Len(q) /\ i \in 0..Len(q)
          /\ g[i] = f[i + 1] - x /\ g[i - 1] = f[i] - x /\ r[i] = q[i + 1]
      BY <2>1
    <3>2. f[i + 1] = f[i] + Size(r[i].netif, r[i].k) /\ f[i] \in Nat
      BY <2>2, <3>1
    <3>3. Size(r[i].netif, r[i].k) \in Nat
      BY <2>1, Entry, SizeType
    <3> HIDE DEF g
    <3> QED BY <2>3, <3>1, <3>2, <3>3
  <2>7. PbufsIn(r) = g[Len(r)]
    <3> HIDE DEF g
    <3> QED BY <2>1, <2>5, <2>6, PbufsInOnly
  <2>8. f[Len(q)] \in Nat
    BY <2>1, <2>2
  <2> QED BY <2>2, <2>3, <2>5, <2>7, <2>8 DEF r, x
<1> QED BY <1>1, <1>2, <1>3, <1>4

-----------------------------------------------------------------------------
(* The frames of a netif in a queue                                        *)

\* Appending is joining with a sequence of one.
LEMMA AppendIsJoin ==
  ASSUME NEW S, NEW s \in Seq(S), NEW e \in S
  PROVE  /\ <<e>> \in Seq(S)
         /\ Append(s, e) = s \o <<e>>
<1>1. <<e>> \in Seq(S)
  OBVIOUS
<1> QED BY <1>1, AppendIsConcat

\* Appending to the second of two sequences appends to both.
LEMMA AppendToJoin ==
  ASSUME NEW S, NEW s \in Seq(S), NEW t \in Seq(S), NEW e \in S
  PROVE  Append(s \o t, e) = s \o Append(t, e)
<1>1. s \o t \in Seq(S)
  BY ConcatProperties
<1>2. <<e>> \in Seq(S) /\ Append(t, e) = t \o <<e>> /\ Append(s \o t, e) = (s \o t) \o <<e>>
  BY <1>1, AppendIsJoin
<1>3. (s \o t) \o <<e>> = s \o (t \o <<e>>)
  BY <1>2, ConcatAssociative
<1> QED BY <1>2, <1>3

\* A queue is its first entry and the others.
LEMMA HeadAndTail ==
  ASSUME NEW S, NEW s \in Seq(S), s # <<>>
  PROVE  s = <<Head(s)>> \o Tail(s)
<1>1. /\ Head(s) \in S /\ Tail(s) \in Seq(S) /\ Len(Tail(s)) = Len(s) - 1 /\ Head(s) = s[1]
      /\ \A i \in 1..Len(Tail(s)) : Tail(s)[i] = s[i + 1]
  BY HeadTailProperties
<1>2. Len(s) \in Nat /\ Len(s) # 0
  BY EmptySeq, LenProperties
<1> DEFINE h == <<Head(s)>>
           t == Tail(s)
           c == h \o t
<1>3. h \in Seq(S) /\ Len(h) = 1 /\ h[1] = s[1]
  BY <1>1
<1>4. /\ c \in Seq(S) /\ Len(c) = Len(h) + Len(t)
      /\ \A i \in 1..(Len(h) + Len(t)) : c[i] = IF i <= Len(h) THEN h[i] ELSE t[i - Len(h)]
  <2>1. t \in Seq(S)
    BY <1>1
  <2> HIDE DEF h, t
  <2> QED BY <1>3, <2>1, ConcatProperties
<1>5. ASSUME NEW i \in 1..Len(s) PROVE c[i] = s[i]
  <2> HIDE DEF h, t, c
  <2>1. CASE i = 1
    BY <1>1, <1>2, <1>3, <1>4, <2>1 DEF t
  <2>2. CASE i # 1
    <3>1. i \in 1..(Len(h) + Len(t)) /\ ~(i <= Len(h)) /\ i - Len(h) \in 1..Len(t) /\ i - 1 + 1 = i
      BY <1>1, <1>2, <1>3, <2>2 DEF t
    <3>2. c[i] = t[i - 1] /\ t[i - 1] = s[i - 1 + 1]
      BY <1>1, <1>3, <1>4, <3>1 DEF t
    <3> QED BY <3>1, <3>2
  <2> QED BY <2>1, <2>2
<1> HIDE DEF h, t, c
<1>6. Len(c) = Len(s)
  BY <1>1, <1>2, <1>3, <1>4 DEF t
<1>7. c = s
  BY <1>4, <1>5, <1>6, SeqEqual
<1> QED BY <1>7 DEF c, h, t

\* f goes over the messages of q and takes the frames of n.
Collects(f, q, n) ==
    /\ f[0] = <<>>
    /\ \A i \in 1..Len(q) :
          f[i] = IF q[i].netif = n THEN Append(f[i - 1], q[i].k) ELSE f[i - 1]

\* The sequence of the frames is one: step by step over the messages.
LEMMA FramesOfIs ==
  ASSUME NEW q \in Seq(Messages), NEW n
  PROVE  \E f \in [0..Len(q) -> Seq(Parts)] : Collects(f, q, n) /\ FramesOf(q, n) = f[Len(q)]
<1> DEFINE m == Len(q)
           X == Seq(Parts)
           zero == <<>>
           s == [i \in 1..m |-> [x \in X |-> IF q[i].netif = n THEN Append(x, q[i].k) ELSE x]]
           rhs(g) == [i \in 0..m |-> IF i = 0 THEN <<>>
                                     ELSE IF q[i].netif = n THEN Append(g[i - 1], q[i].k)
                                     ELSE g[i - 1]]
<1>1. m \in Nat /\ (\A i \in 1..m : q[i].k \in Parts) /\ zero \in X
  BY Entry, EmptySeq
<1>2. s \in [1..m -> [X -> X]]
  <2>1. \A i \in 1..m : \A x \in X : Append(x, q[i].k) \in X
    BY <1>1, AppendProperties
  <2> HIDE DEF X
  <2> QED BY <2>1
<1>3. PICK f \in [0..m -> X] : f[0] = zero /\ \A i \in 1..m : f[i] = s[i][f[i - 1]]
  <2>1. m \in Nat /\ zero \in X
    BY <1>1
  <2> HIDE DEF s, m, X, zero
  <2> QED BY <1>2, <2>1, Recursion
<1>4. f = rhs(f)
  <2>1. ASSUME NEW i \in 1..m
        PROVE  s[i][f[i - 1]] = IF q[i].netif = n THEN Append(f[i - 1], q[i].k) ELSE f[i - 1]
    <3>1. i - 1 \in 0..m
      BY <1>1
    <3>2. f[i - 1] \in X
      <4> HIDE DEF s, X
      <4> QED BY <1>3, <3>1
    <3> HIDE DEF X
    <3> QED BY <3>2
  <2>2. ASSUME NEW i \in 0..m
        PROVE  f[i] = IF i = 0 THEN <<>>
                      ELSE IF q[i].netif = n THEN Append(f[i - 1], q[i].k) ELSE f[i - 1]
    <3>1. i # 0 => i \in 1..m
      BY <1>1
    <3> HIDE DEF s, X
    <3> QED BY <1>3, <2>1, <3>1
  <2>3. f = [i \in 0..m |-> f[i]]
    <3> HIDE DEF s, X
    <3> QED BY <1>3
  <2> HIDE DEF s, X
  <2> QED BY <2>2, <2>3
<1> DEFINE frames == CHOOSE g : g = rhs(g)
<1>5. frames = rhs(frames) /\ FramesOf(q, n) = frames[m]
  <2>1. FramesOf(q, n) = frames[m]
    BY DEF FramesOf
  <2> HIDE DEF rhs
  <2> QED BY <1>4, <2>1
<1>6. /\ frames[0] = <<>>
      /\ \A i \in 1..m : frames[i] = IF q[i].netif = n THEN Append(frames[i - 1], q[i].k)
                                     ELSE frames[i - 1]
  <2>1. \A i \in 0..m : frames[i] = IF i = 0 THEN <<>>
                                    ELSE IF q[i].netif = n THEN Append(frames[i - 1], q[i].k)
                                    ELSE frames[i - 1]
    <3> HIDE DEF frames
    <3> QED BY <1>5
  <2>2. 0 \in 0..m /\ \A i \in 1..m : i \in 0..m /\ i # 0
    BY <1>1
  <2> HIDE DEF frames, m
  <2> QED BY <2>1, <2>2
<1>7. \A i \in 0..m : frames[i] \in Seq(Parts)
  <2> HIDE DEF frames
  <2> DEFINE Bad == {i \in 0..m : frames[i] \notin Seq(Parts)}
  <2> SUFFICES ASSUME Bad # {} PROVE FALSE
    OBVIOUS
  <2>1. PICK i \in Bad : \A j \in Bad : i <= j
    <3>1. Bad \in SUBSET Nat
      BY <1>1
    <3> HIDE DEF Bad
    <3> QED BY <3>1, Least
  <2>2. i # 0
    BY <1>1, <1>6, <2>1
  <2>3. i \in 1..m /\ i - 1 \in 0..m /\ ~(i <= i - 1)
    BY <1>1, <2>1, <2>2
  <2>4. frames[i - 1] \in Seq(Parts)
    BY <2>1, <2>3
  <2>5. Append(frames[i - 1], q[i].k) \in Seq(Parts)
    BY <1>1, <2>3, <2>4, AppendProperties
  <2>6. frames[i] \notin Seq(Parts)
    BY <2>1
  <2> HIDE DEF Bad
  <2> QED BY <1>6, <2>3, <2>4, <2>5, <2>6
<1>8. frames \in [0..m -> Seq(Parts)]
  <2>1. frames = [i \in 0..m |-> frames[i]]
    <3> HIDE DEF frames
    <3> QED BY <1>5
  <2> HIDE DEF frames
  <2> QED BY <1>7, <2>1
<1> HIDE DEF frames
<1>9. Collects(frames, q, n)
  BY <1>6 DEF Collects
<1> QED BY <1>5, <1>8, <1>9

\* The sequence is the only one.
LEMMA FramesOfOnly ==
  ASSUME NEW q \in Seq(Messages), NEW n, NEW f, Collects(f, q, n)
  PROVE  FramesOf(q, n) = f[Len(q)]
<1>1. PICK g \in [0..Len(q) -> Seq(Parts)] : Collects(g, q, n) /\ FramesOf(q, n) = g[Len(q)]
  BY FramesOfIs
<1>2. Len(q) \in Nat
  BY Entry
<1> DEFINE Bad == {i \in 0..Len(q) : f[i] # g[i]}
<1> SUFFICES ASSUME Bad # {} PROVE FALSE
  BY <1>1, <1>2
<1>c. Collects(f, q, n) /\ Collects(g, q, n)
  BY <1>1
<1>3. PICK i \in Bad : \A j \in Bad : i <= j
  <2>1. Bad \in SUBSET Nat
    BY <1>2
  <2> HIDE DEF Bad
  <2> QED BY <2>1, Least
<1>4. i \in 1..Len(q) /\ i - 1 \in 0..Len(q) /\ ~(i <= i - 1)
  BY <1>c, <1>2, <1>3 DEF Collects
<1>5. f[i - 1] = g[i - 1]
  BY <1>3, <1>4
<1> QED BY <1>c, <1>3, <1>4, <1>5 DEF Collects

\* A message at the end, or one less at the front
LEMMA FramesOfQueue ==
  ASSUME NEW n
  PROVE  /\ FramesOf(<<>>, n) = <<>>
         /\ \A q \in Seq(Messages) :
              /\ FramesOf(q, n) \in Seq(Parts)
              /\ \A e \in Messages :
                    FramesOf(Append(q, e), n) = IF e.netif = n THEN Append(FramesOf(q, n), e.k)
                                                ELSE FramesOf(q, n)
              /\ q # <<>> =>
                    FramesOf(q, n) = (IF Head(q).netif = n THEN <<Head(q).k>> ELSE <<>>)
                                     \o FramesOf(Tail(q), n)
<1>1. FramesOf(<<>>, n) = <<>>
  <2> DEFINE q == <<>>
  <2>1. q \in Seq(Messages) /\ Len(q) = 0
    BY EmptySeq
  <2>2. FramesOf(q, n) = <<>>
    <3> HIDE DEF q
    <3>1. PICK f \in [0..Len(q) -> Seq(Parts)] :
             Collects(f, q, n) /\ FramesOf(q, n) = f[Len(q)]
      BY <2>1, FramesOfIs
    <3> QED BY <2>1, <3>1 DEF Collects
  <2> QED BY <2>2
<1>2. ASSUME NEW q \in Seq(Messages) PROVE FramesOf(q, n) \in Seq(Parts) /\ Len(q) \in Nat
  <2>1. Len(q) \in 0..Len(q) /\ Len(q) \in Nat
    BY Entry
  <2> QED BY <2>1, FramesOfIs
<1>3. ASSUME NEW q \in Seq(Messages), NEW e \in Messages
      PROVE  FramesOf(Append(q, e), n) = IF e.netif = n THEN Append(FramesOf(q, n), e.k)
                                         ELSE FramesOf(q, n)
  <2>1. PICK f \in [0..Len(q) -> Seq(Parts)] :
           Collects(f, q, n) /\ FramesOf(q, n) = f[Len(q)]
    BY FramesOfIs
  <2> DEFINE r == Append(q, e)
             x == IF e.netif = n THEN Append(f[Len(q)], e.k) ELSE f[Len(q)]
             g == [i \in 0..Len(r) |-> IF i = Len(r) THEN x ELSE f[i]]
  <2>2. /\ r \in Seq(Messages) /\ Len(r) = Len(q) + 1 /\ Len(q) \in Nat
        /\ r[Len(r)] = e /\ \A i \in 1..Len(q) : r[i] = q[i]
    BY <1>2, AppendProperties
  <2> HIDE DEF r, x
  <2>3. g[0] = <<>> /\ g[Len(r)] = x
    BY <2>1, <2>2 DEF Collects
  <2>4. ASSUME NEW i \in 1..Len(r)
        PROVE  g[i] = IF r[i].netif = n THEN Append(g[i - 1], r[i].k) ELSE g[i - 1]
    <3>1. CASE i = Len(r)
      <4>1. g[i - 1] = f[Len(q)] /\ g[i] = x /\ r[i] = e
        BY <2>2, <2>3, <3>1
      <4> HIDE DEF g
      <4> QED BY <4>1 DEF x
    <3>2. CASE i # Len(r)
      <4>1. i \in 1..Len(q) /\ g[i] = f[i] /\ g[i - 1] = f[i - 1] /\ r[i] = q[i]
        BY <2>2, <3>2
      <4> HIDE DEF g
      <4> QED BY <2>1, <4>1 DEF Collects
    <3> QED BY <3>1, <3>2
  <2>5. FramesOf(r, n) = g[Len(r)]
    <3> HIDE DEF g
    <3>1. Collects(g, r, n)
      BY <2>3, <2>4 DEF Collects
    <3> QED BY <2>2, <3>1, FramesOfOnly
  <2> HIDE DEF g
  <2> QED BY <2>1, <2>3, <2>5 DEF r, x
<1>4. ASSUME NEW q \in Seq(Messages), q # <<>>
      PROVE  FramesOf(q, n) = (IF Head(q).netif = n THEN <<Head(q).k>> ELSE <<>>)
                              \o FramesOf(Tail(q), n)
  <2> DEFINE r == Tail(q)
             first == IF Head(q).netif = n THEN <<Head(q).k>> ELSE <<>>
  <2>1. /\ r \in Seq(Messages) /\ Len(r) = Len(q) - 1 /\ Len(q) \in Nat /\ Len(r) \in Nat
        /\ \A i \in 1..Len(r) : r[i] = q[i + 1]
        /\ Head(q) = q[1] /\ Head(q) \in Messages
    <3>1. Head(q) = q[1]
      BY <1>4
    <3>2. Tail(q) \in Seq(Messages) /\ Head(q) \in Messages /\ Len(Tail(q)) = Len(q) - 1
      BY <1>4, Queue
    <3>3. \A i \in 1..Len(Tail(q)) : Tail(q)[i] = q[i + 1]
      BY <1>4, <3>2, HeadTailProperties
    <3>4. Len(q) \in Nat /\ Len(Tail(q)) \in Nat
      BY <3>2, Entry
    <3> QED BY <3>1, <3>2, <3>3, <3>4
  <2>2. first \in Seq(Parts) /\ first = IF q[1].netif = n THEN Append(<<>>, q[1].k) ELSE <<>>
    <3>1. Head(q).k \in Parts
      BY <2>1 DEF Messages
    <3>2. <<>> \in Seq(Parts) /\ <<Head(q).k>> \in Seq(Parts)
      BY <3>1
    <3>3. Append(<<>>, Head(q).k) = <<Head(q).k>>
      OBVIOUS
    <3> QED BY <2>1, <3>2, <3>3
  <2> HIDE DEF r, first
  <2>3. PICK g \in [0..Len(r) -> Seq(Parts)] :
           Collects(g, r, n) /\ FramesOf(r, n) = g[Len(r)]
    BY <2>1, FramesOfIs
  <2> DEFINE f == [i \in 0..Len(q) |-> IF i = 0 THEN <<>> ELSE first \o g[i - 1]]
  <2>4. /\ f[0] = <<>> /\ 0 \in 0..Len(q)
        /\ \A i \in 1..Len(q) : f[i] = first \o g[i - 1]
    BY <2>1
  <2> HIDE DEF f
  <2>5. ASSUME NEW i \in 1..Len(q)
        PROVE  f[i] = IF q[i].netif = n THEN Append(f[i - 1], q[i].k) ELSE f[i - 1]
    <3>1. CASE i = 1
      <4>1. f[1] = first \o <<>> /\ f[1 - 1] = <<>>
        <5>1. g[0] = <<>> /\ 1 - 1 = 0
          BY <2>3 DEF Collects
        <5>2. f[1] = first \o g[1 - 1] /\ f[0] = <<>>
          BY <2>4, <3>1
        <5> QED BY <5>1, <5>2
      <4>2. first \o <<>> = first
        BY <2>2, ConcatEmptySeq
      <4> QED BY <2>2, <3>1, <4>1, <4>2
    <3>2. CASE i # 1
      <4>1. i - 1 \in 1..Len(q) /\ i - 1 \in 1..Len(r) /\ i - 1 - 1 \in 0..Len(r) /\ i - 1 + 1 = i
        BY <2>1, <3>2
      <4>2. f[i] = first \o g[i - 1] /\ f[i - 1] = first \o g[i - 1 - 1] /\ r[i - 1] = q[i]
        BY <2>1, <2>4, <4>1
      <4>3. g[i - 1] = IF q[i].netif = n THEN Append(g[i - 1 - 1], q[i].k) ELSE g[i - 1 - 1]
        BY <2>3, <4>1, <4>2 DEF Collects
      <4>4. g[i - 1 - 1] \in Seq(Parts) /\ q[i].k \in Parts
        BY <2>3, <4>1, Entry
      <4> DEFINE y == g[i - 1 - 1]
                 z == q[i].k
      <4>5. Append(first \o g[i - 1 - 1], q[i].k) = first \o Append(g[i - 1 - 1], q[i].k)
        <5>1. y \in Seq(Parts) /\ z \in Parts
          BY <4>4
        <5>2. Append(first \o y, z) = first \o Append(y, z)
          <6> HIDE DEF y, z
          <6> QED BY <2>2, <5>1, AppendToJoin
        <5> QED BY <5>2
      <4> QED BY <4>2, <4>3, <4>5
    <3> QED BY <3>1, <3>2
  <2>6. FramesOf(q, n) = f[Len(q)]
    <3>1. Collects(f, q, n)
      BY <2>4, <2>5 DEF Collects
    <3> QED BY <3>1, FramesOfOnly
  <2>7. Len(q) \in 1..Len(q) /\ Len(r) = Len(q) - 1
    BY <2>1
  <2> QED BY <2>3, <2>4, <2>6, <2>7 DEF r, first
<1> QED BY <1>1, <1>2, <1>3, <1>4

-----------------------------------------------------------------------------
(* One lemma per part of the invariant, one step per action.               *)

\* The types, and that a task in tcpip_input has a frame
LEMMA TypeStep ==
  ASSUME TypeOK, Holding, Next
  PROVE  TypeOK' /\ Holding'
<1>f. N \in Nat /\ pool \in Nat /\ reass \in Nat /\ msgs \in Nat /\ mbox \in Seq(Messages) /\ enc \in Seq(Parts)
  BY Facts
<1>s. Succ(dma) \in Descs /\ Succ(Succ(dma)) \in Descs /\ Succ(get) \in Descs
  BY SuccType DEF TypeOK
<1>k. Kinds \subseteq Parts /\ None \notin Parts
  BY NetInputAssumption DEF Parts, None
<1>1. CASE DmaFetch
  BY <1>1 DEF DmaFetch, TypeOK, Holding
<1>2. ASSUME NEW k \in Kinds, Arrive(k) PROVE TypeOK' /\ Holding'
  <2>1. own' \in [Descs -> {"dma", "cpu"}]
    BY <1>2, <1>s DEF Arrive, TypeOK
  <2>2. buf' \in [Descs -> Parts \cup {None}]
    BY <1>2, <1>k, <1>s DEF Arrive, TypeOK, Parts
  <2>3. {dma', get', desc'} \subseteq Descs
    BY <1>2, <1>s DEF Arrive, TypeOK
  <2> QED BY <1>2, <2>1, <2>2, <2>3 DEF Arrive, TypeOK, Holding
<1>3. ASSUME NEW k \in Kinds, EncArrive(k) PROVE TypeOK' /\ Holding'
  BY <1>3, <1>k, <1>f, Queue DEF EncArrive, TypeOK, Holding, ring
<1>4. ASSUME NEW n \in Netifs, Wake(n) PROVE TypeOK' /\ Holding'
  BY <1>4 DEF Wake, TypeOK, Holding, ring
<1>5. CASE ETH_RxPkt_ChainMode
  <2>0. 1 \in Netifs
    BY DEF Netifs
  <2>1. buf[get] \in Parts /\ buf[get] # None
    BY <1>5 DEF ETH_RxPkt_ChainMode, ETH_GetRxPktSize, Parts, None
  <2>2. hold' \in [Netifs -> Parts \cup {None}] /\ pool' \in Nat
    <3>1. Size(1, buf[get]) \in Nat
      BY <2>0, SizeType
    <3>2. pool' \in Nat
      BY <1>5, <1>f, <3>1 DEF ETH_RxPkt_ChainMode
    <3> QED BY <1>5, <2>0, <2>1, <3>2 DEF ETH_RxPkt_ChainMode, TypeOK
  <2>3. {dma', get', desc'} \subseteq Descs
    BY <1>5, <1>s DEF ETH_RxPkt_ChainMode, TypeOK, ring
  <2>4. pc' = [pc EXCEPT ![1] = "own"] /\ hold'[2] = hold[2]
    BY <1>5 DEF ETH_RxPkt_ChainMode, TypeOK, Netifs
  <2>5. Holding'
    BY <2>4 DEF Holding, TypeOK, Netifs
  <2> QED BY <1>5, <2>0, <2>2, <2>3, <2>4, <2>5 DEF ETH_RxPkt_ChainMode, TypeOK, ring
<1>6. CASE GiveBack
  BY <1>6 DEF GiveBack, TypeOK, Holding, Netifs
<1>7. CASE Resume
  BY <1>7 DEF Resume, AfterInput, TypeOK, Holding, Netifs
<1>8. CASE Sleep1 \/ Sleep2
  BY <1>8 DEF Sleep1, Sleep2, TypeOK, Holding, ring, Netifs
<1>9. CASE enc28j60PacketReceive
  <2>1. Head(enc) \in Parts /\ Tail(enc) \in Seq(Parts)
    BY <1>9, <1>f, Queue DEF enc28j60PacketReceive
  <2>2. enc' \in Seq(Parts) /\ hold' \in [Netifs -> Parts \cup {None}]
    BY <1>9, <2>1 DEF enc28j60PacketReceive, TypeOK, Netifs
  <2>3. TypeOK'
    BY <1>9, <2>2 DEF enc28j60PacketReceive, TypeOK, ring, Netifs
  <2>4. Holding'
    BY <1>9, <2>1, <1>k DEF enc28j60PacketReceive, TypeOK, Holding, Netifs
  <2> QED BY <2>3, <2>4
<1>10. ASSUME NEW n \in Netifs, memp_malloc(n) PROVE TypeOK' /\ Holding'
  <2>1. Size(n, hold[n]) \in Nat
    BY SizeType
  <2>2. CASE msgs > 0
    BY <1>10, <1>f, <2>2 DEF memp_malloc, TypeOK, Holding, ring
  <2>3. CASE ~(msgs > 0)
    <3>1. pool' \in Nat /\ msgs' \in Nat
      BY <1>10, <1>f, <2>1, <2>3 DEF memp_malloc, Refused
    <3> QED BY <1>10, <2>3, <3>1 DEF memp_malloc, Refused, TypeOK, Holding, ring
  <2> QED BY <2>2, <2>3
<1>11. ASSUME NEW n \in Netifs, trypost(n) PROVE TypeOK' /\ Holding'
  <2>1. hold[n] \in Parts
    BY <1>11 DEF trypost, TypeOK, Holding
  <2>2. [netif |-> n, k |-> hold[n]] \in Messages
    BY <2>1 DEF Messages
  <2>3. mbox' \in Seq(Messages)
    <3>1. Append(mbox, [netif |-> n, k |-> hold[n]]) \in Seq(Messages)
      BY <1>f, <2>2, Queue
    <3> QED BY <1>11, <1>f, <3>1 DEF trypost, Refused
  <2>4. Size(n, hold[n]) \in Nat
    BY SizeType
  <2>5. pool' \in Nat /\ msgs' \in Nat
    BY <1>11, <1>f, <2>4 DEF trypost, Refused
  <2> QED BY <1>11, <2>3, <2>5 DEF trypost, Refused, TypeOK, Holding, ring
<1>12. CASE Fetch
  <2>1. Head(mbox) \in Messages /\ Tail(mbox) \in Seq(Messages)
    BY <1>12, <1>f, Queue DEF Fetch
  <2>2. Head(mbox) \in [netif : Netifs, k : Parts \cup {None}]
    BY <2>1 DEF Messages
  <2> QED BY <1>12, <2>1, <2>2 DEF Fetch, TypeOK, Holding, ring
<1>13. CASE Process
  <2>1. Size(busy.netif, busy.k) \in Nat
    BY SizeType DEF TypeOK
  <2>2. pool' \in Nat /\ msgs' \in Nat /\ reass' \in Nat
    BY <1>13, <1>f, <2>1 DEF Process
  <2>3. busy' \in [netif : Netifs, k : Parts \cup {None}]
    BY <1>13 DEF Process, TypeOK
  <2> QED BY <1>13, <2>2, <2>3 DEF Process, TypeOK, Holding, ring
<1>14. CASE ip_reass_tmr
  <2>1. pool' \in Nat /\ reass' \in Nat
    BY <1>14, <1>f DEF ip_reass_tmr
  <2> QED BY <1>14, <2>1 DEF ip_reass_tmr, TypeOK, Holding, ring
<1> QED
  BY <1>1, <1>2, <1>3, <1>4, <1>5, <1>6, <1>7, <1>8, <1>9, <1>10, <1>11, <1>12, <1>13, <1>14
  DEF Next, Arrivals, ethernetif_1_input, ethernetif_2_input, tcpip_thread, tcpip_input, Netifs


\* The count of the messages: taken by memp_malloc, passed on by trypost and
\* Fetch, freed by a full mailbox or Process
LEMMA MessagesStep ==
  ASSUME TypeOK, Holding, MessagesKept, Next
  PROVE  MessagesKept'
<1>f. /\ msgs \in Nat /\ MsgSize \in Nat /\ mbox \in Seq(Messages)
      /\ Len(mbox) \in Nat /\ DOMAIN pc = Netifs
  BY Facts, Queue DEF TypeOK
<1>1. CASE \/ DmaFetch \/ GiveBack \/ Resume \/ Sleep1 \/ Sleep2
           \/ ETH_RxPkt_ChainMode \/ enc28j60PacketReceive \/ ip_reass_tmr
           \/ \E k \in Kinds : Arrive(k) \/ EncArrive(k)
           \/ \E n \in Netifs : Wake(n)
  <2>1. UNCHANGED <<msgs, mbox, busy>>
    BY <1>1 DEF DmaFetch, GiveBack, Resume, Sleep1, Sleep2, ETH_RxPkt_ChainMode,
                enc28j60PacketReceive, Arrive, EncArrive, Wake, ip_reass_tmr
  <2>2. \A n \in Netifs : pc'[n] = "post" <=> pc[n] = "post"
    BY <1>1, <1>f DEF DmaFetch, GiveBack, Resume, Sleep1, Sleep2, ETH_RxPkt_ChainMode,
                enc28j60PacketReceive, Arrive, EncArrive, Wake, AfterInput, ip_reass_tmr, Netifs
  <2> QED BY <2>1, <2>2 DEF MessagesKept, Netifs
<1>2. ASSUME NEW n \in Netifs, memp_malloc(n) PROVE MessagesKept'
  BY <1>2, <1>f, SMTT(30) DEF memp_malloc, Refused, MessagesKept, Netifs
<1>3. ASSUME NEW n \in Netifs, trypost(n) PROVE MessagesKept'
  <2>1. hold[n] \in Parts
    BY <1>3 DEF trypost, TypeOK, Holding
  <2>2. [netif |-> n, k |-> hold[n]] \in Messages
    BY <2>1 DEF Messages
  <2>3. Len(Append(mbox, [netif |-> n, k |-> hold[n]])) = Len(mbox) + 1
    BY <1>f, <2>2, Queue
  <2> QED BY <1>3, <1>f, <2>3 DEF trypost, Refused, MessagesKept, Netifs
<1>4. CASE Fetch
  <2>1. Head(mbox) \in Messages /\ Len(Tail(mbox)) = Len(mbox) - 1
    BY <1>4, <1>f, Queue DEF Fetch
  <2>2. Head(mbox).k # None
    BY <2>1 DEF Messages, Parts, None
  <2> QED BY <1>4, <1>f, <2>1, <2>2 DEF Fetch, MessagesKept
<1>5. CASE Process
  <2>1. busy'.k = None
    BY <1>5 DEF Process, TypeOK
  <2> QED BY <1>5, <1>f, <2>1 DEF Process, MessagesKept
<1> QED
  BY <1>1, <1>2, <1>3, <1>4, <1>5
  DEF Next, Arrivals, ethernetif_1_input, ethernetif_2_input, tcpip_thread, tcpip_input, Netifs

\* The steps that leave ring, DMARxDescToGet and the descriptor in hand alone.
LEMMA Elsewhere ==
  ASSUME TypeOK,
         \/ Sleep1 \/ Sleep2 \/ enc28j60PacketReceive \/ Fetch \/ Process \/ ip_reass_tmr
         \/ \E k \in Kinds : EncArrive(k)
         \/ \E n \in Netifs : Wake(n) \/ memp_malloc(n) \/ trypost(n)
  PROVE  /\ UNCHANGED <<own, dma, dmast, get, desc>>
         /\ pc'[1] = "own" <=> pc[1] = "own"
         /\ pc'[1] = "resume" <=> pc[1] = "resume"
BY DEF Sleep1, Sleep2, enc28j60PacketReceive, Fetch, Process, ip_reass_tmr, EncArrive, Wake,
       memp_malloc, trypost, Refused, TypeOK, ring, Netifs

\* The descriptor the DMA is ready to use stays its own, and each step that
\* leaves it suspended has Resume still before it.
LEMMA DmaStep ==
  ASSUME TypeOK, RingInStep, DmaOwns, DmaNotStuck, Next
  PROVE  DmaOwns' /\ DmaNotStuck'
<1>1. CASE DmaFetch
  BY <1>1 DEF DmaFetch, DmaOwns, DmaNotStuck, TypeOK
<1>2. ASSUME NEW k \in Kinds, Arrive(k) PROVE DmaOwns' /\ DmaNotStuck'
  BY <1>2 DEF Arrive, DmaOwns, DmaNotStuck
<1>3. CASE ETH_RxPkt_ChainMode
  BY <1>3 DEF ETH_RxPkt_ChainMode, DmaOwns, DmaNotStuck, TypeOK, ring, Netifs
<1>4. CASE GiveBack
  BY <1>4 DEF GiveBack, DmaOwns, DmaNotStuck, TypeOK, Netifs
<1>5. CASE Resume
  BY <1>5 DEF Resume, DmaOwns, DmaNotStuck, TypeOK
<1>6. CASE UNCHANGED <<own, dma, dmast>> /\ (pc'[1] = "resume" <=> pc[1] = "resume")
  BY <1>6 DEF DmaOwns, DmaNotStuck
<1> QED
  BY <1>1, <1>2, <1>3, <1>4, <1>5, <1>6, Elsewhere
  DEF Next, Arrivals, ethernetif_1_input, ethernetif_2_input, tcpip_thread, tcpip_input, Netifs

\* The descriptors not yet read are the n from DMARxDescToGet.
InStep(n) ==
    /\ dma \in {get + n, get + n - N}
    /\ \A i \in Descs :
          own[i] = "cpu" <=> (Ahead(i) < n \/ (pc[1] = "own" /\ i = desc))
    /\ pc[1] = "own" => n < N /\ Succ(desc) = get

\* The ring is 0..N-1.
LEMMA RingFacts ==
  ASSUME TypeOK
  PROVE  /\ N \in Nat /\ N >= 2 /\ Descs = 0..(N-1)
         /\ dma \in 0..(N-1) /\ get \in 0..(N-1) /\ desc \in 0..(N-1)
         /\ own \in [Descs -> {"dma", "cpu"}] /\ DOMAIN pc = Netifs
BY Facts DEF TypeOK, Descs

\* A frame that fits a buffer makes one more.
LEMMA RingArrive ==
  ASSUME TypeOK, DmaOwns, NEW n \in 0..N, InStep(n), NEW k, k # "long", Arrive(k)
  PROVE  n + 1 \in 0..N /\ Ahead(dma) = n /\ InStep(n + 1)'
<1>f. /\ N \in Nat /\ N >= 2 /\ Descs = 0..(N-1)
      /\ dma \in 0..(N-1) /\ get \in 0..(N-1) /\ desc \in 0..(N-1)
      /\ own \in [Descs -> {"dma", "cpu"}]
  BY RingFacts
<1>n. InStep(n)
  OBVIOUS
<1>1. own[dma] = "dma" /\ UNCHANGED <<get, desc, pc>>
  BY DEF Arrive, DmaOwns
<1>2. n < N /\ Ahead(dma) = n /\ ~(pc[1] = "own" /\ dma = desc)
  BY <1>f, <1>n, <1>1 DEF Ahead, InStep
<1>3. own' = [own EXCEPT ![dma] = "cpu"] /\ dma' = Succ(dma)
  BY DEF Arrive
<1>4. n + 1 \in 0..N /\ dma' \in {get + (n + 1), get + (n + 1) - N}
  BY <1>f, <1>n, <1>2, <1>3 DEF Succ, InStep
<1>5. \A i \in Descs : Ahead(i) < n + 1 <=> (Ahead(i) < n \/ i = dma)
  BY <1>f, <1>2 DEF Ahead
<1>6. \A i \in Descs :
         own'[i] = "cpu" <=> (Ahead(i)' < n + 1 \/ (pc'[1] = "own" /\ i = desc'))
  BY <1>f, <1>n, <1>1, <1>3, <1>5 DEF Ahead, InStep
<1>7. pc'[1] = "own" => n + 1 < N /\ Succ(desc') = get'
  BY <1>f, <1>n, <1>1, <1>2 DEF Ahead, Succ, InStep
<1> QED BY <1>1, <1>2, <1>4, <1>6, <1>7 DEF InStep, Succ, Ahead

\* The task takes the first of them.
LEMMA RingTake ==
  ASSUME TypeOK, NEW n \in 0..N, InStep(n), ETH_RxPkt_ChainMode
  PROVE  n - 1 \in 0..N /\ InStep(n - 1)'
<1>f. /\ N \in Nat /\ N >= 2 /\ Descs = 0..(N-1)
      /\ dma \in 0..(N-1) /\ get \in 0..(N-1) /\ desc \in 0..(N-1)
      /\ own \in [Descs -> {"dma", "cpu"}] /\ DOMAIN pc = Netifs
  BY RingFacts
<1>n. InStep(n)
  OBVIOUS
<1>1. /\ own[get] = "cpu" /\ pc[1] # "own" /\ pc'[1] = "own"
      /\ get' = Succ(get) /\ desc' = get /\ UNCHANGED <<own, dma>>
  BY <1>f DEF ETH_RxPkt_ChainMode, ETH_GetRxPktSize, ring, Netifs
<1>2. Ahead(get) = 0 /\ n > 0
  BY <1>f, <1>n, <1>1 DEF Ahead, InStep
<1>3. n - 1 \in 0..N /\ dma \in {Succ(get) + (n - 1), Succ(get) + (n - 1) - N}
  BY <1>f, <1>n, <1>2 DEF Succ, InStep
<1>4. \A i \in Descs : Ahead(i) < n <=> (Ahead(i)' < n - 1 \/ i = get)
  BY <1>f, <1>1, <1>2, <1>n DEF Ahead, Succ, InStep
<1> QED BY <1>f, <1>n, <1>1, <1>2, <1>3, <1>4 DEF InStep, Succ

\* The descriptor it has copied from is not among them.
LEMMA RingGiveBack ==
  ASSUME TypeOK, NEW n \in 0..N, InStep(n), GiveBack
  PROVE  ~(Ahead(desc) < n) /\ InStep(n)'
<1>f. /\ N \in Nat /\ N >= 2 /\ Descs = 0..(N-1)
      /\ dma \in 0..(N-1) /\ get \in 0..(N-1) /\ desc \in 0..(N-1)
      /\ own \in [Descs -> {"dma", "cpu"}] /\ DOMAIN pc = Netifs
  BY RingFacts
<1>n. InStep(n)
  OBVIOUS
<1>1. /\ pc[1] = "own" /\ pc'[1] # "own" /\ UNCHANGED <<dma, get, desc>>
      /\ own' = [own EXCEPT ![desc] = "dma"]
  BY <1>f DEF GiveBack, Netifs
<1>2. ~(Ahead(desc) < n)
  BY <1>f, <1>n, <1>1 DEF Ahead, Succ, InStep
<1>3. \A i \in Descs : own'[i] = "cpu" <=> Ahead(i)' < n
  BY <1>f, <1>n, <1>1, <1>2 DEF Ahead, InStep
<1> QED BY <1>n, <1>1, <1>2, <1>3 DEF InStep

\* The other steps change nothing of it.
LEMMA RingSame ==
  ASSUME NEW n, InStep(n), UNCHANGED <<own, dma, get, desc>>, pc'[1] = "own" <=> pc[1] = "own"
  PROVE  InStep(n)'
BY DEF InStep, Ahead, Succ

\* Task and DMA stay in step; a frame of two descriptors makes two more.
LEMMA RingStep ==
  ASSUME TypeOK, RingInStep, DmaOwns, Next
  PROVE  RingInStep'
<1>f. /\ N \in Nat /\ N >= 2 /\ Descs = 0..(N-1)
      /\ dma \in 0..(N-1) /\ get \in 0..(N-1) /\ desc \in 0..(N-1)
      /\ own \in [Descs -> {"dma", "cpu"}] /\ DOMAIN pc = Netifs
  BY RingFacts
<1>n. PICK n \in 0..N : InStep(n)
  BY DEF RingInStep, InStep
<1>q. ASSUME NEW m \in 0..N, InStep(m)' PROVE RingInStep'
  BY <1>q DEF RingInStep, InStep
<1>1. ASSUME NEW k \in Kinds, Arrive(k) PROVE RingInStep'
  <2>1. CASE k # "long"
    BY <1>1, <1>n, <1>q, <2>1, RingArrive
  <2>2. CASE k = "long"
    <3>1. own[dma] = "dma" /\ UNCHANGED <<get, desc, pc>>
      BY <1>1 DEF Arrive, DmaOwns
    <3>2. n < N /\ Ahead(dma) = n /\ ~(pc[1] = "own" /\ dma = desc)
      BY <1>f, <1>n, <3>1 DEF Ahead, InStep
    <3>3. /\ own[Succ(dma)] = "dma"
          /\ own' = [own EXCEPT ![dma] = "cpu", ![Succ(dma)] = "cpu"]
          /\ dma' = Succ(Succ(dma))
      BY <1>1, <2>2 DEF Arrive
    <3>4. Succ(dma) \in Descs /\ n + 1 < N /\ Ahead(Succ(dma)) = n + 1
      BY <1>f, <1>n, <3>2, <3>3 DEF Ahead, Succ, InStep
    <3>5. n + 2 \in 0..N /\ dma' \in {get + (n + 2), get + (n + 2) - N}
      BY <1>f, <1>n, <3>2, <3>3, <3>4 DEF Succ, InStep
    <3>6. \A i \in Descs : Ahead(i) < n + 2 <=> (Ahead(i) < n \/ i = dma \/ i = Succ(dma))
      BY <1>f, <3>2, <3>4 DEF Ahead
    <3>7. \A i \in Descs :
             own'[i] = "cpu" <=> (Ahead(i)' < n + 2 \/ (pc'[1] = "own" /\ i = desc'))
      BY <1>f, <1>n, <3>1, <3>3, <3>4, <3>6 DEF Ahead, InStep
    <3>8. pc'[1] = "own" => n + 2 < N /\ Succ(desc') = get'
      BY <1>f, <1>n, <3>1, <3>2, <3>3, <3>4 DEF Ahead, Succ, InStep
    <3> QED BY <3>1, <3>5, <3>7, <3>8 DEF RingInStep, Succ, Ahead
  <2> QED BY <2>1, <2>2
<1>2. CASE ETH_RxPkt_ChainMode
  BY <1>2, <1>n, <1>q, RingTake
<1>3. CASE GiveBack
  BY <1>3, <1>n, <1>q, RingGiveBack
<1>4. CASE UNCHANGED <<own, dma, get, desc>> /\ (pc'[1] = "own" <=> pc[1] = "own")
  BY <1>n, <1>4, <1>q, RingSame
<1>5. CASE DmaFetch \/ Resume
  BY <1>5, <1>4, <1>f DEF DmaFetch, Resume, AfterInput, Netifs
<1> QED
  BY <1>1, <1>2, <1>3, <1>4, <1>5, Elsewhere
  DEF Next, Arrivals, ethernetif_1_input, ethernetif_2_input, tcpip_thread, tcpip_input, Netifs

\* A task polls only when its frame is passed on or freed.
LEMMA EmptyStep ==
  ASSUME TypeOK, Empty, Next
  PROVE  Empty'
<1>f. DOMAIN pc = Netifs /\ DOMAIN hold = Netifs /\ 1 \in Netifs /\ 2 \in Netifs
  BY DEF TypeOK, Netifs
<1>1. CASE UNCHANGED <<pc, hold>>
  BY <1>1 DEF Empty
<1>2. CASE DmaFetch \/ Fetch \/ Process \/ ip_reass_tmr \/ \E k \in Kinds : Arrive(k) \/ EncArrive(k)
  BY <1>1, <1>2 DEF DmaFetch, Fetch, Process, ip_reass_tmr, Arrive, EncArrive
<1>3. CASE \/ Sleep1 \/ Sleep2 \/ GiveBack \/ Resume \/ \E n \in Netifs : Wake(n)
  BY <1>3, <1>f DEF Sleep1, Sleep2, GiveBack, Resume, AfterInput, Wake, Empty
<1>4. CASE ETH_RxPkt_ChainMode
  <2>1. pc' = [pc EXCEPT ![1] = "own"] /\ hold'[2] = hold[2]
    BY <1>4, <1>f DEF ETH_RxPkt_ChainMode
  <2> QED BY <2>1, <1>f DEF Empty, Netifs
<1>5. CASE enc28j60PacketReceive
  BY <1>5, <1>f DEF enc28j60PacketReceive, Empty
<1>6. ASSUME NEW n \in Netifs, memp_malloc(n) \/ trypost(n) PROVE Empty'
  BY <1>6, <1>f DEF memp_malloc, trypost, Refused, Empty
<1> QED
  BY <1>2, <1>3, <1>4, <1>5, <1>6
  DEF Next, Arrivals, ethernetif_1_input, ethernetif_2_input, tcpip_thread, tcpip_input, Netifs

\* The sum of the pbufs: H of them in the hands of the first task, B with
\* tcpip_thread and M in the mailbox
LEMMA PbufsStep ==
  ASSUME TypeOK, Holding, Empty, PbufsKept, Next
  PROVE  PbufsKept'
<1> DEFINE H == Size(1, hold[1])
           B == Size(busy.netif, busy.k)
           M == PbufsIn(mbox)
<1>f. /\ mbox \in Seq(Messages) /\ DOMAIN hold = Netifs /\ 1 \in Netifs
      /\ \A n \in Netifs : Size(n, None) = 0
  BY Facts DEF TypeOK, Netifs, Size
<1>t. /\ pool \in Nat /\ reass \in Nat /\ H \in Nat /\ B \in Nat /\ M \in Nat
      /\ PoolSize \in Nat
  BY <1>f, Facts, SizeType, PbufsInQueue, NetInputAssumption DEF TypeOK
<1>k. /\ pool + reass + H + B + M = PoolSize
      /\ pool' + reass' + H' + B' + M' = PoolSize => PbufsKept'
  BY DEF PbufsKept
<1>1. ASSUME UNCHANGED <<pool, reass, mbox, busy>>, hold'[1] = hold[1] PROVE PbufsKept'
  BY <1>1 DEF PbufsKept
<1>2. CASE \/ DmaFetch \/ GiveBack \/ Resume \/ Sleep1 \/ Sleep2 \/ enc28j60PacketReceive
           \/ \E k \in Kinds : Arrive(k) \/ EncArrive(k)
           \/ \E n \in Netifs : Wake(n)
  <2>1. UNCHANGED <<pool, reass, mbox, busy>> /\ hold'[1] = hold[1]
    BY <1>2, <1>f DEF DmaFetch, GiveBack, Resume, Sleep1, Sleep2, enc28j60PacketReceive,
                      Arrive, EncArrive, Wake
  <2> QED BY <1>1, <2>1
<1>3. CASE ETH_RxPkt_ChainMode
  <2> DEFINE x == Size(1, buf[get])
  <2>1. UNCHANGED <<reass, mbox, busy>> /\ H = 0 /\ x \in Nat
    BY <1>3, <1>f, SizeType DEF ETH_RxPkt_ChainMode, Empty, Netifs
  <2>2. CASE x <= pool
    <3>1. pool' = pool - x /\ reass' = reass /\ H' = x /\ B' = B /\ M' = M
      BY <1>3, <1>f, <2>1, <2>2 DEF ETH_RxPkt_ChainMode
    <3> HIDE DEF H, B, M, x
    <3> QED BY <1>t, <1>k, <2>1, <3>1
  <2>3. CASE ~(x <= pool)
    BY <1>1, <1>3, <2>1, <2>3 DEF ETH_RxPkt_ChainMode
  <2> QED BY <2>2, <2>3
<1>4. ASSUME NEW n \in Netifs, Refused(n, msgs) \/ Refused(n, msgs + 1),
             UNCHANGED <<reass, mbox, busy>>
      PROVE  PbufsKept'
  <2>1. pool' = pool + Size(n, hold[n]) /\ hold' = [hold EXCEPT ![n] = None]
    BY <1>4 DEF Refused
  <2>2. CASE n = 1
    <3>1. pool' = pool + H /\ reass' = reass /\ H' = 0 /\ B' = B /\ M' = M
      BY <1>4, <1>f, <2>1, <2>2
    <3> HIDE DEF H, B, M
    <3> QED BY <1>t, <1>k, <3>1
  <2>3. CASE n = 2
    <3>1. pool' = pool /\ hold'[1] = hold[1]
      BY <1>t, <1>f, <2>1, <2>3 DEF Size
    <3> QED BY <1>1, <1>4, <3>1
  <2> QED BY <2>2, <2>3 DEF Netifs
<1>5. ASSUME NEW n \in Netifs, memp_malloc(n) PROVE PbufsKept'
  <2>1. CASE msgs > 0
    <3>1. UNCHANGED <<pool, reass, mbox, busy>> /\ hold'[1] = hold[1]
      BY <1>5, <2>1 DEF memp_malloc
    <3> QED BY <1>1, <3>1
  <2>2. CASE ~(msgs > 0)
    <3>1. Refused(n, msgs) /\ UNCHANGED <<reass, mbox, busy>>
      BY <1>5, <2>2 DEF memp_malloc
    <3> QED BY <1>4, <3>1
  <2> QED BY <2>1, <2>2
<1>6. ASSUME NEW n \in Netifs, trypost(n) PROVE PbufsKept'
  <2>1. CASE Len(mbox) < MboxSize
    <3> DEFINE e == [netif |-> n, k |-> hold[n]]
    <3>1. /\ mbox' = Append(mbox, e) /\ hold' = [hold EXCEPT ![n] = None]
          /\ UNCHANGED <<pool, reass, busy>>
      BY <1>6, <2>1 DEF trypost
    <3>2. e \in Messages
      BY <1>6 DEF trypost, TypeOK, Holding, Messages
    <3>3. M' = M + Size(n, hold[n])
      <4>1. PbufsIn(Append(mbox, e)) = PbufsIn(mbox) + Size(e.netif, e.k)
        <5> HIDE DEF e
        <5> QED BY <1>f, <3>2, PbufsInQueue
      <4> QED BY <3>1, <4>1
    <3>4. CASE n = 1
      <4>1. pool' = pool /\ reass' = reass /\ H' = 0 /\ B' = B /\ M' = M + H
        BY <1>f, <3>1, <3>3, <3>4
      <4> HIDE DEF H, B, M
      <4> QED BY <1>t, <1>k, <4>1
    <3>5. CASE n = 2
      <4>1. Size(2, hold[2]) = 0
        BY DEF Size
      <4>2. pool' = pool /\ reass' = reass /\ H' = H /\ B' = B /\ M' = M + 0
        BY <1>f, <3>1, <3>3, <3>5, <4>1
      <4> HIDE DEF H, B, M
      <4> QED BY <1>t, <1>k, <4>2
    <3> QED BY <3>4, <3>5 DEF Netifs
  <2>2. CASE ~(Len(mbox) < MboxSize)
    <3>1. Refused(n, msgs + 1) /\ UNCHANGED <<reass, mbox, busy>>
      BY <1>6, <2>2 DEF trypost
    <3> QED BY <1>4, <3>1
  <2> QED BY <2>1, <2>2
<1>7. CASE Fetch
  <2> DEFINE x == Size(Head(mbox).netif, Head(mbox).k)
             y == PbufsIn(Tail(mbox))
  <2>1. /\ busy' = Head(mbox) /\ mbox' = Tail(mbox) /\ mbox # <<>>
        /\ UNCHANGED <<pool, reass, hold>> /\ B = 0
    BY <1>7 DEF Fetch, Size
  <2>2. M = x + y
    BY <1>f, <2>1, PbufsInQueue
  <2>3. x \in Nat /\ y \in Nat
    <3>1. Head(mbox) \in Messages /\ Tail(mbox) \in Seq(Messages)
      BY <1>f, <2>1, Queue
    <3> QED BY <3>1, SizeType, PbufsInQueue DEF Messages
  <2>4. pool' = pool /\ reass' = reass /\ H' = H /\ B' = x /\ M' = y
    BY <2>1
  <2> HIDE DEF H, B, M, x, y
  <2> QED BY <1>t, <1>k, <2>1, <2>2, <2>3, <2>4
<1>8. CASE Process
  <2>1. H' = H /\ B' = 0 /\ M' = M
    BY <1>8 DEF Process, Size, TypeOK
  <2>2. CASE reass' = reass + B /\ pool' = pool
    <3> HIDE DEF H, B, M
    <3> QED BY <1>t, <1>k, <2>1, <2>2
  <2>3. ASSUME NEW n \in 0..reass, pool' = pool + B + n, reass' = reass - n PROVE PbufsKept'
    <3>1. n \in Nat
      BY <1>t
    <3> HIDE DEF H, B, M
    <3> QED BY <1>t, <1>k, <2>1, <2>3, <3>1
  <2> QED BY <1>8, <2>2, <2>3 DEF Process
<1>9. CASE ip_reass_tmr
  <2>1. PICK n \in 1..reass : pool' = pool + n /\ reass' = reass - n
    BY <1>9 DEF ip_reass_tmr
  <2>2. n \in Nat /\ H' = H /\ B' = B /\ M' = M
    BY <1>9, <1>t DEF ip_reass_tmr
  <2> HIDE DEF H, B, M
  <2> QED BY <1>t, <1>k, <2>1, <2>2
<1> QED
  BY <1>2, <1>3, <1>5, <1>6, <1>7, <1>8, <1>9
  DEF Next, Arrivals, ethernetif_1_input, ethernetif_2_input, tcpip_thread, tcpip_input, Netifs

-----------------------------------------------------------------------------
(* The invariant                                                           *)

\* At the start the ring is the DMA's and the pools are full.
LEMMA InitIInv == Init => IInv
<1> SUFFICES ASSUME Init PROVE IInv
  OBVIOUS
<1>1. 0 \in Descs
  BY NetInputAssumption DEF Descs
<1>2. TypeOK
  BY <1>1, NetInputAssumption DEF Init, TypeOK, Netifs
<1>3. MessagesKept
  BY NetInputAssumption DEF Init, MessagesKept, Netifs
<1>4. RingInStep
  <2>1. 0 \in 0..N
    BY NetInputAssumption
  <2>2. \A i \in Descs : own[i] # "cpu" /\ ~(Ahead(i) < 0)
    BY NetInputAssumption DEF Init, Ahead, Descs
  <2>3. dma \in {get + 0, get + 0 - N} /\ pc[1] # "own"
    BY DEF Init, Netifs
  <2> QED BY <2>1, <2>2, <2>3 DEF RingInStep
<1>5. DmaOwns /\ DmaNotStuck /\ Holding /\ Empty
  BY DEF Init, DmaOwns, DmaNotStuck, Holding, Empty
<1>6. PbufsKept
  <2>1. PbufsIn(mbox) = 0 /\ PoolSize \in Nat
    BY PbufsInQueue, NetInputAssumption DEF Init
  <2> QED BY <2>1 DEF Init, PbufsKept, Size, Netifs
<1> QED BY <1>2, <1>3, <1>4, <1>5, <1>6 DEF IInv

\* Every step keeps the invariant.
LEMMA NextIInv == IInv /\ [Next]_vars => IInv'
<1> SUFFICES ASSUME IInv, [Next]_vars PROVE IInv'
  OBVIOUS
<1>1. CASE Next
  BY <1>1, TypeStep, EmptyStep, MessagesStep, RingStep, DmaStep, PbufsStep DEF IInv
<1>2. CASE UNCHANGED vars
  BY <1>2 DEF vars, IInv, TypeOK, MessagesKept, RingInStep, DmaOwns, DmaNotStuck,
              Holding, Empty, PbufsKept, Ahead
<1> QED BY <1>1, <1>2

\* IInv is an invariant of the input path.
THEOREM Inductive == Spec => []IInv
<1> QED BY InitIInv, NextIInv, PTL DEF Spec

\* Whatever arrives and whatever is refused (tcpip.c:343-355), every message is
\* free, in the mailbox or with one task.
THEOREM MessageAccounting == Spec => []MessagesKept
<1>1. IInv => MessagesKept
  BY DEF IInv
<1> QED BY <1>1, Inductive, PTL

\* Whatever is refused on the way and whatever is put together of fragments
\* (ethernetif.c:410-415), every pbuf of the pool is free, in one frame under
\* way or in one fragment that waits: none is lost and none freed twice.
THEOREM PbufAccounting == Spec => []PbufsKept
<1>1. IInv => PbufsKept
  BY DEF IInv
<1> QED BY <1>1, Inductive, PTL

\* The pools never go below zero; on a ring of any size DMARxDescToGet and the
\* DMA stay in step, frames of two descriptors included, and the DMA never owns
\* the buffer low_level_1_input copies from; testing RBUS after OWN is set
\* (ethernetif.c:341-350) never leaves the DMA suspended on its own descriptor.
THEOREM RingProved == Spec => []RingSound
<1>1. IInv => RingSound
  BY DEF IInv, RingSound
<1> QED BY <1>1, Inductive, PTL

-----------------------------------------------------------------------------
(* The frames not yet read                                                 *)

\* What a buffer can hold
Buffers == Parts \cup {None}

\* The descriptor j ahead of DMARxDescToGet
Place(j) == IF get + j < N THEN get + j ELSE get + j - N

\* Place is the inverse of Ahead.
LEMMA PlaceIs ==
  ASSUME TypeOK
  PROVE  /\ \A j \in 0..(N-1) : Place(j) \in Descs /\ Ahead(Place(j)) = j
         /\ \A i \in Descs : Ahead(i) \in 0..(N-1) /\ Place(Ahead(i)) = i
<1>f. N \in Nat /\ N >= 2 /\ Descs = 0..(N-1) /\ get \in 0..(N-1)
  BY RingFacts
<1> QED BY <1>f DEF Place, Ahead

\* Unread lists the buffers from DMARxDescToGet on.
Reads ==
    \A n \in 0..N : InStep(n) =>
       /\ Unread = [j \in 1..n |-> buf[Place(j - 1)]]
       /\ Unread \in Seq(Buffers) /\ Len(Unread) = n

\* The descriptors not yet read are as many as the n of InStep, and the one
\* that is j - 1 ahead is Place(j - 1).
LEMMA UnreadIs == TypeOK => Reads
<1> SUFFICES ASSUME TypeOK, NEW n \in 0..N, InStep(n)
             PROVE  /\ Unread = [j \in 1..n |-> buf[Place(j - 1)]]
                    /\ Unread \in Seq(Buffers) /\ Len(Unread) = n
  BY DEF Reads
<1>f. N \in Nat /\ N >= 2 /\ Descs = 0..(N-1) /\ get \in 0..(N-1) /\ desc \in 0..(N-1) /\ n \in Nat
  BY RingFacts
<1> DEFINE Copied(i) == pc[1] = "own" /\ i = desc
           new == {i \in Descs : own[i] = "cpu" /\ ~Copied(i)}
           R == [j \in 1..n |-> buf[Place(j - 1)]]
<1>1. \A i \in Descs : i \in new <=> Ahead(i) < n
  <2>1. pc[1] = "own" => ~(Ahead(desc) < n)
    BY <1>f DEF InStep, Ahead, Succ
  <2> QED BY <1>f, <2>1 DEF InStep
<1>2. \A j \in 1..n : Place(j - 1) \in new /\ Ahead(Place(j - 1)) = j - 1 /\ Place(j - 1) \in Descs
  <2> HIDE DEF new
  <2> TAKE j \in 1..n
  <2>1. j - 1 \in 0..(N-1) /\ j - 1 < n
    BY <1>f
  <2>2. Place(j - 1) \in Descs /\ Ahead(Place(j - 1)) = j - 1
    BY <2>1, PlaceIs
  <2> QED BY <1>1, <2>1, <2>2
<1>3. \A i \in new : i \in Descs /\ Ahead(i) + 1 \in 1..n /\ Place(Ahead(i)) = i
  <2> TAKE i \in new
  <2>1. i \in Descs
    OBVIOUS
  <2>2. Ahead(i) \in 0..(N-1) /\ Place(Ahead(i)) = i /\ Ahead(i) < n
    <3> HIDE DEF new
    <3> QED BY <1>1, <2>1, PlaceIs
  <2> QED BY <1>f, <2>1, <2>2
<1>4. Cardinality(new) = n
  <2> DEFINE f == [j \in 1..n |-> Place(j - 1)]
  <2> HIDE DEF new
  <2>1. f \in [1..n -> new]
    BY <1>2
  <2>2. ASSUME NEW a \in 1..n, NEW b \in 1..n, f[a] = f[b] PROVE a = b
    <3>1. Ahead(Place(a - 1)) = Ahead(Place(b - 1))
      BY <2>2
    <3>2. a - 1 = b - 1
      BY <1>2, <3>1
    <3> QED BY <3>2
  <2>3. ASSUME NEW i \in new PROVE \E j \in 1..n : f[j] = i
    <3>1. Ahead(i) + 1 \in 1..n /\ Place(Ahead(i)) = i /\ Ahead(i) \in 0..(N-1)
      BY <1>3, PlaceIs
    <3>2. f[Ahead(i) + 1] = i
      <4>1. Ahead(i) + 1 - 1 = Ahead(i)
        BY <1>f, <3>1
      <4> QED BY <3>1, <4>1
    <3> QED BY <3>1, <3>2
  <2>4. f \in Bijection(1..n, new)
    <3> HIDE DEF f
    <3> QED BY <2>1, <2>2, <2>3 DEF Bijection, Injection, Surjection, IsInjective
  <2>5. ExistsBijection(1..n, new)
    BY <2>4 DEF ExistsBijection
  <2> QED BY <1>f, <2>5, FS_CountingElements
<1>5. \A j \in 1..n : (CHOOSE i \in new : Ahead(i) = j - 1) = Place(j - 1)
  <2> HIDE DEF new
  <2> TAKE j \in 1..n
  <2>1. Place(j - 1) \in new /\ Ahead(Place(j - 1)) = j - 1
    BY <1>2
  <2>2. \A i \in new : Ahead(i) = j - 1 => i = Place(j - 1)
    BY <1>3
  <2> DEFINE c == CHOOSE i \in new : Ahead(i) = j - 1
  <2>3. c \in new /\ Ahead(c) = j - 1
    BY <2>1
  <2> HIDE DEF c
  <2>4. c = Place(j - 1)
    BY <2>2, <2>3
  <2> QED BY <2>4 DEF c
<1>6. Unread = [j \in 1..Cardinality(new) |-> buf[CHOOSE i \in new : Ahead(i) = j - 1]]
  BY DEF Unread
<1>7. Unread = R
  <2> HIDE DEF new
  <2>1. Unread = [j \in 1..n |-> buf[CHOOSE i \in new : Ahead(i) = j - 1]]
    BY <1>4, <1>6
  <2> DEFINE c(j) == CHOOSE i \in new : Ahead(i) = j - 1
  <2>2. Unread = [j \in 1..n |-> buf[c(j)]] /\ \A j \in 1..n : c(j) = Place(j - 1)
    BY <1>5, <2>1
  <2> HIDE DEF c
  <2> QED BY <2>2
<1>8. R \in Seq(Buffers) /\ Len(R) = n
  <2>1. \A j \in 1..n : buf[Place(j - 1)] \in Buffers
    BY <1>2 DEF TypeOK, Buffers
  <2> QED BY <1>f, <2>1
<1> QED BY <1>7, <1>8

\* The same after a step
LEMMA ReadsNext == TypeOK' => Reads'
<1> QED BY UnreadIs, PTL

\* A frame that arrives is the last one.
LEMMA UnreadArrive ==
  ASSUME TypeOK, TypeOK', DmaOwns, RingInStep, NEW k \in Kinds, k # "long", Arrive(k)
  PROVE  Unread' = Append(Unread, k)
<1>n. PICK n \in 0..N : InStep(n)
  BY DEF RingInStep, InStep
<1>f. N \in Nat /\ N >= 2 /\ Descs = 0..(N-1) /\ get \in 0..(N-1) /\ dma \in Descs /\ n \in Nat
  BY RingFacts
<1>1. n + 1 \in 0..N /\ Ahead(dma) = n /\ InStep(n + 1)'
  BY <1>n, RingArrive
<1>2. /\ Unread = [j \in 1..n |-> buf[Place(j - 1)]] /\ Unread \in Seq(Buffers) /\ Len(Unread) = n
      /\ Unread' = [j \in 1..(n + 1) |-> buf'[Place(j - 1)']]
      /\ Unread' \in Seq(Buffers) /\ Len(Unread') = n + 1
  <2>1. Reads /\ Reads'
    BY UnreadIs, ReadsNext
  <2>2. \A m \in 0..N : InStep(m)' =>
           /\ Unread' = [j \in 1..m |-> buf'[Place(j - 1)']]
           /\ Unread' \in Seq(Buffers) /\ Len(Unread') = m
    BY <2>1 DEF Reads, Buffers
  <2> QED BY <1>n, <1>1, <2>1, <2>2 DEF Reads
<1>3. get' = get /\ buf' = [buf EXCEPT ![dma] = k] /\ buf \in [Descs -> Buffers] /\ k \in Buffers
  BY NetInputAssumption DEF Arrive, TypeOK, Buffers, Parts
<1>4. \A j \in 1..(n + 1) : Place(j - 1)' = Place(j - 1) /\ Place(j - 1) \in Descs
                           /\ (Place(j - 1) = dma <=> j = n + 1)
  <2> TAKE j \in 1..(n + 1)
  <2>1. Place(j - 1)' = Place(j - 1)
    BY <1>3 DEF Place
  <2>2. j - 1 \in 0..(N-1)
    BY <1>1, <1>f
  <2>3. Place(j - 1) \in Descs /\ Ahead(Place(j - 1)) = j - 1 /\ Place(Ahead(dma)) = dma
    BY <1>f, <2>2, PlaceIs
  <2>4. j - 1 = n <=> j = n + 1
    BY <1>f
  <2> QED BY <1>1, <2>1, <2>3, <2>4
<1>5. /\ Append(Unread, k) \in Seq(Buffers) /\ Len(Append(Unread, k)) = n + 1
      /\ \A j \in 1..n : Append(Unread, k)[j] = Unread[j]
      /\ Append(Unread, k)[n + 1] = k
  BY <1>2, <1>3, AppendProperties
<1>6. \A j \in 1..(n + 1) : Unread'[j] = Append(Unread, k)[j]
  <2> TAKE j \in 1..(n + 1)
  <2>1. Unread'[j] = buf'[Place(j - 1)] /\ Place(j - 1) \in Descs
    BY <1>2, <1>4
  <2>2. CASE j = n + 1
    <3>1. buf'[Place(j - 1)] = k
      BY <1>3, <1>4, <2>1, <2>2
    <3> QED BY <1>5, <2>1, <2>2, <3>1
  <2>3. CASE j # n + 1
    <3>1. j \in 1..n
      BY <1>f, <2>3
    <3>2. Place(j - 1) # dma
      BY <1>4, <2>3
    <3>3. buf'[Place(j - 1)] = buf[Place(j - 1)]
      BY <1>3, <2>1, <3>2
    <3> QED BY <1>2, <1>5, <2>1, <3>1, <3>3
  <2> QED BY <2>2, <2>3
<1>7. Unread' \in Seq(Buffers) /\ Len(Unread') = Len(Append(Unread, k)) /\ Len(Unread') = n + 1
  BY <1>2, <1>5
<1> DEFINE u == Unread'
           a == Append(Unread, k)
<1>8. u \in Seq(Buffers) /\ a \in Seq(Buffers) /\ Len(u) = Len(a) /\ \A j \in 1..Len(u) : u[j] = a[j]
  BY <1>5, <1>6, <1>7
<1>9. u = a
  <2> HIDE DEF u, a
  <2> QED BY <1>8, SeqEqual
<1> QED BY <1>9

\* The task takes the first one.
LEMMA UnreadTake ==
  ASSUME TypeOK, TypeOK', RingInStep, ETH_RxPkt_ChainMode
  PROVE  Unread # <<>> /\ Head(Unread) = buf[get] /\ Unread' = Tail(Unread)
<1>n. PICK n \in 0..N : InStep(n)
  BY DEF RingInStep, InStep
<1>f. N \in Nat /\ N >= 2 /\ Descs = 0..(N-1) /\ get \in 0..(N-1) /\ n \in Nat
  BY RingFacts
<1>1. n - 1 \in 0..N /\ InStep(n - 1)'
  BY <1>n, RingTake
<1>2. /\ Unread = [j \in 1..n |-> buf[Place(j - 1)]] /\ Unread \in Seq(Buffers) /\ Len(Unread) = n
      /\ Unread' = [j \in 1..(n - 1) |-> buf'[Place(j - 1)']]
      /\ Unread' \in Seq(Buffers) /\ Len(Unread') = n - 1
  <2>1. Reads /\ Reads'
    BY UnreadIs, ReadsNext
  <2>2. \A m \in 0..N : InStep(m)' =>
           /\ Unread' = [j \in 1..m |-> buf'[Place(j - 1)']]
           /\ Unread' \in Seq(Buffers) /\ Len(Unread') = m
    BY <2>1 DEF Reads, Buffers
  <2> QED BY <1>n, <1>1, <2>1, <2>2 DEF Reads
<1>3. get' = Succ(get) /\ buf' = buf
  BY DEF ETH_RxPkt_ChainMode, ring
<1>4. n > 0 /\ Unread # <<>>
  <2>1. n > 0
    BY <1>f, <1>1
  <2> QED BY <1>2, <2>1, EmptySeq
<1>5. Head(Unread) = buf[get]
  <2>1. Place(1 - 1) = get
    BY <1>f DEF Place
  <2>2. 1 \in 1..n
    BY <1>f, <1>4
  <2>3. Unread[1] = buf[get]
    BY <1>2, <2>1, <2>2
  <2> QED BY <2>3
<1>6. /\ Tail(Unread) \in Seq(Buffers) /\ Len(Tail(Unread)) = n - 1
      /\ \A j \in 1..(n - 1) : Tail(Unread)[j] = Unread[j + 1]
  BY <1>2, <1>4, HeadTailProperties
<1>7. \A j \in 1..(n - 1) : Unread'[j] = Tail(Unread)[j]
  <2> TAKE j \in 1..(n - 1)
  <2>1. Place(j - 1)' = Place(j + 1 - 1) /\ j + 1 \in 1..n
    BY <1>f, <1>3 DEF Place, Succ
  <2>2. Unread'[j] = buf[Place(j + 1 - 1)] /\ Unread[j + 1] = buf[Place(j + 1 - 1)]
    BY <1>2, <1>3, <2>1
  <2> QED BY <1>6, <2>2
<1> DEFINE u == Unread'
           a == Tail(Unread)
<1>8. u \in Seq(Buffers) /\ a \in Seq(Buffers) /\ Len(u) = Len(a) /\ \A j \in 1..Len(u) : u[j] = a[j]
  BY <1>2, <1>6, <1>7
<1>9. u = a
  <2> HIDE DEF u, a
  <2> QED BY <1>8, SeqEqual
<1> QED BY <1>4, <1>5, <1>9

\* The others leave them alone.
LEMMA UnreadSame ==
  ASSUME TypeOK, TypeOK', RingInStep,
         \/ GiveBack
         \/ UNCHANGED <<own, buf, dma, get, desc>> /\ (pc'[1] = "own" <=> pc[1] = "own")
  PROVE  Unread' = Unread
<1>n. PICK n \in 0..N : InStep(n)
  BY DEF RingInStep, InStep
<1>f. N \in Nat /\ N >= 2 /\ Descs = 0..(N-1) /\ get \in 0..(N-1) /\ desc \in Descs /\ n \in Nat
  BY RingFacts
<1>1. InStep(n)' /\ get' = get /\ \A j \in 1..n : buf'[Place(j - 1)] = buf[Place(j - 1)]
  <2>1. CASE GiveBack
    <3>1. InStep(n)' /\ ~(Ahead(desc) < n)
      BY <1>n, <2>1, RingGiveBack
    <3>2. get' = get /\ buf' = [buf EXCEPT ![desc] = None] /\ buf \in [Descs -> Buffers]
      BY <2>1 DEF GiveBack, TypeOK, Buffers
    <3>3. ASSUME NEW j \in 1..n PROVE buf'[Place(j - 1)] = buf[Place(j - 1)]
      <4>1. j - 1 \in 0..(N-1) /\ j - 1 < n
        BY <1>f
      <4>2. Place(j - 1) \in Descs /\ Ahead(Place(j - 1)) = j - 1
        BY <4>1, PlaceIs
      <4>3. Place(j - 1) # desc
        BY <3>1, <4>1, <4>2
      <4> QED BY <3>2, <4>2, <4>3
    <3> QED BY <3>1, <3>2, <3>3
  <2>2. CASE UNCHANGED <<own, buf, dma, get, desc>> /\ (pc'[1] = "own" <=> pc[1] = "own")
    <3>1. UNCHANGED <<own, dma, get, desc>>
      BY <2>2
    <3>2. InStep(n)'
      BY <1>n, <2>2, <3>1, RingSame
    <3> QED BY <2>2, <3>2
  <2> QED BY <2>1, <2>2
<1>2. /\ Unread = [j \in 1..n |-> buf[Place(j - 1)]]
      /\ Unread' = [j \in 1..n |-> buf'[Place(j - 1)']]
  <2>1. Reads /\ Reads'
    BY UnreadIs, ReadsNext
  <2>2. \A m \in 0..N : InStep(m)' => Unread' = [j \in 1..m |-> buf'[Place(j - 1)']]
    BY <2>1 DEF Reads
  <2> QED BY <1>n, <1>1, <2>1, <2>2 DEF Reads
<1>3. \A j \in 1..n : Place(j - 1)' = Place(j - 1)
  BY <1>1 DEF Place
<1> QED BY <1>1, <1>2, <1>3

-----------------------------------------------------------------------------
(* Sequences in which one frame may be lost                                *)

\* c becomes d by the loss of a frame.
Loses(c, d) == \E i \in DOMAIN c : d = SubSeq(c, 1, i - 1) \o SubSeq(c, i + 1, Len(c))

\* Leaving out the entry between a and b is a loss.
LEMMA Loss ==
  ASSUME NEW S, NEW a \in Seq(S), NEW b \in Seq(S), NEW x \in S
  PROVE  Loses(a \o (<<x>> \o b), a \o b)
<1> DEFINE o == <<x>>
           t == o \o b
           c == a \o t
           i == Len(a) + 1
<1>1. o \in Seq(S) /\ Len(o) = 1 /\ o[1] = x
  OBVIOUS
<1> HIDE DEF o
<1>2. /\ t \in Seq(S) /\ Len(t) = Len(b) + 1 /\ Len(a) \in Nat /\ Len(b) \in Nat
      /\ \A j \in 1..Len(b) : t[j + 1] = b[j]
  <2>1. /\ t \in Seq(S) /\ Len(t) = Len(o) + Len(b)
        /\ \A j \in 1..(Len(o) + Len(b)) : t[j] = IF j <= Len(o) THEN o[j] ELSE b[j - Len(o)]
    BY <1>1, ConcatProperties
  <2>2. Len(a) \in Nat /\ Len(b) \in Nat
    BY LenProperties
  <2> HIDE DEF t
  <2>3. ASSUME NEW j \in 1..Len(b) PROVE t[j + 1] = b[j]
    <3>1. j + 1 \in 1..(Len(o) + Len(b)) /\ ~(j + 1 <= Len(o)) /\ j + 1 - Len(o) = j
      BY <1>1, <2>2
    <3> QED BY <2>1, <3>1
  <2> QED BY <1>1, <2>1, <2>2, <2>3
<1> HIDE DEF t
<1>3. /\ c \in Seq(S) /\ Len(c) = Len(a) + Len(b) + 1 /\ DOMAIN c = 1..Len(c)
      /\ \A j \in 1..Len(a) : c[j] = a[j]
      /\ \A j \in 1..Len(b) : c[Len(a) + 1 + j] = b[j]
  <2>1. /\ c \in Seq(S) /\ Len(c) = Len(a) + Len(t)
        /\ \A j \in 1..(Len(a) + Len(t)) : c[j] = IF j <= Len(a) THEN a[j] ELSE t[j - Len(a)]
    BY <1>2, ConcatProperties
  <2> HIDE DEF c
  <2>2. DOMAIN c = 1..Len(c)
    BY <2>1, LenProperties
  <2>3. ASSUME NEW j \in 1..Len(a) PROVE c[j] = a[j]
    <3>1. j \in 1..(Len(a) + Len(t)) /\ j <= Len(a)
      BY <1>2
    <3> QED BY <2>1, <3>1
  <2>4. ASSUME NEW j \in 1..Len(b) PROVE c[Len(a) + 1 + j] = b[j]
    <3> DEFINE m == Len(a) + 1 + j
    <3>1. m \in 1..(Len(a) + Len(t)) /\ ~(m <= Len(a)) /\ m - Len(a) = j + 1
      BY <1>2
    <3> HIDE DEF m
    <3>2. c[m] = b[j]
      BY <1>2, <2>1, <3>1
    <3> QED BY <3>2 DEF m
  <2> QED BY <1>2, <2>1, <2>2, <2>3, <2>4
<1> HIDE DEF c
<1>4. SubSeq(c, 1, i - 1) = a
  <2> DEFINE s == SubSeq(c, 1, Len(a))
  <2>1. \A j \in 1..Len(a) : c[j] \in S /\ 1 + j - 1 = j
    BY <1>2, <1>3, ElementOfSeq
  <2>2. /\ s \in Seq(S) /\ Len(s) = IF 1 <= Len(a) THEN Len(a) - 1 + 1 ELSE 0
        /\ \A j \in 1..(Len(a) - 1 + 1) : s[j] = c[1 + j - 1]
    <3>1. 1 \in Int /\ Len(a) \in Int
      BY <1>2
    <3> QED BY <2>1, <3>1, SubSeqProperties
  <2> HIDE DEF s
  <2>3. Len(s) = Len(a) /\ \A j \in 1..Len(s) : s[j] = a[j]
    BY <1>2, <1>3, <2>1, <2>2
  <2>4. s = a
    BY <2>2, <2>3, SeqEqual
  <2>5. i - 1 = Len(a)
    BY <1>2
  <2> QED BY <2>4, <2>5 DEF s
<1>5. SubSeq(c, i + 1, Len(c)) = b
  <2> DEFINE m == i + 1
             n == Len(c)
             s == SubSeq(c, m, n)
  <2>1. m \in Int /\ n \in Int /\ n - m + 1 = Len(b) /\ m = Len(a) + 2
    BY <1>2, <1>3
  <2> HIDE DEF m, n
  <2>2. \A j \in m..n : c[j] \in S
    <3> TAKE j \in m..n
    <3>1. j \in 1..Len(c)
      BY <1>2, <1>3, <2>1 DEF n
    <3> QED BY <1>3, <3>1, ElementOfSeq
  <2>3. /\ s \in Seq(S) /\ Len(s) = IF m <= n THEN n - m + 1 ELSE 0
        /\ \A j \in 1..(n - m + 1) : s[j] = c[m + j - 1]
    BY <2>1, <2>2, SubSeqProperties
  <2> HIDE DEF s
  <2>4. Len(s) = Len(b)
    BY <1>2, <2>1, <2>3
  <2>5. ASSUME NEW j \in 1..Len(b) PROVE s[j] = b[j]
    <3>1. m + j - 1 = Len(a) + 1 + j /\ j \in 1..(n - m + 1)
      BY <1>2, <2>1
    <3> QED BY <1>3, <2>3, <3>1
  <2>6. s = b
    BY <2>3, <2>4, <2>5, SeqEqual
  <2> QED BY <2>6 DEF s, m, n
<1>6. i \in DOMAIN c
  BY <1>2, <1>3
<1>7. Loses(c, a \o b)
  BY <1>4, <1>5, <1>6 DEF Loses
<1> QED BY <1>7 DEF c, t, o

\* A frame goes from what is not read to the task.
LEMMA HandOn ==
  ASSUME NEW S, NEW u \in Seq(S), NEW r \in Seq(S), NEW x \in S
  PROVE  u \o <<x>> \o r = u \o <<>> \o (<<x>> \o r)
<1> DEFINE o == <<x>>
<1>1. o \in Seq(S)
  OBVIOUS
<1>2. (u \o o) \o r = u \o (o \o r)
  <2> HIDE DEF o
  <2> QED BY <1>1, ConcatAssociative
<1>3. u \o <<>> = u
  BY ConcatEmptySeq
<1> QED BY <1>2, <1>3

\* A frame goes from the task to the mailbox.
LEMMA Posted ==
  ASSUME NEW S, NEW a \in Seq(S), NEW m \in Seq(S), NEW x \in S
  PROVE  a \o Append(m, x) \o <<>> = a \o m \o <<x>>
<1> DEFINE u == a \o m
<1>1. u \in Seq(S)
  BY ConcatProperties
<1>2. a \o Append(m, x) = Append(u, x)
  BY AppendToJoin
<1>3. Append(u, x) = u \o <<x>> /\ Append(u, x) \in Seq(S)
  <2> HIDE DEF u
  <2> QED BY <1>1, AppendIsJoin, AppendProperties
<1>4. Append(u, x) \o <<>> = Append(u, x)
  <2> DEFINE v == Append(u, x)
  <2>1. v \in Seq(S)
    BY <1>3
  <2> HIDE DEF v
  <2>2. v \o <<>> = v
    BY <2>1, ConcatEmptySeq
  <2> QED BY <2>2 DEF v
<1> QED BY <1>2, <1>3, <1>4

\* The joins of what tcpip_thread has, what the mailbox has, what the task has
\* and what it has not read
LEMMA Joins ==
  ASSUME NEW S, NEW a \in Seq(S), NEW m \in Seq(S), NEW b \in Seq(S), NEW r \in Seq(S), NEW x \in S
  PROVE  /\ a \o m \o b \o Append(r, x) = Append(a \o m \o b \o r, x)
         /\ Loses(a \o m \o <<>> \o (<<x>> \o r), a \o m \o <<>> \o r)
         /\ Loses(a \o m \o <<x>> \o r, a \o m \o <<>> \o r)
         /\ Loses(<<x>> \o m \o b \o r, <<>> \o m \o b \o r)
<1> DEFINE o == <<x>>
           e == <<>>
<1>1. o \in Seq(S) /\ e \in Seq(S)
  OBVIOUS
<1>2. a \o m \in Seq(S) /\ a \o m \o b \in Seq(S)
  <2>1. a \o m \in Seq(S)
    BY ConcatProperties
  <2> QED BY <2>1, ConcatProperties
<1> DEFINE u == a \o m
<1>3. u \in Seq(S) /\ u \o e = u /\ u \o o \in Seq(S) /\ o \o r \in Seq(S)
  <2> HIDE DEF o
  <2> QED BY <1>1, <1>2, ConcatEmptySeq, ConcatProperties
<1>4. a \o m \o b \o Append(r, x) = Append(a \o m \o b \o r, x)
  BY <1>2, AppendToJoin
<1>5. u \o o \o r = u \o e \o (o \o r)
  <2>1. (u \o o) \o r = u \o (o \o r)
    <3> HIDE DEF u, o
    <3> QED BY <1>1, <1>3, ConcatAssociative, SMTT(30)
  <2> QED BY <1>3, <2>1
<1>6. Loses(u \o e \o (o \o r), u \o e \o r)
  <2>1. Loses(u \o (o \o r), u \o r)
    <3> HIDE DEF u
    <3> QED BY <1>3, Loss
  <2> QED BY <1>3, <2>1
<1>9. Loses(o \o m \o b \o r, e \o m \o b \o r)
  <2> DEFINE w == m \o b
             v == w \o r
  <2>1. w \in Seq(S)
    BY ConcatProperties
  <2>2. v \in Seq(S)
    <3> HIDE DEF w
    <3> QED BY <2>1, ConcatProperties
  <2>3. e \o m \o b \o r = v
    <3>1. e \o m = m
      BY ConcatEmptySeq
    <3> QED BY <3>1
  <2>4. o \o m \o b \o r = o \o v
    <3>1. (o \o m) \o b = o \o w
      <4> HIDE DEF o
      <4> QED BY <1>1, ConcatAssociative, SMTT(30)
    <3>2. (o \o w) \o r = o \o v
      <4> HIDE DEF o, w
      <4> QED BY <1>1, <2>1, ConcatAssociative, SMTT(30)
    <3> QED BY <3>1, <3>2
  <2>5. Loses(e \o (o \o v), e \o v)
    <3> HIDE DEF v, e
    <3> QED BY <1>1, <2>2, Loss
  <2>6. e \o (o \o v) = o \o v /\ e \o v = v
    <3>1. o \o v \in Seq(S)
      <4> HIDE DEF o, v
      <4> QED BY <1>1, <2>2, ConcatProperties
    <3> HIDE DEF v
    <3> QED BY <2>2, <3>1, ConcatEmptySeq
  <2> HIDE DEF v
  <2> QED BY <2>3, <2>4, <2>5, <2>6
<1>10. Loses(u \o o \o r, u \o e \o r)
  BY <1>5, <1>6
<1> QED BY <1>4, <1>6, <1>9, <1>10

-----------------------------------------------------------------------------
(* Each interface as a lossy FIFO                                          *)

\* The frame with tcpip_thread, the one with the task, those not yet read, and
\* all of an interface
FrontOf(n) == IF busy.netif = n /\ busy.k # None THEN <<busy.k>> ELSE <<>>
BackOf(n) == IF hold[n] # None THEN <<hold[n]>> ELSE <<>>
Rest(n) == IF n = 1 THEN Unread ELSE enc
Chan(n) == Under(n) \o Rest(n)

\* A frame comes in at the end, a frame is lost, or nothing changes.
Lossy(c, d) == d = c \/ (\E f \in Kinds : d = Append(c, f)) \/ Loses(c, d)

\* The frames under way are four queues joined.
LEMMA ChanType ==
  ASSUME TypeOK, RingInStep, NEW n \in Netifs
  PROVE  /\ FrontOf(n) \in Seq(Buffers) /\ FramesOf(mbox, n) \in Seq(Buffers)
         /\ BackOf(n) \in Seq(Buffers) /\ Rest(n) \in Seq(Buffers)
         /\ Chan(n) = FrontOf(n) \o FramesOf(mbox, n) \o BackOf(n) \o Rest(n)
<1>1. Parts \subseteq Buffers /\ busy.k \in Buffers /\ hold[n] \in Buffers
  BY DEF TypeOK, Buffers
<1>2. FrontOf(n) \in Seq(Buffers) /\ BackOf(n) \in Seq(Buffers)
  BY <1>1 DEF FrontOf, BackOf
<1>3. FramesOf(mbox, n) \in Seq(Buffers)
  <2>1. FramesOf(mbox, n) \in Seq(Parts)
    BY FramesOfQueue DEF TypeOK
  <2> QED BY <1>1, <2>1, SeqMonotonic
<1>4. Rest(n) \in Seq(Buffers)
  <2>1. PICK k \in 0..N : InStep(k)
    BY DEF RingInStep, InStep
  <2>2. Unread \in Seq(Buffers)
    BY <2>1, UnreadIs DEF Reads
  <2>3. enc \in Seq(Buffers)
    BY <1>1, SeqMonotonic DEF TypeOK
  <2> QED BY <2>2, <2>3 DEF Rest
<1>5. Chan(n) = FrontOf(n) \o FramesOf(mbox, n) \o BackOf(n) \o Rest(n)
  BY DEF Chan, Under, FrontOf, BackOf
<1> QED BY <1>2, <1>3, <1>4, <1>5

\* What one step does to the frames of a netif
LEMMA ChanStep ==
  ASSUME TypeOK, TypeOK', RingInStep, DmaOwns, Holding, Empty, "long" \notin Kinds,
         NEW n \in Netifs, Next
  PROVE  Lossy(Chan(n), Chan(n)')
<1> DEFINE a == FrontOf(n)
           m == FramesOf(mbox, n)
           b == BackOf(n)
           r == Rest(n)
<1>t. /\ a \in Seq(Buffers) /\ m \in Seq(Buffers) /\ b \in Seq(Buffers) /\ r \in Seq(Buffers)
      /\ Chan(n) = a \o m \o b \o r
  BY ChanType
<1>p. Chan(n)' = a' \o m' \o b' \o r'
  BY DEF Chan, Under, FrontOf, BackOf
<1>f. DOMAIN pc = Netifs /\ DOMAIN hold = Netifs /\ 1 \in Netifs /\ 2 \in Netifs /\ mbox \in Seq(Messages)
  BY DEF TypeOK, Netifs
<1>k. Kinds \subseteq Buffers /\ None \notin Parts
  BY NetInputAssumption DEF Buffers, Parts, None
<1>0. ASSUME a' = a, m' = m, b' = b, r' = r PROVE Lossy(Chan(n), Chan(n)')
  BY <1>t, <1>p, <1>0 DEF Lossy
<1>e. ASSUME UNCHANGED <<busy, mbox>>, hold'[n] = hold[n], r' = r PROVE Lossy(Chan(n), Chan(n)')
  BY <1>0, <1>e DEF FrontOf, BackOf
<1>u. ASSUME \/ GiveBack
             \/ UNCHANGED <<own, buf, dma, get, desc>> /\ (pc'[1] = "own" <=> pc[1] = "own"),
             UNCHANGED enc
      PROVE  r' = r
  <2>1. Unread' = Unread
    BY <1>u, UnreadSame
  <2> QED BY <1>u, <2>1 DEF Rest
<1>1. CASE \/ DmaFetch \/ GiveBack \/ Resume \/ Sleep1 \/ Sleep2 \/ ip_reass_tmr
           \/ \E i \in Netifs : Wake(i)
  <2>1. UNCHANGED <<busy, mbox, enc>> /\ hold'[n] = hold[n]
    BY <1>1 DEF DmaFetch, GiveBack, Resume, Sleep1, Sleep2, ip_reass_tmr, Wake
  <2>2. \/ GiveBack
        \/ UNCHANGED <<own, buf, dma, get, desc>> /\ (pc'[1] = "own" <=> pc[1] = "own")
    BY <1>1, <1>f DEF DmaFetch, Resume, Sleep1, Sleep2, ip_reass_tmr, Wake, AfterInput, ring
  <2> QED BY <1>e, <1>u, <2>1, <2>2
<1>g. ASSUME NEW k \in Kinds, a' = a, m' = m, b' = b, r' = Append(r, k)
      PROVE  Lossy(Chan(n), Chan(n)')
  <2>1. k \in Buffers
    BY <1>k
  <2>2. a \o m \o b \o Append(r, k) = Append(a \o m \o b \o r, k)
    <3> HIDE DEF a, m, b, r
    <3> QED BY <1>t, <2>1, Joins
  <2>3. Chan(n)' = Append(Chan(n), k)
    <3> HIDE DEF a, m, b, r
    <3> QED BY <1>t, <1>p, <1>g, <2>2
  <2> QED BY <2>3 DEF Lossy
<1>2. ASSUME NEW k \in Kinds, Arrive(k) PROVE Lossy(Chan(n), Chan(n)')
  <2>1. UNCHANGED <<busy, mbox, hold, enc>>
    BY <1>2 DEF Arrive
  <2>2. CASE n = 1
    <3>1. k # "long"
      BY <1>2
    <3>2. r' = Append(r, k)
      BY <1>2, <2>2, <3>1, UnreadArrive DEF Rest
    <3>3. a' = a /\ m' = m /\ b' = b
      BY <2>1 DEF FrontOf, BackOf
    <3> QED BY <1>2, <1>g, <3>2, <3>3
  <2>3. CASE n = 2
    <3>1. r' = r
      BY <2>1, <2>3 DEF Rest
    <3> QED BY <1>e, <2>1, <3>1
  <2> QED BY <2>2, <2>3 DEF Netifs
<1>3. ASSUME NEW k \in Kinds, EncArrive(k) PROVE Lossy(Chan(n), Chan(n)')
  <2>1. UNCHANGED <<busy, mbox, hold, own, buf, dma, get, desc, pc>> /\ enc' = Append(enc, k)
    BY <1>3 DEF EncArrive, ring
  <2>2. CASE n = 1
    <3>1. Unread' = Unread
      BY <2>1, UnreadSame
    <3>2. r' = r
      BY <2>2, <3>1 DEF Rest
    <3> QED BY <1>e, <2>1, <3>2
  <2>3. CASE n = 2
    <3>1. r' = Append(r, k)
      BY <2>1, <2>3 DEF Rest
    <3>2. a' = a /\ m' = m /\ b' = b
      BY <2>1 DEF FrontOf, BackOf
    <3> QED BY <1>g, <3>1, <3>2
  <2> QED BY <2>2, <2>3 DEF Netifs
<1>h. ASSUME NEW x \in Buffers, NEW t \in Seq(Buffers), r = <<x>> \o t, b = <<>>,
             a' = a, m' = m, r' = t, b' = <<x>> \/ b' = <<>>
      PROVE  Lossy(Chan(n), Chan(n)')
  <2>1. a \o m \o <<x>> \o t = a \o m \o <<>> \o (<<x>> \o t)
    <3> DEFINE u == a \o m
    <3>1. u \in Seq(Buffers)
      BY <1>t, ConcatProperties
    <3>2. u \o <<x>> \o t = u \o <<>> \o (<<x>> \o t)
      <4> HIDE DEF u
      <4> QED BY <3>1, HandOn
    <3> QED BY <3>2
  <2>a. Loses(a \o m \o <<>> \o (<<x>> \o t), a \o m \o <<>> \o t)
    <3> HIDE DEF a, m, b, r
    <3> QED BY <1>t, Joins
  <2> HIDE DEF a, m, b, r
  <2>2. CASE b' = <<x>>
    <3>1. Chan(n)' = Chan(n)
      BY <1>h, <1>t, <1>p, <2>1, <2>2
    <3> QED BY <3>1 DEF Lossy
  <2>3. CASE b' = <<>>
    <3>1. Loses(Chan(n), Chan(n)')
      BY <1>h, <1>t, <1>p, <2>a, <2>3
    <3> QED BY <3>1 DEF Lossy
  <2> QED BY <1>h, <2>2, <2>3
<1>4. CASE ETH_RxPkt_ChainMode
  <2>1. UNCHANGED <<busy, mbox, enc>> /\ hold[1] = None /\ hold'[2] = hold[2]
    BY <1>4, <1>f DEF ETH_RxPkt_ChainMode, Empty
  <2>2. CASE n = 1
    <3> DEFINE x == buf[get]
               t == Tail(Unread)
    <3>1. Unread # <<>> /\ Head(Unread) = x /\ Unread' = t
      BY <1>4, UnreadTake
    <3>2. x \in Buffers /\ x # None
      BY <1>4, <1>f DEF ETH_RxPkt_ChainMode, ETH_GetRxPktSize, TypeOK, Buffers, None
    <3>3. r = Unread /\ r' = t
      BY <2>2, <3>1 DEF Rest
    <3>4. Unread = <<x>> \o t /\ t \in Seq(Buffers)
      <4>1. Unread \in Seq(Buffers)
        BY <1>t, <3>3
      <4>2. Unread = <<Head(Unread)>> \o Tail(Unread) /\ Tail(Unread) \in Seq(Buffers)
        BY <3>1, <4>1, HeadAndTail, HeadTailProperties
      <4> QED BY <3>1, <4>2
    <3>5. a' = a /\ m' = m /\ b = <<>>
      BY <2>1, <2>2 DEF FrontOf, BackOf
    <3>6. b' = <<x>> \/ b' = <<>>
      <4>1. hold'[1] = x \/ hold'[1] = hold[1]
        BY <1>4, <1>f DEF ETH_RxPkt_ChainMode
      <4> QED BY <2>1, <2>2, <3>2, <4>1 DEF BackOf
    <3>7. r = <<x>> \o t
      BY <3>3, <3>4
    <3> HIDE DEF x, t
    <3> QED BY <1>h, <3>2, <3>3, <3>4, <3>5, <3>6, <3>7
  <2>3. CASE n = 2
    <3>1. r' = r
      BY <2>1, <2>3 DEF Rest
    <3> QED BY <1>e, <2>1, <2>3, <3>1
  <2> QED BY <2>2, <2>3 DEF Netifs
<1>5. CASE enc28j60PacketReceive
  <2>1. /\ UNCHANGED <<busy, mbox, own, buf, dma, get, desc>> /\ hold[2] = None /\ hold'[1] = hold[1]
        /\ (pc'[1] = "own" <=> pc[1] = "own") /\ enc # <<>> /\ enc' = Tail(enc)
        /\ (hold'[2] = Head(enc) \/ hold'[2] = hold[2])
    BY <1>5, <1>f DEF enc28j60PacketReceive, Empty, ring
  <2>2. CASE n = 1
    <3>1. Unread' = Unread
      BY <2>1, UnreadSame
    <3>2. r' = r
      BY <2>2, <3>1 DEF Rest
    <3> QED BY <1>e, <2>1, <2>2, <3>2
  <2>3. CASE n = 2
    <3> DEFINE x == Head(enc)
               t == Tail(enc)
    <3>1. enc \in Seq(Parts) /\ enc \in Seq(Buffers) /\ r = enc /\ r' = t
      BY <1>t, <2>1, <2>3 DEF Rest, TypeOK
    <3>2. x \in Parts /\ x \in Buffers /\ x # None
      <4>1. x \in Parts
        BY <2>1, <3>1, HeadTailProperties
      <4> QED BY <1>k, <4>1 DEF Buffers
    <3>3. enc = <<x>> \o t /\ t \in Seq(Buffers)
      BY <2>1, <3>1, HeadAndTail, HeadTailProperties
    <3>4. a' = a /\ m' = m /\ b = <<>>
      BY <2>1, <2>3 DEF FrontOf, BackOf
    <3>5. b' = <<x>> \/ b' = <<>>
      BY <2>1, <2>3, <3>2 DEF BackOf
    <3>6. r = <<x>> \o t
      BY <3>1, <3>3
    <3> HIDE DEF x, t
    <3> QED BY <1>h, <3>1, <3>2, <3>3, <3>4, <3>5, <3>6
  <2> QED BY <2>2, <2>3 DEF Netifs
<1>i. ASSUME NEW i \in Netifs, memp_malloc(i) \/ trypost(i)
      PROVE  r' = r /\ UNCHANGED busy
  <2>1. /\ UNCHANGED <<busy, enc, own, buf, dma, get, desc>>
        /\ (pc'[1] = "own" <=> pc[1] = "own")
    BY <1>i, <1>f DEF memp_malloc, trypost, Refused, ring
  <2> QED BY <1>u, <2>1
<1>6. ASSUME NEW i \in Netifs, hold[i] # None, hold' = [hold EXCEPT ![i] = None], mbox' = mbox,
             UNCHANGED busy, r' = r
      PROVE  Lossy(Chan(n), Chan(n)')
  <2>1. CASE i = n
    <3> DEFINE x == hold[n]
    <3>1. x \in Buffers /\ b = <<x>> /\ b' = <<>> /\ a' = a /\ m' = m
      BY <1>6, <1>f, <2>1 DEF FrontOf, BackOf, TypeOK, Buffers
    <3> HIDE DEF a, m, b, r, x
    <3>2. Loses(a \o m \o <<x>> \o r, a \o m \o <<>> \o r)
      BY <1>t, <3>1, Joins
    <3>3. Loses(Chan(n), Chan(n)')
      BY <1>t, <1>p, <1>6, <3>1, <3>2
    <3> QED BY <3>3 DEF Lossy
  <2>2. CASE i # n
    <3>1. hold'[n] = hold[n]
      BY <1>6, <1>f, <2>2
    <3> QED BY <1>e, <1>6, <3>1
  <2> QED BY <2>1, <2>2
<1>7. ASSUME NEW i \in Netifs, memp_malloc(i) PROVE Lossy(Chan(n), Chan(n)')
  <2>1. hold[i] # None /\ UNCHANGED mbox
    BY <1>7 DEF memp_malloc, Holding
  <2>2. r' = r /\ UNCHANGED busy
    BY <1>7, <1>i
  <2>3. CASE hold' = hold
    BY <1>e, <2>1, <2>2, <2>3
  <2>4. CASE hold' = [hold EXCEPT ![i] = None]
    BY <1>6, <2>1, <2>2, <2>4
  <2>5. hold' = hold \/ hold' = [hold EXCEPT ![i] = None]
    BY <1>7 DEF memp_malloc, Refused
  <2> QED BY <2>3, <2>4, <2>5
<1>8. ASSUME NEW i \in Netifs, trypost(i) PROVE Lossy(Chan(n), Chan(n)')
  <2> DEFINE e == [netif |-> i, k |-> hold[i]]
  <2>1. hold[i] # None /\ hold[i] \in Parts /\ hold' = [hold EXCEPT ![i] = None]
    BY <1>8 DEF trypost, Refused, Holding, TypeOK
  <2>2. r' = r /\ UNCHANGED busy
    BY <1>8, <1>i
  <2>3. CASE mbox' = mbox
    BY <1>6, <2>1, <2>2, <2>3
  <2>4. CASE mbox' = Append(mbox, e)
    <3>1. e \in Messages /\ e.netif = i /\ e.k = hold[i]
      BY <2>1 DEF Messages
    <3>2. FramesOf(Append(mbox, e), n) = IF e.netif = n THEN Append(m, e.k) ELSE m
      <4> HIDE DEF e
      <4> QED BY <1>f, <3>1, FramesOfQueue
    <3>3. m' = IF i = n THEN Append(m, hold[i]) ELSE m
      BY <2>4, <3>1, <3>2
    <3>4. a' = a
      BY <2>2 DEF FrontOf
    <3>5. CASE i = n
      <4> DEFINE x == hold[n]
      <4>1. x \in Buffers /\ b = <<x>> /\ b' = <<>> /\ m' = Append(m, x)
        BY <1>f, <2>1, <3>3, <3>5 DEF BackOf, Buffers
      <4> HIDE DEF a, m, b, r, x
      <4>2. a \o Append(m, x) \o <<>> \o r = a \o m \o <<x>> \o r
        BY <1>t, <4>1, Posted
      <4>3. Chan(n)' = Chan(n)
        BY <1>t, <1>p, <2>2, <3>4, <4>1, <4>2
      <4> QED BY <4>3 DEF Lossy
    <3>6. CASE i # n
      <4>1. b' = b
        BY <1>f, <2>1, <3>6 DEF BackOf
      <4>2. m' = m
        BY <3>3, <3>6
      <4> QED BY <1>0, <2>2, <3>4, <4>1, <4>2
    <3> QED BY <3>5, <3>6
  <2>5. mbox' = mbox \/ mbox' = Append(mbox, e)
    BY <1>8 DEF trypost
  <2> QED BY <2>3, <2>4, <2>5
<1>9. CASE Fetch
  <2>1. /\ UNCHANGED <<hold, enc, own, buf, dma, get, desc, pc>> /\ busy.k = None
        /\ mbox # <<>> /\ busy' = Head(mbox) /\ mbox' = Tail(mbox)
    BY <1>9 DEF Fetch, ring
  <2>2. r' = r /\ b' = b /\ a = <<>>
    <3>1. r' = r
      BY <1>u, <2>1
    <3> QED BY <2>1, <3>1 DEF BackOf, FrontOf
  <2> DEFINE h == IF Head(mbox).netif = n THEN <<Head(mbox).k>> ELSE <<>>
             y == FramesOf(Tail(mbox), n)
  <2>3. Head(mbox) \in Messages /\ Tail(mbox) \in Seq(Messages)
    BY <1>f, <2>1, Queue
  <2>4. Head(mbox).k \in Parts /\ Head(mbox).k # None
    BY <1>k, <2>3 DEF Messages
  <2>5. a' = h /\ m' = y /\ m = h \o y
    <3>1. a' = h
      BY <2>1, <2>4 DEF FrontOf
    <3>2. m = h \o y
      BY <1>f, <2>1, FramesOfQueue
    <3> QED BY <2>1, <3>1, <3>2
  <2>6. <<>> \o (h \o y) = h \o y
    <3>1. h \o y \in Seq(Buffers)
      BY <1>t, <2>5
    <3> HIDE DEF h, y
    <3> QED BY <3>1, ConcatEmptySeq
  <2> HIDE DEF a, m, b, r, h, y
  <2>7. Chan(n)' = Chan(n)
    BY <1>t, <1>p, <2>2, <2>5, <2>6
  <2> QED BY <2>7 DEF Lossy
<1>10. CASE Process
  <2>1. UNCHANGED <<mbox, hold, enc, own, buf, dma, get, desc, pc>> /\ busy.k # None
    BY <1>10 DEF Process, ring
  <2>2. busy'.k = None
    BY <1>10 DEF Process, TypeOK
  <2>3. r' = r /\ b' = b /\ m' = m /\ a' = <<>>
    <3>1. r' = r
      BY <1>u, <2>1
    <3> QED BY <2>1, <2>2, <3>1 DEF BackOf, FrontOf
  <2>4. CASE busy.netif = n
    <3> DEFINE x == busy.k
    <3>1. x \in Buffers /\ a = <<x>>
      BY <2>1, <2>4 DEF FrontOf, TypeOK, Buffers
    <3> HIDE DEF a, m, b, r, x
    <3>2. Loses(<<x>> \o m \o b \o r, <<>> \o m \o b \o r)
      BY <1>t, <3>1, Joins
    <3>3. Loses(Chan(n), Chan(n)')
      BY <1>t, <1>p, <2>3, <3>1, <3>2
    <3> QED BY <3>3 DEF Lossy
  <2>5. CASE busy.netif # n
    <3>1. a' = a
      BY <2>3, <2>5 DEF FrontOf
    <3> QED BY <1>0, <2>3, <3>1
  <2> QED BY <2>4, <2>5
<1> QED
  BY <1>1, <1>2, <1>3, <1>4, <1>5, <1>7, <1>8, <1>9, <1>10
  DEF Next, Arrivals, ethernetif_1_input, ethernetif_2_input, tcpip_thread, tcpip_input, Netifs

\* Frames that fit a buffer (one that does not arrives in two parts, which
\* ETH_GetRxPktSize never takes for a frame): each interface is a lossy FIFO on a ring of any
\* size and for pools of any size. Whatever the two tasks and tcpip_thread do
\* in between, frames are lost at most, and never reordered, doubled or made up
\* (ethernetif.c:385-440, tcpip.c:335-365).
THEOREM InterfaceIsFifo ==
  ASSUME "long" \notin Kinds
  PROVE  Spec => InOrder
<1>1. Init => Fifo1!Init /\ Fifo2!Init
  <2> SUFFICES ASSUME Init PROVE Chan(1) = <<>> /\ Chan(2) = <<>>
    BY DEF Fifo1!Init, Fifo2!Init, Chan, Rest
  <2>1. TypeOK /\ RingInStep
    BY InitIInv DEF IInv
  <2>2. InStep(0) /\ 0 \in 0..N
    <3>1. \A i \in Descs : own[i] # "cpu" /\ ~(Ahead(i) < 0)
      BY NetInputAssumption DEF Init, Ahead, Descs
    <3> QED BY <3>1, NetInputAssumption DEF Init, InStep, Netifs
  <2>3. Unread = <<>>
    <3>1. Unread \in Seq(Buffers) /\ Len(Unread) = 0
      BY <2>1, <2>2, UnreadIs DEF Reads
    <3> QED BY <3>1, EmptySeq
  <2>4. ASSUME NEW n \in Netifs PROVE Chan(n) = <<>>
    <3>1. FrontOf(n) = <<>> /\ BackOf(n) = <<>> /\ Rest(n) = <<>>
      BY <2>3 DEF Init, FrontOf, BackOf, Rest
    <3>2. FramesOf(mbox, n) = <<>>
      BY FramesOfQueue DEF Init
    <3>3. Chan(n) = <<>> \o <<>> \o <<>> \o <<>>
      BY <2>1, <3>1, <3>2, ChanType
    <3> QED BY <3>3
  <2> QED BY <2>4 DEF Netifs
<1>2. ASSUME IInv, IInv', [Next]_vars
      PROVE  Lossy(Chan(1), Chan(1)') /\ Lossy(Chan(2), Chan(2)')
  <2>1. CASE Next
    <3>1. 1 \in Netifs /\ 2 \in Netifs
      BY DEF Netifs
    <3> QED BY <1>2, <2>1, <3>1, ChanStep DEF IInv
  <2>2. CASE UNCHANGED vars
    <3>1. Chan(1)' = Chan(1) /\ Chan(2)' = Chan(2)
      BY <2>2 DEF vars, Chan, Rest, Under, Unread, Ahead
    <3> QED BY <3>1 DEF Lossy
  <2> QED BY <1>2, <2>1, <2>2
<1>3. Lossy(Chan(1), Chan(1)') => [Fifo1!Next]_(Under(1) \o Unread)
  BY DEF Lossy, Loses, Chan, Rest, Fifo1!Next, Fifo1!Send, Fifo1!Take, Fifo1!RemoveAt
<1>4. Lossy(Chan(2), Chan(2)') => [Fifo2!Next]_(Under(2) \o enc)
  <2>1. Chan(2) = Under(2) \o enc /\ Chan(2)' = (Under(2) \o enc)'
    BY DEF Chan, Rest
  <2> QED BY <2>1 DEF Lossy, Loses, Fifo2!Next, Fifo2!Send, Fifo2!Take, Fifo2!RemoveAt
<1> QED BY <1>1, <1>2, <1>3, <1>4, Inductive, PTL DEF Spec, InOrder, Fifo1!Spec, Fifo2!Spec

=============================================================================
