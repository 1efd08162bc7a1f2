-------------------------- MODULE NetOutputProofs --------------------------
(***************************************************************************)
(* For every number of Tx descriptors: what the DMA and the ENC28J60 send  *)
(* is what was queued, unless its buffer was written again, and frames are *)
(* lost only for want of room, or after a failed transmission.             *)
(*                                                                         *)
(* The queued frames lie on the ring from the DMA's descriptor on, and     *)
(* DMATxDescToSet is behind the last of them: it meets a queued frame only *)
(* when the ring is full, and then the oldest.                             *)
(***************************************************************************)
EXTENDS NetOutput, SequenceTheorems, TLAPS

\* The descriptor of the j-th queued frame; the first one is the DMA's.
At(j) == IF dma + j - 1 < NT THEN dma + j - 1 ELSE dma + j - 1 - NT

\* The other way round: the place of descriptor i, counted from the DMA's.
Place(i) == IF i >= dma THEN i - dma + 1 ELSE i - dma + 1 + NT

\* The frames lie on the ring in order, the DMA owns exactly their
\* descriptors, and the next one is set behind them.
OnRing ==
    /\ \A j \in DOMAIN due : due[j].at = At(j)
    /\ \A i \in Descs : (own[i] = "dma") <=> Place(i) <= Len(due)
    /\ At(Len(due) + 1) = IF pc = "tbus" THEN Succ(set) ELSE set
    /\ dmast = "send" => due # <<>>

\* Only the oldest frame of a full ring is ever hit, and the others are in
\* their buffers as they were queued.
OnlyOldest ==
    /\ \A j \in DOMAIN due : due[j].hit = "yes" => j = 1 /\ Len(due) = NT
    /\ \A j \in DOMAIN due : due[j].hit = "no" =>
          buf[At(j)] = due[j].f /\ len[At(j)] = due[j].f
    /\ dmast = "send" /\ due[1].hit = "no" => head = due[1].f

\* What low_level_1_output has done so far.
Writing ==
    /\ pc \in {"copy", "own"} =>
          frame \in Frames /\ (Len(due) = NT => due[1].hit = "yes")
    /\ pc = "own" => buf[set] = frame

\* The transmit buffer of the ENC28J60, and what low_level_2_output has done.
EncInv ==
    /\ edue # None <=> rts = "on"
    /\ ehead # None => rts = "on"
    /\ rts = "on" /\ edue.hit = "no" =>
          /\ ebuf = edue.f /\ elen = edue.f
          /\ ehead # None => ehead = edue.f
    /\ pc \in {"ebuf", "erest", "erts"} =>
          /\ frame \in Frames /\ elen = frame
          /\ rts = "on" => edue.hit = "yes"
    /\ pc = "erts" => ebuf = frame

IInv == TypeOK /\ OnRing /\ OnlyOldest /\ Writing /\ EncInv

\* Nothing is queued and nothing is sent.
LEMMA InitIInv == Init => IInv
<1> SUFFICES ASSUME Init PROVE IInv
  OBVIOUS
<1>1. due = <<>> /\ Len(due) = 0 /\ DOMAIN due = {} /\ 0 \in Descs
  BY NetOutputAssumption DEF Init, Descs
<1>2. TypeOK
  BY <1>1, NetOutputAssumption DEF Init, TypeOK, Contents
<1>3. OnRing
  BY <1>1, NetOutputAssumption DEF Init, OnRing, At, Place, Descs
<1>4. OnlyOldest /\ Writing /\ EncInv
  BY <1>1 DEF Init, OnlyOldest, Writing, EncInv
<1> QED BY <1>2, <1>3, <1>4 DEF IInv

\* What the typing of the state and the assumption on the constants give.
LEMMA Facts ==
  ASSUME TypeOK
  PROVE  /\ NT \in Nat /\ NT >= 1 /\ Descs = 0..(NT - 1)
         /\ dma \in 0..(NT - 1) /\ set \in 0..(NT - 1)
         /\ Len(due) \in 0..NT /\ DOMAIN due = 1..Len(due)
         /\ due \in Seq(Queued)
         /\ \A j \in 1..Len(due) : due[j] \in Queued
<1>1. due \in Seq(Queued) /\ Len(due) <= NT
  BY DEF TypeOK
<1>2. Len(due) \in Nat /\ DOMAIN due = 1..Len(due)
      /\ \A j \in 1..Len(due) : due[j] \in Queued
  BY <1>1, LenProperties, ElementOfSeq
<1> QED BY <1>1, <1>2, NetOutputAssumption DEF TypeOK, Descs

\* At and Place are inverse to each other.
LEMMA Places ==
  ASSUME NT \in Nat, NT >= 1, dma \in 0..(NT - 1)
  PROVE  /\ \A j \in 1..NT : At(j) \in 0..(NT - 1) /\ Place(At(j)) = j
         /\ \A i \in 0..(NT - 1) : Place(i) \in 1..NT /\ At(Place(i)) = i
         /\ At(NT + 1) = dma /\ At(1) = dma
BY DEF At, Place

\* The next place of the DMA's next descriptor.
LEMMA Shift ==
  ASSUME NT \in Nat, NT >= 1, dma \in 0..(NT - 1), dma' = Succ(dma)
  PROVE  /\ \A j \in 1..NT : At(j)' = At(j + 1)
         /\ \A i \in 0..(NT - 1) : Place(i)' = IF i = dma THEN NT ELSE Place(i) - 1
BY DEF At, Place, Succ

\* The place behind n queued frames.
LEMMA Behind ==
  ASSUME NT \in Nat, NT >= 1, dma \in 0..(NT - 1), NEW n \in 0..NT
  PROVE  /\ Place(At(n + 1)) = IF n = NT THEN 1 ELSE n + 1
         /\ \A j \in 1..n : At(j) = At(n + 1) <=> j = 1 /\ n = NT
BY DEF At, Place

\* The driver hits the oldest frame of a full ring, or none.
LEMMA AtSet ==
  ASSUME TypeOK, OnRing, pc # "tbus"
  PROVE  /\ set = At(Len(due) + 1)
         /\ \A j \in DOMAIN due : due[j].at = set <=> j = 1 /\ Len(due) = NT
         /\ \A j \in DOMAIN due : At(j) = set <=> j = 1 /\ Len(due) = NT
         /\ (own[set] = "dma") <=> Len(due) = NT
<1>f. /\ NT \in Nat /\ NT >= 1 /\ Descs = 0..(NT - 1)
      /\ dma \in 0..(NT - 1) /\ set \in 0..(NT - 1)
      /\ DOMAIN due = 1..Len(due)
  BY Facts
<1>n. PICK n \in 0..NT : n = Len(due)
  BY Facts
<1>1. set = At(n + 1)
  BY <1>n DEF OnRing
<1>2. \A j \in 1..n : At(j) = set <=> j = 1 /\ n = NT
  BY <1>f, <1>1, Behind
<1>3. Place(set) = IF n = NT THEN 1 ELSE n + 1
  BY <1>f, <1>1, Behind
<1>4. Place(set) <= n <=> n = NT
  BY <1>3, <1>f
<1>5. (own[set] = "dma") <=> n = NT
  BY <1>f, <1>n, <1>4 DEF OnRing
<1> QED BY <1>f, <1>n, <1>1, <1>2, <1>5 DEF OnRing

-----------------------------------------------------------------------------
(* The queue of the DMA: what a step makes of it.                          *)

\* A frame is sent: the second one becomes the first.
LEMMA Sent ==
  ASSUME TypeOK, OnRing, DmaSent
  PROVE  /\ Len(due) \in 1..NT /\ Len(due') = Len(due) - 1
         /\ due' \in Seq(Queued) /\ DOMAIN due' = 1..(Len(due) - 1)
         /\ \A j \in 1..(Len(due) - 1) : due'[j] = due[j + 1]
<1>f. Len(due) \in 0..NT /\ due \in Seq(Queued)
  BY Facts
<1>1. due # <<>> /\ due' = Tail(due)
  BY DEF DmaSent, OnRing
<1>2. Len(due) # 0
  BY <1>f, <1>1, EmptySeq
<1>3. /\ due' \in Seq(Queued) /\ Len(due') = Len(due) - 1
      /\ \A j \in 1..(Len(due) - 1) : due'[j] = due[j + 1]
  BY <1>f, <1>1, HeadTailProperties
<1>4. DOMAIN due' = 1..Len(due')
  BY <1>3, LenProperties
<1> QED BY <1>f, <1>2, <1>3, <1>4

\* The first bytes of a frame are copied: a queued frame that lies there is
\* marked.
LEMMA Marked ==
  ASSUME TypeOK, NEW f \in Frames, Output1(f)
  PROVE  /\ due' \in Seq(Queued) /\ Len(due') = Len(due)
         /\ DOMAIN due' = DOMAIN due
         /\ \A j \in DOMAIN due : /\ due'[j].f = due[j].f /\ due'[j].at = due[j].at
                                  /\ due'[j].hit = IF due[j].at = set THEN "yes"
                                                   ELSE due[j].hit
<1>f. /\ Len(due) \in Nat /\ DOMAIN due = 1..Len(due)
      /\ \A j \in 1..Len(due) : due[j] \in Queued
  BY Facts
<1>1. due' = [j \in 1..Len(due) |->
                 IF due[j].at = set THEN [due[j] EXCEPT !.hit = "yes"] ELSE due[j]]
  BY <1>f DEF Output1
<1>2. due' \in [1..Len(due) -> Queued]
  BY <1>f, <1>1 DEF Queued, Hits
<1>3. due' \in Seq(Queued) /\ Len(due') = Len(due)
  BY <1>f, <1>2, SeqDef, LenProperties
<1> QED BY <1>f, <1>1, <1>3 DEF Queued

\* A frame is queued behind the others.
LEMMA Queues ==
  ASSUME TypeOK, OnRing, Writing, TxPkt, own[set] = "cpu"
  PROVE  /\ Len(due) \in 0..(NT - 1) /\ Len(due') = Len(due) + 1
         /\ due' \in Seq(Queued) /\ DOMAIN due' = 1..(Len(due) + 1)
         /\ \A j \in 1..Len(due) : due'[j] = due[j]
         /\ due'[Len(due) + 1] = [f |-> frame, at |-> set, hit |-> "no"]
<1>f. /\ Len(due) \in 0..NT /\ due \in Seq(Queued) /\ set \in Descs
  BY Facts
<1>1. /\ due' = Append(due, [f |-> frame, at |-> set, hit |-> "no"])
      /\ [f |-> frame, at |-> set, hit |-> "no"] \in Queued
  BY <1>f DEF TxPkt, Writing, Queued, Hits
<1>2. Len(due) # NT
  BY AtSet DEF TxPkt
<1>3. /\ due' \in Seq(Queued) /\ Len(due') = Len(due) + 1
      /\ \A j \in 1..Len(due) : due'[j] = due[j]
      /\ due'[Len(due) + 1] = [f |-> frame, at |-> set, hit |-> "no"]
  BY <1>f, <1>1, AppendProperties
<1>4. DOMAIN due' = 1..Len(due')
  BY <1>3, LenProperties
<1>5. Len(due) \in 0..(NT - 1)
  BY <1>2, Facts
<1> QED BY <1>3, <1>4, <1>5

-----------------------------------------------------------------------------
(* One lemma per part of the invariant, one step per action.               *)

\* What does not concern the ring: neither its variables nor its driver.
EncStep ==
    \/ EncStart \/ EncSent \/ EncError \/ EncCopyFirst \/ EncCopyRest
    \/ EncRequest \/ EncCheck \/ \E f \in Frames : Output2(f)

\* Every action keeps the types.
LEMMA TypeStep ==
  ASSUME IInv, Next
  PROVE  TypeOK'
<1>t. TypeOK /\ OnRing /\ Writing /\ EncInv
  BY DEF IInv
<1>f. /\ NT \in Nat /\ NT >= 1 /\ Descs = 0..(NT - 1)
      /\ dma \in 0..(NT - 1) /\ set \in 0..(NT - 1) /\ Len(due) \in 0..NT
  BY <1>t, Facts
<1>s. Succ(dma) \in Descs /\ Succ(set) \in Descs
  BY <1>f DEF Succ
<1>1. CASE DmaFetch
  BY <1>1, <1>t DEF DmaFetch, TypeOK, ringVars, encVars
<1>2. CASE DmaSent
  <2>1. due' \in Seq(Queued) /\ Len(due') <= NT
    BY <1>2, <1>t, <1>f, Sent
  <2> QED BY <1>2, <1>t, <1>s, <2>1 DEF DmaSent, TypeOK, encVars, Contents
<1>3. ASSUME NEW f \in Frames, Output1(f) PROVE TypeOK'
  <2>1. due' \in Seq(Queued) /\ Len(due') <= NT
    BY <1>3, <1>t, <1>f, Marked
  <2> QED BY <1>3, <1>t, <2>1 DEF Output1, TypeOK, dmaVars, encVars, Contents
<1>4. CASE Copy
  BY <1>4, <1>t DEF Copy, Writing, TypeOK, dmaVars, encVars, Contents
<1>5. CASE TxPkt
  <2>1. CASE own[set] = "dma"
    BY <1>5, <1>t, <2>1 DEF TxPkt, TypeOK, dmaVars, encVars
  <2>2. CASE own[set] = "cpu"
    <3>1. due' \in Seq(Queued) /\ Len(due') <= NT
      BY <1>5, <1>t, <1>f, <2>2, Queues
    <3>2. frame \in Frames
      BY <1>5, <1>t DEF TxPkt, Writing
    <3> QED BY <1>5, <1>t, <2>2, <3>1, <3>2 DEF TxPkt, TypeOK, dmaVars, encVars
  <2> QED BY <1>5, <2>1, <2>2 DEF TxPkt
<1>6. CASE Resume
  BY <1>6, <1>t, <1>s DEF Resume, TypeOK, encVars
<1>7. CASE EncStep
  <2> SUFFICES ASSUME EncStep
               PROVE  /\ {ebuf', ehead'} \subseteq Contents
                      /\ elen' \in Frames \cup {None}
                      /\ {rts', erif'} \subseteq {"on", "off"}
                      /\ edue' \in Queued \cup {None}
                      /\ pc' \in {"ebuf", "erest", "erts", "err", "idle", pc}
                      /\ frame' \in Frames \cup {None}
                      /\ UNCHANGED <<ringVars, dmaVars>>
    BY <1>7, <1>t DEF TypeOK, ringVars, dmaVars
  <2>1. 0 \in Descs
    BY <1>f
  <2> QED BY <1>t, <2>1
    DEF EncStep, EncStart, EncSent, EncError, EncCopyFirst, EncCopyRest, EncRequest,
        EncCheck, Offered, Output2, EncInv, TypeOK, Contents, Queued, Hits
<1> QED BY <1>1, <1>2, <1>3, <1>4, <1>5, <1>6, <1>7
  DEF Next, Driver, Hardware, EncStep

\* Sending takes the oldest off the ring, queueing adds one behind the last.
LEMMA RingStep ==
  ASSUME IInv, Next
  PROVE  OnRing'
<1>t. TypeOK /\ OnRing /\ Writing
  BY DEF IInv
<1>f. /\ NT \in Nat /\ NT >= 1 /\ Descs = 0..(NT - 1)
      /\ dma \in 0..(NT - 1) /\ set \in 0..(NT - 1)
      /\ Len(due) \in 0..NT /\ DOMAIN due = 1..Len(due)
  BY <1>t, Facts
<1>1. CASE DmaFetch
  <2>1. UNCHANGED <<own, due, set, dma, pc>>
    BY <1>1 DEF DmaFetch, ringVars
  <2>2. dmast' = "send" => due # <<>>
    <3> SUFFICES ASSUME own[dma] = "dma" PROVE due # <<>>
      BY <1>1 DEF DmaFetch
    <3>1. Place(dma) = 1
      BY <1>f DEF Place
    <3>2. 1 <= Len(due)
      BY <1>t, <1>f, <3>1 DEF OnRing
    <3> QED BY <1>f, <3>2, EmptySeq
  <2> QED BY <1>t, <2>1, <2>2 DEF OnRing, At, Place
<1>2. CASE DmaSent
  <2>n. PICK n \in 1..NT : n = Len(due)
    BY <1>2, <1>t, <1>f, Sent
  <2>d. /\ DOMAIN due' = 1..(n - 1) /\ Len(due') = n - 1
        /\ \A j \in 1..(n - 1) : due'[j] = due[j + 1]
    BY <1>2, <1>t, <2>n, Sent
  <2>v. /\ dma' = Succ(dma) /\ own' = [own EXCEPT ![dma] = "cpu"]
        /\ set' = set /\ pc' = pc /\ dmast' = "fetch"
    BY <1>2 DEF DmaSent
  <2>s. /\ \A j \in 1..NT : At(j)' = At(j + 1)
        /\ \A i \in 0..(NT - 1) : Place(i)' = IF i = dma THEN NT ELSE Place(i) - 1
    BY <1>f, <2>v, Shift
  <2>1. \A j \in DOMAIN due' : due'[j].at = At(j)'
    <3> SUFFICES ASSUME NEW j \in 1..(n - 1) PROVE due'[j].at = At(j)'
      BY <2>d
    <3>1. j \in 1..NT /\ j + 1 \in 1..n
      BY <1>f
    <3>2. due[j + 1].at = At(j + 1)
      BY <1>t, <1>f, <2>n, <3>1 DEF OnRing
    <3> QED BY <2>d, <2>s, <3>1, <3>2
  <2>2. \A i \in Descs : (own'[i] = "dma") <=> Place(i)' <= n - 1
    <3> SUFFICES ASSUME NEW i \in 0..(NT - 1)
                 PROVE (own'[i] = "dma") <=> Place(i)' <= n - 1
      BY <1>f
    <3>1. CASE i = dma
      <4>1. own'[i] = "cpu"
        BY <1>t, <1>f, <2>v, <3>1 DEF TypeOK
      <4>2. Place(i)' = NT
        BY <2>s, <3>1
      <4> QED BY <1>f, <2>n, <4>1, <4>2
    <3>2. CASE i # dma
      <4>1. own'[i] = own[i]
        BY <1>t, <1>f, <2>v, <3>2 DEF TypeOK
      <4>2. Place(i)' = Place(i) - 1 /\ Place(i) \in 1..NT
        BY <1>f, <2>s, <3>2, Places
      <4>3. (own[i] = "dma") <=> Place(i) <= n
        BY <1>t, <1>f, <2>n DEF OnRing
      <4>4. Place(i) - 1 <= n - 1 <=> Place(i) <= n
        BY <1>f, <4>2
      <4> QED BY <4>1, <4>2, <4>3, <4>4
    <3> QED BY <3>1, <3>2
  <2>3. At(n)' = IF pc = "tbus" THEN Succ(set) ELSE set
    <3>1. At(n)' = At(n + 1)
      BY <2>s
    <3> QED BY <1>t, <2>n, <3>1 DEF OnRing
  <2>4. At(Len(due) + 1)' = At(n)'
    <3>1. Len(due') + 1 = n
      BY <2>d, <2>n, <1>f
    <3> QED BY <3>1 DEF At
  <2> QED BY <2>d, <2>v, <2>1, <2>2, <2>3, <2>4 DEF OnRing, Succ
<1>3. ASSUME NEW f \in Frames, Output1(f) PROVE OnRing'
  <2>1. /\ DOMAIN due' = DOMAIN due /\ Len(due') = Len(due)
        /\ \A j \in DOMAIN due : due'[j].at = due[j].at
        /\ due' \in Seq(Queued)
    BY <1>3, <1>t, Marked
  <2>2. UNCHANGED <<own, set, dma, dmast>> /\ pc = "idle" /\ pc' = "copy"
    BY <1>3 DEF Output1, dmaVars
  <2>3. due # <<>> => due' # <<>>
    BY <1>f, <2>1, EmptySeq, <1>t DEF TypeOK
  <2> QED BY <1>t, <2>1, <2>2, <2>3 DEF OnRing, At, Place
<1>4. CASE Copy
  BY <1>4, <1>t DEF Copy, OnRing, At, Place, dmaVars
<1>5. CASE TxPkt
  <2>1. CASE own[set] = "dma"
    BY <1>5, <1>t, <2>1 DEF TxPkt, OnRing, At, Place, dmaVars
  <2>2. CASE own[set] = "cpu"
    <3>n. PICK n \in 0..(NT - 1) : n = Len(due)
      BY <1>5, <1>t, <2>2, Queues
    <3>d. /\ DOMAIN due' = 1..(n + 1) /\ Len(due') = n + 1
          /\ \A j \in 1..n : due'[j] = due[j]
          /\ due'[n + 1].at = set
          /\ due' \in Seq(Queued)
      BY <1>5, <1>t, <2>2, <3>n, Queues
    <3>v. /\ own' = [own EXCEPT ![set] = "dma"] /\ pc = "own" /\ pc' = "tbus"
          /\ UNCHANGED <<set, dma, dmast>>
      BY <1>5, <2>2 DEF TxPkt, dmaVars
    <3>s. set = At(n + 1)
      BY <1>t, <3>n, <3>v DEF OnRing
    <3>a. (\A j \in 1..(n + 1) : At(j)' = At(j)) /\ (\A i \in Descs : Place(i)' = Place(i))
      BY <3>v DEF At, Place
    <3>1. \A j \in DOMAIN due' : due'[j].at = At(j)'
      <4> SUFFICES ASSUME NEW j \in 1..(n + 1) PROVE due'[j].at = At(j)
        BY <3>d, <3>a
      <4>1. CASE j = n + 1
        BY <4>1, <3>d, <3>s
      <4>2. CASE j # n + 1
        <5>1. j \in 1..n
          BY <4>2
        <5> QED BY <5>1, <1>t, <1>f, <3>n, <3>d DEF OnRing
      <4> QED BY <4>1, <4>2
    <3>2. \A i \in Descs : (own'[i] = "dma") <=> Place(i)' <= n + 1
      <4> SUFFICES ASSUME NEW i \in 0..(NT - 1)
                   PROVE (own'[i] = "dma") <=> Place(i) <= n + 1
        BY <1>f, <3>a
      <4>1. Place(i) \in 1..NT /\ At(Place(i)) = i
        BY <1>f, Places
      <4>2. Place(set) = n + 1
        BY <1>f, <3>s, Behind
      <4>3. CASE i = set
        <5>1. own'[i] = "dma"
          BY <1>t, <1>f, <3>v, <4>3 DEF TypeOK
        <5> QED BY <5>1, <4>2, <4>3
      <4>4. CASE i # set
        <5>1. own'[i] = own[i]
          BY <1>t, <1>f, <3>v, <4>4 DEF TypeOK
        <5>2. Place(i) # n + 1
          BY <4>1, <3>s, <4>4
        <5>3. (own[i] = "dma") <=> Place(i) <= n
          BY <1>t, <1>f, <3>n DEF OnRing
        <5>4. Place(i) <= n <=> Place(i) <= n + 1
          BY <4>1, <5>2, <1>f
        <5> QED BY <5>1, <5>3, <5>4
      <4> QED BY <4>3, <4>4
    <3>3. At(n + 2)' = Succ(set)
      <4>1. At(n + 2) = Succ(At(n + 1))
        BY <1>f DEF At, Succ
      <4> QED BY <4>1, <3>s, <3>v DEF At
    <3>4. Len(due') + 1 = n + 2
      BY <3>d, <3>n
    <3>5. due' # <<>>
      BY <3>d, EmptySeq
    <3> QED BY <3>d, <3>v, <3>1, <3>2, <3>3, <3>4, <3>5 DEF OnRing, Succ
  <2> QED BY <1>5, <2>1, <2>2 DEF TxPkt
<1>6. CASE Resume
  <2>1. UNCHANGED <<own, due, dma>> /\ set' = Succ(set) /\ pc = "tbus" /\ pc' = "idle"
    BY <1>6 DEF Resume
  <2>2. dmast' = "send" => dmast = "send"
    BY <1>6 DEF Resume
  <2> QED BY <1>t, <2>1, <2>2 DEF OnRing, At, Place
<1>7. CASE EncStep
  <2>1. /\ UNCHANGED <<own, due, set, dma, dmast>>
        /\ (pc # "tbus" /\ pc' # "tbus") \/ pc' = pc
    BY <1>7 DEF EncStep, EncStart, EncSent, EncError, EncCopyFirst, EncCopyRest,
                EncRequest, EncCheck, Output2, ringVars, dmaVars
  <2> QED BY <1>t, <2>1 DEF OnRing, At, Place, Succ
<1> QED BY <1>1, <1>2, <1>3, <1>4, <1>5, <1>6, <1>7
  DEF Next, Driver, Hardware, EncStep

\* The frames of a ring with room keep their buffers.
LEMMA OldestStep ==
  ASSUME IInv, Next
  PROVE  OnlyOldest'
<1>t. TypeOK /\ OnRing /\ OnlyOldest /\ Writing
  BY DEF IInv
<1>f. /\ NT \in Nat /\ NT >= 1 /\ Descs = 0..(NT - 1)
      /\ dma \in 0..(NT - 1) /\ set \in 0..(NT - 1)
      /\ DOMAIN due = 1..Len(due) /\ \A j \in 1..Len(due) : due[j] \in Queued
  BY <1>t, Facts
<1>n. PICK n \in 0..NT : n = Len(due)
  BY <1>t, Facts
<1>h. \A j \in 1..n : due[j].hit \in {"yes", "no"}
  BY <1>f, <1>n DEF Queued, Hits
<1>o. /\ \A j \in 1..n : due[j].hit = "yes" => j = 1 /\ n = NT
      /\ \A j \in 1..n : due[j].hit = "no" =>
            buf[At(j)] = due[j].f /\ len[At(j)] = due[j].f
      /\ dmast = "send" => 1 \in 1..n
      /\ dmast = "send" /\ due[1].hit = "no" => head = due[1].f
  <2>1. dmast = "send" => n # 0
    BY <1>t, <1>n, EmptySeq DEF TypeOK, OnRing
  <2>2. dmast = "send" => 1 \in 1..n
    BY <2>1
  <2>3. DOMAIN due = 1..n
    BY <1>f, <1>n
  <2> QED BY <1>t, <1>n, <2>2, <2>3 DEF OnlyOldest
<1>p. \A j \in 1..n : At(j) \in 0..(NT - 1)
  BY <1>f, Places
<1>1. CASE DmaFetch
  <2>1. UNCHANGED <<due, buf, len, dma>>
    BY <1>1 DEF DmaFetch, ringVars
  <2>2. dmast' = "send" /\ due[1].hit = "no" => head' = due[1].f
    <3> SUFFICES ASSUME dmast' = "send", due[1].hit = "no" PROVE head' = due[1].f
      OBVIOUS
    <3>1. own[dma] = "dma" /\ head' = buf[dma]
      BY <1>1, <1>f DEF DmaFetch
    <3>2. Place(dma) = 1 /\ At(1) = dma
      BY <1>f DEF Place, At
    <3>3. 1 <= n
      BY <1>t, <1>f, <1>n, <3>1, <3>2 DEF OnRing
    <3>4. 1 \in 1..n
      BY <3>3
    <3> QED BY <1>o, <3>1, <3>2, <3>4
  <2> QED BY <1>t, <2>1, <2>2 DEF OnlyOldest, At
<1>2. CASE DmaSent
  <2>d. /\ n >= 1 /\ DOMAIN due' = 1..(n - 1)
        /\ \A j \in 1..(n - 1) : due'[j] = due[j + 1]
    BY <1>2, <1>t, <1>n, Sent
  <2>v. dma' = Succ(dma) /\ dmast' = "fetch" /\ UNCHANGED <<buf, len>>
    BY <1>2 DEF DmaSent
  <2>s. \A j \in 1..NT : At(j)' = At(j + 1)
    BY <1>f, <2>v, Shift
  <2>1. ASSUME NEW j \in 1..(n - 1)
        PROVE /\ due'[j].hit = "no"
              /\ buf'[At(j)'] = due'[j].f /\ len'[At(j)'] = due'[j].f
    <3>1. j \in 1..NT /\ j + 1 \in 1..n /\ j + 1 # 1
      BY <1>f
    <3>2. due[j + 1].hit = "no"
      BY <1>o, <1>h, <3>1
    <3>3. At(j)' = At(j + 1) /\ due'[j] = due[j + 1]
      BY <2>d, <2>s, <3>1
    <3> QED BY <1>o, <2>v, <3>1, <3>2, <3>3
  <2> QED BY <2>d, <2>v, <2>1 DEF OnlyOldest
<1>3. ASSUME NEW f \in Frames, Output1(f) PROVE OnlyOldest'
  <2>d. /\ DOMAIN due' = 1..n /\ Len(due') = n
        /\ \A j \in 1..n : /\ due'[j].f = due[j].f
                           /\ due'[j].hit = IF due[j].at = set THEN "yes"
                                            ELSE due[j].hit
    BY <1>3, <1>t, <1>f, <1>n, Marked
  <2>v. pc # "tbus" /\ buf' = [buf EXCEPT ![set] = Mix]
        /\ UNCHANGED <<len, dma, dmast, head>>
    BY <1>3 DEF Output1, dmaVars
  <2>s. \A j \in 1..n : /\ due[j].at = set <=> j = 1 /\ n = NT
                        /\ At(j) = set <=> j = 1 /\ n = NT
    BY <1>t, <1>f, <1>n, <2>v, AtSet
  <2>1. \A j \in 1..n : due'[j].hit = "yes" => j = 1 /\ n = NT
    BY <1>o, <2>d, <2>s
  <2>2. ASSUME NEW j \in 1..n, due'[j].hit = "no"
        PROVE  buf'[At(j)] = due'[j].f /\ len'[At(j)] = due'[j].f
    <3>1. due[j].at # set /\ due[j].hit = "no" /\ At(j) # set
      BY <2>d, <2>s, <2>2
    <3>2. buf'[At(j)] = buf[At(j)]
      BY <1>t, <1>f, <1>p, <2>v, <3>1 DEF TypeOK
    <3> QED BY <1>o, <2>d, <2>v, <3>1, <3>2
  <2>3. dmast = "send" /\ due'[1].hit = "no" => head = due'[1].f
    BY <1>o, <2>d
  <2> QED BY <2>d, <2>v, <2>1, <2>2, <2>3 DEF OnlyOldest, At
<1>4. CASE Copy
  <2>v. pc = "copy" /\ buf' = [buf EXCEPT ![set] = frame]
        /\ UNCHANGED <<due, len, dma, dmast, head>>
    BY <1>4 DEF Copy, dmaVars
  <2>s. \A j \in 1..n : At(j) = set <=> j = 1 /\ n = NT
    BY <1>t, <1>f, <1>n, <2>v, AtSet
  <2>1. ASSUME NEW j \in 1..n, due[j].hit = "no" PROVE buf'[At(j)] = due[j].f
    <3>1. At(j) # set
      BY <1>t, <1>n, <2>v, <2>s, <2>1 DEF Writing
    <3>2. buf'[At(j)] = buf[At(j)]
      BY <1>t, <1>f, <1>p, <2>v, <3>1 DEF TypeOK
    <3> QED BY <1>o, <2>1, <3>2
  <2> QED BY <1>t, <1>f, <1>n, <2>v, <2>1 DEF OnlyOldest, At
<1>5. CASE TxPkt
  <2>1. CASE own[set] = "dma"
    BY <1>5, <1>t, <2>1 DEF TxPkt, OnlyOldest, At, dmaVars
  <2>2. CASE own[set] = "cpu"
    <3>r. n \in 0..(NT - 1)
      BY <1>5, <1>t, <1>n, <2>2, Queues
    <3>m. n # NT
      BY <3>r
    <3>d. /\ DOMAIN due' = 1..(n + 1)
          /\ \A j \in 1..n : due'[j] = due[j]
          /\ due'[n + 1] = [f |-> frame, at |-> set, hit |-> "no"]
      BY <1>5, <1>t, <1>f, <1>n, <2>2, Queues
    <3>v. /\ pc = "own" /\ len' = [len EXCEPT ![set] = frame]
          /\ UNCHANGED <<buf, dma, dmast, head>>
      BY <1>5, <2>2 DEF TxPkt, dmaVars
    <3>s. /\ set = At(n + 1) /\ \A j \in 1..n : At(j) # set
          /\ buf[set] = frame /\ len'[set] = frame
      <4>a. /\ set = At(Len(due) + 1)
            /\ \A j \in DOMAIN due : At(j) = set <=> j = 1 /\ Len(due) = NT
        BY <1>t, <3>v, AtSet
      <4>b. DOMAIN due = 1..n
        BY <1>f, <1>n
      <4>0. /\ set = At(n + 1) /\ n # NT
            /\ \A j \in 1..n : At(j) = set <=> j = 1 /\ n = NT
        BY <1>n, <3>m, <4>a, <4>b
      <4>1. set = At(n + 1) /\ \A j \in 1..n : At(j) # set
        BY <4>0
      <4>2. len'[set] = frame
        BY <1>t, <1>f, <3>v DEF TypeOK
      <4> QED BY <1>t, <3>v, <4>1, <4>2 DEF Writing
    <3>1. ASSUME NEW j \in 1..(n + 1)
          PROVE  due'[j].hit = "no" /\ buf[At(j)] = due'[j].f /\ len'[At(j)] = due'[j].f
      <4>1. CASE j = n + 1
        BY <4>1, <3>d, <3>s
      <4>2. CASE j # n + 1
        <5>1. j \in 1..n
          BY <4>2
        <5>2. due[j].hit = "no"
          BY <5>1, <1>o, <1>h, <3>m
        <5>3. len'[At(j)] = len[At(j)]
          BY <5>1, <1>t, <1>f, <1>p, <3>v, <3>s DEF TypeOK
        <5> QED BY <5>1, <5>2, <5>3, <1>o, <3>d
      <4> QED BY <4>1, <4>2
    <3>2. dmast = "send" /\ due'[1].hit = "no" => head = due'[1].f
      BY <1>o, <3>d
    <3> QED BY <3>d, <3>v, <3>1, <3>2 DEF OnlyOldest, At
  <2> QED BY <1>5, <2>1, <2>2 DEF TxPkt
<1>6. CASE Resume
  <2>1. UNCHANGED <<due, buf, len, dma, head>> /\ (dmast' = "send" => dmast = "send")
    BY <1>6 DEF Resume
  <2> QED BY <1>t, <2>1 DEF OnlyOldest, At
<1>7. CASE EncStep
  <2>1. UNCHANGED <<due, buf, len, dma, dmast, head>>
    BY <1>7 DEF EncStep, EncStart, EncSent, EncError, EncCopyFirst, EncCopyRest,
                EncRequest, EncCheck, Output2, ringVars, dmaVars
  <2> QED BY <1>t, <2>1 DEF OnlyOldest, At
<1> QED BY <1>1, <1>2, <1>3, <1>4, <1>5, <1>6, <1>7
  DEF Next, Driver, Hardware, EncStep

\* What the driver has begun stays true beside the DMA.
LEMMA WritingStep ==
  ASSUME IInv, Next
  PROVE  Writing'
<1>t. TypeOK /\ OnRing /\ OnlyOldest /\ Writing
  BY DEF IInv
<1>f. /\ NT \in Nat /\ NT >= 1 /\ Descs = 0..(NT - 1) /\ set \in 0..(NT - 1)
      /\ DOMAIN due = 1..Len(due) /\ Len(due) \in 0..NT
  BY <1>t, Facts
<1>1. CASE DmaFetch
  BY <1>1, <1>t DEF DmaFetch, Writing, ringVars
<1>2. CASE DmaSent
  <2>n. PICK n \in 1..NT : n = Len(due)
    BY <1>2, <1>t, Sent
  <2>d. Len(due') = n - 1
    BY <1>2, <1>t, <2>n, Sent
  <2>1. Len(due') # NT
    <3>1. n - 1 # NT
      BY <1>f
    <3> QED BY <2>d, <3>1
  <2>2. UNCHANGED <<pc, frame, buf, set>>
    BY <1>2 DEF DmaSent, encVars
  <2> QED BY <1>t, <2>1, <2>2 DEF Writing
<1>3. ASSUME NEW f \in Frames, Output1(f) PROVE Writing'
  <2>1. pc' = "copy" /\ frame' = f /\ Len(due') = Len(due)
    BY <1>3, <1>t, Marked DEF Output1
  <2>2. Len(due) = NT => due'[1].hit = "yes"
    <3> SUFFICES ASSUME Len(due) = NT PROVE due'[1].hit = "yes"
      OBVIOUS
    <3>1. 1 \in DOMAIN due
      BY <1>f
    <3>2. due[1].at = set
      BY <1>3, <1>t, <3>1, AtSet DEF Output1
    <3> QED BY <1>3, <1>t, <3>1, <3>2, Marked
  <2> QED BY <1>3, <2>1, <2>2 DEF Writing
<1>4. CASE Copy
  <2>1. buf'[set] = frame
    BY <1>4, <1>t, <1>f DEF Copy, TypeOK
  <2> QED BY <1>4, <1>t, <2>1 DEF Copy, Writing
<1>5. CASE TxPkt
  BY <1>5 DEF TxPkt, Writing
<1>6. CASE Resume
  BY <1>6 DEF Resume, Writing
<1>7. CASE EncStep
  <2>1. UNCHANGED <<due, buf, set>> /\ (pc' \notin {"copy", "own"} \/ UNCHANGED <<pc, frame>>)
    BY <1>7 DEF EncStep, EncStart, EncSent, EncError, EncCopyFirst, EncCopyRest,
                EncRequest, EncCheck, Output2, ringVars
  <2> QED BY <1>t, <2>1 DEF Writing
<1> QED BY <1>1, <1>2, <1>3, <1>4, <1>5, <1>6, <1>7
  DEF Next, Driver, Hardware, EncStep

\* The same for the one buffer of the ENC28J60.
LEMMA EncInvStep ==
  ASSUME IInv, Next
  PROVE  EncInv'
<1>t. TypeOK /\ EncInv
  BY DEF IInv
<1>q. None \notin Queued
  BY NetOutputAssumption
<1>f. 0 \in Descs
  BY <1>t, Facts
<1>1. CASE EncStart
  BY <1>1, <1>t DEF EncStart, EncInv
<1>2. CASE EncSent \/ EncError
  BY <1>2, <1>t DEF EncSent, EncError, EncInv
<1>3. ASSUME NEW f \in Frames, Output2(f) PROVE EncInv'
  <2>1. edue # None => edue \in Queued
    BY <1>t DEF TypeOK
  <2>2. /\ edue' # None <=> rts = "on"
        /\ rts = "on" => edue'.hit = "yes"
    BY <1>3, <1>t, <1>q, <2>1 DEF Output2, EncInv, Queued, Hits
  <2> QED BY <1>3, <1>t, <2>2 DEF Output2, EncInv
<1>4. CASE EncCopyFirst
  BY <1>4, <1>t DEF EncCopyFirst, EncInv
<1>5. CASE EncCopyRest
  BY <1>5, <1>t DEF EncCopyRest, EncInv
<1>6. CASE EncRequest
  <2>1. frame \in Frames /\ elen = frame /\ ebuf = frame
    BY <1>6, <1>t DEF EncRequest, EncInv
  <2>2. CASE rts = "on"
    BY <1>6, <1>t, <2>2 DEF EncRequest, EncInv
  <2>3. CASE rts = "off"
    <3>1. /\ edue' = [f |-> frame, at |-> 0, hit |-> "no"]
          /\ edue' \in Queued
      BY <1>6, <1>f, <2>1, <2>3 DEF EncRequest, Offered, Queued, Hits
    <3> QED BY <1>6, <1>t, <1>q, <2>1, <2>3, <3>1 DEF EncRequest, EncInv
  <2> QED BY <1>t, <2>2, <2>3 DEF TypeOK
<1>7. CASE EncCheck
  BY <1>7, <1>t DEF EncCheck, EncInv
<1>8. CASE DmaFetch \/ DmaSent \/ Copy \/ TxPkt \/ Resume \/ \E f \in Frames : Output1(f)
  <2>1. /\ UNCHANGED <<ebuf, elen, rts, ehead, edue>>
        /\ pc' \notin {"ebuf", "erest", "erts"} \/ UNCHANGED <<pc, frame>>
    BY <1>8 DEF DmaFetch, DmaSent, Copy, TxPkt, Resume, Output1, encVars
  <2> QED BY <1>t, <2>1 DEF EncInv
<1> QED BY <1>1, <1>2, <1>3, <1>4, <1>5, <1>6, <1>7, <1>8 DEF Next, Driver, Hardware

-----------------------------------------------------------------------------

\* The invariant holds in every reachable state.
THEOREM Inductive == Spec => []IInv
<1>1. ASSUME IInv, UNCHANGED vars PROVE IInv'
  BY <1>1 DEF IInv, TypeOK, OnRing, OnlyOldest, Writing, EncInv, At, Place, vars,
              ringVars, dmaVars, encVars
<1>2. IInv /\ [Next]_vars => IInv'
  BY <1>1, TypeStep, RingStep, OldestStep, WritingStep, EncInvStep DEF IInv
<1> QED BY InitIInv, <1>2, PTL DEF Spec

\* What goes out is a frame that was queued, whole and in order, unless its
\* buffer was written again: low_level_1_output with the Tx descriptors
\* (ethernetif.c:264-284, 624-658) and enc28j60PacketSend (ENC28J60.C:337-372),
\* for any number of descriptors and any frames.
THEOREM SentProved == Spec => []SentSound
<1>1. ASSUME IInv PROVE SentSound
  <2>t. TypeOK /\ OnRing /\ OnlyOldest /\ EncInv
    BY <1>1 DEF IInv
  <2>1. ASSUME dmast = "send", due[1].hit # "yes"
        PROVE  {head, buf[dma], len[dma]} = {due[1].f}
    <3>1. 1 \in DOMAIN due /\ due[1].hit \in Hits /\ At(1) = dma
      <4>1. due # <<>> /\ due \in Seq(Queued)
        BY <2>t, <2>1 DEF OnRing, TypeOK
      <4>2. Len(due) # 0
        BY <4>1, EmptySeq
      <4>3. 1 \in DOMAIN due /\ due[1] \in Queued
        BY <2>t, <4>2, Facts
      <4>4. At(1) = dma
        BY <2>t, Facts DEF At
      <4> QED BY <4>3, <4>4 DEF Queued
    <3>2. due[1].hit = "no"
      BY <2>1, <3>1 DEF Hits
    <3> QED BY <2>t, <2>1, <3>1, <3>2 DEF OnlyOldest
  <2>2. ASSUME ehead # None, edue.hit # "yes" PROVE {ehead, ebuf, elen} = {edue.f}
    <3>1. rts = "on" /\ edue # None
      BY <2>t, <2>2 DEF EncInv
    <3>2. edue.hit = "no"
      BY <2>t, <2>2, <3>1 DEF TypeOK, Queued, Hits
    <3> QED BY <2>t, <2>2, <3>1, <3>2 DEF EncInv
  <2> QED BY <2>t, <2>1, <2>2 DEF SentSound, SentWhole
<1> QED BY Inductive, <1>1, PTL

\* Frames are lost only for the causes that LossHasCause names: on interface 1 for
\* want of room (ethernetif.c:276, 632), on interface 2 because an earlier frame is
\* still there, and has been written over (ENC28J60.C:338-372), or because some
\* transmission has failed before, TXERIF being never cleared (ENC28J60.C:375-378).
THEOREM LossProved == Spec => LossHasCause
<1> DEFINE Hit == \E i \in DOMAIN due : i \in DOMAIN due' /\ due'[i].hit # due[i].hit
<1> DEFINE Step ==
      /\ Hit => Len(due) = NT
      /\ pc = "own" /\ pc' = "idle" => Len(due) = NT
      /\ pc = "erts" /\ pc' = "err" /\ edue' # Offered =>
           rts = "on" /\ edue # None /\ edue.hit = "yes"
      /\ pc = "err" /\ pc' = "idle" /\ edue # None /\ edue' = None => erif = "on"
<1>1. ASSUME IInv, Next PROVE Step
  <2>t. TypeOK /\ OnRing /\ OnlyOldest /\ Writing /\ EncInv
    BY <1>1 DEF IInv
  <2>f. Len(due) \in 0..NT /\ NT \in Nat /\ DOMAIN due = 1..Len(due)
        /\ \A j \in 1..Len(due) : due[j].hit \in {"yes", "no"}
    BY <2>t, Facts DEF Queued, Hits
  <2>1. ASSUME NEW f \in Frames, Output1(f) PROVE Step
    <3>1. Hit => Len(due) = NT
      BY <2>t, <2>1, Marked, AtSet DEF Output1
    <3> QED BY <2>1, <3>1 DEF Output1
  <2>2. CASE DmaSent
    <3>1. ASSUME NEW i \in DOMAIN due, i \in DOMAIN due', due'[i].hit # due[i].hit
          PROVE  Len(due) = NT
      <4>1. i \in 1..Len(due) /\ i + 1 \in 1..Len(due) /\ due'[i] = due[i + 1]
        BY <2>t, <2>f, <2>2, <3>1, Sent
      <4>2. due[i].hit = "yes" \/ due[i + 1].hit = "yes"
        BY <2>f, <3>1, <4>1
      <4> QED BY <2>t, <2>f, <4>1, <4>2 DEF OnlyOldest
    <3>2. pc' = pc
      BY <2>2 DEF DmaSent
    <3> QED BY <3>1, <3>2
  <2>3. CASE TxPkt
    <3>0. pc = "own"
      BY <2>3 DEF TxPkt
    <3>1. CASE own[set] = "dma"
      <4>1. Len(due) = NT
        BY <2>t, <2>3, <3>1, AtSet DEF TxPkt
      <4> QED BY <3>0, <4>1
    <3>2. CASE own[set] = "cpu"
      <4>1. \A j \in DOMAIN due : due'[j] = due[j]
        BY <2>t, <2>f, <2>3, <3>2, Queues
      <4>2. pc' = "tbus"
        BY <2>3, <3>2 DEF TxPkt
      <4> QED BY <3>0, <4>1, <4>2
    <3> QED BY <2>3, <3>1, <3>2 DEF TxPkt
  <2>4. CASE EncRequest
    <3>1. due' = due /\ pc = "erts" /\ pc' = "err"
      BY <2>4 DEF EncRequest, ringVars
    <3>2. ASSUME edue' # Offered
          PROVE  rts = "on" /\ edue # None /\ edue.hit = "yes"
      <4>1. rts = "on"
        BY <2>t, <2>4, <3>2 DEF EncRequest, TypeOK
      <4> QED BY <2>t, <3>1, <4>1 DEF EncInv
    <3> QED BY <3>1, <3>2
  <2>5. CASE EncCheck
    <3>1. due' = due /\ pc = "err"
      BY <2>5 DEF EncCheck, ringVars
    <3>2. erif = "on" \/ edue' = edue
      BY <2>5 DEF EncCheck
    <3> QED BY <3>1, <3>2
  <2>6. CASE \/ DmaFetch \/ Copy \/ Resume
             \/ EncStart \/ EncSent \/ EncError \/ EncCopyFirst \/ EncCopyRest
             \/ \E f \in Frames : Output2(f)
    <3>1. due' = due
      BY <2>6 DEF DmaFetch, Copy, Resume, EncStart, EncSent, EncError,
                  EncCopyFirst, EncCopyRest, Output2, ringVars
    <3>2. pc' = pc \/ pc \notin {"own", "erts", "err"}
      BY <2>6 DEF DmaFetch, Copy, Resume, EncStart, EncSent, EncError,
                  EncCopyFirst, EncCopyRest, Output2
    <3> QED BY <3>1, <3>2
  <2> QED BY <1>1, <2>1, <2>2, <2>3, <2>4, <2>5, <2>6 DEF Next, Driver, Hardware
<1>2. ASSUME UNCHANGED vars PROVE Step
  BY <1>2 DEF vars, ringVars, encVars
<1>3. IInv /\ [Next]_vars => [Step]_vars
  BY <1>1
<1> QED BY Inductive, <1>3, PTL DEF Spec, LossHasCause
=============================================================================
