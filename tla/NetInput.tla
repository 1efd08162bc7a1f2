------------------------------ MODULE NetInput ------------------------------
(***************************************************************************)
(* The way of a received frame into lwIP: the Rx descriptors of the        *)
(* Ethernet DMA and the two input tasks (lwIP/port/netif/ethernetif.c),    *)
(* the pools of pbufs and messages, and the mailbox of tcpip_thread        *)
(* (lwIP/src/api/tcpip.c).                                                 *)
(*                                                                         *)
(* ethernetif_1_input (priority 5) runs before ethernetif_2_input (6) and  *)
(* that before tcpip_thread (10): a task takes a step only while those     *)
(* before it sleep. Both input tasks poll, and sleep 5 ms when there is    *)
(* nothing. The DMA runs beside them all.                                  *)
(*                                                                         *)
(* A frame is what it needs: a "short" one fits a pbuf of the pool (1500   *)
(* bytes), a "full" one takes two, a "long" one does not fit an Rx buffer  *)
(* (1520 bytes) and takes two descriptors.                                 *)
(***************************************************************************)
EXTENDS Integers, Sequences, FiniteSets

CONSTANTS
    N,         \* ETH_RXBUFNB
    PoolSize,  \* PBUF_POOL_SIZE
    MsgSize,   \* MEMP_NUM_TCPIP_MSG_INPKT
    MboxSize,  \* TCPIP_MBOX_SIZE
    EncSize,   \* frames in the memory of the ENC28J60
    Kinds      \* the frames that arrive

ASSUME NetInputAssumption ==
    /\ N \in Nat /\ N >= 2
    /\ {PoolSize, MsgSize, MboxSize, EncSize} \subseteq Nat
    /\ Kinds \subseteq {"short", "full", "long"}

VARIABLES
    own,       \* Status of each descriptor: owned by "dma" or "cpu"
    buf,       \* the frame, or the part of one, in a buffer of the CPU's
    dma,       \* the descriptor the DMA uses next
    dmast,     \* "fetch" it, "ready" to use it, "susp": RBUS is set
    get,       \* DMARxDescToGet
    pool,      \* free pbufs of the pool
    msgs,      \* free messages
    mbox,      \* the mailbox: frames with their netif
    enc,       \* the frames the ENC28J60 holds
    pc,        \* where each input task is
    desc,      \* frame.descriptor of low_level_1_input
    hold,      \* the frame in the pbuf of each input task
    busy,      \* the frame that tcpip_thread works on
    reass      \* pbufs of the pool with fragments that wait for others

ring == <<own, buf, dma, dmast>>
vars == <<own, buf, dma, dmast, get, pool, msgs, mbox, enc, pc, desc, hold, busy,
          reass>>

None == "none"
Descs == 0..(N - 1)
Netifs == {1, 2}
Parts == {"short", "full", "long", "first", "last"}
Messages == [netif : Netifs, k : Parts]

\* The chain of the descriptors.
Succ(i) == IF i < N - 1 THEN i + 1 ELSE 0

\* The pbufs of the pool in which a frame of each netif is: the second netif
\* allocates from the heap.
Size(n, k) == IF n = 2 \/ k = None THEN 0 ELSE IF k = "short" THEN 1 ELSE 2

Init ==
    /\ own = [i \in Descs |-> "dma"]
    /\ buf = [i \in Descs |-> None]
    /\ dma = 0
    /\ dmast = "fetch"
    /\ get = 0
    /\ pool = PoolSize
    /\ msgs = MsgSize
    /\ mbox = <<>>
    /\ enc = <<>>
    /\ pc = [n \in Netifs |-> "sleep"]
    /\ desc = 0
    /\ hold = [n \in Netifs |-> None]
    /\ busy = [netif |-> 1, k |-> None]
    /\ reass = 0

-----------------------------------------------------------------------------
(* The hardware                                                            *)

\* The DMA looks at its next descriptor, and suspends if it is not its own.
DmaFetch ==
    /\ dmast = "fetch"
    /\ dmast' = IF own[dma] = "dma" THEN "ready" ELSE "susp"
    /\ UNCHANGED <<own, buf, dma, get, pool, msgs, mbox, enc, pc, desc, hold, busy, reass>>

\* A frame arrives and is written to one descriptor. One that does not fit is
\* written to two, with FS set only in the first and LS only in the second.
Arrive(k) ==
    /\ dmast = "ready"
    /\ IF k = "long"
       THEN /\ own[Succ(dma)] = "dma"
            /\ own' = [own EXCEPT ![dma] = "cpu", ![Succ(dma)] = "cpu"]
            /\ buf' = [buf EXCEPT ![dma] = "first", ![Succ(dma)] = "last"]
            /\ dma' = Succ(Succ(dma))
       ELSE /\ own' = [own EXCEPT ![dma] = "cpu"]
            /\ buf' = [buf EXCEPT ![dma] = k]
            /\ dma' = Succ(dma)
    /\ dmast' = "fetch"
    /\ UNCHANGED <<get, pool, msgs, mbox, enc, pc, desc, hold, busy, reass>>

\* A frame arrives at the ENC28J60.
EncArrive(k) ==
    /\ Len(enc) < EncSize
    /\ enc' = Append(enc, k)
    /\ UNCHANGED <<ring, get, pool, msgs, mbox, pc, desc, hold, busy, reass>>

-----------------------------------------------------------------------------
(* ethernetif_1_input                                                      *)

\* ETH_GetRxPktSize # 0: FS and LS are both set.
ETH_GetRxPktSize == own[get] = "cpu" /\ buf[get] \in {"short", "full"}

\* low_level_1_input up to the copy: ETH_RxPkt_ChainMode takes the descriptor
\* and selects the next; the frame goes to pbufs of the pool or is dropped.
ETH_RxPkt_ChainMode ==
    /\ pc[1] = "poll"
    /\ ETH_GetRxPktSize
    /\ desc' = get
    /\ get' = Succ(get)
    /\ IF Size(1, buf[get]) <= pool
       THEN /\ hold' = [hold EXCEPT ![1] = buf[get]]
            /\ pool' = pool - Size(1, buf[get])
       ELSE UNCHANGED <<hold, pool>>
    /\ pc' = [pc EXCEPT ![1] = "own"]
    /\ UNCHANGED <<ring, msgs, mbox, enc, busy, reass>>

\* Mutant: the next descriptor is given back.
GiveBackNext ==
    /\ pc[1] = "own"
    /\ own' = [own EXCEPT ![get] = "dma"]
    /\ pc' = [pc EXCEPT ![1] = "resume"]
    /\ UNCHANGED <<buf, dma, dmast, get, pool, msgs, mbox, enc, desc, hold, busy, reass>>

\* The descriptor is given back to the DMA.
GiveBack ==
    /\ pc[1] = "own"
    /\ own' = [own EXCEPT ![desc] = "dma"]
    /\ buf' = [buf EXCEPT ![desc] = None]
    /\ pc' = [pc EXCEPT ![1] = "resume"]
    /\ UNCHANGED <<dma, dmast, get, pool, msgs, mbox, enc, desc, hold, busy, reass>>

AfterInput(n) == [pc EXCEPT ![n] = IF hold[n] = None THEN "poll" ELSE "input"]

\* Mutant: reception is not resumed.
NoResume ==
    /\ pc[1] = "resume"
    /\ pc' = AfterInput(1)
    /\ UNCHANGED <<ring, get, pool, msgs, mbox, enc, desc, hold, busy, reass>>

\* RBUS is cleared and reception resumed if the DMA is suspended.
Resume ==
    /\ pc[1] = "resume"
    /\ dmast' = IF dmast = "susp" THEN "fetch" ELSE dmast
    /\ pc' = AfterInput(1)
    /\ UNCHANGED <<own, buf, dma, get, pool, msgs, mbox, enc, desc, hold, busy, reass>>

\* Nothing to read: OSTimeDlyHMSM
Sleep1 ==
    /\ pc[1] = "poll"
    /\ ~ETH_GetRxPktSize
    /\ pc' = [pc EXCEPT ![1] = "sleep"]
    /\ UNCHANGED <<ring, get, pool, msgs, mbox, enc, desc, hold, busy, reass>>

-----------------------------------------------------------------------------
(* ethernetif_2_input                                                      *)

\* Mutant: the packet stays when there is no heap.
enc28j60PacketReceiveKeeps ==
    /\ pc[2] = "poll"
    /\ enc # <<>>
    /\ \/ /\ enc' = Tail(enc)
          /\ hold' = [hold EXCEPT ![2] = Head(enc)]
          /\ pc' = [pc EXCEPT ![2] = "input"]
       \/ /\ pc' = [pc EXCEPT ![2] = "sleep"]
          /\ UNCHANGED <<enc, hold>>
    /\ UNCHANGED <<ring, get, pool, msgs, mbox, desc, busy, reass>>

\* enc28j60PacketReceive with a packet: it is removed from the ENC28J60 whether
\* or not there is heap for its pbuf.
enc28j60PacketReceive ==
    /\ pc[2] = "poll"
    /\ enc # <<>>
    /\ enc' = Tail(enc)
    /\ \/ /\ hold' = [hold EXCEPT ![2] = Head(enc)]
          /\ pc' = [pc EXCEPT ![2] = "input"]
       \/ /\ pc' = [pc EXCEPT ![2] = "sleep"]
          /\ UNCHANGED hold
    /\ UNCHANGED <<ring, get, pool, msgs, mbox, desc, busy, reass>>

Sleep2 ==
    /\ pc[2] = "poll"
    /\ enc = <<>>
    /\ pc' = [pc EXCEPT ![2] = "sleep"]
    /\ UNCHANGED <<ring, get, pool, msgs, mbox, enc, desc, hold, busy, reass>>

-----------------------------------------------------------------------------
(* tcpip_input, in both tasks                                              *)

\* The tick ends the sleep of a task.
Wake(n) ==
    /\ pc[n] = "sleep"
    /\ pc' = [pc EXCEPT ![n] = "poll"]
    /\ UNCHANGED <<ring, get, pool, msgs, mbox, enc, desc, hold, busy, reass>>

\* Mutant: the pbuf of a refused frame is not freed.
RefusedLeaks(n, m) ==
    /\ pool' = pool
    /\ hold' = [hold EXCEPT ![n] = None]
    /\ pc' = [pc EXCEPT ![n] = "poll"]
    /\ msgs' = m

\* tcpip_input returns an error with m messages free: pbuf_free
Refused(n, m) ==
    /\ pool' = pool + Size(n, hold[n])
    /\ hold' = [hold EXCEPT ![n] = None]
    /\ pc' = [pc EXCEPT ![n] = "poll"]
    /\ msgs' = m

\* memp_malloc for the message
memp_malloc(n) ==
    /\ pc[n] = "input"
    /\ IF msgs > 0
       THEN /\ msgs' = msgs - 1
            /\ pc' = [pc EXCEPT ![n] = "post"]
            /\ UNCHANGED <<pool, hold>>
       ELSE Refused(n, msgs)
    /\ UNCHANGED <<ring, get, mbox, enc, desc, busy, reass>>

\* Mutants: the message goes to the front of the queue; it is freed as well.
trypostFront(n) ==
    /\ pc[n] = "post"
    /\ mbox' = <<[netif |-> n, k |-> hold[n]]>> \o mbox
    /\ hold' = [hold EXCEPT ![n] = None]
    /\ pc' = [pc EXCEPT ![n] = "poll"]
    /\ UNCHANGED <<ring, get, pool, msgs, enc, desc, busy, reass>>

trypostFrees(n) ==
    /\ pc[n] = "post"
    /\ mbox' = Append(mbox, [netif |-> n, k |-> hold[n]])
    /\ hold' = [hold EXCEPT ![n] = None]
    /\ pc' = [pc EXCEPT ![n] = "poll"]
    /\ msgs' = msgs + 1
    /\ UNCHANGED <<ring, get, pool, enc, desc, busy, reass>>

\* sys_mbox_trypost
trypost(n) ==
    /\ pc[n] = "post"
    /\ IF Len(mbox) < MboxSize
       THEN /\ mbox' = Append(mbox, [netif |-> n, k |-> hold[n]])
            /\ hold' = [hold EXCEPT ![n] = None]
            /\ pc' = [pc EXCEPT ![n] = "poll"]
            /\ UNCHANGED <<pool, msgs>>
       ELSE /\ Refused(n, msgs + 1)
            /\ UNCHANGED mbox
    /\ UNCHANGED <<ring, get, enc, desc, busy, reass>>

-----------------------------------------------------------------------------
(* tcpip_thread                                                            *)

\* sys_mbox_fetch
Fetch ==
    /\ busy.k = None
    /\ mbox # <<>>
    /\ busy' = Head(mbox)
    /\ mbox' = Tail(mbox)
    /\ UNCHANGED <<ring, get, pool, msgs, enc, pc, desc, hold, reass>>

\* ethernet_input and memp_free. At the end of ethernet_input the pbuf is freed,
\* with n pbufs of fragments if the frame completes a datagram; or the frame is
\* a fragment itself and is queued by ip_reass.
Process ==
    /\ busy.k # None
    /\ \/ \E n \in 0..reass :
             /\ pool' = pool + Size(busy.netif, busy.k) + n
             /\ reass' = reass - n
       \/ /\ reass' = reass + Size(busy.netif, busy.k)
          /\ UNCHANGED pool
    /\ msgs' = msgs + 1
    /\ busy' = [busy EXCEPT !.k = None]
    /\ UNCHANGED <<ring, get, mbox, enc, pc, desc, hold>>

\* The timer frees the fragments of datagrams that stay incomplete.
ip_reass_tmr ==
    /\ busy.k = None
    /\ \E n \in 1..reass :
          /\ pool' = pool + n
          /\ reass' = reass - n
    /\ UNCHANGED <<ring, get, msgs, mbox, enc, pc, desc, hold, busy>>

-----------------------------------------------------------------------------

Arrivals == \E k \in Kinds : Arrive(k) \/ EncArrive(k)
tcpip_input(n) == memp_malloc(n) \/ trypost(n)
ethernetif_1_input ==
    ETH_RxPkt_ChainMode \/ GiveBack \/ Resume \/ Sleep1 \/ tcpip_input(1)
ethernetif_2_input ==
    pc[1] = "sleep" /\ (enc28j60PacketReceive \/ Sleep2 \/ tcpip_input(2))
tcpip_thread ==
    pc[1] = "sleep" /\ pc[2] = "sleep" /\ (Fetch \/ Process \/ ip_reass_tmr)

Next == \/ Arrivals \/ DmaFetch
        \/ Wake(1) \/ Wake(2)
        \/ ethernetif_1_input \/ ethernetif_2_input \/ tcpip_thread

Spec == Init /\ [][Next]_vars

\* The DMA and the tick go on. The tick does not come between any two steps of
\* the tasks behind it: a task that is ready while those before it sleep gets
\* to its next step.
FairSpec ==
    /\ Spec
    /\ WF_vars(DmaFetch) /\ WF_vars(Wake(1)) /\ WF_vars(Wake(2))
    /\ WF_vars(ethernetif_1_input)
    /\ SF_vars(ethernetif_2_input) /\ SF_vars(tcpip_thread)

-----------------------------------------------------------------------------
(* Properties                                                              *)

\* The pools never go below zero: memp_malloc and pbuf_alloc check before they
\* take (tcpip.c:343-346). Indices stay on the ring.
TypeOK ==
    /\ own \in [Descs -> {"dma", "cpu"}]
    /\ buf \in [Descs -> Parts \cup {None}]
    /\ {dma, get, desc} \subseteq Descs
    /\ dmast \in {"fetch", "ready", "susp"}
    /\ {pool, msgs, reass} \subseteq Nat
    /\ mbox \in Seq(Messages)
    /\ enc \in Seq(Parts)
    /\ pc \in [Netifs -> {"sleep", "poll", "own", "resume", "input", "post"}]
    /\ hold \in [Netifs -> Parts \cup {None}]
    /\ busy \in [netif : Netifs, k : Parts \cup {None}]

\* Every message is free, in the mailbox, or with exactly one task.
MessagesKept ==
    msgs + Len(mbox) + (IF pc[1] = "post" THEN 1 ELSE 0)
         + (IF pc[2] = "post" THEN 1 ELSE 0)
         + (IF busy.k # None THEN 1 ELSE 0) = MsgSize

\* The pbufs of the pool with the frames of q, a queue of messages
PbufsIn(q) ==
    LET sum[i \in 0..Len(q)] ==
            IF i = 0 THEN 0 ELSE sum[i - 1] + Size(q[i].netif, q[i].k)
    IN  sum[Len(q)]

\* Every pbuf of the pool is free, in exactly one frame under way or in one
\* fragment that waits, whatever is refused on the way (ethernetif.c:410-415).
PbufsKept ==
    pool + reass + Size(1, hold[1]) + Size(busy.netif, busy.k) + PbufsIn(mbox) = PoolSize

\* How many descriptors i is ahead of DMARxDescToGet.
Ahead(i) == IF i >= get THEN i - get ELSE i - get + N

\* The descriptors not yet read are the n from DMARxDescToGet up to the one
\* the DMA uses next, and all others but the one in low_level_1_input are the
\* DMA's: task and DMA never get out of step, and the DMA never writes to the
\* buffer that is copied.
RingInStep ==
    \E n \in 0..N :
        /\ dma \in {get + n, get + n - N}
        /\ \A i \in Descs :
              own[i] = "cpu" <=> (Ahead(i) < n \/ (pc[1] = "own" /\ i = desc))
        /\ pc[1] = "own" => n < N /\ Succ(desc) = get

\* A suspended DMA waits for a descriptor that is still to be given back, or
\* the task is about to resume it: checking RBUS behind the OWN bit
\* (ethernetif.c:341-350) leaves no gap in which the DMA is forgotten.
DmaNotStuck == dmast = "susp" /\ own[dma] = "dma" => pc[1] = "resume"

\* Task and DMA agree on the ring, and the DMA is never left suspended.
RingSound == TypeOK /\ RingInStep /\ DmaNotStuck

\* When no more frames arrive everything under way is worked off.
Drained ==
    \/ []<><<Arrivals>>_vars
    \/ []<>(enc = <<>> /\ mbox = <<>> /\ busy.k = None /\ \A i \in Descs : own[i] = "dma")

\* The frames of netif n in q, a queue of messages
FramesOf(q, n) ==
    LET frames[i \in 0..Len(q)] ==
            IF i = 0 THEN <<>>
            ELSE IF q[i].netif = n THEN Append(frames[i - 1], q[i].k)
            ELSE frames[i - 1]
    IN  frames[Len(q)]

\* The frames of each netif under way, the oldest first.
Under(n) ==
    (IF busy.netif = n /\ busy.k # None THEN <<busy.k>> ELSE <<>>)
    \o FramesOf(mbox, n)
    \o (IF hold[n] # None THEN <<hold[n]>> ELSE <<>>)

Unread ==
    LET Copied(i) == pc[1] = "own" /\ i = desc
        new == {i \in Descs : own[i] = "cpu" /\ ~Copied(i)}
    IN  [j \in 1..Cardinality(new) |-> buf[CHOOSE i \in new : Ahead(i) = j - 1]]

Fifo1 == INSTANCE LossyFifo WITH Frames <- Kinds, chan <- Under(1) \o Unread
Fifo2 == INSTANCE LossyFifo WITH Frames <- Kinds, chan <- Under(2) \o enc

\* Each interface is a lossy FIFO: whatever the two tasks and the thread do in
\* between, frames are not reordered, doubled or made up.
InOrder == Fifo1!Spec /\ Fifo2!Spec

=============================================================================
