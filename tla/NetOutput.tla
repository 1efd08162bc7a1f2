----------------------------- MODULE NetOutput -----------------------------
(***************************************************************************)
(* The way of a frame out of the board: low_level_1_output with the Tx     *)
(* descriptors of the Ethernet DMA, and low_level_2_output with the one    *)
(* transmit buffer of the ENC28J60 (lwIP/port/netif/ethernetif.c,          *)
(* IAR/BSP/ENC28J60.C).                                                    *)
(*                                                                         *)
(* Both run with interrupts masked, so that one task is in them at a time  *)
(* and enc28j60_sem_lock is always free; DMA and ENC28J60 go on beside     *)
(* them. Neither driver waits for room: low_level_1_output copies the      *)
(* frame before ETH_TxPkt_ChainMode looks at the OWN bit, and              *)
(* enc28j60PacketSend does not ask whether the last frame is out. `hit'    *)
(* records which queued frames had their buffer written to again.          *)
(*                                                                         *)
(* A frame stands for its bytes and for its length. A buffer that is being *)
(* written holds a Mix of two frames.                                      *)
(***************************************************************************)
EXTENDS Integers, Sequences

CONSTANTS
    NT,        \* ETH_TXBUFNB
    Frames,    \* what is sent
    Mix,       \* neither of two frames
    None

Descs == 0..(NT - 1)

\* A queued frame: its bytes, where they are, and whether they were hit there.
Hits == {"yes", "no"}
Queued == [f : Frames, at : Descs, hit : Hits]

ASSUME NetOutputAssumption ==
    /\ NT \in Nat \ {0}
    /\ Mix \notin Frames
    /\ None \notin Frames \cup {Mix} \cup Queued

VARIABLES
    own,       \* Status of each descriptor: owned by "dma" or "cpu"
    buf,       \* the contents of each Tx buffer
    len,       \* ControlBufferSize
    set,       \* DMATxDescToSet
    dma,       \* the descriptor the DMA uses next
    dmast,     \* "fetch" it, "send" its buffer, "susp": TBUS is set
    head,      \* what the DMA had read when it began to send
    due,       \* the frames queued and not yet sent, with their descriptors
    ebuf,      \* the transmit buffer of the ENC28J60
    elen,      \* ETXND
    rts,       \* TXRTS
    ehead,     \* what the ENC28J60 had read when it began to send
    edue,      \* the frame it is to send
    erif,      \* TXERIF
    pc,        \* the next step of the output function
    frame      \* the frame it was called with

dmaVars == <<dma, dmast, head>>
ringVars == <<own, buf, len, set, due>>
encVars == <<ebuf, elen, rts, ehead, edue, erif>>
vars == <<ringVars, dmaVars, encVars, pc, frame>>

\* The chain of the descriptors (ETH_DMATxDescChainInit)
Succ(i) == IF i < NT - 1 THEN i + 1 ELSE 0

Init ==
    /\ own = [i \in Descs |-> "cpu"]
    /\ buf = [i \in Descs |-> None]
    /\ len = [i \in Descs |-> None]
    /\ set = 0
    /\ dma = 0
    /\ dmast = "fetch"
    /\ head = None
    /\ due = <<>>
    /\ ebuf = None
    /\ elen = None
    /\ rts = "off"
    /\ ehead = None
    /\ edue = None
    /\ erif = "off"
    /\ pc = "idle"
    /\ frame = None

-----------------------------------------------------------------------------
(* The hardware                                                            *)

\* The DMA looks at its next descriptor, and suspends if it is not its own.
DmaFetch ==
    /\ dmast = "fetch"
    /\ IF own[dma] = "dma" THEN dmast' = "send" /\ head' = buf[dma]
                           ELSE dmast' = "susp" /\ UNCHANGED head
    /\ UNCHANGED <<ringVars, dma, encVars, pc, frame>>

\* It has sent the buffer and gives the descriptor back.
DmaSent ==
    /\ dmast = "send"
    /\ head' = None
    /\ due' = Tail(due)
    /\ own' = [own EXCEPT ![dma] = "cpu"]
    /\ dma' = Succ(dma)
    /\ dmast' = "fetch"
    /\ UNCHANGED <<buf, len, set, encVars, pc, frame>>

EncStart ==
    /\ rts = "on"
    /\ ehead = None
    /\ ehead' = ebuf
    /\ UNCHANGED <<ringVars, dmaVars, ebuf, elen, rts, edue, erif, pc, frame>>

EncSent ==
    /\ ehead # None
    /\ rts' = "off"
    /\ ehead' = None
    /\ edue' = None
    /\ UNCHANGED <<ringVars, dmaVars, ebuf, elen, erif, pc, frame>>

\* The transmission fails. TXERIF stays until it is cleared, which no code does.
EncError ==
    /\ ehead # None
    /\ erif' = "on"
    /\ rts' = "off"
    /\ ehead' = None
    /\ edue' = None
    /\ UNCHANGED <<ringVars, dmaVars, ebuf, elen, pc, frame>>

-----------------------------------------------------------------------------
(* low_level_1_output                                                      *)

\* The first bytes are copied to the buffer of DMATxDescToSet.
Output1(f) ==
    /\ pc = "idle"
    /\ frame' = f
    /\ buf' = [buf EXCEPT ![set] = Mix]
    /\ due' = [i \in DOMAIN due |->
                IF due[i].at = set THEN [due[i] EXCEPT !.hit = "yes"] ELSE due[i]]
    /\ pc' = "copy"
    /\ UNCHANGED <<own, len, set, dmaVars, encVars>>

Copy ==
    /\ pc = "copy"
    /\ buf' = [buf EXCEPT ![set] = frame]
    /\ pc' = "own"
    /\ UNCHANGED <<own, len, set, due, dmaVars, encVars, frame>>

\* Mutant: the OWN bit is set before the length.
TxPktNoLength ==
    /\ pc = "own"
    /\ \/ /\ own[set] = "dma"
          /\ pc' = "idle"
          /\ UNCHANGED <<len, own, due>>
       \/ /\ own[set] = "cpu"
          /\ own' = [own EXCEPT ![set] = "dma"]
          /\ due' = Append(due, [f |-> frame, at |-> set, hit |-> "no"])
          /\ pc' = "tbus"
          /\ UNCHANGED len
    /\ UNCHANGED <<buf, set, dmaVars, encVars, frame>>

\* ETH_TxPkt_ChainMode up to OWN. If the DMA has the descriptor the frame is
\* dropped, and low_level_1_output returns ERR_OK all the same.
TxPkt ==
    /\ pc = "own"
    /\ \/ /\ own[set] = "dma"
          /\ pc' = "idle"
          /\ UNCHANGED <<len, own, due>>
       \/ /\ own[set] = "cpu"
          /\ len' = [len EXCEPT ![set] = frame]
          /\ own' = [own EXCEPT ![set] = "dma"]
          /\ due' = Append(due, [f |-> frame, at |-> set, hit |-> "no"])
          /\ pc' = "tbus"
    /\ UNCHANGED <<buf, set, dmaVars, encVars, frame>>

\* Mutants: a suspended DMA is left alone; DMATxDescToSet is.
ResumeNot ==
    /\ pc = "tbus"
    /\ set' = Succ(set)
    /\ pc' = "idle"
    /\ UNCHANGED <<own, buf, len, due, dmaVars, encVars, frame>>

ResumeStays ==
    /\ pc = "tbus"
    /\ dmast' = IF dmast = "susp" THEN "fetch" ELSE dmast
    /\ pc' = "idle"
    /\ UNCHANGED <<ringVars, dma, head, encVars, frame>>

\* ETH_TxPkt_ChainMode from TBUS on
Resume ==
    /\ pc = "tbus"
    /\ dmast' = IF dmast = "susp" THEN "fetch" ELSE dmast
    /\ set' = Succ(set)
    /\ pc' = "idle"
    /\ UNCHANGED <<own, buf, len, due, dma, head, encVars, frame>>

-----------------------------------------------------------------------------
(* low_level_2_output and enc28j60PacketSend                               *)

\* The pointers are set: ETXND is the length of the new frame.
Output2(f) ==
    /\ pc = "idle"
    /\ frame' = f
    /\ elen' = f
    /\ edue' = IF edue = None THEN None ELSE [edue EXCEPT !.hit = "yes"]
    /\ pc' = "ebuf"
    /\ UNCHANGED <<ringVars, dmaVars, ebuf, rts, ehead, erif>>

EncCopyFirst ==
    /\ pc = "ebuf"
    /\ ebuf' = Mix
    /\ pc' = "erest"
    /\ UNCHANGED <<ringVars, dmaVars, elen, rts, ehead, edue, erif, frame>>

EncCopyRest ==
    /\ pc = "erest"
    /\ ebuf' = frame
    /\ pc' = "erts"
    /\ UNCHANGED <<ringVars, dmaVars, elen, rts, ehead, edue, erif, frame>>

\* The frame the driver has just offered as the ENC28J60 is to send it
Offered == [f |-> frame, at |-> 0, hit |-> "no"]

\* TXRTS is set. That does nothing if it was: the ENC28J60 is still sending.
EncRequest ==
    /\ pc = "erts"
    /\ rts' = "on"
    /\ edue' = IF rts = "off" THEN Offered ELSE edue
    /\ pc' = "err"
    /\ UNCHANGED <<ringVars, dmaVars, ebuf, elen, ehead, erif, frame>>

\* TXRTS is cleared if TXERIF is set, whichever frame has failed: what is
\* being sent is given up.
EncCheck ==
    /\ pc = "err"
    /\ \/ /\ erif = "on"
          /\ rts' = "off"
          /\ ehead' = None
          /\ edue' = None
       \/ /\ erif = "off"
          /\ UNCHANGED <<rts, ehead, edue>>
    /\ pc' = "idle"
    /\ UNCHANGED <<ringVars, dmaVars, ebuf, elen, erif, frame>>

-----------------------------------------------------------------------------

Hardware == DmaFetch \/ DmaSent \/ EncStart \/ EncSent \/ EncError

Driver ==
    \/ Copy \/ TxPkt \/ Resume
    \/ EncCopyFirst \/ EncCopyRest \/ EncRequest \/ EncCheck

Next ==
    \/ \E f \in Frames : Output1(f) \/ Output2(f)
    \/ Driver
    \/ Hardware

Spec == Init /\ [][Next]_vars

\* The DMA sends what it has, and the masked driver code runs to its end.
\* Frames are not fair.
FairSpec == Spec /\ WF_vars(Driver) /\ WF_vars(DmaFetch \/ DmaSent)

-----------------------------------------------------------------------------
(* Properties                                                              *)

Contents == Frames \cup {Mix, None}

\* Every variable keeps its type: no more frames are queued than there are
\* descriptors (ethernetif.c:632).
TypeOK ==
    /\ own \in [Descs -> {"dma", "cpu"}]
    /\ buf \in [Descs -> Contents]
    /\ len \in [Descs -> Frames \cup {None}]
    /\ {set, dma} \subseteq Descs
    /\ dmast \in {"fetch", "send", "susp"}
    /\ {head, ebuf, ehead} \subseteq Contents
    /\ due \in Seq(Queued) /\ Len(due) <= NT
    /\ elen \in Frames \cup {None}
    /\ {rts, erif} \subseteq {"on", "off"}
    /\ edue \in Queued \cup {None}
    /\ pc \in {"idle", "copy", "own", "tbus", "ebuf", "erest", "erts", "err"}
    /\ frame \in Frames \cup {None}

\* What goes out is a frame that was queued, in the order of queueing, with
\* its own bytes and length, although the DMA and the ENC28J60 read their
\* buffers while the drivers run; the only exceptions are frames whose buffer
\* has been written to again (ethernetif.c:272-280, ENC28J60.C:337-372).
SentWhole ==
    /\ dmast = "send" =>
        \/ due[1].hit = "yes"
        \/ {head, buf[dma], len[dma]} = {due[1].f}
    /\ ehead # None =>
        \/ edue.hit = "yes"
        \/ {ehead, ebuf, elen} = {edue.f}

\* No more is queued than there are descriptors, and what is queued goes out
\* whole and in order.
SentSound == TypeOK /\ SentWhole

\* Where frames are lost. On interface 1 a queued frame is written over and a new
\* one dropped only when the ring is full (ethernetif.c:276, 632). On interface 2,
\* which has no ring, a new frame is
\*   - not taken only if the ENC28J60 still has an earlier one, whose buffer this
\*     one has been written over (ENC28J60.C:338-372): one that has gone out while
\*     the driver copied is no reason;
\*   - given up by the driver only after some transmission has failed
\*     (ENC28J60.C:375-378). That need not be its own, and the ENC28J60 may have
\*     been idle: nobody clears TXERIF, so that from the first failure on every
\*     frame is given up that is not out when the driver looks.
LossHasCause ==
    [][/\ (\E i \in DOMAIN due : i \in DOMAIN due' /\ due'[i].hit # due[i].hit) =>
            Len(due) = NT
       /\ pc = "own" /\ pc' = "idle" => Len(due) = NT
       /\ pc = "erts" /\ pc' = "err" /\ edue' # Offered =>
            rts = "on" /\ edue # None /\ edue.hit = "yes"
       /\ pc = "err" /\ pc' = "idle" /\ edue # None /\ edue' = None => erif = "on"]_vars

\* Every queued frame is sent: the DMA, which may suspend at any moment, is
\* resumed (ethernetif.c:648-654).
DmaDrains == \A i \in Descs : own[i] = "dma" ~> own[i] = "cpu"

=============================================================================
