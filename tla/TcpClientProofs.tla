-------------------------- MODULE TcpClientProofs --------------------------
(***************************************************************************)
(* Proofs about TcpClient, for any pool, any heap and any surroundings.    *)
(*                                                                         *)
(* The invariants of the pool and the ports hold together with TaskHolds,  *)
(* which says what tcpclient_connect knows about the block it has not      *)
(* registered yet. On top of them, tcp_active_pcbs is a list, and with     *)
(* prompt and orderly peers a connection has one owner on each side.       *)
(***************************************************************************)
EXTENDS TcpClient, FiniteSetTheorems, WellFoundedInduction, TLAPS

IInv ==
    /\ TypeOK
    /\ PcbsAccounted
    /\ TaskHolds
    /\ PortsDistinct
    /\ TimerOffOnlyIdle

\* The initial state: everything is free.
LEMMA InitIInv == Init => IInv
  BY TcpClientAssumption
  DEF Init, IInv, TypeOK, PcbsAccounted, TaskHolds, PortsDistinct,
      TimerOffOnlyIdle, Unregistered, States, Peers, Clients, TELNET

-----------------------------------------------------------------------------
(* Types                                                                   *)

\* mem_free, mem_calloc and the error callback keep the heap a heap.
LEMMA HeapTypes ==
    ASSUME TypeOK, NEW p \in Pcbs, NEW b \in Blocks \cup {NULL},
           mem_free(b) \/ mem_calloc(b) \/ TCP_EVENT_ERR(p) \/ UNCHANGED memVars
    PROVE  heap' \in SUBSET Blocks /\ badfree' \in {"no", "yes"}
  BY DEF TypeOK, mem_free, mem_calloc, TCP_EVENT_ERR, memVars

\* The order of the list stays a relation on pcbs.
LEMMA ListTypes ==
    ASSUME TypeOK, NEW p \in Pcbs
    PROVE  /\ Unlisted(p) \in SUBSET (Pcbs \X Pcbs)
           /\ InFront(p) \in SUBSET (Pcbs \X Pcbs)
  BY DEF TypeOK, Unlisted, InFront

\* The steps of AppTaskClient keep the types ...
LEMMA TaskTypes ==
    ASSUME IInv, AppTaskClient
    PROVE  TypeOK'
  <1> USE DEF IInv, Clients, Peers, States, Unregistered, TELNET
  <1>1. CASE Poll \/ Write \/ Output \/ WildOutput \/ EndTurn
    BY <1>1 DEF Poll, Write, Output, WildOutput, EndTurn, TypeOK, Other, pcbVars,
       memVars, clientVars
  <1>2. CASE ConnectNew
    <2> PICK p \in Pcbs :
           /\ Allocated(p)
           /\ Fresh(p, "CLOSED", cur)
           /\ active' = active \ {p}
           /\ newer' = Unlisted(p)
           /\ local' = p
      BY <1>2 DEF ConnectNew
    <2>1. newer' \in SUBSET (Pcbs \X Pcbs)
      BY ListTypes
    <2>2. pool' \in SUBSET Pcbs /\ (TCP_EVENT_ERR(p) \/ UNCHANGED memVars)
      BY DEF Allocated, TypeOK
    <2>3. heap' \in SUBSET Blocks /\ badfree' \in {"no", "yes"}
      BY <2>2, HeapTypes
    <2> QED BY <1>2, <2>1, <2>2, <2>3 DEF ConnectNew, Fresh, TypeOK, clientVars
  <1>3. CASE ConnectBind \/ ConnectErr \/ ConnectRecv
    BY <1>3 DEF ConnectBind, ConnectErr, ConnectRecv, TypeOK, TaskHolds, memVars,
       clientVars
  <1>4. CASE ConnectArg
    <2> PICK b \in Blocks \cup {NULL} :
           mem_calloc(b) /\ arg' = [arg EXCEPT ![local] = b]
      BY <1>4 DEF ConnectArg
    <2>1. heap' \in SUBSET Blocks /\ badfree' \in {"no", "yes"}
      BY DEF TypeOK, mem_calloc
    <2> QED BY <1>4, <2>1 DEF ConnectArg, TypeOK, clientVars
  <1>5. CASE ConnectSyn
    <2>1. local \in Pcbs
      BY <1>5 DEF ConnectSyn, TaskHolds
    <2>2. newer' \in SUBSET (Pcbs \X Pcbs)
      BY <1>5, <2>1, ListTypes DEF ConnectSyn
    <2> QED BY <1>5, <2>1, <2>2 DEF ConnectSyn, TypeOK, memVars, clientVars
  <1> QED BY <1>1, <1>2, <1>3, <1>4, <1>5 DEF AppTaskClient

\* ... those of tcpip_thread on one connection ...
LEMMA InputTypes ==
    ASSUME IInv, NEW p \in Pcbs, tcp_input(p) \/ SlowTmr(p)
    PROVE  TypeOK'
  <1> USE DEF IInv, Clients, Peers, States, TELNET
  <1>0. /\ Unlisted(p) \in SUBSET (Pcbs \X Pcbs)
        /\ InFront(p) \in SUBSET (Pcbs \X Pcbs)
    BY ListTypes
  <1>1. CASE SynAck(p)
    BY <1>0, <1>1 DEF SynAck, TypeOK, memVars, taskVars
  <1>2. CASE Data(p)
    BY <1>0, <1>2 DEF Data, TypeOK, memVars, taskVars, clientVars
  <1>3. CASE Fin(p)
    <2>1. mem_free(arg[p]) \/ UNCHANGED memVars
      BY <1>3 DEF Fin
    <2>2. arg[p] \in Blocks \cup {NULL}
      BY DEF TypeOK
    <2>3. heap' \in SUBSET Blocks /\ badfree' \in {"no", "yes"}
      BY <2>1, <2>2, HeapTypes
    <2>4. net' \in [Clients -> {"CLOSED", "CONNECTED"}]
      BY <1>3 DEF Fin, TypeOK
    <2> QED BY <1>0, <1>3, <2>3, <2>4 DEF Fin, TypeOK, taskVars
  <1>4. CASE LastAck(p)
    BY <1>0, <1>4 DEF LastAck, FreePcb, TypeOK, memVars, taskVars, clientVars
  <1>5. CASE Reset(p)
    <2>1. heap' \in SUBSET Blocks /\ badfree' \in {"no", "yes"}
      BY <1>5, HeapTypes DEF Reset
    <2> QED BY <1>0, <1>5, <2>1 DEF Reset, FreePcb, TypeOK, taskVars, clientVars
  <1>6. CASE TelnetAccept(p)
    <2> PICK b \in Blocks \cup {NULL} :
           mem_calloc(b) /\ arg' = [arg EXCEPT ![p] = b]
      BY <1>6 DEF TelnetAccept
    <2>1. heap' \in SUBSET Blocks /\ badfree' \in {"no", "yes"}
      BY DEF TypeOK, mem_calloc
    <2> QED BY <1>0, <1>6, <2>1 DEF TelnetAccept, TypeOK, taskVars, clientVars
  <1>7. CASE SlowTmr(p)
    <2>1. heap' \in SUBSET Blocks /\ badfree' \in {"no", "yes"}
      BY <1>7, HeapTypes DEF SlowTmr
    <2> QED BY <1>0, <1>7, <2>1 DEF SlowTmr, FreePcb, TypeOK, taskVars, clientVars
  <1> QED BY <1>1, <1>2, <1>3, <1>4, <1>5, <1>6, <1>7 DEF tcp_input

\* ... and the remaining ones.
LEMMA OtherTypes ==
    ASSUME IInv, TimerOff \/ TelnetSyn \/ UNCHANGED vars
    PROVE  TypeOK'
  <1> USE DEF IInv, Clients, Peers, States, TELNET
  <1>1. CASE TimerOff
    BY <1>1 DEF TimerOff, TypeOK, pcbVars, memVars, clientVars, taskVars
  <1>2. CASE UNCHANGED vars
    BY <1>2 DEF vars, TypeOK
  <1>3. CASE TelnetSyn
    <2> PICK p \in Pcbs :
         /\ \/ p \in pool /\ UNCHANGED memVars
            \/ pool = {} /\ Oldest(p) /\ TCP_EVENT_ERR(p)
         /\ \/ /\ Fresh(p, "SYN_RCVD", TELNET)
               /\ pool' = pool \ {p}
               /\ active' = active \cup {p}
               /\ newer' = InFront(p)
            \/ /\ "noseg" \in Env
               /\ Fresh(p, "CLOSED", TELNET)
               /\ pool' = pool \cup {p}
               /\ active' = active \ {p}
               /\ newer' = Unlisted(p)
      BY <1>3 DEF TelnetSyn
    <2>1. newer' \in SUBSET (Pcbs \X Pcbs)
      BY ListTypes
    <2>2. heap' \in SUBSET Blocks /\ badfree' \in {"no", "yes"}
      BY HeapTypes
    <2> QED BY <1>3, <2>1, <2>2 DEF TelnetSyn, Fresh, TypeOK, clientVars, taskVars
  <1> QED BY <1>1, <1>2, <1>3

\* Every step keeps the types.
LEMMA TypeStep ==
    ASSUME IInv, [Next]_vars
    PROVE  TypeOK'
  BY TaskTypes, InputTypes, OtherTypes DEF Next

-----------------------------------------------------------------------------
(* The invariants, one lemma per group of actions                          *)

Safe == PcbsAccounted /\ TaskHolds /\ PortsDistinct /\ TimerOffOnlyIdle

\* Steps of the task that leave the blocks alone.
LEMMA PollSafe ==
    ASSUME IInv, Poll \/ Write \/ Output \/ WildOutput \/ EndTurn
    PROVE  Safe'
  <1> USE DEF IInv, Safe, Unregistered
  <1>1. pcbVars' = pcbVars /\ timer' = timer /\ local' = local
    BY DEF Poll, Write, Output, WildOutput, EndTurn
  <1>2. pc \notin Unregistered /\ pc' \notin Unregistered \cup {"err", "recv"}
    BY DEF Poll, Write, Output, WildOutput, EndTurn
  <1> QED
    BY <1>1, <1>2
    DEF pcbVars, PcbsAccounted, TaskHolds, PortsDistinct, TimerOffOnlyIdle

\* tcpclient_connect up to tcp_connect.
LEMMA ConnectSafe ==
    ASSUME IInv, ConnectNew \/ ConnectBind \/ ConnectArg \/ ConnectSyn
    PROVE  Safe'
  <1> USE DEF IInv, Safe, Unregistered
  <1>1. CASE ConnectNew
    <2> PICK p \in Pcbs :
           /\ Allocated(p)
           /\ Fresh(p, "CLOSED", cur)
           /\ active' = active \ {p}
           /\ newer' = Unlisted(p)
           /\ local' = p
      BY <1>1 DEF ConnectNew
    <2>1. pool' = pool \ {p}
      BY DEF Allocated, Oldest, PcbsAccounted
    <2>2. PcbsAccounted'
      BY <1>1, <2>1 DEF PcbsAccounted, ConnectNew, Fresh, TypeOK
    <2>3. TaskHolds'
      BY <1>1 DEF TaskHolds, ConnectNew, Fresh, TypeOK
    <2>4. PortsDistinct'
      BY <1>1 DEF PortsDistinct, ConnectNew, Fresh, TypeOK
    <2>5. TimerOffOnlyIdle'
      BY <1>1 DEF TimerOffOnlyIdle, ConnectNew
    <2> QED BY <2>2, <2>3, <2>4, <2>5
  <1>2. CASE ConnectBind
    <2>1. PcbsAccounted' /\ TimerOffOnlyIdle'
      BY <1>2 DEF PcbsAccounted, TimerOffOnlyIdle, ConnectBind
    <2>2. TaskHolds'
      BY <1>2 DEF TaskHolds, PcbsAccounted, ConnectBind, TypeOK
    <2>3. PortsDistinct'
      BY <1>2 DEF PortsDistinct, PcbsAccounted, ConnectBind, TypeOK
    <2> QED BY <2>1, <2>2, <2>3
  <1>3. CASE ConnectArg
    BY <1>3 DEF PcbsAccounted, TimerOffOnlyIdle, TaskHolds, PortsDistinct, ConnectArg
  <1>4. CASE ConnectSyn
    <2>1. local \in Pcbs \ (pool \cup active) /\ peer[local] = cur
      BY <1>4 DEF ConnectSyn, PcbsAccounted, TaskHolds
    <2>2. PcbsAccounted'
      BY <1>4, <2>1 DEF PcbsAccounted, ConnectSyn, TypeOK
    <2>3. TaskHolds'
      BY <1>4, <2>1 DEF TaskHolds, ConnectSyn
    <2>4. PortsDistinct'
      BY <1>4, <2>1 DEF PortsDistinct, TaskHolds, ConnectSyn, TypeOK
    <2>5. TimerOffOnlyIdle'
      BY <1>4 DEF TimerOffOnlyIdle, ConnectSyn
    <2> QED BY <2>2, <2>3, <2>4, <2>5
  <1> QED BY <1>1, <1>2, <1>3, <1>4

\* The registration of the callbacks writes only callbacks.
LEMMA RegisterSafe ==
    ASSUME IInv, ConnectErr \/ ConnectRecv
    PROVE  Safe'
  BY DEF IInv, Safe, Unregistered, PcbsAccounted, TimerOffOnlyIdle, TaskHolds,
     PortsDistinct, ConnectErr, ConnectRecv

\* Segments that keep the connection.
LEMMA KeepSafe ==
    ASSUME IInv, NEW p \in Pcbs,
           SynAck(p) \/ Data(p) \/ Fin(p) \/ TelnetAccept(p)
    PROVE  Safe'
  <1> USE DEF IInv, Safe, Unregistered
  <1>1. /\ p \in active
        /\ UNCHANGED <<pool, active, peer, port, timer, taskVars>>
        /\ \E s \in States \ {"CLOSED"} : st' = [st EXCEPT ![p] = s]
    BY DEF SynAck, Data, Fin, TelnetAccept, Arrives, States, TypeOK
  <1> QED
    BY <1>1
    DEF PcbsAccounted, TimerOffOnlyIdle, TaskHolds, PortsDistinct, taskVars, TypeOK

\* Segments and timeouts that end the connection.
LEMMA EndSafe ==
    ASSUME IInv, NEW p \in Pcbs, LastAck(p) \/ Reset(p) \/ SlowTmr(p)
    PROVE  Safe'
  <1> USE DEF IInv, Safe, Unregistered
  <1>1. /\ p \in active
        /\ UNCHANGED <<timer, taskVars>>
        /\ \E s \in States : FreePcb(p, s)
    BY DEF LastAck, Reset, SlowTmr, Arrives, States, TypeOK
  <1>2. PICK s \in States : FreePcb(p, s)
    BY <1>1
  <1>3. PcbsAccounted'
    BY <1>1, <1>2 DEF PcbsAccounted, FreePcb, taskVars, TypeOK
  <1>4. TaskHolds'
    BY <1>1, <1>2 DEF TaskHolds, PcbsAccounted, FreePcb, taskVars, TypeOK
  <1>5. PortsDistinct'
    BY <1>1, <1>2 DEF PortsDistinct, FreePcb, TypeOK
  <1>6. TimerOffOnlyIdle'
    BY <1>1, <1>2 DEF TimerOffOnlyIdle, FreePcb
  <1> QED BY <1>3, <1>4, <1>5, <1>6

\* A telnet connection comes in, or the timer stops.
LEMMA OtherSafe ==
    ASSUME IInv, TimerOff \/ TelnetSyn \/ UNCHANGED vars
    PROVE  Safe'
  <1> USE DEF IInv, Safe, Unregistered
  <1>1. CASE TimerOff
    BY <1>1 DEF TimerOff, pcbVars, taskVars, PcbsAccounted, TimerOffOnlyIdle,
       TaskHolds, PortsDistinct
  <1>2. CASE UNCHANGED vars
    BY <1>2 DEF vars, PcbsAccounted, TimerOffOnlyIdle, TaskHolds, PortsDistinct
  <1>3. CASE TelnetSyn
    <2> PICK p \in Pcbs :
         /\ \/ p \in pool /\ UNCHANGED memVars
            \/ pool = {} /\ Oldest(p) /\ TCP_EVENT_ERR(p)
         /\ \/ /\ Fresh(p, "SYN_RCVD", TELNET)
               /\ pool' = pool \ {p}
               /\ active' = active \cup {p}
               /\ newer' = InFront(p)
            \/ /\ "noseg" \in Env
               /\ Fresh(p, "CLOSED", TELNET)
               /\ pool' = pool \cup {p}
               /\ active' = active \ {p}
               /\ newer' = Unlisted(p)
      BY <1>3 DEF TelnetSyn
    <2>1. p \in pool \cup active /\ UNCHANGED taskVars
      BY <1>3 DEF Oldest, TelnetSyn
    <2>2. PcbsAccounted'
      BY <2>1 DEF PcbsAccounted, Fresh, taskVars, TypeOK
    <2>3. TaskHolds'
      BY <2>1 DEF TaskHolds, PcbsAccounted, Fresh, taskVars, TypeOK
    <2>4. PortsDistinct'
      BY DEF PortsDistinct, Fresh, TypeOK
    <2>5. TimerOffOnlyIdle'
      BY <1>3 DEF TimerOffOnlyIdle, TelnetSyn
    <2> QED BY <2>2, <2>3, <2>4, <2>5
  <1> QED BY <1>1, <1>2, <1>3

\* Every step keeps the other parts.
LEMMA SafeStep ==
    ASSUME IInv, [Next]_vars
    PROVE  Safe'
  BY PollSafe, ConnectSafe, RegisterSafe, KeepSafe, EndSafe, OtherSafe
  DEF Next, AppTaskClient, tcp_input

\* The inductive invariant holds in every reachable state.
THEOREM Inductive == Spec => []IInv
  <1>1. IInv /\ [Next]_vars => IInv'
    BY TypeStep, SafeStep DEF IInv, Safe
  <1> QED BY InitIInv, <1>1, PTL DEF Spec

\* Whatever peers do: every variable stays in its type, no connection block is
\* lost, freed while on the list or used twice, and the TCP timer is never off
\* while there are connections.
THEOREM PoolSound == Spec => []PoolInv
  BY Inductive, PTL DEF IInv, PoolInv

\* The configured local port is never used by two connections to one client.
THEOREM DistinctPorts == Spec => []PortsDistinct
  BY Inductive, PTL DEF IInv

-----------------------------------------------------------------------------
(***************************************************************************)
(* tcp_alloc on an empty pool. tcp_active_pcbs is a list: of two blocks on *)
(* it one is nearer to the head, and nothing else is on it. So the search  *)
(* of tcp_kill_prio for the oldest connection ends at the last of them.    *)
(***************************************************************************)

\* `newer' is the strict order of a list of the active blocks.
ActiveIsList ==
    /\ newer \subseteq active \X active
    /\ \A p \in active : <<p, p>> \notin newer
    /\ \A p, q \in active : p # q => <<p, q>> \in newer \/ <<q, p>> \in newer
    /\ \A p, q, r \in active :
         <<p, q>> \in newer /\ <<q, r>> \in newer => <<p, r>> \in newer

\* TCP_RMV leaves a list of the others.
LEMMA UnlistedIsList ==
    ASSUME ActiveIsList, NEW p,
           active' = active \ {p}, newer' = Unlisted(p)
    PROVE  ActiveIsList'
  BY DEF ActiveIsList, Unlisted

\* A block that is put in front, new on the list or not, is the newest.
LEMMA InFrontIsList ==
    ASSUME ActiveIsList, NEW p,
           active' = active \cup {p}, newer' = InFront(p)
    PROVE  ActiveIsList'
  <1> USE DEF ActiveIsList, InFront, Unlisted
  <1>1. newer' \subseteq active' \X active'
    OBVIOUS
  <1>2. \A q, r \in active' :
          <<q, r>> \in newer' <=> \/ <<q, r>> \in newer /\ q # p /\ r # p
                                  \/ q = p /\ r # p
    OBVIOUS
  <1>3. \A q \in active' : <<q, q>> \notin newer'
    BY <1>2
  <1>4. \A q, r \in active' : q # r => <<q, r>> \in newer' \/ <<r, q>> \in newer'
    BY <1>2
  <1>5. \A q, r, s \in active' :
          <<q, r>> \in newer' /\ <<r, s>> \in newer' => <<q, s>> \in newer'
    BY <1>2
  <1> QED BY <1>1, <1>3, <1>4, <1>5

\* Every step moves, adds or removes one block, or leaves the list alone.
LEMMA ListStep ==
    ASSUME IInv, ActiveIsList, [Next]_vars
    PROVE  ActiveIsList'
  <1>1. ASSUME UNCHANGED <<active, newer>> PROVE ActiveIsList'
    BY <1>1 DEF ActiveIsList
  <1>2. CASE AppTaskClient
    <2>1. CASE ConnectNew
      BY <2>1, UnlistedIsList DEF ConnectNew
    <2>2. CASE ConnectSyn
      BY <2>2, InFrontIsList DEF ConnectSyn
    <2>3. CASE Poll \/ Write \/ Output \/ WildOutput \/ EndTurn
      BY <1>1, <2>3 DEF Poll, Write, Output, WildOutput, EndTurn, pcbVars
    <2>4. CASE ConnectBind \/ ConnectArg \/ ConnectErr \/ ConnectRecv
      BY <1>1, <2>4 DEF ConnectBind, ConnectArg, ConnectErr, ConnectRecv
    <2> QED BY <1>2, <2>1, <2>2, <2>3, <2>4 DEF AppTaskClient
  <1>3. ASSUME NEW p \in Pcbs, SynAck(p) \/ Data(p) \/ Fin(p) \/ TelnetAccept(p)
        PROVE  ActiveIsList'
    <2>1. p \in active /\ active' = active /\ newer' = InFront(p)
      BY <1>3 DEF SynAck, Data, Fin, TelnetAccept, Arrives
    <2> QED BY <2>1, InFrontIsList
  <1>4. ASSUME NEW p \in Pcbs, LastAck(p) \/ Reset(p) \/ SlowTmr(p)
        PROVE  ActiveIsList'
    <2>1. active' = active \ {p} /\ newer' = Unlisted(p)
      BY <1>4 DEF LastAck, Reset, SlowTmr, FreePcb
    <2> QED BY <2>1, UnlistedIsList
  <1>5. CASE TelnetSyn
    BY <1>5, InFrontIsList, UnlistedIsList DEF TelnetSyn
  <1>6. CASE TimerOff \/ UNCHANGED vars
    BY <1>1, <1>6 DEF TimerOff, vars, pcbVars
  <1> QED BY <1>2, <1>3, <1>4, <1>5, <1>6 DEF Next, tcp_input

\* Every set of naturals with a member has a least one.
LEMMA Least ==
  ASSUME NEW S \in SUBSET Nat, S # {}
  PROVE  \E x \in S : \A y \in S : x <= y
<1> DEFINE R == {ss \in Nat \X Nat : ss[1] < ss[2]}
<1>1. IsWellFoundedOn(R, Nat)
  BY NatLessThanWellFounded DEF OpToRel
<1>2. PICK x \in S : \A y \in S : ~(<<y, x>> \in R)
  <2> HIDE DEF R
  <2> QED BY <1>1, WFMin
<1>3. \A y \in S : ~(y < x)
  <2> TAKE y \in S
  <2>1. <<y, x>> \in R <=> y < x
    OBVIOUS
  <2> QED BY <2>1, <1>2
<1> QED BY <1>3

\* A list that is not empty has a last block: one with fewest behind it.
LEMMA LastOfList ==
    ASSUME IInv, ActiveIsList, active # {}
    PROVE  \E p \in active : Oldest(p)
  <1> DEFINE Behind(p) == {q \in active : <<p, q>> \in newer}
             Sizes == {Cardinality(Behind(p)) : p \in active}
  <1>1. \A p \in active : IsFiniteSet(Behind(p)) /\ Cardinality(Behind(p)) \in Nat
    <2> TAKE p \in active
    <2>1. Behind(p) \in SUBSET Pcbs
      BY DEF IInv, TypeOK
    <2>2. IsFiniteSet(Behind(p))
      BY <2>1, FS_Subset, TcpClientAssumption
    <2> QED BY <2>2, FS_CardinalityType
  <1>2. PICK p \in active :
          \A q \in active : Cardinality(Behind(p)) <= Cardinality(Behind(q))
    <2>1. Sizes \in SUBSET Nat /\ Sizes # {}
      BY <1>1
    <2>2. PICK n \in Sizes : \A m \in Sizes : n <= m
      <3> HIDE DEF Sizes
      <3> QED BY <2>1, Least
    <2> QED BY <2>2, ZenonT(60)
  <1>3. Behind(p) = {}
    <2> SUFFICES ASSUME NEW q \in Behind(p) PROVE FALSE
      OBVIOUS
    <2>1. Behind(q) \in SUBSET Behind(p) /\ Behind(q) # Behind(p)
      BY DEF ActiveIsList
    <2>2. Cardinality(Behind(q)) <= Cardinality(Behind(p))
      <3> HIDE DEF Behind
      <3> QED BY <1>1, <2>1, FS_Subset
    <2>3. Cardinality(Behind(p)) = Cardinality(Behind(q))
      <3>1. q \in active
        OBVIOUS
      <3> HIDE DEF Behind
      <3> QED BY <1>1, <1>2, <2>2, <3>1
    <2>4. Behind(p) = Behind(q)
      <3> HIDE DEF Behind
      <3> QED BY <1>1, <2>1, <2>3, FS_Subset
    <2> QED BY <2>1, <2>4
  <1> QED BY <1>3 DEF Oldest, ActiveIsList

\* With at least two blocks in all, an empty pool means that there are
\* connections: at most one block is neither free nor active.
LEMMA AlwaysOneToKill ==
    ASSUME IInv, ActiveIsList, pool = {}
    PROVE  \E p \in active : Oldest(p)
  <1>1. active # {}
    BY TcpClientAssumption DEF IInv, PcbsAccounted
  <1> QED BY <1>1, LastOfList

\* tcp_active_pcbs is always a list of the active blocks, so that tcp_alloc
\* finds a free block or a connection to kill whenever it is called, in either
\* thread: tcp_new in tcpclient_connect, which does not check its result, never
\* returns NULL.
THEOREM NewSucceeds == Spec => [](ActiveIsList /\ TcpNewSucceeds)
  <1>1. Init => ActiveIsList
    BY DEF Init, ActiveIsList
  <1>2. IInv /\ ActiveIsList /\ [Next]_vars => ActiveIsList'
    BY ListStep
  <1>3. IInv /\ ActiveIsList => TcpNewSucceeds
    BY AlwaysOneToKill DEF TcpNewSucceeds
  <1> QED BY Inductive, <1>1, <1>2, <1>3, PTL DEF Spec

-----------------------------------------------------------------------------
(***************************************************************************)
(* With prompt peers that close in good order, and room for two buffers,   *)
(* the connections themselves are sound. There is then one block per       *)
(* client at most, and it determines the client's state.                   *)
(***************************************************************************)

\* At most one connection per client, in a state the client's agrees with.
OnePerClient ==
    /\ \A p, q \in active : peer[p] = peer[q] => p = q
    /\ \A p \in active :
         /\ peer[p] \in Clients
         /\ st[p] \in {"SYN_SENT", "ESTABLISHED", "LAST_ACK"}
         /\ st[p] = "ESTABLISHED" => /\ net[peer[p]] = "CONNECTED"
                                     /\ TCP_pcb[peer[p]] = p
         /\ st[p] # "ESTABLISHED" => net[peer[p]] = "CLOSED"

\* tcpclient_connect works for a client without a connection, on a block that
\* nobody else uses, and registers both callbacks.
TaskExclusive ==
    /\ pc \in {"new"} \cup Unregistered => \A p \in active : peer[p] # cur
    /\ pc \in {"err", "recv"} => local \in active /\ peer[local] = cur
    /\ pc \in Unregistered \cup {"err"} => cb[local] = {}
    /\ pc = "recv" => cb[local] = {"err"}
    /\ pc \notin Unregistered \cup {"err", "recv"} => local = NULL
    /\ \A p \in active : p # local => cb[p] = {"err", "recv"}

GracefulInv ==
    /\ IInv
    /\ OnePerClient
    /\ TaskExclusive
    /\ ConnectedIsLive
    /\ NoBadFree
    /\ BuffersOwned
    /\ RefusedDataOwned

Graceful ==
    /\ Env = {}
    /\ \E b, d \in Blocks : b # d

\* The initial state has no connections and no buffers.
LEMMA GracefulInit == Init => GracefulInv
  BY InitIInv, TcpClientAssumption
  DEF GracefulInv, Init, OnePerClient, TaskExclusive, ConnectedIsLive, NoBadFree,
      BuffersOwned, Held, RefusedDataOwned, Unregistered

\* Steps of the task that leave the blocks alone. Poll goes on to connect only
\* when the client has no connection at all: Prompt.
LEMMA GracefulPoll ==
    ASSUME Graceful, GracefulInv,
           Poll \/ Write \/ Output \/ WildOutput \/ EndTurn
    PROVE  /\ OnePerClient' /\ TaskExclusive' /\ ConnectedIsLive'
           /\ NoBadFree' /\ BuffersOwned'
  <1> USE DEF GracefulInv, Graceful, Unregistered
  <1>1. UNCHANGED <<pcbVars, memVars, clientVars, local>>
    BY DEF Poll, Write, Output, WildOutput, EndTurn
  <1>2. pc \notin Unregistered \cup {"err", "recv", "new"}
        /\ pc' \notin Unregistered \cup {"err", "recv"}
    BY DEF Poll, Write, Output, WildOutput, EndTurn
  <1>3. OnePerClient' /\ ConnectedIsLive' /\ NoBadFree'
    BY <1>1 DEF OnePerClient, ConnectedIsLive, NoBadFree, pcbVars, memVars,
       clientVars
  <1>4. BuffersOwned'
    BY <1>1, <1>2 DEF BuffersOwned, Held, pcbVars, memVars
  <1>5. pc' = "new" => \A p \in active' : peer'[p] # cur'
    <2> SUFFICES ASSUME pc' = "new", NEW p \in active
                 PROVE  peer[p] # cur
      BY <1>1 DEF pcbVars, Poll, Write, Output, WildOutput, EndTurn
    <2>1. Poll /\ net[cur] # "CONNECTED"
      BY DEF Poll, Write, Output, WildOutput, EndTurn
    <2>2. st[p] = "ESTABLISHED"
      BY <2>1 DEF Poll, Prompt, OnePerClient
    <2> QED BY <2>1, <2>2 DEF OnePerClient
  <1>6. TaskExclusive'
    BY <1>1, <1>2, <1>5 DEF TaskExclusive, pcbVars
  <1> QED BY <1>3, <1>4, <1>6

\* tcp_new never has to kill a connection.
LEMMA GracefulNew ==
    ASSUME Graceful, GracefulInv, ConnectNew
    PROVE  /\ OnePerClient' /\ TaskExclusive' /\ ConnectedIsLive'
           /\ NoBadFree' /\ BuffersOwned'
  <1> USE DEF GracefulInv, Graceful, Unregistered
  <1>1. pool # {}
    <2> SUFFICES ASSUME pool = {} PROVE FALSE
      OBVIOUS
    <2>1. pc = "new"
      BY DEF ConnectNew
    <2>2. active = Pcbs
      BY <2>1 DEF PcbsAccounted, IInv, TypeOK
    <2>3. PICK p, q \in Pcbs : p # q
      BY TcpClientAssumption
    <2>4. /\ peer[p] \in Clients /\ peer[q] \in Clients
          /\ peer[p] # cur /\ peer[q] # cur /\ peer[p] # peer[q]
      BY <2>1, <2>2, <2>3 DEF OnePerClient, TaskExclusive
    <2>5. cur \in Clients
      BY DEF IInv, TypeOK
    <2> QED BY <2>4, <2>5 DEF Clients
  <1>2. PICK p \in pool :
           /\ pool' = pool \ {p}
           /\ UNCHANGED memVars
           /\ Fresh(p, "CLOSED", cur)
           /\ active' = active \ {p}
           /\ local' = p
    BY <1>1 DEF ConnectNew, Allocated
  <1>3. p \in Pcbs /\ p \notin active /\ active' = active
    BY <1>2 DEF PcbsAccounted, IInv, TypeOK
  <1>4. \A q \in active : /\ st'[q] = st[q] /\ peer'[q] = peer[q]
                          /\ arg'[q] = arg[q] /\ cb'[q] = cb[q]
    BY <1>2, <1>3 DEF Fresh, IInv, TypeOK
  <1>5. pc = "new" /\ pc' = "bind" /\ UNCHANGED <<clientVars, cur, memVars>>
    BY <1>2 DEF ConnectNew
  <1>6. OnePerClient' /\ ConnectedIsLive' /\ NoBadFree'
    BY <1>3, <1>4, <1>5 DEF OnePerClient, ConnectedIsLive, NoBadFree, clientVars,
       memVars
  <1>7. BuffersOwned'
    BY <1>3, <1>4, <1>5 DEF BuffersOwned, Held, memVars
  <1>8. cb'[p] = {}
    BY <1>2, <1>3 DEF Fresh, IInv, TypeOK
  <1>9. \A q \in active : cb[q] = {"err", "recv"}
    BY <1>5, TcpClientAssumption DEF TaskExclusive, IInv, TypeOK
  <1>10. TaskExclusive'
    BY <1>2, <1>3, <1>4, <1>5, <1>8, <1>9 DEF TaskExclusive
  <1> QED BY <1>6, <1>7, <1>10

\* tcp_bind and tcp_arg: the buffer is new, and there is room for it, because
\* only the other client can hold one.
LEMMA GracefulBindArg ==
    ASSUME Graceful, GracefulInv, ConnectBind \/ ConnectArg
    PROVE  /\ OnePerClient' /\ TaskExclusive' /\ ConnectedIsLive'
           /\ NoBadFree' /\ BuffersOwned'
  <1> USE DEF GracefulInv, Graceful, Unregistered
  <1>0. /\ UNCHANGED <<active, st, peer, cb, clientVars, cur, local>>
        /\ pc \in {"bind", "arg"} /\ pc' \in {"arg", "syn"}
    BY DEF ConnectBind, ConnectArg
  <1>1. OnePerClient' /\ ConnectedIsLive'
    BY <1>0 DEF OnePerClient, ConnectedIsLive, clientVars
  <1>2. TaskExclusive'
    BY <1>0 DEF TaskExclusive
  <1>3. CASE ConnectBind
    <2>1. NoBadFree' /\ BuffersOwned'
      BY <1>3 DEF ConnectBind, NoBadFree, BuffersOwned, Held, memVars
    <2> QED BY <1>1, <1>2, <2>1
  <1>4. CASE ConnectArg
    <2> PICK b \in Blocks \cup {NULL} :
           mem_calloc(b) /\ arg' = [arg EXCEPT ![local] = b]
      BY <1>4 DEF ConnectArg
    <2>1. pc = "arg" /\ pc' = "syn" /\ local \in Pcbs \ active
      BY <1>4 DEF ConnectArg, IInv, PcbsAccounted
    <2>2. \A p, q \in Held : p = q
      BY <2>1 DEF Held, OnePerClient, TaskExclusive, IInv, TypeOK, Clients
    <2>3. \A x, y \in heap : x = y
      BY <2>2 DEF BuffersOwned
    <2>4. Blocks \ heap # {}
      BY <2>3
    <2>5. b \in Blocks \ heap /\ heap' = heap \cup {b} /\ badfree' = badfree
      BY <2>4, TcpClientAssumption DEF mem_calloc
    <2>6. Held' = Held \cup {local}
      BY <1>0, <2>1 DEF Held
    <2>7. local \notin Held /\ Held \subseteq Pcbs
      BY <2>1 DEF Held, IInv, TypeOK
    <2>8. arg'[local] = b /\ \A p \in Held : arg'[p] = arg[p]
      BY <2>1, <2>7 DEF IInv, TypeOK
    <2>9. BuffersOwned'
      BY <2>5, <2>6, <2>7, <2>8 DEF BuffersOwned
    <2> QED BY <1>1, <1>2, <2>5, <2>9 DEF NoBadFree
  <1> QED BY <1>3, <1>4

\* tcp_connect: the connection is registered together with its buffer.
LEMMA GracefulSyn ==
    ASSUME Graceful, GracefulInv, ConnectSyn
    PROVE  /\ OnePerClient' /\ TaskExclusive' /\ ConnectedIsLive'
           /\ NoBadFree' /\ BuffersOwned'
  <1> USE DEF GracefulInv, Graceful, Unregistered
  <1>1. /\ pc = "syn" /\ pc' = "err" /\ local \in Pcbs \ active
        /\ peer[local] = cur /\ cur \in Clients
        /\ UNCHANGED <<peer, arg, cb, memVars, clientVars, cur, local>>
        /\ active' = active \cup {local}
    BY DEF ConnectSyn, IInv, PcbsAccounted, TaskHolds, TypeOK
  <1>2. st'[local] = "SYN_SENT" /\ \A p \in active : st'[p] = st[p]
    BY <1>1 DEF ConnectSyn, IInv, TypeOK
  <1>3. ConnectedIsLive' /\ NoBadFree'
    BY <1>1, <1>2 DEF ConnectedIsLive, NoBadFree, memVars, clientVars
  <1>4. net[cur] = "CLOSED"
    BY <1>1 DEF ConnectedIsLive, TaskExclusive, IInv, TypeOK
  <1>5. OnePerClient'
    BY <1>1, <1>2, <1>4 DEF OnePerClient, TaskExclusive, clientVars
  <1>6. Held' = Held
    BY <1>1, <1>2 DEF Held
  <1>7. BuffersOwned'
    BY <1>1, <1>6 DEF BuffersOwned, memVars
  <1>8. TaskExclusive'
    BY <1>1 DEF TaskExclusive
  <1> QED BY <1>3, <1>5, <1>7, <1>8

\* tcp_err and tcp_recv
LEMMA GracefulRegister ==
    ASSUME Graceful, GracefulInv, ConnectErr \/ ConnectRecv
    PROVE  /\ OnePerClient' /\ TaskExclusive' /\ ConnectedIsLive'
           /\ NoBadFree' /\ BuffersOwned'
  <1> USE DEF GracefulInv, Graceful, Unregistered
  <1>1. UNCHANGED <<active, st, peer, arg, memVars, clientVars, cur>>
    BY DEF ConnectErr, ConnectRecv
  <1>2. OnePerClient' /\ ConnectedIsLive' /\ NoBadFree'
    BY <1>1 DEF OnePerClient, ConnectedIsLive, NoBadFree, memVars, clientVars
  <1>3. BuffersOwned'
    BY <1>1 DEF BuffersOwned, Held, memVars, ConnectErr, ConnectRecv
  <1>4. local \in active /\ local \in Pcbs
    BY DEF TaskExclusive, ConnectErr, ConnectRecv, IInv, TypeOK
  <1>5. CASE ConnectErr
    <2>1. cb'[local] = {"err"} /\ \A p \in active : p # local => cb'[p] = cb[p]
      BY <1>4, <1>5 DEF ConnectErr, TaskExclusive, IInv, TypeOK
    <2> QED BY <1>1, <1>2, <1>3, <1>4, <1>5, <2>1 DEF ConnectErr, TaskExclusive
  <1>6. CASE ConnectRecv
    <2>1. /\ cb'[local] = {"err", "recv"}
          /\ \A p \in active : p # local => cb'[p] = cb[p]
      BY <1>4, <1>6 DEF ConnectRecv, TaskExclusive, IInv, TypeOK
    <2> QED BY <1>1, <1>2, <1>3, <1>4, <1>6, <2>1 DEF ConnectRecv, TaskExclusive
  <1> QED BY <1>5, <1>6

\* An arriving segment never meets the connection that is still being set up.
LEMMA GracefulArrives ==
    ASSUME Graceful, GracefulInv, NEW p \in Pcbs, Arrives(p)
    PROVE  /\ p \in active /\ p # local /\ cb[p] = {"err", "recv"}
           /\ peer[p] \in Clients
           /\ pc \in {"new"} \cup Unregistered => peer[p] # cur
  BY DEF Arrives, GracefulInv, Graceful, TaskExclusive, OnePerClient

\* SYN|ACK and data
LEMMA GracefulSynAckData ==
    ASSUME Graceful, GracefulInv, NEW p \in Pcbs, SynAck(p) \/ Data(p)
    PROVE  /\ OnePerClient' /\ TaskExclusive' /\ ConnectedIsLive'
           /\ NoBadFree' /\ BuffersOwned'
  <1> USE DEF GracefulInv, Graceful, Unregistered
  <1>0. Arrives(p)
    BY DEF SynAck, Data
  <1>1. /\ p \in active /\ p # local /\ peer[p] \in Clients
        /\ UNCHANGED <<active, peer, arg, cb, memVars, taskVars>>
    BY <1>0, GracefulArrives DEF SynAck, Data
  <1>2. TaskExclusive'
    BY <1>1 DEF TaskExclusive, taskVars
  <1>3. CASE Data(p)
    BY <1>1, <1>2, <1>3 DEF Data, OnePerClient, ConnectedIsLive, NoBadFree,
       BuffersOwned, Held, taskVars, memVars, clientVars
  <1>4. CASE SynAck(p)
    <2>1. /\ st[p] = "SYN_SENT" /\ st'[p] = "ESTABLISHED"
          /\ \A q \in active : q # p => st'[q] = st[q]
      BY <1>1, <1>4 DEF SynAck, IInv, TypeOK
    <2>2. /\ net'[peer[p]] = "CONNECTED" /\ TCP_pcb'[peer[p]] = p
          /\ \A c \in Clients : c # peer[p] => /\ net'[c] = net[c]
                                               /\ TCP_pcb'[c] = TCP_pcb[c]
      BY <1>1, <1>4 DEF SynAck, IInv, TypeOK
    <2>3. OnePerClient'
      BY <1>1, <2>1, <2>2 DEF OnePerClient
    <2>4. ConnectedIsLive'
      BY <1>1, <2>1, <2>2 DEF ConnectedIsLive
    <2>5. Held' = Held
      BY <1>1, <2>1 DEF Held, taskVars
    <2>6. BuffersOwned' /\ NoBadFree'
      BY <1>1, <2>5 DEF BuffersOwned, NoBadFree, memVars
    <2> QED BY <1>2, <2>3, <2>4, <2>6
  <1> QED BY <1>3, <1>4

\* FIN: the client's state, the buffer and the connection close together.
LEMMA GracefulFin ==
    ASSUME Graceful, GracefulInv, NEW p \in Pcbs, Fin(p)
    PROVE  /\ OnePerClient' /\ TaskExclusive' /\ ConnectedIsLive'
           /\ NoBadFree' /\ BuffersOwned'
  <1> USE DEF GracefulInv, Graceful, Unregistered
  <1>0. Arrives(p)
    BY DEF Fin
  <1>1. /\ p \in active /\ p # local /\ peer[p] \in Clients
        /\ "recv" \in cb[p]
        /\ UNCHANGED <<active, peer, arg, cb, TCP_pcb, taskVars>>
    BY <1>0, GracefulArrives DEF Fin
  <1>2. /\ st[p] = "ESTABLISHED" /\ st'[p] = "LAST_ACK"
        /\ \A q \in active : q # p => st'[q] = st[q]
    BY <1>1 DEF Fin, IInv, TypeOK
  <1>3. /\ net'[peer[p]] = "CLOSED"
        /\ \A c \in Clients : c # peer[p] => net'[c] = net[c]
    BY <1>1 DEF Fin
  <1>4. mem_free(arg[p])
    BY <1>1 DEF Fin
  <1>5. TaskExclusive'
    BY <1>1 DEF TaskExclusive, taskVars
  <1>6. OnePerClient'
    BY <1>1, <1>2, <1>3 DEF OnePerClient
  <1>7. ConnectedIsLive'
    BY <1>1, <1>2, <1>3 DEF ConnectedIsLive, OnePerClient
  <1>8. p \in Held /\ arg[p] \in heap
    BY <1>1, <1>2 DEF Held, BuffersOwned
  <1>9. Held' = Held \ {p}
    BY <1>1, <1>2 DEF Held, taskVars
  <1>10. heap' = heap \ {arg[p]} /\ badfree' = badfree
    BY <1>4, <1>8 DEF mem_free
  <1>11. BuffersOwned' /\ NoBadFree'
    BY <1>1, <1>8, <1>9, <1>10 DEF BuffersOwned, NoBadFree
  <1> QED BY <1>5, <1>6, <1>7, <1>11

\* The last ACK removes a connection that has no buffer any more.
LEMMA GracefulLastAck ==
    ASSUME Graceful, GracefulInv, NEW p \in Pcbs, LastAck(p)
    PROVE  /\ OnePerClient' /\ TaskExclusive' /\ ConnectedIsLive'
           /\ NoBadFree' /\ BuffersOwned'
  <1> USE DEF GracefulInv, Graceful, Unregistered
  <1>0. Arrives(p)
    BY DEF LastAck
  <1>1. /\ p \in active /\ p # local /\ st[p] = "LAST_ACK"
        /\ active' = active \ {p}
        /\ UNCHANGED <<memVars, clientVars, taskVars>>
    BY <1>0, GracefulArrives DEF LastAck, FreePcb
  <1>2. \A q \in Pcbs : q # p => /\ st'[q] = st[q] /\ peer'[q] = peer[q]
                                 /\ arg'[q] = arg[q] /\ cb'[q] = cb[q]
    BY DEF LastAck, FreePcb, IInv, TypeOK
  <1>3. active \subseteq Pcbs /\ (pc \in Unregistered \cup {"err", "recv"} => local \in Pcbs)
    BY DEF IInv, TypeOK, TaskHolds
  <1>4. TaskExclusive'
    BY <1>1, <1>2, <1>3 DEF TaskExclusive, taskVars
  <1>5. OnePerClient'
    BY <1>1, <1>2, <1>3 DEF OnePerClient, clientVars
  <1>6. ConnectedIsLive'
    BY <1>1, <1>2, <1>3 DEF ConnectedIsLive, clientVars
  <1>7. Held' = Held /\ p \notin Held /\ Held \subseteq Pcbs
    BY <1>1, <1>2, <1>3 DEF Held, taskVars
  <1>8. BuffersOwned' /\ NoBadFree'
    BY <1>1, <1>2, <1>7 DEF BuffersOwned, NoBadFree, memVars
  <1> QED BY <1>4, <1>5, <1>6, <1>8

\* The timer, and the steps that need other surroundings.
LEMMA GracefulOther ==
    ASSUME Graceful, GracefulInv,
           \/ TimerOff \/ TelnetSyn \/ UNCHANGED vars
           \/ \E p \in Pcbs : Reset(p) \/ TelnetAccept(p) \/ SlowTmr(p)
    PROVE  /\ OnePerClient' /\ TaskExclusive' /\ ConnectedIsLive'
           /\ NoBadFree' /\ BuffersOwned'
  <1> USE DEF GracefulInv, Graceful, Unregistered
  <1>1. CASE TimerOff \/ UNCHANGED vars
    BY <1>1 DEF TimerOff, vars, pcbVars, memVars, clientVars, taskVars,
       OnePerClient, TaskExclusive, ConnectedIsLive, NoBadFree, BuffersOwned, Held
  <1>2. ~ TelnetSyn /\ \A p \in Pcbs : ~ Reset(p) /\ ~ SlowTmr(p)
    BY DEF TelnetSyn, Reset, SlowTmr
  <1>3. \A p \in Pcbs : ~ TelnetAccept(p)
    BY DEF TelnetAccept, Arrives, OnePerClient
  <1> QED BY <1>1, <1>2, <1>3

\* Data arrive only where there is a buffer, so that none are refused.
LEMMA GracefulKept ==
    ASSUME Graceful, GracefulInv, [Next]_vars
    PROVE  RefusedDataOwned'
  <1> USE DEF GracefulInv, RefusedDataOwned
  <1>1. CASE AppTaskClient
    <2>1. CASE ConnectNew
      BY <2>1 DEF ConnectNew, Fresh
    <2>2. CASE ConnectBind \/ ConnectArg \/ ConnectSyn \/ ConnectErr \/ ConnectRecv
      BY <2>2 DEF ConnectBind, ConnectArg, ConnectSyn, ConnectErr, ConnectRecv
    <2>3. CASE Poll \/ Write \/ Output \/ WildOutput \/ EndTurn
      BY <2>3 DEF Poll, Write, Output, WildOutput, EndTurn, pcbVars
    <2> QED BY <1>1, <2>1, <2>2, <2>3 DEF AppTaskClient
  <1>2. ASSUME NEW p \in Pcbs, Data(p) PROVE RefusedDataOwned'
    <2>1. p \in active /\ st[p] = "ESTABLISHED"
      BY <1>2 DEF Data, Arrives
    <2>2. arg[p] \in heap
      BY <2>1 DEF BuffersOwned, Held
    <2>3. arg[p] # NULL
      BY <2>2, TcpClientAssumption DEF IInv, TypeOK
    <2> QED BY <1>2, <2>3 DEF Data
  <1>3. ASSUME NEW p \in Pcbs,
               \/ SynAck(p) \/ Fin(p) \/ LastAck(p) \/ Reset(p)
               \/ TelnetAccept(p) \/ SlowTmr(p)
        PROVE  RefusedDataOwned'
    BY <1>3 DEF SynAck, Fin, LastAck, Reset, TelnetAccept, SlowTmr, FreePcb
  <1>4. CASE TimerOff \/ TelnetSyn \/ UNCHANGED vars
    BY <1>4 DEF TimerOff, TelnetSyn, Fresh, vars, pcbVars
  <1> QED BY <1>1, <1>2, <1>3, <1>4 DEF Next, tcp_input

\* With prompt peers that close in good order every step keeps GracefulInv.
LEMMA GracefulStep ==
    ASSUME Graceful, GracefulInv, [Next]_vars
    PROVE  GracefulInv'
  <1>1. IInv'
    BY TypeStep, SafeStep DEF GracefulInv, IInv, Safe
  <1>2. /\ OnePerClient' /\ TaskExclusive' /\ ConnectedIsLive'
        /\ NoBadFree' /\ BuffersOwned'
    BY GracefulPoll, GracefulNew, GracefulBindArg, GracefulSyn, GracefulRegister,
       GracefulSynAckData, GracefulFin, GracefulLastAck, GracefulOther
    DEF Next, AppTaskClient, tcp_input
  <1> QED BY <1>1, <1>2, GracefulKept DEF GracefulInv

\* GracefulInv is inductive under prompt and orderly peers.
LEMMA GracefulInductive ==
    ASSUME Graceful
    PROVE  Spec => []GracefulInv
  <1>1. GracefulInv /\ [Next]_vars => GracefulInv'
    BY GracefulStep
  <1> QED BY GracefulInit, <1>1, PTL DEF Spec

\* With prompt peers that close in good order a client is marked connected
\* only while it is, for any pool of two or more blocks: AppTaskClient then
\* writes to an established connection of its own client.
THEOREM ConnectedSound ==
    ASSUME Graceful
    PROVE  Spec => []ConnectedIsLive
  BY GracefulInductive, PTL DEF GracefulInv

\* With prompt peers that close in good order receive buffers are neither
\* shared nor leaked, none is freed twice, and no data are refused.
THEOREM GracefulSound ==
    ASSUME Graceful
    PROVE  Spec => []BuffersSound
  <1>1. GracefulInv => BuffersSound
    BY DEF GracefulInv, BuffersSound
  <1> QED BY GracefulInductive, <1>1, PTL
=============================================================================
