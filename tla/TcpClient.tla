----------------------------- MODULE TcpClient -----------------------------
(***************************************************************************)
(* The Modbus-TCP clients of the board (IAR/First_UCOS/APP/TcpClient.c) on *)
(* the raw API of lwIP, together with the telnet server (telnet.c) that    *)
(* shares the pool of connection blocks with them.                         *)
(*                                                                         *)
(* Two threads work on the same connection blocks without a lock:          *)
(*  - AppTaskClient (priority 15) opens the connections, polls their state *)
(*    and writes requests; each of its calls into lwIP is one action;      *)
(*  - tcpip_thread (priority 10) preempts it between any two calls and     *)
(*    runs an arriving segment, or a timer, to its end, callbacks included.*)
(*                                                                         *)
(* A connection block (pcb) keeps its TCP state, its peer, its callback    *)
(* argument, the callbacks registered on it and whether its local port is  *)
(* the configured one. Segments, sequence numbers and payload are left     *)
(* out: an arriving segment is the event that lwIP makes of it.            *)
(*                                                                         *)
(* tcp_active_pcbs is only ever changed by putting a block in front or by  *)
(* taking one out, so its order is the relation `newer'.                   *)
(***************************************************************************)
EXTENDS Integers, FiniteSets

CONSTANTS
    Pcbs,      \* the pool of connection blocks: MEMP_NUM_TCP_PCB is 10
    Blocks,    \* the heap blocks there is room for (8 KB heap)
    NULL,
    Env        \* which hard behaviours of the surroundings happen:
               \*  "reset"    a peer resets a connection
               \*  "silence"  a peer leaves a SYN, a FIN or data unanswered
               \*             until the task polls again or a timer gives up
               \*  "early"    a segment arrives between tcp_connect and the
               \*             registration of the callbacks
               \*  "noseg"    no segment is free for the FIN of tcp_close
               \*  "telnet"   telnet connections come in

Clients == {1, 2}
TELNET == 0
Peers == Clients \cup {TELNET}

ASSUME TcpClientAssumption ==
    /\ IsFiniteSet(Pcbs)
    /\ \E p, q \in Pcbs : p # q
    /\ NULL \notin Pcbs
    /\ NULL \notin Blocks
    /\ Env \subseteq {"reset", "silence", "early", "noseg", "telnet"}

VARIABLES
    pool,      \* free list of MEMP_TCP_PCB
    active,    \* the pcbs of tcp_active_pcbs
    newer,     \* <<p, q>>: p is nearer to the head of tcp_active_pcbs than q
    st,        \* pcb->state; the field of a free block keeps its last value
    peer,      \* pcb->remote_ip
    arg,       \* pcb->callback_arg
    cb,        \* which of tcp_err and tcp_recv have been called on the pcb
    port,      \* pcb->local_port
    kept,      \* pcbs whose refused_data is a pbuf the callback has freed
    heap,      \* heap blocks in use
    badfree,   \* "yes": mem_free was called on a block that was not in use
    net,       \* TcpClient_n.state
    TCP_pcb,   \* TcpClient_n.TCP_pcb
    timer,     \* the timeout of tcpip_tcp_timer: "off" when
               \* tcpip_tcp_timer_active is 0, else on the list of
               \* "tcpip_thread" or on null_timeouts, which nobody serves
    pc,        \* AppTaskClient: the call it makes next
    cur,       \* the client it works for
    local      \* tcpclient_connect's pcb

pcbVars == <<pool, active, newer, st, peer, arg, cb, port, kept>>
memVars == <<heap, badfree>>
clientVars == <<net, TCP_pcb>>
taskVars == <<pc, cur, local>>
vars == <<pool, active, newer, st, peer, arg, cb, port, kept, heap, badfree,
          net, TCP_pcb, timer, pc, cur, local>>

\* The states a connection of this program can be in: both applications close
\* only behind a FIN of the peer, so no block ever reaches FIN_WAIT_1,
\* FIN_WAIT_2, CLOSING or TIME_WAIT, and tcp_kill_timewait finds nothing.
States == {"CLOSED", "SYN_SENT", "SYN_RCVD", "ESTABLISHED", "CLOSE_WAIT",
           "LAST_ACK"}

Init ==
    /\ pool = Pcbs
    /\ active = {}
    /\ newer = {}
    /\ st = [p \in Pcbs |-> "CLOSED"]
    /\ peer = [p \in Pcbs |-> TELNET]
    /\ arg = [p \in Pcbs |-> NULL]
    /\ cb = [p \in Pcbs |-> {}]
    /\ port = [p \in Pcbs |-> "none"]
    /\ kept = {}
    /\ heap = {}
    /\ badfree = "no"
    /\ net = [c \in Clients |-> "CLOSED"]
    /\ TCP_pcb = [c \in Clients |-> NULL]
    /\ timer = "off"
    /\ pc = "dly"
    /\ cur = 1
    /\ local = NULL

-----------------------------------------------------------------------------
(* The list of active connections, the heap and the pool                   *)

\* TCP_RMV
Unlisted(p) == {e \in newer : e[1] # p /\ e[2] # p}

\* TCP_REG, and what tcp_input does to the pcb a segment is for.
InFront(p) == Unlisted(p) \cup ({p} \X (active \ {p}))

\* Mutant: `>' leaves tcp_kill_prio without a candidate when nothing has
\* aged, and nothing ages while the TCP timer does not run.
OldestStrict(p) ==
    /\ timer = "tcpip_thread"
    /\ p \in active
    /\ \A q \in active \ {p} : <<q, p>> \in newer

\* The pcb tcp_kill_prio settles on. All connections have TCP_PRIO_NORMAL,
\* pcb->tmr is set when a segment or tcp_alloc puts the pcb in front, and
\* among equals `>=' takes the later one in the list: it is the last.
Oldest(p) == p \in active /\ \A q \in active \ {p} : <<q, p>> \in newer

\* mem_free: the assertion `mem->used' only prints.
mem_free(b) ==
    /\ heap' = heap \ {b}
    /\ badfree' = IF b # NULL /\ b \notin heap THEN "yes" ELSE badfree

\* mem_calloc: b is a free block, or NULL when there is none.
mem_calloc(b) ==
    /\ IF Blocks \ heap = {} THEN b = NULL ELSE b \in Blocks \ heap
    /\ heap' = heap \cup ({b} \ {NULL})
    /\ UNCHANGED badfree

\* TCP_EVENT_ERR: tcp_conn_err or Telnet_conn_err, when registered, free the
\* callback argument. Neither touches TcpClient_n.
TCP_EVENT_ERR(p) ==
    IF "err" \in cb[p] THEN mem_free(arg[p]) ELSE UNCHANGED memVars

\* memp_free of a pcb that has left the list; s is the state it is left in.
\* Of a free block only the state is ever read again.
FreePcb(p, s) ==
    /\ active' = active \ {p}
    /\ newer' = Unlisted(p)
    /\ pool' = pool \cup {p}
    /\ st' = [st EXCEPT ![p] = s]
    /\ arg' = [arg EXCEPT ![p] = NULL]
    /\ cb' = [cb EXCEPT ![p] = {}]
    /\ port' = [port EXCEPT ![p] = "none"]
    /\ peer' = [peer EXCEPT ![p] = TELNET]
    /\ kept' = kept \ {p}

\* tcp_alloc: the block p is taken from the pool or, when the pool is empty,
\* from the oldest active connection, which tcp_abort has ended and whose
\* error callback has run.
Allocated(p) ==
    \/ /\ p \in pool
       /\ pool' = pool \ {p}
       /\ UNCHANGED memVars
    \/ /\ pool = {}
       /\ Oldest(p)
       /\ pool' = pool
       /\ TCP_EVENT_ERR(p)

\* The fields of a new pcb: memset, then what its creator sets.
Fresh(p, s, r) ==
    /\ st' = [st EXCEPT ![p] = s]
    /\ peer' = [peer EXCEPT ![p] = r]
    /\ arg' = [arg EXCEPT ![p] = NULL]
    /\ cb' = [cb EXCEPT ![p] = {}]
    /\ port' = [port EXCEPT ![p] = "none"]
    /\ kept' = kept \ {p}

-----------------------------------------------------------------------------
(* AppTaskClient. Its first two connections, behind delays of 15 s and 5 s,*)
(* are two turns of its loop: both clients start in NET_CLOSED.            *)

Other(c) == 3 - c

\* With prompt peers the delay of 100 ms is longer than a handshake.
Prompt ==
    \/ "silence" \in Env
    \/ \A p \in active : st[p] \notin {"SYN_SENT", "LAST_ACK"}

\* OSTimeDlyHMSM is over; the state is read, tcp_write or tcpclient_connect
\* is called with what has been read.
Poll ==
    /\ pc = "dly"
    /\ Prompt
    /\ pc' = IF net[cur] = "CONNECTED" THEN "write" ELSE "new"
    /\ UNCHANGED <<pcbVars, memVars, clientVars, timer, cur, local>>

\* tcp_write: refused in a state without transmission. A request is queued on
\* a block that is back in the pool when its state field still allows it.
Write ==
    /\ pc = "write"
    /\ LET p == TCP_pcb[cur]
       IN pc' = IF st[p] \notin {"ESTABLISHED", "CLOSE_WAIT", "SYN_SENT",
                                 "SYN_RCVD"}
                THEN "end"
                ELSE IF p \in pool THEN "wild" ELSE "output"
    /\ UNCHANGED <<pcbVars, memVars, clientVars, timer, cur, local>>

\* tcp_output on a block in use: the request leaves, or, when the connection
\* has gone since tcp_write, there is nothing left to send.
Output ==
    /\ pc = "output"
    /\ pc' = "end"
    /\ UNCHANGED <<pcbVars, memVars, clientVars, timer, cur, local>>

\* tcp_output of a request queued on a free block. The link of the free list
\* and the pcb's local address share a word, which tcp_output may overwrite:
\* the run ends there, or goes on.
WildOutput ==
    /\ pc = "wild"
    /\ pc' \in {"fault", "end"}
    /\ pc' = "fault" => TCP_pcb[cur] \in pool
    /\ UNCHANGED <<pcbVars, memVars, clientVars, timer, cur, local>>

\* memset(MD_request), then the delay before the other client's turn.
EndTurn ==
    /\ pc = "end"
    /\ pc' = "dly"
    /\ cur' = Other(cur)
    /\ UNCHANGED <<pcbVars, memVars, clientVars, timer, local>>

\* tcpclient_connect: tcp_new. Its result is not checked: if tcp_alloc found
\* nothing to kill, tcp_bind would run into a fault and the task would never
\* take another step (TcpNewSucceeds).
ConnectNew ==
    /\ pc = "new"
    /\ \E p \in Pcbs :
         /\ Allocated(p)
         /\ Fresh(p, "CLOSED", cur)
         /\ active' = active \ {p}
         /\ newer' = Unlisted(p)
         /\ local' = p
    /\ pc' = "bind"
    /\ UNCHANGED <<clientVars, timer, cur>>

\* Mutant: only the listening and the bound pcbs are searched.
ConnectBindBlind ==
    /\ pc = "bind"
    /\ port' = [port EXCEPT ![local] = "own"]
    /\ pc' = "arg"
    /\ UNCHANGED <<pool, active, newer, st, peer, arg, cb, kept, memVars,
                   clientVars, timer, cur, local>>

\* ... tcp_bind to the configured port; ERR_USE is ignored. The two clients
\* have different ports, telnet listens on a third.
ConnectBind ==
    /\ pc = "bind"
    /\ port' = IF \E q \in active : peer[q] = cur /\ port[q] = "own"
               THEN port ELSE [port EXCEPT ![local] = "own"]
    /\ pc' = "arg"
    /\ UNCHANGED <<pool, active, newer, st, peer, arg, cb, kept, memVars,
                   clientVars, timer, cur, local>>

\* ... mem_calloc, tcp_arg
ConnectArg ==
    /\ pc = "arg"
    /\ \E b \in Blocks \cup {NULL} :
         /\ mem_calloc(b)
         /\ arg' = [arg EXCEPT ![local] = b]
    /\ pc' = "syn"
    /\ UNCHANGED <<pool, active, newer, st, peer, cb, port, kept, clientVars,
                   timer, cur, local>>

\* ... tcp_connect: a port from tcp_new_port if tcp_bind gave none, TCP_REG.
\* tcp_timer_needed runs in this task, so that sys_arch_timeouts hands it
\* null_timeouts. A SYN for which there is no segment is one that is never
\* answered.
ConnectSyn ==
    /\ pc = "syn"
    /\ st' = [st EXCEPT ![local] = "SYN_SENT"]
    /\ port' = [port EXCEPT ![local] = IF @ = "none" THEN "new" ELSE @]
    /\ active' = active \cup {local}
    /\ newer' = InFront(local)
    /\ timer' = IF timer = "off" THEN "null_timeouts" ELSE timer
    /\ pc' = "err"
    /\ UNCHANGED <<pool, peer, arg, cb, kept, memVars, clientVars, cur, local>>

\* ... tcp_err, on whatever the block is used for by now
ConnectErr ==
    /\ pc = "err"
    /\ cb' = [cb EXCEPT ![local] = @ \cup {"err"}]
    /\ pc' = "recv"
    /\ UNCHANGED <<pool, active, newer, st, peer, arg, port, kept, memVars,
                   clientVars, timer, cur, local>>

\* ... tcp_recv, and back in the loop
ConnectRecv ==
    /\ pc = "recv"
    /\ cb' = [cb EXCEPT ![local] = @ \cup {"recv"}]
    /\ local' = NULL
    /\ pc' = "end"
    /\ UNCHANGED <<pool, active, newer, st, peer, arg, port, kept, memVars,
                   clientVars, timer, cur>>

AppTaskClient ==
    \/ Poll \/ Write \/ Output \/ WildOutput \/ EndTurn
    \/ ConnectNew \/ ConnectBind \/ ConnectArg \/ ConnectSyn
    \/ ConnectErr \/ ConnectRecv

-----------------------------------------------------------------------------
(* tcpip_thread: tcp_input with the callbacks, and the TCP timer           *)

\* A segment for an active connection can be taken now.
Arrives(p) ==
    /\ pc # "fault"
    /\ p \in active
    /\ "early" \in Env \/ p # local

\* SYN_SENT, SYN|ACK: tcp_connect_callback finds the client by the address.
SynAck(p) ==
    /\ Arrives(p)
    /\ st[p] = "SYN_SENT"
    /\ st' = [st EXCEPT ![p] = "ESTABLISHED"]
    /\ newer' = InFront(p)
    /\ net' = [net EXCEPT ![peer[p]] = "CONNECTED"]
    /\ TCP_pcb' = [TCP_pcb EXCEPT ![peer[p]] = p]
    /\ UNCHANGED <<pool, active, peer, arg, cb, port, kept, memVars, timer,
                   taskVars>>

\* ESTABLISHED, data: tcp_recv_callback or Telnet_recv take it, and free the
\* pbuf; without a buffer they free it as well but return ERR_ARG, and
\* tcp_input keeps the pbuf as refused_data. From then on every segment of
\* the connection is dropped.
Data(p) ==
    /\ Arrives(p)
    /\ st[p] = "ESTABLISHED"
    /\ newer' = InFront(p)
    /\ kept' = IF "recv" \in cb[p] /\ arg[p] = NULL THEN kept \cup {p} ELSE kept
    /\ UNCHANGED <<pool, active, st, peer, arg, cb, port, memVars, clientVars,
                   timer, taskVars>>

\* Mutant: the close branch of tcp_recv_callback without the change of the
\* state.
FinKeepsState(p) ==
    /\ Arrives(p) /\ p \notin kept
    /\ st[p] = "ESTABLISHED"
    /\ newer' = InFront(p)
    /\ IF "recv" \in cb[p] THEN mem_free(arg[p]) ELSE UNCHANGED memVars
    /\ st' = [st EXCEPT ![p] = "LAST_ACK"]
    /\ UNCHANGED <<pool, active, peer, arg, cb, port, kept, clientVars, timer,
                   taskVars>>

\* ESTABLISHED, FIN: CLOSE_WAIT, the callback with a NULL pbuf. The clients'
\* marks the client of this address closed, both free the argument, whose
\* pointer stays in the pcb, and call tcp_close; tcp_recv_null only calls
\* tcp_close. tcp_close leaves CLOSE_WAIT when it finds no segment.
Fin(p) ==
    /\ Arrives(p)
    /\ p \notin kept
    /\ st[p] = "ESTABLISHED"
    /\ newer' = InFront(p)
    /\ IF "recv" \in cb[p]
       THEN /\ net' = [c \in Clients |->
                         IF c = peer[p] THEN "CLOSED" ELSE net[c]]
            /\ mem_free(arg[p])
       ELSE UNCHANGED <<net, memVars>>
    /\ \/ st' = [st EXCEPT ![p] = "LAST_ACK"]
       \/ /\ "noseg" \in Env
          /\ st' = [st EXCEPT ![p] = "CLOSE_WAIT"]
    /\ UNCHANGED <<pool, active, peer, arg, cb, port, kept, TCP_pcb, timer,
                   taskVars>>

\* Mutants: the block is not given back; the error callback is called.
LastAckLeaks(p) ==
    /\ Arrives(p) /\ st[p] = "LAST_ACK"
    /\ active' = active \ {p}
    /\ newer' = Unlisted(p)
    /\ UNCHANGED <<pool, st, peer, arg, cb, port, kept, memVars, clientVars,
                   timer, taskVars>>

LastAckReports(p) ==
    /\ Arrives(p) /\ st[p] = "LAST_ACK"
    /\ TCP_EVENT_ERR(p)
    /\ FreePcb(p, "CLOSED")
    /\ UNCHANGED <<clientVars, timer, taskVars>>

\* LAST_ACK, the ACK of the FIN: TF_CLOSED, no error callback
LastAck(p) ==
    /\ Arrives(p)
    /\ st[p] = "LAST_ACK"
    /\ FreePcb(p, "CLOSED")
    /\ UNCHANGED <<memVars, clientVars, timer, taskVars>>

\* RST: TF_RESET, the error callback, tcp_pcb_remove
Reset(p) ==
    /\ Arrives(p)
    /\ "reset" \in Env
    /\ p \notin kept
    /\ TCP_EVENT_ERR(p)
    /\ FreePcb(p, "CLOSED")
    /\ UNCHANGED <<clientVars, timer, taskVars>>

\* tcp_slowtmr gives up a connection: retries used up, or too long in
\* SYN_RCVD or LAST_ACK. The state field keeps its value.
SlowTmr(p) ==
    /\ pc # "fault"
    /\ p \in active
    /\ timer = "tcpip_thread"
    /\ "silence" \in Env
    /\ TCP_EVENT_ERR(p)
    /\ FreePcb(p, st[p])
    /\ UNCHANGED <<clientVars, timer, taskVars>>

\* tcpip_tcp_timer without connections: not rescheduled
TimerOff ==
    /\ pc # "fault"
    /\ timer = "tcpip_thread"
    /\ active = {}
    /\ timer' = "off"
    /\ UNCHANGED <<pcbVars, memVars, clientVars, taskVars>>

\* Telnet port, SYN: tcp_listen_input. tcp_timer_needed runs in tcpip_thread.
\* Without a segment for the answer the new pcb is abandoned at once.
TelnetSyn ==
    /\ pc # "fault"
    /\ "telnet" \in Env
    /\ \E p \in Pcbs :
         /\ \/ p \in pool /\ UNCHANGED memVars
            \/ pool = {} /\ Oldest(p) /\ TCP_EVENT_ERR(p)
         /\ \/ /\ Fresh(p, "SYN_RCVD", TELNET)
               /\ pool' = pool \ {p}
               /\ active' = active \cup {p}
               /\ newer' = InFront(p)
            \/ /\ "noseg" \in Env
               /\ Fresh(p, "CLOSED", TELNET)
               /\ pool' = pool \cup {p}
               /\ active' = active \ {p}
               /\ newer' = Unlisted(p)
    /\ timer' = IF timer = "off" THEN "tcpip_thread" ELSE timer
    /\ UNCHANGED <<clientVars, taskVars>>

\* SYN_RCVD, ACK: Telnet_accept
TelnetAccept(p) ==
    /\ Arrives(p)
    /\ st[p] = "SYN_RCVD"
    /\ st' = [st EXCEPT ![p] = "ESTABLISHED"]
    /\ newer' = InFront(p)
    /\ \E b \in Blocks \cup {NULL} :
         /\ mem_calloc(b)
         /\ arg' = [arg EXCEPT ![p] = b]
    /\ cb' = [cb EXCEPT ![p] = {"err", "recv"}]
    /\ UNCHANGED <<pool, active, peer, port, kept, clientVars, timer, taskVars>>

tcp_input(p) ==
    SynAck(p) \/ Data(p) \/ Fin(p) \/ LastAck(p) \/ Reset(p) \/ TelnetAccept(p)

Next ==
    \/ AppTaskClient
    \/ \E p \in Pcbs : tcp_input(p) \/ SlowTmr(p)
    \/ TimerOff
    \/ TelnetSyn

Spec == Init /\ [][Next]_vars

\* The kernel keeps running the task, and peers that are not silent answer a
\* SYN and acknowledge a FIN. Nothing makes a peer send data or close.
Fairness ==
    /\ WF_vars(AppTaskClient)
    /\ \A p \in Pcbs : WF_vars(SynAck(p)) /\ WF_vars(LastAck(p))

FairSpec == Spec /\ Fairness

-----------------------------------------------------------------------------
(* Properties                                                              *)

\* Every variable keeps its type. No block of the heap is handed out that the
\* heap does not have (TcpClient.c:131-133).
TypeOK ==
    /\ pool \in SUBSET Pcbs
    /\ active \in SUBSET Pcbs
    /\ newer \in SUBSET (Pcbs \X Pcbs)
    /\ st \in [Pcbs -> States]
    /\ peer \in [Pcbs -> Peers]
    /\ arg \in [Pcbs -> Blocks \cup {NULL}]
    /\ cb \in [Pcbs -> SUBSET {"err", "recv"}]
    /\ port \in [Pcbs -> {"none", "own", "new"}]
    /\ kept \in SUBSET Pcbs
    /\ heap \in SUBSET Blocks
    /\ badfree \in {"no", "yes"}
    /\ net \in [Clients -> {"CLOSED", "CONNECTED"}]
    /\ TCP_pcb \in [Clients -> Pcbs \cup {NULL}]
    /\ timer \in {"off", "tcpip_thread", "null_timeouts"}
    /\ pc \in {"dly", "new", "bind", "arg", "syn", "err", "recv", "write",
               "output", "wild", "end", "fault"}
    /\ cur \in Clients
    /\ local \in Pcbs \cup {NULL}

Unregistered == {"bind", "arg", "syn"}

\* Whatever peers do and whenever tcpip_thread preempts the task, no
\* connection block is lost or in two places: it is free, on the list of
\* active connections in a state other than CLOSED, or the one block
\* tcpclient_connect has not yet handed to tcp_connect (the rules of
\* tcp.h:625-628 and the assertions of tcp_slowtmr and tcp_input).
PcbsAccounted ==
    /\ pool \cap active = {}
    /\ \A p \in Pcbs \ (pool \cup active) :
         p = local /\ pc \in Unregistered
    /\ pc \in Unregistered => local \in Pcbs \ (pool \cup active)
    /\ \A p \in active : st[p] # "CLOSED"

\* tcp_input finds a connection by its addresses and ports: although a
\* connection to a client may be opened while older ones to it still linger,
\* the configured local port is used by one of them at most.
PortsDistinct ==
    \A p, q \in active :
        /\ p # q /\ peer[p] = peer[q]
        /\ port[p] = "own"
        => port[q] # "own"

\* tcpclient_connect does not check the result of tcp_new: with the pool
\* exhausted tcp_alloc must always find a connection it can kill.
TcpNewSucceeds ==
    pc = "new" => pool # {} \/ \E p \in active : Oldest(p)

\* What the other invariants rest on: tcpclient_connect holds a block while it
\* works, and the configured port it has bound is not in use.
TaskHolds ==
    /\ pc \in Unregistered \cup {"err", "recv"} => local \in Pcbs
    /\ pc \in Unregistered => peer[local] = cur
    /\ pc = "bind" => port[local] = "none"
    /\ pc \in {"arg", "syn"} /\ port[local] = "own" =>
         \A q \in active : peer[q] = cur => port[q] # "own"

\* The TCP timer is off only while there is nothing for it to do, so that
\* the next TCP_REG starts it again (tcpip.c:83-90, 102-107).
TimerOffOnlyIdle == timer = "off" => active = {}

\* The connection blocks and the timer that looks after them are accounted
\* for, whatever peers, the pool, the heap and the scheduler do.
PoolInv == TypeOK /\ PcbsAccounted /\ TimerOffOnlyIdle

\* A client that is marked connected has an established connection to its
\* own peer; AppTaskClient writes to it on that ground (TcpClient.c:442-445).
ConnectedIsLive ==
    \A c \in Clients :
        net[c] = "CONNECTED" =>
            /\ TCP_pcb[c] \in active
            /\ st[TCP_pcb[c]] = "ESTABLISHED"
            /\ peer[TCP_pcb[c]] = c

\* mem_free is only called on blocks in use (the assertion of mem.c:325).
NoBadFree == badfree = "no"

\* The connections that can still receive data, and the one about to be made.
Held ==
    {p \in active : st[p] \in {"SYN_SENT", "ESTABLISHED"}}
        \cup (IF pc = "syn" THEN {local} ELSE {})

\* Every connection that can still receive data owns a receive buffer that no
\* other connection has, and no buffer outlives its connection: tcp_conn_err
\* and the close branch of tcp_recv_callback free it exactly once between them.
BuffersOwned ==
    /\ \A p \in Held : arg[p] \in heap
    /\ \A b \in heap : \E p \in Held : arg[p] = b
    /\ \A p, q \in Held : p # q => arg[p] # arg[q]

\* No pbuf that tcp_recv_callback has freed is kept by lwIP as refused data:
\* without a receive buffer the callback frees the pbuf and returns an error
\* (TcpClient.c:268), so there has to be a buffer whenever data arrive.
RefusedDataOwned == kept = {}

\* With prompt and orderly peers each receive buffer has one owner and is
\* freed once, by tcp_conn_err or by the close branch of tcp_recv_callback.
BuffersSound == BuffersOwned /\ NoBadFree /\ RefusedDataOwned

\* Each client has an established connection again and again, however often
\* its peer closes it.
AlwaysReconnects ==
    \A c \in Clients :
        []<>(\E p \in active : peer[p] = c /\ st[p] = "ESTABLISHED")

=============================================================================
