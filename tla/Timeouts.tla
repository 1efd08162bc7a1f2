------------------------------ MODULE Timeouts ------------------------------
(***************************************************************************)
(* The timeouts of tcpip_thread: the delta list of lwIP/src/core/sys.c,    *)
(* and the wait of sys_mbox_fetch for a message or the next timeout, with  *)
(* the time that sys_arch_mbox_fetch (lwIP/port/sys_arch.c) measures.      *)
(*                                                                         *)
(* A millisecond is a tick of uC/OS-II (OS_TICKS_PER_SEC is 1000). Ticks   *)
(* come in every phase of the thread; only those while it is blocked in    *)
(* OSQPend count towards a timeout.                                        *)
(***************************************************************************)
EXTENDS Integers, Sequences, SequencesExt, FiniteSets

CONSTANTS
    Startup,   \* ip_reass_timer, arp_timer, dns_timer: the order they are set in
    Interval,  \* the milliseconds each handler is set for
    Pool,      \* MEMP_NUM_SYS_TIMEOUT
    Word,      \* 2^32: the values of an u32_t
    MaxMbox,   \* bound: messages in the mailbox
    MaxSlip    \* bound: ticks of a phase in which the thread is not blocked

TCP == "tcp"   \* tcpip_tcp_timer
APP == "app"   \* a handler that is set by tcpip_timeout
Periodic == ToSet(Startup)
Handlers == Periodic \cup {TCP, APP}

\* Every handler is set once at start-up, and the thread is never kept from
\* the processor for so long that the milliseconds overflow.
ASSUME TimeoutsAssumption ==
    /\ Startup \in Seq(Periodic) /\ Startup # <<>> /\ IsInjective(Startup)
    /\ {TCP, APP} \cap Periodic = {}
    /\ Interval \in [Handlers -> Nat \ {0}]
    /\ Pool \in Nat /\ Pool >= Cardinality(Handlers)
    /\ {MaxMbox, MaxSlip} \subseteq Nat
    /\ Word \in Nat /\ \A h \in Handlers : 1000 * (Interval[h] + 2 * MaxSlip) < Word

VARIABLES
    list,      \* lwip_timeouts[0].next: the entries [h, time], time as a delta
    free,      \* free entries of MEMP_SYS_TIMEOUT
    tcpOn,     \* "on": tcpip_tcp_timer_active
    mbox,      \* messages in the mailbox
    phase,     \* where the thread is in sys_mbox_fetch
    waited,    \* ticks between the two OSTimeGet
    dly,       \* OSTCBDly, while the thread is blocked
    slip,      \* ticks of this phase, while it is not
    left       \* what is left of each timer, counting blocked ticks only

vars == <<list, free, tcpOn, mbox, phase, waited, dly, slip, left>>
lists == <<list, free, left>>

MaxTime == CHOOSE n \in {Interval[h] : h \in Handlers} :
               \A h \in Handlers : Interval[h] <= n

Pending == {list[i].h : i \in DOMAIN list}

\* The time of the i-th entry counted from the head of l.
Expiry(l, i) ==
    LET sum[k \in 0..Len(l)] == IF k = 0 THEN 0 ELSE sum[k - 1] + l[k].time
    IN  sum[i]

-----------------------------------------------------------------------------
(* sys.c                                                                   *)

\* struct sys_timeo
Entry(h, time) == [h |-> h, time |-> time]

\* Mutant: the entry behind the new one keeps its own delta.
InsertedKeepsNext(l, h) ==
    LET k == Cardinality({i \in DOMAIN l : Expiry(l, i) <= Interval[h]})
        d == Interval[h] - Expiry(l, k)
    IN  SubSeq(l, 1, k) \o <<Entry(h, d)>> \o SubSeq(l, k + 1, Len(l))

\* sys_timeout: h goes behind all entries that expire no later, and what it
\* has to wait after them is taken off the entry behind it.
Inserted(l, h) ==
    LET k == Cardinality({i \in DOMAIN l : Expiry(l, i) <= Interval[h]})
        d == Interval[h] - Expiry(l, k)
        rest == SubSeq(l, k + 1, Len(l))
    IN  SubSeq(l, 1, k) \o <<Entry(h, d)>> \o
            (IF rest = <<>> THEN rest
             ELSE [rest EXCEPT ![1] = Entry(@.h, @.time - d)])

\* sys_timeout on the list l with n free entries: without one it is not set.
sys_timeout(h, l, n) ==
    IF n = 0
    THEN /\ list' = l /\ free' = n
         /\ UNCHANGED left
    ELSE /\ list' = Inserted(l, h) /\ free' = n - 1
         /\ left' = [left EXCEPT ![h] = Interval[h]]

\* The list without its i-th entry: what that had to wait is put on the one
\* behind it.
Removed(l, i) ==
    RemoveAt(IF i = Len(l) THEN l
             ELSE [l EXCEPT ![i + 1] = Entry(@.h, @.time + l[i].time)], i)

\* sys_untimeout
sys_untimeout(h) ==
    \/ /\ h \notin Pending
       /\ UNCHANGED lists
    \/ \E i \in DOMAIN list :
         /\ list[i].h = h
         /\ list' = Removed(list, i)
         /\ free' = free + 1
         /\ UNCHANGED left

\* Mutants: what sys_arch_mbox_fetch returns is the ticks that have passed;
\* time_needed is not subtracted.
ElapsedExact(w, wrapped) == w

HeadAfterUnchanged(t, needed) == t

\* sys_arch_mbox_fetch: the milliseconds that it says it has waited, w ticks
\* after the first OSTimeGet. OSTime may have wrapped to 0 between the two.
Elapsed(w, wrapped) ==
    LET new == CASE w = 0 -> Word - 1
                 [] w > 0 /\ wrapped -> w - 1
                 [] OTHER -> w
    IN  ((new * 1000) % Word) \div 1000 + 1

\* sys_mbox_fetch: what is left of the head's time after needed milliseconds.
HeadAfter(t, needed) == IF needed < t THEN t - needed ELSE 0

-----------------------------------------------------------------------------
(* tcpip_thread                                                            *)

\* The list after the first k timers have been set at start-up
Started[k \in 0..Len(Startup)] ==
    IF k = 0 THEN <<>> ELSE Inserted(Started[k - 1], Startup[k])

Init ==
    /\ list = Started[Len(Startup)]
    /\ free = Pool - Cardinality(Periodic)
    /\ tcpOn = "off"
    /\ mbox = 0
    /\ phase = "again"
    /\ waited = 0
    /\ dly = 0
    /\ slip = 0
    /\ left = Interval

Goto(p) == phase' = p /\ slip' = 0

\* sys_mbox_fetch: the head has no time left, or OSTimeGet is called.
Again ==
    /\ phase = "again"
    /\ IF Head(list).time > 0 THEN Goto("pend") ELSE Goto("fire")
    /\ waited' = 0
    /\ UNCHANGED <<lists, tcpOn, mbox, dly>>

\* OSQPend, with the time of the head as its timeout
OSQPend ==
    /\ phase = "pend"
    /\ \/ /\ mbox > 0
          /\ mbox' = mbox - 1
          /\ Goto("got")
          /\ UNCHANGED dly
       \/ /\ mbox = 0
          /\ dly' = Head(list).time
          /\ Goto("blocked")
          /\ UNCHANGED mbox
    /\ UNCHANGED <<lists, tcpOn, waited>>

\* Another thread posts a message: to the thread that waits, or to the queue.
OSQPost ==
    /\ \/ /\ phase = "blocked"
          /\ Goto("got")
          /\ dly' = 0
          /\ UNCHANGED mbox
       \/ /\ phase # "blocked"
          /\ mbox < MaxMbox
          /\ mbox' = mbox + 1
          /\ UNCHANGED <<phase, slip, dly>>
    /\ UNCHANGED <<lists, tcpOn, waited>>

\* OSTimeTick. A tick at which OSTCBDly becomes 0 ends OSQPend by timeout.
Tick ==
    /\ \/ /\ phase = "blocked"
          /\ dly' = dly - 1
          /\ IF dly = 1 THEN Goto("fire") ELSE UNCHANGED <<phase, slip>>
          /\ left' = [h \in Handlers |-> IF h \in Pending THEN left[h] - 1 ELSE left[h]]
       \/ /\ phase # "blocked"
          /\ slip < MaxSlip
          /\ slip' = slip + 1
          /\ UNCHANGED <<dly, phase, left>>
    /\ waited' = IF phase \in {"pend", "blocked", "got"} THEN waited + 1 ELSE 0
    /\ UNCHANGED <<list, free, tcpOn, mbox>>

\* The second OSTimeGet, and the new time of the head. Once in 49 days OSTime
\* has become 0 in between.
Return ==
    /\ phase = "got"
    /\ \E wrapped \in {w \in BOOLEAN : w => waited > 0} :
          list' = [list EXCEPT ![1] =
              Entry(@.h, HeadAfter(@.time, Elapsed(waited, wrapped)))]
    /\ Goto("busy")
    /\ waited' = 0
    /\ UNCHANGED <<free, left, tcpOn, mbox, dly>>

\* The handlers: those of Periodic set themselves again; tcpip_tcp_timer does
\* so while there are connections; the other is done.
Fire ==
    /\ phase = "fire"
    /\ LET h == Head(list).h
       IN  \/ /\ h \in Periodic \cup {TCP}
              /\ sys_timeout(h, Tail(list), free + 1)
              /\ UNCHANGED tcpOn
           \/ /\ h \in {TCP, APP}
              /\ list' = Tail(list)
              /\ free' = free + 1
              /\ tcpOn' = IF h = TCP THEN "off" ELSE tcpOn
              /\ UNCHANGED left
    /\ Goto("again")
    /\ waited' = 0
    /\ UNCHANGED <<mbox, dly>>

\* A packet that leaves the timers alone
Packet ==
    /\ phase = "busy"
    /\ Goto("again")
    /\ UNCHANGED <<lists, tcpOn, mbox, waited, dly>>

\* A packet that opens a connection: TCP_REG calls tcp_timer_needed.
tcp_timer_needed ==
    /\ phase = "busy"
    /\ tcpOn = "off"
    /\ tcpOn' = "on"
    /\ sys_timeout(TCP, list, free)
    /\ Goto("again")
    /\ UNCHANGED <<mbox, waited, dly>>

\* TCPIP_MSG_TIMEOUT for a handler that is not set
MsgTimeout ==
    /\ phase = "busy"
    /\ APP \notin Pending
    /\ sys_timeout(APP, list, free)
    /\ Goto("again")
    /\ UNCHANGED <<tcpOn, mbox, waited, dly>>

\* TCPIP_MSG_UNTIMEOUT
MsgUntimeout ==
    /\ phase = "busy"
    /\ sys_untimeout(APP)
    /\ Goto("again")
    /\ UNCHANGED <<tcpOn, mbox, waited, dly>>

\* AppTaskClient opens a connection: tcp_timer_needed runs in its thread. The
\* entry goes to null_timeouts, which sys_arch_timeouts empties at its next
\* call: it is lost to the pool.
ClientConnects ==
    /\ tcpOn = "off"
    /\ tcpOn' = "on"
    /\ free > 0
    /\ free' = free - 1
    /\ UNCHANGED <<list, left, mbox, phase, waited, dly, slip>>

Thread == Again \/ OSQPend \/ Return \/ Fire \/ Packet \/ tcp_timer_needed
          \/ MsgTimeout \/ MsgUntimeout

Next == Thread \/ OSQPost \/ Tick \/ ClientConnects

Spec == Init /\ [][Next]_vars

\* The thread runs and the clock ticks.
FairSpec == Spec /\ WF_vars(Thread) /\ WF_vars(Tick)

-----------------------------------------------------------------------------
(* Properties                                                              *)

\* Times, counters and entries stay in their ranges; in particular no time of
\* the list goes below zero (sys.c:110-116).
TypeOK ==
    /\ list \in Seq([h : Handlers, time : 0..MaxTime])
    /\ free \in 0..Pool
    /\ tcpOn \in {"off", "on"}
    /\ mbox \in 0..MaxMbox
    /\ phase \in {"again", "pend", "blocked", "got", "fire", "busy"}
    /\ waited \in 0..(MaxTime + 2 * MaxSlip)
    /\ dly \in 0..MaxTime
    /\ slip \in 0..MaxSlip
    /\ left \in [Handlers -> Int]

\* The timers of lwIP are never lost and never doubled: each periodic one is
\* on the list once; tcpip_tcp_timer is active exactly when it is on the list
\* or its entry has been lost to null_timeouts (sys_arch.c:338-353), and no
\* other entry of the pool is ever lost.
TimersKept ==
    /\ Periodic \subseteq Pending
    /\ Cardinality(Pending) = Len(list)
    /\ LET lost == Pool - free - Len(list)
       IN  lost + Cardinality(Pending \cap {TCP}) = IF tcpOn = "on" THEN 1 ELSE 0

\* No timer waits longer than it was set for, in ticks the thread has been
\* blocked: neither the deltas (sys.c:218-234, 272-273) nor the measured time
\* (sys_arch.c:194-198) ever lag behind.
NeverLate ==
    phase \in {"again", "busy", "fire"} =>
        LET done == IF phase = "fire" THEN Head(list).time ELSE 0
        IN  \A i \in DOMAIN list : Expiry(list, i) - done <= left[list[i].h]

\* The delta list has every timer once, in range, and never behind its time.
TimersSound == TypeOK /\ TimersKept /\ NeverLate

\* However many messages arrive, every periodic timer fires again and again.
EveryTimerFires == \A h \in Periodic : []<>(phase = "fire" /\ Head(list).h = h)

\* The delta list implements timers that count down side by side.
TimersBar ==
    INSTANCE Timers WITH
        rem <- [h \in Pending |-> Expiry(list, CHOOSE i \in DOMAIN list : list[i].h = h)]

Countdown == TimersBar!Spec

=============================================================================
