------------------------------ MODULE Mailbox ------------------------------
(***************************************************************************)
(* The mailbox of tcpip_thread on the queues of uC/OS-II: the input tasks  *)
(* post frames and do not wait, a task that calls the netconn interface    *)
(* posts its call with sys_mbox_post and waits on op_completed, and        *)
(* tcpip_thread fetches with a timeout, serves and signals (sys_arch.c,    *)
(* tcpip.c, os_q.c, os_sem.c, os_core.c).                                  *)
(*                                                                         *)
(* A task is its priority, 0 being the highest, and the task that runs is  *)
(* the highest ready one. Every call of the kernel is one step: it masks   *)
(* interrupts. A timeout readies a task but leaves it on the waiting list  *)
(* until it runs: a post in between still finds it there.                  *)
(*                                                                         *)
(* While it serves a message tcpip_thread may have to wait for the heap's  *)
(* semaphore, which is a stall of some ticks here.                         *)
(***************************************************************************)
EXTENDS Integers, Sequences

CONSTANTS
    Inputs,       \* priorities of the input tasks
    Server,       \* priority of tcpip_thread
    Callers,      \* priorities of the tasks that call the netconn interface
    Size,         \* OSQSize
    Tries,        \* the attempts of sys_mbox_post
    Delay,        \* ticks between them
    Timeouts,     \* ticks sys_arch_mbox_fetch waits, 0 for ever
    Stalls,       \* ticks tcpip_thread waits for the heap
    MaxFrames,    \* bound: frames of each input task
    MaxCalls,     \* bound: calls of each caller
    None

Tasks == Inputs \cup Callers \cup {Server}
Messages == (Inputs \X (1..MaxFrames)) \cup (Callers \X (1..MaxCalls))

ASSUME MailboxAssumption ==
    /\ Tasks \subseteq Nat
    /\ Inputs \cap Callers = {} /\ Server \notin Inputs \cup Callers
    /\ {Size, Tries, Delay} \cup Stalls \subseteq Nat \ {0}
    /\ Timeouts \cup {MaxFrames, MaxCalls} \subseteq Nat
    /\ None \notin Messages

VARIABLES
    ring,      \* the entries between OSQStart and OSQEnd
    in,        \* OSQIn
    out,       \* OSQOut
    entries,   \* OSQEntries
    wait,      \* OSEventTbl of the queue
    ready,     \* OSRdyTbl
    dly,       \* OSTCBDly of each task
    stat,      \* OSTCBStat: the task pends on something
    pend,      \* OSTCBStatPend
    msg,       \* OSTCBMsg
    pc,        \* where each task is
    tries,     \* i of sys_mbox_post
    sem,       \* op_completed of each caller
    got,       \* the message tcpip_thread fetched last
    count,     \* frames and calls so far
    served,    \* calls served, for each caller
    lost       \* callers whose message was given up

qVars == <<ring, in, out, entries>>
tcbVars == <<wait, ready, dly, stat, pend, msg>>
histVars == <<count, served, lost>>
vars == <<qVars, tcbVars, pc, tries, sem, got, histVars>>

Init ==
    /\ ring = [k \in 0..(Size - 1) |-> None] /\ in = 0 /\ out = 0 /\ entries = 0
    /\ wait = {} /\ ready = {Server}
    /\ dly = [t \in Tasks |-> 0]
    /\ stat = [t \in Tasks |-> FALSE]
    /\ pend = [t \in Tasks |-> "OK"]
    /\ msg = [t \in Tasks |-> None]
    /\ pc = [t \in Tasks |-> IF t = Server THEN "fetch" ELSE "idle"]
    /\ tries = [c \in Callers |-> 0]
    /\ sem = [c \in Callers |-> 0]
    /\ got = None
    /\ count = [t \in Tasks \ {Server} |-> 0]
    /\ served = [c \in Callers |-> 0]
    /\ lost = {}

---------------------------------------------------------------------------
(* The kernel.                                                             *)

\* OS_SchedNew: the highest ready task is the one that runs
Runs(t) == t \in ready /\ \A u \in ready : t <= u

\* OSQIn and OSQOut wrap at OSQEnd
After(p) == IF p + 1 = Size THEN 0 ELSE p + 1

\* Mutant of Rdy: the status a timeout has left is not overwritten
RdyKeepsStatus(t, m, rdy) ==
    /\ dly' = [dly EXCEPT ![t] = 0]
    /\ msg' = [msg EXCEPT ![t] = m]
    /\ stat' = [stat EXCEPT ![t] = FALSE]
    /\ pend' = pend
    /\ ready' = rdy \cup {t}

\* OS_EventTaskRdy: t is handed m and made ready, also if a timeout has
\* already done so; rdy is the ready list otherwise
Rdy(t, m, rdy) ==
    /\ dly' = [dly EXCEPT ![t] = 0]
    /\ msg' = [msg EXCEPT ![t] = m]
    /\ stat' = [stat EXCEPT ![t] = FALSE]
    /\ pend' = [pend EXCEPT ![t] = "OK"]
    /\ ready' = rdy \cup {t}

\* Mutant of OSQPost: the waiting task is not looked for
OSQPostNoWake(m, rdy) ==
    /\ entries < Size
    /\ ring' = [ring EXCEPT ![in] = m]
    /\ in' = After(in)
    /\ entries' = entries + 1
    /\ ready' = rdy
    /\ UNCHANGED <<out, wait, dly, stat, pend, msg>>

\* OSQPost that succeeds: to the highest waiting task, or into the queue
OSQPost(m, rdy) ==
    IF wait # {}
    THEN \E t \in wait :
            /\ \A u \in wait : t <= u
            /\ Rdy(t, m, rdy)
            /\ wait' = wait \ {t}
            /\ UNCHANGED qVars
    ELSE /\ entries < Size
         /\ ring' = [ring EXCEPT ![in] = m]
         /\ in' = After(in)
         /\ entries' = entries + 1
         /\ ready' = rdy
         /\ UNCHANGED <<out, wait, dly, stat, pend, msg>>

\* OS_ERR_Q_FULL
Full == wait = {} /\ entries >= Size

\* OSTimeTick: delays and timeouts that end
Tick ==
    /\ \E t \in Tasks : dly[t] # 0
    /\ LET over == {t \in Tasks : dly[t] = 1}
       IN  /\ dly' = [t \in Tasks |-> IF dly[t] = 0 THEN 0 ELSE dly[t] - 1]
           /\ stat' = [t \in Tasks |-> stat[t] /\ t \notin over]
           /\ pend' = [t \in Tasks |-> IF t \notin over THEN pend[t]
                                       ELSE IF stat[t] THEN "TO" ELSE "OK"]
           /\ ready' = ready \cup over
    /\ UNCHANGED <<qVars, wait, msg, pc, tries, sem, got, histVars>>

\* OSTimeDly(n) of task t, before OS_Sched
Sleep(t, n) == dly' = [dly EXCEPT ![t] = n] /\ ready' = ready \ {t}

---------------------------------------------------------------------------
(* The input tasks.                                                        *)

\* An interrupt or the end of its delay wakes an input task with a frame
Frame(t) ==
    /\ t \in Inputs /\ pc[t] = "idle" /\ count[t] < MaxFrames
    /\ pc' = [pc EXCEPT ![t] = "post"]
    /\ count' = [count EXCEPT ![t] = @ + 1]
    /\ ready' = ready \cup {t}
    /\ UNCHANGED <<qVars, wait, dly, stat, pend, msg, tries, sem, got, served, lost>>

\* sys_mbox_trypost in tcpip_input: a frame that does not fit is freed
TryPost(t) ==
    /\ t \in Inputs /\ Runs(t) /\ pc[t] = "post"
    /\ IF Full
       THEN ready' = ready \ {t} /\ UNCHANGED <<qVars, wait, dly, stat, pend, msg>>
       ELSE OSQPost(<<t, count[t]>>, ready \ {t})
    /\ pc' = [pc EXCEPT ![t] = "idle"]
    /\ UNCHANGED <<tries, sem, got, histVars>>

---------------------------------------------------------------------------
(* A call of the netconn interface.                                        *)

\* tcpip_apimsg is called
Call(c) ==
    /\ c \in Callers /\ pc[c] = "idle" /\ count[c] < MaxCalls
    /\ pc' = [pc EXCEPT ![c] = "post"]
    /\ tries' = [tries EXCEPT ![c] = 0]
    /\ count' = [count EXCEPT ![c] = @ + 1]
    /\ ready' = ready \cup {c}
    /\ UNCHANGED <<qVars, wait, dly, stat, pend, msg, sem, got, served, lost>>

\* sys_mbox_post: an attempt, a delay after one that failed also when it was
\* the last, and in the end nothing
Post(c) ==
    /\ c \in Callers /\ Runs(c) /\ pc[c] = "post"
    /\ \/ /\ tries[c] < Tries /\ ~Full
          /\ OSQPost(<<c, count[c]>>, ready)
          /\ pc' = [pc EXCEPT ![c] = "pend"]
          /\ UNCHANGED <<tries, lost>>
       \/ /\ tries[c] < Tries /\ Full
          /\ tries' = [tries EXCEPT ![c] = @ + 1]
          /\ Sleep(c, Delay)
          /\ UNCHANGED <<qVars, wait, stat, pend, msg, pc, lost>>
       \/ /\ tries[c] = Tries
          /\ lost' = lost \cup {c}
          /\ pc' = [pc EXCEPT ![c] = "pend"]
          /\ UNCHANGED <<qVars, tcbVars, tries>>
    /\ UNCHANGED <<sem, got, count, served>>

\* sys_arch_sem_wait(op_completed, 0) up to OS_Sched
SemPend(c) ==
    /\ c \in Callers /\ Runs(c) /\ pc[c] = "pend"
    /\ IF sem[c] > 0
       THEN /\ sem' = [sem EXCEPT ![c] = @ - 1]
            /\ pc' = [pc EXCEPT ![c] = "return"]
            /\ UNCHANGED <<stat, ready>>
       ELSE /\ stat' = [stat EXCEPT ![c] = TRUE]
            /\ pc' = [pc EXCEPT ![c] = "wait"]
            /\ ready' = ready \ {c}
            /\ UNCHANGED sem
    /\ UNCHANGED <<qVars, wait, dly, pend, msg, tries, got, histVars>>

\* The call returns, from OSSemPend that did or did not wait
CallReturns(c) ==
    /\ c \in Callers /\ Runs(c) /\ pc[c] \in {"wait", "return"}
    /\ pc' = [pc EXCEPT ![c] = "idle"]
    /\ ready' = ready \ {c}
    /\ UNCHANGED <<qVars, wait, dly, stat, pend, msg, tries, sem, got, histVars>>

---------------------------------------------------------------------------
(* tcpip_thread.                                                           *)

\* Mutant of Fetch: the task sleeps without being on the waiting list
FetchUnlisted ==
    /\ Runs(Server) /\ pc[Server] = "fetch"
    /\ IF entries > 0
       THEN /\ got' = ring[out]
            /\ out' = After(out)
            /\ entries' = entries - 1
            /\ pc' = [pc EXCEPT ![Server] = "serve"]
            /\ UNCHANGED <<ring, in, tcbVars>>
       ELSE /\ \E n \in Timeouts : dly' = [dly EXCEPT ![Server] = n]
            /\ stat' = [stat EXCEPT ![Server] = TRUE]
            /\ pend' = [pend EXCEPT ![Server] = "OK"]
            /\ ready' = ready \ {Server}
            /\ pc' = [pc EXCEPT ![Server] = "wait"]
            /\ UNCHANGED <<qVars, wait, msg, got>>
    /\ UNCHANGED <<tries, sem, histVars>>

\* sys_arch_mbox_fetch and OSQPend up to OS_Sched: the oldest message, or the
\* waiting list
Fetch ==
    /\ Runs(Server) /\ pc[Server] = "fetch"
    /\ IF entries > 0
       THEN /\ got' = ring[out]
            /\ out' = After(out)
            /\ entries' = entries - 1
            /\ pc' = [pc EXCEPT ![Server] = "serve"]
            /\ UNCHANGED <<ring, in, tcbVars>>
       ELSE /\ \E n \in Timeouts : dly' = [dly EXCEPT ![Server] = n]
            /\ stat' = [stat EXCEPT ![Server] = TRUE]
            /\ pend' = [pend EXCEPT ![Server] = "OK"]
            /\ wait' = wait \cup {Server} /\ ready' = ready \ {Server}
            /\ pc' = [pc EXCEPT ![Server] = "wait"]
            /\ UNCHANGED <<qVars, msg, got>>
    /\ UNCHANGED <<tries, sem, histVars>>

\* OSQPend behind OS_Sched: the message handed over, or a timeout, after which
\* sys_mbox_fetch calls the handler and fetches again
Woken ==
    /\ Runs(Server) /\ pc[Server] = "wait"
    /\ IF pend[Server] = "OK"
       THEN got' = msg[Server] /\ pc' = [pc EXCEPT ![Server] = "serve"] /\ wait' = wait
       ELSE got' = got /\ pc' = [pc EXCEPT ![Server] = "fetch"] /\ wait' = wait \ {Server}
    /\ stat' = [stat EXCEPT ![Server] = FALSE]
    /\ pend' = [pend EXCEPT ![Server] = "OK"]
    /\ msg' = [msg EXCEPT ![Server] = None]
    /\ UNCHANGED <<qVars, ready, dly, tries, sem, histVars>>

\* The heap is in use: tcpip_thread waits
Stall ==
    /\ Runs(Server) /\ pc[Server] = "serve"
    /\ \E n \in Stalls : Sleep(Server, n)
    /\ pc' = [pc EXCEPT ![Server] = "stall"]
    /\ UNCHANGED <<qVars, wait, stat, pend, msg, tries, sem, got, histVars>>

\* Mutant of Serve: the signal is only counted
ServeNoWake ==
    /\ Runs(Server) /\ pc[Server] \in {"serve", "stall"}
    /\ IF got[1] \in Callers
       THEN /\ served' = [served EXCEPT ![got[1]] = @ + 1]
            /\ sem' = [sem EXCEPT ![got[1]] = @ + 1]
       ELSE UNCHANGED <<served, sem>>
    /\ pc' = [pc EXCEPT ![Server] = "fetch"]
    /\ UNCHANGED <<qVars, tcbVars, tries, got, count, lost>>

\* The message is served; a call is signalled with sys_sem_signal
Serve ==
    /\ Runs(Server) /\ pc[Server] \in {"serve", "stall"}
    /\ IF got[1] \in Callers
       THEN LET c == got[1]
            IN  /\ served' = [served EXCEPT ![c] = @ + 1]
                /\ IF stat[c]
                   THEN Rdy(c, None, ready) /\ UNCHANGED <<sem, wait>>
                   ELSE sem' = [sem EXCEPT ![c] = @ + 1] /\ UNCHANGED tcbVars
       ELSE UNCHANGED <<served, sem, tcbVars>>
    /\ pc' = [pc EXCEPT ![Server] = "fetch"]
    /\ UNCHANGED <<qVars, tries, got, count, lost>>

---------------------------------------------------------------------------
CallStep(c) == Post(c) \/ SemPend(c) \/ CallReturns(c)

ServerStep == Fetch \/ Woken \/ Stall \/ Serve

Next ==
    \/ \E t \in Inputs : Frame(t) \/ TryPost(t)
    \/ \E c \in Callers : Call(c) \/ CallStep(c)
    \/ ServerStep
    \/ Tick

Spec == Init /\ [][Next]_vars

\* The task that runs goes on, and so does time. A task that gets the processor
\* again and again comes forward: a tick is a millisecond, many steps long.
FairSpec ==
    /\ Spec
    /\ WF_vars(Tick)
    /\ WF_vars(\E t \in Inputs : TryPost(t))
    /\ SF_vars(ServerStep)
    /\ \A c \in Callers : SF_vars(CallStep(c))

---------------------------------------------------------------------------
\* The entry k places behind OSQOut
Slot(k) == IF out + k < Size THEN out + k ELSE out + k - Size

\* The shape of the state; the queue's pointers agree with its count
TypeOK ==
    /\ ring \in [0..(Size - 1) -> Messages \cup {None}]
    /\ {in, out} \subseteq 0..(Size - 1) /\ entries \in 0..Size
    /\ in = Slot(entries)
    /\ wait \subseteq {Server} /\ ready \subseteq Tasks
    /\ dly \in [Tasks -> Nat]
    /\ stat \in [Tasks -> BOOLEAN] /\ pend \in [Tasks -> {"OK", "TO"}]
    /\ msg \in [Tasks -> Messages \cup {None}] /\ got \in Messages \cup {None}
    /\ pc \in [Tasks -> {"idle", "post", "pend", "wait", "return", "fetch", "serve", "stall"}]
    /\ tries \in [Callers -> 0..Tries] /\ sem \in [Callers -> 0..1]
    /\ count \in [Tasks \ {Server} -> Nat] /\ served \in [Callers -> Nat]
    /\ lost \subseteq Callers

\* The messages accepted by OSQPost and not yet returned by OSQPend: one handed
\* to tcpip_thread, then those in the queue
UnderWay ==
    (IF pc[Server] = "wait" /\ msg[Server] # None THEN <<msg[Server]>> ELSE <<>>)
        \o [k \in 1..entries |-> ring[Slot(k - 1)]]

Abstract == INSTANCE Fifo WITH Room <- Size + 1, chan <- UnderWay, last <- got

\* The mailbox is a first-in first-out queue: a message accepted by OSQPost is
\* returned by OSQPend once and in order, also if it meets a timeout that has
\* ended but not been noticed
IsFifo == Abstract!Spec

\* While tcpip_thread is on the waiting list, timed out or not, nothing is in
\* the queue: a post never leaves a message behind its back
NothingBehind == Server \in wait => entries = 0 /\ msg[Server] = None

\* A task of lower priority than tcpip_thread finds the mailbox full only while
\* tcpip_thread waits for the heap: otherwise it would not run
FullOnlyWhenStalled ==
    [][\A c \in Callers : tries'[c] > tries[c] /\ c > Server => pc[Server] = "stall"]_vars

\* A call is back only when tcpip_thread has served it, and a signal never
\* outlives its call
ReturnsServed ==
    \A c \in Callers :
        /\ pc[c] = "idle" => served[c] = count[c] /\ sem[c] = 0
        /\ served[c] <= count[c]

\* Queue, waiting list and signals agree: ring and counters keep their types,
\* nothing is posted behind tcpip_thread's back, no call is back unserved
MailboxInv == TypeOK /\ NothingBehind /\ ReturnsServed

\* A call ends in the end unless sys_mbox_post has given up, of which its caller
\* learns nothing: it then waits for ever
CallsReturn == \A c \in Callers : (pc[c] = "post") ~> (pc[c] = "idle" \/ c \in lost)

===========================================================================
