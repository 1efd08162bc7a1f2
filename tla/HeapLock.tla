------------------------------ MODULE HeapLock ------------------------------
(***************************************************************************)
(* The semaphore mem_sem that guards the lwIP heap (lwIP/src/core/mem.c),  *)
(* on the scheduler and the semaphores of uC/OS-II and its Cortex-M3 port. *)
(*                                                                         *)
(* A task is its priority, 0 being the highest. A context switch is the    *)
(* PendSV exception: it is only requested by OS_Sched and OSIntExit, and   *)
(* it is taken at once unless interrupts are masked.                       *)
(*                                                                         *)
(* Most tasks allocate and free with interrupts enabled. ethernetif_2_input*)
(* allocates in enc28j60PacketReceive, which low_level_2_input calls with  *)
(* interrupts masked: there OSSemPend cannot block. It returns all the     *)
(* same, and the task goes on while it is on the list of waiting tasks.    *)
(***************************************************************************)
EXTENDS Integers

CONSTANTS
    Tasks,     \* priorities of the tasks that use the heap
    Masked,    \* those that allocate with interrupts masked
    Idle       \* OS_TASK_IDLE_PRIO

\* A task that allocates with interrupts masked has a higher priority than
\* the others that use the heap, as 6 is before 10 and 15.
ASSUME HeapLockAssumption ==
    /\ Tasks \subseteq Nat
    /\ Idle \in Nat \ Tasks
    /\ \A t \in Tasks : t < Idle
    /\ Masked \subseteq Tasks
    /\ \A m \in Masked, t \in Tasks : m <= t

VARIABLES
    cnt,       \* mem_sem: OSEventCnt
    wait,      \* mem_sem: OSEventTbl, the tasks on its waiting list
    ready,     \* OSRdyTbl
    cur,       \* OSTCBCur
    primask,   \* "on": interrupts are masked
    pc         \* where each task is

vars == <<cnt, wait, ready, cur, primask, pc>>

Prios == Tasks \cup {Idle}

Init ==
    /\ cnt = 1
    /\ wait = {}
    /\ ready = {Idle}
    /\ cur = Idle
    /\ primask = "off"
    /\ pc = [t \in Tasks |-> "away"]

-----------------------------------------------------------------------------
(* uC/OS-II                                                                *)

\* OS_SchedNew and OS_EventTaskRdy find the task of the highest priority.
IsHighest(t, S) == t \in S /\ \A u \in S : t <= u

\* OS_Sched with the ready list rdy: OSCtxSw requests PendSV.
OS_Sched(rdy) ==
    /\ ready' = rdy
    /\ IF primask = "on" THEN cur' = cur ELSE IsHighest(cur', rdy)
    /\ cur' \in Prios

\* Mutant: the task goes on to use the heap when there is no token.
OSSemPendNoWait(t) ==
    /\ cur = t
    /\ pc[t] = "pend"
    /\ cnt' = IF cnt > 0 THEN cnt - 1 ELSE cnt
    /\ pc' = [pc EXCEPT ![t] = "in"]
    /\ UNCHANGED <<wait, ready, cur, primask>>

\* OSSemPend up to OS_Sched: the token is taken, or the task is put on the
\* waiting list, off the ready list, and gives up the processor.
OSSemPend(t) ==
    /\ cur = t
    /\ pc[t] = "pend"
    /\ \/ /\ cnt > 0
          /\ cnt' = cnt - 1
          /\ pc' = [pc EXCEPT ![t] = "in"]
          /\ UNCHANGED <<wait, ready, cur>>
       \/ /\ cnt = 0
          /\ wait' = wait \cup {t}
          /\ pc' = [pc EXCEPT ![t] = "back"]
          /\ OS_Sched(ready \ {t})
          /\ UNCHANGED cnt
    /\ UNCHANGED primask

\* OSSemPend behind OS_Sched: OSTCBStatPend is OS_STAT_PEND_OK both when the
\* task has been readied and when it has never been switched out.
OSSemPendReturns(t) ==
    /\ cur = t
    /\ pc[t] = "back"
    /\ pc' = [pc EXCEPT ![t] = "in"]
    /\ UNCHANGED <<cnt, wait, ready, cur, primask>>

AfterPost(t) == IF primask = "on" THEN "unmask" ELSE "run"

\* Mutant: the token goes into the count although a task waits for it.
OSSemPostOnlyCounts(t) ==
    /\ cur = t
    /\ pc[t] = "in"
    /\ cnt' = 1
    /\ pc' = [pc EXCEPT ![t] = AfterPost(t)]
    /\ UNCHANGED <<wait, ready, cur, primask>>

\* The end of the work on the heap and OSSemPost: the waiting task of the
\* highest priority gets the token, or it goes back into the count.
OSSemPost(t) ==
    /\ cur = t
    /\ pc[t] = "in"
    /\ pc' = [pc EXCEPT ![t] = AfterPost(t)]
    /\ \/ \E h \in wait :
            /\ IsHighest(h, wait)
            /\ wait' = wait \ {h}
            /\ OS_Sched(ready \cup {h})
            /\ UNCHANGED cnt
       \/ /\ wait = {}
          /\ cnt < 65535
          /\ cnt' = cnt + 1
          /\ UNCHANGED <<wait, ready, cur>>
    /\ UNCHANGED primask

\* The tick, or another event, readies a task that has been away. OSIntExit
\* switches to it if it has the higher priority.
Wake(t) ==
    /\ primask = "off"
    /\ pc[t] = "away"
    /\ pc' = [pc EXCEPT ![t] = "run"]
    /\ OS_Sched(ready \cup {t})
    /\ UNCHANGED <<cnt, wait, primask>>

-----------------------------------------------------------------------------
(* The tasks                                                               *)

\* OSTimeDlyHMSM, or a wait for the next message
Leave(t) ==
    /\ cur = t
    /\ pc[t] = "run"
    /\ pc' = [pc EXCEPT ![t] = "away"]
    /\ OS_Sched(ready \ {t})
    /\ UNCHANGED <<cnt, wait, primask>>

\* mem_malloc or mem_free, up to sys_arch_sem_wait
UseHeap(t) ==
    /\ cur = t
    /\ pc[t] = "run"
    /\ pc' = [pc EXCEPT ![t] = "pend"]
    /\ UNCHANGED <<cnt, wait, ready, cur, primask>>

\* low_level_2_input: SYS_ARCH_PROTECT, and then mem_malloc for the pbuf
UseHeapMasked(t) ==
    /\ t \in Masked
    /\ cur = t
    /\ pc[t] = "run"
    /\ primask' = "on"
    /\ pc' = [pc EXCEPT ![t] = "pend"]
    /\ UNCHANGED <<cnt, wait, ready, cur>>

\* low_level_2_input: SYS_ARCH_UNPROTECT; a requested PendSV is taken.
Unmask(t) ==
    /\ cur = t
    /\ pc[t] = "unmask"
    /\ primask' = "off"
    /\ pc' = [pc EXCEPT ![t] = "run"]
    /\ IsHighest(cur', ready)
    /\ cur' \in Prios
    /\ UNCHANGED <<cnt, wait, ready>>

Step(t) ==
    \/ UseHeap(t) \/ UseHeapMasked(t) \/ Unmask(t) \/ Leave(t)
    \/ OSSemPend(t) \/ OSSemPendReturns(t) \/ OSSemPost(t)

Next == \E t \in Tasks : Step(t) \/ Wake(t)

Spec == Init /\ [][Next]_vars

-----------------------------------------------------------------------------
(* Properties                                                              *)

\* Every variable keeps its type; the count of mem_sem does not go below zero
\* (os_sem.c:327-332).
TypeOK ==
    /\ cnt \in Nat
    /\ wait \in SUBSET Tasks
    /\ ready \in SUBSET Prios
    /\ cur \in Prios
    /\ primask \in {"off", "on"}
    /\ pc \in [Tasks -> {"away", "run", "pend", "back", "in", "unmask"}]

\* t holds the token, or has been handed it by OSSemPost.
Owner(t) == pc[t] \in {"back", "in"} /\ t \notin wait

\* One token exists: it is in the count, with nobody waiting, or exactly one
\* task has it. Also when a task has gone through OSSemPend without it: that
\* task's own OSSemPost then takes it off the waiting list (os_sem.c:491-503).
OneToken ==
    \/ cnt = 1 /\ wait = {} /\ \A t \in Tasks : ~Owner(t)
    \/ cnt = 0 /\ \E o \in Tasks : \A t \in Tasks : Owner(t) <=> t = o

\* Two tasks are inside the heap only if one of them allocates with
\* interrupts masked, and then it is the one that runs (mem.c:508).
ExclusiveUnlessMasked ==
    \A s, t \in Tasks :
        s # t /\ pc[s] = "in" /\ pc[t] = "in" =>
            primask = "on" /\ cur \in Masked \cap {s, t}

\* While interrupts are enabled the running task is the ready one of the
\* highest priority, and a task off the ready list is away or held up inside
\* OSSemPend: the OSSemPend that could not block (os_sem.c:339) leaves no task
\* behind that is neither.
RunsHighest ==
    primask = "off" =>
        /\ IsHighest(cur, ready)
        /\ \A t \in Tasks : \/ t \in ready
                            \/ pc[t] = "away"
                            \/ t \in wait /\ pc[t] = "back"

\* No wakeup is lost: the board idles only when the token is back and nobody
\* waits for it, so that no task is ever left waiting for a heap nobody holds.
IdleMeansFree == cur = Idle => cnt = 1 /\ wait = {}

\* The semaphore and the ready list: one token, no lost wakeup, and always the
\* task of the highest priority.
LockInv == TypeOK /\ OneToken /\ RunsHighest /\ IdleMeansFree

=============================================================================
