------------------------------ MODULE HeapUse ------------------------------
(***************************************************************************)
(* The tasks at work on the heap: the operations of MemHeap between the    *)
(* OSSemPend and the OSSemPost of HeapLock, on the scheduler of uC/OS-II.  *)
(* A task can be preempted between any two steps; whether somebody else    *)
(* can then get at the heap is up to mem_sem.                              *)
(*                                                                         *)
(* ethernetif_2_input allocates with interrupts masked, so that mem_sem    *)
(* cannot keep it out. `intruded' records that a task has worked on the    *)
(* heap while another one was in it. The operations under way are followed *)
(* to their end; the contents of the heap after that are not.              *)
(***************************************************************************)
EXTENDS HeapLock, MemHeap

CONSTANT Sizes         \* the sizes that are asked for, in bytes

ASSUME HeapUseAssumption == Sizes \subseteq Nat \ {0}

VARIABLES
    heap,      \* the blocks
    owned,     \* size of the memory in the hands of callers, by block
    job,       \* the operation each task has called and not finished
    intruded   \* "yes": two tasks have been at work on the heap at once

memVars == <<heap, owned, job, intruded>>
useVars == <<vars, memVars>>

Job(op, at, size, old) == [op |-> op, at |-> at, size |-> size, old |-> old]

NoJob == Job("none", 0, 0, 0)

UseInit ==
    /\ Init
    /\ heap = mem_init
    /\ owned = [m \in {} |-> 0]
    /\ job = [t \in Tasks |-> NoJob]
    /\ intruded = "no"

-----------------------------------------------------------------------------
(* Calls: what mem_malloc, mem_free and mem_realloc do before the semaphore *)

\* Sizes of more than the heap get NULL at once.
CallMalloc(t) ==
    /\ intruded = "no"
    /\ UseHeap(t) \/ UseHeapMasked(t)
    /\ \E n \in Sizes :
        /\ AlignSize(n) <= MEM_SIZE
        /\ job' = [job EXCEPT ![t] = Job("malloc", 0, AlignSize(n), 0)]
    /\ UNCHANGED <<heap, owned, intruded>>

\* The caller has the block, and nobody is already shrinking it.
Holds(m) ==
    m \in DOMAIN owned /\ \A s \in Tasks : job[s].op = "realloc" => job[s].at # m

CallFree(t) ==
    /\ intruded = "no"
    /\ UseHeap(t)
    /\ \E m \in DOMAIN owned :
        /\ Holds(m)
        /\ owned' = [o \in DOMAIN owned \ {m} |-> owned[o]]
        /\ job' = [job EXCEPT ![t] = Job("free", m, 0, 0)]
    /\ UNCHANGED <<heap, intruded>>

\* The size of the block is read here, outside the semaphore.
CallRealloc(t) ==
    /\ intruded = "no"
    /\ UseHeap(t)
    /\ \E m \in DOMAIN owned, n \in Sizes :
        /\ Holds(m)
        /\ AlignSize(n) <= owned[m]
        /\ AlignSize(n) < Room(heap, m)
        /\ owned' = [owned EXCEPT ![m] = AlignSize(n)]
        /\ job' = [job EXCEPT ![t] = Job("realloc", m, AlignSize(n), Room(heap, m))]
    /\ UNCHANGED <<heap, intruded>>

\* A call after an intrusion, of which only the semaphore is followed
CallUnfollowed(t) ==
    /\ intruded = "yes"
    /\ UseHeap(t) \/ UseHeapMasked(t)
    /\ UNCHANGED memVars

-----------------------------------------------------------------------------
(* Steps on the heap, between OSSemPend and OSSemPost                      *)

\* t is at work on the heap, in the operation op; is it alone?
AtWork(t, op) ==
    /\ cur = t
    /\ pc[t] = "in"
    /\ job[t].op = op
    /\ intruded' = IF \E s \in Tasks \ {t} : pc[s] = "in" THEN "yes" ELSE intruded
    /\ UNCHANGED vars

Search(t) ==
    /\ AtWork(t, "malloc")
    /\ LET fits == Fits(heap, job[t].size)
       IN  job' = [job EXCEPT ![t] =
                    IF fits = {} THEN NoJob
                    ELSE Job("take", Lowest(fits), job[t].size, 0)]
    /\ UNCHANGED <<heap, owned>>

Take(t) ==
    /\ AtWork(t, "take")
    /\ heap' = MallocTake(heap, job[t].at, job[t].size)
    /\ owned' = [o \in DOMAIN owned \cup {job[t].at} |->
                    IF o = job[t].at THEN job[t].size ELSE owned[o]]
    /\ job' = [job EXCEPT ![t] = NoJob]

Mark(t) ==
    /\ AtWork(t, "free")
    /\ heap' = FreeMark(heap, job[t].at)
    /\ job' = [job EXCEPT ![t] = Job("plug", job[t].at, 0, 0)]
    /\ UNCHANGED owned

Plug(t) ==
    /\ AtWork(t, "plug")
    /\ heap' = plug_holes(heap, job[t].at)
    /\ job' = [job EXCEPT ![t] = NoJob]
    /\ UNCHANGED owned

Resize(t) ==
    /\ AtWork(t, "realloc")
    /\ heap' = mem_realloc(heap, job[t].at, job[t].size, job[t].old)
    /\ job' = [job EXCEPT ![t] = NoJob]
    /\ UNCHANGED owned

\* sys_sem_signal, once the operation is done
Signal(t) ==
    /\ job[t].op = "none"
    /\ OSSemPost(t)
    /\ UNCHANGED memVars

\* Steps of the kernel and of the tasks that leave the heap alone
Elsewhere(t) ==
    /\ OSSemPend(t) \/ OSSemPendReturns(t) \/ Unmask(t) \/ Leave(t) \/ Wake(t)
    /\ UNCHANGED memVars

UseNext ==
    \E t \in Tasks :
        \/ CallMalloc(t) \/ CallFree(t) \/ CallRealloc(t) \/ CallUnfollowed(t)
        \/ Search(t) \/ Take(t) \/ Mark(t) \/ Plug(t) \/ Resize(t)
        \/ Signal(t) \/ Elsewhere(t)

UseSpec == UseInit /\ [][UseNext]_useVars

-----------------------------------------------------------------------------
(* Properties                                                              *)

\* Nobody is inside the heap with an operation half done.
Quiet == \A t \in Tasks : pc[t] = "in" => job[t].op \notin {"take", "plug"}

\* The heap can be relied on until a masked allocation meets somebody in it:
\* the blocks tile it (mem.c:223-256, 412-458, 539-562), no unused block
\* lies beside another between two operations (mem.c:213-215), and lfree is
\* the lowest unused block (mem.c:180).
HeapInOrder ==
    intruded = "no" =>
        /\ Chained(heap)
        /\ LowestFree(heap)
        /\ Quiet => NoHoles(heap)

\* The blocks in use are those that callers have or are about to give back,
\* and each one is as large as its owner believes: no operation of one task
\* moves or shortens the block of another, though mem_realloc looks at the
\* size in front of the semaphore (mem.c:395), and none is leaked.
UsedIsOwned ==
    intruded = "no" =>
        /\ \A m \in Blocks(heap) : heap.ram[m].used = 1 <=>
              \/ m \in DOMAIN owned
              \/ \E t \in Tasks : job[t].op = "free" /\ job[t].at = m
        /\ \A m \in DOMAIN owned : /\ m \in Blocks(heap)
                                   /\ owned[m] <= Room(heap, m)
        /\ \A t \in Tasks : job[t].op = "realloc" =>
              Room(heap, job[t].at) = job[t].old

\* The blocks tile the heap, and each one in use is its owner's in full.
BlocksSound == HeapInOrder /\ UsedIsOwned

\* mem_malloc returns NULL only if there is no block that would do: the walk
\* that begins at lfree misses none (mem.c:520).
FailsOnlyWhenFull ==
    [][\A t \in Tasks :
        intruded = "no" /\ job[t].op = "malloc" /\ job'[t].op = "none" =>
            \A p \in Unused(heap) : Room(heap, p) < job[t].size]_useVars

\* Until a masked allocation meets somebody in the heap, the heap is an
\* allocator: what mem_malloc gives out is inside the heap and nobody else's.
AL == INSTANCE Allocator
        WITH Offsets <- {o \in 0..MEM_SIZE : o % MEM_ALIGNMENT = 0},
             Sizes <- {AlignSize(n) : n \in Sizes},
             End <- MEM_SIZE - SIZEOF_STRUCT_MEM

IsAllocator == [][intruded' = "no" => AL!Next]_owned

\* What mem_malloc gives out is nobody else's, whoever allocates: "protect
\* the heap from concurrent access" (mem.c:508).
NoSharing ==
    [][\A t \in Tasks :
        job[t].op = "take" /\ job'[t].op = "none" =>
            job[t].at \notin DOMAIN owned]_useVars

=============================================================================
