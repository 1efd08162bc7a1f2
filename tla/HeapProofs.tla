----------------------------- MODULE HeapProofs -----------------------------
(***************************************************************************)
(* For every set of tasks and priorities, and for a heap of any length in  *)
(* which tasks allocate any sizes: the semaphore never gains or loses its  *)
(* token, only a task that allocates with interrupts masked can be inside  *)
(* the heap beside another one, and until one is, the blocks stay a list   *)
(* that tiles the heap, mem_malloc fails only when nothing fits, and the   *)
(* heap is the allocator of module Allocator.                              *)
(***************************************************************************)
EXTENDS HeapUse, WellFoundedInduction, TLAPS

-----------------------------------------------------------------------------
(* The semaphore                                                           *)

\* A task on the waiting list is inside OSSemPend, or is the masked task that
\* OSSemPend could not hold up.
Waiting ==
    \A t \in wait : \/ pc[t] = "back"
                    \/ pc[t] = "in" /\ primask = "on" /\ cur = t

\* The ready list holds the idle task and every task that is neither away nor
\* waiting.
ReadyList ==
    /\ Idle \in ready
    /\ \A t \in Tasks : t \in ready <=> (t \notin wait /\ pc[t] # "away")

\* Interrupts are masked only by a running task of Masked, until it has
\* posted; by then it is off the waiting list.
Masking ==
    /\ primask = "on" => cur \in Masked /\ pc[cur] \in {"pend", "back", "in", "unmask"}
    /\ \A t \in Tasks : pc[t] = "unmask" => primask = "on" /\ cur = t /\ t \notin wait

\* With interrupts on the scheduler has the highest ready task run.
Highest == primask = "off" => IsHighest(cur, ready)

\* The inductive invariant. OneToken alone is not inductive: that OSSemPost of
\* the masked task readies that task itself needs Waiting and the priorities.
IInv == TypeOK /\ OneToken /\ Waiting /\ ReadyList /\ Masking /\ Highest

\* The first state of the semaphore satisfies its invariant.
LEMMA InitIInv == Init => IInv
<1>1. SUFFICES ASSUME Init PROVE IInv
  OBVIOUS
<1>2. TypeOK
  BY <1>1 DEF Init, TypeOK, Prios
<1>3. OneToken
  BY <1>1 DEF Init, OneToken, Owner
<1>4. Waiting /\ Masking
  BY <1>1 DEF Init, Waiting, Masking
<1>5. ReadyList
  BY <1>1, HeapLockAssumption DEF Init, ReadyList
<1>6. Highest
  BY <1>1, HeapLockAssumption DEF Init, Highest, IsHighest
<1> QED BY <1>2, <1>3, <1>4, <1>5, <1>6 DEF IInv

\* OSSemPend, at once or after a wait, keeps the invariant: the token goes to
\* the caller, or the caller goes onto the waiting list.
LEMMA PendStep ==
  ASSUME NEW t \in Tasks, IInv, OSSemPend(t)
  PROVE  IInv'
<1>0. cur = t /\ pc[t] = "pend" /\ TypeOK /\ OneToken /\ Waiting /\ ReadyList
      /\ Masking /\ Highest
  BY DEF OSSemPend, IInv
<1>1. CASE cnt > 0
  <2>1. cnt = 1 /\ wait = {} /\ \A o \in Tasks : ~Owner(o)
    BY <1>0, <1>1 DEF OneToken
  <2>2. UNCHANGED <<wait, ready, cur, primask>> /\ cnt' = 0 /\ pc' = [pc EXCEPT ![t] = "in"]
    BY <1>1, <2>1 DEF OSSemPend
  <2>3. TypeOK'
    BY <1>0, <2>2 DEF TypeOK
  <2>4. \A o \in Tasks : Owner(o)' <=> o = t
    BY <1>0, <2>1, <2>2 DEF TypeOK, Owner
  <2>5. OneToken'
    BY <2>2, <2>4 DEF OneToken
  <2>6. Waiting' /\ ReadyList'
    BY <1>0, <2>1, <2>2 DEF TypeOK, Waiting, ReadyList
  <2>7. Masking' /\ Highest'
    BY <1>0, <2>1, <2>2 DEF TypeOK, Masking, Highest, IsHighest
  <2> QED BY <2>3, <2>5, <2>6, <2>7 DEF IInv
<1>2. CASE ~(cnt > 0)
  <2>1. /\ wait' = wait \cup {t}
        /\ pc' = [pc EXCEPT ![t] = "back"]
        /\ cnt = 0 /\ cnt' = 0 /\ primask' = primask
        /\ OS_Sched(ready \ {t})
    BY <1>2 DEF OSSemPend
  <2>2. /\ ready' = ready \ {t}
        /\ cur' \in Prios
        /\ primask = "on" => cur' = cur
        /\ primask # "on" => IsHighest(cur', ready \ {t})
    BY <2>1 DEF OS_Sched
  <2>3. TypeOK'
    BY <1>0, <2>1, <2>2 DEF TypeOK
  <2>4. \A o \in Tasks : Owner(o)' <=> Owner(o)
    BY <1>0, <2>1 DEF TypeOK, Owner
  <2>5. OneToken'
    BY <1>0, <2>1, <2>4 DEF OneToken
  <2>6. Waiting'
    BY <1>0, <2>1, <2>2 DEF TypeOK, Waiting
  <2>7. ReadyList'
    BY <1>0, <2>1, <2>2, HeapLockAssumption DEF TypeOK, ReadyList
  <2>8. Masking'
    BY <1>0, <2>1, <2>2 DEF TypeOK, Masking
  <2>9. Highest'
    BY <2>1, <2>2 DEF Highest, IsHighest
  <2> QED BY <2>3, <2>5, <2>6, <2>7, <2>8, <2>9 DEF IInv
<1> QED BY <1>1, <1>2

\* So does the return into OSSemPend of a task that was made ready.
LEMMA ReturnStep ==
  ASSUME NEW t \in Tasks, IInv, OSSemPendReturns(t)
  PROVE  IInv'
<1>0. /\ cur = t /\ pc[t] = "back" /\ pc' = [pc EXCEPT ![t] = "in"]
      /\ UNCHANGED <<cnt, wait, ready, cur, primask>>
      /\ TypeOK /\ OneToken /\ Waiting /\ ReadyList /\ Masking /\ Highest
  BY DEF OSSemPendReturns, IInv
<1>1. TypeOK'
  BY <1>0 DEF TypeOK
<1>2. \A o \in Tasks : Owner(o)' <=> Owner(o)
  BY <1>0 DEF TypeOK, Owner
<1>3. OneToken'
  BY <1>0, <1>2 DEF OneToken
<1>4. t \in wait => primask = "on"
  BY <1>0 DEF TypeOK, ReadyList, Highest, IsHighest
<1>5. Waiting'
  BY <1>0, <1>4 DEF TypeOK, Waiting
<1>6. ReadyList' /\ Highest'
  BY <1>0 DEF TypeOK, ReadyList, Highest, IsHighest
<1>7. Masking'
  BY <1>0 DEF TypeOK, Masking
<1> QED BY <1>1, <1>3, <1>5, <1>6, <1>7 DEF IInv

\* So does OSSemPost, which hands the token to the highest waiting task.
LEMMA PostStep ==
  ASSUME NEW t \in Tasks, IInv, OSSemPost(t)
  PROVE  IInv'
<1>0. /\ cur = t /\ pc[t] = "in" /\ primask' = primask
      /\ pc' = [pc EXCEPT ![t] = IF primask = "on" THEN "unmask" ELSE "run"]
      /\ TypeOK /\ OneToken /\ Waiting /\ ReadyList /\ Masking /\ Highest
  BY DEF OSSemPost, AfterPost, IInv
<1>1. CASE wait = {}
  <2>1. UNCHANGED <<wait, ready, cur>> /\ cnt' = cnt + 1
    BY <1>1 DEF OSSemPost
  <2>2. Owner(t)
    BY <1>0, <1>1 DEF Owner
  <2>3. cnt = 0 /\ \A o \in Tasks : Owner(o) => o = t
    BY <1>0, <2>2 DEF OneToken
  <2>4. \A o \in Tasks : ~Owner(o)'
    BY <1>0, <1>1, <2>1, <2>3 DEF TypeOK, Owner
  <2>5. OneToken'
    BY <1>1, <2>1, <2>3, <2>4 DEF OneToken
  <2>6. TypeOK'
    BY <1>0, <2>1, <2>3 DEF TypeOK
  <2>7. Waiting' /\ ReadyList'
    BY <1>0, <1>1, <2>1 DEF TypeOK, Waiting, ReadyList
  <2>8. Highest' /\ Masking'
    BY <1>0, <1>1, <2>1 DEF TypeOK, Masking, Highest, IsHighest
  <2> QED BY <2>5, <2>6, <2>7, <2>8 DEF IInv
<1>2. CASE wait # {}
  <2>1. PICK h \in wait : IsHighest(h, wait) /\ wait' = wait \ {h}
                          /\ OS_Sched(ready \cup {h}) /\ cnt' = cnt
    BY <1>2 DEF OSSemPost
  <2>2. /\ h \in Tasks /\ cnt = 0
        /\ ready' = ready \cup {h} /\ cur' \in Prios
        /\ primask = "on" => cur' = cur
        /\ primask # "on" => IsHighest(cur', ready \cup {h})
    BY <1>0, <2>1 DEF TypeOK, OneToken, OS_Sched
  <2>3. primask = "on" /\ t \in wait => h = t
    <3>1. SUFFICES ASSUME primask = "on", t \in wait PROVE h = t
      OBVIOUS
    <3>2. t \in Masked
      BY <1>0, <3>1 DEF Masking
    <3>3. t <= h /\ h <= t /\ t \in Nat /\ h \in Nat
      BY <2>1, <2>2, <3>1, <3>2, HeapLockAssumption DEF IsHighest
    <3> QED BY <3>3
  <2>4. primask # "on" => t \notin wait
    BY <1>0 DEF Waiting
  <2>5. t \notin wait => pc[h] = "back" /\ h # t
    BY <1>0, <2>1, <2>2 DEF Waiting
  <2>6. OneToken'
    <3>1. CASE t \in wait
      <4>1. h = t
        BY <2>3, <2>4, <3>1
      <4>2. \A o \in Tasks : Owner(o)' <=> Owner(o)
        BY <1>0, <2>1, <3>1, <4>1 DEF TypeOK, Owner
      <4> QED BY <1>0, <2>1, <2>2, <4>2 DEF OneToken
    <3>2. CASE t \notin wait
      <4>1. \A o \in Tasks : Owner(o) => o = t
        BY <1>0, <2>2, <3>2 DEF OneToken, Owner
      <4>2. \A o \in Tasks : Owner(o)' <=> o = h
        BY <1>0, <2>1, <2>2, <2>5, <3>2, <4>1 DEF TypeOK, Owner
      <4> QED BY <2>1, <2>2, <4>2 DEF OneToken
    <3> QED BY <3>1, <3>2
  <2>7. TypeOK'
    BY <1>0, <2>1, <2>2 DEF TypeOK, Prios
  <2>8. Waiting'
    BY <1>0, <2>1, <2>2, <2>3, <2>4 DEF TypeOK, Waiting
  <2>9. ReadyList'
    <3>1. Idle \in ready'
      BY <1>0, <2>2 DEF ReadyList
    <3>2. ASSUME NEW o \in Tasks
          PROVE  o \in ready' <=> (o \notin wait' /\ pc'[o] # "away")
      BY <1>0, <2>1, <2>2, <2>3, <2>4, <2>5, <3>2 DEF TypeOK, ReadyList
    <3> QED BY <3>1, <3>2 DEF ReadyList
  <2>10. Masking'
    BY <1>0, <2>1, <2>2, <2>3 DEF TypeOK, Masking
  <2>11. Highest'
    BY <1>0, <2>2 DEF Highest
  <2> QED BY <2>6, <2>7, <2>8, <2>9, <2>10, <2>11 DEF IInv
<1> QED BY <1>1, <1>2

\* So does everything else that a task does.
LEMMA TaskStep ==
  ASSUME NEW t \in Tasks, IInv,
         UseHeap(t) \/ UseHeapMasked(t) \/ Unmask(t) \/ Leave(t) \/ Wake(t)
  PROVE  IInv'
<1>0. TypeOK /\ OneToken /\ Waiting /\ ReadyList /\ Masking /\ Highest
  BY DEF IInv
<1>1. UNCHANGED <<cnt, wait>> /\ \E v \in {"run", "away", "pend"} :
        pc' = [pc EXCEPT ![t] = v] /\ pc[t] \notin {"back", "in"}
  BY DEF UseHeap, UseHeapMasked, Unmask, Leave, Wake
<1>2. pc' \in [Tasks -> {"away", "run", "pend", "back", "in", "unmask"}]
  BY <1>0, <1>1 DEF TypeOK
<1>3. \A o \in Tasks : Owner(o)' <=> Owner(o)
  BY <1>0, <1>1 DEF TypeOK, Owner
<1>4. OneToken'
  BY <1>0, <1>1, <1>3 DEF OneToken
<1>5. t \notin wait
  BY <1>0, <1>1 DEF Waiting
<1>6. CASE UseHeap(t)
  <2>1. UNCHANGED <<ready, cur, primask>> /\ cur = t /\ pc[t] = "run"
        /\ pc' = [pc EXCEPT ![t] = "pend"]
    BY <1>6 DEF UseHeap
  <2>2. TypeOK' /\ Waiting' /\ ReadyList'
    BY <1>0, <1>1, <1>2, <1>5, <2>1 DEF TypeOK, Waiting, ReadyList
  <2>3. Masking' /\ Highest'
    BY <1>0, <1>1, <2>1 DEF TypeOK, Masking, Highest, IsHighest
  <2> QED BY <1>4, <2>2, <2>3 DEF IInv
<1>7. CASE UseHeapMasked(t)
  <2>1. UNCHANGED <<ready, cur>> /\ cur = t /\ pc[t] = "run" /\ t \in Masked
        /\ pc' = [pc EXCEPT ![t] = "pend"] /\ primask' = "on"
    BY <1>7 DEF UseHeapMasked
  <2>2. primask # "on"
    BY <1>0, <2>1 DEF Masking
  <2>3. TypeOK' /\ ReadyList'
    BY <1>0, <1>1, <1>2, <2>1 DEF TypeOK, ReadyList
  <2>4. Waiting'
    BY <1>0, <1>1, <1>5, <2>1, <2>2 DEF TypeOK, Waiting
  <2>5. Masking' /\ Highest'
    BY <1>0, <1>1, <2>1 DEF TypeOK, Masking, Highest
  <2> QED BY <1>4, <2>3, <2>4, <2>5 DEF IInv
<1>8. CASE Unmask(t)
  <2>1. /\ UNCHANGED ready /\ cur = t /\ pc[t] = "unmask"
        /\ pc' = [pc EXCEPT ![t] = "run"] /\ primask' = "off"
        /\ cur' \in Prios /\ IsHighest(cur', ready)
    BY <1>8 DEF Unmask
  <2>2. TypeOK' /\ ReadyList'
    BY <1>0, <1>1, <1>2, <2>1 DEF TypeOK, ReadyList
  <2>3. Waiting'
    BY <1>0, <1>1, <1>5, <2>1 DEF TypeOK, Waiting
  <2>4. Masking' /\ Highest'
    BY <1>0, <1>1, <2>1 DEF TypeOK, Masking, Highest, IsHighest
  <2> QED BY <1>4, <2>2, <2>3, <2>4 DEF IInv
<1>9. CASE Leave(t)
  <2>1. /\ cur = t /\ pc[t] = "run" /\ pc' = [pc EXCEPT ![t] = "away"]
        /\ UNCHANGED primask /\ OS_Sched(ready \ {t})
    BY <1>9 DEF Leave
  <2>2. primask # "on"
    BY <1>0, <2>1 DEF Masking
  <2>3. ready' = ready \ {t} /\ cur' \in Prios /\ IsHighest(cur', ready')
    BY <2>1, <2>2 DEF OS_Sched
  <2>4. TypeOK'
    BY <1>0, <1>1, <1>2, <2>1, <2>3 DEF TypeOK
  <2>5. ReadyList'
    BY <1>0, <1>1, <2>1, <2>3, HeapLockAssumption DEF TypeOK, ReadyList
  <2>6. Waiting'
    BY <1>0, <1>1, <1>5, <2>1, <2>2 DEF TypeOK, Waiting
  <2>7. Masking' /\ Highest'
    BY <1>0, <1>1, <2>1, <2>2, <2>3 DEF TypeOK, Masking, Highest
  <2> QED BY <1>4, <2>4, <2>5, <2>6, <2>7 DEF IInv
<1>10. CASE Wake(t)
  <2>1. /\ primask = "off" /\ pc[t] = "away" /\ pc' = [pc EXCEPT ![t] = "run"]
        /\ UNCHANGED primask /\ OS_Sched(ready \cup {t})
    BY <1>10 DEF Wake
  <2>2. ready' = ready \cup {t} /\ cur' \in Prios /\ IsHighest(cur', ready')
    BY <2>1 DEF OS_Sched
  <2>3. TypeOK'
    BY <1>0, <1>1, <1>2, <2>1, <2>2 DEF TypeOK, Prios
  <2>4. ReadyList'
    BY <1>0, <1>1, <1>5, <2>1, <2>2 DEF TypeOK, ReadyList
  <2>5. Waiting'
    BY <1>0, <1>1, <1>5, <2>1 DEF TypeOK, Waiting
  <2>6. Masking' /\ Highest'
    BY <1>0, <1>1, <2>1, <2>2 DEF TypeOK, Masking, Highest
  <2> QED BY <1>4, <2>3, <2>4, <2>5, <2>6 DEF IInv
<1> QED BY <1>6, <1>7, <1>8, <1>9, <1>10

\* The inductive invariant holds in every reachable state of the semaphore
\* (mem_sem under OSSemPend and OSSemPost).
THEOREM Inductive == Spec => []IInv
<1>1. ASSUME IInv, [Next]_vars PROVE IInv'
  <2>1. CASE Next
    <3>1. PICK t \in Tasks : Step(t) \/ Wake(t)
      BY <2>1 DEF Next
    <3> QED BY <1>1, <3>1, PendStep, ReturnStep, PostStep, TaskStep DEF Step
  <2>2. CASE UNCHANGED vars
    BY <1>1, <2>2
    DEF vars, IInv, TypeOK, OneToken, Owner, Waiting, ReadyList, Masking, Highest,
        IsHighest
  <2> QED BY <1>1, <2>1, <2>2
<1> QED BY <1>1, InitIInv, PTL DEF Spec

\* The semaphore of the heap never loses its token and never has two, not even
\* when a task has passed OSSemPend without one (os_sem.c:326-363, 491-503).
THEOREM TokenKept == Spec => []OneToken
  BY Inductive, PTL DEF IInv

\* Whoever is inside the heap beside another task allocates with interrupts
\* masked; without such tasks mem_sem excludes them from each other.
THEOREM Exclusion == Spec => []ExclusiveUnlessMasked
<1>1. IInv => ExclusiveUnlessMasked
  <2>1. SUFFICES ASSUME IInv, NEW s \in Tasks, NEW t \in Tasks,
                        s # t, pc[s] = "in", pc[t] = "in"
                 PROVE  primask = "on" /\ cur \in Masked \cap {s, t}
    BY DEF ExclusiveUnlessMasked
  <2>2. s \in wait \/ t \in wait
    BY <2>1 DEF IInv, OneToken, Owner
  <2> QED BY <2>1, <2>2 DEF IInv, Waiting, Masking
<1> QED BY <1>1, Inductive, PTL

\* The processor idles only when the heap is free and nobody waits for it: no
\* wakeup of OSSemPost is lost.
THEOREM NoLostWakeup == Spec => []IdleMeansFree
<1>1. IInv => IdleMeansFree
  <2>1. SUFFICES ASSUME IInv, cur = Idle PROVE cnt = 1 /\ wait = {}
    BY DEF IdleMeansFree
  <2>2. primask = "off" /\ IsHighest(Idle, ready)
    BY <2>1, HeapLockAssumption DEF IInv, TypeOK, Masking, Highest
  <2>3. \A o \in Tasks : o \notin ready
    BY <2>2, HeapLockAssumption DEF IsHighest
  <2>4. \A o \in Tasks : ~Owner(o)
    BY <2>1, <2>3 DEF IInv, ReadyList, Owner
  <2> QED BY <2>1, <2>4 DEF IInv, OneToken
<1> QED BY <1>1, Inductive, PTL

\* While interrupts are enabled the scheduler's lists are in order, also after
\* an OSSemPend that could not block (os_sem.c:339).
THEOREM ListsRecover == Spec => []RunsHighest
<1>1. IInv => RunsHighest
  <2>1. SUFFICES ASSUME IInv, primask = "off"
                 PROVE  /\ IsHighest(cur, ready)
                        /\ \A t \in Tasks : \/ t \in ready
                                            \/ pc[t] = "away"
                                            \/ t \in wait /\ pc[t] = "back"
    BY DEF RunsHighest
  <2>2. IsHighest(cur, ready)
    BY <2>1 DEF IInv, Highest
  <2>3. ASSUME NEW t \in Tasks
        PROVE  t \in ready \/ pc[t] = "away" \/ (t \in wait /\ pc[t] = "back")
    BY <2>1, <2>3 DEF IInv, ReadyList, Waiting
  <2> QED BY <2>2, <2>3
<1> QED BY <1>1, Inductive, PTL

\* mem_sem under any tasks, masked ones too: one token, no lost wakeup, and the
\* task of the highest priority runs.
THEOREM LockSound == Spec => []LockInv
<1>1. Spec => []TypeOK
  BY Inductive, PTL DEF IInv
<1> QED BY <1>1, TokenKept, NoLostWakeup, ListsRecover, PTL DEF LockInv

-----------------------------------------------------------------------------
(* Lowest                                                                  *)

\* Every set of naturals with a member has a least one.
LEMMA Least ==
  ASSUME NEW S \in SUBSET Nat, S # {}
  PROVE  \E x \in S : \A y \in S : x <= y
<1> DEFINE R == {ss \in Nat \X Nat : ss[1] < ss[2]}
<1>1. IsWellFoundedOn(R, Nat)
  BY NatLessThanWellFounded DEF OpToRel
<1>2. PICK x \in S : \A y \in S : ~(<<y, x>> \in R)
  <2> HIDE DEF R
  <2> QED BY <1>1, WFMin
<1>3. \A y \in S : ~(y < x)
  <2> TAKE y \in S
  <2>1. <<y, x>> \in R <=> y < x
    OBVIOUS
  <2> QED BY <2>1, <1>2
<1> QED BY <1>3

\* Lowest is the least member of a set of offsets,
LEMMA LowestIn ==
  ASSUME NEW S \in SUBSET Nat, S # {}
  PROVE  /\ Lowest(S) \in S
         /\ \A y \in S : Lowest(S) <= y
BY Least DEF Lowest

\* and nothing else is.
LEMMA LowestIs ==
  ASSUME NEW S \in SUBSET Nat, NEW x \in S, \A y \in S : x <= y
  PROVE  Lowest(S) = x
<1>1. Lowest(S) \in S /\ Lowest(S) <= x
  BY LowestIn
<1>2. Lowest(S) \in Nat /\ x \in Nat /\ x <= Lowest(S)
  BY <1>1
<1> QED BY <1>1, <1>2

-----------------------------------------------------------------------------
(* The list                                                                *)

\* The fields of a struct mem; `used' is a byte that is only ever 0 or 1.
Mem == [next : Nat, prev : Nat, used : {0, 1}]

\* The offsets where a struct mem may lie
Aligned == {o \in 0..MEM_SIZE : o % MEM_ALIGNMENT = 0}

\* `prev' leads to the block whose `next' leads back.
Backward(h) ==
    \A m \in Blocks(h) \ {0} :
        h.ram[m].prev \in Blocks(h) /\ h.ram[h.ram[m].prev].next = m

\* The list of blocks is in one piece, in both directions (mem.c:154-181).
Shape(h) ==
    /\ DOMAIN h.ram \in SUBSET Aligned
    /\ h.ram \in [DOMAIN h.ram -> Mem]
    /\ h.ram[MEM_SIZE].used = 1
    /\ Chained(h)
    /\ Backward(h)

\* mem_malloc rounds every size up to a multiple of 4 that is no smaller than
\* MIN_SIZE (mem.c:497-502).
LEMMA SizesAre ==
  ASSUME NEW n \in Sizes
  PROVE  AlignSize(n) \in Nat /\ AlignSize(n) >= MIN_SIZE /\ AlignSize(n) % MEM_ALIGNMENT = 0
BY HeapUseAssumption DEF AlignSize, MIN_SIZE, MEM_ALIGNMENT

\* What Shape says of one block
LEMMA BlockFacts ==
  ASSUME NEW h, Shape(h), NEW p \in Blocks(h)
  PROVE  /\ p \in Nat /\ p < MEM_SIZE /\ p % 4 = 0
         /\ h.ram[p].next \in DOMAIN h.ram /\ h.ram[p].next \in Nat /\ h.ram[p].next % 4 = 0
         /\ h.ram[p].next - p >= 20 /\ h.ram[p].next <= MEM_SIZE
         /\ h.ram[p].prev \in Nat /\ h.ram[p].used \in {0, 1}
         /\ \A o \in DOMAIN h.ram : o <= p \/ o >= h.ram[p].next
         /\ h.ram[p].next # MEM_SIZE => h.ram[h.ram[p].next].prev = p
BY MemHeapAssumption
   DEF Shape, Chained, Blocks, Mem, Aligned, SIZEOF_STRUCT_MEM, MIN_SIZE, MEM_ALIGNMENT

\* r is h with the blocks between p and after replaced by an unused one at q.
Linked(h, r, p, q, after, used) ==
    /\ DOMAIN r.ram = (DOMAIN h.ram \ {x \in DOMAIN h.ram : p < x /\ x < after}) \cup {q}
    /\ r.ram[q].used = 0 /\ r.ram[q].next = after
    /\ r.ram[p].used = used /\ r.ram[p].next = q
    /\ \A o \in DOMAIN r.ram \ {p, q} :
           r.ram[o].used = h.ram[o].used /\ r.ram[o].next = h.ram[o].next

\* A struct mem put between a block and its successor leaves the list in one
\* piece (mem.c:412-435, 445-455, 550-561).
LEMMA LinkShape ==
  ASSUME NEW h, Shape(h), NEW p \in Blocks(h), NEW after \in DOMAIN h.ram,
         NEW q \in Nat, NEW used \in {0, 1}, NEW r,
         q % 4 = 0, q - p >= 20, after - q >= 20,
         r.ram = Link(h.ram, p, q, after, used)
  PROVE  Shape(r) /\ Linked(h, r, p, q, after, used)
<1> DEFINE D == DOMAIN h.ram
           E == (D \ {x \in D : p < x /\ x < after}) \cup {q}
<1>1. /\ p \in Nat /\ p % 4 = 0 /\ p \in D /\ p # MEM_SIZE /\ after \in Nat /\ after <= MEM_SIZE
      /\ MEM_SIZE \in Nat /\ MEM_SIZE \in D /\ 0 \in D /\ D \in SUBSET Aligned /\ h.ram \in [D -> Mem]
      /\ p < q /\ q < after /\ p \in E /\ after \in E /\ q \in E /\ q \in Aligned
      /\ h.ram[0].prev = 0 /\ h.ram[MEM_SIZE].used = 1
  BY BlockFacts, MemHeapAssumption DEF Shape, Aligned, Blocks, Chained, MEM_ALIGNMENT
<1>2. DOMAIN r.ram = E
  BY DEF Link
<1>3. r.ram[q] = [next |-> after, prev |-> p, used |-> 0]
  BY <1>1 DEF Link, StructMem
<1>4. /\ r.ram[p].next = q /\ r.ram[p].used = used /\ r.ram[p].prev = h.ram[p].prev
      /\ r.ram[p] \in Mem
  BY <1>1 DEF Link, StructMem, Mem
<1>5. \A o \in E \ {p, q} :
        /\ o \in D
        /\ r.ram[o].next = h.ram[o].next /\ r.ram[o].used = h.ram[o].used
        /\ r.ram[o].prev = IF o = after /\ after # MEM_SIZE THEN q ELSE h.ram[o].prev
        /\ r.ram[o] \in Mem
  BY <1>1 DEF Link, StructMem, Mem
<1>6. E \in SUBSET Aligned /\ {0, MEM_SIZE} \subseteq E
  BY <1>1, MemHeapAssumption DEF Aligned, MEM_ALIGNMENT
<1>7. r.ram \in [E -> Mem]
  <2>1. r.ram = [o \in E |-> r.ram[o]]
    BY DEF Link
  <2>2. \A o \in E : r.ram[o] \in Mem
    BY <1>1, <1>3, <1>4, <1>5 DEF Mem
  <2> QED BY <2>1, <2>2
<1>8. r.ram[MEM_SIZE].used = 1 /\ r.ram[0].prev = 0
  BY <1>1, <1>3, <1>4, <1>5, <1>6
<1>13. \A o \in E : o \in Nat
  BY <1>6 DEF Aligned
<1> HIDE DEF E
<1>9. \A m \in E \ {MEM_SIZE} :
        /\ r.ram[m].next \in E
        /\ r.ram[m].next - m >= 20
        /\ \A o \in E : o <= m \/ o >= r.ram[m].next
        /\ r.ram[m].next # MEM_SIZE => r.ram[r.ram[m].next].prev = m
  <2> TAKE m \in E \ {MEM_SIZE}
  <2>1. CASE m = q
    BY <2>1, <1>1, <1>3, <1>5, <1>13 DEF E
  <2>2. CASE m = p
    BY <2>2, <1>1, <1>3, <1>4, <1>13 DEF E
  <2>3. CASE m # p /\ m # q
    <3>1. m \in Blocks(h) /\ m \in Nat
      BY <2>3, <1>5, <1>1 DEF Blocks, Aligned
    <3>2. /\ h.ram[m].next \in D /\ h.ram[m].next \in Nat /\ h.ram[m].next - m >= 20
          /\ h.ram[m].next <= MEM_SIZE
          /\ \A o \in D : o <= m \/ o >= h.ram[m].next
          /\ h.ram[m].next # MEM_SIZE => h.ram[h.ram[m].next].prev = m
      BY <3>1, BlockFacts
    <3>3. m < p \/ m >= after
      BY <2>3, <1>1, <1>5, <3>1 DEF E
    <3>4. CASE m < p
      <4>1. h.ram[m].next <= p /\ h.ram[m].next \in E \ {q}
        BY <3>1, <3>2, <3>4, <1>1 DEF E
      <4>2. \A o \in E : o <= m \/ o >= h.ram[m].next
        BY <4>1, <3>2, <1>1 DEF E
      <4>3. h.ram[m].next # MEM_SIZE /\ r.ram[h.ram[m].next].prev = m
        BY <4>1, <3>2, <1>1, <1>4, <1>5
      <4> QED BY <4>1, <4>2, <4>3, <3>2, <1>5, <2>3
    <3>5. CASE m >= after
      <4>1. h.ram[m].next > after /\ h.ram[m].next \in E \ {p, q}
        BY <3>1, <3>2, <3>5, <1>1 DEF E
      <4>2. \A o \in E : o <= m \/ o >= h.ram[m].next
        BY <3>2, <1>1, <3>5, <3>1 DEF E
      <4>3. h.ram[m].next # MEM_SIZE => r.ram[h.ram[m].next].prev = m
        BY <4>1, <3>2, <1>1, <1>5
      <4> QED BY <4>1, <4>2, <4>3, <3>2, <1>5, <2>3
    <3> QED BY <3>3, <3>4, <3>5
  <2> QED BY <2>1, <2>2, <2>3
<1>10. Chained(r)
  BY <1>2, <1>6, <1>8, <1>9 DEF Chained, Blocks, SIZEOF_STRUCT_MEM, MIN_SIZE
<1>11. Backward(r)
  <2> SUFFICES ASSUME NEW m \in E \ {MEM_SIZE, 0}
               PROVE  r.ram[m].prev \in E \ {MEM_SIZE} /\ r.ram[r.ram[m].prev].next = m
    BY <1>2 DEF Backward, Blocks
  <2>1. CASE m = q
    BY <2>1, <1>1, <1>3, <1>4
  <2>2. CASE m = after
    BY <2>2, <1>1, <1>3, <1>5
  <2>3. CASE m # q /\ m # after
    <3>1. m \in Blocks(h) \ {0}
      BY <2>3, <1>1, <1>5 DEF Blocks
    <3>2. h.ram[m].prev \in Blocks(h) /\ h.ram[h.ram[m].prev].next = m
      BY <3>1 DEF Shape, Backward
    <3> DEFINE o == h.ram[m].prev
    <3>3. r.ram[m].prev = o
      BY <2>3, <1>1, <1>4, <1>5
    <3>4. o \in D /\ o \in Nat /\ m \in Nat /\ m - o >= 20 /\ \A x \in D : x <= o \/ x >= m
      BY <3>2, BlockFacts DEF Blocks
    <3>5. o # p
      <4>1. after >= m /\ p < m => FALSE
        BY <2>3, <1>1, <3>4 DEF E
      <4> QED BY <4>1, <3>4, <1>1
    <3>6. o < p \/ o >= after
      <4>1. m <= p \/ m > after
        BY <2>3, <1>1, <3>4 DEF E
      <4> QED BY <4>1, <3>4, <3>5, <1>1
    <3>7. o \in E /\ o # q
      BY <3>4, <3>6, <1>1 DEF E
    <3> QED BY <3>2, <3>3, <3>5, <3>7, <1>5 DEF Blocks
  <2> QED BY <2>1, <2>2, <2>3
<1>12. Shape(r)
  BY <1>2, <1>6, <1>7, <1>8, <1>10, <1>11 DEF Shape
<1> QED BY <1>2, <1>3, <1>4, <1>5, <1>12 DEF E, Linked

\* So does taking out the struct mem of a block's successor (mem.c:236-256).
LEMMA MergeShape ==
  ASSUME NEW h, Shape(h), NEW p \in Blocks(h), NEW q \in Blocks(h), h.ram[p].next = q,
         NEW r, r = Merge(h, p, q)
  PROVE  /\ Shape(r)
         /\ DOMAIN r.ram = DOMAIN h.ram \ {q}
         /\ r.ram[p].next = h.ram[q].next
         /\ \A o \in DOMAIN r.ram : r.ram[o].used = h.ram[o].used
         /\ \A o \in DOMAIN r.ram \ {p} : r.ram[o].next = h.ram[o].next
         /\ r.lfree = IF h.lfree = q THEN p ELSE h.lfree
<1> DEFINE D == DOMAIN h.ram
           E == D \ {q}
           after == h.ram[q].next
<1>1. /\ p \in Nat /\ q \in Nat /\ p \in D /\ p # MEM_SIZE /\ q # MEM_SIZE /\ q - p >= 20
      /\ after \in Nat /\ after \in D /\ after <= MEM_SIZE /\ after - q >= 20
      /\ MEM_SIZE \in Nat /\ MEM_SIZE \in D /\ 0 \in D /\ D \in SUBSET Aligned /\ h.ram \in [D -> Mem]
      /\ h.ram[0].prev = 0 /\ h.ram[MEM_SIZE].used = 1 /\ h.ram[q].prev = p
      /\ p \in E /\ after \in E /\ 0 \in E /\ MEM_SIZE \in E
      /\ \A o \in D : o \in Nat /\ (o <= p \/ o >= q) /\ (o <= q \/ o >= after)
  BY BlockFacts, MemHeapAssumption DEF Shape, Aligned, Blocks, Chained
<1>2. DOMAIN r.ram = E
  BY DEF Merge
<1>3. /\ r.ram[p].next = after /\ r.ram[p].used = h.ram[p].used /\ r.ram[p].prev = h.ram[p].prev
      /\ r.ram[p] \in Mem
  BY <1>1 DEF Merge, StructMem, Mem
<1>4. \A o \in E \ {p} :
        /\ o \in D
        /\ r.ram[o].next = h.ram[o].next /\ r.ram[o].used = h.ram[o].used
        /\ r.ram[o].prev = IF o = after THEN p ELSE h.ram[o].prev
        /\ r.ram[o] \in Mem
  BY <1>1 DEF Merge, StructMem, Mem
<1>5. r.ram \in [E -> Mem]
  <2>1. r.ram = [o \in E |-> r.ram[o]]
    BY DEF Merge
  <2>2. \A o \in E : r.ram[o] \in Mem
    BY <1>3, <1>4
  <2> QED BY <2>1, <2>2
<1>6. r.ram[MEM_SIZE].used = 1 /\ r.ram[0].prev = 0
  BY <1>1, <1>3, <1>4
<1>7. \A m \in E \ {MEM_SIZE} :
        /\ r.ram[m].next \in E
        /\ r.ram[m].next - m >= 20
        /\ \A o \in E : o <= m \/ o >= r.ram[m].next
        /\ r.ram[m].next # MEM_SIZE => r.ram[r.ram[m].next].prev = m
  <2> TAKE m \in E \ {MEM_SIZE}
  <2>1. CASE m = p
    BY <2>1, <1>1, <1>3, <1>4
  <2>2. CASE m # p
    <3>1. m \in Blocks(h) /\ m \in Nat
      BY <2>2, <1>1 DEF Blocks
    <3>2. /\ h.ram[m].next \in D /\ h.ram[m].next \in Nat /\ h.ram[m].next - m >= 20
          /\ \A o \in D : o <= m \/ o >= h.ram[m].next
          /\ h.ram[m].next # MEM_SIZE => h.ram[h.ram[m].next].prev = m
      BY <3>1, BlockFacts
    <3>3. h.ram[m].next # q /\ h.ram[m].next # after
      BY <3>1, <3>2, <2>2, <1>1
    <3> QED BY <3>2, <3>3, <2>2, <1>3, <1>4
  <2> QED BY <2>1, <2>2
<1>8. Chained(r)
  BY <1>1, <1>2, <1>6, <1>7 DEF Chained, Blocks, SIZEOF_STRUCT_MEM, MIN_SIZE
<1>9. Backward(r)
  <2> SUFFICES ASSUME NEW m \in E \ {MEM_SIZE, 0}
               PROVE  r.ram[m].prev \in E \ {MEM_SIZE} /\ r.ram[r.ram[m].prev].next = m
    BY <1>2 DEF Backward, Blocks
  <2>1. CASE m = after
    BY <2>1, <1>1, <1>3, <1>4
  <2>2. CASE m # after
    <3>1. h.ram[m].prev \in Blocks(h) /\ h.ram[h.ram[m].prev].next = m
      BY DEF Shape, Backward, Blocks
    <3>2. r.ram[m].prev = h.ram[m].prev
      BY <2>2, <1>3, <1>4
    <3>3. h.ram[m].prev # q /\ h.ram[m].prev # p
      BY <3>1, <2>2
    <3> QED BY <3>1, <3>2, <3>3, <1>4 DEF Blocks
  <2> QED BY <2>1, <2>2
<1>10. E \in SUBSET Aligned
  BY <1>1
<1>11. r.lfree = IF h.lfree = q THEN p ELSE h.lfree
  BY DEF Merge
<1> QED BY <1>2, <1>3, <1>4, <1>5, <1>6, <1>8, <1>9, <1>10, <1>11 DEF Shape

\* A block only changes its mark.
Mark1(ram, p, used) == [ram EXCEPT ![p].used = used]

\* r is h with the `used' of p set.
Marked(h, r, p, used) ==
    /\ DOMAIN r.ram = DOMAIN h.ram
    /\ r.ram[p].used = used
    /\ \A o \in DOMAIN r.ram \ {p} : r.ram[o].used = h.ram[o].used
    /\ \A o \in DOMAIN r.ram : r.ram[o].next = h.ram[o].next

\* Setting `used' changes nothing else.
LEMMA MarkShape ==
  ASSUME NEW h, Shape(h), NEW p \in Blocks(h), NEW used \in {0, 1},
         NEW r, r.ram = Mark1(h.ram, p, used)
  PROVE  Shape(r) /\ Marked(h, r, p, used)
<1> DEFINE D == DOMAIN h.ram
<1>1. /\ p \in D /\ p # MEM_SIZE /\ D \in SUBSET Aligned /\ h.ram \in [D -> Mem]
      /\ MEM_SIZE \in D /\ 0 \in D /\ h.ram[MEM_SIZE].used = 1
  BY DEF Shape, Blocks, Chained
<1>2. /\ DOMAIN r.ram = D /\ r.ram \in [D -> Mem]
      /\ \A o \in D : /\ r.ram[o].next = h.ram[o].next /\ r.ram[o].prev = h.ram[o].prev
                      /\ r.ram[o].used = IF o = p THEN used ELSE h.ram[o].used
  BY <1>1 DEF Mem, Mark1
<1>3. Chained(r)
  BY <1>1, <1>2 DEF Shape, Chained, Blocks
<1>4. Backward(r)
  BY <1>1, <1>2 DEF Shape, Backward, Blocks
<1> QED BY <1>1, <1>2, <1>3, <1>4 DEF Shape, Marked

-----------------------------------------------------------------------------
(* The operations                                                          *)

\* lfree is the lowest unused block, or ram_end.
LowFree(h) ==
    /\ h.lfree \in Unused(h) \cup {MEM_SIZE}
    /\ \A p \in Unused(h) : h.lfree <= p

\* The blocks in use are the same in h and in r, apart from the one at m.
Others(h, r, m) ==
    /\ \A o \in Blocks(h) \ {m} : h.ram[o].used = 1 =>
            o \in Blocks(r) /\ r.ram[o].used = 1 /\ r.ram[o].next = h.ram[o].next
    /\ \A o \in Blocks(r) \ {m} : r.ram[o].used = 1 =>
            o \in Blocks(h) /\ h.ram[o].used = 1

\* An unused struct mem is a block, as ram_end is in use.
LEMMA UnusedFacts ==
  ASSUME NEW h, Shape(h)
  PROVE  /\ Unused(h) \in SUBSET Nat
         /\ Unused(h) \subseteq Blocks(h)
         /\ \A p \in Unused(h) : p < MEM_SIZE /\ h.ram[p].used = 0
         /\ \A p \in Blocks(h) : p \in Unused(h) \/ h.ram[p].used = 1
<1>1. Unused(h) \subseteq Blocks(h)
  BY DEF Shape, Unused, Blocks
<1> QED BY <1>1, BlockFacts DEF Unused, Blocks

\* With LowFree, lfree is the lowest unused block (mem.c:331, 575-583).
LEMMA LowFreeIs ==
  ASSUME NEW h, Shape(h), LowFree(h)
  PROVE  LowestFree(h)
<1>1. Unused(h) \cup {MEM_SIZE} \in SUBSET Nat
  BY UnusedFacts, MemHeapAssumption
<1>2. \A y \in Unused(h) \cup {MEM_SIZE} : h.lfree <= y
  BY UnusedFacts, MemHeapAssumption DEF LowFree
<1> QED BY <1>1, <1>2, LowestIs DEF LowFree, LowestFree

\* While a block is unused lfree is one, and none lies below it.
LEMMA LowIn ==
  ASSUME NEW h, Shape(h), LowFree(h), NEW p \in Unused(h)
  PROVE  h.lfree \in Unused(h) /\ h.lfree \in Nat /\ h.lfree <= p
<1>1. h.lfree <= p /\ h.lfree \in Unused(h) \cup {MEM_SIZE}
  BY DEF LowFree
<1>2. p \in Nat /\ p < MEM_SIZE /\ MEM_SIZE \in Nat
  BY UnusedFacts, MemHeapAssumption
<1>3. h.lfree # MEM_SIZE
  BY <1>1, <1>2
<1> QED BY <1>1, <1>3, UnusedFacts

\* plug_holes, forward (mem.c:236-244): afterwards the only hole is the one in
\* front of m.
LEMMA ForwardShape ==
  ASSUME NEW h, Shape(h), LowFree(h), NEW m \in Unused(h),
         \A p \in Unused(h) : h.ram[p].next \in Unused(h) => m \in {p, h.ram[p].next},
         NEW r, r = PlugForward(h, m)
  PROVE  /\ Shape(r) /\ LowFree(r) /\ m \in Unused(r)
         /\ \A p \in Unused(r) : r.ram[p].next \in Unused(r) => r.ram[p].next = m
         /\ Others(h, r, m)
<1> DEFINE n == h.ram[m].next
<1>1. /\ m \in Blocks(h) /\ m \in Nat /\ n \in Nat /\ n > m /\ n \in DOMAIN h.ram
      /\ MEM_SIZE \in Nat /\ Unused(h) \in SUBSET Nat /\ h.ram[m].used = 0
      /\ \A p \in Unused(h) : p \in Blocks(h) /\ h.ram[p].used = 0
      /\ \A p \in Blocks(h) : p \in Unused(h) \/ h.ram[p].used = 1
  BY UnusedFacts, BlockFacts, MemHeapAssumption
<1>2. CASE n \in Unused(h)
  <2>1. n \in Blocks(h) /\ n # MEM_SIZE /\ h.ram[n].used = 0 /\ r = Merge(h, m, n)
    BY <1>1, <1>2 DEF PlugForward, Blocks
  <2>2. /\ Shape(r)
        /\ DOMAIN r.ram = DOMAIN h.ram \ {n}
        /\ r.ram[m].next = h.ram[n].next
        /\ \A o \in DOMAIN r.ram : r.ram[o].used = h.ram[o].used
        /\ \A o \in DOMAIN r.ram \ {m} : r.ram[o].next = h.ram[o].next
        /\ r.lfree = IF h.lfree = n THEN m ELSE h.lfree
    BY <2>1, <1>1, MergeShape
  <2>3. Unused(r) = Unused(h) \ {n}
    BY <2>2 DEF Unused
  <2>4. h.lfree <= m /\ h.lfree \in Unused(h) /\ r.lfree = h.lfree /\ h.lfree # n
    BY <1>1, <2>2, LowIn
  <2>5. LowFree(r)
    BY <2>3, <2>4 DEF LowFree
  <2>6. h.ram[n].next \in Nat /\ h.ram[n].next > n
    BY <2>1, BlockFacts, <1>1
  <2>7. h.ram[n].next \notin Unused(h)
    BY <1>1, <1>2, <2>6
  <2>8. \A p \in Unused(r) : r.ram[p].next \in Unused(r) => r.ram[p].next = m
    <3> SUFFICES ASSUME NEW p \in Unused(r), r.ram[p].next \in Unused(r)
                 PROVE  r.ram[p].next = m
      OBVIOUS
    <3>1. p # m
      BY <2>2, <2>3, <2>7
    <3>2. p \in Unused(h) /\ r.ram[p].next = h.ram[p].next /\ h.ram[p].next \in Unused(h)
      BY <3>1, <2>2, <2>3 DEF Unused
    <3> QED BY <3>1, <3>2
  <2>9. Others(h, r, m)
    <3> HIDE DEF n
    <3>1. \A o \in Blocks(h) \ {m} : h.ram[o].used = 1 => o \in DOMAIN r.ram \ {m}
      BY <2>1, <2>2 DEF Blocks
    <3>2. \A o \in Blocks(r) \ {m} : o \in DOMAIN r.ram \ {m} /\ o \in Blocks(h)
      BY <2>2 DEF Blocks
    <3> QED BY <3>1, <3>2, <2>2 DEF Others, Blocks
  <2> QED BY <2>2, <2>3, <2>5, <2>8, <2>9, <1>1
<1>3. CASE n \notin Unused(h)
  <2>1. r = h
    BY <1>1, <1>3 DEF PlugForward, Unused
  <2>2. Others(h, r, m)
    BY <2>1 DEF Others
  <2> QED BY <2>1, <2>2, <1>3
<1> QED BY <1>2, <1>3

\* plug_holes (mem.c:224-256): no hole is left, and no other block is touched.
LEMMA PlugShape ==
  ASSUME NEW h, Shape(h), LowFree(h), NEW m \in Unused(h),
         \A p \in Unused(h) : h.ram[p].next \in Unused(h) => m \in {p, h.ram[p].next},
         NEW r, r = plug_holes(h, m)
  PROVE  Shape(r) /\ LowFree(r) /\ NoHoles(r) /\ Others(h, r, m)
         /\ (m \in Blocks(r) => r.ram[m].used = 0)
<1> DEFINE f == PlugForward(h, m)
           p == f.ram[m].prev
<1>1. /\ Shape(f) /\ LowFree(f) /\ m \in Unused(f)
      /\ \A x \in Unused(f) : f.ram[x].next \in Unused(f) => f.ram[x].next = m
      /\ Others(h, f, m)
  BY ForwardShape
<1>2. r = PlugBackward(f, m)
  BY DEF plug_holes
<1> HIDE DEF f
<1>0. p = f.ram[m].prev
  OBVIOUS
<1> HIDE DEF p
<1>3. /\ m \in Blocks(f) /\ m \in Nat /\ f.ram[m].used = 0
      /\ \A x \in Unused(f) : x \in Blocks(f) /\ f.ram[x].used = 0 /\ x \in Nat
      /\ \A x \in Blocks(f) : x \in Unused(f) \/ f.ram[x].used = 1
  BY <1>1, UnusedFacts, BlockFacts
<1>4. CASE p # m /\ f.ram[p].used = 0
  <2>1. m # 0
    BY <1>0, <1>1, <1>4 DEF Shape, Chained
  <2>2. p \in Blocks(f) /\ f.ram[p].next = m
    BY <2>1, <1>0, <1>1, <1>3 DEF Shape, Backward
  <2>3. r = Merge(f, p, m)
    BY <1>0, <1>2, <1>4 DEF PlugBackward
  <2>4. /\ Shape(r)
        /\ DOMAIN r.ram = DOMAIN f.ram \ {m}
        /\ r.ram[p].next = f.ram[m].next
        /\ \A o \in DOMAIN r.ram : r.ram[o].used = f.ram[o].used
        /\ \A o \in DOMAIN r.ram \ {p} : r.ram[o].next = f.ram[o].next
        /\ r.lfree = IF f.lfree = m THEN p ELSE f.lfree
    <3>1. Shape(f) /\ m \in Blocks(f)
      BY <1>1, <1>3
    <3> QED BY <3>1, <2>2, <2>3, MergeShape
  <2>5. Unused(r) = Unused(f) \ {m} /\ p \in Unused(f) /\ p < m /\ p \in Nat
    BY <2>2, <2>4, <1>1, <1>3, <1>4, BlockFacts DEF Unused, Blocks
  <2>6. f.lfree \in Unused(f) /\ f.lfree <= p /\ f.lfree # m /\ r.lfree = f.lfree
    <3>1. f.lfree <= p /\ f.lfree \in Unused(f) /\ f.lfree \in Nat
      BY <2>5, <1>1, LowIn
    <3>2. f.lfree # m
      BY <3>1, <2>5, <1>3
    <3> QED BY <3>1, <3>2, <2>4
  <2>7. LowFree(r)
    BY <2>5, <2>6, <1>1 DEF LowFree
  <2>8. NoHoles(r)
    <3> SUFFICES ASSUME NEW x \in Unused(r), r.ram[x].next \in Unused(r)
                 PROVE  FALSE
      BY DEF NoHoles
    <3>1. CASE x = p
      <4>1. f.ram[m].next \in Unused(f) /\ f.ram[m].next # m
        BY <3>1, <2>4, <2>5
      <4> QED BY <4>1, <1>1
    <3>2. CASE x # p
      <4>1. r.ram[x].next = f.ram[x].next
        BY <3>2, <2>4 DEF Unused
      <4> QED BY <4>1, <2>5, <1>1
    <3> QED BY <3>1, <3>2
  <2>9. Others(h, r, m)
    <3>1. \A o \in Blocks(h) \ {m} : h.ram[o].used = 1 =>
            o \in Blocks(r) /\ r.ram[o].used = 1 /\ r.ram[o].next = h.ram[o].next
      BY <2>4, <2>5, <1>1, <1>3, <1>4 DEF Others, Blocks
    <3>2. \A o \in Blocks(r) \ {m} : r.ram[o].used = 1 => o \in Blocks(h) /\ h.ram[o].used = 1
      BY <2>4, <1>1 DEF Others, Blocks
    <3> QED BY <3>1, <3>2 DEF Others
  <2> QED BY <2>4, <2>7, <2>8, <2>9 DEF Blocks
<1>5. CASE ~(p # m /\ f.ram[p].used = 0)
  <2>1. r = f
    BY <1>0, <1>2, <1>5 DEF PlugBackward
  <2>2. NoHoles(f)
    <3> SUFFICES ASSUME NEW x \in Unused(f), f.ram[x].next \in Unused(f)
                 PROVE  FALSE
      BY DEF NoHoles
    <3>1. f.ram[x].next = m /\ x \in Blocks(f) /\ m # MEM_SIZE
      BY <1>1, <1>3 DEF Blocks
    <3>2. f.ram[f.ram[x].next].prev = x /\ f.ram[x].next - x >= 20 /\ x \in Nat
      BY <3>1, <1>1, BlockFacts
    <3>3. p = x /\ x # m
      BY <3>1, <3>2, <1>0, <1>3
    <3> QED BY <3>3, <1>3, <1>5
  <2> QED BY <2>1, <2>2, <1>1, <1>3
<1> QED BY <1>4, <1>5

\* mem_free before plug_holes (mem.c:327-332): holes are at m only.
LEMMA FreeShape ==
  ASSUME NEW h, Shape(h), LowFree(h), NoHoles(h), NEW m \in Blocks(h), h.ram[m].used = 1,
         NEW r, r = FreeMark(h, m)
  PROVE  /\ Shape(r) /\ LowFree(r) /\ m \in Unused(r)
         /\ \A p \in Unused(r) : r.ram[p].next \in Unused(r) => m \in {p, r.ram[p].next}
         /\ Others(h, r, m)
<1>1. r.ram = Mark1(h.ram, m, 0) /\ r.lfree = IF m < h.lfree THEN m ELSE h.lfree
  BY DEF FreeMark, Mark1
<1>2. /\ Shape(r)
      /\ DOMAIN r.ram = DOMAIN h.ram
      /\ r.ram[m].used = 0
      /\ \A o \in DOMAIN r.ram \ {m} : r.ram[o].used = h.ram[o].used
      /\ \A o \in DOMAIN r.ram : r.ram[o].next = h.ram[o].next
  <2>1. Shape(r) /\ Marked(h, r, m, 0)
    BY <1>1, MarkShape
  <2> QED BY <2>1 DEF Marked
<1>3. Unused(r) = Unused(h) \cup {m} /\ m \in Unused(r)
  BY <1>2 DEF Unused, Blocks
<1>4. \A p \in Unused(r) : p \in Nat
  BY <1>2, UnusedFacts
<1>5. h.lfree \in Nat /\ h.lfree \in Unused(h) \cup {MEM_SIZE} /\ m < MEM_SIZE /\ MEM_SIZE \in Nat
  BY UnusedFacts, BlockFacts, MemHeapAssumption DEF LowFree
<1>6. LowFree(r)
  <2>1. r.lfree \in Unused(r) \cup {MEM_SIZE}
    BY <1>1, <1>3, <1>5
  <2>2. \A p \in Unused(r) : r.lfree <= p
    BY <1>1, <1>3, <1>4, <1>5 DEF LowFree
  <2> QED BY <2>1, <2>2 DEF LowFree
<1>7. \A p \in Unused(r) : r.ram[p].next \in Unused(r) => m \in {p, r.ram[p].next}
  BY <1>2, <1>3 DEF NoHoles, Unused
<1>8. Others(h, r, m)
  BY <1>2 DEF Others, Blocks
<1> QED BY <1>2, <1>3, <1>6, <1>7, <1>8

\* mem_malloc's use of the block p it has found (mem.c:534-583): the block is
\* long enough, what is over becomes a block of its own, no hole arises.
LEMMA TakeShape ==
  ASSUME NEW h, Shape(h), LowFree(h), NoHoles(h), NEW p \in Unused(h),
         NEW size \in Nat, size >= 12, size % 4 = 0, Room(h, p) >= size,
         NEW r, r = MallocTake(h, p, size)
  PROVE  /\ Shape(r) /\ LowFree(r) /\ NoHoles(r) /\ Others(h, r, p)
         /\ p \in Blocks(r) /\ r.ram[p].used = 1 /\ Room(r, p) >= size
<1> DEFINE q == p + 8 + size
           after == h.ram[p].next
<1>1. /\ p \in Blocks(h) /\ p \in Nat /\ p % 4 = 0 /\ p < MEM_SIZE /\ h.ram[p].used = 0
      /\ after \in Nat /\ after \in DOMAIN h.ram /\ after <= MEM_SIZE /\ after >= p + 20
      /\ MEM_SIZE \in Nat /\ Room(h, p) = after - (p + 8)
      /\ \A o \in DOMAIN h.ram : o \in Nat /\ (o <= p \/ o >= after)
  BY UnusedFacts, BlockFacts, MemHeapAssumption
     DEF Room, SIZEOF_STRUCT_MEM, Shape, Aligned
<1>2. after \notin Unused(h)
  BY DEF NoHoles
<1>3. /\ Shape(r) /\ NoHoles(r) /\ Others(h, r, p)
      /\ p \in Blocks(r) /\ r.ram[p].used = 1 /\ Room(r, p) >= size
      /\ r.lfree = IF p = h.lfree THEN Lowest({o \in Unused(r) : o > p} \cup {MEM_SIZE})
                   ELSE h.lfree
      /\ Unused(h) \ {p} \subseteq Unused(r) /\ p \notin Unused(r)
      /\ \A o \in Unused(r) : o \in Unused(h) \/ o > p
  <2>1. CASE Splits(Room(h, p), size)
    <3>1. after - q >= 20 /\ q \in Nat /\ q % 4 = 0 /\ q - p >= 20
      BY <2>1, <1>1 DEF Splits, SIZEOF_STRUCT_MEM, MIN_SIZE
    <3>2. r.ram = Link(h.ram, p, q, after, 1)
      BY <2>1 DEF MallocTake, SIZEOF_STRUCT_MEM
    <3>3. /\ Shape(r)
          /\ DOMAIN r.ram = (DOMAIN h.ram \ {x \in DOMAIN h.ram : p < x /\ x < after}) \cup {q}
          /\ r.ram[q].used = 0 /\ r.ram[q].next = after
          /\ r.ram[p].used = 1 /\ r.ram[p].next = q
          /\ \A o \in DOMAIN r.ram \ {p, q} :
                 r.ram[o].used = h.ram[o].used /\ r.ram[o].next = h.ram[o].next
      <4> HIDE DEF q, after
      <4>1. Shape(r) /\ Linked(h, r, p, q, after, 1)
        BY <1>1, <3>1, <3>2, LinkShape
      <4> QED BY <4>1 DEF Linked
    <3>4. DOMAIN r.ram = DOMAIN h.ram \cup {q} /\ q \notin DOMAIN h.ram /\ q # p /\ q # MEM_SIZE
      BY <3>1, <3>3, <1>1
    <3>5. Unused(r) = (Unused(h) \ {p}) \cup {q}
      BY <3>3, <3>4 DEF Unused
    <3>6. NoHoles(r)
      <4> SUFFICES ASSUME NEW x \in Unused(r), r.ram[x].next \in Unused(r)
                   PROVE  FALSE
        BY DEF NoHoles
      <4>1. CASE x = q
        BY <4>1, <1>2, <3>3, <3>4, <3>5, <3>1
      <4>2. CASE x # q
        <5>1. x \in Unused(h) /\ r.ram[x].next = h.ram[x].next /\ h.ram[x].next \in DOMAIN h.ram
          BY <4>2, <3>3, <3>4, <3>5, UnusedFacts, BlockFacts DEF Unused
        <5> QED BY <5>1, <3>4, <3>5 DEF NoHoles
      <4> QED BY <4>1, <4>2
    <3>7. Others(h, r, p)
      BY <3>3, <3>4 DEF Others, Blocks
    <3>8. p \in Blocks(r) /\ Room(r, p) = size
      BY <3>3, <3>4, <1>1 DEF Blocks, Room, SIZEOF_STRUCT_MEM
    <3>9. r.lfree = IF p = h.lfree THEN Lowest({o \in Unused(r) : o > p} \cup {MEM_SIZE})
                    ELSE h.lfree
      BY <3>2, <2>1 DEF MallocTake, Unused, SIZEOF_STRUCT_MEM
    <3> QED BY <3>3, <3>4, <3>5, <3>6, <3>7, <3>8, <3>9, <3>1, <1>1
  <2>2. CASE ~Splits(Room(h, p), size)
    <3>1. r.ram = Mark1(h.ram, p, 1)
      BY <2>2 DEF MallocTake, Mark1
    <3>2. /\ Shape(r)
          /\ DOMAIN r.ram = DOMAIN h.ram
          /\ r.ram[p].used = 1
          /\ \A o \in DOMAIN r.ram \ {p} : r.ram[o].used = h.ram[o].used
          /\ \A o \in DOMAIN r.ram : r.ram[o].next = h.ram[o].next
      <4>1. Shape(r) /\ Marked(h, r, p, 1)
        BY <3>1, <1>1, MarkShape
      <4> QED BY <4>1 DEF Marked
    <3>3. Unused(r) = Unused(h) \ {p}
      BY <3>2 DEF Unused
    <3>4. NoHoles(r)
      BY <3>2, <3>3 DEF NoHoles, Unused
    <3>5. Others(h, r, p) /\ p \in Blocks(r) /\ Room(r, p) >= size
      BY <3>2, <1>1 DEF Others, Blocks, Room
    <3>6. r.lfree = IF p = h.lfree THEN Lowest({o \in Unused(r) : o > p} \cup {MEM_SIZE})
                    ELSE h.lfree
      BY <3>1, <2>2 DEF MallocTake, Unused
    <3> QED BY <3>2, <3>3, <3>4, <3>5, <3>6
  <2> QED BY <2>1, <2>2
<1>4. LowFree(r)
  <2>1. \A o \in Unused(r) : o \in Nat
    BY <1>3, UnusedFacts
  <2>2. CASE p = h.lfree
    <3> DEFINE S == {o \in Unused(r) : o > p} \cup {MEM_SIZE}
    <3>1. S \in SUBSET Nat /\ S # {}
      BY <1>1, <2>1
    <3>2. r.lfree \in S /\ \A y \in S : r.lfree <= y
      BY <3>1, <1>3, <2>2, LowestIn
    <3>3. \A o \in Unused(r) : o > p
      BY <1>1, <1>3, <2>1, <2>2 DEF LowFree
    <3> QED BY <3>2, <3>3 DEF LowFree
  <2>3. CASE p # h.lfree
    <3>1. h.lfree \in Unused(h) /\ h.lfree \in Nat /\ h.lfree <= p
      BY LowIn
    <3>2. r.lfree = h.lfree /\ r.lfree \in Unused(r)
      BY <3>1, <1>3, <2>3
    <3>3. \A o \in Unused(r) : r.lfree <= o
      BY <3>1, <3>2, <1>1, <1>3, <2>1 DEF LowFree
    <3> QED BY <3>2, <3>3 DEF LowFree
  <2> QED BY <2>2, <2>3
<1> QED BY <1>3, <1>4

\* An unused block put behind the block m, in the place of the unused ones of
\* `gone': no hole is left if the block behind it is in use.
LEMMA SplitOff ==
  ASSUME NEW h, NEW r, Shape(h), NoHoles(h), NEW m \in Blocks(h),
         NEW gone \in SUBSET Unused(h), NEW q, q \notin DOMAIN h.ram, q # m, m \notin gone,
         NEW after, after # q, after \notin Unused(h), NEW used, used # 0,
         DOMAIN r.ram = (DOMAIN h.ram \ gone) \cup {q},
         r.ram[q].used = 0, r.ram[q].next = after, r.ram[m].used = used, r.ram[m].next = q,
         h.ram[m].used # 0,
         \A o \in DOMAIN r.ram \ {m, q} :
             r.ram[o].used = h.ram[o].used /\ r.ram[o].next = h.ram[o].next
  PROVE  /\ Unused(r) = (Unused(h) \ gone) \cup {q}
         /\ NoHoles(r) /\ Others(h, r, m) /\ m \in Blocks(r)
<1>1. MEM_SIZE \in DOMAIN h.ram /\ m \in DOMAIN h.ram /\ m # MEM_SIZE
  BY DEF Shape, Chained, Blocks
<1>2. \A o \in DOMAIN h.ram : o \in Unused(h) <=> h.ram[o].used = 0
  BY DEF Unused
<1>3. \A o \in DOMAIN r.ram : o \in Unused(r) <=> r.ram[o].used = 0
  BY DEF Unused
<1>4. Unused(h) \subseteq DOMAIN h.ram /\ Unused(r) \subseteq DOMAIN r.ram
  BY DEF Unused
<1>5. Unused(r) = (Unused(h) \ gone) \cup {q}
  <2>1. m \notin Unused(r) /\ m \notin Unused(h) /\ q \in Unused(r) /\ q \notin Unused(h)
    BY <1>1, <1>2, <1>3, <1>4
  <2>2. \A o \in DOMAIN h.ram \ (gone \cup {m}) : o \in Unused(r) <=> o \in Unused(h)
    BY <1>2, <1>3
  <2> QED BY <2>1, <2>2, <1>4
<1>6. NoHoles(r)
  <2> SUFFICES ASSUME NEW x \in Unused(r), r.ram[x].next \in Unused(r)
               PROVE  FALSE
    BY DEF NoHoles
  <2>1. x # q
    BY <1>5
  <2>2. x \in Unused(h) /\ x # m /\ r.ram[x].next = h.ram[x].next
    BY <2>1, <1>2, <1>4, <1>5
  <2>3. h.ram[x].next \in DOMAIN h.ram
    BY <2>2, UnusedFacts, BlockFacts
  <2>4. h.ram[x].next \in Unused(h)
    BY <2>2, <2>3, <1>5
  <2> QED BY <2>2, <2>4 DEF NoHoles
<1>7. Others(h, r, m)
  <2>1. \A o \in Blocks(h) \ {m} : h.ram[o].used = 1 => o \in DOMAIN r.ram \ {m, q}
    BY <1>2, <1>4 DEF Blocks
  <2>2. \A o \in Blocks(r) \ {m} : r.ram[o].used = 1 => o \in DOMAIN r.ram \ {m, q}
    BY DEF Blocks
  <2> QED BY <2>1, <2>2, <1>1 DEF Others, Blocks
<1> QED BY <1>1, <1>5, <1>6, <1>7 DEF Blocks

\* mem_realloc (mem.c:396-458): the block keeps what its owner still wants, the
\* rest is given back, and no hole is left.
LEMMA ResizeShape ==
  ASSUME NEW h, Shape(h), LowFree(h), NoHoles(h), NEW m \in Blocks(h), h.ram[m].used = 1,
         NEW size \in Nat, size >= 12, size % 4 = 0, size < Room(h, m),
         NEW r, r = mem_realloc(h, m, size, Room(h, m))
  PROVE  /\ Shape(r) /\ LowFree(r) /\ NoHoles(r) /\ Others(h, r, m)
         /\ m \in Blocks(r) /\ r.ram[m].used = 1 /\ Room(r, m) >= size
<1> DEFINE n == h.ram[m].next
           q == m + 8 + size
           D == DOMAIN h.ram
<1>1. /\ m \in Nat /\ m < MEM_SIZE /\ n \in Nat /\ n \in D /\ n <= MEM_SIZE
      /\ MEM_SIZE \in Nat /\ MEM_SIZE \in D /\ m \in D
      /\ q \in Nat /\ q - m >= 20 /\ q < n
      /\ \A o \in D : o \in Nat /\ (o <= m \/ o >= n)
  <2>1. Room(h, m) = n - (m + 8)
    BY DEF Room, SIZEOF_STRUCT_MEM
  <2>2. m \in Nat /\ n \in Nat
    BY BlockFacts
  <2>3. q \in Nat /\ q - m >= 20 /\ q < n
    BY <2>1, <2>2
  <2>4. \A o \in D : o \in Nat /\ (o <= m \/ o >= n)
    BY BlockFacts DEF Shape, Aligned
  <2> QED BY <2>2, <2>3, <2>4, BlockFacts, MemHeapAssumption DEF Shape, Chained, Blocks
<1>2. q % 4 = 0
  <2>1. m \in Nat /\ m % 4 = 0
    BY BlockFacts
  <2> QED BY <2>1
<1>3. /\ m \notin Unused(h) /\ q \notin D /\ q # m /\ q # n /\ q # MEM_SIZE
      /\ \A o \in Unused(h) : o \in D /\ o \in Nat /\ o < MEM_SIZE /\ (o < m \/ o >= n)
  <2>1. q \notin D /\ q # m /\ q # n /\ q # MEM_SIZE
    <3> HIDE DEF q, n
    <3> QED BY <1>1
  <2>2. m \notin Unused(h) /\ \A o \in Unused(h) : o \in D /\ o \in Nat /\ o < MEM_SIZE
    BY UnusedFacts DEF Unused
  <2>3. \A o \in Unused(h) : o < m \/ o >= n
    <3> HIDE DEF q, n, D
    <3> QED BY <1>1, <2>2
  <2> QED BY <2>1, <2>2, <2>3
<1>4. ASSUME NEW after, NEW gone \in SUBSET Unused(h), NEW low,
             r = [ram |-> Link(h.ram, m, q, after, 1), lfree |-> low],
             after \in D, after \in Nat, after - q >= 20, after \notin Unused(h), m \notin gone,
             {x \in D : m < x /\ x < after} = gone,
             low \in (Unused(h) \ gone) \cup {q, MEM_SIZE}, low <= q,
             \A o \in Unused(h) \ gone : low <= o
      PROVE  /\ Shape(r) /\ LowFree(r) /\ NoHoles(r) /\ Others(h, r, m)
             /\ m \in Blocks(r) /\ r.ram[m].used = 1 /\ Room(r, m) >= size
  <2>1. r.ram = Link(h.ram, m, q, after, 1) /\ r.lfree = low
    BY <1>4
  <2>2. /\ Shape(r)
        /\ DOMAIN r.ram = (D \ gone) \cup {q}
        /\ r.ram[q].used = 0 /\ r.ram[q].next = after
        /\ r.ram[m].used = 1 /\ r.ram[m].next = q
        /\ \A o \in DOMAIN r.ram \ {m, q} :
               r.ram[o].used = h.ram[o].used /\ r.ram[o].next = h.ram[o].next
    <3> HIDE DEF q
    <3>1. Shape(r) /\ Linked(h, r, m, q, after, 1)
      BY <1>1, <1>2, <1>4, <2>1, LinkShape
    <3> QED BY <3>1, <1>4 DEF Linked
  <2>3. after # q
    <3> HIDE DEF q
    <3> QED BY <1>1, <1>4
  <2>4. /\ Unused(r) = (Unused(h) \ gone) \cup {q}
        /\ NoHoles(r) /\ Others(h, r, m) /\ m \in Blocks(r)
    <3> HIDE DEF q, n
    <3>1. q \notin DOMAIN h.ram /\ q # m /\ m \notin gone /\ after \notin Unused(h)
      BY <1>3, <1>4
    <3>2. 1 # 0
      OBVIOUS
    <3>3. DOMAIN r.ram = (DOMAIN h.ram \ gone) \cup {q}
      BY <2>2
    <3> QED BY <3>1, <3>2, <3>3, <2>2, <2>3, SplitOff
  <2>5. LowFree(r)
    <3> HIDE DEF q, n
    <3> QED BY <1>4, <2>1, <2>4 DEF LowFree
  <2>6. Room(r, m) = size
    <3>1. Room(r, m) = q - (m + 8)
      BY <2>2 DEF Room, SIZEOF_STRUCT_MEM
    <3> QED BY <3>1, <1>1
  <2> QED BY <2>2, <2>4, <2>5, <2>6
<1>5. CASE h.ram[n].used = 0
  <2> DEFINE after == h.ram[n].next
             low == IF h.lfree = n THEN q ELSE h.lfree
  <2>1. r = [ram |-> Link(h.ram, m, q, after, 1), lfree |-> low]
    BY <1>5 DEF mem_realloc, SIZEOF_STRUCT_MEM
  <2>2. n \in Unused(h) /\ n \in Blocks(h)
    BY <1>1, <1>5, UnusedFacts DEF Unused
  <2>3. /\ after \in Nat /\ after \in D /\ after - n >= 20 /\ after \notin Unused(h)
        /\ \A o \in D : o <= n \/ o >= after
    BY <2>2, BlockFacts DEF NoHoles
  <2>4. h.lfree \in Unused(h) /\ h.lfree \in Nat /\ h.lfree <= n
    BY <2>2, LowIn
  <2> HIDE DEF q, n, after, D
  <2>5. after - q >= 20
    BY <1>1, <2>3
  <2>9. {x \in D : m < x /\ x < after} = {n}
    <3>1. n \in D /\ m < n /\ n < after
      BY <1>1, <2>3
    <3>2. \A x \in D : m < x /\ x < after => x = n
      <4> SUFFICES ASSUME NEW x \in D, m < x, x < after PROVE x = n
        OBVIOUS
      <4>1. x \in Nat /\ (x <= m \/ x >= n) /\ (x <= n \/ x >= after)
        BY <1>1, <2>3
      <4> QED BY <4>1, <1>1, <2>3
    <3> QED BY <3>1, <3>2
  <2>6. low \in (Unused(h) \ {n}) \cup {q, MEM_SIZE} /\ low <= q
    BY <1>1, <1>3, <2>4
  <2>7. \A o \in Unused(h) \ {n} : low <= o
    <3> SUFFICES ASSUME NEW o \in Unused(h) \ {n} PROVE low <= o
      OBVIOUS
    <3>1. h.lfree <= o /\ o \in Nat
      BY <1>3 DEF LowFree
    <3> QED BY <3>1, <1>1, <1>3, <2>4
  <2>8. m \notin {n}
    BY <1>1
  <2> HIDE DEF low
  <2> QED BY <1>4, <2>1, <2>2, <2>3, <2>5, <2>6, <2>7, <2>8, <2>9
<1>6. CASE h.ram[n].used # 0 /\ Splits(Room(h, m), size)
  <2> DEFINE low == IF q < h.lfree THEN q ELSE h.lfree
  <2>1. r = [ram |-> Link(h.ram, m, q, n, 1), lfree |-> low]
    BY <1>6 DEF mem_realloc, SIZEOF_STRUCT_MEM
  <2>2. n - q >= 20
    <3>1. Room(h, m) = n - (m + 8)
      BY DEF Room, SIZEOF_STRUCT_MEM
    <3> QED BY <3>1, <1>1, <1>6 DEF Splits, SIZEOF_STRUCT_MEM, MIN_SIZE
  <2>3. n \notin Unused(h)
    BY <1>6 DEF Unused
  <2>4. h.lfree \in Unused(h) \cup {MEM_SIZE} /\ \A o \in Unused(h) : h.lfree <= o
    BY DEF LowFree
  <2> HIDE DEF q, n, D
  <2>5. {x \in D : m < x /\ x < n} = {}
    <3> SUFFICES ASSUME NEW x \in D, m < x, x < n PROVE FALSE
      OBVIOUS
    <3>1. x \in Nat /\ (x <= m \/ x >= n)
      BY <1>1
    <3> QED BY <3>1, <1>1
  <2>6. h.lfree \in Nat
    BY <1>1, <1>3, <2>4
  <2>7. low \in (Unused(h) \ {}) \cup {q, MEM_SIZE} /\ low <= q
    BY <1>1, <2>4, <2>6
  <2>8. \A o \in Unused(h) \ {} : low <= o
    BY <1>1, <1>3, <2>4, <2>6
  <2> HIDE DEF low
  <2> QED BY <1>1, <1>4, <2>1, <2>2, <2>3, <2>5, <2>7, <2>8
<1>7. CASE h.ram[n].used # 0 /\ ~Splits(Room(h, m), size)
  <2>1. r = h
    BY <1>7 DEF mem_realloc
  <2>2. Others(h, r, m)
    BY <2>1 DEF Others
  <2>3. Room(r, m) \in Int
    BY <2>1, <1>1 DEF Room, SIZEOF_STRUCT_MEM
  <2> HIDE DEF n, q, D
  <2> QED BY <2>1, <2>2, <2>3
<1> QED BY <1>5, <1>6, <1>7

-----------------------------------------------------------------------------
(* The invariant                                                           *)

\* The sizes that mem_malloc searches for
BlockSizes == {AlignSize(n) : n \in Sizes}

\* What the operation of t relies on
JobInv(t) ==
    /\ pc[t] \in {"away", "run", "unmask"} => job[t].op = "none"
    /\ job[t].op \in {"take", "plug"} => pc[t] = "in"
    /\ job[t].op \in {"malloc", "take"} => job[t].size \in BlockSizes
    /\ job[t].op = "take" => job[t].at \in Unused(heap) /\ Room(heap, job[t].at) >= job[t].size
    /\ job[t].op = "free" => job[t].at \in Blocks(heap) \ DOMAIN owned
    /\ job[t].op = "plug" => job[t].at \in Unused(heap)
    /\ job[t].op = "realloc" =>
          /\ job[t].at \in DOMAIN owned
          /\ job[t].size \in BlockSizes
          /\ job[t].size = owned[job[t].at]
          /\ job[t].size < Room(heap, job[t].at)
          /\ job[t].old = Room(heap, job[t].at)

\* Somebody is about to give the block at m back, or to shrink it.
Claims(t, m) == job[t].op \in {"free", "realloc"} /\ job[t].at = m

\* A block is given back or shrunk by one task at a time.
OneClaim == \A s, t \in Tasks, m \in Blocks(heap) : Claims(s, m) /\ Claims(t, m) => s = t

\* Unused blocks lie side by side only where mem_free is about to plug a hole.
HolesPlugged ==
    \A p \in Unused(heap) : heap.ram[p].next \in Unused(heap) =>
        \E t \in Tasks : job[t].op = "plug" /\ job[t].at \in {p, heap.ram[p].next}

\* A block is in use if somebody has it or is about to give it back.
Belongs(m) == m \in DOMAIN owned \/ \E t \in Tasks : job[t].op = "free" /\ job[t].at = m

\* Owners have blocks of at least the size they asked for, and exactly the
\* blocks that belong to somebody are in use.
Ownership ==
    /\ DOMAIN owned \subseteq Blocks(heap)
    /\ \A m \in DOMAIN owned : owned[m] \in Nat /\ owned[m] <= Room(heap, m)
    /\ \A m \in Blocks(heap) : heap.ram[m].used = 1 <=> Belongs(m)

\* What a task is doing in the heap
JobType ==
    \A t \in Tasks :
        job[t].op \in {"none", "malloc", "take", "free", "plug", "realloc"}

\* The heap, its blocks and the operations under way agree.
MemInv ==
    /\ job = [t \in Tasks |-> job[t]] /\ JobType
    /\ Shape(heap) /\ LowFree(heap)
    /\ HolesPlugged /\ Ownership /\ OneClaim
    /\ \A t \in Tasks : JobInv(t)

\* Where a task is with the semaphore
PcType == pc \in [Tasks -> {"away", "run", "pend", "back", "in", "unmask"}]

\* The inductive invariant: until a masked allocation meets somebody in the
\* heap (mem.c:509) everything is in order.
UseInv ==
    /\ intruded \in {"no", "yes"}
    /\ intruded = "no" => MemInv

\* The fields of a job
LEMMA JobFields ==
  ASSUME NEW op, NEW at, NEW size, NEW old
  PROVE  /\ Job(op, at, size, old).op = op /\ Job(op, at, size, old).at = at
         /\ Job(op, at, size, old).size = size /\ Job(op, at, size, old).old = old
BY DEF Job

\* Such a size leaves room for a block and its struct mem.
LEMMA BlockSizesAre ==
  ASSUME NEW size \in BlockSizes
  PROVE  size \in Nat /\ size >= 12 /\ size % 4 = 0
BY SizesAre DEF BlockSizes, MIN_SIZE, MEM_ALIGNMENT

\* t leaves "in" only by OSSemPost, and its call ends before that.
LEMMA LockSteps ==
  ASSUME PcType, NEW t \in Tasks, Signal(t) \/ Elsewhere(t)
  PROVE  /\ UNCHANGED memVars
         /\ \A s \in Tasks \ {t} : pc'[s] = pc[s]
         /\ pc[t] = "in" => job[t].op = "none"
         /\ pc'[t] \in {"away", "run", "unmask"} => 
                pc[t] \in {"away", "run", "unmask"} \/ job[t].op = "none"
<1>1. CASE Signal(t)
  BY <1>1 DEF Signal, OSSemPost, AfterPost, PcType
<1>2. CASE Elsewhere(t)
  BY <1>2 DEF Elsewhere, OSSemPend, OSSemPendReturns, Unmask, Leave, Wake, PcType
<1> QED BY <1>1, <1>2

\* What others rely on stays when the heap and the owners do.
LEMMA SameHeap ==
  ASSUME MemInv, PcType, NEW t \in Tasks, UNCHANGED <<heap, owned, job>>,
         \A s \in Tasks \ {t} : pc'[s] = pc[s],
         pc[t] = "in" => job[t].op = "none",
         pc'[t] \in {"away", "run", "unmask"} => 
             pc[t] \in {"away", "run", "unmask"} \/ job[t].op = "none"
  PROVE  MemInv'
<1>1. /\ JobType' /\ Shape(heap)' /\ LowFree(heap)' /\ HolesPlugged' /\ Ownership' /\ OneClaim'
      /\ (job = [s \in Tasks |-> job[s]])'
  BY DEF MemInv, JobType, Shape, LowFree, HolesPlugged, Ownership, Belongs, OneClaim, Claims
<1>2. \A s \in Tasks : JobInv(s)'
  <2> TAKE s \in Tasks
  <2>1. JobInv(s)
    BY DEF MemInv
  <2> QED BY <2>1 DEF JobInv
<1> QED BY <1>1, <1>2 DEF MemInv

-----------------------------------------------------------------------------
(* Calls                                                                   *)

\* A task calls the heap from its own code, and waits for the semaphore first.
LEMMA CallsPc ==
  ASSUME PcType, NEW t \in Tasks, UseHeap(t) \/ UseHeapMasked(t)
  PROVE  pc[t] = "run" /\ pc'[t] = "pend" /\ \A s \in Tasks \ {t} : pc'[s] = pc[s]
BY DEF PcType, UseHeap, UseHeapMasked

\* A call of mem_malloc keeps the invariant,
LEMMA CallMallocInv ==
  ASSUME MemInv, PcType, NEW t \in Tasks, CallMalloc(t)
  PROVE  MemInv'
<1>1. /\ pc[t] = "run" /\ pc'[t] = "pend" /\ \A s \in Tasks \ {t} : pc'[s] = pc[s]
      /\ UNCHANGED <<heap, owned>>
  BY CallsPc DEF CallMalloc
<1>2. PICK n \in Sizes : job' = [job EXCEPT ![t] = Job("malloc", 0, AlignSize(n), 0)]
  BY DEF CallMalloc
<1>3. /\ job' = [s \in Tasks |-> job'[s]]
      /\ job'[t].op = "malloc" /\ job'[t].size \in BlockSizes /\ job[t].op = "none"
      /\ \A s \in Tasks \ {t} : job'[s] = job[s]
  BY <1>1, <1>2, JobFields DEF MemInv, JobInv, BlockSizes
<1>4. JobType'
  BY <1>3 DEF MemInv, JobType
<1>5. Shape(heap)' /\ LowFree(heap)'
  BY <1>1 DEF MemInv, Shape, LowFree
<1>6. HolesPlugged' /\ Ownership' /\ OneClaim'
  BY <1>1, <1>3 DEF MemInv, HolesPlugged, Ownership, Belongs, OneClaim, Claims
<1>7. \A s \in Tasks : JobInv(s)'
  <2> TAKE s \in Tasks
  <2>1. JobInv(s)
    BY DEF MemInv
  <2> QED BY <2>1, <1>1, <1>3 DEF JobInv
<1> QED BY <1>3, <1>4, <1>5, <1>6, <1>7 DEF MemInv

\* Nobody else gives back or shrinks a block that its owner has.
LEMMA HoldsAlone ==
  ASSUME MemInv, NEW m, Holds(m)
  PROVE  m \in DOMAIN owned /\ m \in Blocks(heap) /\ \A s \in Tasks : ~Claims(s, m)
BY DEF Holds, Claims, MemInv, JobInv, Ownership

\* a call of mem_free does: the caller gives its block away,
LEMMA CallFreeInv ==
  ASSUME MemInv, PcType, NEW t \in Tasks, CallFree(t)
  PROVE  MemInv'
<1>1. /\ pc[t] = "run" /\ pc'[t] = "pend" /\ \A s \in Tasks \ {t} : pc'[s] = pc[s]
      /\ UNCHANGED heap
  BY CallsPc DEF CallFree
<1>2. PICK m \in DOMAIN owned :
        /\ Holds(m)
        /\ owned' = [o \in DOMAIN owned \ {m} |-> owned[o]]
        /\ job' = [job EXCEPT ![t] = Job("free", m, 0, 0)]
  BY DEF CallFree
<1>3. /\ job' = [s \in Tasks |-> job'[s]]
      /\ job'[t].op = "free" /\ job'[t].at = m /\ job[t].op = "none"
      /\ \A s \in Tasks \ {t} : job'[s] = job[s]
  BY <1>1, <1>2, JobFields DEF MemInv, JobInv
<1>4. /\ DOMAIN owned' = DOMAIN owned \ {m}
      /\ \A o \in DOMAIN owned \ {m} : owned'[o] = owned[o]
  BY <1>2
<1>5. m \in Blocks(heap) /\ \A s \in Tasks : ~Claims(s, m)
  BY <1>2, HoldsAlone
<1>6. JobType'
  BY <1>3 DEF MemInv, JobType
<1>7. Shape(heap)' /\ LowFree(heap)'
  BY <1>1 DEF MemInv, Shape, LowFree
<1>8. HolesPlugged'
  BY <1>1, <1>3 DEF MemInv, HolesPlugged
<1>9. Ownership'
  <2>1. \A o \in Blocks(heap) : Belongs(o)' <=> Belongs(o)
    BY <1>3, <1>4 DEF Belongs
  <2> QED BY <2>1, <1>1, <1>4 DEF MemInv, Ownership
<1>10. OneClaim'
  BY <1>1, <1>3, <1>5 DEF MemInv, OneClaim, Claims
<1>11. \A s \in Tasks : JobInv(s)'
  <2> TAKE s \in Tasks
  <2>1. JobInv(s)
    BY DEF MemInv
  <2>2. CASE s = t
    BY <2>2, <1>1, <1>3, <1>4, <1>5 DEF JobInv
  <2>3. CASE s # t
    BY <2>1, <2>3, <1>1, <1>3, <1>4, <1>5 DEF JobInv, Claims
  <2> QED BY <2>2, <2>3
<1> QED BY <1>3, <1>6, <1>7, <1>8, <1>9, <1>10, <1>11 DEF MemInv

\* and one of mem_realloc: the caller keeps it.
LEMMA CallReallocInv ==
  ASSUME MemInv, PcType, NEW t \in Tasks, CallRealloc(t)
  PROVE  MemInv'
<1>1. /\ pc[t] = "run" /\ pc'[t] = "pend" /\ \A s \in Tasks \ {t} : pc'[s] = pc[s]
      /\ UNCHANGED heap
  BY CallsPc DEF CallRealloc
<1>2. PICK m \in DOMAIN owned, n \in Sizes :
        /\ Holds(m)
        /\ AlignSize(n) <= owned[m]
        /\ AlignSize(n) < Room(heap, m)
        /\ owned' = [owned EXCEPT ![m] = AlignSize(n)]
        /\ job' = [job EXCEPT ![t] = Job("realloc", m, AlignSize(n), Room(heap, m))]
  BY DEF CallRealloc
<1>3. /\ job' = [s \in Tasks |-> job'[s]]
      /\ job'[t].op = "realloc" /\ job'[t].at = m /\ job'[t].size = AlignSize(n)
      /\ job'[t].old = Room(heap, m) /\ job[t].op = "none"
      /\ \A s \in Tasks \ {t} : job'[s] = job[s]
  BY <1>1, <1>2, JobFields DEF MemInv, JobInv
<1>4. /\ DOMAIN owned' = DOMAIN owned /\ owned'[m] = AlignSize(n)
      /\ \A o \in DOMAIN owned \ {m} : owned'[o] = owned[o]
  BY <1>2
<1>5. m \in Blocks(heap) /\ \A s \in Tasks : ~Claims(s, m)
  BY <1>2, HoldsAlone
<1>6. JobType'
  BY <1>3 DEF MemInv, JobType
<1>7. Shape(heap)' /\ LowFree(heap)'
  BY <1>1 DEF MemInv, Shape, LowFree
<1>8. HolesPlugged'
  BY <1>1, <1>3 DEF MemInv, HolesPlugged
<1>9. AlignSize(n) \in BlockSizes /\ AlignSize(n) \in Nat
  BY SizesAre DEF BlockSizes
<1>10. Ownership'
  <2>1. \A o \in Blocks(heap) : Belongs(o)' <=> Belongs(o)
    BY <1>3, <1>4 DEF Belongs
  <2>2. Room(heap, m) \in Int
    BY <1>5, BlockFacts DEF MemInv, Room, SIZEOF_STRUCT_MEM
  <2>3. \A o \in DOMAIN owned' : owned'[o] \in Nat /\ owned'[o] <= Room(heap', o)
    BY <2>2, <1>1, <1>2, <1>4, <1>9 DEF MemInv, Ownership
  <2> QED BY <2>1, <2>3, <1>1, <1>4 DEF MemInv, Ownership
<1>11. OneClaim'
  BY <1>1, <1>3, <1>5 DEF MemInv, OneClaim, Claims
<1>12. \A s \in Tasks : JobInv(s)'
  <2> TAKE s \in Tasks
  <2>1. JobInv(s)
    BY DEF MemInv
  <2>2. CASE s = t
    BY <2>2, <1>1, <1>2, <1>3, <1>4, <1>9 DEF JobInv
  <2>3. CASE s # t
    BY <2>1, <2>3, <1>1, <1>3, <1>4, <1>5 DEF JobInv, Claims
  <2> QED BY <2>2, <2>3
<1> QED BY <1>3, <1>6, <1>7, <1>8, <1>10, <1>11, <1>12 DEF MemInv

-----------------------------------------------------------------------------
(* Steps on the heap                                                       *)

\* As long as there has been no intrusion, whoever is at work is alone.
LEMMA Alone ==
  ASSUME MemInv, NEW t \in Tasks, NEW op, AtWork(t, op), intruded' = "no"
  PROVE  /\ job[t].op = op /\ pc[t] = "in" /\ pc' = pc /\ JobInv(t)
         /\ \A s \in Tasks \ {t} : pc[s] # "in" /\ job[s].op \notin {"take", "plug"}
         /\ op # "plug" => NoHoles(heap)
<1>1. /\ job[t].op = op /\ pc[t] = "in" /\ pc' = pc
      /\ \A s \in Tasks \ {t} : pc[s] # "in"
  BY DEF AtWork, vars
<1>2. \A s \in Tasks : JobInv(s)
  BY DEF MemInv
<1>3. \A s \in Tasks \ {t} : job[s].op \notin {"take", "plug"}
  BY <1>1, <1>2 DEF JobInv
<1>4. op # "plug" => NoHoles(heap)
  BY <1>1, <1>3 DEF MemInv, HolesPlugged, NoHoles
<1> QED BY <1>1, <1>2, <1>3, <1>4

\* What the blocks say about owners and calls
LEMMA Owners ==
  ASSUME MemInv
  PROVE  /\ \A m \in DOMAIN owned : m \in Blocks(heap) /\ heap.ram[m].used = 1
         /\ \A s \in Tasks : \A m : Claims(s, m) => m \in Blocks(heap) /\ heap.ram[m].used = 1
<1>1. \A m \in DOMAIN owned : m \in Blocks(heap) /\ heap.ram[m].used = 1
  BY DEF MemInv, Ownership, Belongs
<1>2. ASSUME NEW s \in Tasks, NEW m, Claims(s, m)
      PROVE  m \in Blocks(heap) /\ heap.ram[m].used = 1
  <2>1. JobInv(s)
    BY DEF MemInv
  <2>2. m \in Blocks(heap) /\ (job[s].op = "realloc" => m \in DOMAIN owned)
    BY <1>1, <1>2, <2>1 DEF JobInv, Claims
  <2>3. Belongs(m)
    BY <1>2, <2>2 DEF Claims, Belongs
  <2> QED BY <2>2, <2>3 DEF MemInv, Ownership
<1> QED BY <1>1, <1>2

\* t works on the block at m, that nobody else claims: others find what they
\* rely on as it was.
LEMMA OthersKept ==
  ASSUME MemInv, NEW t \in Tasks, NEW m, Others(heap, heap', m), Shape(heap'),
         \A s \in Tasks \ {t} : /\ job'[s] = job[s] /\ pc'[s] = pc[s]
                                /\ job[s].op \notin {"take", "plug"} /\ ~Claims(s, m),
         job'[t].op \in {"none", "plug"},
         DOMAIN owned' \subseteq DOMAIN owned \cup {m},
         \A o \in DOMAIN owned \ {m} : o \in DOMAIN owned' /\ owned'[o] = owned[o],
         m \in DOMAIN owned' =>
             m \in Blocks(heap') /\ owned'[m] \in Nat /\ owned'[m] <= Room(heap', m),
         m \in Blocks(heap') => (heap'.ram[m].used = 1 <=> m \in DOMAIN owned'),
         job[t].op = "free" => job[t].at = m
  PROVE  /\ \A s \in Tasks \ {t} : JobInv(s)'
         /\ Ownership' /\ OneClaim' /\ JobType'
<1>1. /\ \A o \in DOMAIN owned : o \in Blocks(heap) /\ heap.ram[o].used = 1
      /\ \A s \in Tasks : \A o : Claims(s, o) => o \in Blocks(heap) /\ heap.ram[o].used = 1
  BY Owners
<1>2. \A o \in Blocks(heap) \ {m} : heap.ram[o].used = 1 =>
        o \in Blocks(heap') /\ heap'.ram[o].used = 1 /\ Room(heap', o) = Room(heap, o)
  BY DEF Others, Room
<1>3. \A s \in Tasks \ {t} : JobInv(s)'
  <2> TAKE s \in Tasks \ {t}
  <2>1. JobInv(s)
    BY DEF MemInv
  <2>2. /\ job'[s] = job[s] /\ pc'[s] = pc[s] /\ job[s].op \notin {"take", "plug"}
        /\ ~Claims(s, m)
    OBVIOUS
  <2>3. CASE job[s].op = "free"
    <3>1. job[s].at # m /\ job[s].at \in Blocks(heap) /\ heap.ram[job[s].at].used = 1
      BY <1>1, <2>2, <2>3 DEF Claims
    <3>2. job[s].at \in Blocks(heap') /\ job[s].at \notin DOMAIN owned'
      BY <1>2, <2>1, <2>3, <3>1 DEF JobInv
    <3> QED BY <2>1, <2>2, <2>3, <3>2 DEF JobInv
  <2>4. CASE job[s].op = "realloc"
    <3>1. /\ job[s].at # m /\ job[s].at \in DOMAIN owned /\ job[s].at \in Blocks(heap)
          /\ heap.ram[job[s].at].used = 1
      BY <1>1, <2>1, <2>2, <2>4 DEF Claims, JobInv
    <3>2. /\ job[s].at \in DOMAIN owned' /\ owned'[job[s].at] = owned[job[s].at]
          /\ Room(heap', job[s].at) = Room(heap, job[s].at)
      BY <1>2, <3>1
    <3> QED BY <2>1, <2>2, <2>4, <3>2 DEF JobInv
  <2>5. CASE job[s].op \notin {"free", "realloc"}
    BY <2>1, <2>2, <2>5 DEF JobInv
  <2> QED BY <2>3, <2>4, <2>5
<1>4. Ownership'
  <2>1. DOMAIN owned' \subseteq Blocks(heap')
    BY <1>1, <1>2
  <2>2. \A o \in DOMAIN owned' : owned'[o] \in Nat /\ owned'[o] <= Room(heap', o)
    BY <1>1, <1>2 DEF MemInv, Ownership
  <2>3. \A o \in Blocks(heap') : heap'.ram[o].used = 1 <=> Belongs(o)'
    <3> TAKE o \in Blocks(heap')
    <3>1. CASE o = m
      <4>1. \A s \in Tasks : ~(job'[s].op = "free" /\ job'[s].at = m)
        BY DEF Claims
      <4> QED BY <3>1, <4>1 DEF Belongs
    <3>2. CASE o # m
      <4>1. Belongs(o)' <=> Belongs(o)
        BY <3>2, <1>1 DEF Belongs
      <4>2. Belongs(o) => o \in Blocks(heap)
        BY <1>1 DEF Belongs, Claims
      <4>3. o \in Blocks(heap) => (heap.ram[o].used = 1 <=> Belongs(o))
        BY DEF MemInv, Ownership
      <4> QED BY <4>1, <4>2, <4>3, <3>2 DEF Others
    <3> QED BY <3>1, <3>2
  <2> QED BY <2>1, <2>2, <2>3 DEF Ownership
<1>5. OneClaim'
  <2>1. \A s \in Tasks : \A o : Claims(s, o)' => s # t /\ Claims(s, o)
    BY DEF Claims
  <2> QED BY <2>1, <1>1 DEF MemInv, OneClaim
<1>6. JobType'
  BY DEF MemInv, JobType
<1> QED BY <1>3, <1>4, <1>5, <1>6

\* The search of mem_malloc finds a block that fits, or gives up (mem.c:515-535).
LEMMA SearchInv ==
  ASSUME MemInv, NEW t \in Tasks, Search(t), intruded' = "no"
  PROVE  MemInv'
<1> DEFINE fits == Fits(heap, job[t].size)
<1>1. /\ job[t].op = "malloc" /\ pc[t] = "in" /\ pc' = pc /\ JobInv(t)
      /\ \A s \in Tasks \ {t} : pc[s] # "in" /\ job[s].op \notin {"take", "plug"}
      /\ NoHoles(heap) /\ UNCHANGED <<heap, owned>>
  BY Alone DEF Search
<1>2. job' = [job EXCEPT ![t] = IF fits = {} THEN NoJob
                                ELSE Job("take", Lowest(fits), job[t].size, 0)]
  BY DEF Search
<1>3. /\ job' = [s \in Tasks |-> job'[s]]
      /\ \A s \in Tasks \ {t} : job'[s] = job[s]
      /\ job'[t] = IF fits = {} THEN NoJob ELSE Job("take", Lowest(fits), job[t].size, 0)
  BY <1>2 DEF MemInv
<1>4. /\ job'[t].op \in {"none", "take"}
      /\ job'[t].op = "take" => fits # {} /\ job'[t].at = Lowest(fits) /\ job'[t].size = job[t].size
  BY <1>3, JobFields DEF NoJob
<1>5. job'[t].op = "take" => job'[t].at \in Unused(heap) /\ Room(heap, job'[t].at) >= job'[t].size
  <2>1. fits \in SUBSET Nat
    BY UnusedFacts DEF Fits, MemInv
  <2>2. fits # {} => Lowest(fits) \in fits
    <3> HIDE DEF fits
    <3> QED BY <2>1, LowestIn
  <2> QED BY <1>4, <2>2 DEF Fits
<1>6. JobType'
  BY <1>3, <1>4 DEF MemInv, JobType
<1>7. Shape(heap)' /\ LowFree(heap)'
  BY <1>1 DEF MemInv, Shape, LowFree
<1>8. HolesPlugged' /\ Ownership' /\ OneClaim'
  BY <1>1, <1>3, <1>4 DEF MemInv, HolesPlugged, NoHoles, Ownership, Belongs, OneClaim, Claims
<1>9. \A s \in Tasks : JobInv(s)'
  <2> TAKE s \in Tasks
  <2>1. JobInv(s)
    BY DEF MemInv
  <2> QED BY <2>1, <1>1, <1>3, <1>4, <1>5 DEF JobInv
<1> QED BY <1>3, <1>6, <1>7, <1>8, <1>9 DEF MemInv

\* mem_malloc takes the block it has found.
LEMMA TakeInv ==
  ASSUME MemInv, NEW t \in Tasks, Take(t), intruded' = "no"
  PROVE  MemInv'
<1> DEFINE p == job[t].at
           size == job[t].size
<1>1. /\ job[t].op = "take" /\ pc[t] = "in" /\ pc' = pc /\ JobInv(t)
      /\ \A s \in Tasks \ {t} : pc[s] # "in" /\ job[s].op \notin {"take", "plug"}
      /\ NoHoles(heap) /\ Shape(heap) /\ LowFree(heap)
  BY Alone DEF Take, MemInv
<1>2. p \in Unused(heap) /\ Room(heap, p) >= size /\ size \in Nat /\ size >= 12 /\ size % 4 = 0
  BY <1>1, BlockSizesAre DEF JobInv
<1>3. heap' = MallocTake(heap, p, size)
  BY DEF Take
<1>4. /\ Shape(heap') /\ LowFree(heap') /\ NoHoles(heap') /\ Others(heap, heap', p)
      /\ p \in Blocks(heap') /\ heap'.ram[p].used = 1 /\ Room(heap', p) >= size
  <2> HIDE DEF p, size
  <2> QED BY <1>1, <1>2, <1>3, TakeShape
<1>5. job' = [job EXCEPT ![t] = NoJob]
  BY DEF Take
<1>6. /\ job' = [s \in Tasks |-> job'[s]] /\ \A s \in Tasks \ {t} : job'[s] = job[s]
      /\ job'[t].op = "none"
  BY <1>5, JobFields DEF MemInv, NoJob
<1>7. /\ DOMAIN owned' = DOMAIN owned \cup {p} /\ owned'[p] = size
      /\ \A o \in DOMAIN owned \ {p} : owned'[o] = owned[o]
  BY DEF Take
<1>8. \A s \in Tasks : ~Claims(s, p)
  BY <1>1, <1>2, Owners, UnusedFacts
<1>9. /\ \A s \in Tasks \ {t} : JobInv(s)'
      /\ Ownership' /\ OneClaim' /\ JobType'
  <2> HIDE DEF p, size
  <2>1. Room(heap', p) \in Int
    BY <1>4, BlockFacts DEF Room, SIZEOF_STRUCT_MEM
  <2>2. owned'[p] \in Nat /\ owned'[p] <= Room(heap', p)
    BY <1>2, <1>4, <1>7, <2>1
  <2> QED BY <1>1, <1>4, <1>6, <1>7, <1>8, <2>2, OthersKept
<1>10. JobInv(t)'
  BY <1>6 DEF JobInv
<1>11. HolesPlugged'
  BY <1>4 DEF HolesPlugged, NoHoles
<1>12. Shape(heap)' /\ LowFree(heap)'
  BY <1>4 DEF Shape, LowFree
<1> QED BY <1>6, <1>9, <1>10, <1>11, <1>12 DEF MemInv

\* mem_free marks the block unused.
LEMMA MarkInv ==
  ASSUME MemInv, NEW t \in Tasks, Mark(t), intruded' = "no"
  PROVE  MemInv'
<1> DEFINE m == job[t].at
<1>1. /\ job[t].op = "free" /\ pc[t] = "in" /\ pc' = pc /\ JobInv(t)
      /\ \A s \in Tasks \ {t} : pc[s] # "in" /\ job[s].op \notin {"take", "plug"}
      /\ NoHoles(heap) /\ Shape(heap) /\ LowFree(heap)
      /\ UNCHANGED owned
  BY Alone DEF Mark, MemInv
<1>2. heap' = FreeMark(heap, m) /\ job' = [job EXCEPT ![t] = Job("plug", m, 0, 0)]
  BY DEF Mark
<1>3. m \in Blocks(heap) /\ m \notin DOMAIN owned /\ Claims(t, m) /\ heap.ram[m].used = 1
  BY <1>1, Owners DEF JobInv, Claims
<1>4. /\ Shape(heap') /\ LowFree(heap') /\ m \in Unused(heap')
      /\ \A p \in Unused(heap') : heap'.ram[p].next \in Unused(heap') => m \in {p, heap'.ram[p].next}
      /\ Others(heap, heap', m)
  <2> HIDE DEF m
  <2> QED BY <1>1, <1>2, <1>3, FreeShape
<1>5. /\ job' = [s \in Tasks |-> job'[s]] /\ \A s \in Tasks \ {t} : job'[s] = job[s]
      /\ job'[t].op = "plug" /\ job'[t].at = m
  BY <1>2, JobFields DEF MemInv
<1>6. \A s \in Tasks \ {t} : ~Claims(s, m)
  BY <1>3 DEF MemInv, OneClaim
<1>7. heap'.ram[m].used = 0
  BY <1>4, UnusedFacts
<1>8. /\ \A s \in Tasks \ {t} : JobInv(s)'
      /\ Ownership' /\ OneClaim' /\ JobType'
  <2> HIDE DEF m
  <2>1. DOMAIN owned' = DOMAIN owned /\ \A o \in DOMAIN owned : owned'[o] = owned[o]
    BY <1>1
  <2>2. /\ m \notin DOMAIN owned'
        /\ m \in Blocks(heap') => (heap'.ram[m].used = 1 <=> m \in DOMAIN owned')
    BY <1>3, <1>7, <2>1
  <2>3. \A s \in Tasks \ {t} : /\ job'[s] = job[s] /\ pc'[s] = pc[s]
                               /\ job[s].op \notin {"take", "plug"} /\ ~Claims(s, m)
    BY <1>1, <1>5, <1>6
  <2>4. job'[t].op \in {"none", "plug"} /\ (job[t].op = "free" => job[t].at = m)
    BY <1>3, <1>5 DEF Claims
  <2> QED BY <1>4, <2>1, <2>2, <2>3, <2>4, OthersKept
<1>9. JobInv(t)'
  BY <1>1, <1>4, <1>5 DEF JobInv
<1>10. HolesPlugged'
  BY <1>4, <1>5 DEF HolesPlugged
<1>11. Shape(heap)' /\ LowFree(heap)'
  BY <1>4 DEF Shape, LowFree
<1> QED BY <1>5, <1>8, <1>9, <1>10, <1>11 DEF MemInv

\* plug_holes ends what mem_free has begun.
LEMMA PlugInv ==
  ASSUME MemInv, NEW t \in Tasks, Plug(t), intruded' = "no"
  PROVE  MemInv'
<1> DEFINE m == job[t].at
<1>1. /\ job[t].op = "plug" /\ pc[t] = "in" /\ pc' = pc /\ JobInv(t)
      /\ \A s \in Tasks \ {t} : pc[s] # "in" /\ job[s].op \notin {"take", "plug"}
      /\ Shape(heap) /\ LowFree(heap) /\ UNCHANGED owned
  BY Alone DEF Plug, MemInv
<1>2. heap' = plug_holes(heap, m) /\ job' = [job EXCEPT ![t] = NoJob]
  BY DEF Plug
<1>3. m \in Unused(heap) /\ m \notin DOMAIN owned /\ \A s \in Tasks : ~Claims(s, m)
  BY <1>1, Owners, UnusedFacts DEF JobInv
<1>4. \A p \in Unused(heap) : heap.ram[p].next \in Unused(heap) => m \in {p, heap.ram[p].next}
  BY <1>1 DEF MemInv, HolesPlugged
<1>5. /\ Shape(heap') /\ LowFree(heap') /\ NoHoles(heap') /\ Others(heap, heap', m)
      /\ (m \in Blocks(heap') => heap'.ram[m].used = 0)
  <2> HIDE DEF m
  <2> QED BY <1>1, <1>2, <1>3, <1>4, PlugShape
<1>6. /\ job' = [s \in Tasks |-> job'[s]] /\ \A s \in Tasks \ {t} : job'[s] = job[s]
      /\ job'[t].op = "none"
  BY <1>2, JobFields DEF MemInv, NoJob
<1>7. /\ \A s \in Tasks \ {t} : JobInv(s)'
      /\ Ownership' /\ OneClaim' /\ JobType'
  <2> HIDE DEF m
  <2> QED BY <1>1, <1>3, <1>5, <1>6, OthersKept
<1>8. JobInv(t)'
  BY <1>6 DEF JobInv
<1>9. HolesPlugged'
  BY <1>5 DEF HolesPlugged, NoHoles
<1>10. Shape(heap)' /\ LowFree(heap)'
  BY <1>5 DEF Shape, LowFree
<1> QED BY <1>6, <1>7, <1>8, <1>9, <1>10 DEF MemInv

\* mem_realloc gives the end of the block back.
LEMMA ResizeInv ==
  ASSUME MemInv, NEW t \in Tasks, Resize(t), intruded' = "no"
  PROVE  MemInv'
<1> DEFINE m == job[t].at
           size == job[t].size
<1>1. /\ job[t].op = "realloc" /\ pc[t] = "in" /\ pc' = pc /\ JobInv(t)
      /\ \A s \in Tasks \ {t} : pc[s] # "in" /\ job[s].op \notin {"take", "plug"}
      /\ NoHoles(heap) /\ Shape(heap) /\ LowFree(heap)
      /\ UNCHANGED owned
  BY Alone DEF Resize, MemInv
<1>2. /\ m \in DOMAIN owned /\ m \in Blocks(heap) /\ heap.ram[m].used = 1 /\ Claims(t, m)
      /\ size \in Nat /\ size >= 12 /\ size % 4 = 0 /\ size < Room(heap, m) /\ owned[m] = size
      /\ job[t].old = Room(heap, m)
  BY <1>1, Owners, BlockSizesAre DEF JobInv, Claims
<1>3. heap' = mem_realloc(heap, m, size, Room(heap, m)) /\ job' = [job EXCEPT ![t] = NoJob]
  BY <1>2 DEF Resize
<1>4. /\ Shape(heap') /\ LowFree(heap') /\ NoHoles(heap') /\ Others(heap, heap', m)
      /\ m \in Blocks(heap') /\ heap'.ram[m].used = 1 /\ Room(heap', m) >= size
  <2> HIDE DEF m, size
  <2> QED BY <1>1, <1>2, <1>3, ResizeShape
<1>5. /\ job' = [s \in Tasks |-> job'[s]] /\ \A s \in Tasks \ {t} : job'[s] = job[s]
      /\ job'[t].op = "none"
  BY <1>3, JobFields DEF MemInv, NoJob
<1>6. \A s \in Tasks \ {t} : ~Claims(s, m)
  BY <1>2 DEF MemInv, OneClaim
<1>7. /\ \A s \in Tasks \ {t} : JobInv(s)'
      /\ Ownership' /\ OneClaim' /\ JobType'
  <2> HIDE DEF m, size
  <2>1. Room(heap', m) \in Int
    BY <1>4, BlockFacts DEF Room, SIZEOF_STRUCT_MEM
  <2>2. owned'[m] \in Nat /\ owned'[m] <= Room(heap', m)
    BY <1>1, <1>2, <1>4, <2>1
  <2> QED BY <1>1, <1>2, <1>4, <1>5, <1>6, <2>2, OthersKept
<1>8. JobInv(t)'
  BY <1>5 DEF JobInv
<1>9. HolesPlugged'
  BY <1>4 DEF HolesPlugged, NoHoles
<1>10. Shape(heap)' /\ LowFree(heap)'
  BY <1>4 DEF Shape, LowFree
<1> QED BY <1>5, <1>7, <1>8, <1>9, <1>10 DEF MemInv

-----------------------------------------------------------------------------
(* The invariant holds                                                     *)

\* mem_init: one block, unused, as long as the heap (mem.c:262-290).
LEMMA InitUse ==
  ASSUME UseInit
  PROVE  UseInv
<1>1. /\ heap.lfree = 0 /\ DOMAIN heap.ram = {0, MEM_SIZE}
      /\ heap.ram[0] = [next |-> MEM_SIZE, prev |-> 0, used |-> 0]
      /\ heap.ram[MEM_SIZE] = [next |-> MEM_SIZE, prev |-> MEM_SIZE, used |-> 1]
      /\ heap.ram = [o \in {0, MEM_SIZE} |-> heap.ram[o]]
      /\ MEM_SIZE \in Nat /\ MEM_SIZE % 4 = 0 /\ MEM_SIZE > 20
  BY MemHeapAssumption
     DEF UseInit, mem_init, StructMem, MEM_ALIGNMENT, SIZEOF_STRUCT_MEM, MIN_SIZE
<1>2. /\ DOMAIN owned = {} /\ job = [t \in Tasks |-> job[t]]
      /\ \A t \in Tasks : job[t].op = "none"
  BY JobFields DEF UseInit, NoJob
<1>3. Blocks(heap) = {0} /\ Unused(heap) = {0}
  BY <1>1 DEF Blocks, Unused
<1>4. Chained(heap) /\ Backward(heap)
  BY <1>1, <1>3 DEF Chained, Backward, SIZEOF_STRUCT_MEM, MIN_SIZE
<1>5. heap.ram \in [DOMAIN heap.ram -> Mem] /\ DOMAIN heap.ram \in SUBSET Aligned
  BY <1>1 DEF Mem, Aligned, MEM_ALIGNMENT
<1>6. Shape(heap)
  BY <1>1, <1>4, <1>5 DEF Shape
<1>7. LowFree(heap) /\ HolesPlugged
  BY <1>1, <1>3 DEF LowFree, HolesPlugged
<1>8. Ownership /\ OneClaim
  BY <1>1, <1>2, <1>3 DEF Ownership, OneClaim, Belongs, Claims
<1>9. JobType /\ \A t \in Tasks : JobInv(t)
  BY <1>2 DEF JobType, JobInv
<1> QED BY <1>2, <1>6, <1>7, <1>8, <1>9 DEF UseInit, UseInv, MemInv

\* Every step of every task keeps the invariant.
LEMMA NextUse ==
  ASSUME UseInv, PcType, [UseNext]_useVars
  PROVE  UseInv'
<1>1. CASE UNCHANGED useVars
  <2>1. UNCHANGED <<heap, owned, job, intruded, pc>>
    BY <1>1 DEF useVars, memVars, vars
  <2>2. SUFFICES ASSUME intruded = "no" PROVE MemInv'
    BY <2>1 DEF UseInv
  <2>3. MemInv
    BY <2>2 DEF UseInv
  <2>4. /\ JobType' /\ Shape(heap)' /\ LowFree(heap)' /\ HolesPlugged' /\ Ownership'
        /\ OneClaim' /\ (job = [s \in Tasks |-> job[s]])'
    BY <2>1, <2>3
       DEF MemInv, JobType, Shape, LowFree, HolesPlugged, Ownership, Belongs, OneClaim, Claims
  <2>5. \A s \in Tasks : JobInv(s)'
    BY <2>1, <2>3 DEF MemInv, JobInv
  <2> QED BY <2>4, <2>5 DEF MemInv
<1>2. CASE UseNext
  <2>1. PICK t \in Tasks :
          \/ CallMalloc(t) \/ CallFree(t) \/ CallRealloc(t) \/ CallUnfollowed(t)
          \/ Search(t) \/ Take(t) \/ Mark(t) \/ Plug(t) \/ Resize(t)
          \/ Signal(t) \/ Elsewhere(t)
    BY <1>2 DEF UseNext
  <2>2. intruded' \in {"no", "yes"} /\ (intruded' = "no" => intruded = "no")
    BY <2>1
       DEF UseInv, CallMalloc, CallFree, CallRealloc, CallUnfollowed, Search, Take, Mark,
           Plug, Resize, Signal, Elsewhere, AtWork, memVars
  <2>3. SUFFICES ASSUME intruded' = "no" PROVE MemInv'
    BY <2>2 DEF UseInv
  <2>4. MemInv
    BY <2>2, <2>3 DEF UseInv
  <2>5. CASE CallMalloc(t) \/ CallFree(t) \/ CallRealloc(t)
    BY <2>4, <2>5, CallMallocInv, CallFreeInv, CallReallocInv
  <2>6. CASE CallUnfollowed(t)
    BY <2>2, <2>3, <2>6 DEF CallUnfollowed
  <2>7. CASE Search(t) \/ Take(t) \/ Mark(t) \/ Plug(t) \/ Resize(t)
    BY <2>3, <2>4, <2>7, SearchInv, TakeInv, MarkInv, PlugInv, ResizeInv
  <2>8. CASE Signal(t) \/ Elsewhere(t)
    <3>1. /\ UNCHANGED memVars
          /\ \A s \in Tasks \ {t} : pc'[s] = pc[s]
          /\ pc[t] = "in" => job[t].op = "none"
          /\ pc'[t] \in {"away", "run", "unmask"} =>
                 pc[t] \in {"away", "run", "unmask"} \/ job[t].op = "none"
      BY <2>8, LockSteps
    <3>2. UNCHANGED <<heap, owned, job>>
      BY <3>1 DEF memVars
    <3> QED BY <2>4, <3>1, <3>2, SameHeap
  <2> QED BY <2>1, <2>5, <2>6, <2>7, <2>8
<1> QED BY <1>1, <1>2

\* The tasks of HeapUse take the semaphore as those of HeapLock do: a step on
\* the heap is no step of the semaphore, any other is one.
LEMMA LockStep ==
  ASSUME [UseNext]_useVars
  PROVE  [Next]_vars
<1>1. CASE UNCHANGED useVars
  BY <1>1 DEF useVars
<1>2. CASE UseNext
  <2>1. PICK t \in Tasks :
          \/ CallMalloc(t) \/ CallFree(t) \/ CallRealloc(t) \/ CallUnfollowed(t)
          \/ Search(t) \/ Take(t) \/ Mark(t) \/ Plug(t) \/ Resize(t)
          \/ Signal(t) \/ Elsewhere(t)
    BY <1>2 DEF UseNext
  <2>2. CASE CallMalloc(t) \/ CallFree(t) \/ CallRealloc(t) \/ CallUnfollowed(t)
    BY <2>2 DEF CallMalloc, CallFree, CallRealloc, CallUnfollowed, Step, Next
  <2>3. CASE Search(t) \/ Take(t) \/ Mark(t) \/ Plug(t) \/ Resize(t)
    BY <2>3 DEF Search, Take, Mark, Plug, Resize, AtWork
  <2>4. CASE Signal(t) \/ Elsewhere(t)
    BY <2>4 DEF Signal, Elsewhere, Step, Next
  <2> QED BY <2>1, <2>2, <2>3, <2>4
<1> QED BY <1>1, <1>2

\* What holds of the semaphore alone (HeapLock) holds of the tasks at work on
\* the heap: they add no step to it.
THEOREM UsesTheLock == UseSpec => Spec
<1>1. UseInit => Init
  BY DEF UseInit
<1>2. [UseNext]_useVars => [Next]_vars
  BY LockStep
<1> QED BY <1>1, <1>2, PTL DEF UseSpec, Spec

\* The inductive invariant of the heap, in every state before an intrusion
THEOREM HeapInductive == UseSpec => [](PcType /\ UseInv)
<1>1. UseSpec => []PcType
  <2>1. IInv => PcType
    BY DEF IInv, TypeOK, PcType
  <2> QED BY <2>1, UsesTheLock, Inductive, PTL
<1>2. UseInit => UseInv
  BY InitUse
<1>3. UseInv /\ PcType /\ [UseNext]_useVars => UseInv'
  BY NextUse
<1> QED BY <1>1, <1>2, <1>3, PTL DEF UseSpec

-----------------------------------------------------------------------------
(* What the users of the heap can rely on                                  *)

\* The lock is in order under the operations on the heap, too (os_sem.c).
THEOREM LockSoundInUse == UseSpec => []LockInv
BY UsesTheLock, LockSound, PTL

\* Only a task that allocates with interrupts masked meets somebody inside the
\* heap (mem.c:509).
THEOREM ExclusionInUse == UseSpec => []ExclusiveUnlessMasked
BY UsesTheLock, Exclusion, PTL

\* Until a masked allocation meets somebody in the heap, its blocks tile it,
\* no hole is left, lfree is the lowest unused block, and every block in use
\* is its owner's in full (mem.c:224-256, 331, 396-458, 534-583).
THEOREM HeapSound == UseSpec => []BlocksSound
<1>1. ASSUME PcType, UseInv PROVE BlocksSound
  <2>1. SUFFICES ASSUME intruded = "no"
                 PROVE  /\ Chained(heap) /\ LowestFree(heap) /\ (Quiet => NoHoles(heap))
                        /\ UsedIsOwned
    BY DEF BlocksSound, HeapInOrder, UsedIsOwned
  <2>2. MemInv
    BY <1>1, <2>1 DEF UseInv
  <2>3. Chained(heap) /\ LowestFree(heap)
    BY <2>2, LowFreeIs DEF MemInv, Shape
  <2>4. ASSUME Quiet PROVE NoHoles(heap)
    <3>1. \A t \in Tasks : job[t].op # "plug"
      BY <2>2, <2>4 DEF MemInv, JobInv, Quiet
    <3> QED BY <2>2, <3>1 DEF MemInv, HolesPlugged, NoHoles
  <2>5. UsedIsOwned
    BY <2>2 DEF UsedIsOwned, MemInv, Ownership, Belongs, JobInv
  <2> QED BY <2>3, <2>4, <2>5
<1> QED BY <1>1, HeapInductive, PTL

\* mem_malloc returns NULL only when no unused block is large enough: the walk
\* from lfree to MEM_SIZE - size passes over none (mem.c:520).
LEMMA SearchMissesNone ==
  ASSUME NEW h, Shape(h), LowFree(h), NEW size \in Nat, Fits(h, size) = {},
         NEW p \in Unused(h)
  PROVE  Room(h, p) < size
<1>1. /\ p \in Nat /\ p < MEM_SIZE /\ h.lfree <= p /\ MEM_SIZE \in Nat
      /\ h.ram[p].next \in Nat /\ h.ram[p].next <= MEM_SIZE
  BY UnusedFacts, BlockFacts, MemHeapAssumption DEF LowFree
<1>2. ~(h.lfree <= p /\ p < MEM_SIZE - size /\ Room(h, p) >= size)
  BY DEF Fits
<1> QED BY <1>1, <1>2 DEF Room, SIZEOF_STRUCT_MEM

\* mem_malloc gives up only when no unused block is long enough, so lfree
\* never makes it pass over one (mem.c:515-583).
THEOREM FailsOnlyFull == UseSpec => FailsOnlyWhenFull
<1>1. ASSUME PcType, UseInv, [UseNext]_useVars
      PROVE  [\A t \in Tasks :
                intruded = "no" /\ job[t].op = "malloc" /\ job'[t].op = "none" =>
                    \A p \in Unused(heap) : Room(heap, p) < job[t].size]_useVars
  <2>1. SUFFICES ASSUME UseNext, NEW t \in Tasks, intruded = "no",
                        job[t].op = "malloc", job'[t].op = "none",
                        NEW p \in Unused(heap)
                 PROVE  Room(heap, p) < job[t].size
    BY <1>1
  <2>2. MemInv /\ JobInv(t)
    BY <1>1, <2>1 DEF UseInv, MemInv
  <2>3. pc[t] \in {"pend", "back", "in"} /\ job[t].size \in Nat
    BY <1>1, <2>1, <2>2, BlockSizesAre DEF JobInv, PcType
  <2>4. PICK s \in Tasks :
          \/ CallMalloc(s) \/ CallFree(s) \/ CallRealloc(s) \/ CallUnfollowed(s)
          \/ Search(s) \/ Take(s) \/ Mark(s) \/ Plug(s) \/ Resize(s)
          \/ Signal(s) \/ Elsewhere(s)
    BY <2>1 DEF UseNext
  <2>5. job' # job
    BY <2>1
  <2>6. s = t
    <3>1. s # t => job'[t] = job[t]
      BY <2>2, <2>4, <2>5
         DEF MemInv, CallMalloc, CallFree, CallRealloc, CallUnfollowed, Search, Take, Mark,
             Plug, Resize, Signal, Elsewhere, memVars
    <3> QED BY <2>1, <3>1
  <2>7. Search(t)
    <3>1. ~CallMalloc(t) /\ ~CallFree(t) /\ ~CallRealloc(t)
      BY <1>1, <2>3, CallsPc DEF CallMalloc, CallFree, CallRealloc
    <3>2. ~Take(t) /\ ~Mark(t) /\ ~Plug(t) /\ ~Resize(t)
      BY <2>1 DEF Take, Mark, Plug, Resize, AtWork
    <3>3. ~CallUnfollowed(t) /\ ~Signal(t) /\ ~Elsewhere(t)
      BY <2>5 DEF CallUnfollowed, Signal, Elsewhere, memVars
    <3> QED BY <2>4, <2>6, <3>1, <3>2, <3>3
  <2>8. Fits(heap, job[t].size) = {}
    <3>1. job'[t] = IF Fits(heap, job[t].size) = {} THEN NoJob
                    ELSE Job("take", Lowest(Fits(heap, job[t].size)), job[t].size, 0)
      BY <2>2, <2>7 DEF Search, MemInv
    <3> QED BY <2>1, <3>1, JobFields
  <2> QED BY <2>2, <2>3, <2>8, SearchMissesNone DEF MemInv
<1> QED BY <1>1, HeapInductive, PTL DEF UseSpec, FailsOnlyWhenFull

\* What mem_malloc takes is inside the heap and apart from what others have.
LEMMA TakeApart ==
  ASSUME MemInv, NEW p \in Unused(heap), NEW size \in Nat, Room(heap, p) >= size
  PROVE  /\ p \in Aligned
         /\ p + size <= MEM_SIZE - SIZEOF_STRUCT_MEM
         /\ \A n \in DOMAIN owned : AL!Apart(p, size, n, owned[n])
<1>1. /\ p \in Blocks(heap) /\ heap.ram[p].used = 0 /\ Shape(heap)
      /\ p \in Nat /\ heap.ram[p].next \in Nat /\ heap.ram[p].next <= MEM_SIZE
      /\ \A o \in DOMAIN heap.ram : o <= p \/ o >= heap.ram[p].next
  BY UnusedFacts, BlockFacts DEF MemInv
<1>2. p \in Aligned
  BY <1>1 DEF Shape, Blocks
<1>3. p + size <= heap.ram[p].next - 8
  BY <1>1 DEF Room, SIZEOF_STRUCT_MEM
<1>4. ASSUME NEW n \in DOMAIN owned PROVE AL!Apart(p, size, n, owned[n])
  <2>1. /\ n \in Blocks(heap) /\ heap.ram[n].used = 1 /\ owned[n] \in Nat
        /\ owned[n] <= Room(heap, n)
    BY Owners DEF MemInv, Ownership
  <2>2. /\ n \in Nat /\ heap.ram[n].next \in Nat
        /\ \A o \in DOMAIN heap.ram : o <= n \/ o >= heap.ram[n].next
    BY <1>1, <2>1, BlockFacts
  <2>3. n # p /\ n \in DOMAIN heap.ram /\ p \in DOMAIN heap.ram
    BY <1>1, <2>1 DEF Blocks
  <2>4. n + owned[n] <= heap.ram[n].next - 8
    BY <2>1, <2>2 DEF Room, SIZEOF_STRUCT_MEM
  <2>5. n + owned[n] <= p \/ p + size <= n
    BY <1>1, <1>3, <2>1, <2>2, <2>3, <2>4
  <2> QED BY <2>5 DEF AL!Apart
<1> QED BY <1>1, <1>2, <1>3, <1>4, MemHeapAssumption DEF SIZEOF_STRUCT_MEM

\* Until a masked allocation meets somebody in the heap, mem_malloc, mem_free
\* and mem_realloc are an allocator: every step that changes what callers have
\* is a Give, a GiveBack or a Shrink (mem.c:297-458, 482-601).
THEOREM HeapAllocates == UseSpec => IsAllocator
<1>1. ASSUME PcType, UseInv, [UseNext]_useVars
      PROVE  [intruded' = "no" => AL!Next]_owned
  <2>1. SUFFICES ASSUME owned' # owned, intruded' = "no" PROVE AL!Next
    OBVIOUS
  <2>2. PICK t \in Tasks : CallFree(t) \/ CallRealloc(t) \/ Take(t)
    BY <1>1, <2>1
       DEF UseNext, useVars, memVars, CallMalloc, CallUnfollowed, Search, Mark, Plug, Resize,
           Signal, Elsewhere
  <2>3. intruded = "no" /\ MemInv
    BY <1>1, <2>1, <2>2 DEF UseInv, CallFree, CallRealloc, Take, AtWork
  <2>4. CASE CallFree(t)
    BY <2>4 DEF CallFree, AL!Next, AL!GiveBack
  <2>5. CASE CallRealloc(t)
    <3>1. PICK m \in DOMAIN owned, n \in Sizes :
            AlignSize(n) <= owned[m] /\ owned' = [owned EXCEPT ![m] = AlignSize(n)]
      BY <2>5 DEF CallRealloc
    <3>2. AL!Shrink(m, AlignSize(n))
      BY <3>1 DEF AL!Shrink
    <3> QED BY <3>2 DEF AL!Next
  <2>6. CASE Take(t)
    <3> DEFINE p == job[t].at
               size == job[t].size
    <3>1. JobInv(t) /\ job[t].op = "take"
      BY <2>3, <2>6 DEF MemInv, Take, AtWork
    <3>2. /\ size \in BlockSizes /\ size \in Nat
          /\ p \in Unused(heap) /\ Room(heap, p) >= size
      BY <3>1, BlockSizesAre DEF JobInv
    <3>3. owned' = [o \in DOMAIN owned \cup {p} |-> IF o = p THEN size ELSE owned[o]]
      BY <2>6 DEF Take
    <3> HIDE DEF p, size
    <3>4. AL!Give(p, size)
      BY <2>3, <3>2, <3>3, TakeApart DEF AL!Give
    <3>5. p \in Aligned
      BY <2>3, <3>2, TakeApart
    <3> QED BY <3>2, <3>4, <3>5 DEF AL!Next, Aligned, BlockSizes
  <2> QED BY <2>2, <2>4, <2>5, <2>6
<1> QED BY <1>1, HeapInductive, PTL DEF UseSpec, IsAllocator

=============================================================================
