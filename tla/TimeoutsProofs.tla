-------------------------- MODULE TimeoutsProofs --------------------------
(***************************************************************************)
(* For any handlers, intervals, bounds and word length that satisfy the    *)
(* assumption of Timeouts: the delta list never loses, doubles or delays a *)
(* timer, and is an implementation of the timers of module Timers.         *)
(***************************************************************************)
EXTENDS Timeouts, WellFoundedInduction, SequenceTheorems,
        FiniteSetTheorems, TLAPS

-----------------------------------------------------------------------------
(* Induction                                                               *)

\* Every set of naturals with a member has a least one.
LEMMA Least ==
  ASSUME NEW S \in SUBSET Nat, S # {}
  PROVE  \E x \in S : \A y \in S : x <= y
<1> DEFINE R == {ss \in Nat \X Nat : ss[1] < ss[2]}
<1>1. IsWellFoundedOn(R, Nat)
  BY NatLessThanWellFounded DEF OpToRel
<1>2. PICK x \in S : \A y \in S : ~(<<y, x>> \in R)
  <2> HIDE DEF R
  <2> QED BY <1>1, WFMin
<1>3. \A y \in S : ~(y < x)
  <2> TAKE y \in S
  <2>1. <<y, x>> \in R <=> y < x
    OBVIOUS
  <2> QED BY <2>1, <1>2
<1> QED BY <1>3

-----------------------------------------------------------------------------
(* The time of an entry from the head                                      *)

\* struct sys_timeo with any time
Entries == [h : Handlers, time : Nat]

\* The fields of an entry
LEMMA EntryIs ==
  ASSUME NEW h, NEW time
  PROVE  /\ Entry(h, time).h = h /\ Entry(h, time).time = time
         /\ h \in Handlers /\ time \in Nat => Entry(h, time) \in Entries
BY DEF Entry, Entries

\* The entries of a list, one by one
LEMMA EntryTimes ==
  ASSUME NEW l \in Seq(Entries)
  PROVE  /\ Len(l) \in Nat /\ DOMAIN l = 1..Len(l)
         /\ \A k \in 1..Len(l) :
                l[k] \in Entries /\ l[k].time \in Nat /\ l[k].h \in Handlers
<1>1. Len(l) \in Nat /\ DOMAIN l = 1..Len(l) /\ \A k \in 1..Len(l) : l[k] \in Entries
  BY LenProperties, ElementOfSeq
<1> QED BY <1>1 DEF Entries

\* A recursive function on 0..n is what its definition says: sum, on the times
\* of l. (A function of that kind exists; it is built up from 0.)
LEMMA ExpiryIs ==
  ASSUME NEW l \in Seq(Entries)
  PROVE  /\ Expiry(l, 0) = 0
         /\ \A k \in 1..Len(l) : Expiry(l, k) = Expiry(l, k - 1) + l[k].time
         /\ \A k \in 0..Len(l) : Expiry(l, k) \in Nat
<1> DEFINE Good(n, f) ==
             f \in [0..n -> Nat] /\ f[0] = 0 /\ \A k \in 1..n : f[k] = f[k - 1] + l[k].time
           Bad == {n \in 0..Len(l) : ~ \E f : Good(n, f)}
           rhs(g) == [k \in 0..Len(l) |-> IF k = 0 THEN 0 ELSE g[k - 1] + l[k].time]
           sum == CHOOSE g : g = rhs(g)
<1>1. Len(l) \in Nat /\ \A k \in 1..Len(l) : l[k].time \in Nat
  BY EntryTimes
<1>2. Bad = {}
  <2> SUFFICES ASSUME Bad # {} PROVE FALSE
    OBVIOUS
  <2>1. PICK n \in Bad : \A m \in Bad : n <= m
    <3>1. Bad \in SUBSET Nat
      BY <1>1
    <3> QED BY <3>1, Least
  <2>2. n # 0
    <3>1. Good(0, [k \in 0..0 |-> 0])
      OBVIOUS
    <3> QED BY <3>1
  <2>3. n \in 1..Len(l) /\ n \in Nat /\ n - 1 \in 0..Len(l) /\ n - 1 \notin Bad
    <3>1. n \in 0..Len(l)
      BY <2>1
    <3> HIDE DEF Bad
    <3>2. n \in 1..Len(l) /\ n \in Nat /\ n - 1 \in 0..Len(l) /\ ~(n <= n - 1)
      BY <1>1, <2>2, <3>1
    <3> QED BY <2>1, <3>2
  <2>4. PICK f : Good(n - 1, f)
    BY <2>3
  <2> DEFINE g == [k \in 0..n |-> IF k = n THEN f[n - 1] + l[n].time ELSE f[k]]
  <2>5. /\ n - 1 \in Nat /\ f \in [0..(n - 1) -> Nat] /\ f[0] = 0
        /\ \A k \in 1..(n - 1) : f[k] = f[k - 1] + l[k].time
        /\ f[n - 1] \in Nat /\ l[n].time \in Nat
    BY <1>1, <2>3, <2>4
  <2>6. Good(n, g)
    BY <2>3, <2>5, SMTT(30)
  <2> QED BY <2>6, <2>1
<1>3. PICK f : Good(Len(l), f)
  BY <1>1, <1>2
<1>4. f = rhs(f)
  BY <1>1, <1>3
<1>5. sum = rhs(sum)
  <2> HIDE DEF rhs, Good
  <2> QED BY <1>4
<1>6. \A k \in 0..Len(l) : Expiry(l, k) = sum[k]
  BY DEF Expiry
<1> HIDE DEF sum, Good, Bad
<1>7. sum[0] = 0 /\ \A k \in 1..Len(l) : sum[k] = sum[k - 1] + l[k].time
  BY <1>1, <1>5
<1>8. \A k \in 0..Len(l) : sum[k] \in Nat
  <2> DEFINE Wrong == {k \in 0..Len(l) : sum[k] \notin Nat}
  <2> SUFFICES ASSUME Wrong # {} PROVE FALSE
    OBVIOUS
  <2>1. PICK k \in Wrong : \A m \in Wrong : k <= m
    <3>1. Wrong \in SUBSET Nat
      BY <1>1
    <3> QED BY <3>1, Least
  <2>2. k # 0 /\ k \in 1..Len(l) /\ k - 1 \in 0..Len(l) /\ k - 1 \notin Wrong
    BY <1>1, <1>7, <2>1
  <2> QED BY <1>1, <1>7, <2>1, <2>2
<1> QED BY <1>1, <1>6, <1>7, <1>8, SMTT(30)

\* The times are the only ones with those differences.
LEMMA ExpiryOnly ==
  ASSUME NEW l \in Seq(Entries), NEW f, f[0] = 0,
         \A k \in 1..Len(l) : f[k] = f[k - 1] + l[k].time
  PROVE  \A k \in 0..Len(l) : Expiry(l, k) = f[k]
<1> DEFINE Wrong == {k \in 0..Len(l) : Expiry(l, k) # f[k]}
<1> SUFFICES ASSUME Wrong # {} PROVE FALSE
  OBVIOUS
<1>1. PICK k \in Wrong : \A m \in Wrong : k <= m
  <2>1. Wrong \in SUBSET Nat
    BY EntryTimes
  <2> QED BY <2>1, Least
<1>2. k # 0 /\ k \in 1..Len(l) /\ k - 1 \in 0..Len(l) /\ k - 1 \notin Wrong
  BY <1>1, ExpiryIs
<1> QED BY <1>1, <1>2, ExpiryIs

\* Later entries expire later.
LEMMA ExpiryGrows ==
  ASSUME NEW l \in Seq(Entries), NEW i \in 0..Len(l), NEW j \in i..Len(l)
  PROVE  Expiry(l, i) <= Expiry(l, j)
<1> DEFINE Wrong == {k \in 0..Len(l) : i <= k /\ ~(Expiry(l, i) <= Expiry(l, k))}
<1> SUFFICES ASSUME Wrong # {} PROVE FALSE
  OBVIOUS
<1>1. PICK k \in Wrong : \A m \in Wrong : k <= m
  <2>1. Wrong \in SUBSET Nat
    BY EntryTimes
  <2> QED BY <2>1, Least
<1>2. Expiry(l, i) \in Nat /\ k # i
  BY <1>1, ExpiryIs
<1>3. k \in 1..Len(l) /\ k - 1 \in 0..Len(l) /\ k - 1 \notin Wrong /\ i <= k - 1
  BY <1>1, <1>2
<1>4. l[k].time \in Nat
  BY <1>3, EntryTimes
<1>5. Expiry(l, k) = Expiry(l, k - 1) + l[k].time /\ Expiry(l, k - 1) \in Nat
  BY <1>3, ExpiryIs
<1>6. Expiry(l, i) <= Expiry(l, k - 1) /\ ~(Expiry(l, i) <= Expiry(l, k))
  BY <1>1, <1>3
<1> QED BY <1>2, <1>4, <1>5, <1>6

\* A longest timer exists: there are finitely many handlers.
LEMMA MaxTimeIs ==
  /\ MaxTime \in Nat
  /\ \A h \in Handlers : Interval[h] \in Nat \ {0} /\ Interval[h] <= MaxTime
  /\ \E h \in Handlers : MaxTime = Interval[h]
<1>1. /\ Interval \in [Handlers -> Nat \ {0}] /\ Len(Startup) \in Nat
      /\ DOMAIN Startup = 1..Len(Startup)
      /\ \A i \in 1..Len(Startup) : Startup[i] \in Handlers
  BY TimeoutsAssumption, LenProperties, ElementOfSeq DEF Handlers
<1> DEFINE First(k) == {TCP, APP} \cup {Startup[i] : i \in 1..k}
           Tops(k) == {h \in First(k) : \A g \in First(k) : Interval[g] <= Interval[h]}
           Bad == {k \in 0..Len(Startup) : Tops(k) = {}}
<1>2. Bad = {}
  <2> SUFFICES ASSUME Bad # {} PROVE FALSE
    OBVIOUS
  <2>1. PICK n \in Bad : \A m \in Bad : n <= m
    <3>1. Bad \in SUBSET Nat
      BY <1>1
    <3> HIDE DEF Bad
    <3> QED BY <3>1, Least
  <2>2. n \in 0..Len(Startup) /\ Tops(n) = {}
    BY <2>1
  <2>3. n # 0
    <3>1. First(0) = {TCP, APP}
      OBVIOUS
    <3>2. Interval[TCP] \in Nat /\ Interval[APP] \in Nat
      BY <1>1 DEF Handlers
    <3>3. TCP \in Tops(0) \/ APP \in Tops(0)
      <4> HIDE DEF First
      <4> QED BY <3>1, <3>2
    <3> QED BY <2>2, <3>3
  <2>4. n \in 1..Len(Startup) /\ n - 1 \in 0..Len(Startup) /\ n - 1 \notin Bad
    <3> HIDE DEF Bad, Tops
    <3>1. n \in 1..Len(Startup) /\ n - 1 \in 0..Len(Startup) /\ ~(n <= n - 1)
      BY <1>1, <2>2, <2>3
    <3> QED BY <2>1, <3>1
  <2>5. PICK h \in First(n - 1) : \A g \in First(n - 1) : Interval[g] <= Interval[h]
    BY <2>4
  <2>6. First(n) = First(n - 1) \cup {Startup[n]}
    BY <1>1, <2>4
  <2>7. \A g \in First(n) : g \in Handlers /\ Interval[g] \in Nat
    BY <1>1, <2>4 DEF Handlers
  <2>8. h \in Tops(n) \/ Startup[n] \in Tops(n)
    <3> HIDE DEF First
    <3>1. /\ h \in First(n) /\ Startup[n] \in First(n)
          /\ Interval[h] \in Nat /\ Interval[Startup[n]] \in Nat
      BY <2>5, <2>6, <2>7
    <3>2. CASE Interval[Startup[n]] <= Interval[h]
      BY <2>5, <2>6, <3>1, <3>2
    <3>3. CASE ~(Interval[Startup[n]] <= Interval[h])
      BY <2>5, <2>6, <2>7, <3>1, <3>3
    <3> QED BY <3>2, <3>3
  <2> QED BY <2>2, <2>8
<1>3. First(Len(Startup)) = Handlers
  BY <1>1 DEF Handlers, Periodic, ToSet
<1>4. PICK h \in Handlers : \A g \in Handlers : Interval[g] <= Interval[h]
  <2>1. Len(Startup) \in 0..Len(Startup) /\ Len(Startup) \notin Bad
    BY <1>1, <1>2
  <2>2. Tops(Len(Startup)) # {}
    BY <2>1
  <2> HIDE DEF First
  <2> QED BY <1>3, <2>2
<1>5. MaxTime \in {Interval[g] : g \in Handlers} /\ \A g \in Handlers : Interval[g] <= MaxTime
  BY <1>4 DEF MaxTime
<1> QED BY <1>1, <1>5

-----------------------------------------------------------------------------
(* The list as timers                                                      *)

\* No handler is on the list twice, and none is set for longer than MaxTime.
Sound(l) ==
    /\ l \in Seq(Entries)
    /\ \A i, j \in 1..Len(l) : l[i].h = l[j].h => i = j
    /\ \A i \in 1..Len(l) : Expiry(l, i) <= MaxTime

\* The handlers on the list l
Names(l) == {l[i].h : i \in DOMAIN l}

\* What is left of every timer on the list
Rem(l) == [h \in Names(l) |-> Expiry(l, CHOOSE i \in DOMAIN l : l[i].h = h)]

\* A handler is on the list if it has an entry.
LEMMA NamesAre ==
  ASSUME NEW l \in Seq(Entries)
  PROVE  /\ \A i \in 1..Len(l) : l[i].h \in Names(l)
         /\ \A h \in Names(l) : \E i \in 1..Len(l) : l[i].h = h
         /\ Names(l) \subseteq Handlers
BY EntryTimes DEF Names

\* What is left of the timer of an entry is its time from the head.
LEMMA RemIs ==
  ASSUME NEW l, Sound(l)
  PROVE  /\ DOMAIN Rem(l) = Names(l)
         /\ \A i \in 1..Len(l) : Rem(l)[l[i].h] = Expiry(l, i)
         /\ \A h \in Names(l) : Rem(l)[h] \in 0..MaxTime
<1>1. l \in Seq(Entries) /\ DOMAIN l = 1..Len(l) /\ Len(l) \in Nat
  BY EntryTimes DEF Sound
<1>2. ASSUME NEW i \in 1..Len(l) PROVE Rem(l)[l[i].h] = Expiry(l, i)
  <2>1. l[i].h \in Names(l)
    BY <1>1, NamesAre
  <2>2. \A j \in 1..Len(l) : l[j].h = l[i].h <=> j = i
    BY DEF Sound
  <2>3. (CHOOSE j \in DOMAIN l : l[j].h = l[i].h) = i
    BY <1>1, <2>2
  <2> QED BY <2>1, <2>3 DEF Rem
<1>3. ASSUME NEW h \in Names(l) PROVE Rem(l)[h] \in 0..MaxTime
  <2>1. PICK i \in 1..Len(l) : l[i].h = h
    BY <1>1, NamesAre
  <2>2. Expiry(l, i) \in Nat /\ Expiry(l, i) <= MaxTime
    BY <1>1, ExpiryIs DEF Sound
  <2> QED BY <1>2, <2>1, <2>2, MaxTimeIs
<1> QED BY <1>2, <1>3 DEF Rem

\* Timers are known by what is left at each entry.
LEMMA RemFrom ==
  ASSUME NEW l, Sound(l), NEW f, f = [h \in Names(l) |-> f[h]],
         \A i \in 1..Len(l) : f[l[i].h] = Expiry(l, i)
  PROVE  Rem(l) = f
<1>1. Rem(l) = [h \in Names(l) |-> Rem(l)[h]]
  BY DEF Rem
<1>2. \A h \in Names(l) : Rem(l)[h] = f[h]
  BY NamesAre, RemIs DEF Sound
<1> QED BY <1>1, <1>2

\* f adds up the times of l, which has every handler once and none beyond
\* MaxTime.
AddsUp(l, f) ==
    /\ l \in Seq(Entries)
    /\ f[0] = 0
    /\ \A k \in 1..Len(l) : f[k] = f[k - 1] + l[k].time
    /\ \A i, j \in 1..Len(l) : l[i].h = l[j].h => i = j
    /\ \A i \in 1..Len(l) : f[i] <= MaxTime

\* The sums in f are the times of the entries of a sound list.
SoundBy(l, f) == Sound(l) /\ \A i \in 1..Len(l) : Expiry(l, i) = f[i]

\* A list with given times: it is enough to name them, entry by entry.
LEMMA SoundFrom ==
  ASSUME NEW l, NEW f, AddsUp(l, f)
  PROVE  SoundBy(l, f)
<1>1. \A k \in 0..Len(l) : Expiry(l, k) = f[k]
  BY ExpiryOnly DEF AddsUp
<1>2. \A k \in 1..Len(l) : k \in 0..Len(l)
  BY EntryTimes DEF AddsUp
<1> QED BY <1>1, <1>2 DEF Sound, AddsUp, SoundBy

-----------------------------------------------------------------------------
(* sys_timeout                                                             *)

\* A set of numbers from 1 on without a gap is an interval.
LEMMA NoGap ==
  ASSUME NEW n \in Nat, NEW S \in SUBSET (1..n),
         \A i \in S : \A j \in 1..i : j \in S
  PROVE  Cardinality(S) \in 0..n /\ S = 1..Cardinality(S)
<1> DEFINE Outside == {k \in 1..(n + 1) : k \notin S}
<1>1. PICK k \in Outside : \A m \in Outside : k <= m
  <2>1. n + 1 \in Outside /\ Outside \in SUBSET Nat
    OBVIOUS
  <2> HIDE DEF Outside
  <2> QED BY <2>1, Least
<1>2. S = 1..(k - 1)
  <2>1. \A m \in 1..(k - 1) : m \in S
    BY <1>1
  <2>2. \A i \in S : i < k
    BY <1>1
  <2>3. k \in Nat /\ k >= 1 /\ \A i \in S : i \in Nat /\ i >= 1
    BY <1>1
  <2>4. \A i \in S : i \in 1..(k - 1)
    BY <2>2, <2>3
  <2> QED BY <2>1, <2>4
<1>3. Cardinality(1..(k - 1)) = k - 1
  BY <1>1, FS_Interval
<1> QED BY <1>1, <1>2, <1>3

\* Where sys_timeout puts an entry
Place(l, h) == Cardinality({i \in DOMAIN l : Expiry(l, i) <= Interval[h]})

\* sys_timeout stops behind the last entry that expires no later (sys.c:218-234).
LEMMA PlaceIs ==
  ASSUME NEW l \in Seq(Entries), NEW h \in Handlers
  PROVE  /\ Place(l, h) \in 0..Len(l)
         /\ Expiry(l, Place(l, h)) <= Interval[h]
         /\ Place(l, h) < Len(l) => Expiry(l, Place(l, h) + 1) > Interval[h]
<1> DEFINE S == {i \in DOMAIN l : Expiry(l, i) <= Interval[h]}
<1>1. /\ Len(l) \in Nat /\ DOMAIN l = 1..Len(l) /\ Interval[h] \in Nat
      /\ \A i \in 0..Len(l) : Expiry(l, i) \in Nat
      /\ Expiry(l, 0) = 0
  BY EntryTimes, ExpiryIs, TimeoutsAssumption
<1>2. S \in SUBSET (1..Len(l))
  BY <1>1
<1>3. ASSUME NEW i \in S, NEW j \in 1..i PROVE j \in S
  <2>1. i \in 1..Len(l) /\ j \in 0..Len(l) /\ i \in j..Len(l) /\ j \in 1..Len(l)
    BY <1>1, <1>2
  <2>2. Expiry(l, j) <= Expiry(l, i)
    BY <2>1, ExpiryGrows
  <2>3. Expiry(l, j) \in Nat /\ Expiry(l, i) \in Nat /\ Expiry(l, i) <= Interval[h]
    BY <1>1, <2>1
  <2> QED BY <1>1, <2>1, <2>2, <2>3
<1>4. Place(l, h) = Cardinality(S)
  BY DEF Place
<1>5. Place(l, h) \in 0..Len(l) /\ S = 1..Place(l, h)
  <2> HIDE DEF S
  <2> QED BY <1>1, <1>2, <1>3, <1>4, NoGap
<1>6. Expiry(l, Place(l, h)) <= Interval[h]
  <2>1. CASE Place(l, h) = 0
    BY <1>1, <2>1
  <2>2. CASE Place(l, h) # 0
    <3>1. Place(l, h) \in 1..Place(l, h)
      BY <1>5, <2>2
    <3>2. Place(l, h) \in S
      BY <1>5, <3>1
    <3> QED BY <3>2
  <2> QED BY <2>1, <2>2
<1>7. ASSUME Place(l, h) < Len(l) PROVE Expiry(l, Place(l, h) + 1) > Interval[h]
  <2>1. Place(l, h) + 1 \in 1..Len(l) /\ Place(l, h) + 1 \notin 1..Place(l, h)
    BY <1>1, <1>5, <1>7
  <2>2. Place(l, h) + 1 \notin S
    BY <1>5, <2>1
  <2>3. Expiry(l, Place(l, h) + 1) \in Nat
    BY <1>1, <2>1
  <2> QED BY <1>1, <2>1, <2>2, <2>3
<1> QED BY <1>5, <1>6, <1>7

\* The list with h set, entry by entry
LEMMA InsertedIs ==
  ASSUME NEW l \in Seq(Entries), NEW h \in Handlers,
         NEW k, k = Place(l, h), NEW d, d = Interval[h] - Expiry(l, k)
  PROVE  /\ Inserted(l, h) \in Seq(Entries)
         /\ Len(Inserted(l, h)) = Len(l) + 1
         /\ \A i \in 1..k : Inserted(l, h)[i] = l[i]
         /\ Inserted(l, h)[k + 1] = Entry(h, d)
         /\ k < Len(l) => Inserted(l, h)[k + 2] = Entry(l[k + 1].h, l[k + 1].time - d)
         /\ \A i \in (k + 3)..(Len(l) + 1) : Inserted(l, h)[i] = l[i - 1]
<1> DEFINE front == SubSeq(l, 1, k)
           rest == SubSeq(l, k + 1, Len(l))
           new == <<Entry(h, d)>>
           back == IF rest = <<>> THEN rest
                   ELSE [rest EXCEPT ![1] = Entry(rest[1].h, rest[1].time - d)]
<1>1. /\ Len(l) \in Nat /\ k \in 0..Len(l) /\ d \in Nat
      /\ \A i \in 1..Len(l) : l[i] \in Entries /\ l[i].time \in Nat /\ l[i].h \in Handlers
  BY EntryTimes, PlaceIs, ExpiryIs, TimeoutsAssumption
<1>2. k < Len(l) => l[k + 1].time - d \in Nat
  <2> SUFFICES ASSUME k < Len(l) PROVE l[k + 1].time - d \in Nat
    OBVIOUS
  <2>1. k + 1 \in 1..Len(l) /\ k + 1 - 1 = k
    BY <1>1
  <2>2. Expiry(l, k + 1) = Expiry(l, k) + l[k + 1].time /\ Expiry(l, k) \in Nat
    BY <1>1, <2>1, ExpiryIs
  <2>3. Expiry(l, k + 1) > Interval[h] /\ Interval[h] \in Nat
    BY PlaceIs, TimeoutsAssumption
  <2> QED BY <1>1, <2>1, <2>2, <2>3
<1>3. Inserted(l, h) = front \o new \o back
  BY DEF Inserted, Place
<1>4. front \in Seq(Entries) /\ Len(front) = k /\ \A i \in 1..k : front[i] = l[i]
  <2>1. \A i \in 1..k : l[i] \in Entries
    BY <1>1
  <2> QED BY <1>1, <2>1, SubSeqProperties
<1>5. /\ rest \in Seq(Entries) /\ Len(rest) = Len(l) - k
      /\ \A i \in 1..(Len(l) - k) : rest[i] = l[k + i]
  <2>1. \A i \in (k + 1)..Len(l) : l[i] \in Entries
    BY <1>1
  <2> QED BY <1>1, <2>1, SubSeqProperties
<1>6. new \in Seq(Entries) /\ Len(new) = 1 /\ new[1] = Entry(h, d)
  BY <1>1, EntryIs
<1>7. /\ back \in Seq(Entries) /\ Len(back) = Len(l) - k
      /\ k < Len(l) => back[1] = Entry(l[k + 1].h, l[k + 1].time - d)
      /\ \A i \in 2..(Len(l) - k) : back[i] = l[k + i]
  <2>1. CASE k = Len(l)
    <3>1. rest = <<>>
      BY <1>1, <1>5, <2>1, EmptySeq
    <3> QED BY <1>1, <1>5, <2>1, <3>1, EmptySeq
  <2>2. CASE k < Len(l)
    <3>1. rest # <<>> /\ 1 \in 1..Len(rest) /\ rest[1] = l[k + 1]
      <4> HIDE DEF rest
      <4>1. Len(rest) \in Nat /\ Len(rest) >= 1 /\ 1 \in 1..(Len(l) - k)
        BY <1>1, <1>5, <2>2
      <4>2. rest # <<>>
        BY <4>1, EmptySeq
      <4> QED BY <1>1, <1>5, <4>1, <4>2
    <3>2. Entry(l[k + 1].h, l[k + 1].time - d) \in Entries
      BY <1>1, <1>2, <2>2, EntryIs
    <3> DEFINE e == Entry(l[k + 1].h, l[k + 1].time - d)
    <3>3. back = [rest EXCEPT ![1] = e]
      BY <3>1
    <3> HIDE DEF back, rest, e
    <3>4. e \in Entries
      BY <3>2 DEF e
    <3>5. /\ back \in Seq(Entries) /\ Len(back) = Len(rest)
          /\ \A j \in 1..Len(rest) : back[j] = IF j = 1 THEN e ELSE rest[j]
      BY <1>5, <3>1, <3>3, <3>4, ExceptSeq
    <3>6. \A j \in 2..(Len(l) - k) : j \in 1..Len(rest) /\ j # 1 /\ rest[j] = l[k + j]
      BY <1>1, <1>5, <2>2
    <3>7. back[1] = e /\ \A j \in 2..(Len(l) - k) : back[j] = l[k + j]
      BY <3>1, <3>5, <3>6
    <3>8. Len(back) = Len(l) - k
      BY <1>5, <3>5
    <3>9. back[1] = Entry(l[k + 1].h, l[k + 1].time - d)
      BY <3>7 DEF e
    <3>10. \A j \in 2..(Len(l) - k) : back[j] = l[k + j]
      BY <3>7
    <3> QED BY <3>5, <3>8, <3>9, <3>10
  <2> HIDE DEF back, rest
  <2> QED BY <1>1, <2>1, <2>2
<1> HIDE DEF front, new, back
<1>8. /\ front \o new \in Seq(Entries) /\ Len(front \o new) = k + 1
      /\ \A i \in 1..k : (front \o new)[i] = l[i]
      /\ (front \o new)[k + 1] = Entry(h, d)
  <2>1. /\ front \o new \in Seq(Entries) /\ Len(front \o new) = Len(front) + Len(new)
        /\ \A i \in 1..(Len(front) + Len(new)) : (front \o new)[i] =
                IF i <= Len(front) THEN front[i] ELSE new[i - Len(front)]
    BY <1>4, <1>6, ConcatProperties
  <2>2. Len(front) = k /\ Len(new) = 1 /\ k \in Nat
    BY <1>1, <1>4, <1>6
  <2>3. \A i \in 1..k : (front \o new)[i] = front[i]
    BY <2>1, <2>2
  <2>4. (front \o new)[k + 1] = new[1]
    BY <2>1, <2>2
  <2> QED BY <1>4, <1>6, <2>1, <2>2, <2>3, <2>4
<1>9. /\ Inserted(l, h) \in Seq(Entries) /\ Len(Inserted(l, h)) = Len(l) + 1
      /\ \A i \in 1..(k + 1) : Inserted(l, h)[i] = (front \o new)[i]
      /\ \A i \in (k + 2)..(Len(l) + 1) : Inserted(l, h)[i] = back[i - (k + 1)]
  <2> DEFINE fn == front \o new
  <2>1. fn \in Seq(Entries) /\ Len(fn) = k + 1 /\ Inserted(l, h) = fn \o back
    BY <1>3, <1>8
  <2> HIDE DEF fn
  <2>2. /\ fn \o back \in Seq(Entries) /\ Len(fn \o back) = Len(fn) + Len(back)
        /\ \A i \in 1..(Len(fn) + Len(back)) : (fn \o back)[i] =
                IF i <= Len(fn) THEN fn[i] ELSE back[i - Len(fn)]
    BY <1>7, <2>1, ConcatProperties
  <2>3. Len(fn) + Len(back) = Len(l) + 1 /\ k \in Nat /\ k <= Len(l) /\ Len(l) \in Nat
    BY <1>1, <1>7, <2>1
  <2>4. \A i \in 1..(k + 1) : (fn \o back)[i] = fn[i]
    BY <2>1, <2>2, <2>3
  <2>5. \A i \in (k + 2)..(Len(l) + 1) : (fn \o back)[i] = back[i - (k + 1)]
    BY <2>1, <2>2, <2>3
  <2> QED BY <2>1, <2>2, <2>3, <2>4, <2>5 DEF fn
<1>10. \A i \in 1..k : Inserted(l, h)[i] = l[i]
  <2> TAKE i \in 1..k
  <2>1. i \in 1..(k + 1)
    BY <1>1
  <2> QED BY <1>8, <1>9, <2>1
<1>11. Inserted(l, h)[k + 1] = Entry(h, d)
  BY <1>1, <1>8, <1>9, SMTT(30)
<1>12. k < Len(l) => Inserted(l, h)[k + 2] = Entry(l[k + 1].h, l[k + 1].time - d)
  <2> SUFFICES ASSUME k < Len(l) PROVE Inserted(l, h)[k + 2] = Entry(l[k + 1].h, l[k + 1].time - d)
    OBVIOUS
  <2>1. k + 2 \in (k + 2)..(Len(l) + 1) /\ k + 2 - (k + 1) = 1
    BY <1>1
  <2>2. Inserted(l, h)[k + 2] = back[k + 2 - (k + 1)]
    BY <1>1, <1>9, <2>1
  <2> QED BY <1>7, <2>1, <2>2
<1>13. \A i \in (k + 3)..(Len(l) + 1) : Inserted(l, h)[i] = l[i - 1]
  <2> TAKE i \in (k + 3)..(Len(l) + 1)
  <2>1. /\ i \in (k + 2)..(Len(l) + 1) /\ i - (k + 1) \in 2..(Len(l) - k)
        /\ k + (i - (k + 1)) = i - 1
    BY <1>1
  <2> QED BY <1>7, <1>9, <2>1
<1> QED BY <1>9, <1>10, <1>11, <1>12, <1>13

\* To set a handler that is not on the list adds its timer, for its interval.
LEMMA SetTimer ==
  ASSUME NEW l, Sound(l), NEW h \in Handlers, h \notin Names(l)
  PROVE  /\ Sound(Inserted(l, h))
         /\ Len(Inserted(l, h)) = Len(l) + 1
         /\ Names(Inserted(l, h)) = Names(l) \cup {h}
         /\ Rem(Inserted(l, h)) = TimersBar!With(Rem(l), h, Interval[h])
<1> DEFINE r == Inserted(l, h)
           k == Place(l, h)
           d == Interval[h] - Expiry(l, k)
           src(i) == IF i <= k THEN i ELSE i - 1
           f == [i \in 0..Len(r) |-> IF i = k + 1 THEN Interval[h] ELSE Expiry(l, src(i))]
<1>1. /\ l \in Seq(Entries) /\ Len(l) \in Nat /\ k \in 0..Len(l) /\ Interval[h] \in Nat
      /\ Interval[h] <= MaxTime /\ MaxTime \in Nat
      /\ \A i \in 1..Len(l) : l[i].time \in Nat /\ Expiry(l, i) = Expiry(l, i - 1) + l[i].time
      /\ \A i \in 0..Len(l) : Expiry(l, i) \in Nat
      /\ \A i \in 1..Len(l) : Expiry(l, i) <= MaxTime
      /\ Expiry(l, 0) = 0 /\ d \in Int
  BY EntryTimes, PlaceIs, ExpiryIs, MaxTimeIs DEF Sound
<1>2. /\ r \in Seq(Entries) /\ Len(r) = Len(l) + 1
      /\ \A i \in 1..k : r[i] = l[i]
      /\ r[k + 1] = Entry(h, d)
      /\ k < Len(l) => r[k + 2] = Entry(l[k + 1].h, l[k + 1].time - d)
      /\ \A i \in (k + 3)..(Len(l) + 1) : r[i] = l[i - 1]
  <2>1. r = Inserted(l, h) /\ k = Place(l, h) /\ d = Interval[h] - Expiry(l, k)
    OBVIOUS
  <2>2. l \in Seq(Entries)
    BY <1>1
  <2> HIDE DEF r, k, d
  <2> QED BY <2>1, <2>2, InsertedIs
<1>0. d = Interval[h] - Expiry(l, k)
  OBVIOUS
<1> HIDE DEF r, k, d
<1>3. ASSUME NEW i \in 1..Len(r), i # k + 1
      PROVE  src(i) \in 1..Len(l) /\ r[i].h = l[src(i)].h
  <2>1. CASE i \in 1..k
    BY <1>1, <1>2, <2>1
  <2>2. CASE i = k + 2
    <3>1. k < Len(l) /\ src(i) = k + 1
      BY <1>1, <1>2, <1>3, <2>2
    <3> QED BY <1>1, <1>2, <2>2, <3>1, EntryIs
  <2>3. CASE i \in (k + 3)..(Len(l) + 1)
    BY <1>1, <1>2, <2>3
  <2> QED BY <1>1, <1>2, <1>3, <2>1, <2>2, <2>3
<1>4. f[0] = 0 /\ \A i \in 1..Len(r) : f[i] = f[i - 1] + r[i].time
  <2>1. f[0] = 0
    BY <1>1, <1>2
  <2>2. ASSUME NEW i \in 1..Len(r) PROVE f[i] = f[i - 1] + r[i].time
    <3>1. CASE i \in 1..k
      <4>1. f[i] = Expiry(l, i) /\ f[i - 1] = Expiry(l, i - 1) /\ r[i] = l[i] /\ i \in 1..Len(l)
        BY <1>1, <1>2, <3>1
      <4> HIDE DEF f
      <4>2. Expiry(l, i) = Expiry(l, i - 1) + l[i].time
        BY <1>1, <4>1
      <4> QED BY <4>1, <4>2
    <3>2. CASE i = k + 1
      <4>1. f[i] = Interval[h] /\ f[i - 1] = Expiry(l, k) /\ r[i].time = d /\ Expiry(l, k) \in Nat
        BY <1>1, <1>2, <3>2, EntryIs
      <4> QED BY <1>0, <1>1, <4>1
    <3>3. CASE i = k + 2
      <4>1. k < Len(l) /\ k + 1 \in 1..Len(l) /\ k + 1 - 1 = k
        BY <1>1, <1>2, <3>3
      <4>2. /\ f[i] = Expiry(l, k + 1) /\ f[i - 1] = Interval[h]
            /\ r[i].time = l[k + 1].time - d
        BY <1>1, <1>2, <3>3, <4>1, EntryIs
      <4>3. /\ Expiry(l, k + 1) = Expiry(l, k) + l[k + 1].time /\ Expiry(l, k) \in Nat
            /\ l[k + 1].time \in Nat
        BY <1>1, <4>1
      <4> HIDE DEF f
      <4>4. Interval[h] \in Nat /\ d = Interval[h] - Expiry(l, k)
        BY <1>0, <1>1
      <4> QED BY <4>2, <4>3, <4>4
    <3>4. CASE i \in (k + 3)..(Len(l) + 1)
      <4>1. i - 1 \in 1..Len(l) /\ i - 1 \in 0..Len(r) /\ i - 1 # k + 1 /\ src(i) = i - 1
            /\ src(i - 1) = i - 2 /\ r[i] = l[i - 1] /\ i - 1 - 1 = i - 2
        BY <1>1, <1>2, <3>4
      <4>2. f[i] = Expiry(l, i - 1) /\ f[i - 1] = Expiry(l, i - 2)
        BY <1>1, <3>4, <4>1
      <4> QED BY <1>1, <4>1, <4>2
    <3> QED BY <1>1, <1>2, <3>1, <3>2, <3>3, <3>4
  <2> QED BY <2>1, <2>2
<1>5. \A i, j \in 1..Len(r) : r[i].h = r[j].h => i = j
  <2>1. \A i \in 1..Len(r) : i # k + 1 => r[i].h \in Names(l)
    BY <1>1, <1>3, NamesAre
  <2>2. r[k + 1].h = h
    BY <1>2, EntryIs
  <2> SUFFICES ASSUME NEW i \in 1..Len(r), NEW j \in 1..Len(r), r[i].h = r[j].h PROVE i = j
    OBVIOUS
  <2>3. CASE i = k + 1 \/ j = k + 1
    BY <2>1, <2>2, <2>3
  <2>4. CASE i # k + 1 /\ j # k + 1
    <3>1. src(i) \in 1..Len(l) /\ src(j) \in 1..Len(l) /\ l[src(i)].h = l[src(j)].h
      BY <1>3, <2>4
    <3>2. src(i) = src(j)
      BY <3>1 DEF Sound
    <3> QED BY <1>1, <1>2, <2>4, <3>2
  <2> QED BY <2>3, <2>4
<1>6. \A i \in 1..Len(r) : f[i] <= MaxTime
  BY <1>1, <1>2, <1>3
<1>7. Sound(r) /\ \A i \in 1..Len(r) : Expiry(r, i) = f[i]
  <2> HIDE DEF f, r
  <2>1. AddsUp(r, f)
    BY <1>2, <1>4, <1>5, <1>6 DEF AddsUp
  <2>2. SoundBy(r, f)
    BY <2>1, SoundFrom
  <2> QED BY <2>2 DEF SoundBy
<1>8. Names(r) = Names(l) \cup {h}
  <2>1. ASSUME NEW g \in Names(r) PROVE g \in Names(l) \cup {h}
    <3>1. PICK i \in 1..Len(r) : r[i].h = g
      BY <1>2, NamesAre
    <3>2. CASE i = k + 1
      BY <1>2, <3>1, <3>2, EntryIs
    <3>3. CASE i # k + 1
      <4>1. src(i) \in 1..Len(l) /\ g = l[src(i)].h
        BY <1>3, <3>1, <3>3
      <4> QED BY <1>1, <4>1, NamesAre
    <3> QED BY <3>2, <3>3
  <2>2. h \in Names(r)
    <3>1. k + 1 \in 1..Len(r) /\ r[k + 1].h = h
      BY <1>1, <1>2, EntryIs
    <3> QED BY <1>2, <3>1, NamesAre
  <2>3. ASSUME NEW g \in Names(l) PROVE g \in Names(r)
    <3>1. PICK j \in 1..Len(l) : l[j].h = g
      BY <1>1, NamesAre
    <3> DEFINE i == IF j <= k THEN j ELSE j + 1
    <3>2. i \in 1..Len(r) /\ i # k + 1 /\ src(i) = j
      BY <1>1, <1>2
    <3>3. r[i].h = g
      <4> HIDE DEF src, i
      <4> QED BY <1>3, <3>1, <3>2
    <3> QED BY <1>2, <3>2, <3>3, NamesAre
  <2> QED BY <2>1, <2>2, <2>3
<1>9. Rem(r) = TimersBar!With(Rem(l), h, Interval[h])
  <2> DEFINE g == TimersBar!With(Rem(l), h, Interval[h])
  <2>1. /\ g = [x \in Names(r) |-> g[x]]
        /\ g[h] = Interval[h] /\ \A x \in Names(l) : g[x] = Rem(l)[x]
    BY <1>8, RemIs DEF TimersBar!With
  <2>2. ASSUME NEW i \in 1..Len(r) PROVE g[r[i].h] = Expiry(r, i)
    <3>0. Expiry(r, i) = IF i = k + 1 THEN Interval[h] ELSE Expiry(l, src(i))
      <4>1. i \in 0..Len(r)
        BY <1>1, <1>2
      <4>2. Expiry(r, i) = f[i]
        <5> HIDE DEF f
        <5> QED BY <1>7
      <4> QED BY <4>1, <4>2
    <3> HIDE DEF g, src, f
    <3>1. CASE i = k + 1
      <4>1. r[i].h = h
        BY <1>2, <3>1, EntryIs
      <4> QED BY <2>1, <3>0, <3>1, <4>1
    <3>2. CASE i # k + 1
      <4>1. src(i) \in 1..Len(l) /\ r[i].h = l[src(i)].h /\ l[src(i)].h \in Names(l)
        BY <1>1, <1>3, <3>2, NamesAre
      <4>2. Rem(l)[l[src(i)].h] = Expiry(l, src(i))
        BY <4>1, RemIs
      <4>3. Expiry(r, i) = Expiry(l, src(i))
        BY <3>0, <3>2
      <4> QED BY <2>1, <4>1, <4>2, <4>3
    <3> QED BY <3>1, <3>2
  <2> HIDE DEF g
  <2>3. Rem(r) = g
    BY <1>7, <2>1, <2>2, RemFrom
  <2> QED BY <2>3 DEF g
<1> QED BY <1>2, <1>7, <1>8, <1>9 DEF r

-----------------------------------------------------------------------------
(* sys_untimeout, the head of the list, and the time that passes           *)

\* The list without its i-th entry, entry by entry
LEMMA RemovedIs ==
  ASSUME NEW l \in Seq(Entries), NEW i \in 1..Len(l)
  PROVE  /\ Removed(l, i) \in Seq(Entries)
         /\ Len(Removed(l, i)) = Len(l) - 1
         /\ \A j \in 1..(i - 1) : Removed(l, i)[j] = l[j]
         /\ i < Len(l) =>
                Removed(l, i)[i] = Entry(l[i + 1].h, l[i + 1].time + l[i].time)
         /\ \A j \in (i + 1)..(Len(l) - 1) : Removed(l, i)[j] = l[j + 1]
<1> DEFINE e == Entry(l[i + 1].h, l[i + 1].time + l[i].time)
           m == IF i = Len(l) THEN l
                ELSE [l EXCEPT ![i + 1] = Entry(l[i + 1].h, l[i + 1].time + l[i].time)]
           front == SubSeq(m, 1, i - 1)
           back == SubSeq(m, i + 1, Len(m))
<1>1. /\ Len(l) \in Nat /\ i \in Nat /\ 1 <= i /\ i <= Len(l)
      /\ \A j \in 1..Len(l) : l[j] \in Entries /\ l[j].time \in Nat /\ l[j].h \in Handlers
  BY EntryTimes
<1>2. /\ m \in Seq(Entries) /\ Len(m) = Len(l)
      /\ \A j \in 1..Len(l) : m[j] = IF j = i + 1 THEN e ELSE l[j]
  <2>1. CASE i = Len(l)
    BY <1>1, <2>1
  <2>2. CASE i # Len(l)
    <3>1. i + 1 \in 1..Len(l) /\ e \in Entries
      BY <1>1, <2>2, EntryIs
    <3>2. m = [l EXCEPT ![i + 1] = e]
      BY <2>2
    <3> HIDE DEF e, m
    <3> QED BY <3>1, <3>2, ExceptSeq
  <2> QED BY <2>1, <2>2
<1>3. Removed(l, i) = front \o back
  BY DEF Removed, RemoveAt
<1> HIDE DEF m, e
<1>4. front \in Seq(Entries) /\ Len(front) = i - 1 /\ \A j \in 1..(i - 1) : front[j] = m[j]
  <2>1. \A j \in 1..(i - 1) : m[j] \in Entries
    <3>1. \A j \in 1..Len(m) : m[j] \in Entries
      BY <1>2, ElementOfSeq
    <3> QED BY <1>1, <1>2, <3>1
  <2> QED BY <1>1, <2>1, SubSeqProperties
<1>5. /\ back \in Seq(Entries) /\ Len(back) = Len(l) - i
      /\ \A j \in 1..(Len(l) - i) : back[j] = m[i + j]
  <2>1. \A j \in (i + 1)..Len(m) : m[j] \in Entries
    <3>1. \A j \in 1..Len(m) : m[j] \in Entries
      BY <1>2, ElementOfSeq
    <3> QED BY <1>1, <1>2, <3>1
  <2>2. \A j \in 1..(Len(l) - i) : i + 1 + j - 1 = i + j
    BY <1>1
  <2> QED BY <1>1, <1>2, <2>1, <2>2, SubSeqProperties
<1>6. DEFINE r == front \o back
<1> HIDE DEF front, back
<1>7. /\ r \in Seq(Entries) /\ Len(r) = Len(front) + Len(back)
      /\ \A j \in 1..(Len(front) + Len(back)) : r[j] =
            IF j <= Len(front) THEN front[j] ELSE back[j - Len(front)]
  BY <1>4, <1>5, ConcatProperties
<1> HIDE DEF r
<1>8. Len(front) = i - 1 /\ Len(back) = Len(l) - i /\ Len(front) + Len(back) = Len(l) - 1
  BY <1>1, <1>4, <1>5
<1>9. \A j \in 1..(i - 1) : r[j] = l[j]
  <2> TAKE j \in 1..(i - 1)
  <2>1. j \in 1..(Len(l) - 1) /\ j <= i - 1 /\ j \in 1..Len(l) /\ j # i + 1
    BY <1>1
  <2> QED BY <1>2, <1>4, <1>7, <1>8, <2>1
<1>10. \A j \in i..(Len(l) - 1) : r[j] = m[j + 1]
  <2> TAKE j \in i..(Len(l) - 1)
  <2>1. /\ j \in 1..(Len(l) - 1) /\ ~(j <= i - 1)
        /\ j - (i - 1) \in 1..(Len(l) - i) /\ i + (j - (i - 1)) = j + 1
    BY <1>1
  <2>2. r[j] = back[j - (i - 1)]
    BY <1>7, <1>8, <2>1
  <2> QED BY <1>5, <2>1, <2>2
<1>11. i < Len(l) => r[i] = e
  BY <1>1, <1>2, <1>10
<1>12. \A j \in (i + 1)..(Len(l) - 1) : r[j] = l[j + 1]
  <2> TAKE j \in (i + 1)..(Len(l) - 1)
  <2>1. j \in i..(Len(l) - 1) /\ j + 1 \in 1..Len(l) /\ j + 1 # i + 1
    BY <1>1
  <2> QED BY <1>2, <1>10, <2>1
<1> QED BY <1>3, <1>7, <1>8, <1>9, <1>11, <1>12 DEF r, e

\* To take an entry off the list takes its timer away and leaves the others.
LEMMA CancelTimer ==
  ASSUME NEW l, Sound(l), NEW i \in 1..Len(l)
  PROVE  /\ Sound(Removed(l, i))
         /\ Len(Removed(l, i)) = Len(l) - 1
         /\ Names(Removed(l, i)) = Names(l) \ {l[i].h}
         /\ Rem(Removed(l, i)) = TimersBar!Without(Rem(l), l[i].h)
<1> DEFINE r == Removed(l, i)
           src(j) == IF j < i THEN j ELSE j + 1
           f == [j \in 0..Len(r) |-> Expiry(l, src(j))]
<1>1. /\ l \in Seq(Entries) /\ Len(l) \in Nat /\ i \in Nat /\ 1 <= i /\ i <= Len(l)
      /\ \A j \in 1..Len(l) : l[j].time \in Nat /\ Expiry(l, j) = Expiry(l, j - 1) + l[j].time
      /\ \A j \in 0..Len(l) : Expiry(l, j) \in Nat
      /\ \A j \in 1..Len(l) : Expiry(l, j) <= MaxTime
      /\ Expiry(l, 0) = 0
  BY EntryTimes, ExpiryIs DEF Sound
<1>2. /\ r \in Seq(Entries) /\ Len(r) = Len(l) - 1
      /\ \A j \in 1..(i - 1) : r[j] = l[j]
      /\ i < Len(l) => r[i] = Entry(l[i + 1].h, l[i + 1].time + l[i].time)
      /\ \A j \in (i + 1)..(Len(l) - 1) : r[j] = l[j + 1]
  <2>1. l \in Seq(Entries)
    BY <1>1
  <2> QED BY <2>1, RemovedIs
<1> HIDE DEF r
<1>3. ASSUME NEW j \in 1..Len(r)
      PROVE  src(j) \in 1..Len(l) /\ src(j) # i /\ r[j].h = l[src(j)].h
  <2>1. CASE j \in 1..(i - 1)
    BY <1>1, <1>2, <2>1
  <2>2. CASE j = i
    <3>1. i < Len(l) /\ src(j) = i + 1 /\ i + 1 \in 1..Len(l) /\ i + 1 # i
      BY <1>1, <1>2, <2>2
    <3>2. r[j].h = l[i + 1].h
      BY <1>2, <2>2, <3>1, EntryIs
    <3>3. src(j) \in 1..Len(l) /\ src(j) # i
      BY <3>1
    <3>4. r[j].h = l[src(j)].h
      BY <3>1, <3>2
    <3> QED BY <3>3, <3>4
  <2>3. CASE j \in (i + 1)..(Len(l) - 1)
    <3>1. r[j] = l[j + 1]
      BY <1>2, <2>3
    <3>2. src(j) = j + 1 /\ src(j) \in 1..Len(l) /\ src(j) # i
      BY <1>1, <2>3
    <3> QED BY <3>1, <3>2
  <2>4. j \in 1..(i - 1) \/ j = i \/ j \in (i + 1)..(Len(l) - 1)
    BY <1>1, <1>2
  <2> QED BY <2>1, <2>2, <2>3, <2>4
<1>4. f[0] = 0 /\ \A j \in 1..Len(r) : f[j] = f[j - 1] + r[j].time
  <2>1. f[0] = 0
    BY <1>1, <1>2
  <2>2. ASSUME NEW j \in 1..Len(r) PROVE f[j] = f[j - 1] + r[j].time
    <3>1. CASE j \in 1..(i - 1)
      <4>1. f[j] = Expiry(l, j) /\ f[j - 1] = Expiry(l, j - 1) /\ r[j] = l[j] /\ j \in 1..Len(l)
        BY <1>1, <1>2, <3>1
      <4> HIDE DEF f
      <4>2. Expiry(l, j) = Expiry(l, j - 1) + l[j].time
        BY <1>1, <4>1
      <4> QED BY <4>1, <4>2
    <3>2. CASE j = i
      <4>1. i < Len(l) /\ i \in 1..Len(l) /\ i + 1 \in 1..Len(l) /\ i + 1 - 1 = i
            /\ i - 1 \in 0..Len(l)
        BY <1>1, <1>2, <3>2
      <4>2. /\ f[j] = Expiry(l, i + 1) /\ f[j - 1] = Expiry(l, i - 1)
            /\ r[j].time = l[i + 1].time + l[i].time
        BY <1>1, <1>2, <3>2, <4>1, EntryIs
      <4>3. /\ Expiry(l, i + 1) = Expiry(l, i) + l[i + 1].time
            /\ Expiry(l, i) = Expiry(l, i - 1) + l[i].time
            /\ Expiry(l, i - 1) \in Nat /\ l[i].time \in Nat /\ l[i + 1].time \in Nat
        BY <1>1, <4>1, SMTT(30)
      <4> HIDE DEF f
      <4> QED BY <4>2, <4>3
    <3>3. CASE j \in (i + 1)..(Len(l) - 1)
      <4>1. /\ j + 1 \in 1..Len(l) /\ j - 1 \in 0..Len(r) /\ src(j) = j + 1
            /\ src(j - 1) = j /\ r[j] = l[j + 1] /\ j + 1 - 1 = j
        BY <1>1, <1>2, <3>3, SMTT(30)
      <4>2. f[j] = Expiry(l, j + 1) /\ f[j - 1] = Expiry(l, j)
        BY <1>1, <3>3, <4>1
      <4> HIDE DEF f, src
      <4>3. Expiry(l, j + 1) = Expiry(l, j) + l[j + 1].time
        BY <1>1, <4>1
      <4> QED BY <4>1, <4>2, <4>3
    <3> QED BY <1>1, <1>2, <3>1, <3>2, <3>3
  <2> QED BY <2>1, <2>2
<1>5. \A j, k \in 1..Len(r) : r[j].h = r[k].h => j = k
  <2> SUFFICES ASSUME NEW j \in 1..Len(r), NEW k \in 1..Len(r), r[j].h = r[k].h PROVE j = k
    OBVIOUS
  <2>1. src(j) \in 1..Len(l) /\ src(k) \in 1..Len(l) /\ l[src(j)].h = l[src(k)].h
    BY <1>3
  <2>2. src(j) = src(k)
    BY <2>1 DEF Sound
  <2> QED BY <1>1, <1>2, <2>2
<1>6. \A j \in 1..Len(r) : f[j] <= MaxTime
  BY <1>1, <1>2, <1>3
<1>7. Sound(r) /\ \A j \in 1..Len(r) : Expiry(r, j) = f[j]
  <2> HIDE DEF f, src
  <2>1. r \in Seq(Entries) /\ f[0] = 0
    BY <1>2, <1>4
  <2>2. \A j \in 1..Len(r) : f[j] = f[j - 1] + r[j].time
    BY <1>4
  <2> HIDE DEF r
  <2>3. AddsUp(r, f)
    BY <1>5, <1>6, <2>1, <2>2 DEF AddsUp
  <2>4. SoundBy(r, f)
    BY <2>3, SoundFrom
  <2> QED BY <2>4 DEF SoundBy
<1>8. Names(r) = Names(l) \ {l[i].h}
  <2>1. ASSUME NEW g \in Names(r) PROVE g \in Names(l) \ {l[i].h}
    <3>1. PICK j \in 1..Len(r) : r[j].h = g
      BY <1>2, NamesAre
    <3>2. src(j) \in 1..Len(l) /\ src(j) # i /\ g = l[src(j)].h
      BY <1>3, <3>1
    <3> HIDE DEF src
    <3>3. g \in Names(l)
      BY <1>1, <3>2, NamesAre
    <3> QED BY <3>2, <3>3 DEF Sound
  <2>2. ASSUME NEW g \in Names(l) \ {l[i].h} PROVE g \in Names(r)
    <3>1. PICK k \in 1..Len(l) : l[k].h = g
      BY <1>1, NamesAre
    <3> DEFINE j == IF k < i THEN k ELSE k - 1
    <3>2. k # i
      BY <3>1
    <3>3. j \in 1..Len(r) /\ src(j) = k
      BY <1>1, <1>2, <3>2
    <3>4. r[j].h = g
      <4> HIDE DEF src, j
      <4> QED BY <1>3, <3>1, <3>3
    <3> QED BY <1>2, <3>3, <3>4, NamesAre
  <2> QED BY <2>1, <2>2
<1>9. Rem(r) = TimersBar!Without(Rem(l), l[i].h)
  <2> DEFINE g == TimersBar!Without(Rem(l), l[i].h)
  <2>1. g = [x \in Names(r) |-> g[x]] /\ \A x \in Names(r) : g[x] = Rem(l)[x]
    BY <1>8, RemIs DEF TimersBar!Without
  <2>2. ASSUME NEW j \in 1..Len(r) PROVE g[r[j].h] = Expiry(r, j)
    <3>1. Expiry(r, j) = Expiry(l, src(j))
      <4>1. j \in 0..Len(r)
        BY <1>1, <1>2
      <4>2. Expiry(r, j) = f[j]
        <5> HIDE DEF f
        <5> QED BY <1>7
      <4> QED BY <4>1, <4>2
    <3> HIDE DEF g, src, f
    <3>2. src(j) \in 1..Len(l) /\ r[j].h = l[src(j)].h /\ r[j].h \in Names(r)
      BY <1>2, <1>3, NamesAre
    <3>3. Rem(l)[l[src(j)].h] = Expiry(l, src(j))
      BY <3>2, RemIs
    <3> QED BY <2>1, <3>1, <3>2, <3>3
  <2> HIDE DEF g
  <2>3. Rem(r) = g
    BY <1>7, <2>1, <2>2, RemFrom
  <2> QED BY <2>3 DEF g
<1> QED BY <1>2, <1>7, <1>8, <1>9 DEF r

\* The head of the list is the nearest timer. When it fires, the others have
\* its time behind them.
LEMMA FireTimer ==
  ASSUME NEW l, Sound(l), l # <<>>
  PROVE  /\ Sound(Tail(l))
         /\ Len(Tail(l)) = Len(l) - 1
         /\ Head(l) = l[1] /\ Head(l).h \in Names(l)
         /\ Names(Tail(l)) = Names(l) \ {Head(l).h}
         /\ Rem(l)[Head(l).h] = Head(l).time
         /\ \A g \in Names(l) : Head(l).time <= Rem(l)[g]
         /\ Rem(Tail(l)) = [g \in Names(l) \ {Head(l).h} |-> Rem(l)[g] - Head(l).time]
<1> DEFINE r == Tail(l)
           f == [j \in 0..Len(r) |-> Expiry(l, j + 1) - l[1].time]
<1>1. /\ l \in Seq(Entries) /\ Len(l) \in Nat /\ 1 <= Len(l)
      /\ \A j \in 1..Len(l) : l[j].time \in Nat /\ Expiry(l, j) = Expiry(l, j - 1) + l[j].time
      /\ \A j \in 0..Len(l) : Expiry(l, j) \in Nat
      /\ \A j \in 1..Len(l) : Expiry(l, j) <= MaxTime
      /\ Expiry(l, 0) = 0
  BY EntryTimes, ExpiryIs, EmptySeq DEF Sound
<1>2. /\ r \in Seq(Entries) /\ Len(r) = Len(l) - 1
      /\ \A j \in 1..Len(r) : r[j] = l[j + 1]
  BY <1>1, HeadTailProperties
<1>3. Head(l) = l[1]
  BY <1>1
<1> HIDE DEF r
<1>4. Expiry(l, 1) = l[1].time /\ l[1].time \in Nat /\ 1 \in 1..Len(l)
  <2>1. 1 \in 1..Len(l) /\ 1 - 1 = 0
    BY <1>1
  <2> QED BY <1>1, <2>1
<1>5. \A j \in 1..Len(r) : j + 1 \in 1..Len(l) /\ j + 1 # 1 /\ r[j].h = l[j + 1].h
  BY <1>1, <1>2
<1>6. f[0] = 0 /\ \A j \in 1..Len(r) : f[j] = f[j - 1] + r[j].time
  <2>1. f[0] = 0
    BY <1>1, <1>2, <1>4
  <2>2. ASSUME NEW j \in 1..Len(r) PROVE f[j] = f[j - 1] + r[j].time
    <3>1. j + 1 \in 1..Len(l) /\ j \in 0..Len(l) /\ j - 1 \in 0..Len(r) /\ j \in 0..Len(r)
          /\ j + 1 - 1 = j /\ j - 1 + 1 = j
      BY <1>1, <1>2
    <3>2. f[j] = Expiry(l, j + 1) - l[1].time /\ f[j - 1] = Expiry(l, j) - l[1].time
      BY <3>1
    <3> HIDE DEF f
    <3>3. /\ Expiry(l, j + 1) = Expiry(l, j) + l[j + 1].time /\ Expiry(l, j) \in Nat
          /\ l[j + 1].time \in Nat /\ r[j] = l[j + 1]
      BY <1>1, <1>2, <3>1
    <3> QED BY <1>4, <3>2, <3>3
  <2> QED BY <2>1, <2>2
<1>7. \A j, k \in 1..Len(r) : r[j].h = r[k].h => j = k
  <2> SUFFICES ASSUME NEW j \in 1..Len(r), NEW k \in 1..Len(r), r[j].h = r[k].h PROVE j = k
    OBVIOUS
  <2>1. j + 1 = k + 1
    BY <1>5 DEF Sound
  <2> QED BY <1>1, <1>2, <2>1
<1>8. \A j \in 1..Len(r) : f[j] <= MaxTime
  <2> TAKE j \in 1..Len(r)
  <2>1. j + 1 \in 1..Len(l) /\ j + 1 \in 0..Len(l) /\ f[j] = Expiry(l, j + 1) - l[1].time
    BY <1>1, <1>2
  <2> HIDE DEF f
  <2> QED BY <1>1, <1>4, <2>1, MaxTimeIs
<1>9. Sound(r) /\ \A j \in 1..Len(r) : Expiry(r, j) = f[j]
  <2> HIDE DEF f
  <2>1. r \in Seq(Entries) /\ f[0] = 0
    BY <1>2, <1>6
  <2>2. \A j \in 1..Len(r) : f[j] = f[j - 1] + r[j].time
    BY <1>6
  <2> HIDE DEF r
  <2>3. AddsUp(r, f)
    BY <1>7, <1>8, <2>1, <2>2 DEF AddsUp
  <2>4. SoundBy(r, f)
    BY <2>3, SoundFrom
  <2> QED BY <2>4 DEF SoundBy
<1>10. l[1].h \in Names(l) /\ Names(r) = Names(l) \ {l[1].h}
  <2>1. ASSUME NEW g \in Names(r) PROVE g \in Names(l) \ {l[1].h}
    <3>1. PICK j \in 1..Len(r) : r[j].h = g
      BY <1>2, NamesAre
    <3>2. j + 1 \in 1..Len(l) /\ j + 1 # 1 /\ g = l[j + 1].h
      BY <1>5, <3>1
    <3>3. g \in Names(l)
      BY <1>1, <3>2, NamesAre
    <3> QED BY <1>4, <3>2, <3>3 DEF Sound
  <2>2. ASSUME NEW g \in Names(l) \ {l[1].h} PROVE g \in Names(r)
    <3>1. PICK k \in 1..Len(l) : l[k].h = g
      BY <1>1, NamesAre
    <3>2. k # 1
      BY <3>1
    <3>3. k - 1 \in 1..Len(r) /\ k - 1 + 1 = k
      BY <1>1, <1>2, <3>2
    <3>4. r[k - 1].h = g
      BY <1>5, <3>1, <3>3
    <3> QED BY <1>2, <3>3, <3>4, NamesAre
  <2> QED BY <1>1, <1>4, <2>1, <2>2, NamesAre
<1>11. Rem(l)[l[1].h] = l[1].time /\ \A g \in Names(l) : l[1].time <= Rem(l)[g]
  <2>1. Rem(l)[l[1].h] = l[1].time
    BY <1>4, RemIs
  <2>2. ASSUME NEW g \in Names(l) PROVE l[1].time <= Rem(l)[g]
    <3>1. PICK k \in 1..Len(l) : l[k].h = g
      BY <1>1, NamesAre
    <3>2. Rem(l)[g] = Expiry(l, k) /\ 1 \in 0..Len(l) /\ k \in 1..Len(l)
      BY <1>1, <3>1, RemIs
    <3>3. Expiry(l, 1) <= Expiry(l, k)
      BY <1>1, <3>2, ExpiryGrows
    <3> QED BY <1>4, <3>2, <3>3
  <2> QED BY <2>1, <2>2
<1>12. Rem(r) = [g \in Names(l) \ {l[1].h} |-> Rem(l)[g] - l[1].time]
  <2> DEFINE g == [x \in Names(l) \ {l[1].h} |-> Rem(l)[x] - l[1].time]
  <2>1. g = [x \in Names(r) |-> g[x]] /\ \A x \in Names(r) : g[x] = Rem(l)[x] - l[1].time
    BY <1>10
  <2>2. ASSUME NEW j \in 1..Len(r) PROVE g[r[j].h] = Expiry(r, j)
    <3>1. Expiry(r, j) = Expiry(l, j + 1) - l[1].time
      <4>1. j \in 0..Len(r)
        BY <1>1, <1>2
      <4>2. Expiry(r, j) = f[j]
        <5> HIDE DEF f
        <5> QED BY <1>9
      <4> QED BY <4>1, <4>2
    <3> HIDE DEF g, f
    <3>2. j + 1 \in 1..Len(l) /\ r[j].h = l[j + 1].h /\ r[j].h \in Names(r)
      BY <1>2, <1>5, NamesAre
    <3>3. Rem(l)[l[j + 1].h] = Expiry(l, j + 1)
      BY <3>2, RemIs
    <3> QED BY <2>1, <3>1, <3>2, <3>3
  <2> HIDE DEF g
  <2>3. Rem(r) = g
    BY <1>9, <2>1, <2>2, RemFrom
  <2> QED BY <2>3 DEF g
<1> QED BY <1>2, <1>3, <1>9, <1>10, <1>11, <1>12 DEF r

\* The list when its head has t left
Shortened(l, t) == [l EXCEPT ![1] = Entry(l[1].h, t)]

\* To shorten the head's time by d lets d pass for all timers.
LEMMA PassTime ==
  ASSUME NEW l, Sound(l), l # <<>>, NEW t \in 0..l[1].time,
         NEW r, r = Shortened(l, t)
  PROVE  /\ Sound(r) /\ Len(r) = Len(l) /\ Names(r) = Names(l)
         /\ r # <<>> /\ r[1].time = t
         /\ Rem(r) = [g \in Names(l) |-> Rem(l)[g] - (l[1].time - t)]
<1> DEFINE f == [j \in 0..Len(l) |-> IF j = 0 THEN 0 ELSE Expiry(l, j) - (l[1].time - t)]
<1>1. /\ l \in Seq(Entries) /\ Len(l) \in Nat /\ 1 <= Len(l) /\ 1 \in 1..Len(l)
      /\ \A j \in 1..Len(l) : /\ l[j].time \in Nat /\ l[j].h \in Handlers
                              /\ Expiry(l, j) = Expiry(l, j - 1) + l[j].time
      /\ \A j \in 0..Len(l) : Expiry(l, j) \in Nat
      /\ \A j \in 1..Len(l) : Expiry(l, j) <= MaxTime
      /\ Expiry(l, 0) = 0
  BY EntryTimes, ExpiryIs, EmptySeq DEF Sound
<1>2. Entry(l[1].h, t) \in Entries /\ t \in Nat /\ t <= l[1].time /\ l[1].time \in Nat
  BY <1>1, EntryIs, SMTT(30)
<1>3. /\ r \in Seq(Entries) /\ Len(r) = Len(l)
      /\ \A j \in 1..Len(l) : r[j] = IF j = 1 THEN Entry(l[1].h, t) ELSE l[j]
  <2> DEFINE e == Entry(l[1].h, t)
  <2>1. e \in Entries /\ r = [l EXCEPT ![1] = e]
    BY <1>2 DEF Shortened
  <2> HIDE DEF e
  <2>2. /\ r \in Seq(Entries) /\ Len(r) = Len(l)
        /\ \A j \in 1..Len(l) : r[j] = IF j = 1 THEN e ELSE l[j]
    BY <1>1, <2>1, ExceptSeq
  <2> QED BY <2>2 DEF e
<1>4. \A j \in 1..Len(l) : r[j].h = l[j].h
  BY <1>1, <1>3, EntryIs
<1>5. f[0] = 0 /\ \A j \in 1..Len(r) : f[j] = f[j - 1] + r[j].time
  <2>1. f[0] = 0
    BY <1>1
  <2>2. ASSUME NEW j \in 1..Len(r) PROVE f[j] = f[j - 1] + r[j].time
    <3>1. /\ j \in 1..Len(l) /\ j \in 0..Len(l) /\ j - 1 \in 0..Len(l)
          /\ Expiry(l, j) = Expiry(l, j - 1) + l[j].time /\ l[j].time \in Nat
          /\ Expiry(l, j - 1) \in Nat
      BY <1>1, <1>3
    <3>2. f[j] = Expiry(l, j) - (l[1].time - t)
      BY <1>1, <3>1
    <3>3. CASE j = 1
      <4>1. f[j - 1] = 0 /\ r[j].time = t /\ Expiry(l, j - 1) = 0
        BY <1>1, <1>3, <3>3, EntryIs
      <4> HIDE DEF f
      <4> QED BY <1>2, <3>1, <3>2, <3>3, <4>1
    <3>4. CASE j # 1
      <4>1. f[j - 1] = Expiry(l, j - 1) - (l[1].time - t) /\ r[j].time = l[j].time
        BY <1>1, <1>3, <3>1, <3>4
      <4> HIDE DEF f
      <4> QED BY <1>2, <3>1, <3>2, <4>1
    <3> QED BY <3>3, <3>4
  <2> QED BY <2>1, <2>2
<1>6. \A j, k \in 1..Len(r) : r[j].h = r[k].h => j = k
  BY <1>3, <1>4 DEF Sound
<1>7. \A j \in 1..Len(r) : f[j] = Expiry(l, j) - (l[1].time - t) /\ f[j] <= MaxTime
  <2> TAKE j \in 1..Len(r)
  <2>1. /\ j \in 1..Len(l) /\ Expiry(l, j) \in Nat /\ Expiry(l, j) <= MaxTime
        /\ f[j] = Expiry(l, j) - (l[1].time - t)
    BY <1>1, <1>3
  <2> HIDE DEF f
  <2> QED BY <1>2, <2>1, MaxTimeIs
<1>8. Sound(r) /\ \A j \in 1..Len(r) : Expiry(r, j) = f[j]
  <2> HIDE DEF f
  <2>1. r \in Seq(Entries) /\ f[0] = 0
    BY <1>3, <1>5
  <2>2. \A j \in 1..Len(r) : f[j] = f[j - 1] + r[j].time
    BY <1>5
  <2>3. AddsUp(r, f)
    BY <1>6, <1>7, <2>1, <2>2 DEF AddsUp
  <2>4. SoundBy(r, f)
    BY <2>3, SoundFrom
  <2> QED BY <2>4 DEF SoundBy
<1>9. Names(r) = Names(l)
  <2>1. DOMAIN r = 1..Len(l) /\ DOMAIN l = 1..Len(l)
    BY <1>1, <1>3, EntryTimes
  <2> QED BY <1>4, <2>1 DEF Names
<1>10. Rem(r) = [g \in Names(l) |-> Rem(l)[g] - (l[1].time - t)]
  <2> DEFINE g == [x \in Names(l) |-> Rem(l)[x] - (l[1].time - t)]
  <2>1. g = [x \in Names(r) |-> g[x]]
    BY <1>9
  <2>2. ASSUME NEW j \in 1..Len(r) PROVE g[r[j].h] = Expiry(r, j)
    <3>1. j \in 1..Len(l) /\ r[j].h = l[j].h /\ l[j].h \in Names(l)
      BY <1>1, <1>3, <1>4, NamesAre
    <3>2. Rem(l)[l[j].h] = Expiry(l, j)
      BY <3>1, RemIs
    <3>3. Expiry(r, j) = Expiry(l, j) - (l[1].time - t)
      <4> HIDE DEF f
      <4> QED BY <1>7, <1>8
    <3> QED BY <3>1, <3>2, <3>3
  <2> HIDE DEF g
  <2>3. Rem(r) = g
    BY <1>8, <2>1, <2>2, RemFrom
  <2> QED BY <2>3 DEF g
<1>11. r # <<>> /\ r[1].time = t
  BY <1>1, <1>3, EntryIs, EmptySeq
<1> QED BY <1>3, <1>8, <1>9, <1>10, <1>11

-----------------------------------------------------------------------------
(* The pool                                                                *)

\* start-up sets finitely many timers.
LEMMA HandlersFinite == IsFiniteSet(Handlers)
<1>1. Startup \in [1..Len(Startup) -> Periodic] /\ Len(Startup) \in Nat
      /\ DOMAIN Startup = 1..Len(Startup)
  BY TimeoutsAssumption, LenProperties
<1>2. Startup \in Surjection(1..Len(Startup), Periodic)
  BY <1>1 DEF Periodic, ToSet, Surjection
<1>3. IsFiniteSet(1..Len(Startup))
  BY <1>1, FS_Interval
<1>4. IsFiniteSet(Periodic)
  BY <1>2, <1>3, FS_Surjection
<1>5. IsFiniteSet((Periodic \cup {TCP}) \cup {APP})
  BY <1>4, FS_AddElement
<1>6. Handlers = (Periodic \cup {TCP}) \cup {APP}
  BY DEF Handlers
<1> QED BY <1>5, <1>6

\* A sound list has one entry for each of its handlers.
LEMMA NamesCount ==
  ASSUME NEW l, Sound(l)
  PROVE  IsFiniteSet(Names(l)) /\ Cardinality(Names(l)) = Len(l)
<1> DEFINE f == [i \in 1..Len(l) |-> l[i].h]
<1>1. l \in Seq(Entries) /\ Len(l) \in Nat
  BY EntryTimes DEF Sound
<1>2. f \in Bijection(1..Len(l), Names(l))
  <2>1. f \in [1..Len(l) -> Names(l)]
    BY <1>1, NamesAre
  <2>2. \A i, j \in 1..Len(l) : f[i] = f[j] => i = j
    BY DEF Sound
  <2>3. \A h \in Names(l) : \E i \in 1..Len(l) : f[i] = h
    BY <1>1, NamesAre
  <2> HIDE DEF f
  <2>4. f \in Injection(1..Len(l), Names(l))
    BY <2>1, <2>2 DEF Injection, IsInjective
  <2>5. f \in Surjection(1..Len(l), Names(l))
    BY <2>1, <2>3 DEF Surjection
  <2> QED BY <2>4, <2>5 DEF Bijection
<1>3. ExistsBijection(1..Len(l), Names(l))
  BY <1>2 DEF ExistsBijection
<1>4. IsFiniteSet(1..Len(l)) /\ Cardinality(1..Len(l)) = Len(l)
  BY <1>1, FS_Interval
<1> QED BY <1>3, <1>4, FS_Bijection

\* The pool has an entry for every handler that is not on the list.
LEMMA Spare ==
  ASSUME NEW l, Sound(l), NEW h \in Handlers \ Names(l)
  PROVE  /\ Len(l) + 1 <= Pool
         /\ \A g \in Handlers \ Names(l) : g # h => Len(l) + 2 <= Pool
<1>1. /\ IsFiniteSet(Names(l)) /\ Cardinality(Names(l)) = Len(l) /\ Len(l) \in Nat
      /\ IsFiniteSet(Handlers) /\ Cardinality(Handlers) \in Nat
      /\ Pool \in Nat /\ Cardinality(Handlers) <= Pool /\ Names(l) \subseteq Handlers
  BY NamesCount, HandlersFinite, FS_CardinalityType, TimeoutsAssumption, NamesAre, EntryTimes, SMTT(30)
     DEF Sound
<1> DEFINE S == Names(l) \cup {h}
<1>2. IsFiniteSet(S) /\ Cardinality(S) = Len(l) + 1 /\ S \subseteq Handlers
  BY <1>1, FS_AddElement
<1>3. Len(l) + 1 <= Pool
  BY <1>1, <1>2, FS_Subset
<1>4. ASSUME NEW g \in Handlers \ Names(l), g # h PROVE Len(l) + 2 <= Pool
  <2> DEFINE T == S \cup {g}
  <2>1. g \notin S /\ T \subseteq Handlers
    BY <1>2, <1>4
  <2> HIDE DEF S
  <2>2. IsFiniteSet(T) /\ Cardinality(T) = Cardinality(S) + 1
    BY <1>2, <2>1, FS_AddElement
  <2> HIDE DEF T
  <2>3. Cardinality(T) <= Cardinality(Handlers)
    BY <1>1, <2>1, <2>2, FS_Subset
  <2> QED BY <1>1, <1>2, <2>2, <2>3
<1> QED BY <1>3, <1>4

-----------------------------------------------------------------------------
(* The list at start-up                                                    *)

\* A list without entries is sound.
LEMMA EmptyList ==
  Sound(<<>>) /\ Len(<<>>) = 0 /\ Names(<<>>) = {} /\ DOMAIN Rem(<<>>) = {}
<1>1. <<>> \in Seq(Entries) /\ Len(<<>>) = 0
  BY EmptySeq
<1>2. Sound(<<>>) /\ Names(<<>>) = {}
  BY <1>1 DEF Sound, Names
<1> QED BY <1>1, <1>2, RemIs

\* Started is what sys_timeout makes of the list, handler by handler.
LEMMA StartedIs ==
  ASSUME NEW n, n = Len(Startup)
  PROVE  /\ n \in Nat /\ Started[0] = <<>>
         /\ \A k \in 1..n : Started[k] = Inserted(Started[k - 1], Startup[k])
<1> DEFINE rhs(g) == [k \in 0..n |-> IF k = 0 THEN <<>> ELSE Inserted(g[k - 1], Startup[k])]
           Good(m, f) ==
             f = [k \in 0..m |-> IF k = 0 THEN <<>> ELSE Inserted(f[k - 1], Startup[k])]
           Bad == {m \in 0..n : ~ \E f : Good(m, f)}
<1>1. n \in Nat
  BY TimeoutsAssumption, LenProperties
<1>2. Bad = {}
  <2> SUFFICES ASSUME Bad # {} PROVE FALSE
    OBVIOUS
  <2>1. PICK m \in Bad : \A x \in Bad : m <= x
    <3>1. Bad \in SUBSET Nat
      BY <1>1
    <3> HIDE DEF Bad
    <3> QED BY <3>1, Least
  <2>2. m \in 0..n /\ ~ \E f : Good(m, f)
    BY <2>1
  <2>3. m # 0
    <3> DEFINE f == [k \in 0..0 |-> <<>>]
    <3>1. Good(0, f)
      OBVIOUS
    <3> QED BY <2>2, <3>1
  <2>4. m \in 1..n /\ m - 1 \in 0..n /\ m - 1 \notin Bad
    <3> HIDE DEF Bad, Good
    <3>1. m \in 1..n /\ m - 1 \in 0..n /\ ~(m <= m - 1)
      BY <1>1, <2>2, <2>3
    <3> QED BY <2>1, <3>1
  <2>5. PICK f : Good(m - 1, f)
    BY <2>4
  <2> DEFINE g == [k \in 0..m |-> IF k = m THEN Inserted(f[m - 1], Startup[m]) ELSE f[k]]
  <2>6. Good(m, g)
    <3>1. \A k \in 0..m : g[k] = IF k = 0 THEN <<>> ELSE Inserted(g[k - 1], Startup[k])
      <4> TAKE k \in 0..m
      <4>1. CASE k = m
        <5>1. g[k] = Inserted(f[m - 1], Startup[m]) /\ g[m - 1] = f[m - 1]
          BY <2>4, <4>1
        <5> QED BY <2>3, <4>1, <5>1
      <4>2. CASE k # m
        <5>1. k \in 0..(m - 1) /\ g[k] = f[k]
          BY <2>4, <4>2
        <5>2. f[k] = IF k = 0 THEN <<>> ELSE Inserted(f[k - 1], Startup[k])
          BY <2>5, <5>1
        <5>3. k # 0 => g[k - 1] = f[k - 1]
          BY <2>4, <5>1
        <5> HIDE DEF g
        <5> QED BY <5>1, <5>2, <5>3
      <4> QED BY <4>1, <4>2
    <3>2. g = [k \in 0..m |-> g[k]]
      OBVIOUS
    <3> HIDE DEF g
    <3> QED BY <3>1, <3>2
  <2> QED BY <2>2, <2>6
<1>3. PICK f : f = rhs(f)
  <2>1. n \in 0..n
    BY <1>1
  <2> QED BY <1>2, <2>1
<1>4. Started = CHOOSE g : g = rhs(g)
  BY DEF Started
<1>5. Started = rhs(Started)
  <2> HIDE DEF rhs
  <2> QED BY <1>3, <1>4
<1>6. \A k \in 0..n : Started[k] = IF k = 0 THEN <<>> ELSE Inserted(Started[k - 1], Startup[k])
  BY <1>5
<1> QED BY <1>1, <1>6

\* What sys_timeout leaves after each handler of the start-up: a sound list of
\* the handlers so far, each with its whole interval to wait.
LEMMA StartedSound ==
  ASSUME NEW n, n = Len(Startup), NEW k \in 0..n
  PROVE  /\ Sound(Started[k]) /\ Len(Started[k]) = k
         /\ Names(Started[k]) = {Startup[i] : i \in 1..k}
         /\ \A g \in Names(Started[k]) : Rem(Started[k])[g] = Interval[g]
<1> DEFINE First(j) == {Startup[i] : i \in 1..j}
           Good(j) == /\ Sound(Started[j]) /\ Len(Started[j]) = j
                      /\ Names(Started[j]) = First(j)
                      /\ \A g \in Names(Started[j]) : Rem(Started[j])[g] = Interval[g]
           Bad == {j \in 0..n : ~Good(j)}
<1>1. /\ n \in Nat /\ Started[0] = <<>>
      /\ \A j \in 1..n : Started[j] = Inserted(Started[j - 1], Startup[j])
  BY StartedIs
<1>2. /\ \A i \in 1..n : Startup[i] \in Periodic
      /\ \A i, j \in 1..n : Startup[i] = Startup[j] => i = j
  <2>1. DOMAIN Startup = 1..n
    BY TimeoutsAssumption, LenProperties
  <2> QED BY <2>1, TimeoutsAssumption, ZenonT(60) DEF IsInjective, Periodic, ToSet
<1>3. Bad = {}
  <2> SUFFICES ASSUME Bad # {} PROVE FALSE
    OBVIOUS
  <2>1. PICK j \in Bad : \A x \in Bad : j <= x
    <3>1. Bad \in SUBSET Nat
      BY <1>1
    <3> HIDE DEF Bad
    <3> QED BY <3>1, Least
  <2>2. Good(0)
    <3>1. First(0) = {}
      OBVIOUS
    <3> HIDE DEF First
    <3> QED BY <1>1, <3>1, EmptyList
  <2>3. j \in 1..n /\ j - 1 \in 0..n /\ Good(j - 1) /\ ~Good(j)
    <3>1. j \in 0..n /\ ~Good(j)
      BY <2>1
    <3>2. \A x \in 0..n : x \notin Bad => Good(x)
      OBVIOUS
    <3> HIDE DEF Good, Bad
    <3>3. j # 0
      BY <2>2, <3>1
    <3>4. j - 1 \in 0..n /\ j \in 1..n /\ ~(j <= j - 1)
      BY <1>1, <3>1, <3>3
    <3> QED BY <2>1, <3>1, <3>2, <3>4
  <2> DEFINE l == Started[j - 1]
             h == Startup[j]
  <2>4. h \in Handlers /\ h \notin Names(l)
    <3>1. \A i \in 1..(j - 1) : i \in 1..n /\ i # j
      BY <1>1, <2>3
    <3>2. h \notin First(j - 1)
      BY <1>2, <2>3, <3>1
    <3> QED BY <1>2, <2>3, <3>2 DEF Handlers
  <2>5. /\ Started[j] = Inserted(l, h) /\ First(j) = First(j - 1) \cup {h}
        /\ Sound(l) /\ Len(l) = j - 1 /\ Names(l) = First(j - 1) /\ j \in Nat
        /\ \A g \in Names(l) : Rem(l)[g] = Interval[g]
    <3>1. 1..j = 1..(j - 1) \cup {j}
      BY <1>1, <2>3
    <3> QED BY <1>1, <2>3, <3>1
  <2> HIDE DEF l, h, First
  <2>6. /\ Sound(Inserted(l, h)) /\ Len(Inserted(l, h)) = Len(l) + 1
        /\ Names(Inserted(l, h)) = Names(l) \cup {h}
        /\ Rem(Inserted(l, h)) = TimersBar!With(Rem(l), h, Interval[h])
    BY <2>4, <2>5, SetTimer
  <2>7. \A g \in Names(l) \cup {h} : Rem(Inserted(l, h))[g] = Interval[g]
    BY <2>5, <2>6, RemIs DEF TimersBar!With
  <2>8. Good(j)
    BY <2>5, <2>6, <2>7
  <2> QED BY <2>3, <2>8
<1>4. Good(k)
  BY <1>3
<1> QED BY <1>4

-----------------------------------------------------------------------------
(* The measured time                                                       *)

\* The product of ticks and milliseconds does not wrap if it is below 2^32.
LEMMA SmallMod ==
  ASSUME NEW x \in Nat, NEW w \in Nat, x < w
  PROVE  x % w = x
OBVIOUS

\* sys_arch_mbox_fetch never returns less than the ticks that have passed.
LEMMA ElapsedIs ==
  ASSUME NEW w \in 0..(MaxTime + 2 * MaxSlip), NEW wrapped \in BOOLEAN, wrapped => w > 0
  PROVE  Elapsed(w, wrapped) \in Nat /\ Elapsed(w, wrapped) >= w
<1> DEFINE new == CASE w = 0 -> Word - 1
                    [] w > 0 /\ wrapped -> w - 1
                    [] OTHER -> w
<1>1. /\ MaxTime \in Nat /\ MaxSlip \in Nat /\ Word \in Nat
      /\ 1000 * (MaxTime + 2 * MaxSlip) < Word
  <2>1. PICK h \in Handlers : MaxTime = Interval[h]
    BY MaxTimeIs
  <2> QED BY <2>1, TimeoutsAssumption, MaxTimeIs
<1>2. Elapsed(w, wrapped) = ((new * 1000) % Word) \div 1000 + 1
  BY DEF Elapsed
<1>3. new \in Nat /\ (w > 0 => new * 1000 < Word /\ new + 1 >= w)
  BY <1>1
<1> HIDE DEF new
<1>4. (new * 1000) % Word \in Nat
  BY <1>1, <1>3
<1>5. ((new * 1000) % Word) \div 1000 \in Nat
  BY <1>4
<1>6. CASE w > 0
  <2>1. (new * 1000) % Word = new * 1000
    BY <1>1, <1>3, <1>6, SmallMod
  <2>2. (new * 1000) \div 1000 = new
    BY <1>3
  <2> QED BY <1>2, <1>3, <1>6, <2>1, <2>2
<1> QED BY <1>2, <1>5, <1>6

\* What is left of the head is nothing, or its time less what was needed
\* (sys.c:110-116).
LEMMA HeadAfterIs ==
  ASSUME NEW t \in Nat, NEW e \in Nat
  PROVE  /\ HeadAfter(t, e) \in 0..t
         /\ HeadAfter(t, e) = 0 \/ HeadAfter(t, e) = t - e
BY DEF HeadAfter

-----------------------------------------------------------------------------
(* The inductive invariant                                                 *)

\* The values of the variables, the list apart
Ranges ==
    /\ tcpOn \in {"off", "on"}
    /\ mbox \in 0..MaxMbox
    /\ phase \in {"again", "pend", "blocked", "got", "fire", "busy"}
    /\ waited \in 0..(MaxTime + 2 * MaxSlip)
    /\ dly \in 0..MaxTime
    /\ slip \in 0..MaxSlip
    /\ left \in [Handlers -> Int]

\* Every periodic timer is on the list.
Kept == Sound(list) /\ Periodic \subseteq Names(list)

\* One entry of the pool may be lost: that of tcpip_tcp_timer.
PoolKept ==
    /\ free \in 0..Pool
    /\ TCP \in Names(list) => tcpOn = "on"
    /\ Pool - free - Len(list) = IF tcpOn = "on" /\ TCP \notin Names(list) THEN 1 ELSE 0

\* The ticks between the two OSTimeGet cover those that OSQPend has waited.
Clock ==
    /\ phase = "pend" => list[1].time > 0 /\ waited <= slip
    /\ phase = "blocked" => /\ dly \in 1..list[1].time
                            /\ list[1].time - dly <= waited
                            /\ waited + dly <= MaxTime + MaxSlip
    /\ phase = "got" => waited <= MaxTime + MaxSlip + slip

\* No timer is behind its time by more than what the head is about to lose.
InTime ==
    \A g \in Names(list) :
        /\ phase \in {"again", "busy", "pend"} => Rem(list)[g] <= left[g]
        /\ phase = "blocked" => Rem(list)[g] - (list[1].time - dly) <= left[g]
        /\ phase = "got" => /\ Rem(list)[g] - list[1].time <= left[g]
                            /\ Rem(list)[g] - waited <= left[g]
        /\ phase = "fire" => Rem(list)[g] - list[1].time <= left[g]

\* NeverLate alone is not inductive: what the head may lose while the thread
\* is blocked has to be covered by the ticks that are measured.
IInv == Ranges /\ Kept /\ PoolKept /\ Clock /\ InTime

\* What the invariant says of the list and its head
LEMMA HeadIs ==
  ASSUME IInv
  PROVE  /\ Sound(list) /\ list # <<>> /\ Len(list) \in Nat /\ 1 <= Len(list)
         /\ Pending = Names(list) /\ Names(list) \subseteq Handlers
         /\ Head(list) = list[1] /\ list[1].h \in Names(list) /\ list[1].time \in 0..MaxTime
         /\ \A g \in Names(list) : /\ Rem(list)[g] \in 0..MaxTime /\ left[g] \in Int
                                   /\ list[1].time <= Rem(list)[g]
         /\ MaxTime \in Nat /\ MaxSlip \in Nat /\ MaxMbox \in Nat /\ Pool \in Nat
<1>1. Sound(list) /\ list \in Seq(Entries) /\ DOMAIN Startup = 1..Len(Startup)
      /\ Len(Startup) \in Nat /\ Startup # <<>> /\ Startup \in Seq(Periodic)
  BY TimeoutsAssumption, LenProperties DEF IInv, Kept, Sound
<1>2. Startup[1] \in Names(list)
  <2>1. 1 \in 1..Len(Startup)
    BY <1>1, EmptySeq
  <2>2. Startup[1] \in Periodic
    BY <1>1, <2>1 DEF Periodic, ToSet
  <2> QED BY <2>2 DEF IInv, Kept
<1>3. list # <<>> /\ Len(list) \in Nat /\ 1 <= Len(list) /\ 1 \in 1..Len(list)
  <2>1. PICK i \in 1..Len(list) : TRUE
    BY <1>1, <1>2, NamesAre
  <2> QED BY <1>1, <2>1, EntryTimes, EmptySeq
<1>4. Pending = Names(list) /\ Names(list) \subseteq Handlers
  BY <1>1, NamesAre DEF Pending, Names
<1>5. /\ Head(list) = list[1] /\ list[1].h \in Names(list)
      /\ Rem(list)[list[1].h] = list[1].time
      /\ \A g \in Names(list) : list[1].time <= Rem(list)[g]
  BY <1>1, <1>3, FireTimer
<1>6. \A g \in Names(list) : Rem(list)[g] \in 0..MaxTime
  BY <1>1, RemIs
<1>7. left \in [Handlers -> Int]
  BY DEF IInv, Ranges
<1>8. \A g \in Names(list) : left[g] \in Int
  BY <1>4, <1>7
<1>9. list[1].time \in 0..MaxTime
  <2>1. Rem(list)[list[1].h] \in 0..MaxTime
    BY <1>5, <1>6
  <2> QED BY <1>5, <2>1
<1>10. MaxTime \in Nat /\ MaxSlip \in Nat /\ MaxMbox \in Nat /\ Pool \in Nat
  BY MaxTimeIs, TimeoutsAssumption
<1> QED BY <1>1, <1>3, <1>4, <1>5, <1>6, <1>8, <1>9, <1>10

\* The constants that bound the variables
LEMMA Bounds == MaxTime \in Nat /\ MaxSlip \in Nat /\ MaxMbox \in Nat /\ Pool \in Nat
BY MaxTimeIs, TimeoutsAssumption

\* Without a change of the list or the pool
LEMMA ListKept ==
  ASSUME IInv, UNCHANGED <<list, free, tcpOn>>
  PROVE  Kept' /\ PoolKept' /\ Names(list') = Names(list) /\ Rem(list') = Rem(list)
BY DEF IInv, Kept, PoolKept

\* After start-up every timer has its whole interval to wait.
LEMMA InitIInv == Init => IInv
<1> SUFFICES ASSUME Init PROVE IInv
  OBVIOUS
<1> DEFINE n == Len(Startup)
<1>1. /\ n \in Nat /\ n \in 0..n /\ list = Started[n] /\ DOMAIN Startup = 1..n
  BY StartedIs, TimeoutsAssumption, LenProperties DEF Init
<1>2. /\ Sound(list) /\ Len(list) = n /\ Names(list) = {Startup[i] : i \in 1..n}
      /\ \A g \in Names(list) : Rem(list)[g] = Interval[g]
  <2> HIDE DEF n
  <2> QED BY <1>1, StartedSound DEF n
<1>3. Names(list) = Periodic
  BY <1>1, <1>2 DEF Periodic, ToSet
<1>4. Cardinality(Periodic) = n /\ TCP \notin Periodic
  BY <1>2, <1>3, NamesCount, TimeoutsAssumption
<1>5. free \in 0..Pool /\ Pool - free = n
  <2>1. Periodic \subseteq Handlers /\ Cardinality(Periodic) <= Cardinality(Handlers)
        /\ Cardinality(Handlers) \in Nat
    BY HandlersFinite, FS_Subset, FS_CardinalityType DEF Handlers
  <2> HIDE DEF n
  <2> QED BY <1>1, <1>4, <2>1, TimeoutsAssumption DEF Init
<1> HIDE DEF n
<1>6. Ranges
  BY MaxTimeIs, TimeoutsAssumption DEF Init, Ranges
<1>7. Kept
  BY <1>2, <1>3 DEF Kept
<1>8. PoolKept
  BY <1>1, <1>2, <1>3, <1>4, <1>5 DEF Init, PoolKept
<1>9. Clock
  BY DEF Init, Clock
<1>10. InTime
  <2>1. \A g \in Names(list) : Rem(list)[g] <= left[g]
    BY <1>2, <1>3, MaxTimeIs DEF Init, Handlers
  <2> QED BY <2>1 DEF Init, InTime
<1> QED BY <1>6, <1>7, <1>8, <1>9, <1>10 DEF IInv

\* sys_mbox_fetch looks at the head.
LEMMA AgainStep == IInv /\ Again => IInv'
<1> SUFFICES ASSUME IInv, Again PROVE IInv'
  OBVIOUS
<1>1. Kept' /\ PoolKept' /\ Names(list') = Names(list) /\ Rem(list') = Rem(list)
  BY ListKept DEF Again, lists
<1>2. Ranges'
  BY HeadIs DEF IInv, Ranges, Again, Goto, lists
<1>3. Clock'
  BY HeadIs DEF IInv, Again, Goto, Clock, lists
<1>4. InTime'
  <2>1. phase = "again" /\ list' = list /\ left' = left /\ phase' \in {"pend", "fire"}
        /\ (phase' = "fire" => list[1].time >= 0)
    BY HeadIs DEF Again, Goto, lists
  <2>2. \A g \in Names(list) : Rem(list)[g] <= left[g]
    BY <2>1 DEF IInv, InTime
  <2> QED BY <1>1, <2>1, <2>2, HeadIs DEF InTime
<1> QED BY <1>1, <1>2, <1>3, <1>4 DEF IInv

\* OSQPend gets a message or blocks for the time of the head.
LEMMA OSQPendStep == IInv /\ OSQPend => IInv'
<1> SUFFICES ASSUME IInv, OSQPend PROVE IInv'
  OBVIOUS
<1>1. Kept' /\ PoolKept' /\ Names(list') = Names(list) /\ Rem(list') = Rem(list)
  BY ListKept DEF OSQPend, lists
<1>2. /\ phase = "pend" /\ list' = list /\ left' = left /\ waited' = waited
      /\ list[1].time > 0 /\ waited <= slip /\ slip \in 0..MaxSlip
      /\ waited \in 0..(MaxTime + 2 * MaxSlip)
      /\ \/ phase' = "got" /\ slip' = 0
         \/ phase' = "blocked" /\ slip' = 0 /\ dly' = list[1].time
  BY HeadIs DEF IInv, OSQPend, Goto, Clock, Ranges, lists
<1>3. Ranges'
  <2>1. list[1].time \in 0..MaxTime
    BY HeadIs
  <2>2. mbox > 0 => mbox - 1 \in 0..MaxMbox
    BY Bounds DEF IInv, Ranges
  <2> QED BY <1>2, <2>1, <2>2, HeadIs, Bounds, SMTT(30) DEF IInv, Ranges, OSQPend, Goto, lists
<1>4. Clock'
  BY <1>2, HeadIs DEF Clock
<1>5. InTime'
  <2>1. \A g \in Names(list) : Rem(list)[g] <= left[g]
    BY <1>2 DEF IInv, InTime
  <2> QED BY <1>1, <1>2, <2>1, HeadIs, SMTT(30) DEF InTime
<1> QED BY <1>1, <1>3, <1>4, <1>5 DEF IInv

\* A message ends the wait before the time of the head is over.
LEMMA OSQPostStep == IInv /\ OSQPost => IInv'
<1> SUFFICES ASSUME IInv, OSQPost PROVE IInv'
  OBVIOUS
<1>1. Kept' /\ PoolKept' /\ Names(list') = Names(list) /\ Rem(list') = Rem(list)
  BY ListKept DEF OSQPost, lists
<1>2. Ranges'
  <2>1. mbox < MaxMbox => mbox + 1 \in 0..MaxMbox
    BY Bounds DEF IInv, Ranges
  <2> QED BY <2>1, Bounds DEF IInv, Ranges, OSQPost, Goto, lists
<1>3. CASE phase = "blocked"
  <2>1. /\ list' = list /\ left' = left /\ waited' = waited /\ phase' = "got" /\ slip' = 0
        /\ dly \in 1..list[1].time /\ list[1].time - dly <= waited
        /\ waited + dly <= MaxTime + MaxSlip /\ waited \in Int
    BY <1>3, HeadIs DEF IInv, OSQPost, Goto, Clock, Ranges, lists
  <2>2. Clock'
    BY <2>1, HeadIs DEF Clock
  <2>3. InTime'
    <3>1. \A g \in Names(list) : Rem(list)[g] - (list[1].time - dly) <= left[g]
      BY <1>3 DEF IInv, InTime
    <3>2. \A g \in Names(list) : Rem(list)[g] - list[1].time <= left[g]
                                /\ Rem(list)[g] - waited <= left[g]
      <4> TAKE g \in Names(list)
      <4>1. Rem(list)[g] \in Int /\ left[g] \in Int /\ list[1].time \in Int
        BY HeadIs
      <4> QED BY <2>1, <3>1, <4>1
    <3> QED BY <1>1, <2>1, <3>2 DEF InTime
  <2> QED BY <1>1, <1>2, <2>2, <2>3 DEF IInv
<1>4. CASE phase # "blocked"
  <2>1. UNCHANGED <<list, free, left, tcpOn, phase, slip, dly, waited>>
    BY <1>4 DEF OSQPost, Goto, lists
  <2>2. Clock' /\ InTime'
    BY <1>1, <2>1 DEF IInv, Clock, InTime
  <2> QED BY <1>1, <1>2, <2>2 DEF IInv
<1> QED BY <1>3, <1>4

\* A tick takes as much off the timers as it adds to the wait.
LEMMA TickStep == IInv /\ Tick => IInv'
<1> SUFFICES ASSUME IInv, Tick PROVE IInv'
  OBVIOUS
<1>1. Kept' /\ PoolKept' /\ Names(list') = Names(list) /\ Rem(list') = Rem(list)
      /\ list' = list
  BY ListKept DEF Tick
<1>2. CASE phase = "blocked"
  <2>1. /\ dly' = dly - 1 /\ waited' = waited + 1 /\ waited \in Nat
        /\ dly \in 1..list[1].time /\ list[1].time - dly <= waited
        /\ waited + dly <= MaxTime + MaxSlip
        /\ IF dly = 1 THEN phase' = "fire" /\ slip' = 0 ELSE phase' = phase /\ slip' = slip
    BY <1>2 DEF IInv, Tick, Goto, Clock, Ranges
  <2>2. \A g \in Names(list) : left'[g] = left[g] - 1 /\ left[g] \in Int
    BY <1>2, HeadIs DEF Tick
  <2>3. left' \in [Handlers -> Int]
    <3>1. \A h \in Handlers : left[h] \in Int
      BY DEF IInv, Ranges
    <3>2. left' = [h \in Handlers |-> IF h \in Pending THEN left[h] - 1 ELSE left[h]]
      BY <1>2 DEF Tick
    <3> QED BY <3>1, <3>2
  <2>4. Ranges'
    <3>1. /\ waited' \in 0..(MaxTime + 2 * MaxSlip) /\ dly' \in 0..MaxTime
          /\ phase' \in {"blocked", "fire"} /\ slip' \in 0..MaxSlip
          /\ UNCHANGED <<tcpOn, mbox>>
      <4>1. list[1].time \in 0..MaxTime
        BY HeadIs
      <4> QED BY <1>2, <2>1, <4>1, Bounds DEF IInv, Ranges, Tick
    <3> QED BY <2>3, <3>1 DEF IInv, Ranges
  <2>5. Clock'
    BY <1>1, <1>2, <2>1, HeadIs DEF Clock
  <2>6. InTime'
    <3>1. \A g \in Names(list) : Rem(list)[g] - (list[1].time - dly) <= left[g]
      BY <1>2 DEF IInv, InTime
    <3>2. \A g \in Names(list) :
             /\ Rem(list)[g] - (list[1].time - dly') <= left'[g]
             /\ dly' = 0 => Rem(list)[g] - list[1].time <= left'[g]
      <4> TAKE g \in Names(list)
      <4>1. Rem(list)[g] \in Int /\ left[g] \in Int /\ list[1].time \in Int
        BY HeadIs
      <4> QED BY <2>1, <2>2, <3>1, <4>1
    <3>3. phase' = "blocked" \/ (phase' = "fire" /\ dly' = 0)
      BY <1>2, <2>1
    <3> QED BY <1>1, <3>2, <3>3 DEF InTime
  <2> QED BY <1>1, <2>4, <2>5, <2>6 DEF IInv
<1>3. CASE phase # "blocked"
  <2>1. /\ slip < MaxSlip /\ slip' = slip + 1 /\ dly' = dly /\ phase' = phase /\ left' = left
        /\ waited' = IF phase \in {"pend", "got"} THEN waited + 1 ELSE 0
        /\ slip \in Nat /\ waited \in Nat
    BY <1>3 DEF IInv, Tick, Ranges
  <2>2. /\ phase = "pend" => waited <= slip
        /\ phase = "got" => waited <= MaxTime + MaxSlip + slip
    BY DEF IInv, Clock
  <2>3. Ranges'
    <3>1. /\ waited' \in 0..(MaxTime + 2 * MaxSlip) /\ slip' \in 0..MaxSlip
          /\ UNCHANGED <<tcpOn, mbox>>
      BY <1>3, <2>1, <2>2, Bounds DEF IInv, Ranges, Tick
    <3> QED BY <2>1, <3>1 DEF IInv, Ranges
  <2>4. Clock'
    BY <1>1, <1>3, <2>1, <2>2, HeadIs DEF IInv, Clock
  <2>5. InTime'
    <3>1. \A g \in Names(list) :
             /\ phase \in {"again", "busy", "pend"} => Rem(list)[g] <= left[g]
             /\ phase = "got" => /\ Rem(list)[g] - list[1].time <= left[g]
                                 /\ Rem(list)[g] - waited <= left[g]
             /\ phase = "fire" => Rem(list)[g] - list[1].time <= left[g]
      BY DEF IInv, InTime
    <3> QED BY <1>1, <1>3, <2>1, <3>1, HeadIs DEF InTime
  <2> QED BY <1>1, <2>3, <2>4, <2>5 DEF IInv
<1> QED BY <1>2, <1>3

\* sys_mbox_fetch with a message: what it has waited is taken off the head.
LEMMA ReturnStep == IInv /\ Return =>
    /\ IInv'
    /\ \E t \in 0..MaxTime :
         /\ \A g \in Names(list) : t <= Rem(list)[g]
         /\ Rem(list') = [g \in Names(list) |-> Rem(list)[g] - t]
<1> SUFFICES ASSUME IInv, Return
             PROVE  /\ IInv'
                    /\ \E t \in 0..MaxTime :
                         /\ \A g \in Names(list) : t <= Rem(list)[g]
                         /\ Rem(list') = [g \in Names(list) |-> Rem(list)[g] - t]
  OBVIOUS
<1>1. PICK wrapped \in BOOLEAN : /\ wrapped => waited > 0
                                 /\ list' = [list EXCEPT ![1] =
                                        Entry(@.h, HeadAfter(@.time, Elapsed(waited, wrapped)))]
  BY DEF Return
<1> DEFINE e == Elapsed(waited, wrapped)
           T == list[1].time
           t == HeadAfter(T, e)
<1>2. /\ phase = "got" /\ phase' = "busy" /\ waited' = 0 /\ slip' = 0
      /\ UNCHANGED <<free, left, tcpOn, mbox, dly>>
      /\ waited \in 0..(MaxTime + 2 * MaxSlip) /\ waited \in Nat
  BY DEF Return, Goto, IInv, Ranges
<1>3. e \in Nat /\ e >= waited
  BY <1>1, <1>2, ElapsedIs
<1>4. T \in 0..MaxTime /\ T \in Nat /\ Sound(list) /\ list # <<>> /\ list \in Seq(Entries)
      /\ Len(list) \in Nat /\ 1 <= Len(list) /\ MaxTime \in Nat
  BY HeadIs, Bounds DEF Sound
<1>5. t \in 0..T /\ t \in Nat /\ (t = 0 \/ t = T - e)
  <2> HIDE DEF T, e
  <2>1. HeadAfter(T, e) \in 0..T /\ (HeadAfter(T, e) = 0 \/ HeadAfter(T, e) = T - e)
    BY <1>3, <1>4, HeadAfterIs
  <2> HIDE DEF t
  <2>2. t = HeadAfter(T, e)
    BY DEF t
  <2> QED BY <1>4, <2>1, <2>2
<1>6. list' = Shortened(list, t)
  <2>1. list' = [list EXCEPT ![1] = Entry(list[1].h, t)]
    BY <1>1, <1>4, EntryTimes
  <2> QED BY <2>1 DEF Shortened
<1> HIDE DEF t, e
<1>7. /\ Sound(list') /\ Len(list') = Len(list) /\ Names(list') = Names(list)
      /\ Rem(list') = [g \in Names(list) |-> Rem(list)[g] - (T - t)]
  BY <1>4, <1>5, <1>6, PassTime
<1> HIDE DEF T
<1>8. Ranges'
  BY <1>2, Bounds DEF IInv, Ranges
<1>9. Kept' /\ PoolKept'
  BY <1>2, <1>7 DEF IInv, Kept, PoolKept
<1>10. Clock'
  BY <1>2 DEF Clock
<1>11. \A g \in Names(list) : Rem(list)[g] - (T - t) <= left[g] /\ T - t <= Rem(list)[g]
  <2> TAKE g \in Names(list)
  <2>1. /\ Rem(list)[g] \in Int /\ left[g] \in Int /\ T <= Rem(list)[g]
    BY HeadIs DEF T
  <2>2. Rem(list)[g] - T <= left[g] /\ Rem(list)[g] - waited <= left[g]
    BY <1>2 DEF IInv, InTime, T
  <2> QED BY <1>2, <1>3, <1>4, <1>5, <2>1, <2>2
<1>12. InTime'
  BY <1>2, <1>7, <1>11 DEF InTime
<1>13. IInv'
  BY <1>8, <1>9, <1>10, <1>12 DEF IInv
<1>14. T - t \in 0..MaxTime
  BY <1>4, <1>5
<1> QED BY <1>7, <1>11, <1>13, <1>14

\* In a phase without a wait only the list, the pool and what is left count.
LEMMA Rested ==
  ASSUME Ranges, Kept', PoolKept', left' \in [Handlers -> Int], tcpOn' \in {"off", "on"},
         mbox' = mbox, waited' \in 0..(MaxTime + 2 * MaxSlip), dly' = dly, slip' = 0,
         phase' = "again", \A g \in Names(list') : Rem(list')[g] <= left'[g]
  PROVE  IInv'
<1>1. Ranges' /\ Clock' /\ InTime'
  BY Bounds DEF Ranges, Clock, InTime
<1> QED BY <1>1 DEF IInv

\* A packet that leaves the timers alone
LEMMA PacketStep == IInv /\ Packet => IInv'
<1> SUFFICES ASSUME IInv, Packet PROVE IInv'
  OBVIOUS
<1>1. Kept' /\ PoolKept' /\ Names(list') = Names(list) /\ Rem(list') = Rem(list)
  BY ListKept DEF Packet, lists
<1>2. /\ phase = "busy" /\ phase' = "again" /\ slip' = 0
      /\ UNCHANGED <<left, tcpOn, mbox, waited, dly>>
  BY DEF Packet, Goto, lists
<1>3. \A g \in Names(list') : Rem(list')[g] <= left'[g]
  BY <1>1, <1>2 DEF IInv, InTime
<1>4. Ranges' /\ Clock' /\ InTime'
  BY <1>2, <1>3, Bounds DEF IInv, Ranges, Clock, InTime
<1> QED BY <1>1, <1>4 DEF IInv

\* AppTaskClient loses the entry of tcpip_tcp_timer (sys_arch.c:338-353).
LEMMA ClientConnectsStep == IInv /\ ClientConnects => IInv'
<1> SUFFICES ASSUME IInv, ClientConnects PROVE IInv'
  OBVIOUS
<1>1. /\ UNCHANGED <<list, left, mbox, phase, waited, dly, slip>>
      /\ tcpOn = "off" /\ tcpOn' = "on" /\ free > 0 /\ free' = free - 1
  BY DEF ClientConnects
<1>2. Ranges' /\ Kept' /\ Clock' /\ InTime'
  BY <1>1 DEF IInv, Ranges, Kept, Clock, InTime
<1>3. PoolKept'
  <2>1. Len(list) \in Nat /\ Pool \in Nat
    BY HeadIs
  <2> QED BY <1>1, <2>1 DEF IInv, PoolKept
<1> QED BY <1>2, <1>3 DEF IInv

\* sys_timeout for a handler that is not on the sound list l: an entry is
\* free, and it is set to its interval beside the others.
LEMMA SetStep ==
  ASSUME NEW l, Sound(l), NEW h \in Handlers \ Names(l), NEW n \in Nat, n > 0,
         left \in [Handlers -> Int], sys_timeout(h, l, n),
         \A g \in Names(l) : Rem(l)[g] <= left[g]
  PROVE  /\ Sound(list') /\ Len(list') = Len(l) + 1 /\ free' = n - 1
         /\ Names(list') = Names(l) \cup {h}
         /\ Rem(list') = TimersBar!With(Rem(l), h, Interval[h])
         /\ left' \in [Handlers -> Int]
         /\ \A g \in Names(list') : Rem(list')[g] <= left'[g]
<1>1. list' = Inserted(l, h) /\ free' = n - 1 /\ left' = [left EXCEPT ![h] = Interval[h]]
  BY DEF sys_timeout
<1>2. /\ Sound(list') /\ Len(list') = Len(l) + 1
      /\ Names(list') = Names(l) \cup {h}
      /\ Rem(list') = TimersBar!With(Rem(l), h, Interval[h])
  BY <1>1, SetTimer
<1>3. Interval[h] \in Int
  BY MaxTimeIs
<1>4. left' \in [Handlers -> Int]
  BY <1>1, <1>3
<1>5. \A g \in Names(list') : Rem(list')[g] <= left'[g]
  <2> TAKE g \in Names(list')
  <2>1. DOMAIN Rem(l) = Names(l) /\ Names(l) \subseteq Handlers
    BY RemIs, NamesAre DEF Sound
  <2>2. Rem(list')[g] = IF g = h THEN Interval[h] ELSE Rem(l)[g]
    BY <1>2, <2>1 DEF TimersBar!With
  <2>3. left'[g] = IF g = h THEN Interval[h] ELSE left[g]
    BY <1>1, <1>2, <2>1
  <2> QED BY <1>2, <1>3, <2>2, <2>3
<1> QED BY <1>1, <1>2, <1>4, <1>5

\* tcp_timer_needed finds a free entry, and sets the timer beside the others.
LEMMA TcpTimerStep == IInv /\ tcp_timer_needed =>
    /\ IInv'
    /\ TCP \notin Names(list)
    /\ Rem(list') = TimersBar!With(Rem(list), TCP, Interval[TCP])
<1> SUFFICES ASSUME IInv, tcp_timer_needed
             PROVE  /\ IInv'
                    /\ TCP \notin Names(list)
                    /\ Rem(list') = TimersBar!With(Rem(list), TCP, Interval[TCP])
  OBVIOUS
<1>1. /\ phase = "busy" /\ phase' = "again" /\ slip' = 0 /\ tcpOn = "off" /\ tcpOn' = "on"
      /\ sys_timeout(TCP, list, free) /\ UNCHANGED <<mbox, waited, dly>>
  BY DEF tcp_timer_needed, Goto
<1>2. TCP \in Handlers /\ TCP \notin Names(list) /\ Pool - free - Len(list) = 0 /\ free \in Nat
  BY <1>1, Bounds DEF IInv, PoolKept, Handlers
<1>3. Sound(list) /\ Len(list) \in Nat /\ Pool \in Nat
  BY HeadIs
<1>4. Len(list) + 1 <= Pool
  BY <1>2, <1>3, Spare
<1>5. free > 0
  BY <1>2, <1>3, <1>4
<1>6. left \in [Handlers -> Int] /\ \A g \in Names(list) : Rem(list)[g] <= left[g]
  BY <1>1 DEF IInv, Ranges, InTime
<1>7. /\ Sound(list') /\ Len(list') = Len(list) + 1 /\ free' = free - 1
      /\ Names(list') = Names(list) \cup {TCP}
      /\ Rem(list') = TimersBar!With(Rem(list), TCP, Interval[TCP])
      /\ left' \in [Handlers -> Int]
      /\ \A g \in Names(list') : Rem(list')[g] <= left'[g]
  BY <1>1, <1>2, <1>3, <1>5, <1>6, SetStep
<1>8. Kept'
  BY <1>7 DEF IInv, Kept
<1>9. PoolKept'
  BY <1>1, <1>2, <1>3, <1>5, <1>7 DEF IInv, PoolKept
<1>10. waited' \in 0..(MaxTime + 2 * MaxSlip)
  BY <1>1 DEF IInv, Ranges
<1>11. IInv'
  BY <1>1, <1>7, <1>8, <1>9, <1>10, Rested DEF IInv
<1> QED BY <1>2, <1>7, <1>11

\* So does TCPIP_MSG_TIMEOUT: even with one entry lost there is one left.
LEMMA MsgTimeoutStep == IInv /\ MsgTimeout =>
    /\ IInv'
    /\ APP \notin Names(list)
    /\ Rem(list') = TimersBar!With(Rem(list), APP, Interval[APP])
<1> SUFFICES ASSUME IInv, MsgTimeout
             PROVE  /\ IInv'
                    /\ APP \notin Names(list)
                    /\ Rem(list') = TimersBar!With(Rem(list), APP, Interval[APP])
  OBVIOUS
<1>1. /\ phase = "busy" /\ phase' = "again" /\ slip' = 0 /\ tcpOn' = tcpOn
      /\ sys_timeout(APP, list, free) /\ UNCHANGED <<mbox, waited, dly>>
      /\ APP \notin Names(list)
  BY HeadIs DEF MsgTimeout, Goto
<1>2. APP \in Handlers /\ TCP \in Handlers /\ TCP # APP
  BY DEF Handlers, TCP, APP
<1>3. Sound(list) /\ Len(list) \in Nat /\ Pool \in Nat /\ free \in Nat
  BY HeadIs DEF IInv, PoolKept
<1>4. Len(list) + 1 <= Pool /\ (TCP \notin Names(list) => Len(list) + 2 <= Pool)
  BY <1>1, <1>2, <1>3, Spare
<1>5. free > 0
  BY <1>3, <1>4 DEF IInv, PoolKept
<1>6. left \in [Handlers -> Int] /\ \A g \in Names(list) : Rem(list)[g] <= left[g]
  BY <1>1 DEF IInv, Ranges, InTime
<1>7. /\ Sound(list') /\ Len(list') = Len(list) + 1 /\ free' = free - 1
      /\ Names(list') = Names(list) \cup {APP}
      /\ Rem(list') = TimersBar!With(Rem(list), APP, Interval[APP])
      /\ left' \in [Handlers -> Int]
      /\ \A g \in Names(list') : Rem(list')[g] <= left'[g]
  BY <1>1, <1>2, <1>3, <1>5, <1>6, SetStep
<1>8. Kept'
  BY <1>7 DEF IInv, Kept
<1>9. PoolKept'
  BY <1>1, <1>2, <1>3, <1>5, <1>7 DEF IInv, PoolKept
<1>10. waited' \in 0..(MaxTime + 2 * MaxSlip)
  BY <1>1 DEF IInv, Ranges
<1>11. IInv'
  <2>1. tcpOn' \in {"off", "on"} /\ Ranges
    BY <1>1 DEF IInv, Ranges
  <2> QED BY <1>1, <1>7, <1>8, <1>9, <1>10, <2>1, Rested
<1> QED BY <1>1, <1>7, <1>11

\* TCPIP_MSG_UNTIMEOUT cancels that timer and no other (sys.c:247-283).
LEMMA MsgUntimeoutStep == IInv /\ MsgUntimeout =>
    /\ IInv'
    /\ \/ Rem(list') = Rem(list)
       \/ APP \in Names(list) /\ Rem(list') = TimersBar!Without(Rem(list), APP)
<1> SUFFICES ASSUME IInv, MsgUntimeout
             PROVE  /\ IInv'
                    /\ \/ Rem(list') = Rem(list)
                       \/ /\ APP \in Names(list)
                          /\ Rem(list') = TimersBar!Without(Rem(list), APP)
  OBVIOUS
<1>1. /\ phase = "busy" /\ phase' = "again" /\ slip' = 0
      /\ sys_untimeout(APP) /\ UNCHANGED <<tcpOn, mbox, waited, dly>>
  BY DEF MsgUntimeout, Goto
<1>2. /\ Sound(list) /\ Len(list) \in Nat /\ Pool \in Nat /\ free \in Nat /\ Ranges
      /\ waited' \in 0..(MaxTime + 2 * MaxSlip) /\ tcpOn' \in {"off", "on"}
      /\ left \in [Handlers -> Int] /\ DOMAIN list = 1..Len(list)
      /\ \A g \in Names(list) : Rem(list)[g] <= left[g]
  <2>1. Sound(list) /\ Len(list) \in Nat /\ Pool \in Nat /\ DOMAIN list = 1..Len(list)
    BY HeadIs, LenProperties DEF Sound
  <2>2. Ranges /\ free \in Nat /\ \A g \in Names(list) : Rem(list)[g] <= left[g]
    BY <1>1, Bounds DEF IInv, PoolKept, InTime
  <2>3. /\ waited' \in 0..(MaxTime + 2 * MaxSlip) /\ tcpOn' \in {"off", "on"}
        /\ left \in [Handlers -> Int]
    BY <1>1, <2>2 DEF Ranges
  <2> QED BY <2>1, <2>2, <2>3
<1>3. APP \notin Periodic /\ APP # TCP
  BY TimeoutsAssumption DEF TCP, APP
<1>4. CASE UNCHANGED lists
  <2>1. UNCHANGED <<list, free, left>>
    BY <1>4 DEF lists
  <2>2. Kept' /\ PoolKept' /\ Names(list') = Names(list) /\ Rem(list') = Rem(list)
    BY <1>1, <2>1, ListKept
  <2>3. IInv'
    BY <1>1, <1>2, <2>1, <2>2, Rested
  <2> QED BY <2>2, <2>3
<1>5. CASE ~ UNCHANGED lists
  <2>1. PICK i \in 1..Len(list) : /\ list[i].h = APP /\ list' = Removed(list, i)
                                  /\ free' = free + 1 /\ UNCHANGED left
    BY <1>1, <1>2, <1>5 DEF sys_untimeout
  <2>2. /\ Sound(list') /\ Len(list') = Len(list) - 1
        /\ Names(list') = Names(list) \ {APP}
        /\ Rem(list') = TimersBar!Without(Rem(list), APP)
    BY <1>2, <2>1, CancelTimer
  <2>3. Kept'
    BY <1>3, <2>2 DEF IInv, Kept
  <2>4. PoolKept'
    <3>1. Len(list') \in Nat
      BY <2>2, EntryTimes DEF Sound
    <3> QED BY <1>1, <1>2, <1>3, <2>1, <2>2, <3>1 DEF IInv, PoolKept
  <2>5. \A g \in Names(list') : Rem(list')[g] <= left'[g]
    <3>1. DOMAIN Rem(list) = Names(list)
      BY <1>2, RemIs
    <3> QED BY <1>2, <2>1, <2>2, <3>1 DEF TimersBar!Without
  <2>6. IInv'
    BY <1>1, <1>2, <2>1, <2>3, <2>4, <2>5, Rested
  <2>7. APP \in Names(list)
    BY <1>2, <2>1, NamesAre DEF Sound
  <2> QED BY <2>2, <2>6, <2>7
<1> QED BY <1>4, <1>5

\* The nearest timer fires; its handler may set it again.
LEMMA FireStep == IInv /\ Fire =>
    /\ IInv'
    /\ \E h \in Names(list) :
         /\ \A g \in Names(list) : Rem(list)[h] <= Rem(list)[g]
         /\ \/ Rem(list') = [g \in Names(list) \ {h} |-> Rem(list)[g] - Rem(list)[h]]
            \/ Rem(list') = TimersBar!With(
                  [g \in Names(list) \ {h} |-> Rem(list)[g] - Rem(list)[h]], h, Interval[h])
<1> SUFFICES ASSUME IInv, Fire
             PROVE  /\ IInv'
                    /\ \E h \in Names(list) :
                         /\ \A g \in Names(list) : Rem(list)[h] <= Rem(list)[g]
                         /\ \/ Rem(list') = [g \in Names(list) \ {h} |-> Rem(list)[g] - Rem(list)[h]]
                            \/ Rem(list') = TimersBar!With(
                                 [g \in Names(list) \ {h} |-> Rem(list)[g] - Rem(list)[h]],
                                 h, Interval[h])
  OBVIOUS
<1> DEFINE h == Head(list).h
           l == Tail(list)
<1>1. /\ phase = "fire" /\ phase' = "again" /\ slip' = 0 /\ waited' = 0
      /\ mbox' = mbox /\ dly' = dly
      /\ \/ /\ h \in Periodic \cup {TCP}
            /\ sys_timeout(h, l, free + 1)
            /\ UNCHANGED tcpOn
         \/ /\ h \in {TCP, APP}
            /\ list' = l
            /\ free' = free + 1
            /\ tcpOn' = IF h = TCP THEN "off" ELSE tcpOn
            /\ UNCHANGED left
  BY DEF Fire, Goto
<1>2. /\ Sound(list) /\ list # <<>> /\ Len(list) \in Nat /\ 1 <= Len(list) /\ Pool \in Nat
      /\ free \in Nat /\ Names(list) \subseteq Handlers /\ Ranges
      /\ 0 \in 0..(MaxTime + 2 * MaxSlip) /\ tcpOn \in {"off", "on"}
      /\ left \in [Handlers -> Int] /\ Head(list) = list[1]
      /\ \A g \in Names(list) : Rem(list)[g] - list[1].time <= left[g]
  BY <1>1, HeadIs, Bounds DEF IInv, PoolKept, Ranges, InTime
<1>3. /\ Sound(l) /\ Len(l) = Len(list) - 1 /\ h \in Names(list)
      /\ Names(l) = Names(list) \ {h} /\ Rem(list)[h] = list[1].time
      /\ \A g \in Names(list) : Rem(list)[h] <= Rem(list)[g]
      /\ Rem(l) = [g \in Names(list) \ {h} |-> Rem(list)[g] - Rem(list)[h]]
  BY <1>2, FireTimer
<1> HIDE DEF h, l
<1>4. \A g \in Names(l) : Rem(l)[g] <= left[g]
  BY <1>2, <1>3
<1>5. APP \notin Periodic /\ APP # TCP /\ TCP \notin Periodic
  BY TimeoutsAssumption DEF TCP, APP
<1>6. CASE sys_timeout(h, l, free + 1) /\ UNCHANGED tcpOn
  <2>1. h \in Handlers \ Names(l) /\ free + 1 \in Nat /\ free + 1 > 0
    BY <1>2, <1>3
  <2>2. /\ Sound(list') /\ Len(list') = Len(l) + 1 /\ free' = free + 1 - 1
        /\ Names(list') = Names(l) \cup {h}
        /\ Rem(list') = TimersBar!With(Rem(l), h, Interval[h])
        /\ left' \in [Handlers -> Int]
        /\ \A g \in Names(list') : Rem(list')[g] <= left'[g]
    BY <1>2, <1>3, <1>4, <1>6, <2>1, SetStep
  <2>3. Names(list') = Names(list) /\ Len(list') = Len(list) /\ free' = free
    BY <1>2, <1>3, <2>2
  <2>4. Kept' /\ PoolKept'
    BY <1>6, <2>2, <2>3 DEF IInv, Kept, PoolKept
  <2>5. IInv'
    BY <1>1, <1>2, <1>6, <2>2, <2>4, Rested
  <2> QED BY <1>3, <2>2, <2>5
<1>7. CASE /\ h \in {TCP, APP} /\ list' = l /\ free' = free + 1
           /\ tcpOn' = (IF h = TCP THEN "off" ELSE tcpOn) /\ UNCHANGED left
  <2>1. Kept'
    BY <1>3, <1>5, <1>7 DEF IInv, Kept
  <2>2. PoolKept'
    BY <1>2, <1>3, <1>5, <1>7 DEF IInv, PoolKept
  <2>3. tcpOn' \in {"off", "on"} /\ left' \in [Handlers -> Int]
        /\ \A g \in Names(list') : Rem(list')[g] <= left'[g]
    BY <1>2, <1>4, <1>7
  <2>4. IInv'
    BY <1>1, <1>2, <2>1, <2>2, <2>3, Rested
  <2> QED BY <1>3, <1>7, <2>4
<1> QED BY <1>1, <1>6, <1>7

-----------------------------------------------------------------------------
(* The theorems                                                            *)

\* Every step of the thread, the clock and the other tasks keeps the invariant.
LEMMA Inductive == IInv /\ [Next]_vars => IInv'
<1> SUFFICES ASSUME IInv, [Next]_vars PROVE IInv'
  OBVIOUS
<1>1. CASE Thread
  BY <1>1, AgainStep, OSQPendStep, ReturnStep, FireStep, PacketStep, TcpTimerStep,
     MsgTimeoutStep, MsgUntimeoutStep DEF Thread
<1>2. CASE OSQPost
  BY <1>2, OSQPostStep
<1>3. CASE Tick
  BY <1>3, TickStep
<1>4. CASE ClientConnects
  BY <1>4, ClientConnectsStep
<1>5. CASE UNCHANGED vars
  <2>1. UNCHANGED <<list, free, tcpOn, mbox, phase, waited, dly, slip, left>>
    BY <1>5 DEF vars
  <2> QED BY <2>1 DEF IInv, Ranges, Kept, PoolKept, Clock, InTime
<1> QED BY <1>1, <1>2, <1>3, <1>4, <1>5 DEF Next

\* What the list and the pool satisfy in every state, from the inductive
\* invariant.
LEMMA InvIsSound == IInv => TimersSound
<1> SUFFICES ASSUME IInv PROVE TimersSound
  OBVIOUS
<1>1. /\ Sound(list) /\ list \in Seq(Entries) /\ Pending = Names(list) /\ Len(list) \in Nat
      /\ DOMAIN list = 1..Len(list) /\ MaxTime \in Nat /\ Head(list) = list[1]
      /\ list[1].time \in 0..MaxTime
  BY HeadIs, LenProperties, Bounds DEF Sound
<1>2. TypeOK
  <2> DEFINE R == [h : Handlers, time : 0..MaxTime]
  <2>1. ASSUME NEW i \in 1..Len(list) PROVE list[i] \in R
    <3>1. /\ list[i] \in Entries /\ list[i].time \in Nat
          /\ Expiry(list, i) = Expiry(list, i - 1) + list[i].time
          /\ Expiry(list, i) <= MaxTime /\ Expiry(list, i - 1) \in Nat
          /\ Expiry(list, i) \in Nat
      <4>1. i \in 0..Len(list) /\ i - 1 \in 0..Len(list)
        BY <1>1
      <4> QED BY <1>1, <4>1, ExpiryIs, EntryTimes DEF Sound
    <3>2. list[i].time \in 0..MaxTime
      BY <1>1, <3>1
    <3> QED BY <3>1, <3>2 DEF Entries
  <2>2. list \in Seq(R)
    <3>1. list = [i \in 1..Len(list) |-> list[i]]
      BY <1>1
    <3> HIDE DEF R
    <3> QED BY <1>1, <2>1, <3>1
  <2> QED BY <2>2 DEF IInv, Ranges, PoolKept, TypeOK
<1>3. TimersKept
  <2>1. Cardinality(Pending) = Len(list)
    BY <1>1, NamesCount
  <2>2. Cardinality(Pending \cap {TCP}) = IF TCP \in Pending THEN 1 ELSE 0
    <3>1. CASE TCP \in Pending
      <4>1. Pending \cap {TCP} = {TCP}
        BY <3>1
      <4> QED BY <3>1, <4>1, FS_Singleton
    <3>2. CASE TCP \notin Pending
      <4>1. Pending \cap {TCP} = {}
        BY <3>2
      <4> QED BY <3>2, <4>1, FS_EmptySet
    <3> QED BY <3>1, <3>2
  <2>3. Periodic \subseteq Pending
    BY <1>1 DEF IInv, Kept
  <2>4. Pool - free - Len(list) + (IF TCP \in Pending THEN 1 ELSE 0)
            = IF tcpOn = "on" THEN 1 ELSE 0
    BY <1>1, Bounds DEF IInv, PoolKept, Ranges
  <2> QED BY <2>1, <2>2, <2>3, <2>4 DEF TimersKept
<1>4. NeverLate
  <2>1. ASSUME NEW i \in 1..Len(list)
        PROVE  list[i].h \in Names(list) /\ Rem(list)[list[i].h] = Expiry(list, i)
    BY <1>1, NamesAre, RemIs
  <2>2. CASE phase \in {"again", "busy"}
    <3>1. \A i \in 1..Len(list) : Expiry(list, i) <= left[list[i].h] /\ Expiry(list, i) \in Nat
      <4> TAKE i \in 1..Len(list)
      <4>1. i \in 0..Len(list)
        OBVIOUS
      <4> QED BY <1>1, <2>1, <2>2, <4>1, ExpiryIs DEF IInv, InTime
    <3> QED BY <1>1, <2>2, <3>1 DEF NeverLate
  <2>3. CASE phase = "fire"
    <3>1. \A i \in 1..Len(list) : Expiry(list, i) - list[1].time <= left[list[i].h]
      BY <2>1, <2>3 DEF IInv, InTime
    <3> QED BY <1>1, <2>3, <3>1 DEF NeverLate
  <2> QED BY <2>2, <2>3 DEF NeverLate
<1> QED BY <1>2, <1>3, <1>4 DEF TimersSound

\* The inductive invariant of the timeouts, in every state
THEOREM AlwaysIInv == Spec => []IInv
BY InitIInv, Inductive, PTL DEF Spec

\* For any handlers, intervals and phases of the thread: no periodic timer is
\* ever lost or doubled, at most one entry of the pool is lost, no time is out
\* of range, and no timer falls behind (sys.c:110-116, 196-283,
\* sys_arch.c:194-198, 338-353).
THEOREM DeltaListSound == Spec => []TimersSound
BY AlwaysIInv, InvIsSound, PTL

-----------------------------------------------------------------------------
(* Timers side by side                                                     *)

\* What is left of each timer, as Timeouts gives it to Timers
RemBar == [h \in Pending |-> Expiry(list, CHOOSE i \in DOMAIN list : list[i].h = h)]

\* That is Rem of the list.
LEMMA RemBarIs == RemBar = Rem(list)
BY DEF RemBar, Rem, Names, Pending

\* Start-up leaves timers that are within their times.
LEMMA InitBar == Init => TimersBar!Init
<1> SUFFICES ASSUME Init PROVE TimersBar!Init
  OBVIOUS
<1>1. /\ Sound(list) /\ Names(list) \subseteq Handlers
  BY InitIInv, HeadIs
<1>2. /\ DOMAIN Rem(list) = Names(list) /\ \A h \in Names(list) : Rem(list)[h] \in 0..MaxTime
      /\ Rem(list) = [h \in DOMAIN Rem(list) |-> Rem(list)[h]]
  <2>1. Rem(list) = [h \in DOMAIN Rem(list) |-> Rem(list)[h]]
    BY DEF Rem
  <2> QED BY <1>1, <2>1, RemIs
<1>3. Rem(list) \in [Names(list) -> 0..MaxTime]
  BY <1>2
<1> QED BY <1>1, <1>3, RemBarIs DEF TimersBar!Init, TimersBar!Times, RemBar

\* Every step is one of timers side by side, or leaves them alone.
LEMMA NextBar == IInv /\ [Next]_vars => [TimersBar!Next]_RemBar
<1> SUFFICES ASSUME IInv, [Next]_vars PROVE [TimersBar!Next]_RemBar
  OBVIOUS
<1>1. /\ RemBar = Rem(list) /\ RemBar' = Rem(list')
      /\ DOMAIN Rem(list) = Names(list) /\ Names(list) \subseteq Handlers
  <2>1. RemBar' = Rem(list')
    BY DEF RemBar, Rem, Names, Pending
  <2> QED BY <2>1, RemBarIs, HeadIs, RemIs
<1>2. TCP \in Handlers /\ APP \in Handlers
      /\ \A h \in Handlers : Interval[h] \in 0..MaxTime
  BY MaxTimeIs DEF Handlers
<1>3. CASE UNCHANGED list
  BY <1>1, <1>3
<1>4. CASE Return
  <2>1. TimersBar!Advance
    BY <1>1, <1>4, ReturnStep DEF TimersBar!Advance, TimersBar!Times, RemBar
  <2> QED BY <2>1 DEF TimersBar!Next
<1>5. CASE Fire
  <2>1. PICK h \in Names(list) :
          /\ \A g \in Names(list) : Rem(list)[h] <= Rem(list)[g]
          /\ \/ Rem(list') = [g \in Names(list) \ {h} |-> Rem(list)[g] - Rem(list)[h]]
             \/ Rem(list') = TimersBar!With(
                   [g \in Names(list) \ {h} |-> Rem(list)[g] - Rem(list)[h]], h, Interval[h])
    BY <1>5, FireStep
  <2>2. TimersBar!Fire(h) /\ h \in Handlers
    BY <1>1, <1>2, <2>1, ZenonT(60) DEF TimersBar!Fire, TimersBar!Times, RemBar
  <2> QED BY <2>2 DEF TimersBar!Next
<1>6. CASE tcp_timer_needed
  <2>1. TimersBar!Set(TCP)
    BY <1>1, <1>2, <1>6, TcpTimerStep DEF TimersBar!Set, TimersBar!Times, RemBar
  <2> QED BY <1>2, <2>1 DEF TimersBar!Next
<1>7. CASE MsgTimeout
  <2>1. TimersBar!Set(APP)
    BY <1>1, <1>2, <1>7, MsgTimeoutStep DEF TimersBar!Set, TimersBar!Times, RemBar
  <2> QED BY <1>2, <2>1 DEF TimersBar!Next
<1>8. CASE MsgUntimeout
  <2>1. RemBar' = RemBar \/ TimersBar!Cancel(APP)
    BY <1>1, <1>8, MsgUntimeoutStep DEF TimersBar!Cancel, RemBar
  <2> QED BY <1>2, <2>1 DEF TimersBar!Next
<1>9. CASE Again \/ OSQPend \/ Packet \/ OSQPost \/ Tick \/ ClientConnects \/ UNCHANGED vars
  <2>1. UNCHANGED list
    BY <1>9 DEF Again, OSQPend, Packet, OSQPost, Tick, ClientConnects, vars, lists
  <2> QED BY <1>1, <2>1
<1> QED BY <1>4, <1>5, <1>6, <1>7, <1>8, <1>9 DEF Next, Thread

\* The delta list is an implementation of timers that count down side by side
\* (sys.c:196-283): setting, cancelling and firing one never moves another.
THEOREM CountsDown == Spec => Countdown
<1>1. Init => TimersBar!Init
  BY InitBar
<1>2. IInv /\ [Next]_vars => [TimersBar!Next]_RemBar
  BY NextBar
<1> QED BY <1>1, <1>2, AlwaysIInv, PTL DEF Spec, Countdown, TimersBar!Spec, RemBar

=============================================================================
