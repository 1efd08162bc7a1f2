--------------------------- MODULE MailboxProofs ---------------------------
(***************************************************************************)
(* For any tasks, sizes and timeouts: the mailbox of tcpip_thread is a     *)
(* first-in first-out queue, no message is left behind a waiting thread,   *)
(* a call is back only when it has been served, and a task below           *)
(* tcpip_thread finds the queue full only while tcpip_thread is stalled.   *)
(*                                                                         *)
(* Places count the messages that are not yet served: place 0 is in the    *)
(* hands of tcpip_thread, the others are the entries from OSQOut on. A     *)
(* caller has at most one message in all of them, that of its last call.   *)
(***************************************************************************)
EXTENDS Mailbox, SequenceTheorems, TLAPS

\* The message tcpip_thread has, or is handed
Hand == IF pc[Server] \in {"serve", "stall"} THEN got ELSE msg[Server]

At(k) == IF k = 0 THEN Hand ELSE ring[Slot(k - 1)]

\* The message at place k is one of task c
From(k, c) == At(k) \in Messages /\ At(k)[1] = c

\* On the waiting list tcpip_thread sleeps, or has timed out and not noticed;
\* off it, it is ready unless the heap makes it wait
ServerInv ==
    /\ pc[Server] \in {"fetch", "wait", "serve", "stall"}
    /\ Server \in wait =>
          /\ pc[Server] = "wait" /\ entries = 0 /\ msg[Server] = None
          /\ \/ Server \notin ready /\ stat[Server]
             \/ Server \in ready /\ ~stat[Server] /\ pend[Server] = "TO" /\ dly[Server] = 0
    /\ Server \notin wait => ~stat[Server] /\ pend[Server] = "OK"
    /\ Server \notin wait /\ pc[Server] = "wait" => msg[Server] \in Messages
    /\ pc[Server] # "wait" => msg[Server] = None
    /\ pc[Server] \in {"serve", "stall"} => got \in Messages
    /\ Server \notin ready => pc[Server] = "stall" \/ Server \in wait

\* The entries are messages
Entries == \A k \in 1..entries : At(k) \in Messages

\* No caller has two messages under way
OneEach == \A c \in Callers : \A j, k \in 0..entries : From(j, c) /\ From(k, c) => j = k

InputInv ==
    \A t \in Inputs : /\ pc[t] \in {"idle", "post"}
                      /\ count[t] \in 0..MaxFrames
                      /\ pc[t] = "post" => count[t] >= 1

\* Where the call of a caller is, and what has become of it
Stage(c) ==
    \/ pc[c] = "idle" /\ served[c] = count[c] /\ sem[c] = 0
    \/ pc[c] = "post" /\ served[c] = count[c] - 1 /\ sem[c] = 0
    \/ pc[c] = "pend" /\ served[c] = count[c] - 1 /\ sem[c] = 0
    \/ pc[c] = "pend" /\ served[c] = count[c] /\ sem[c] = 1
    \/ pc[c] = "return" /\ served[c] = count[c] /\ sem[c] = 0
    \/ pc[c] = "wait" /\ stat[c] /\ served[c] = count[c] - 1 /\ sem[c] = 0
    \/ pc[c] = "wait" /\ ~stat[c] /\ served[c] = count[c] /\ sem[c] = 0

Calls(c) ==
    /\ count[c] \in 0..MaxCalls /\ (pc[c] # "idle" => count[c] >= 1)
    /\ stat[c] => pc[c] = "wait" /\ c \notin ready
    /\ dly[c] # 0 => pc[c] = "post" /\ c \notin ready
    /\ Stage(c)

CallerInv == \A c \in Callers : Calls(c)

\* A message of a caller is that of its last call, which is not yet served
Waits(c) == pc[c] \in {"pend", "wait"} /\ served[c] = count[c] - 1

LastCall == \A c \in Callers : \A k \in 0..entries : From(k, c) => Waits(c)

IInv == TypeOK /\ ServerInv /\ Entries /\ OneEach /\ InputInv /\ CallerInv /\ LastCall


-----------------------------------------------------------------------------

\* What the assumption on the constants says of tasks and messages.
LEMMA Constants ==
  /\ Size \in Nat /\ Size >= 1 /\ Tries \in Nat /\ Delay \in Nat \ {0}
  /\ Timeouts \subseteq Nat /\ Stalls \subseteq Nat \ {0}
  /\ MaxFrames \in Nat /\ MaxCalls \in Nat
  /\ Server \in Tasks /\ Server \in Nat
  /\ \A t \in Inputs : t \in Tasks /\ t # Server /\ t \notin Callers
  /\ \A c \in Callers : c \in Tasks /\ c # Server /\ c \notin Inputs /\ c \in Nat
  /\ \A t \in Inputs : \A k \in 1..MaxFrames : <<t, k>> \in Messages
  /\ \A c \in Callers : \A k \in 1..MaxCalls : <<c, k>> \in Messages
  /\ \A m \in Messages : m # None /\ m[1] \in Inputs \cup Callers
BY MailboxAssumption DEF Tasks, Messages

\* The entries lie at different places of the ring, one behind the other.
LEMMA Slots ==
  ASSUME Size \in Nat, Size >= 1, out \in 0..(Size - 1)
  PROVE  /\ Slot(0) = out
         /\ \A k \in 0..Size : Slot(k) \in 0..(Size - 1)
         /\ \A j, k \in 0..(Size - 1) : Slot(j) = Slot(k) => j = k
         /\ \A k \in 0..(Size - 1) : After(Slot(k)) = Slot(k + 1)
         /\ After(out) \in 0..(Size - 1)
BY DEF Slot, After

\* The same, counted from the next entry.
LEMMA NextSlots ==
  ASSUME Size \in Nat, Size >= 1, out \in 0..(Size - 1), out' = After(out)
  PROVE  \A k \in 0..(Size - 1) : Slot(k)' = Slot(k + 1)
BY DEF Slot, After

\* A post hands the message to tcpip_thread or puts it into the queue.
LEMMA PostCases ==
  ASSUME TypeOK, NEW m, NEW rdy, OSQPost(m, rdy)
  PROVE  /\ wait' = {}
         /\ \/ wait = {Server} /\ Rdy(Server, m, rdy) /\ UNCHANGED qVars
            \/ /\ wait = {} /\ entries < Size
               /\ ring' = [ring EXCEPT ![in] = m]
               /\ in' = After(in) /\ entries' = entries + 1
               /\ ready' = rdy
               /\ UNCHANGED <<out, dly, stat, pend, msg>>
<1>1. wait = {} \/ wait = {Server}
  BY DEF TypeOK
<1>2. CASE wait = {}
  BY <1>2 DEF OSQPost
<1>3. CASE wait = {Server}
  BY <1>3 DEF OSQPost
<1> QED BY <1>1, <1>2, <1>3

\* The queue and the kernel's records of the tasks keep their types.
QueueOK ==
    /\ ring \in [0..(Size - 1) -> Messages \cup {None}]
    /\ {in, out} \subseteq 0..(Size - 1) /\ entries \in 0..Size
    /\ in = Slot(entries)

TcbOK ==
    /\ wait \subseteq {Server} /\ ready \subseteq Tasks
    /\ dly \in [Tasks -> Nat]
    /\ stat \in [Tasks -> BOOLEAN] /\ pend \in [Tasks -> {"OK", "TO"}]
    /\ msg \in [Tasks -> Messages \cup {None}]

\* A post keeps these types.
LEMMA PostTypes ==
  ASSUME TypeOK, NEW m \in Messages, NEW rdy \in SUBSET Tasks, OSQPost(m, rdy)
  PROVE  QueueOK' /\ TcbOK'
<1>0. QueueOK /\ TcbOK
  BY DEF TypeOK, QueueOK, TcbOK
<1>1. CASE wait = {Server} /\ Rdy(Server, m, rdy) /\ UNCHANGED qVars
  <2>1. QueueOK'
    BY <1>0, <1>1 DEF QueueOK, qVars, Slot
  <2>2. TcbOK'
    BY <1>0, <1>1, PostCases, Constants DEF TcbOK, Rdy
  <2> QED BY <2>1, <2>2
<1>2. CASE /\ wait = {} /\ entries < Size
           /\ ring' = [ring EXCEPT ![in] = m]
           /\ in' = After(in) /\ entries' = entries + 1
           /\ ready' = rdy
           /\ UNCHANGED <<out, dly, stat, pend, msg>>
  <2>1. entries' \in 0..Size /\ entries \in 0..(Size - 1)
    BY <1>0, <1>2, Constants DEF QueueOK
  <2>2. in' = Slot(entries + 1) /\ in' \in 0..(Size - 1)
    BY <1>0, <1>2, <2>1, Slots, Constants DEF QueueOK
  <2>3. in' = Slot(entries)'
    BY <1>2, <2>2 DEF Slot
  <2>4. QueueOK'
    BY <1>0, <1>2, <2>1, <2>2, <2>3 DEF QueueOK
  <2>5. TcbOK'
    BY <1>0, <1>2, PostCases DEF TcbOK
  <2> QED BY <2>4, <2>5
<1> QED BY <1>1, <1>2, PostCases

\* The first states: nothing is under way and tcpip_thread is about to fetch.
LEMMA InitIInv == Init => IInv
<1> SUFFICES ASSUME Init PROVE IInv
  OBVIOUS
<1>1. TypeOK
  BY Constants DEF Init, TypeOK, Slot
<1>2. ServerInv /\ Entries /\ InputInv /\ CallerInv
  BY Constants DEF Init, ServerInv, Entries, InputInv, CallerInv, Calls, Stage
<1>3. \A k \in 0..entries : At(k) = None
  BY Constants DEF Init, At, Hand
<1>4. \A c \in Callers, k \in 0..entries : ~From(k, c)
  BY <1>3, Constants DEF From
<1> QED BY <1>1, <1>2, <1>4 DEF IInv, OneEach, LastCall

-----------------------------------------------------------------------------
(* One lemma per part of the invariant, one step per action.               *)

\* Every action keeps the types.
LEMMA TypeStep ==
  ASSUME IInv, Next
  PROVE  TypeOK'
<1> DEFINE RestOK ==
        /\ got \in Messages \cup {None}
        /\ pc \in [Tasks -> {"idle", "post", "pend", "wait", "return",
                             "fetch", "serve", "stall"}]
        /\ tries \in [Callers -> 0..Tries] /\ sem \in [Callers -> 0..1]
        /\ count \in [Tasks \ {Server} -> Nat] /\ served \in [Callers -> Nat]
        /\ lost \subseteq Callers
<1>0. QueueOK /\ TcbOK /\ RestOK /\ TypeOK /\ ServerInv /\ Entries
  BY DEF IInv, TypeOK, QueueOK, TcbOK
<1>s. QueueOK' /\ TcbOK' /\ RestOK' => TypeOK'
  BY DEF TypeOK, QueueOK, TcbOK
<1>q. UNCHANGED qVars => QueueOK'
  BY <1>0 DEF QueueOK, qVars, Slot
<1>t. UNCHANGED tcbVars => TcbOK'
  BY <1>0 DEF TcbOK, tcbVars
<1> HIDE DEF RestOK
<1>1. ASSUME NEW t \in Inputs, Frame(t) PROVE TypeOK'
  <2>1. QueueOK' /\ TcbOK'
    BY <1>0, <1>1, <1>q, Constants DEF Frame, TcbOK
  <2>2. RestOK'
    <3>1. count' \in [Tasks \ {Server} -> Nat]
      <4>1. count' = [count EXCEPT ![t] = @ + 1]
        BY <1>1 DEF Frame
      <4>2. count \in [Tasks \ {Server} -> Nat] /\ t \in Tasks \ {Server}
        BY <1>0, Constants DEF RestOK
      <4> QED BY <4>1, <4>2
    <3>2. pc' = [pc EXCEPT ![t] = "post"]
      BY <1>1 DEF Frame
    <3>3. UNCHANGED <<got, tries, sem, served, lost>>
      BY <1>1 DEF Frame
    <3> QED BY <1>0, <3>1, <3>2, <3>3 DEF RestOK
  <2> QED BY <1>s, <2>1, <2>2
<1>2. ASSUME NEW t \in Inputs, TryPost(t) PROVE TypeOK'
  <2>1. QueueOK' /\ TcbOK'
    <3>1. CASE Full
      <4>1. ready' = ready \ {t} /\ UNCHANGED <<qVars, wait, dly, stat, pend, msg>>
        BY <1>2, <3>1 DEF TryPost
      <4> QED BY <1>0, <1>q, <4>1 DEF TcbOK
    <3>2. CASE ~Full
      <4>1. OSQPost(<<t, count[t]>>, ready \ {t})
        BY <1>2, <3>2 DEF TryPost
      <4>2. <<t, count[t]>> \in Messages
        <5>1. count[t] \in 1..MaxFrames
          BY <1>2 DEF TryPost, IInv, InputInv
        <5> QED BY <5>1, Constants
      <4>3. ready \ {t} \in SUBSET Tasks
        BY <1>0 DEF TcbOK
      <4> QED BY <1>0, <4>1, <4>2, <4>3, PostTypes
    <3> QED BY <3>1, <3>2
  <2>2. RestOK'
    BY <1>0, <1>2, Constants DEF TryPost, RestOK, histVars
  <2> QED BY <1>s, <2>1, <2>2
<1>3. ASSUME NEW c \in Callers, Call(c) PROVE TypeOK'
  <2>1. QueueOK' /\ TcbOK'
    BY <1>0, <1>3, <1>q, Constants DEF Call, TcbOK
  <2>2. RestOK'
    BY <1>0, <1>3, Constants DEF Call, RestOK
  <2> QED BY <1>s, <2>1, <2>2
<1>4. ASSUME NEW c \in Callers, Post(c) PROVE TypeOK'
  <2>1. CASE OSQPost(<<c, count[c]>>, ready) /\ UNCHANGED <<tries, lost>>
                /\ pc' = [pc EXCEPT ![c] = "pend"]
    <3>1. <<c, count[c]>> \in Messages
      <4>1. count[c] \in 1..MaxCalls
        BY <1>4 DEF Post, IInv, CallerInv, Calls
      <4> QED BY <4>1, Constants
    <3>2. ready \in SUBSET Tasks
      BY <1>0 DEF TcbOK
    <3>3. QueueOK' /\ TcbOK'
      BY <1>0, <2>1, <3>1, <3>2, PostTypes
    <3>4. RestOK'
      BY <1>0, <1>4, <2>1, Constants DEF Post, RestOK
    <3> QED BY <1>s, <3>3, <3>4
  <2>2. CASE /\ tries[c] < Tries /\ tries' = [tries EXCEPT ![c] = @ + 1] /\ Sleep(c, Delay)
             /\ UNCHANGED <<qVars, wait, stat, pend, msg, pc, lost>>
    <3>1. QueueOK' /\ TcbOK'
      BY <1>0, <1>q, <2>2, Constants DEF TcbOK, Sleep
    <3>2. tries[c] + 1 \in 0..Tries
      BY <1>0, <2>2, Constants DEF RestOK
    <3>3. RestOK'
      BY <1>0, <1>4, <2>2, <3>2 DEF Post, RestOK
    <3> QED BY <1>s, <3>1, <3>3
  <2>3. CASE /\ lost' = lost \cup {c} /\ pc' = [pc EXCEPT ![c] = "pend"]
             /\ UNCHANGED <<qVars, tcbVars, tries>>
    <3>1. QueueOK' /\ TcbOK'
      BY <1>q, <1>t, <2>3
    <3>2. RestOK'
      BY <1>0, <1>4, <2>3, Constants DEF Post, RestOK
    <3> QED BY <1>s, <3>1, <3>2
  <2> QED BY <1>4, <2>1, <2>2, <2>3 DEF Post
<1>5. ASSUME NEW c \in Callers, SemPend(c) PROVE TypeOK'
  <2>1. QueueOK' /\ TcbOK'
    BY <1>0, <1>5, <1>q, Constants DEF SemPend, TcbOK
  <2>2. RestOK'
    <3>1. CASE sem[c] > 0
      <4>1. sem[c] - 1 \in 0..1
        BY <1>0, <3>1 DEF RestOK
      <4> QED BY <1>0, <1>5, <3>1, <4>1, Constants DEF SemPend, RestOK, histVars
    <3>2. CASE ~(sem[c] > 0)
      BY <1>0, <1>5, <3>2, Constants DEF SemPend, RestOK, histVars
    <3> QED BY <3>1, <3>2
  <2> QED BY <1>s, <2>1, <2>2
<1>6. ASSUME NEW c \in Callers, CallReturns(c) PROVE TypeOK'
  <2>1. QueueOK' /\ TcbOK'
    BY <1>0, <1>6, <1>q DEF CallReturns, TcbOK
  <2>2. RestOK'
    BY <1>0, <1>6, Constants DEF CallReturns, RestOK, histVars
  <2> QED BY <1>s, <2>1, <2>2
<1>7. CASE Fetch
  <2>1. CASE entries > 0
    <3>1. /\ got' = ring[out] /\ out' = After(out) /\ entries' = entries - 1
          /\ pc' = [pc EXCEPT ![Server] = "serve"]
          /\ UNCHANGED <<ring, in, tcbVars>>
      BY <1>7, <2>1 DEF Fetch
    <3>2. entries' \in 0..Size /\ entries \in 1..Size /\ in \in 0..(Size - 1)
      BY <1>0, <2>1, <3>1, Constants DEF QueueOK
    <3>3. out \in 0..(Size - 1) /\ in = Slot(entries)
      BY <1>0 DEF QueueOK
    <3>5. in' = Slot(entries)'
      BY <3>1, <3>2, <3>3, Constants DEF Slot, After
    <3>6. QueueOK'
      BY <1>0, <3>1, <3>2, <3>5, Slots, Constants DEF QueueOK
    <3>7. RestOK'
      <4>1. got' \in Messages \cup {None}
        BY <1>0, <3>1 DEF QueueOK
      <4> QED BY <1>0, <1>7, <3>1, <4>1 DEF Fetch, RestOK, histVars
    <3> QED BY <1>s, <1>t, <3>1, <3>6, <3>7
  <2>2. CASE ~(entries > 0)
    <3>a. PICK n \in Timeouts : dly' = [dly EXCEPT ![Server] = n]
      BY <1>7, <2>2 DEF Fetch
    <3>b. dly' \in [Tasks -> Nat]
      BY <1>0, <3>a, Constants DEF TcbOK
    <3>1. QueueOK' /\ TcbOK'
      BY <1>0, <1>7, <1>q, <2>2, <3>b, Constants DEF Fetch, TcbOK
    <3>2. RestOK'
      BY <1>0, <1>7, <2>2 DEF Fetch, RestOK, histVars
    <3> QED BY <1>s, <3>1, <3>2
  <2> QED BY <2>1, <2>2
<1>8. CASE Woken
  <2>1. QueueOK' /\ TcbOK'
    BY <1>0, <1>8, <1>q DEF Woken, TcbOK
  <2>2. RestOK'
    <3>1. got' \in Messages \cup {None}
      BY <1>0, <1>8, Constants DEF Woken, TcbOK, RestOK
    <3> QED BY <1>0, <1>8, <3>1 DEF Woken, RestOK, histVars
  <2> QED BY <1>s, <2>1, <2>2
<1>9. CASE Stall
  <2>a. PICK n \in Stalls : Sleep(Server, n)
    BY <1>9 DEF Stall
  <2>1. QueueOK' /\ TcbOK'
    BY <1>0, <1>9, <1>q, <2>a, Constants DEF Stall, Sleep, TcbOK
  <2>2. RestOK'
    BY <1>0, <1>9 DEF Stall, RestOK, histVars
  <2> QED BY <1>s, <2>1, <2>2
<1>10. CASE Serve
  <2>1. QueueOK'
    BY <1>10, <1>q DEF Serve
  <2>2. got \in Messages
    BY <1>0, <1>10 DEF Serve, ServerInv
  <2>3. CASE got[1] \notin Callers
    <3>1. TcbOK'
      BY <1>10, <1>t, <2>3 DEF Serve
    <3>2. RestOK'
      BY <1>0, <1>10, <2>3 DEF Serve, RestOK
    <3> QED BY <1>s, <2>1, <3>1, <3>2
  <2>4. ASSUME NEW c \in Callers, c = got[1] PROVE TypeOK'
    <3>1. /\ served' = [served EXCEPT ![c] = @ + 1]
          /\ IF stat[c] THEN Rdy(c, None, ready) /\ UNCHANGED <<sem, wait>>
             ELSE sem' = [sem EXCEPT ![c] = @ + 1] /\ UNCHANGED tcbVars
      BY <1>10, <2>4 DEF Serve
    <3>2. TcbOK'
      <4>1. CASE stat[c]
        <5>1. Rdy(c, None, ready) /\ wait' = wait /\ c \in Tasks
          BY <3>1, <4>1, Constants
        <5> QED BY <1>0, <5>1 DEF TcbOK, Rdy
      <4>2. CASE ~stat[c]
        BY <1>t, <3>1, <4>2
      <4> QED BY <4>1, <4>2
    <3>3. sem' \in [Callers -> 0..1]
      <4>1. CASE stat[c]
        BY <1>0, <3>1, <4>1 DEF RestOK
      <4>2. CASE ~stat[c]
        <5>1. From(0, c) /\ 0 \in 0..entries
          BY <1>0, <1>10, <2>2, <2>4 DEF From, At, Hand, Serve, QueueOK
        <5>2. served[c] = count[c] - 1
          BY <5>1 DEF IInv, LastCall, Waits
        <5>3. sem[c] = 0
          BY <1>0, <5>2, Constants DEF IInv, CallerInv, Calls, Stage, RestOK
        <5> QED BY <1>0, <3>1, <4>2, <5>3 DEF RestOK
      <4> QED BY <4>1, <4>2
    <3>4. RestOK'
      <4>1. served' \in [Callers -> Nat]
        BY <1>0, <3>1 DEF RestOK
      <4>2. pc' = [pc EXCEPT ![Server] = "fetch"] /\ UNCHANGED <<tries, got, count, lost>>
        BY <1>10 DEF Serve
      <4> QED BY <1>0, <3>3, <4>1, <4>2 DEF RestOK
    <3> QED BY <1>s, <2>1, <3>2, <3>4
  <2> QED BY <2>3, <2>4
<1>11. CASE Tick
  <2>1. QueueOK'
    BY <1>11, <1>q DEF Tick
  <2>2. dly' \in [Tasks -> Nat]
    BY <1>0, <1>11 DEF Tick, TcbOK
  <2>3. TcbOK'
    BY <1>0, <1>11, <2>2 DEF Tick, TcbOK
  <2>4. RestOK'
    BY <1>0, <1>11 DEF Tick, RestOK, histVars
  <2> QED BY <1>s, <2>1, <2>3, <2>4
<1> QED BY <1>1, <1>2, <1>3, <1>4, <1>5, <1>6, <1>7, <1>8, <1>9, <1>10, <1>11
  DEF Next, CallStep, ServerStep

\* tcpip_thread is where its records say: with an empty queue on the waiting
\* list, ready, or stalled.
LEMMA ServerKept ==
  ASSUME IInv, Next
  PROVE  ServerInv'
<1>0. TypeOK /\ ServerInv /\ Entries /\ InputInv /\ CallerInv
  BY DEF IInv
<1>s. Server \in Tasks /\ Server \notin Inputs /\ Server \notin Callers
  BY Constants
<1>u. ASSUME UNCHANGED <<entries, wait, stat, pend, dly, msg, got>>,
             pc'[Server] = pc[Server], (Server \in ready') <=> (Server \in ready)
      PROVE  ServerInv'
  BY <1>0, <1>u DEF ServerInv
<1>p. ASSUME NEW m \in Messages, NEW rdy \in SUBSET Tasks, OSQPost(m, rdy),
             (Server \in rdy) <=> (Server \in ready),
             pc'[Server] = pc[Server], got' = got
      PROVE  ServerInv'
  <2>1. CASE wait = {Server} /\ Rdy(Server, m, rdy) /\ UNCHANGED qVars
    <3>0. wait' = {}
      BY <1>0, <1>p, PostCases
    <3>1. /\ Server \in ready' /\ ~stat'[Server] /\ pend'[Server] = "OK"
          /\ msg'[Server] = m
      BY <1>0, <1>s, <2>1 DEF Rdy, TypeOK
    <3>2. pc'[Server] = "wait"
      BY <1>0, <1>p, <2>1 DEF ServerInv
    <3> QED BY <1>p, <3>0, <3>1, <3>2 DEF ServerInv
  <2>2. CASE wait = {} /\ ready' = rdy /\ UNCHANGED <<dly, stat, pend, msg>>
    <3>1. wait' = {}
      BY <1>0, <1>p, PostCases
    <3> QED BY <1>0, <1>p, <2>2, <3>1 DEF ServerInv
  <2> QED BY <1>0, <1>p, <2>1, <2>2, PostCases
<1>1. ASSUME NEW t \in Inputs, Frame(t) PROVE ServerInv'
  BY <1>0, <1>1, <1>s, <1>u DEF Frame, qVars, TypeOK
<1>2. ASSUME NEW t \in Inputs, TryPost(t) PROVE ServerInv'
  <2>1. pc'[Server] = pc[Server] /\ got' = got
    BY <1>0, <1>2, <1>s DEF TryPost, TypeOK
  <2>2. CASE Full
    BY <1>2, <1>s, <1>u, <2>1, <2>2 DEF TryPost, qVars
  <2>3. CASE ~Full
    <3>1. OSQPost(<<t, count[t]>>, ready \ {t})
      BY <1>2, <2>3 DEF TryPost
    <3>2. <<t, count[t]>> \in Messages
      <4>1. count[t] \in 1..MaxFrames
        BY <1>0, <1>2 DEF TryPost, InputInv
      <4> QED BY <4>1, Constants
    <3>3. ready \ {t} \in SUBSET Tasks /\ ((Server \in ready \ {t}) <=> (Server \in ready))
      BY <1>0, <1>s DEF TypeOK
    <3> QED BY <1>p, <2>1, <3>1, <3>2, <3>3
  <2> QED BY <2>2, <2>3
<1>3. ASSUME NEW c \in Callers, Call(c) PROVE ServerInv'
  BY <1>0, <1>3, <1>s, <1>u DEF Call, qVars, TypeOK
<1>4. ASSUME NEW c \in Callers, Post(c) PROVE ServerInv'
  <2>0. pc'[Server] = pc[Server] /\ got' = got
    BY <1>0, <1>4, <1>s DEF Post, TypeOK
  <2>1. CASE OSQPost(<<c, count[c]>>, ready)
    <3>1. <<c, count[c]>> \in Messages
      <4>1. count[c] \in 1..MaxCalls
        BY <1>0, <1>4 DEF Post, CallerInv, Calls
      <4> QED BY <4>1, Constants
    <3>2. ready \in SUBSET Tasks
      BY <1>0 DEF TypeOK
    <3> QED BY <1>p, <2>0, <2>1, <3>1, <3>2
  <2>2. CASE Sleep(c, Delay) /\ UNCHANGED <<qVars, wait, stat, pend, msg>>
    <3>1. dly'[Server] = dly[Server] /\ ((Server \in ready') <=> (Server \in ready))
      BY <1>0, <1>s, <2>2 DEF Sleep, TypeOK
    <3> QED BY <1>0, <2>0, <2>2, <3>1 DEF ServerInv, qVars
  <2>3. CASE UNCHANGED <<qVars, tcbVars>>
    BY <1>u, <2>0, <2>3 DEF qVars, tcbVars
  <2> QED BY <1>4, <2>1, <2>2, <2>3 DEF Post
<1>5. ASSUME NEW c \in Callers, SemPend(c) PROVE ServerInv'
  <2>1. /\ pc'[Server] = pc[Server] /\ stat'[Server] = stat[Server]
        /\ (Server \in ready') <=> (Server \in ready)
    BY <1>0, <1>5, <1>s DEF SemPend, TypeOK
  <2> QED BY <1>0, <1>5, <2>1 DEF SemPend, ServerInv, qVars
<1>6. ASSUME NEW c \in Callers, CallReturns(c) PROVE ServerInv'
  BY <1>0, <1>6, <1>s, <1>u DEF CallReturns, qVars, TypeOK
<1>7. CASE Fetch
  <2>1. CASE entries > 0
    <3>1. got' \in Messages
      <4>1. 1 \in 1..entries
        BY <1>0, <2>1, Constants DEF TypeOK
      <4>2. At(1) = ring[out]
        BY <1>0, Slots, Constants DEF At, TypeOK
      <4> QED BY <1>0, <1>7, <2>1, <4>1, <4>2 DEF Fetch, Entries
    <3>2. pc'[Server] = "serve" /\ UNCHANGED tcbVars /\ pc[Server] = "fetch"
      BY <1>0, <1>7, <1>s, <2>1 DEF Fetch, TypeOK
    <3>3. Server \notin wait /\ Server \in ready
      BY <1>0, <1>7, <3>2 DEF ServerInv, Fetch, Runs
    <3> QED BY <1>0, <3>1, <3>2, <3>3 DEF ServerInv, tcbVars
  <2>2. CASE ~(entries > 0)
    <3>1. entries' = 0
      BY <1>0, <1>7, <2>2, Constants DEF Fetch, qVars, TypeOK
    <3>2. /\ stat'[Server] /\ Server \in wait' /\ Server \notin ready'
          /\ pc'[Server] = "wait" /\ msg' = msg /\ pc[Server] = "fetch"
      BY <1>0, <1>7, <1>s, <2>2 DEF Fetch, TypeOK
    <3> QED BY <1>0, <3>1, <3>2 DEF ServerInv
  <2> QED BY <2>1, <2>2
<1>8. CASE Woken
  <2>0. /\ ~stat'[Server] /\ pend'[Server] = "OK" /\ msg'[Server] = None
        /\ Server \in ready /\ ready' = ready /\ pc[Server] = "wait"
    BY <1>0, <1>8, <1>s DEF Woken, TypeOK, Runs
  <2>1. CASE pend[Server] = "OK"
    <3>1. Server \notin wait /\ msg[Server] \in Messages
      BY <1>0, <2>0, <2>1 DEF ServerInv
    <3>2. got' = msg[Server] /\ pc'[Server] = "serve" /\ wait' = wait
      BY <1>0, <1>8, <1>s, <2>1 DEF Woken, TypeOK
    <3> QED BY <2>0, <3>1, <3>2 DEF ServerInv
  <2>2. CASE pend[Server] # "OK"
    <3>1. pc'[Server] = "fetch" /\ Server \notin wait'
      BY <1>0, <1>8, <1>s, <2>2 DEF Woken, TypeOK
    <3> QED BY <2>0, <3>1 DEF ServerInv
  <2> QED BY <2>1, <2>2
<1>9. CASE Stall
  <2>1. /\ pc'[Server] = "stall" /\ pc[Server] = "serve"
        /\ UNCHANGED <<wait, stat, pend, msg, got>>
    BY <1>0, <1>9, <1>s DEF Stall, TypeOK
  <2> QED BY <1>0, <2>1 DEF ServerInv
<1>10. CASE Serve
  <2>1. /\ pc'[Server] = "fetch" /\ pc[Server] \in {"serve", "stall"}
        /\ Server \in ready /\ Server \notin wait
    BY <1>0, <1>10, <1>s DEF Serve, TypeOK, Runs, ServerInv
  <2>2. /\ Server \in ready' /\ wait' = wait
        /\ stat'[Server] = stat[Server] /\ pend'[Server] = pend[Server]
        /\ msg'[Server] = msg[Server]
    <3>1. CASE UNCHANGED tcbVars
      BY <2>1, <3>1 DEF tcbVars
    <3>2. ASSUME NEW c \in Callers, Rdy(c, None, ready), wait' = wait
          PROVE  /\ Server \in ready' /\ stat'[Server] = stat[Server]
                 /\ pend'[Server] = pend[Server] /\ msg'[Server] = msg[Server]
      <4>1. c # Server
        BY Constants
      <4> QED BY <1>0, <1>s, <2>1, <3>2, <4>1 DEF Rdy, TypeOK
    <3> QED BY <1>10, <3>1, <3>2 DEF Serve
  <2> QED BY <1>0, <2>1, <2>2 DEF ServerInv
<1>11. CASE Tick
  <2>1. /\ UNCHANGED <<entries, wait, msg, got>> /\ pc' = pc
        /\ Server \in ready => Server \in ready'
    BY <1>11 DEF Tick, qVars
  <2>2. CASE dly[Server] = 1
    <3> DEFINE over == {t \in Tasks : dly[t] = 1}
    <3>a. /\ dly' = [t \in Tasks |-> IF dly[t] = 0 THEN 0 ELSE dly[t] - 1]
          /\ stat' = [t \in Tasks |-> stat[t] /\ t \notin over]
          /\ pend' = [t \in Tasks |-> IF t \notin over THEN pend[t]
                                      ELSE IF stat[t] THEN "TO" ELSE "OK"]
          /\ ready' = ready \cup over
      BY <1>11 DEF Tick
    <3>b. Server \in over
      BY <1>s, <2>2
    <3>1. Server \in ready' /\ dly'[Server] = 0
      BY <1>s, <2>2, <3>a, <3>b
    <3>2. /\ ~stat'[Server]
          /\ pend'[Server] = IF stat[Server] THEN "TO" ELSE "OK"
      BY <1>s, <3>a, <3>b
    <3> QED BY <1>0, <2>1, <2>2, <3>1, <3>2 DEF ServerInv
  <2>3. CASE dly[Server] # 1
    <3>1. /\ (Server \in ready') <=> (Server \in ready)
          /\ stat'[Server] = stat[Server] /\ pend'[Server] = pend[Server]
          /\ dly[Server] = 0 => dly'[Server] = 0
      BY <1>0, <1>11, <1>s, <2>3 DEF Tick, TypeOK
    <3> QED BY <1>0, <2>1, <3>1 DEF ServerInv
  <2> QED BY <2>2, <2>3
<1> QED BY <1>1, <1>2, <1>3, <1>4, <1>5, <1>6, <1>7, <1>8, <1>9, <1>10, <1>11
  DEF Next, CallStep, ServerStep

\* The input tasks post what they have received.
LEMMA InputKept ==
  ASSUME IInv, Next
  PROVE  InputInv'
<1>0. TypeOK /\ InputInv
  BY DEF IInv
<1>1. ASSUME NEW u \in Inputs, Frame(u) PROVE InputInv'
  <2>1. /\ count[u] + 1 \in 1..MaxFrames
        /\ pc' = [pc EXCEPT ![u] = "post"] /\ count' = [count EXCEPT ![u] = @ + 1]
    BY <1>0, <1>1, Constants DEF Frame, InputInv
  <2> QED BY <1>0, <2>1, Constants DEF TypeOK, InputInv
<1>2. ASSUME NEW u \in Inputs, TryPost(u) PROVE InputInv'
  BY <1>0, <1>2, Constants DEF TryPost, TypeOK, InputInv, histVars
<1>3. ASSUME NEW c \in Callers, Call(c) PROVE InputInv'
  BY <1>0, <1>3, Constants DEF Call, TypeOK, InputInv
<1>4. ASSUME NEW c \in Callers, CallStep(c) PROVE InputInv'
  <2>1. count' = count /\ \A t \in Inputs : pc'[t] = pc[t]
    <3>1. count' = count
      BY <1>4 DEF CallStep, Post, SemPend, CallReturns, histVars
    <3>2. pc' = pc \/ \E x : pc' = [pc EXCEPT ![c] = x]
      BY <1>4 DEF CallStep, Post, SemPend, CallReturns
    <3>3. ASSUME NEW t \in Inputs, NEW x, pc' = [pc EXCEPT ![c] = x] PROVE pc'[t] = pc[t]
      <4>1. t # c /\ t \in Tasks
        BY Constants
      <4> QED BY <1>0, <3>3, <4>1 DEF TypeOK
    <3> QED BY <3>1, <3>2, <3>3
  <2> QED BY <1>0, <2>1 DEF InputInv
<1>5. CASE ServerStep \/ Tick
  <2>1. count' = count /\ \A t \in Inputs : pc'[t] = pc[t]
    <3>1. count' = count
      BY <1>5 DEF ServerStep, Fetch, Woken, Stall, Serve, Tick, histVars
    <3>2. pc' = pc \/ \E x : pc' = [pc EXCEPT ![Server] = x]
      BY <1>5 DEF ServerStep, Fetch, Woken, Stall, Serve, Tick
    <3>3. ASSUME NEW t \in Inputs, NEW x, pc' = [pc EXCEPT ![Server] = x]
          PROVE  pc'[t] = pc[t]
      <4>1. t # Server /\ t \in Tasks
        BY Constants
      <4> QED BY <1>0, <3>3, <4>1 DEF TypeOK
    <3> QED BY <3>1, <3>2, <3>3
  <2> QED BY <1>0, <2>1 DEF InputInv
<1> QED BY <1>1, <1>2, <1>3, <1>4, <1>5 DEF Next

-----------------------------------------------------------------------------
(* What a step makes of the places.                                        *)

Same == entries' = entries /\ \A k \in 0..entries : At(k)' = At(k)

\* m comes to one place, and the others stay
Put(m) ==
    \E n \in 0..entries' :
        /\ At(n)' = m
        /\ \A k \in 0..entries' : k # n => k \in 0..entries /\ At(k)' = At(k)

\* The first entry comes into the hands of tcpip_thread
Forward ==
    /\ entries >= 1 /\ entries' = entries - 1
    /\ \A k \in 0..(entries - 1) : At(k)' = At(k + 1)

\* tcpip_thread has done with its message
Drop ==
    /\ entries' = entries /\ At(0)' = None
    /\ \A k \in 1..entries : At(k)' = At(k)

\* Without a change of queue and hand nothing moves.
LEMMA SamePlaces ==
  ASSUME UNCHANGED <<ring, out, entries>>, Hand' = Hand
  PROVE  Same
BY DEF Same, At, Slot

\* A post takes the place of tcpip_thread's hand if it waits, and the one
\* behind the last entry otherwise.
LEMMA PutPlaces ==
  ASSUME TypeOK, ServerInv, NEW m \in Messages, NEW rdy, OSQPost(m, rdy),
         pc'[Server] = pc[Server], got' = got
  PROVE  Put(m)
<1>s. Server \in Tasks
  BY Constants
<1>1. CASE wait = {Server} /\ Rdy(Server, m, rdy) /\ UNCHANGED qVars
  <2>1. entries' = 0 /\ pc[Server] = "wait"
    BY <1>1 DEF ServerInv, qVars
  <2>2. msg'[Server] = m
    BY <1>1, <1>s DEF Rdy, TypeOK
  <2>3. At(0)' = m
    BY <2>1, <2>2 DEF At, Hand
  <2>4. 0..entries' = {0}
    BY <2>1
  <2> QED BY <2>3, <2>4 DEF Put
<1>2. CASE /\ wait = {} /\ entries < Size
           /\ ring' = [ring EXCEPT ![in] = m]
           /\ in' = After(in) /\ entries' = entries + 1
           /\ ready' = rdy
           /\ UNCHANGED <<out, dly, stat, pend, msg>>
  <2>e. PICK e \in 0..(Size - 1) : e = entries
    BY <1>2, Constants DEF TypeOK
  <2>1. out \in 0..(Size - 1) /\ in = Slot(e) /\ in \in 0..(Size - 1)
    BY <2>e DEF TypeOK
  <2>2. Hand' = Hand
    BY <1>2 DEF Hand
  <2>3. \A k \in 0..Size : Slot(k)' = Slot(k)
    BY <1>2 DEF Slot
  <2>4. At(e + 1)' = m
    <3>1. e + 1 # 0 /\ (e + 1) - 1 = e /\ e \in 0..Size
      BY Constants
    <3>2. ring'[in] = m
      BY <1>2, <2>1 DEF TypeOK
    <3> QED BY <2>1, <2>3, <3>1, <3>2 DEF At
  <2>5. ASSUME NEW k \in 0..e PROVE At(k)' = At(k)
    <3>1. CASE k = 0
      BY <2>2, <3>1 DEF At
    <3>2. CASE k # 0
      <4>1. k - 1 \in 0..(Size - 1) /\ k - 1 # e /\ k - 1 \in 0..Size
        BY <3>2, Constants
      <4>2. Slot(k - 1) # in /\ Slot(k - 1) \in 0..(Size - 1)
        BY <2>1, <4>1, Slots, Constants
      <4>3. ring'[Slot(k - 1)] = ring[Slot(k - 1)]
        BY <1>2, <4>2 DEF TypeOK
      <4> QED BY <2>3, <3>2, <4>1, <4>3 DEF At
    <3> QED BY <3>1, <3>2
  <2>6. entries' = e + 1 /\ e + 1 \in 0..(e + 1)
    BY <1>2, <2>e
  <2>7. \A k \in 0..(e + 1) : k # e + 1 => k \in 0..e
    BY <2>e
  <2> QED BY <2>e, <2>4, <2>5, <2>6, <2>7 DEF Put
<1> QED BY <1>1, <1>2, PostCases

\* Fetching a message moves every entry one place forward.
LEMMA ForwardPlaces ==
  ASSUME TypeOK, Fetch, entries > 0
  PROVE  Forward
<1>e. PICK e \in 1..Size : e = entries
  BY Constants DEF TypeOK
<1>1. /\ got' = ring[out] /\ out' = After(out) /\ entries' = entries - 1 /\ ring' = ring
      /\ pc'[Server] = "serve" /\ out \in 0..(Size - 1)
  BY Constants DEF Fetch, TypeOK
<1>2. At(0)' = At(1)
  BY <1>1, Slots, Constants DEF At, Hand
<1>3. ASSUME NEW k \in 1..(e - 1) PROVE At(k)' = At(k + 1)
  <2>1. /\ k # 0 /\ k + 1 # 0 /\ k - 1 \in 0..(Size - 1) /\ (k - 1) + 1 = k
        /\ (k + 1) - 1 = k
    BY Constants
  <2>2. Slot(k - 1)' = Slot(k)
    BY <1>1, <2>1, NextSlots, Constants
  <2> QED BY <1>1, <2>1, <2>2 DEF At
<1>4. \A k \in 0..(e - 1) : k = 0 \/ k \in 1..(e - 1)
  OBVIOUS
<1> QED BY <1>e, <1>1, <1>2, <1>3, <1>4 DEF Forward

\* The messages at the places, after each of these.
Line == Entries /\ OneEach /\ LastCall

\* If nothing moves and no waiting call goes on, the messages are where they were.
LEMMA SameLine ==
  ASSUME Line, Same, \A c \in Callers : Waits(c) => Waits(c)'
  PROVE  Line'
<1>1. \A k \in 0..entries' : \A c : From(k, c)' <=> From(k, c)
  BY DEF Same, From
<1>2. Entries'
  BY DEF Line, Entries, Same
<1>3. OneEach'
  BY <1>1 DEF Line, OneEach, Same
<1>4. LastCall'
  BY <1>1 DEF Line, LastCall, Same
<1> QED BY <1>2, <1>3, <1>4 DEF Line

\* A message that comes must be the only one of a call that waits.
LEMMA PutLine ==
  ASSUME Line, NEW m \in Messages, Put(m),
         \A c \in Callers : Waits(c) => Waits(c)',
         m[1] \in Callers => /\ Waits(m[1])'
                             /\ \A k \in 0..entries : ~From(k, m[1])
  PROVE  Line'
<1>n. PICK n \in 0..entries' :
        /\ At(n)' = m
        /\ \A k \in 0..entries' : k # n => k \in 0..entries /\ At(k)' = At(k)
  BY DEF Put
<1>1. \A k \in 0..entries' : k # n => \A c : From(k, c)' <=> From(k, c)
  BY <1>n DEF From
<1>2. \A c : From(n, c)' <=> m[1] = c
  BY <1>n DEF From
<1>3. Entries'
  BY <1>n DEF Line, Entries
<1>4. OneEach'
  BY <1>n, <1>1, <1>2 DEF Line, OneEach
<1>5. LastCall'
  BY <1>n, <1>1, <1>2 DEF Line, LastCall
<1> QED BY <1>3, <1>4, <1>5 DEF Line

\* Moving forward keeps messages apart.
LEMMA ForwardLine ==
  ASSUME Line, entries \in Nat, Forward, \A c \in Callers : Waits(c) => Waits(c)'
  PROVE  Line'
<1>1. \A k \in 0..entries' : k \in 0..(entries - 1) /\ k + 1 \in 1..entries /\ k + 1 \in 0..entries
  BY DEF Forward
<1>2. \A k \in 0..entries' : At(k)' = At(k + 1) /\ \A c : From(k, c)' <=> From(k + 1, c)
  BY <1>1 DEF Forward, From
<1>3. Entries'
  BY <1>1, <1>2 DEF Line, Entries
<1>4. OneEach'
  <2> SUFFICES ASSUME NEW c \in Callers, NEW j \in 0..entries', NEW k \in 0..entries',
                      From(j, c)', From(k, c)'
               PROVE  j = k
    BY DEF OneEach
  <2>1. j + 1 = k + 1
    BY <1>1, <1>2 DEF Line, OneEach
  <2> QED BY <2>1
<1>5. LastCall'
  BY <1>1, <1>2 DEF Line, LastCall
<1> QED BY <1>3, <1>4, <1>5 DEF Line

\* The call whose message is dropped need not wait any longer.
LEMMA DropLine ==
  ASSUME Line, entries \in Nat, Drop,
         \A c \in Callers : Waits(c) /\ ~From(0, c) => Waits(c)'
  PROVE  Line'
<1>1. \A k \in 0..entries' : k # 0 => k \in 1..entries /\ k \in 0..entries /\ At(k)' = At(k)
  BY DEF Drop
<1>2. \A k \in 0..entries' : k # 0 => \A c : From(k, c)' <=> From(k, c)
  BY <1>1 DEF From
<1>3. \A c : ~From(0, c)'
  BY Constants DEF From, Drop
<1>4. Entries'
  BY <1>1 DEF Line, Entries, Drop
<1>5. OneEach'
  BY <1>1, <1>2, <1>3 DEF Line, OneEach
<1>6. LastCall'
  <2> SUFFICES ASSUME NEW c \in Callers, NEW k \in 0..entries', From(k, c)' PROVE Waits(c)'
    BY DEF LastCall
  <2>1. k # 0 /\ From(k, c) /\ k \in 0..entries
    BY <1>1, <1>2, <1>3
  <2>2. ~From(0, c) /\ Waits(c)
    BY <2>1 DEF Line, OneEach, LastCall
  <2> QED BY <2>2
<1> QED BY <1>4, <1>5, <1>6 DEF Line

-----------------------------------------------------------------------------

\* A post touches no records of a caller.
LEMMA PostTcbs ==
  ASSUME TypeOK, NEW m, NEW rdy, OSQPost(m, rdy), NEW c \in Callers
  PROVE  /\ stat'[c] = stat[c] /\ dly'[c] = dly[c]
         /\ c \in ready' => c \in rdy
<1>1. c \in Tasks /\ c # Server
  BY Constants
<1>2. CASE Rdy(Server, m, rdy)
  BY <1>1, <1>2 DEF Rdy, TypeOK
<1>3. CASE ready' = rdy /\ UNCHANGED <<dly, stat>>
  BY <1>3
<1> QED BY <1>2, <1>3, PostCases

\* A call goes from stage to stage, and tcpip_thread serves it once.
LEMMA CallerKept ==
  ASSUME IInv, Next
  PROVE  CallerInv'
<1>0. TypeOK /\ CallerInv
  BY DEF IInv
<1>f. ASSUME NEW c \in Callers
      PROVE  /\ Calls(c) /\ c \in Tasks /\ c # Server
             /\ served[c] \in Nat /\ count[c] \in Nat /\ sem[c] \in 0..1
  BY <1>0, Constants DEF CallerInv, TypeOK
<1>k. ASSUME NEW c \in Callers,
             pc'[c] = pc[c], served'[c] = served[c], count'[c] = count[c], sem'[c] = sem[c],
             stat'[c] = stat[c], dly'[c] = dly[c], c \in ready' => c \in ready
      PROVE  Calls(c)'
  BY <1>f, <1>k DEF Calls, Stage
<1>1. ASSUME NEW t \in Inputs, Frame(t), NEW c \in Callers PROVE Calls(c)'
  <2>1. t # c /\ t \in Tasks \ {Server} /\ c \in Tasks \ {Server}
    BY Constants
  <2>2. /\ pc' = [pc EXCEPT ![t] = "post"] /\ count' = [count EXCEPT ![t] = @ + 1]
        /\ ready' = ready \cup {t} /\ UNCHANGED <<dly, stat, sem, served>>
    BY <1>1 DEF Frame
  <2>3. pc'[c] = pc[c] /\ count'[c] = count[c] /\ (c \in ready' => c \in ready)
    BY <1>0, <2>1, <2>2 DEF TypeOK
  <2> QED BY <1>k, <2>2, <2>3
<1>2. ASSUME NEW t \in Inputs, TryPost(t), NEW c \in Callers PROVE Calls(c)'
  <2>1. t # c /\ c \in Tasks
    BY Constants
  <2>2. pc' = [pc EXCEPT ![t] = "idle"] /\ UNCHANGED <<sem, count, served>>
    BY <1>2 DEF TryPost, histVars
  <2>3. pc'[c] = pc[c]
    BY <1>0, <2>1, <2>2 DEF TypeOK
  <2>4. /\ stat'[c] = stat[c] /\ dly'[c] = dly[c]
        /\ c \in ready' => c \in ready
    <3>1. CASE Full
      BY <1>2, <3>1 DEF TryPost
    <3>2. CASE ~Full
      <4>1. OSQPost(<<t, count[t]>>, ready \ {t})
        BY <1>2, <3>2 DEF TryPost
      <4> QED BY <1>0, <4>1, PostTcbs
    <3> QED BY <3>1, <3>2
  <2> QED BY <1>k, <2>2, <2>3, <2>4
<1>3. ASSUME NEW d \in Callers, Call(d), NEW c \in Callers PROVE Calls(c)'
  <2>1. /\ pc[d] = "idle" /\ count[d] < MaxCalls
        /\ pc' = [pc EXCEPT ![d] = "post"] /\ count' = [count EXCEPT ![d] = @ + 1]
        /\ ready' = ready \cup {d} /\ UNCHANGED <<dly, stat, sem, served>>
    BY <1>3 DEF Call
  <2>2. CASE c # d
    <3>1. pc'[c] = pc[c] /\ count'[c] = count[c] /\ (c \in ready' => c \in ready)
      BY <1>0, <1>f, <2>1, <2>2, Constants DEF TypeOK
    <3> QED BY <1>k, <2>1, <3>1
  <2>3. CASE c = d
    <3>1. pc'[c] = "post" /\ count'[c] = count[c] + 1
      BY <1>0, <1>f, <2>1, <2>3 DEF TypeOK
    <3>2. /\ served[c] = count[c] /\ sem[c] = 0 /\ ~stat[c] /\ dly[c] = 0
          /\ count[c] + 1 \in 1..MaxCalls
      BY <1>f, <2>1, <2>3, Constants DEF Calls, Stage
    <3> QED BY <1>f, <2>1, <3>1, <3>2 DEF Calls, Stage
  <2> QED BY <2>2, <2>3
<1>4. ASSUME NEW d \in Callers, Post(d), NEW c \in Callers PROVE Calls(c)'
  <2>1. pc[d] = "post" /\ UNCHANGED <<sem, count, served>>
    BY <1>4 DEF Post
  <2>2. CASE c # d
    <3>1. pc'[c] = pc[c]
      BY <1>0, <1>4, <1>f, <2>2 DEF Post, TypeOK
    <3>2. /\ stat'[c] = stat[c] /\ dly'[c] = dly[c]
          /\ c \in ready' => c \in ready
      <4>1. CASE OSQPost(<<d, count[d]>>, ready)
        BY <1>0, <4>1, PostTcbs
      <4>2. CASE Sleep(d, Delay) /\ stat' = stat
        BY <1>0, <1>f, <2>2, <4>2 DEF Sleep, TypeOK
      <4>3. CASE UNCHANGED tcbVars
        BY <4>3 DEF tcbVars
      <4> QED BY <1>4, <4>1, <4>2, <4>3 DEF Post
    <3> QED BY <1>k, <2>1, <3>1, <3>2
  <2>3. CASE c = d
    <3>1. pc[c] = "post" /\ ~stat[c] /\ served[c] = count[c] - 1 /\ sem[c] = 0
      BY <1>f, <2>1, <2>3 DEF Calls, Stage
    <3>2. ~stat'[c]
      <4>1. CASE OSQPost(<<d, count[d]>>, ready)
        BY <1>0, <3>1, <4>1, PostTcbs
      <4>2. CASE stat' = stat
        BY <3>1, <4>2
      <4> QED BY <1>4, <4>1, <4>2 DEF Post, tcbVars
    <3>3. /\ pc'[c] \in {"post", "pend"}
          /\ dly'[c] # 0 => pc'[c] = "post" /\ c \notin ready'
      <4>1. dly[c] = 0 /\ c \in ready
        BY <1>4, <1>f, <2>3 DEF Post, Runs, Calls
      <4>2. CASE OSQPost(<<d, count[d]>>, ready) /\ pc' = [pc EXCEPT ![d] = "pend"]
        <5>1. dly'[c] = dly[c]
          BY <1>0, <4>2, PostTcbs
        <5> QED BY <1>0, <1>f, <2>3, <4>1, <4>2, <5>1 DEF TypeOK
      <4>3. CASE Sleep(d, Delay) /\ pc' = pc
        BY <2>3, <3>1, <4>3 DEF Sleep
      <4>4. CASE pc' = [pc EXCEPT ![d] = "pend"] /\ UNCHANGED tcbVars
        BY <1>0, <1>f, <2>3, <4>1, <4>4 DEF TypeOK, tcbVars
      <4> QED BY <1>4, <4>2, <4>3, <4>4 DEF Post
    <3> QED BY <1>f, <2>1, <3>1, <3>2, <3>3 DEF Calls, Stage
  <2> QED BY <2>2, <2>3
<1>5. ASSUME NEW d \in Callers, SemPend(d), NEW c \in Callers PROVE Calls(c)'
  <2>1. pc[d] = "pend" /\ UNCHANGED <<count, served, dly>>
    BY <1>5 DEF SemPend, histVars
  <2>2. CASE c # d
    <3>1. /\ pc'[c] = pc[c] /\ sem'[c] = sem[c] /\ stat'[c] = stat[c]
          /\ c \in ready' => c \in ready
      BY <1>0, <1>5, <1>f, <2>2 DEF SemPend, TypeOK
    <3> QED BY <1>k, <2>1, <3>1
  <2>3. CASE c = d /\ sem[d] > 0
    <3>1. /\ pc'[c] = "return" /\ sem'[c] = sem[c] - 1 /\ stat' = stat
      BY <1>0, <1>5, <1>f, <2>3 DEF SemPend, TypeOK
    <3>2. ~stat[c] /\ sem[c] = 1 /\ served[c] = count[c] /\ count[c] >= 1
      BY <1>f, <2>1, <2>3 DEF Calls, Stage
    <3> QED BY <1>f, <2>1, <3>1, <3>2 DEF Calls, Stage
  <2>4. CASE c = d /\ ~(sem[d] > 0)
    <3>1. /\ pc'[c] = "wait" /\ sem' = sem /\ stat'[c] = TRUE /\ c \notin ready'
      BY <1>0, <1>5, <1>f, <2>4 DEF SemPend, TypeOK
    <3>2. sem[c] = 0 /\ served[c] = count[c] - 1 /\ count[c] >= 1
      BY <1>f, <2>1, <2>4 DEF Calls, Stage
    <3>3. dly[c] = 0
      BY <1>f, <2>1, <2>4 DEF Calls
    <3> QED BY <1>f, <2>1, <3>1, <3>2, <3>3 DEF Calls, Stage
  <2> QED BY <2>2, <2>3, <2>4
<1>6. ASSUME NEW d \in Callers, CallReturns(d), NEW c \in Callers PROVE Calls(c)'
  <2>1. /\ d \in ready /\ pc[d] \in {"wait", "return"}
        /\ pc' = [pc EXCEPT ![d] = "idle"] /\ ready' = ready \ {d}
        /\ UNCHANGED <<dly, stat, sem, count, served>>
    BY <1>6 DEF CallReturns, Runs, histVars
  <2>2. CASE c # d
    <3>1. pc'[c] = pc[c]
      BY <1>0, <1>f, <2>1, <2>2 DEF TypeOK
    <3> QED BY <1>k, <2>1, <3>1
  <2>3. CASE c = d
    <3>1. pc'[c] = "idle"
      BY <1>0, <1>f, <2>1, <2>3 DEF TypeOK
    <3>2. ~stat[c] /\ served[c] = count[c] /\ sem[c] = 0 /\ dly[c] = 0
      BY <1>f, <2>1, <2>3 DEF Calls, Stage
    <3> QED BY <1>f, <2>1, <3>1, <3>2 DEF Calls, Stage
  <2> QED BY <2>2, <2>3
<1>7. ASSUME Fetch \/ Woken \/ Stall, NEW c \in Callers PROVE Calls(c)'
  <2>1. /\ UNCHANGED <<sem, count, served>> /\ ready' \in {ready, ready \ {Server}}
        /\ pc' = [pc EXCEPT ![Server] = pc'[Server]]
        /\ stat' = [stat EXCEPT ![Server] = stat'[Server]]
        /\ dly' = [dly EXCEPT ![Server] = dly'[Server]]
    BY <1>0, <1>7, Constants DEF Fetch, Woken, Stall, Sleep, TypeOK, histVars, tcbVars
  <2>2. pc'[c] = pc[c] /\ stat'[c] = stat[c] /\ dly'[c] = dly[c]
    BY <1>0, <1>f, <2>1 DEF TypeOK
  <2> QED BY <1>k, <2>1, <2>2
<1>8. ASSUME Serve, NEW c \in Callers PROVE Calls(c)'
  <2>1. /\ pc' = [pc EXCEPT ![Server] = "fetch"] /\ count' = count
        /\ got \in Messages
    BY <1>8 DEF Serve, IInv, ServerInv
  <2>2. pc'[c] = pc[c]
    BY <1>0, <1>f, <2>1 DEF TypeOK
  <2>3. CASE got[1] \notin Callers
    BY <1>8, <1>k, <2>1, <2>2, <2>3 DEF Serve, tcbVars
  <2>4. CASE got[1] \in Callers /\ got[1] # c
    <3> DEFINE d == got[1]
    <3>1. /\ served' = [served EXCEPT ![d] = @ + 1]
          /\ IF stat[d] THEN Rdy(d, None, ready) /\ sem' = sem
             ELSE sem' = [sem EXCEPT ![d] = @ + 1] /\ UNCHANGED tcbVars
      BY <1>8, <2>4 DEF Serve
    <3>2. d # c /\ d \in Callers
      BY <2>4
    <3> HIDE DEF d
    <3>3. served'[c] = served[c] /\ sem'[c] = sem[c]
      BY <1>0, <3>1, <3>2 DEF TypeOK
    <3>4. stat'[c] = stat[c] /\ dly'[c] = dly[c] /\ (c \in ready' => c \in ready)
      <4>1. CASE Rdy(d, None, ready)
        BY <1>0, <1>f, <3>2, <4>1 DEF Rdy, TypeOK
      <4>2. CASE UNCHANGED tcbVars
        BY <4>2 DEF tcbVars
      <4> QED BY <3>1, <4>1, <4>2
    <3> QED BY <1>k, <2>1, <2>2, <3>3, <3>4
  <2>5. CASE got[1] = c
    <3>1. /\ served' = [served EXCEPT ![c] = @ + 1]
          /\ IF stat[c] THEN Rdy(c, None, ready) /\ sem' = sem
             ELSE sem' = [sem EXCEPT ![c] = @ + 1] /\ UNCHANGED tcbVars
      BY <1>8, <2>5 DEF Serve
    <3>2. From(0, c) /\ 0 \in 0..entries
      BY <1>0, <1>8, <2>1, <2>5 DEF From, At, Hand, Serve, TypeOK
    <3>3. Waits(c)
      BY <3>2 DEF IInv, LastCall
    <3>4. served'[c] = count[c]
      <4>1. served'[c] = served[c] + 1
        BY <1>0, <3>1 DEF TypeOK
      <4> QED BY <1>f, <3>3, <4>1 DEF Waits
    <3>5. CASE stat[c]
      <4>1. /\ pc[c] = "wait" /\ sem[c] = 0 /\ count[c] >= 1
        BY <1>f, <3>3, <3>5 DEF Calls, Stage, Waits
      <4>2. stat'[c] = FALSE /\ dly'[c] = 0 /\ sem' = sem
        BY <1>0, <1>f, <3>1, <3>5 DEF Rdy, TypeOK
      <4> QED BY <1>f, <2>1, <2>2, <3>4, <4>1, <4>2 DEF Calls, Stage
    <3>6. CASE ~stat[c]
      <4>1. pc[c] = "pend" /\ sem[c] = 0 /\ count[c] >= 1
        BY <1>f, <3>3, <3>6 DEF Calls, Stage, Waits
      <4>2. sem'[c] = 1 /\ UNCHANGED tcbVars
        BY <1>0, <3>1, <3>6, <4>1 DEF TypeOK
      <4> QED BY <1>f, <2>1, <2>2, <3>4, <3>6, <4>1, <4>2 DEF Calls, Stage, tcbVars
    <3> QED BY <3>5, <3>6
  <2> QED BY <2>3, <2>4, <2>5
<1>9. ASSUME Tick, NEW c \in Callers PROVE Calls(c)'
  <2> DEFINE over == {t \in Tasks : dly[t] = 1}
  <2>1. /\ dly' = [t \in Tasks |-> IF dly[t] = 0 THEN 0 ELSE dly[t] - 1]
        /\ stat' = [t \in Tasks |-> stat[t] /\ t \notin over]
        /\ ready' = ready \cup over
        /\ UNCHANGED <<pc, sem, count, served>>
    BY <1>9 DEF Tick, histVars
  <2>2. CASE dly[c] = 0
    <3>1. c \notin over /\ dly'[c] = 0
      BY <1>f, <2>1, <2>2
    <3>2. stat'[c] = stat[c]
      BY <1>0, <1>f, <2>1, <3>1 DEF TypeOK
    <3> QED BY <1>k, <2>1, <2>2, <3>1, <3>2
  <2>3. CASE dly[c] # 0
    <3>1. pc[c] = "post" /\ ~stat[c] /\ c \notin ready
      BY <1>f, <2>3 DEF Calls
    <3>2. ~stat'[c]
      BY <1>f, <2>1, <3>1
    <3>3. dly'[c] # 0 => c \notin ready'
      <4>1. dly[c] \in Nat /\ dly'[c] = dly[c] - 1
        BY <1>0, <1>f, <2>1, <2>3 DEF TypeOK
      <4> QED BY <2>1, <3>1, <4>1
    <3> QED BY <1>f, <2>1, <3>1, <3>2, <3>3 DEF Calls, Stage
  <2> QED BY <2>2, <2>3
<1> QED BY <1>1, <1>2, <1>3, <1>4, <1>5, <1>6, <1>7, <1>8, <1>9
  DEF Next, CallStep, ServerStep, CallerInv

-----------------------------------------------------------------------------

\* tcpip_thread's steps and the tick leave the callers where they are.
LEMMA Elsewhere ==
  ASSUME TypeOK, NEW c \in Callers,
         Tick \/ Fetch \/ Woken \/ Stall \/ \E t \in Inputs : Frame(t) \/ TryPost(t)
  PROVE  pc'[c] = pc[c] /\ served'[c] = served[c] /\ count'[c] = count[c]
<1>0. c \in Tasks \ {Server} /\ \A t \in Inputs : t # c /\ t \in Tasks \ {Server}
  BY Constants
<1>1. CASE Tick
  BY <1>1 DEF Tick, histVars
<1>2. CASE Fetch \/ Woken \/ Stall
  BY <1>0, <1>2 DEF Fetch, Woken, Stall, histVars, TypeOK
<1>3. ASSUME NEW t \in Inputs, Frame(t) \/ TryPost(t)
      PROVE  pc'[c] = pc[c] /\ served'[c] = served[c] /\ count'[c] = count[c]
  BY <1>0, <1>3 DEF Frame, TryPost, histVars, TypeOK
<1> QED BY <1>1, <1>2, <1>3

\* A message stays that of a call that waits, at one place only.
LEMMA LineKept ==
  ASSUME IInv, Next
  PROVE  Line'
<1>0. TypeOK /\ ServerInv /\ InputInv /\ CallerInv /\ Line /\ entries \in Nat
  BY Constants DEF IInv, Line, TypeOK
<1>s. Server \in Tasks
  BY Constants
<1>w. ASSUME NEW c \in Callers, pc'[c] = pc[c], served'[c] = served[c], count'[c] = count[c]
      PROVE  Waits(c) => Waits(c)'
  BY <1>w DEF Waits
<1>p. ASSUME NEW m \in Messages, NEW rdy, OSQPost(m, rdy),
             pc'[Server] = pc[Server], got' = got
      PROVE  Put(m)
  BY <1>0, <1>p, PutPlaces
<1>1. ASSUME NEW t \in Inputs, Frame(t) PROVE Line'
  <2>1. Same
    <3>1. Hand' = Hand
      BY <1>0, <1>1, <1>s, Constants DEF Frame, Hand, TypeOK
    <3> QED BY <1>1, <3>1, SamePlaces DEF Frame, qVars
  <2> QED BY <1>0, <1>1, <1>w, <2>1, Elsewhere, SameLine
<1>2. ASSUME NEW t \in Inputs, TryPost(t) PROVE Line'
  <2>1. pc'[Server] = pc[Server] /\ got' = got
    BY <1>0, <1>2, <1>s, Constants DEF TryPost, TypeOK
  <2>2. \A c \in Callers : Waits(c) => Waits(c)'
    BY <1>0, <1>2, <1>w, Elsewhere
  <2>3. CASE Full
    <3>1. Same
      BY <1>2, <2>1, <2>3, SamePlaces DEF TryPost, qVars, Hand
    <3> QED BY <1>0, <2>2, <3>1, SameLine
  <2>4. CASE ~Full
    <3>1. OSQPost(<<t, count[t]>>, ready \ {t})
      BY <1>2, <2>4 DEF TryPost
    <3>2. <<t, count[t]>> \in Messages
      <4>1. count[t] \in 1..MaxFrames
        BY <1>0, <1>2 DEF TryPost, InputInv
      <4> QED BY <4>1, Constants
    <3>3. Put(<<t, count[t]>>)
      BY <1>p, <2>1, <3>1, <3>2
    <3>4. <<t, count[t]>>[1] \notin Callers
      BY Constants
    <3> QED BY <1>0, <2>2, <3>2, <3>3, <3>4, PutLine
  <2> QED BY <2>3, <2>4
<1>c. ASSUME NEW d \in Callers, NEW c \in Callers, c # d,
             Call(d) \/ CallStep(d)
      PROVE  Waits(c) => Waits(c)'
  <2>1. c \in Tasks \ {Server} /\ d \in Tasks \ {Server}
    BY Constants
  <2>2. pc'[c] = pc[c] /\ served'[c] = served[c] /\ count'[c] = count[c]
    <3>1. CASE Call(d)
      BY <1>0, <1>c, <2>1, <3>1 DEF Call, TypeOK
    <3>2. CASE CallStep(d)
      BY <1>0, <1>c, <2>1, <3>2
        DEF CallStep, Post, SemPend, CallReturns, TypeOK, histVars
    <3> QED BY <1>c, <3>1, <3>2
  <2> QED BY <1>w, <2>2
<1>h. ASSUME NEW d \in Callers, Call(d) \/ CallStep(d)
      PROVE  pc'[Server] = pc[Server] /\ got' = got
  BY <1>0, <1>h, <1>s, Constants DEF Call, CallStep, Post, SemPend, CallReturns, TypeOK
<1>3. ASSUME NEW d \in Callers, Call(d) PROVE Line'
  <2>1. Same
    BY <1>3, <1>h, SamePlaces DEF Call, qVars, Hand
  <2>2. ~Waits(d)
    BY <1>3 DEF Call, Waits
  <2> QED BY <1>0, <1>3, <1>c, <2>1, <2>2, SameLine
<1>4. ASSUME NEW d \in Callers, Post(d) PROVE Line'
  <2>1. ~Waits(d) /\ pc[d] = "post"
    BY <1>4 DEF Post, Waits
  <2>2. \A c \in Callers : Waits(c) => Waits(c)'
    BY <1>4, <1>c, <2>1 DEF CallStep
  <2>3. pc'[Server] = pc[Server] /\ got' = got
    BY <1>4, <1>h DEF CallStep
  <2>4. CASE OSQPost(<<d, count[d]>>, ready) /\ pc' = [pc EXCEPT ![d] = "pend"]
    <3>1. <<d, count[d]>> \in Messages /\ <<d, count[d]>>[1] = d
      <4>1. count[d] \in 1..MaxCalls
        BY <1>0, <2>1 DEF CallerInv, Calls
      <4> QED BY <4>1, Constants
    <3>2. Put(<<d, count[d]>>)
      BY <1>p, <2>3, <2>4, <3>1
    <3>3. Waits(d)'
      <4>1. pc'[d] = "pend"
        BY <1>0, <2>4, Constants DEF TypeOK
      <4>2. served[d] = count[d] - 1
        BY <1>0, <2>1 DEF CallerInv, Calls, Stage
      <4> QED BY <1>4, <4>1, <4>2 DEF Post, Waits
    <3>4. \A k \in 0..entries : ~From(k, d)
      BY <1>0, <2>1 DEF Line, LastCall
    <3> QED BY <1>0, <2>2, <3>1, <3>2, <3>3, <3>4, PutLine
  <2>5. CASE UNCHANGED <<qVars, msg>>
    <3>1. Same
      BY <2>3, <2>5, SamePlaces DEF qVars, Hand
    <3> QED BY <1>0, <2>2, <3>1, SameLine
  <2> QED BY <1>4, <2>4, <2>5 DEF Post, tcbVars
<1>5. ASSUME NEW d \in Callers, SemPend(d) PROVE Line'
  <2>1. Same
    BY <1>5, <1>h, SamePlaces DEF CallStep, SemPend, qVars, Hand
  <2>2. Waits(d) => Waits(d)'
    <3>1. CASE sem[d] > 0
      BY <1>0, <1>5, <3>1, Constants DEF SemPend, CallerInv, Calls, Stage, Waits, TypeOK
    <3>2. CASE ~(sem[d] > 0)
      BY <1>0, <1>5, <3>2, Constants DEF SemPend, Waits, TypeOK, histVars
    <3> QED BY <3>1, <3>2
  <2> QED BY <1>0, <1>5, <1>c, <2>1, <2>2, SameLine DEF CallStep
<1>6. ASSUME NEW d \in Callers, CallReturns(d) PROVE Line'
  <2>1. Same
    BY <1>6, <1>h, SamePlaces DEF CallStep, CallReturns, qVars, Hand
  <2>2. ~Waits(d)
    <3>1. d \in ready /\ pc[d] \in {"wait", "return"}
      BY <1>6 DEF CallReturns, Runs
    <3>2. served[d] = count[d] /\ count[d] \in Nat
      BY <1>0, <3>1, Constants DEF CallerInv, Calls, Stage
    <3> QED BY <3>2 DEF Waits
  <2> QED BY <1>0, <1>6, <1>c, <2>1, <2>2, SameLine DEF CallStep
<1>7. CASE Fetch
  <2>1. \A c \in Callers : Waits(c) => Waits(c)'
    BY <1>0, <1>7, <1>w, Elsewhere
  <2>2. CASE entries > 0
    BY <1>0, <1>7, <2>1, <2>2, ForwardPlaces, ForwardLine
  <2>3. CASE ~(entries > 0)
    <3>1. Hand' = Hand
      BY <1>0, <1>7, <1>s, <2>3 DEF Fetch, Hand, TypeOK
    <3>2. Same
      BY <1>7, <2>3, <3>1, SamePlaces DEF Fetch, qVars
    <3> QED BY <1>0, <2>1, <3>2, SameLine
  <2> QED BY <2>2, <2>3
<1>8. CASE Woken \/ Stall
  <2>1. \A c \in Callers : Waits(c) => Waits(c)'
    BY <1>0, <1>8, <1>w, Elsewhere
  <2>2. Hand' = Hand
    <3>1. CASE Stall
      BY <1>0, <1>s, <3>1 DEF Stall, Hand, TypeOK
    <3>2. CASE Woken /\ pend[Server] = "OK"
      BY <1>0, <1>s, <3>2 DEF Woken, Hand, TypeOK
    <3>3. CASE Woken /\ pend[Server] # "OK"
      <4>1. msg[Server] = None
        BY <1>0, <3>3 DEF ServerInv
      <4> QED BY <1>0, <1>s, <3>3, <4>1 DEF Woken, Hand, TypeOK
    <3> QED BY <1>8, <3>1, <3>2, <3>3
  <2>3. Same
    BY <1>8, <2>2, SamePlaces DEF Woken, Stall, qVars
  <2> QED BY <1>0, <2>1, <2>3, SameLine
<1>9. CASE Serve
  <2>1. /\ pc[Server] \in {"serve", "stall"} /\ pc' = [pc EXCEPT ![Server] = "fetch"]
        /\ UNCHANGED <<qVars, got, count>> /\ got \in Messages
    BY <1>0, <1>9 DEF Serve, ServerInv
  <2>2. msg'[Server] = None
    <3>1. msg[Server] = None
      BY <1>0, <2>1 DEF ServerInv
    <3>2. CASE UNCHANGED tcbVars
      BY <3>1, <3>2 DEF tcbVars
    <3>3. ASSUME NEW d \in Callers, Rdy(d, None, ready) PROVE msg'[Server] = None
      BY <1>0, <1>s, <3>1, <3>3, Constants DEF Rdy, TypeOK
    <3> QED BY <1>9, <3>2, <3>3 DEF Serve
  <2>3. pc'[Server] = "fetch"
    BY <1>0, <1>s, <2>1 DEF TypeOK
  <2>4. Drop
    BY <2>1, <2>2, <2>3 DEF Drop, At, Hand, Slot, qVars
  <2>5. ASSUME NEW c \in Callers, ~From(0, c) PROVE Waits(c) => Waits(c)'
    <3>1. got[1] # c
      BY <2>1, <2>5 DEF From, At, Hand
    <3>2. served'[c] = served[c]
      <4>1. served' = served \/ \E d : d # c /\ served' = [served EXCEPT ![d] = @ + 1]
        BY <1>9, <3>1 DEF Serve
      <4> QED BY <1>0, <4>1 DEF TypeOK
    <3>3. pc'[c] = pc[c] /\ count'[c] = count[c]
      BY <1>0, <2>1, Constants DEF TypeOK
    <3> QED BY <1>w, <3>2, <3>3
  <2> QED BY <1>0, <2>4, <2>5, DropLine
<1>10. CASE Tick
  <2>1. Same
    BY <1>10, SamePlaces DEF Tick, qVars, Hand
  <2> QED BY <1>0, <1>10, <1>w, <2>1, Elsewhere, SameLine
<1> QED BY <1>1, <1>2, <1>3, <1>4, <1>5, <1>6, <1>7, <1>8, <1>9, <1>10
  DEF Next, CallStep, ServerStep

-----------------------------------------------------------------------------

\* The invariant holds in every reachable state.
THEOREM Inductive == Spec => []IInv
<1>1. ASSUME IInv, UNCHANGED vars PROVE IInv'
  <2>1. UNCHANGED <<qVars, tcbVars, pc, tries, sem, got, histVars>>
    BY <1>1 DEF vars
  <2>2. (TypeOK /\ InputInv /\ ServerInv)'
    BY <1>1, <2>1 DEF IInv, TypeOK, InputInv, ServerInv, Slot, qVars, tcbVars, histVars
  <2>3. CallerInv'
    BY <1>1, <2>1 DEF IInv, CallerInv, Calls, Stage, qVars, tcbVars, histVars
  <2>4. Line'
    BY <1>1, <2>1 DEF IInv, Line, Entries, OneEach, LastCall, Waits, From, At, Hand, Slot,
                      qVars, tcbVars, histVars
  <2> QED BY <2>2, <2>3, <2>4 DEF IInv, Line
<1>2. ASSUME IInv, Next PROVE IInv'
  BY <1>2, TypeStep, ServerKept, InputKept, CallerKept, LineKept DEF IInv, Line
<1>3. IInv /\ [Next]_vars => IInv'
  BY <1>1, <1>2
<1> QED BY InitIInv, <1>3, PTL DEF Spec

\* Queue, waiting list and signals agree: nothing lies behind a waiting
\* tcpip_thread (os_q.c:603-617), and no call is back unserved or finds the
\* signal of an earlier one (tcpip.c:464, os_sem.c:491).
THEOREM MailboxProved == Spec => []MailboxInv
<1>1. ASSUME IInv PROVE MailboxInv
  <2>1. TypeOK /\ NothingBehind
    BY <1>1 DEF IInv, ServerInv, NothingBehind
  <2>2. ReturnsServed
    <3>1. ASSUME NEW c \in Callers
          PROVE  /\ pc[c] = "idle" => served[c] = count[c] /\ sem[c] = 0
                 /\ served[c] <= count[c]
      <4>1. Stage(c) /\ count[c] \in Nat
        BY <1>1, Constants DEF IInv, CallerInv, Calls
      <4> QED BY <4>1 DEF Stage
    <3> QED BY <3>1 DEF ReturnsServed
  <2> QED BY <2>1, <2>2 DEF MailboxInv
<1> QED BY Inductive, <1>1, PTL

\* A task below tcpip_thread fails to post (sys_arch.c:116-129) only while
\* tcpip_thread waits for the heap.
THEOREM FullProved == Spec => FullOnlyWhenStalled
<1> DEFINE Step == \A c \in Callers : tries'[c] > tries[c] /\ c > Server => pc[Server] = "stall"
<1>1. ASSUME IInv, Next, NEW c \in Callers, tries'[c] > tries[c], c > Server
      PROVE  pc[Server] = "stall"
  <2>0. TypeOK /\ ServerInv /\ tries[c] \in Nat
    <3>1. TypeOK /\ ServerInv
      BY <1>1 DEF IInv
    <3>2. tries \in [Callers -> 0..Tries]
      BY <3>1 DEF TypeOK
    <3> QED BY <3>1, <3>2, <1>1, Constants
  <2>1. PICK d \in Callers : Call(d) \/ Post(d)
    <3>1. tries' # tries
      BY <1>1, <2>0
    <3> QED BY <1>1, <3>1
      DEF Next, CallStep, ServerStep, Frame, TryPost, SemPend, CallReturns, Fetch, Woken,
          Stall, Serve, Tick
  <2>2. d = c
    BY <1>1, <2>0, <2>1 DEF Call, Post, TypeOK
  <2>3. ~Call(c)
    <3>1. Call(c) => tries'[c] = 0
      BY <2>0 DEF Call, TypeOK
    <3> QED BY <1>1, <2>0, <3>1
  <2>4. Runs(c) /\ Full
    BY <1>1, <2>0, <2>1, <2>2, <2>3 DEF Post, Full
  <2>5. Server \notin ready
    BY <1>1, <2>4, Constants DEF Runs
  <2> QED BY <2>0, <2>4, <2>5 DEF ServerInv, Full
<1>2. IInv /\ [Next]_vars => [Step]_vars
  BY <1>1
<1> QED BY Inductive, <1>2, PTL DEF Spec, FullOnlyWhenStalled

-----------------------------------------------------------------------------
(* The mailbox is a queue.                                                 *)

\* How many messages are handed over but not taken
Handed == IF pc[Server] = "wait" /\ msg[Server] # None THEN 1 ELSE 0

\* The queue of the refinement mapping, place by place.
InPlaces ==
    /\ UnderWay \in Seq(Messages)
    /\ Len(UnderWay) = Handed + entries
    /\ \A i \in 1..(Handed + entries) : UnderWay[i] = At(i - Handed)

\* The places are the queue, from the first that is not empty on.
LEMMA UnderWayIs == IInv => InPlaces
<1> SUFFICES ASSUME IInv PROVE InPlaces
  OBVIOUS
<1>0. TypeOK /\ Entries /\ Server \in Tasks
  BY Constants DEF IInv
<1>e. PICK e \in Nat : e = entries
  BY <1>0, Constants DEF TypeOK
<1> DEFINE queue == [k \in 1..e |-> ring[Slot(k - 1)]]
<1>1. ASSUME NEW k \in 1..e PROVE queue[k] = At(k) /\ At(k) \in Messages
  BY <1>0, <1>1, <1>e DEF At, Entries
<1>2. queue \in Seq(Messages) /\ Len(queue) = e
  <2>1. queue \in [1..e -> Messages]
    BY <1>1
  <2>2. queue \in Seq(Messages)
    BY <2>1, SeqDef
  <2>3. DOMAIN queue = 1..e
    OBVIOUS
  <2> QED BY <1>e, <2>2, <2>3, LenProperties
<1>3. \A k \in 1..e : queue[k] = At(k)
  BY <1>1
<1>u. UnderWay = (IF Handed = 1 THEN <<msg[Server]>> ELSE <<>>) \o queue
  BY <1>e DEF UnderWay, Handed
<1> HIDE DEF queue
<1>4. CASE Handed = 1
  <2>1. msg[Server] \in Messages /\ At(0) = msg[Server]
    BY <1>0, <1>4 DEF Handed, TypeOK, At, Hand
  <2> DEFINE one == <<msg[Server]>>
  <2>2. one \in Seq(Messages) /\ Len(one) = 1 /\ one[1] = msg[Server]
    BY <2>1
  <2> HIDE DEF one
  <2>3. /\ one \o queue \in Seq(Messages) /\ Len(one \o queue) = 1 + e
        /\ \A i \in 1..(1 + e) : (one \o queue)[i] = IF i <= 1 THEN one[i] ELSE queue[i - 1]
    <3>1. /\ one \o queue \in Seq(Messages)
          /\ Len(one \o queue) = Len(one) + Len(queue)
          /\ \A i \in 1..Len(one) + Len(queue) :
                (one \o queue)[i] = IF i <= Len(one) THEN one[i] ELSE queue[i - Len(one)]
      BY <1>2, <2>2, ConcatProperties
    <3> QED BY <1>2, <2>2, <3>1
  <2>4. \A i \in 1..(1 + e) : (one \o queue)[i] = At(i - 1)
    <3> SUFFICES ASSUME NEW i \in 1..(1 + e) PROVE (one \o queue)[i] = At(i - 1)
      OBVIOUS
    <3>1. CASE i = 1
      BY <2>1, <2>2, <2>3, <3>1
    <3>2. CASE i # 1
      <4>1. i - 1 \in 1..e /\ ~(i <= 1)
        BY <3>2, <1>e
      <4> QED BY <1>3, <2>3, <4>1
    <3> QED BY <3>1, <3>2
  <2>5. UnderWay = one \o queue
    BY <1>u, <1>4 DEF one
  <2> QED BY <1>4, <1>e, <2>3, <2>4, <2>5 DEF InPlaces
<1>5. CASE Handed = 0
  <2>1. UnderWay = queue
    BY <1>u, <1>2, <1>5, ConcatEmptySeq
  <2>2. \A i \in 1..(0 + e) : i \in 1..e /\ i - 0 = i
    BY <1>e
  <2>3. 0 + e = e
    BY <1>e
  <2> QED BY <1>2, <1>3, <1>5, <1>e, <2>1, <2>2, <2>3 DEF InPlaces
<1> QED BY <1>4, <1>5 DEF Handed

\* Nothing moves: a stutter of the queue.
LEMMA StutterStep ==
  ASSUME UNCHANGED qVars, Handed' = Handed, Handed = 1 => msg'[Server] = msg[Server]
  PROVE  UnderWay' = UnderWay
<1> DEFINE queue == [k \in 1..entries |-> ring[Slot(k - 1)]]
<1>1. queue' = queue
  BY DEF Slot, qVars
<1> HIDE DEF queue
<1>2. Handed = 1 <=> pc[Server] = "wait" /\ msg[Server] # None
  BY DEF Handed
<1>3. Handed' = 1 <=> pc'[Server] = "wait" /\ msg'[Server] # None
  BY DEF Handed
<1>4. UnderWay = (IF pc[Server] = "wait" /\ msg[Server] # None
                  THEN <<msg[Server]>> ELSE <<>>) \o queue
  BY DEF UnderWay, queue
<1>5. UnderWay' = (IF pc'[Server] = "wait" /\ msg'[Server] # None
                   THEN <<msg'[Server]>> ELSE <<>>) \o queue'
  BY DEF UnderWay, queue
<1>6. CASE Handed = 1
  BY <1>1, <1>2, <1>3, <1>4, <1>5, <1>6
<1>7. CASE Handed # 1
  BY <1>1, <1>2, <1>3, <1>4, <1>5, <1>7
<1> QED BY <1>6, <1>7

\* A message is taken out of the queue at its head.
LEMMA TakeStep ==
  ASSUME InPlaces, InPlaces', NEW e \in Nat, e = Handed + entries, e >= 1,
         Handed' + entries' = e - 1,
         \A i \in 1..(e - 1) : UnderWay'[i] = UnderWay[i + 1],
         got' = UnderWay[1]
  PROVE  Abstract!HandOver
<1>1. UnderWay \in Seq(Messages) /\ Len(UnderWay) = e
      /\ UnderWay' \in Seq(Messages) /\ Len(UnderWay') = e - 1
  BY DEF InPlaces
<1>2. UnderWay # <<>>
  BY <1>1, EmptySeq
<1>3. /\ Tail(UnderWay) \in Seq(Messages) /\ Len(Tail(UnderWay)) = e - 1
      /\ \A i \in 1..(e - 1) : Tail(UnderWay)[i] = UnderWay[i + 1]
  BY <1>1, <1>2, HeadTailProperties
<1>4. UnderWay' = Tail(UnderWay)
  BY <1>1, <1>3, SeqEqual
<1>5. got' = Head(UnderWay)
  BY <1>1, <1>2
<1> QED BY <1>2, <1>4, <1>5 DEF Abstract!HandOver

\* A message is accepted at its end.
LEMMA AcceptStep ==
  ASSUME InPlaces, InPlaces', NEW e \in Nat, e = Handed + entries, e <= Size,
         Handed' + entries' = e + 1, NEW m \in Messages,
         \A i \in 1..e : UnderWay'[i] = UnderWay[i],
         UnderWay'[e + 1] = m, got' = got
  PROVE  Abstract!Accept
<1>1. UnderWay \in Seq(Messages) /\ Len(UnderWay) = e
      /\ UnderWay' \in Seq(Messages) /\ Len(UnderWay') = e + 1
  BY DEF InPlaces
<1>2. /\ Append(UnderWay, m) \in Seq(Messages) /\ Len(Append(UnderWay, m)) = e + 1
      /\ \A i \in 1..e : Append(UnderWay, m)[i] = UnderWay[i]
      /\ Append(UnderWay, m)[e + 1] = m
  BY <1>1, AppendProperties
<1>3. \A i \in 1..(e + 1) : UnderWay'[i] = Append(UnderWay, m)[i]
  <2> SUFFICES ASSUME NEW i \in 1..(e + 1) PROVE UnderWay'[i] = Append(UnderWay, m)[i]
    OBVIOUS
  <2>1. CASE i = e + 1
    BY <1>2, <2>1
  <2>2. CASE i # e + 1
    <3>1. i \in 1..e
      BY <2>2
    <3> QED BY <1>2, <3>1
  <2> QED BY <2>1, <2>2
<1>4. UnderWay' = Append(UnderWay, m)
  BY <1>1, <1>2, <1>3, SeqEqual
<1>5. Len(UnderWay) < Size + 1
  BY <1>1, Constants
<1> QED BY <1>4, <1>5 DEF Abstract!Accept

\* A post that succeeds accepts its message.
LEMMA PostAccepts ==
  ASSUME IInv, InPlaces, InPlaces', NEW m \in Messages, NEW rdy, OSQPost(m, rdy),
         pc'[Server] = pc[Server], got' = got
  PROVE  Abstract!Accept
<1>0. TypeOK /\ ServerInv /\ Server \in Tasks
  BY Constants DEF IInv
<1>e. PICK e \in 0..Size : e = entries
  BY <1>0 DEF TypeOK
<1>1. CASE wait = {Server} /\ Rdy(Server, m, rdy) /\ UNCHANGED qVars
  <2>1. entries = 0 /\ entries' = 0 /\ pc[Server] = "wait" /\ msg[Server] = None
    BY <1>0, <1>1 DEF ServerInv, qVars
  <2>2. msg'[Server] = m /\ m # None
    BY <1>0, <1>1, Constants DEF Rdy, TypeOK
  <2>3. Handed = 0 /\ Handed' = 1
    BY <2>1, <2>2 DEF Handed
  <2>4. At(0)' = m
    BY <2>1, <2>2 DEF At, Hand
  <2>5. UnderWay'[1] = m
    BY <2>1, <2>3, <2>4 DEF InPlaces
  <2> QED BY <2>1, <2>3, <2>5, AcceptStep, Constants
<1>2. CASE /\ wait = {} /\ entries < Size
           /\ ring' = [ring EXCEPT ![in] = m]
           /\ in' = After(in) /\ entries' = entries + 1
           /\ ready' = rdy
           /\ UNCHANGED <<out, dly, stat, pend, msg>>
  <2>1. Handed' = Handed /\ Hand' = Hand
    BY <1>2 DEF Handed, Hand
  <2>2. \A k \in 0..Size : Slot(k)' = Slot(k)
    BY <1>2 DEF Slot
  <2>3. in = Slot(e) /\ in \in 0..(Size - 1) /\ out \in 0..(Size - 1) /\ e < Size
    BY <1>0, <1>2, <1>e DEF TypeOK
  <2>4. ASSUME NEW k \in 0..e PROVE At(k)' = At(k)
    <3>1. CASE k = 0
      BY <2>1, <3>1 DEF At
    <3>2. CASE k # 0
      <4>1. k - 1 \in 0..(Size - 1) /\ k - 1 # e /\ k - 1 \in 0..Size /\ e \in 0..(Size - 1)
        BY <2>3, <3>2, Constants
      <4>2. Slot(k - 1) # in /\ Slot(k - 1) \in 0..(Size - 1)
        BY <2>3, <4>1, Slots, Constants
      <4>3. ring'[Slot(k - 1)] = ring[Slot(k - 1)]
        BY <1>0, <1>2, <4>2 DEF TypeOK
      <4> QED BY <2>2, <3>2, <4>1, <4>3 DEF At
    <3> QED BY <3>1, <3>2
  <2>5. At(e + 1)' = m
    <3>1. e + 1 # 0 /\ (e + 1) - 1 = e
      BY Constants
    <3>2. ring'[in] = m
      BY <1>0, <1>2, <2>3 DEF TypeOK
    <3> QED BY <2>2, <2>3, <3>1, <3>2 DEF At
  <2>h. PICK h \in 0..1 : h = Handed
    BY DEF Handed
  <2>6. h + e \in Nat /\ h + e = Handed + entries /\ h + e <= Size
        /\ Handed' + entries' = h + e + 1
    BY <1>2, <1>e, <2>1, <2>3, <2>h, Constants
  <2>7. \A i \in 1..(h + e) : UnderWay'[i] = UnderWay[i]
    <3> SUFFICES ASSUME NEW i \in 1..(h + e) PROVE UnderWay'[i] = UnderWay[i]
      OBVIOUS
    <3>1. i - h \in 0..e /\ i \in 1..(h + e + 1)
      BY <1>e
    <3>2. UnderWay[i] = At(i - h)
      BY <2>h, <1>e DEF InPlaces
    <3>3. UnderWay'[i] = At(i - h)'
      BY <2>h, <2>1, <2>6, <3>1 DEF InPlaces
    <3> QED BY <2>4, <3>1, <3>2, <3>3
  <2>8. UnderWay'[h + e + 1] = m
    <3>1. h + e + 1 \in 1..(h + e + 1) /\ (h + e + 1) - h = e + 1
      BY <1>e
    <3>2. UnderWay'[h + e + 1] = At(e + 1)'
      BY <2>h, <2>1, <2>6, <3>1 DEF InPlaces
    <3> QED BY <2>5, <3>2
  <2> QED BY <2>6, <2>7, <2>8, AcceptStep
<1> QED BY <1>0, <1>1, <1>2, PostCases

\* A step of the mailbox is one of the queue, or none.
LEMMA QueueStep ==
  ASSUME IInv, InPlaces, InPlaces', Next
  PROVE  Abstract!Next \/ UNCHANGED <<UnderWay, got>>
<1>0. TypeOK /\ ServerInv /\ InputInv /\ CallerInv /\ Server \in Tasks
  BY Constants DEF IInv
<1>u. ASSUME UNCHANGED <<qVars, msg, got>>, pc'[Server] = pc[Server]
      PROVE  UNCHANGED <<UnderWay, got>>
  BY <1>u, StutterStep DEF Handed
<1>1. ASSUME NEW t \in Inputs, Frame(t) PROVE UNCHANGED <<UnderWay, got>>
  BY <1>0, <1>1, <1>u, Constants DEF Frame, TypeOK
<1>2. ASSUME NEW t \in Inputs, TryPost(t) PROVE Abstract!Accept \/ UNCHANGED <<UnderWay, got>>
  <2>1. pc'[Server] = pc[Server] /\ got' = got
    BY <1>0, <1>2, Constants DEF TryPost, TypeOK
  <2>2. CASE Full
    BY <1>2, <1>u, <2>1, <2>2 DEF TryPost
  <2>3. CASE ~Full
    <3>1. OSQPost(<<t, count[t]>>, ready \ {t})
      BY <1>2, <2>3 DEF TryPost
    <3>2. <<t, count[t]>> \in Messages
      <4>1. count[t] \in 1..MaxFrames
        BY <1>0, <1>2 DEF TryPost, InputInv
      <4> QED BY <4>1, Constants
    <3> QED BY <2>1, <3>1, <3>2, PostAccepts
  <2> QED BY <2>2, <2>3
<1>3. ASSUME NEW c \in Callers, Call(c) \/ CallStep(c)
      PROVE  Abstract!Accept \/ UNCHANGED <<UnderWay, got>>
  <2>1. pc'[Server] = pc[Server] /\ got' = got
    BY <1>0, <1>3, Constants DEF Call, CallStep, Post, SemPend, CallReturns, TypeOK
  <2>2. CASE UNCHANGED <<qVars, msg>>
    BY <1>u, <2>1, <2>2
  <2>3. CASE Post(c) /\ OSQPost(<<c, count[c]>>, ready)
    <3>1. <<c, count[c]>> \in Messages
      <4>1. count[c] \in 1..MaxCalls
        BY <1>0, <2>3 DEF Post, CallerInv, Calls
      <4> QED BY <4>1, Constants
    <3> QED BY <2>1, <2>3, <3>1, PostAccepts
  <2> QED BY <1>3, <2>2, <2>3 DEF Call, CallStep, Post, SemPend, CallReturns, tcbVars
<1>4. CASE Fetch
  <2>1. CASE entries > 0
    <3>e. PICK e \in 1..Size : e = entries
      BY <1>0, <2>1, Constants DEF TypeOK
    <3>1. Forward
      BY <1>0, <1>4, <2>1, ForwardPlaces
    <3>2. /\ pc[Server] = "fetch" /\ pc'[Server] = "serve" /\ got' = ring[out]
          /\ out \in 0..(Size - 1)
      BY <1>0, <1>4, <2>1 DEF Fetch, TypeOK
    <3>3. Handed = 0 /\ Handed' = 0
      BY <3>2 DEF Handed
    <3>4. entries' = e - 1 /\ \A i \in 0..(e - 1) : At(i)' = At(i + 1)
      BY <3>1, <3>e DEF Forward
    <3>5. \A i \in 1..e : UnderWay[i] = At(i)
      BY <3>3, <3>e DEF InPlaces
    <3>6. \A i \in 1..(e - 1) : UnderWay'[i] = At(i)'
      <4> SUFFICES ASSUME NEW i \in 1..(e - 1) PROVE UnderWay'[i] = At(i)'
        OBVIOUS
      <4>1. i - 0 = i
        OBVIOUS
      <4> QED BY <3>3, <3>4, <4>1 DEF InPlaces
    <3>7. \A i \in 1..(e - 1) : UnderWay'[i] = UnderWay[i + 1]
      <4> SUFFICES ASSUME NEW i \in 1..(e - 1) PROVE UnderWay'[i] = UnderWay[i + 1]
        OBVIOUS
      <4>1. i + 1 \in 1..e /\ i \in 0..(e - 1)
        OBVIOUS
      <4> QED BY <3>4, <3>5, <3>6, <4>1
    <3>8. got' = UnderWay[1]
      <4>1. At(1) = ring[out]
        BY <3>2, Slots, Constants DEF At
      <4> QED BY <3>2, <3>5, <4>1
    <3>9. e \in Nat /\ e >= 1 /\ e = Handed + entries /\ Handed' + entries' = e - 1
      BY <3>e, <3>3, <3>4
    <3> QED BY <3>7, <3>8, <3>9, TakeStep DEF Abstract!Next
  <2>2. CASE ~(entries > 0)
    <3>1. msg[Server] = None /\ msg' = msg /\ UNCHANGED <<qVars, got>>
      BY <1>0, <1>4, <2>2 DEF Fetch, ServerInv
    <3>2. Handed = 0 /\ Handed' = 0
      BY <3>1 DEF Handed
    <3> QED BY <3>1, <3>2, StutterStep
  <2> QED BY <2>1, <2>2
<1>5. CASE Woken /\ pend[Server] = "OK"
  <2>e. PICK e \in 0..Size : e = entries
    BY <1>0 DEF TypeOK
  <2>1. /\ pc[Server] = "wait" /\ pc'[Server] = "serve" /\ got' = msg[Server]
        /\ UNCHANGED qVars
    BY <1>0, <1>5 DEF Woken, TypeOK
  <2>2. msg[Server] \in Messages /\ msg[Server] # None
    BY <1>0, <1>5, <2>1, Constants DEF ServerInv, Woken, Runs
  <2>3. Handed = 1 /\ Handed' = 0 /\ entries' = e
    BY <2>1, <2>2, <2>e DEF Handed, qVars
  <2>4. \A k \in 1..e : At(k)' = At(k)
    BY <2>1 DEF At, Slot, qVars
  <2>5. \A i \in 1..e : UnderWay'[i] = UnderWay[i + 1]
    <3> SUFFICES ASSUME NEW i \in 1..e PROVE UnderWay'[i] = UnderWay[i + 1]
      OBVIOUS
    <3>1. i - 0 = i /\ (i + 1) - 1 = i /\ i + 1 \in 1..(1 + e) /\ i \in 1..(0 + e)
      BY <2>e
    <3>2. UnderWay'[i] = At(i)'
      BY <2>3, <3>1 DEF InPlaces
    <3>3. UnderWay[i + 1] = At(i)
      BY <2>3, <2>e, <3>1 DEF InPlaces
    <3> QED BY <2>4, <3>2, <3>3
  <2>6. got' = UnderWay[1]
    <3>1. At(0) = msg[Server]
      BY <2>1 DEF At, Hand
    <3>2. 1 \in 1..(1 + e) /\ 1 - 1 = 0
      BY <2>e
    <3> QED BY <2>1, <2>3, <2>e, <3>1, <3>2 DEF InPlaces
  <2>7. /\ 1 + e \in Nat /\ 1 + e >= 1 /\ 1 + e = Handed + entries
        /\ Handed' + entries' = (1 + e) - 1 /\ (1 + e) - 1 = e
    BY <2>e, <2>3
  <2> QED BY <2>5, <2>6, <2>7, TakeStep DEF Abstract!Next
<1>6. CASE Woken /\ pend[Server] # "OK"
  <2>1. msg[Server] = None /\ msg'[Server] = None /\ UNCHANGED <<qVars, got>>
    BY <1>0, <1>6 DEF Woken, ServerInv, TypeOK
  <2>2. Handed = 0 /\ Handed' = 0
    BY <2>1 DEF Handed
  <2> QED BY <2>1, <2>2, StutterStep
<1>7. CASE Stall \/ Serve
  <2>1. /\ pc[Server] # "wait" /\ pc'[Server] # "wait" /\ UNCHANGED <<qVars, got>>
    BY <1>0, <1>7 DEF Stall, Serve, TypeOK
  <2>2. Handed = 0 /\ Handed' = 0
    BY <2>1 DEF Handed
  <2> QED BY <2>1, <2>2, StutterStep
<1>8. CASE Tick
  BY <1>8, <1>u DEF Tick
<1> QED BY <1>1, <1>2, <1>3, <1>4, <1>5, <1>6, <1>7, <1>8
  DEF Next, ServerStep, CallStep, Abstract!Next

\* The mailbox implements a first-in first-out queue: OSQPost accepts
\* (os_q.c:599-637), OSQPend returns each message once and in order
\* (os_q.c:441-487), for any tasks, priorities, sizes and timeouts.
THEOREM FifoProved == Spec => IsFifo
<1>1. Init => Abstract!Init
  <2> SUFFICES ASSUME Init PROVE UnderWay = <<>> /\ got = None
    BY DEF Abstract!Init
  <2>1. InPlaces
    BY InitIInv, UnderWayIs
  <2>2. Handed = 0 /\ entries = 0 /\ got = None
    BY Constants DEF Init, Handed
  <2>3. UnderWay \in Seq(Messages) /\ Len(UnderWay) = 0
    BY <2>1, <2>2 DEF InPlaces
  <2> QED BY <2>2, <2>3, EmptySeq
<1>2. ASSUME IInv, InPlaces, InPlaces', [Next]_vars
      PROVE  [Abstract!Next]_<<UnderWay, got>>
  <2>1. CASE Next
    BY <1>2, <2>1, QueueStep
  <2>2. CASE UNCHANGED vars
    BY <2>2, StutterStep DEF vars, tcbVars, Handed
  <2> QED BY <1>2, <2>1, <2>2
<1> QED BY Inductive, UnderWayIs, <1>1, <1>2, PTL DEF Spec, IsFifo, Abstract!Spec
===========================================================================
