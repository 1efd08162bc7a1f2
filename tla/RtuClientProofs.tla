-------------------------- MODULE RtuClientProofs --------------------------
(***************************************************************************)
(* The receiver of RtuClient for every set of byte values and every array  *)
(* size. None of the properties is inductive alone: what the receiver      *)
(* does after its 8-bit index has wrapped depends on how it got there.     *)
(* RxInv adds the two facts that describe the wrapped states, and WipeInv  *)
(* carries NoStalePayload through the header states.                       *)
(***************************************************************************)
EXTENDS RtuClient, TLAPS

\* The wrapped states: the index is 0 inside a response only for 254 or 255
\* announced bytes, and a countdown is running in the header only for 255.
RxInv ==
    /\ CountdownOK
    /\ rx_state = "IN" /\ i = 0 => rx_len \in {254, 255} /\ len = rx_len - 253
    /\ rx_state = "IN" /\ i \in {1, 2} /\ len # 0 => rx_len = 255 /\ len = 1

\* rx_buf holds header cells only, between responses and inside a header.
WipeInv ==
    (rx_state = "OUT" \/ i \in {1, 2}) /\ rx_len # 255 => stored \subseteq {0, 1}

IInv == TypeOK /\ RxInv /\ WipeInv

\* Nothing is received yet.
LEMMA InitIInv == Init => IInv
  BY RtuAssumption
  DEF Init, IInv, TypeOK, RxInv, CountdownOK, WipeInv, Slaves, RequestLength

\* What a store does, wherever it lands.
LEMMA StoreType ==
  ASSUME TypeOK, NEW k \in 0..255, Store(k)
  PROVE  /\ stored' \in SUBSET (0..RX_BUF_SIZE - 1)
         /\ stray' \in {"none", "some"}
<1>1. stray' \in {"none", "some"}
  BY DEF Store, TypeOK
<1>2. CASE k < RX_BUF_SIZE
  BY <1>1, <1>2, RtuAssumption DEF Store, TypeOK
<1>3. CASE ~(k < RX_BUF_SIZE)
  BY <1>1, <1>3, RtuAssumption DEF Store, TypeOK
<1>4. QED
  BY <1>2, <1>3

\* The outcomes of one run of the handler.
Opened ==
    /\ rx_state = "OUT" /\ rx_state' = "IN"
    /\ Store(0) /\ i' = Inc8(i)
    /\ UNCHANGED <<len, rx_len>>
Skipped ==
    /\ rx_state = "OUT" /\ i' = 0
    /\ UNCHANGED <<rx_state, len, rx_len, stored, stray>>
TookFunction ==
    /\ rx_state = "IN" /\ i = 1 /\ i' = 2
    /\ Store(1)
    /\ UNCHANGED <<rx_state, len, rx_len>>
TookCount(temp) ==
    /\ rx_state = "IN" /\ i = 2 /\ i' = 3 /\ temp # 0
    /\ len' = temp /\ rx_len' = temp
    /\ Store(2)
    /\ UNCHANGED rx_state
GaveUp ==
    /\ rx_state = "IN" /\ i \in {1, 2}
    /\ Abandon
Finished ==
    /\ rx_state = "IN" /\ i \notin {1, 2} /\ len \in {0, 1}
    /\ rx_state' = "OUT" /\ i' = 0 /\ len' = 0 /\ rx_len' = 0 /\ stored' = {}
    /\ stray' = IF len # 0 /\ i >= RX_BUF_SIZE THEN "some" ELSE stray
TookPayload ==
    /\ rx_state = "IN" /\ i \notin {1, 2} /\ len \notin {0, 1}
    /\ Store(i) /\ i' = Inc8(i) /\ len' = len - 1
    /\ UNCHANGED <<rx_state, rx_len>>

HandlerStep ==
    \/ \E temp \in Bytes : TookCount(temp)
    \/ Opened \/ Skipped \/ TookFunction \/ GaveUp \/ Finished \/ TookPayload

\* The branches of the receive handler have six outcomes.
LEMMA Outcomes ==
  ASSUME TypeOK, NEW temp \in Bytes, BSP_IntHandlerUSART1(temp)
  PROVE  HandlerStep
<1>1. CASE RxAddress(temp)
  BY <1>1 DEF RxAddress, HandlerStep, Opened, Skipped
<1>2. CASE RxFunction(temp)
  BY <1>2 DEF RxFunction, HandlerStep, TookFunction, GaveUp, Inc8
<1>3. CASE RxCount(temp)
  BY <1>3 DEF RxCount, HandlerStep, TookCount, GaveUp, Inc8
<1>4. CASE RxPayload
  <2>1. CASE len \in {0, 1}
    BY <1>4, <2>1 DEF RxPayload, HandlerStep, Finished
  <2>2. CASE len \notin {0, 1}
    BY <1>4, <2>2 DEF RxPayload, HandlerStep, TookPayload, TypeOK
  <2>3. QED
    BY <2>1, <2>2
<1>5. QED
  BY <1>1, <1>2, <1>3, <1>4 DEF BSP_IntHandlerUSART1

\* The receiver's part of the type invariant.
RxTypeOK ==
    /\ rx_state \in {"OUT", "IN"}
    /\ i \in 0..255 /\ len \in 0..255 /\ rx_len \in 0..255
    /\ stored \in SUBSET (0..RX_BUF_SIZE - 1)
    /\ stray \in {"none", "some"}

\* Each outcome keeps the types.
LEMMA HandlerType == TypeOK /\ HandlerStep => RxTypeOK'
<1> SUFFICES ASSUME TypeOK, HandlerStep PROVE RxTypeOK'
  OBVIOUS
<1>1. CASE Opened
  BY <1>1, StoreType DEF Opened, Inc8, TypeOK, RxTypeOK
<1>2. ASSUME NEW temp \in Bytes, TookCount(temp) PROVE RxTypeOK'
  <2>1. temp \in 0..255
    BY RtuAssumption
  <2>2. QED
    BY <1>2, <2>1, StoreType DEF TookCount, TypeOK, RxTypeOK
<1>3. CASE Skipped
  BY <1>3 DEF Skipped, TypeOK, RxTypeOK
<1>4. CASE TookFunction
  BY <1>4, StoreType DEF TookFunction, TypeOK, RxTypeOK
<1>5. CASE GaveUp
  BY <1>5 DEF GaveUp, Abandon, TypeOK, RxTypeOK
<1>6. CASE Finished
  BY <1>6 DEF Finished, TypeOK, RxTypeOK
<1>7. CASE TookPayload
  BY <1>7, StoreType DEF TookPayload, Inc8, TypeOK, RxTypeOK
<1>8. QED
  BY <1>1, <1>2, <1>3, <1>4, <1>5, <1>6, <1>7 DEF HandlerStep

\* The type invariant is inductive by itself: the index wraps, the countdown
\* stops at zero, and a store outside rx_buf is recorded in `stray'.
LEMMA TypeStep == TypeOK /\ [Next]_vars => TypeOK'
<1> SUFFICES ASSUME TypeOK, [Next]_vars PROVE TypeOK'
  OBVIOUS
<1> USE DEF TypeOK, taskVars, isrVars, Slaves, RequestLength
<1>1. ASSUME NEW temp \in Bytes, BSP_IntHandlerUSART1(temp)
      PROVE  TypeOK'
  <2>1. RxTypeOK' /\ UNCHANGED taskVars
    BY <1>1, Outcomes, HandlerType DEF BSP_IntHandlerUSART1
  <2>2. QED
    BY <2>1 DEF RxTypeOK
<1>5. CASE TaskDrive
  BY <1>5 DEF TaskDrive
<1>6. CASE SendData
  BY <1>6 DEF SendData
<1>7. CASE WaitTC
  BY <1>7 DEF WaitTC
<1>8. CASE TaskRelease
  BY <1>8 DEF TaskRelease
<1>9. CASE ShiftedOut
  BY <1>9 DEF ShiftedOut
<1>10. CASE UNCHANGED vars
  BY <1>10 DEF vars
<1>11. QED
  BY <1>1, <1>5, <1>6, <1>7, <1>8, <1>9, <1>10 DEF Next, AppTaskRtuClient

\* A step that is not the handler's leaves the receiver alone.
LEMMA OnlyTheHandler ==
  ASSUME TypeOK, [Next]_vars
  PROVE  HandlerStep \/ UNCHANGED isrVars
<1>1. CASE \E temp \in Bytes : BSP_IntHandlerUSART1(temp)
  BY <1>1, Outcomes
<1>2. CASE ~ \E temp \in Bytes : BSP_IntHandlerUSART1(temp)
  BY <1>2 DEF Next, AppTaskRtuClient, TaskDrive, SendData, WaitTC, TaskRelease,
              ShiftedOut, vars, isrVars
<1>3. QED
  BY <1>1, <1>2

\* Every step keeps what is said of index, countdown and array.
LEMMA RxStep == IInv /\ [Next]_vars => (RxInv /\ WipeInv)'
<1> SUFFICES ASSUME IInv, [Next]_vars PROVE RxInv' /\ WipeInv'
  OBVIOUS
<1> USE DEF IInv, TypeOK, RxInv, CountdownOK, WipeInv
<1>1. CASE Opened
  BY <1>1, RtuAssumption DEF Opened, Store, Inc8
<1>2. ASSUME NEW temp \in Bytes, TookCount(temp) PROVE RxInv' /\ WipeInv'
  <2>1. temp \in 0..255
    BY RtuAssumption
  <2>2. QED
    BY <1>2, <2>1 DEF TookCount
<1>3. CASE Skipped
  BY <1>3 DEF Skipped
<1>4. CASE TookFunction
  BY <1>4, RtuAssumption DEF TookFunction, Store
<1>5. CASE GaveUp
  BY <1>5 DEF GaveUp, Abandon
<1>6. CASE Finished
  BY <1>6 DEF Finished
<1>7. CASE TookPayload
  BY <1>7 DEF TookPayload, Inc8
<1>8. CASE UNCHANGED isrVars
  BY <1>8 DEF isrVars
<1>9. QED
  BY <1>1, <1>2, <1>3, <1>4, <1>5, <1>6, <1>7, <1>8, OnlyTheHandler
  DEF HandlerStep

\* The invariant holds in every state of the specification.
LEMMA Inductive == Spec => []IInv
<1>1. IInv /\ [Next]_vars => IInv'
  BY TypeStep, RxStep DEF IInv
<1>2. QED
  BY InitIInv, <1>1, PTL DEF Spec

\* For any stream of bytes the receiver of RtuClient.c keeps its variables in
\* their C types, index, countdown and announced length agree, and a header is
\* read with a countdown running only behind 254 or more bytes.
THEOREM ReceiverSound == Spec => []ReceiverInv
<1>1. IInv => ReceiverInv
  BY DEF IInv, RxInv, ReceiverInv, IndexWraps
<1>2. QED
  BY Inductive, <1>1, PTL

\* No payload byte of an earlier response is left between responses.
THEOREM StalePayload == Spec => []NoStalePayload
<1>1. IInv => NoStalePayload
  BY DEF IInv, WipeInv, NoStalePayload
<1>2. QED
  BY Inductive, <1>1, PTL

\* A store behind rx_buf is preceded by a byte count that does not fit.
THEOREM StrayStores == Spec => StrayOnlyFromLongCount
<1>1. IInv /\ [Next]_vars => [stray' # stray => rx_len > RX_BUF_SIZE - 3]_vars
  <2> SUFFICES ASSUME IInv, [Next]_vars, stray' # stray
               PROVE  rx_len > RX_BUF_SIZE - 3
    OBVIOUS
  <2>1. CASE Finished \/ TookPayload
    <3>1. rx_state = "IN" /\ len # 0 /\ i >= RX_BUF_SIZE
      BY <2>1 DEF Finished, TookPayload, Store
    <3>2. QED
      BY <3>1, RtuAssumption DEF IInv, TypeOK, RxInv, CountdownOK
  <2>2. CASE ~(Finished \/ TookPayload)
    BY <2>2, OnlyTheHandler, RtuAssumption
    DEF IInv, HandlerStep, Opened, Skipped, TookFunction, TookCount, GaveUp,
        Abandon, Store, isrVars
  <2>3. QED
    BY <2>1, <2>2
<1>2. QED
  BY Inductive, <1>1, PTL DEF Spec, StrayOnlyFromLongCount

\* The direction pin and the program counter of the task go together.
SendInv ==
    /\ dir = "drive" <=> task # "dly"
    /\ tx = "shift" => task = "tc"

\* The direction pin is never lowered while USART1 still shifts a byte out.
THEOREM Driven == Spec => []DrivenWhileShifting
<1>1. Init => SendInv
  BY DEF Init, SendInv
<1>2. SendInv /\ [Next]_vars => SendInv'
  <2> SUFFICES ASSUME SendInv, [Next]_vars PROVE SendInv'
    OBVIOUS
  <2> USE DEF SendInv
  <2>1. ASSUME NEW temp \in Bytes, BSP_IntHandlerUSART1(temp) PROVE SendInv'
    BY <2>1 DEF BSP_IntHandlerUSART1, taskVars
  <2>2. CASE TaskDrive
    BY <2>2 DEF TaskDrive
  <2>3. CASE SendData
    BY <2>3 DEF SendData
  <2>4. CASE WaitTC
    BY <2>4 DEF WaitTC
  <2>5. CASE TaskRelease
    BY <2>5 DEF TaskRelease
  <2>6. CASE ShiftedOut
    BY <2>6 DEF ShiftedOut
  <2>7. CASE UNCHANGED vars
    BY <2>7 DEF vars
  <2>8. QED
    BY <2>1, <2>2, <2>3, <2>4, <2>5, <2>6, <2>7 DEF Next, AppTaskRtuClient
<1>3. SendInv => DrivenWhileShifting
  BY DEF SendInv, DrivenWhileShifting
<1>4. QED
  BY <1>1, <1>2, <1>3, PTL DEF Spec
=============================================================================
