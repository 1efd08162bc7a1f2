----------------------------- MODULE RtuClient -----------------------------
(***************************************************************************)
(* The Modbus-RTU side of the board (IAR/First_UCOS/APP/RtuClient.c).      *)
(*                                                                         *)
(* AppTaskRtuClient polls the two slaves of the RS-485 bus in turn: it     *)
(* raises the direction pin, sends a request, lowers the pin and sleeps.   *)
(* BSP_IntHandlerUSART1 runs once for every received byte and collects a   *)
(* response in rx_buf with a byte-wide index and a byte-wide countdown.    *)
(* The handler may interrupt the task between any two of its statements.   *)
(*                                                                         *)
(* The byte it collects is read from the data register of USART2 (line     *)
(* 132), not from the bus whose interrupt it serves, and no byte is checked*)
(* against the outstanding request: `temp' is an arbitrary byte.           *)
(*                                                                         *)
(* Payload bytes are abstracted: of rx_buf the model keeps which cells     *)
(* hold a stored byte (`stored') and, for a store behind the end of the    *)
(* array, that it happened (`stray').                                      *)
(***************************************************************************)
EXTENDS Integers

CONSTANTS
    Bytes,        \* the byte values the receiver may read
    RX_BUF_SIZE   \* the size of rx_buf: 50 in the code

ASSUME RtuAssumption ==
    /\ Bytes \subseteq 0..255
    /\ RX_BUF_SIZE \in 3..252

VARIABLES
    rx_state,     \* "OUT" between responses, "IN" inside one
    i,            \* uint8_t: index of the next byte of the response
    len,          \* uint8_t: payload bytes still expected
    rx_len,       \* uint8_t: payload length announced by the response
    stored,       \* cells of rx_buf that hold a byte since the last memset
    stray,        \* "some": a byte was stored at or behind rx_buf[RX_BUF_SIZE]
    task,         \* AppTaskRtuClient: "dly" sleeps, "send" in USART_send at
                  \* the head of its loop, "tc" in it waiting for the TC flag
    node,         \* the slave the task addresses next
    left,         \* bytes of the request USART_send has still to write
    tx,           \* hardware: "shift" while a byte leaves USART1 (TC clear)
    dir           \* GPIOA pin 8: "drive" the bus or "listen"

isrVars == <<rx_state, i, len, rx_len, stored, stray>>
taskVars == <<task, node, left, tx, dir>>
vars == <<rx_state, i, len, rx_len, stored, stray, task, node, left, tx, dir>>

Slaves == {1, 2}

\* `x + 1' of a uint8_t.
Inc8(x) == IF x = 255 THEN 0 ELSE x + 1

\* Length of the request rtu_getCoilStatus builds.
RequestLength == 8

\* Function codes the handler lets through; the first byte of a response.
FunctionCodes == 1..6
OwnSlave == 1

Init ==
    /\ rx_state = "OUT"
    /\ i = 0
    /\ len = 0
    /\ rx_len = 0
    /\ stored = {}
    /\ stray = "none"
    /\ task = "dly"
    /\ node = 1
    /\ left = 0
    /\ tx = "idle"
    /\ dir = "listen"

-----------------------------------------------------------------------------
(* BSP_IntHandlerUSART1, one case of its switch per operator.              *)

\* rx_buf[k] = temp
Store(k) ==
    /\ stored' = IF k < RX_BUF_SIZE THEN stored \cup {k} ELSE stored
    /\ stray' = IF k >= RX_BUF_SIZE THEN "some" ELSE stray

\* Mutant: the index is not reset.
AbandonKeepsIndex ==
    /\ rx_state' = "OUT"
    /\ len' = 0
    /\ UNCHANGED <<i, rx_len, stored, stray>>

\* The response is abandoned: back to OUT, rx_buf and rx_len as they are.
Abandon ==
    /\ rx_state' = "OUT"
    /\ i' = 0
    /\ len' = 0
    /\ UNCHANGED <<rx_len, stored, stray>>

\* case OUT: a response of slave 1 opens; anything else is skipped.
RxAddress(temp) ==
    /\ rx_state = "OUT"
    /\ \/ /\ temp = OwnSlave
          /\ rx_state' = "IN"
          /\ Store(0)
          /\ i' = Inc8(i)
       \/ /\ temp # OwnSlave
          /\ i' = 0
          /\ UNCHANGED <<rx_state, stored, stray>>
    /\ UNCHANGED <<len, rx_len>>

\* case IN, i == 1
RxFunction(temp) ==
    /\ rx_state = "IN"
    /\ i = 1
    /\ \/ /\ temp \in FunctionCodes
          /\ Store(1)
          /\ i' = Inc8(i)
          /\ UNCHANGED <<rx_state, len, rx_len>>
       \/ /\ temp \notin FunctionCodes
          /\ Abandon

\* Mutant: the count byte is stored as the length of the frame, the countdown
\* still runs over the payload and the check bytes.
RxCountIsFrameLength(temp) ==
    /\ rx_state = "IN"
    /\ i = 2
    /\ \/ /\ temp # 0
          /\ len' = Inc8(Inc8(temp))
          /\ rx_len' = temp
          /\ Store(2)
          /\ i' = Inc8(i)
          /\ UNCHANGED rx_state
       \/ /\ temp = 0
          /\ Abandon

\* case IN, i == 2
RxCount(temp) ==
    /\ rx_state = "IN"
    /\ i = 2
    /\ \/ /\ temp # 0
          /\ len' = temp
          /\ rx_len' = temp
          /\ Store(2)
          /\ i' = Inc8(i)
          /\ UNCHANGED rx_state
       \/ /\ temp = 0
          /\ Abandon

\* Mutants: the end of a response forgets the memset, or the reset.
RxPayloadNoMemset ==
    /\ rx_state = "IN"
    /\ i \notin {1, 2}
    /\ Store(i)
    /\ IF len <= 1
       THEN rx_state' = "OUT" /\ i' = 0 /\ len' = 0 /\ rx_len' = 0
       ELSE i' = Inc8(i) /\ len' = len - 1 /\ UNCHANGED <<rx_state, rx_len>>

RxPayloadNoReset ==
    /\ rx_state = "IN"
    /\ i \notin {1, 2}
    /\ Store(i)
    /\ i' = Inc8(i)
    /\ len' = IF len = 0 THEN 0 ELSE len - 1
    /\ UNCHANGED <<rx_state, rx_len>>

\* case IN, payload: store, count down, and at the end clear everything.
RxPayload ==
    /\ rx_state = "IN"
    /\ i \notin {1, 2}
    /\ LET rest == IF len # 0 THEN len - 1 ELSE 0
       IN IF rest = 0
          THEN /\ rx_state' = "OUT"
               /\ i' = 0
               /\ len' = 0
               /\ rx_len' = 0
               /\ stored' = {}
               /\ stray' = IF len # 0 /\ i >= RX_BUF_SIZE THEN "some" ELSE stray
          ELSE /\ Store(i)
               /\ i' = Inc8(i)
               /\ len' = rest
               /\ UNCHANGED <<rx_state, rx_len>>

\* RXNE of USART1 is set: the handler runs to its end on one byte.
BSP_IntHandlerUSART1(temp) ==
    /\ \/ RxAddress(temp)
       \/ RxFunction(temp)
       \/ RxCount(temp)
       \/ RxPayload
    /\ UNCHANGED taskVars

-----------------------------------------------------------------------------
(* AppTaskRtuClient                                                        *)

\* The delay is over: GPIO_SetBits, rtu_getCoilStatus, USART_send is entered.
TaskDrive ==
    /\ task = "dly"
    /\ dir' = "drive"
    /\ left' = RequestLength
    /\ task' = "send"
    /\ UNCHANGED <<isrVars, node, tx>>

\* USART_send: while (len--) USART_SendData, which clears TC
SendData ==
    /\ task = "send"
    /\ left # 0
    /\ left' = left - 1
    /\ tx' = "shift"
    /\ task' = "tc"
    /\ UNCHANGED <<isrVars, node, dir>>

\* Mutant: the wait is for TXE, which is set while the byte is shifted out.
WaitTXE ==
    /\ task = "tc"
    /\ task' = "send"
    /\ UNCHANGED <<isrVars, node, left, tx, dir>>

\* ... and the wait for TC behind every byte.
WaitTC ==
    /\ task = "tc"
    /\ tx = "idle"
    /\ task' = "send"
    /\ UNCHANGED <<isrVars, node, left, tx, dir>>

\* USART_send returns: GPIO_ResetBits, then OSTimeDlyHMSM until it is the
\* other slave's turn.
TaskRelease ==
    /\ task = "send"
    /\ left = 0
    /\ dir' = "listen"
    /\ node' = 3 - node
    /\ task' = "dly"
    /\ UNCHANGED <<isrVars, left, tx>>

\* Hardware: the last bit of the byte has left the shift register.
ShiftedOut ==
    /\ tx = "shift"
    /\ tx' = "idle"
    /\ UNCHANGED <<isrVars, task, node, left, dir>>

AppTaskRtuClient == TaskDrive \/ SendData \/ WaitTC \/ TaskRelease

Next ==
    \/ \E temp \in Bytes : BSP_IntHandlerUSART1(temp)
    \/ AppTaskRtuClient
    \/ ShiftedOut

\* The kernel keeps running the task and the UART keeps its clock. Bytes
\* arrive as the wire brings them: liveness of the receiver assumes a wire
\* that does not fall silent for ever.
Fairness ==
    /\ WF_vars(AppTaskRtuClient)
    /\ WF_vars(ShiftedOut)
    /\ WF_vars(\E temp \in Bytes : BSP_IntHandlerUSART1(temp))

Spec == Init /\ [][Next]_vars
FairSpec == Spec /\ Fairness

-----------------------------------------------------------------------------
(* Properties                                                              *)

\* Every variable stays in its C type.
TypeOK ==
    /\ rx_state \in {"OUT", "IN"}
    /\ i \in 0..255
    /\ len \in 0..255
    /\ rx_len \in 0..255
    /\ stored \in SUBSET (0..RX_BUF_SIZE - 1)
    /\ stray \in {"none", "some"}
    /\ task \in {"dly", "send", "tc"}
    /\ node \in Slaves
    /\ left \in 0..RequestLength
    /\ tx \in {"idle", "shift"}
    /\ dir \in {"drive", "listen"}

\* The index and the countdown agree: between responses both are at rest, and
\* inside a payload the bytes taken and the bytes still expected add up to
\* the announced length (RtuClient.c:192-206).
CountdownOK ==
    /\ rx_state = "OUT" => i = 0 /\ len = 0
    /\ rx_state = "IN" /\ i >= 3 => len # 0 /\ i + len = 3 + rx_len

\* Between responses no payload byte of an earlier response is left in
\* rx_buf (the memset of line 201): only the two header cells of an abandoned
\* response may be set. A response that announces 255 bytes escapes this,
\* because its last bytes are taken for a header (see IndexWraps).
NoStalePayload ==
    rx_state = "OUT" /\ rx_len # 255 => stored \subseteq {0, 1}

\* A store behind the end of rx_buf needs a response that announced more
\* bytes than the array has room for behind the header (RtuClient.c:194 does
\* not check the index against the size of rx_buf).
StrayOnlyFromLongCount ==
    [][stray' # stray => rx_len > RX_BUF_SIZE - 3]_vars

\* The index runs over its 8 bits inside a response, so that payload bytes
\* are taken for a header, only when at least 254 bytes were announced.
IndexWraps ==
    rx_state = "IN" /\ (i = 0 \/ (i \in {1, 2} /\ len # 0)) => rx_len >= 254

\* What the receiver's bookkeeping comes to, for any stream of bytes: types,
\* index against countdown, and where the index can wrap.
ReceiverInv == TypeOK /\ CountdownOK /\ IndexWraps

\* As long as bytes arrive every response comes to an end, so that the
\* receiver is ready for the next address byte again. One that announces 255
\* bytes is excepted: its index wraps (see IndexWraps).
EveryResponseEnds == rx_state = "IN" ~> (rx_state = "OUT" \/ rx_len = 255)

\* The transceiver drives the bus until the last bit of the request is out:
\* AppTaskRtuClient lowers the direction pin right behind USART_send, so
\* USART_send must not return with a byte in the shift register (bsp.c:465).
DrivenWhileShifting == tx = "shift" => dir = "drive"

=============================================================================
