------------------------------ MODULE Modbus ------------------------------
(***************************************************************************)
(* One Modbus exchange after the other: the request builders, the check    *)
(* and analysis of a reply, and the loop of tcp_recv_callback that looks   *)
(* for the end of a reply (modbus_rtu_master.c, modbus_tcp_master.c,       *)
(* TcpClient.c).                                                           *)
(*                                                                         *)
(* Frames are the bytes on the wire. The device is external: it reads the  *)
(* request by the protocol's own definition, answers from its coils and    *)
(* registers, and may answer with an exception. A reply on the serial line *)
(* may have one byte damaged. A reply over TCP comes in one or two pbufs,  *)
(* in one or two calls of tcp_recv_callback; behind the data of a pbuf     *)
(* there is memory the loop may read.                                      *)
(***************************************************************************)
EXTENDS CrcTables, SequencesExt

CONSTANTS
    Requests,         \* what is asked: [port, addr, fc, start, arg]
    Coil(_),          \* the device's coils and inputs
    Reg(_),           \* its registers
    Flips,            \* what a damaged byte is xored with
    Cuts,             \* the lengths a reply over TCP is cut at
    Slack,            \* values of the bytes behind the data of a pbuf
    Dest,             \* data_start_address of the analysis
    MAX_BUFF_SIZE,
    MaxExchanges      \* bound: exchanges in a behaviour

ASSUME ModbusAssumption ==
    /\ Flips \subseteq Byte \ {0}
    /\ Slack \subseteq Byte
    /\ Cuts \subseteq Nat \ {0}
    /\ {Dest, MAX_BUFF_SIZE, MaxExchanges} \subseteq Nat

VARIABLES
    phase,     \* idle, request, reply, scan, scanned, analyse or analysed
    ask,       \* the request being made
    frm,       \* the frame on the wire
    heard,     \* what the device understood
    damaged,   \* a byte of the reply was damaged
    dest,      \* the cells the analysis has written
    tmp1,      \* its loop counter, an unsigned char
    rc,        \* its result
    calls,     \* the calls of tcp_recv_callback to come, each a chain of pbufs
    i,         \* the loop index of the scan, a uint8_t
    done,      \* the end of the reply was seen
    bytes,     \* RxBuffer->bytes, up to RxBuffer->length
    want,      \* bytes before the call, and all the data it came with
    whole,     \* the call came with a whole reply in one pbuf
    count      \* exchanges begun

vars == <<phase, ask, frm, heard, damaged, dest, tmp1, rc, calls, i, done, bytes, want, whole, count>>
anVars == <<dest, tmp1, rc>>
scanVars == <<calls, i, done, bytes>>
histVars == <<want, whole>>

---------------------------------------------------------------------------
(* The request builders.                                                   *)

READ_COIL == 1
READ_DI == 2
READ_HLD_REG == 3
READ_AI == 4
SET_COIL == 5
SET_HLD_REG == 6

Bits == {READ_COIL, READ_DI}
Words == {READ_HLD_REG, READ_AI}

HI(data) == (data \div 256) % 256
LOW(data) == data % 256

\* Mutant of crc: starts with zero
CrcFromZero(msg) ==
    LET Next2(c, b) ==
            LET u == (c \div 256) ^^ b
            IN  ((c % 256) ^^ auchCRCHi[u + 1]) * 256 + auchCRCLo[u + 1]
    IN  FoldLeft(Next2, 0, msg)

\* crc: the register's first byte is the high one of the result
crc(msg) ==
    LET Next2(c, b) ==
            LET u == (c \div 256) ^^ b
            IN  ((c % 256) ^^ auchCRCHi[u + 1]) * 256 + auchCRCLo[u + 1]
    IN  FoldLeft(Next2, 65535, msg)

\* construct_rtu_frm
construct_rtu_frm(src) == src \o <<HI(crc(src)), LOW(crc(src))>>

\* rtu_getCoilStatus ... rtu_setHoldingRegister: the argument is a number of
\* coils or registers, a state or a value
RtuRequest(r) ==
    LET arg == IF r.fc = SET_COIL THEN (IF r.arg # 0 THEN 65280 ELSE 0) ELSE r.arg
    IN  construct_rtu_frm(<<r.addr, r.fc, HI(r.start), LOW(r.start), HI(arg), LOW(arg)>>)

\* tcp_getCoilStatus ... tcp_setHoldingRegister: a coil is closed with 00CC and
\* opened with 00AA
TcpRequest(r) ==
    LET arg == IF r.fc = SET_COIL THEN (IF r.arg # 0 THEN 204 ELSE 170) ELSE r.arg
    IN  <<0, 0, 0, 0, 0, 6, r.addr, r.fc, HI(r.start), LOW(r.start), HI(arg), LOW(arg)>>

---------------------------------------------------------------------------
(* The device (external).                                                  *)

\* The check of a frame, by the definition: shift the bytes through, low bit first
CheckBytes(msg) ==
    LET reg == FoldLeft(LAMBDA c, b : ShiftedOut(c ^^ b), 65535, msg)
    IN  <<reg % 256, reg \div 256>>

Rejected == [port |-> "none", addr |-> 0, fc |-> 0, start |-> 0, arg |-> 0]

\* What the device reads in the six bytes of a request: over either port a coil
\* is closed with FF00 and opened with 0000, and another word is rejected
Understood(port, pdu) ==
    LET word == 256 * pdu[5] + pdu[6]
    IN  IF pdu[2] = SET_COIL /\ word \notin {65280, 0} THEN Rejected
        ELSE [port |-> port, addr |-> pdu[1], fc |-> pdu[2],
              start |-> 256 * pdu[3] + pdu[4],
              arg |-> IF pdu[2] = SET_COIL THEN word \div 65280 ELSE word]

Decode(port, f) ==
    IF port = "rtu"
    THEN IF SubSeq(f, 7, 8) = CheckBytes(SubSeq(f, 1, 6))
         THEN Understood("rtu", SubSeq(f, 1, 6)) ELSE Rejected
    ELSE IF SubSeq(f, 1, 6) = <<0, 0, 0, 0, 0, 6>>
         THEN Understood("tcp", SubSeq(f, 7, 12)) ELSE Rejected

\* The data of a reply: coils eight to a byte, the first one lowest; registers
\* high byte first; a write is echoed
ReplyData(r) ==
    CASE r.fc \in Bits ->
           LET Bit(k) == IF k < r.arg THEN Coil(r.start + k) ELSE 0
               n == (r.arg + 7) \div 8
           IN  <<n>> \o [k \in 1..n |-> Bit(8*k - 8) + 2*Bit(8*k - 7) + 4*Bit(8*k - 6)
                            + 8*Bit(8*k - 5) + 16*Bit(8*k - 4) + 32*Bit(8*k - 3)
                            + 64*Bit(8*k - 2) + 128*Bit(8*k - 1)]
      [] r.fc \in Words ->
           <<2 * r.arg>> \o [k \in 1..(2 * r.arg) |->
                                LET w == Reg(r.start + (k - 1) \div 2)
                                IN  IF k % 2 = 1 THEN w \div 256 ELSE w % 256]
      [] OTHER -> SubSeq(frm, IF r.port = "rtu" THEN 3 ELSE 9, IF r.port = "rtu" THEN 6 ELSE 12)

\* A reply: pdu behind the address, with the check or the header of its port
Framed(r, pdu) ==
    LET msg == <<r.addr>> \o pdu
    IN  IF r.port = "rtu" THEN msg \o CheckBytes(msg)
        ELSE <<0, 0, 0, 0, HI(Len(msg)), LOW(Len(msg))>> \o msg

---------------------------------------------------------------------------
Init ==
    /\ phase = "idle" /\ ask = Rejected /\ frm = <<>> /\ heard = Rejected
    /\ damaged = FALSE /\ dest = <<>> /\ tmp1 = 0 /\ rc = 0
    /\ calls = <<>> /\ i = 0 /\ done = FALSE
    /\ bytes = <<>> /\ want = <<>> /\ whole = FALSE /\ count = 0

\* A builder is called and the frame goes out
Request(r) ==
    /\ phase = "idle" /\ count < MaxExchanges
    /\ ask' = r
    /\ frm' = IF r.port = "rtu" THEN RtuRequest(r) ELSE TcpRequest(r)
    /\ phase' = "request" /\ count' = count + 1
    /\ UNCHANGED <<heard, damaged, anVars, scanVars, histVars>>

\* The device answers, with what it was asked for or with an exception: always
\* with one where it rejects the request (external)
Answer ==
    /\ phase = "request"
    /\ heard' = Decode(ask.port, frm)
    /\ \/ /\ heard' # Rejected
          /\ frm' = Framed(heard', <<heard'.fc>> \o ReplyData(heard'))
       \/ frm' = Framed(ask, <<128 + ask.fc, 3>>)
    /\ phase' = "reply"
    /\ UNCHANGED <<ask, damaged, anVars, scanVars, histVars, count>>

\* A byte of a reply on the serial line is damaged (external)
Damage ==
    /\ phase = "reply" /\ ask.port = "rtu" /\ ~damaged
    /\ \E k \in DOMAIN frm, x \in Flips : frm' = [frm EXCEPT ![k] = @ ^^ x]
    /\ damaged' = TRUE
    /\ UNCHANGED <<phase, ask, heard, anVars, scanVars, histVars, count>>

---------------------------------------------------------------------------
(* rtu_data_anlys and tcp_data_anlys.                                      *)

\* *(source_p + k)
At(k) == frm[k + 1]

\* Where the function code stands; the byte count and the data follow it
FC == IF ask.port = "rtu" THEN 1 ELSE 7

\* The check in front of rtu_data_anlys
CrcFails ==
    /\ ask.port = "rtu"
    /\ 256 * At(Len(frm) - 2) + At(Len(frm) - 1) # crc(SubSeq(frm, 1, Len(frm) - 2))

\* The analysis begins: the check and the switch
Analyse ==
    /\ phase = "reply"
    /\ dest' = <<>> /\ tmp1' = 0
    /\ IF CrcFails \/ At(FC) \notin Bits \cup Words
       THEN phase' = "analysed" /\ rc' = 65535
       ELSE phase' = "analyse" /\ rc' = rc
    /\ UNCHANGED <<ask, frm, heard, damaged, scanVars, histVars, count>>

\* READ_COIL and READ_DI: eight cells from byte 3 of the frame, whatever tmp1
\* is and also in a frame of Modbus/TCP; the byte is shifted out on the way
Coils ==
    /\ phase = "analyse" /\ At(FC) \in Bits /\ tmp1 < At(FC + 1)
    /\ dest' = [k \in (Dest + 8 * tmp1)..(Dest + 8 * tmp1 + 7) |->
                   (At(3) \div 2 ^ (k - Dest - 8 * tmp1)) % 2] @@ dest
    /\ frm' = [frm EXCEPT ![4] = 0]
    /\ tmp1' = (tmp1 + 1) % 256
    /\ UNCHANGED <<phase, ask, heard, damaged, rc, scanVars, histVars, count>>

\* Mutant of Registers: one behind
RegistersShifted ==
    /\ phase = "analyse" /\ At(FC) \in Words /\ tmp1 < At(FC + 1)
    /\ dest' = (Dest + tmp1 \div 2 :> 256 * At(FC + tmp1 + 1) + At(FC + tmp1 + 2)) @@ dest
    /\ tmp1' = (tmp1 + 2) % 256
    /\ UNCHANGED <<phase, ask, frm, heard, damaged, rc, scanVars, histVars, count>>

\* READ_HLD_REG and READ_AI: a cell from two bytes
Registers ==
    /\ phase = "analyse" /\ At(FC) \in Words /\ tmp1 < At(FC + 1)
    /\ dest' = (Dest + tmp1 \div 2 :> 256 * At(FC + tmp1 + 2) + At(FC + tmp1 + 3)) @@ dest
    /\ tmp1' = (tmp1 + 2) % 256
    /\ UNCHANGED <<phase, ask, frm, heard, damaged, rc, scanVars, histVars, count>>

Analysed ==
    /\ phase = "analyse" /\ tmp1 >= At(FC + 1)
    /\ phase' = "analysed" /\ rc' = 0
    /\ UNCHANGED <<ask, frm, heard, damaged, dest, tmp1, scanVars, histVars, count>>

---------------------------------------------------------------------------
(* tcp_recv_callback.                                                      *)

\* A pbuf: its data, and the bytes in memory behind them
Pbuf(data, x) == [len |-> Len(data), mem |-> data \o [k \in 1..6 |-> x]]

\* The data of a chain
Data(chain) == FlattenSeq([k \in DOMAIN chain |-> SubSeq(chain[k].mem, 1, chain[k].len)])

\* TCP hands the reply on: whole, as a chain of two pbufs, or in two calls
Receive ==
    /\ phase = "reply" /\ ask.port = "tcp"
    /\ \E x \in Slack :
        \/ calls' = <<<<Pbuf(frm, x)>>>>
        \/ \E n \in {k \in Cuts : k < Len(frm)} :
             LET a == Pbuf(SubSeq(frm, 1, n), x)
                 b == Pbuf(SubSeq(frm, n + 1, Len(frm)), x)
             IN  calls' \in {<<<<a, b>>>>, <<<<a>>, <<b>>>>}
    /\ phase' = "scan" /\ i' = 0 /\ done' = FALSE
    /\ want' = bytes \o Data(calls'[1])
    /\ whole' = (Len(calls') = 1 /\ Len(calls'[1]) = 1)
    /\ UNCHANGED <<ask, frm, heard, damaged, anVars, bytes, count>>

\* The end is seen at index k of a payload: one byte before the last one
EndAt(c, k) == SubSeq(c, 1, 5) = <<0, 0, 0, 0, 0>> /\ k = 4 + c[6]

\* Mutant of Keep: keeps the last MAX_BUFF_SIZE bytes
KeepLast(b) ==
    bytes' = IF Len(bytes) < MAX_BUFF_SIZE THEN Append(bytes, b) ELSE Append(Tail(bytes), b)

\* Bytes that do not fit are left out; length is never set back
Keep(b) ==
    bytes' = IF Len(bytes) < MAX_BUFF_SIZE THEN Append(bytes, b) ELSE bytes

\* Mutant of ScanByte: an index of four bits
ScanByteNarrow ==
    /\ phase = "scan" /\ calls # <<>> /\ Head(calls) # <<>>
    /\ LET q == Head(Head(calls))
       IN  /\ i < q.len /\ ~done
           /\ done' = EndAt(q.mem, i)
           /\ Keep(q.mem[i + 1])
           /\ i' = (i + 1) % 16
    /\ UNCHANGED <<phase, ask, frm, heard, damaged, anVars, calls, histVars, count>>

\* One turn of the inner loop
ScanByte ==
    /\ phase = "scan" /\ calls # <<>> /\ Head(calls) # <<>>
    /\ LET q == Head(Head(calls))
       IN  /\ i < q.len /\ ~done
           /\ done' = EndAt(q.mem, i)
           /\ Keep(q.mem[i + 1])
           /\ i' = (i + 1) % 256
    /\ UNCHANGED <<phase, ask, frm, heard, damaged, anVars, calls, histVars, count>>

\* q = q->next
NextPbuf ==
    /\ phase = "scan" /\ calls # <<>> /\ Head(calls) # <<>>
    /\ i >= Head(Head(calls)).len \/ done
    /\ calls' = <<Tail(Head(calls))>> \o Tail(calls)
    /\ i' = 0
    /\ UNCHANGED <<phase, ask, frm, heard, damaged, anVars, done, bytes, histVars, count>>

\* The callback returns; the next call starts with done = 0
Return ==
    /\ phase = "scan" /\ calls # <<>> /\ Head(calls) = <<>>
    /\ calls' = Tail(calls)
    /\ IF Len(calls) > 1
       THEN done' = FALSE /\ phase' = phase /\ want' = bytes \o Data(calls[2])
       ELSE done' = done /\ phase' = "scanned" /\ want' = want
    /\ UNCHANGED <<ask, frm, heard, damaged, anVars, i, bytes, whole, count>>

\* The next exchange
Again ==
    /\ phase \in {"scanned", "analysed"}
    /\ phase' = "idle" /\ ask' = Rejected /\ frm' = <<>> /\ heard' = Rejected
    /\ damaged' = FALSE /\ dest' = <<>> /\ tmp1' = 0 /\ rc' = 0
    /\ i' = 0 /\ done' = FALSE /\ want' = <<>> /\ whole' = FALSE
    /\ UNCHANGED <<calls, bytes, count>>

Scan == ScanByte \/ NextPbuf \/ Return

Analysis == Coils \/ Registers \/ Analysed

Next ==
    \/ \E r \in Requests : Request(r)
    \/ Answer \/ Damage \/ Analyse \/ Receive
    \/ Analysis \/ Scan \/ Again

Spec == Init /\ [][Next]_vars /\ WF_vars(Scan) /\ WF_vars(Analysis)

---------------------------------------------------------------------------
\* The shape of the state: bytes are bytes, counters keep their width, and
\* RxBuffer is never written beyond MAX_BUFF_SIZE (TcpClient.c:280)
TypeOK ==
    /\ phase \in {"idle", "request", "reply", "scan", "scanned", "analyse", "analysed"}
    /\ ask \in Requests \cup {Rejected}
    /\ \A k \in DOMAIN frm : frm[k] \in Byte
    /\ \A k \in DOMAIN dest : dest[k] \in 0..65535
    /\ tmp1 \in Byte /\ i \in Byte /\ rc \in {0, 65535}
    /\ damaged \in BOOLEAN /\ done \in BOOLEAN
    /\ Len(bytes) <= MAX_BUFF_SIZE /\ \A k \in DOMAIN bytes : bytes[k] \in Byte
    /\ count \in 0..MaxExchanges

\* tcp_setCoil sends 00CC or 00AA where the protocol has FF00 or 0000, which stand
\* beside it in comments (modbus_tcp_master.c:148-158)
OwnWords(r) == r.port = "tcp" /\ r.fc = SET_COIL

\* What the device reads in the frame of the other eleven builders, check bytes
\* included, is what the application asked for. Only of tcp_setCoil nothing is
\* claimed: a device that keeps to the protocol rejects what it sends
RequestUnderstood == phase = "reply" /\ ~OwnWords(ask) => heard = ask

\* An analysis returns 0 exactly for an undamaged reply with data; one that
\* returns -1, as it also does for the good reply to a write, has not written a
\* single cell
DamagedRejected ==
    phase = "analysed" =>
        /\ rc = 0 <=> (~damaged /\ At(FC) \in Bits \cup Words)
        /\ rc # 0 => dest = <<>>

\* Registers end up in the cells from data_start_address on, in order, for
\* either port, and no other cell is written
RegistersRead ==
    phase = "analysed" /\ rc = 0 /\ ask.fc \in Words =>
        dest = [k \in Dest..(Dest + ask.arg - 1) |-> Reg(ask.start + k - Dest)]

\* Of a reply with coils whole bytes are taken over, into the cells from
\* data_start_address on and no others, each 0 or 1; the first eight of a reply on
\* the serial line are the device's. Nothing is said of the values of the others,
\* which the code gets wrong (AllCoilsRead)
CoilsRead ==
    phase = "analysed" /\ rc = 0 /\ ask.fc \in Bits =>
        /\ DOMAIN dest = Dest..(Dest + 8 * ((ask.arg + 7) \div 8) - 1)
        /\ \A k \in DOMAIN dest : dest[k] \in {0, 1}
        /\ ask.port = "rtu" =>
              \A k \in 0..7 : k < ask.arg => dest[Dest + k] = Coil(ask.start + k)

\* What the comments at modbus_rtu_master.c:325 and modbus_tcp_master.c:203 ask
\* for: every byte of the reply is looked at. The code does not keep it, as it
\* reads byte 3 each time and shifts it out: over the serial line the cells past
\* the first eight are 0, over TCP all of them are, so that a reply with a closed
\* coil among them violates it
AllCoilsRead ==
    phase = "analysed" /\ rc = 0 /\ ask.fc \in Bits =>
        \A k \in 0..(ask.arg - 1) : dest[Dest + k] = Coil(ask.start + k)

\* What an analysis tells the application is what the device had, as far as it
\* looks: nothing of a damaged reply, all registers of a good one, and the first
\* eight coils of one on the serial line
AnalysisRight == DamagedRejected /\ RegistersRead /\ CoilsRead

\* However a reply is cut into pbufs, and whatever lies behind them in memory,
\* what a call adds to RxBuffer is a beginning of its data in their order; of a
\* reply that came whole it is all but the last byte, as far as there is room
StoredInOrder ==
    phase = "scan" =>
        /\ IsPrefix(bytes, want)
        /\ whole /\ Head(calls) = <<>> =>
              Len(bytes) = IF Len(want) > MAX_BUFF_SIZE THEN MAX_BUFF_SIZE ELSE Len(want) - 1

\* RxBuffer and what is written beside it keep their types, and RxBuffer holds
\* the reply as it came
ReplyStored == TypeOK /\ StoredInOrder

\* Each pbuf still to be looked at has at most 255 bytes, or its end is at an
\* index a uint8_t reaches
IndexSuffices ==
    \A c \in DOMAIN calls : \A q \in DOMAIN calls[c] :
        \/ calls[c][q].len <= 255
        \/ \E k \in 0..255 : EndAt(calls[c][q].mem, k)

\* The loop over the pbufs of a reply comes to its end as long as its uint8_t
\* index suffices (TcpClient.c:277); a reply with 125 registers in one pbuf is
\* the first one for which it does not
ScanEnds == (phase = "scan" /\ IndexSuffices) ~> (phase # "scan")

===========================================================================
