# Verification of the COM board firmware

The firmware (`src/com板程序/`) runs on an STM32F107 under uC/OS-II with lwIP. It
polls measuring units by Modbus-TCP and Modbus-RTU, and offers a telnet console.
Paths below are relative to that directory. This directory holds the TLA+
modules of the parts in which tasks, interrupt handlers and hardware interleave,
the TLC runs that check them, and the TLAPS proofs.

## 1. The system

### Tasks

| priority | task | source | sleeps on |
|---|---|---|---|
| 4 | `AppTaskStart` | `IAR/First_UCOS/APP/app.c` | long delays, after start-up |
| 5 | `ethernetif_1_input` (internal MAC) | `lwIP/port/netif/ethernetif.c` | 5 ms poll |
| 6 | `ethernetif_2_input` (ENC28J60 on SPI) | the same | 5 ms poll |
| 10 | `tcpip_thread` | `lwIP/src/api/tcpip.c` | its mailbox, with timeouts |
| 15 | `AppTaskClient` (Modbus-TCP) | `IAR/First_UCOS/APP/TcpClient.c` | delays |
| 17 | `AppTaskRtuClient` (its creation is commented out) | `IAR/First_UCOS/APP/RtuClient.c` | delays |
| ISR | `BSP_IntHandlerUSART1` | the same | |
| hw | Ethernet DMA, ENC28J60, UART shift register, tick | | |

### Inventory

| component | state | operations | interacts through | hard behaviour | what makes it correct |
|---|---|---|---|---|---|
| Modbus-RTU client | `rx_state`, `i`, `len`, `rx_len`, `rx_buf`; direction pin | receive a byte; send a request | USART1 | arbitrary bytes, 8-bit wrap, abandoned frames | index and countdown agree, nothing stale, bus driven until the last bit is out |
| Modbus-TCP clients | `TcpClient_n.state`, `.TCP_pcb`, receive buffers | poll, connect, write; connect/receive/error callbacks | raw API of lwIP, from two threads | preemption between two calls, resets, refused SYNs | a client marked connected has a connection, each buffer is freed once, the client reconnects |
| lwIP connection blocks | pool, `tcp_active_pcbs`, state, callbacks, ports | `tcp_alloc` with `tcp_kill_prio`, bind, connect, input, slow timer | callbacks, heap | exhausted pool, reuse of a block somebody points to | no block lost or in two places |
| Telnet server | connections, buffers | accept, receive, error | the same pool and heap | competes with the clients | as above |
| TCP data transfer | `struct tcp_pcb`: `unsent`, `unacked`, sequence numbers, windows, timers | `tcp_write`, `tcp_output`, `tcp_input`, `tcp_recved`, `tcp_tmr` | network, receive callbacks | lost, doubled, overtaken segments, closed windows, wrapped numbers | the receiver gets a byte stream, all of it |
| Heap and its semaphore | block headers, `lfree`; `mem_sem` | `mem_malloc`, `mem_free`, `mem_realloc` | all tasks | fragmentation; allocation with interrupts masked | disjoint blocks, mutual exclusion |
| uC/OS-II | ready list, waiting lists, current task | pend, post, schedule, tick | PendSV, PRIMASK | a pend that cannot block | one token, lists recover |
| Timeouts | delta list, pool of entries | `sys_timeout`, `sys_untimeout`, `sys_mbox_fetch` | `OSTimeGet`, mailbox | zero and wrapped times, floods of messages | none lost or late |
| Ethernet input | Rx descriptors, `DMARxDescToGet`, pools, mailbox | receive, `tcpip_input`, process | DMA, ENC28J60 | DMA beside the task, pools exhausted | ring in step, nothing leaks, order kept, reception goes on |
| Ethernet output | Tx descriptors, transmit buffer of the ENC28J60 | `low_level_n_output` | DMA, ENC28J60 | a buffer is written while it is sent | frames go out whole and in order; each loss has its cause |
| Mailbox of `tcpip_thread` | ring of `OSQ`, waiting list, `op_completed` | `sys_mbox_post`, `sys_mbox_trypost`, `sys_arch_mbox_fetch`, pend and post | `OSQPend`, `OSQPost`, tick | a timeout races a post; a post gives up after 10 attempts | a FIFO, nothing left behind, calls return |
| Modbus codecs | `RxBuffer`, receive index | CRC, builders, analysis, scan of a reply | device | 8-bit indices, replies cut into pbufs, damaged bytes | a device by the protocol understands the requests, the analysis the replies |
| Console, start-up, board support, vendor code | | | | sequential | not modelled, section 7 |

`PROJECT.json` lists the hazards of the code at their lines, with the properties
that would catch each of them going wrong.

## 2. Modules

| module | models | extended by |
|---|---|---|
| `RtuClient` | receive handler, task, `USART_send` | `MCRtuClient`, `RtuClientProofs` |
| `TcpClient` | `AppTaskClient`, callbacks, telnet, lwIP's connection blocks | `MCTcpClient`, `TcpClientProofs` |
| `ByteStream` | abstract: what a TCP connection promises | |
| `TcpStream` | two connection blocks, their applications and timers, a network; refines `ByteStream` | `MCTcpStream`, `TcpStreamProofs` |
| `CrcTables` | the tables of `crc`, and the CRC they stand for | `Modbus` |
| `Modbus` | builders, analysis, scan of `tcp_recv_callback`, against a device | `MCModbus` |
| `HeapLock` | `mem_sem` on uC/OS-II's scheduler and the Cortex-M3 port | `HeapUse` |
| `MemHeap` | the heap's blocks: operators from heaps to heaps | `HeapUse` |
| `Allocator` | abstract: what a heap promises | |
| `HeapUse` | tasks that allocate, free and shrink: `HeapLock` composed with `MemHeap`; refines `Allocator` | `MCHeapUse`, `HeapProofs` |
| `Timers` | abstract: independent countdown timers | |
| `Timeouts` | the delta list and the wait of `tcpip_thread`; refines `Timers` | `MCTimeouts`, `TimeoutsProofs` |
| `Fifo` | abstract: a queue | |
| `Mailbox` | input tasks, callers and `tcpip_thread` on `OSQ` and `OSSem`; refines `Fifo` | `MCMailbox`, `MailboxProofs` |
| `LossyFifo` | abstract: what an interface promises | |
| `NetInput` | Rx ring, two input tasks, pools, mailbox; refines `LossyFifo` twice | `MCNetInput`, `NetInputProofs` |
| `NetOutput` | Tx ring and transmit buffer of the ENC28J60 | `MCNetOutput`, `NetOutputProofs` |

Every module has one action per operation or per piece of a handler between two
points where somebody else can run. `PROJECT.json` ("map") gives the source lines
of each definition. Operators marked "Mutant" are the wrong forms that show that
a property can fail; they take no part in the specifications. The invariants a
run checks are conjunctions of named parts, so that a violation can be traced by
checking the parts alone:

| checked | its parts |
|---|---|
| `ReceiverInv` | `TypeOK`, `CountdownOK`, `IndexWraps` |
| `PoolInv` | `TypeOK`, `PcbsAccounted`, `TimerOffOnlyIdle` |
| `BuffersSound` | `BuffersOwned`, `NoBadFree`, `RefusedDataOwned` |
| `AnalysisRight` | `DamagedRejected`, `RegistersRead`, `CoilsRead` |
| `ReplyStored` | `TypeOK`, `StoredInOrder` |
| `MailboxInv` | `TypeOK`, `NothingBehind`, `ReturnsServed` |
| `QueuesKept` | `TypeOK`, `QueuesSorted`, `SendBufferKept` |
| `LockInv` | `TypeOK`, `OneToken`, `RunsHighest`, `IdleMeansFree` |
| `BlocksSound` | `HeapInOrder`, `UsedIsOwned` |
| `TimersSound` | `TypeOK`, `TimersKept`, `NeverLate` |
| `RingSound` | `TypeOK`, `RingInStep`, `DmaNotStuck` |
| `SentSound` | `TypeOK`, `SentWhole` |

**RtuClient.** `RxAddress`, `RxFunction`, `RxCount`, `RxPayload` are the four
branches of the interrupt handler, which is atomic. Index and counts keep their
8 bits. `stored` is the set of cells of `rx_buf` that are set, `stray` records a
store behind it. The task raises the direction pin, sends byte by byte, waits for
TC and lowers the pin.

**TcpClient.** Every call of `AppTaskClient` into lwIP is an action, and
`tcpip_thread` runs between any two of them: it has the higher priority and takes
no lock. A segment, with its callbacks, is one action. The order of
`tcp_active_pcbs` is the relation `newer`, because blocks are only put in front or
taken out. A free block keeps its `st`, as the memory does: the task may look at
it. The two first connections, made in front of the loop, are two turns of it.
TIME_WAIT and FIN_WAIT are not reached, because the applications only close behind
their peers. The constant `Env` says which hard behaviours of the surroundings
happen.

**HeapLock.** A task is its priority. `OS_Sched` requests PendSV, which is taken
at once unless PRIMASK is set. `ethernetif_2_input` allocates with PRIMASK set:
its `OSSemPend` puts it on the waiting list and returns.

**MemHeap, HeapUse.** A heap is a function from the offsets of its blocks to their
headers; `mem_malloc`, `mem_free`, `mem_realloc` and `plug_holes` are operators on
it. `HeapUse` adds to each task of `HeapLock` what it does between the pend and the
post: the search and the taking of a block are two steps, as a task without the
token can come between them. A request is rounded up as the code does.

**TcpStream.** A connection block is a record with the names of the fields of
`struct tcp_pcb`, each function of `tcp_out.c`, `tcp_in.c` and `tcp.c` an operator
from blocks to blocks, and a step is a call from the application, a segment that
arrives or a run of `tcp_tmr`: that is how `tcpip_thread` runs them. The network
loses, doubles and reorders. Sequence numbers are counted modulo `Seq32` and
compared by the sign of the difference. Starting values and durations of the two
timers are left out: a running timer may expire at any slow tick.

**Modbus.** Frames are the bytes on the wire, with the real CRC tables. The device
is written from the protocol and not from the code: it decodes a request on its
own, answers from functions `Coil` and `Reg`, and rejects what the protocol does not
know, as the words of `tcp_setCoil`. The loop of `tcp_recv_callback`
is one action per byte, with its `uint8_t` index.

**Mailbox.** A task is its priority and runs when no higher one is ready. A timeout
readies a task and leaves it on the waiting list of the queue until it runs, as
`OSTimeTick` does. A stall is the time `tcpip_thread` waits for the heap.

**Timeouts.** `list` holds deltas, as `lwip_timeouts` does; `waited` is the time
between the two `OSTimeGet`, from which `Elapsed` computes the result of
`sys_arch_mbox_fetch` in `Word` arithmetic. `left` is history: what a timer still
has to wait, counting the ticks while the thread is blocked.

**NetInput.** The DMA fetches descriptors and writes frames beside the tasks.
`GiveBack` and `Resume` are separate, because the DMA can suspend between them. A
task runs only while those of higher priority sleep. A frame is "short" (one pbuf
of the pool), "full" (two) or "long" (two descriptors). `tcpip_thread` frees a
frame or, if it is a fragment, keeps it in `reass` until its datagram is complete
or `ip_reass_tmr` gives up; reassembly may hold the whole pool, as the build allows
(IP_REASS_MAX_PBUFS and PBUF_POOL_SIZE are both 10).

**NetOutput.** The DMA and the ENC28J60 read their buffers beside the drivers. A
buffer that is being written holds a `Mix`; `hit` records which queued frames had
their buffer written again before they were out.

## 3. Runs

| run | bounds | states | shows |
|---|---|---|---|
| `rtu` | ten byte values, on both sides of every test of the handler: 0, 1, 6, 7, 47, 48, 252 to 255; array of 50 | 90,272 | countdown, stale payload, wrapping, stray stores, direction pin; every response ends |
| `tcp_hard` | 2 blocks, 1 buffer, all of `Env`, symmetry | 2.7 M | blocks accounted for, ports distinct, `tcp_new` succeeds, timer off only when idle |
| `tcp_graceful` | 3 blocks, 3 buffers, orderly peers | 10,139 | a connected client is live, buffers freed once, reconnects for ever |
| `tcp_stream` | one end writes 5 bytes in writes of 1 and 4; segments of 2, window and send buffer of 4, 1 fault, sequence numbers modulo 32 | 204,968 | refines `ByteStream`; queues complete and sorted, counters right, window kept to; everything written arrives |
| `tcp_nagle` | 6 bytes, 3 faults | violation | finding 2 |
| `modbus` | 2 exchanges out of 16 requests, damage, exceptions, replies cut at 5, 8 or 30 | 189,623 | requests understood but those of `tcp_setCoil`, registers and the first eight coils read, damage rejected, data stored in order, the scan ends |
| `mailbox` | queue of 2, 2 attempts, an input task, two callers, stalls of 1 and 4 ticks | 165,075 | refines `Fifo`; nothing left behind, full only while stalled, calls return |
| `heap` | the board's tasks 6, 10, 15 on up to four blocks | 2.0 M | one token, lists recover, no lost wake-up; blocks in order, refines `Allocator` until a masked allocation meets somebody |
| `heap_masked` | the same | violation | finding 1 |
| `timeouts` | five timers with intervals 1 to 4, pool of 5, 2 messages, 2 slipped ticks per phase | 51,798 | refines `Timers`, none lost, late or starved |
| `net_input` | 3 descriptors, 2 pbufs, 2 messages, mailbox of 1, 1 frame in the ENC28J60 | 481,716 | ring in step, no leak, no forgotten DMA, order kept, everything drained |
| `net_output` | 2 descriptors, as in the build, and 3 frames | 294,734 | frames go out whole and in order, each loss has its cause, the DMA is resumed |

Why the bounds are enough. In `rtu` the byte values cover both sides of every
comparison of the handler, and the counters have their full width. `tcp_hard`
has fewer blocks than the two clients and telnet want, so that `tcp_kill_prio`
runs and freed blocks are reused while the task still points to them; one buffer
makes `mem_calloc` fail. In `tcp_stream` the data needs more segments than the
window takes, so that it closes and is probed, the client's numbers wrap behind
its second byte, and one fault is enough for a timeout, a fast retransmit and the
end of a connection; TLC reaches each of these. `modbus` asks for numbers of coils
that are and are not multiples of eight and for 124 and 125 registers, on both
sides of what the index of the scan can count. In `mailbox` a stall outlasts the
attempts of a post, or does not. `heap` uses the real tasks; its four blocks can be
merged on either side. `net_output` has one frame more than descriptors. In `timeouts` the
intervals contain equal, adjacent and nested deltas, and the pool has exactly
the entries that are needed. In `net_input` every pool is smaller than what
arrives before `tcpip_thread` runs, and the mailbox is smaller than the pool of
messages (in the build it is larger, 20 against 8), so that each of the three
refusals happens. `Word` is 2^20 in place of 2^32, because TLC's integers have
32 bits; the assumption of `Timeouts` states how large it has to be.

Deadlock is checked, except where the system can come to rest: in the `TcpClient`
runs a write through a dangling pointer stops the board, in the `TcpStream` runs both ends
may have given up, in `modbus` a scan may not end and no request is left, and in
`mailbox` a caller whose post gave up waits for ever.

### Fairness

- `rtu`: bytes go on arriving and the UART shifts them out; the task is resumed
  by the tick.
- `tcp_graceful`: weak fairness of the task, which the tick resumes, and of the
  answers of each peer to a SYN and to a FIN. Data and closing are not fair.
- `tcp_stream`: segments under way arrive, both timers run and expire, memory is
  found in the end, and an application that has refused data takes it at last.
  Losses are bounded by the number of faults. The formula spells out when an action
  is enabled instead of using `WF_vars`, which TLC would evaluate through every
  operator of the module. That the timer runs is an assumption: on this board it is
  set in the wrong thread by the first connection (section 4).
- `mailbox` (`FairSpec`): the tick goes on and a task that is the highest ready one runs; strong
  fairness where higher tasks interrupt it again and again. Frames and calls are
  not fair.
- `heap` has no liveness; in `net_output` (`FairSpec`) the DMA and
  the driver that runs go on, frames do not have to come.
- `modbus`: the loop of `tcp_recv_callback` goes on.
- `timeouts`: the thread runs when it is ready, and time goes on. Messages are
  not fair: a flood and silence are both covered.
- `net_input`: DMA and tick go on; `ethernetif_1_input` runs when ready. The two
  tasks behind it get strong fairness: they are interrupted by each tick, but a
  task that is ready while those before it sleep reaches its next step, which
  takes far less than the 5 ms of a sleep. Arrivals are not fair, and a load
  that never lets the input tasks sleep is not excluded: `Drained` is about the
  time when the load ends.

## 4. Findings

Two runs show that the code does something else than it says:

1. The second interface allocates from the heap with interrupts masked, where
   the semaphore cannot hold it up (`ENC28J60.C:451`, `heap_masked`): two tasks are
   given the same block.
2. Nagle's algorithm holds back a short segment of a fast retransmit, and
   `tcp_enqueue` joins later bytes to it (`tcp_out.c:343-376`, `tcp_nagle`): the
   receiver gets them in the place of others.

Others came up while modelling. Each can be seen by changing a run as told:

- A reset leaves a client marked connected (`TcpClient.c:408`): it writes to a freed
  block and never reconnects. `tcp_graceful` with `Env <- Resets` violates
  `ConnectedIsLive`; with a FIN before the reset the buffer is freed twice
  (`TcpClient.c:383`, `NoBadFree` in `BuffersSound`).
- The TCP timer is set from `AppTaskClient` and lands on a list that no thread
  serves (`tcpip.c:106`): in `tcp_graceful`, `timer` is `"null_timeouts"` from the
  first connection on.
- A message that is already waiting makes the next timeout fire at once
  (`sys_arch.c:195`): zero ticks are taken for a wrapped clock. `Elapsed` returns
  4294967 ms, and `HeadAfter` is 0 whatever was left.
- A frame that needs two Rx descriptors, such as a full frame with a VLAN tag,
  ends reception on interface 1 (`stm32_eth.c:655`): `net_input` with
  `Kinds <- WithLong` violates `Drained`.
- `sys_mbox_post` gives up after ten attempts (`sys_arch.c:123`) and its caller waits
  for an answer to a message that was never sent. `CallsReturn` excepts such calls,
  and `FullOnlyWhenStalled` says when it can happen.
- A reply of 125 registers can keep `tcp_recv_callback` in its loop for ever, as
  its index is a `uint8_t` (`TcpClient.c:277`). `ScanEnds` excepts the replies that
  are too long for it.
- Of a reply on the serial line the first eight coils are right and all others read
  0; over TCP all read 0, as a header byte is looked at (`modbus_rtu_master.c:326`,
  `modbus_tcp_master.c:204`). The comments above these lines ask for byte `tmp1+3`:
  `AllCoilsRead` says so, and `modbus` with it in place of `AnalysisRight` is
  violated. `CoilsRead` claims only what is right and nothing of the other coils.
- `tcp_setCoil` sends 00CC and 00AA to close and open a coil; the protocol's FF00 and
  0000 stand beside them in comments (`modbus_tcp_master.c:148-158`). A device that
  keeps to the protocol answers with an exception. Nothing in the repository calls
  the function. `RequestUnderstood` excepts it by `OwnWords`, and is violated without.
- `nrtx` is compared with `TCP_MAXRTX` by equality (`tcp.c:593`) although a fast
  retransmit counts it up too; the backoff table could be read behind its end.
- `low_level_1_output` and `enc28j60PacketSend` write over a frame that is still
  queued when there is no room, and report success.
- `TXERIF` is read after each transmission and cleared nowhere
  (`ENC28J60.C:374-378`): once one has failed, `enc28j60PacketSend` takes back every
  frame that is not out when it looks, also of an ENC28J60 that was idle. The comment
  there is about an erratum of the transmit logic. `LossHasCause` says that frames are
  lost in no other cases than this and the last one.

## 5. Proofs

`tlapm` checks eight modules. Each defines an inductive invariant, proves that the
initial states satisfy it and that every step keeps it, with one step of the proof
or one lemma per action, and derives its theorems from that. The assumptions on
constants stand in the `ASSUME` of the component's module, and TLC evaluates them
on every run.

| module | assumptions | what the invariant says beyond the stated properties | theorems |
|---|---|---|---|
| `RtuClientProofs` | bytes are 8 bits, the array has 3 to 252 cells | what a wrapped index leaves (`RxInv`), header cells only between responses (`WipeInv`) | `ReceiverSound`, stale payload, stray stores (action property), direction pin |
| `TcpClientProofs` | at least two connection blocks | `TaskHolds`: what `tcpclient_connect` knows of the block it has not registered; `ActiveIsList`: the links are a strict order of the active blocks; `OnePerClient`, `TaskExclusive` for orderly peers | `PoolSound`, distinct ports, `NewSucceeds`; for orderly peers and two buffers `ConnectedSound` and `GracefulSound` |
| `TcpStreamProofs` | windows and buffers within half a round of the numbers; an end writes less than half a round (`2 * MaxBytes < Seq32`; one round for `StreamKept`); `JoinsAtEnd` (for `StreamKept`, `NothingForgotten`) | `ByteInv`: every piece queued or under way stands under its own numbers, and `rcv_nxt` counts exactly the bytes an end was given or has refused; `SenderInv`: the account of each sender, and acknowledgments only of what was written | `NoneForgotten` (`NothingForgotten`), `StreamOfWrites`: the refinement of `ByteStream`; `StreamKept`, the refinement from `NothingForgotten`; `BufferNeverDrifts` |
| `HeapProofs` | a masked task comes before the others; the heap has room for a block and its size is a multiple of four | for the lock, who can be on the waiting list and the ready list, and who masks; for the blocks, the list is in one piece in both directions, `lfree` leads to the lowest unused block, holes only where `plug_holes` is due, one claim to a block, and what each operation under way relies on (`JobInv`) | `LockSound`, exclusion unless masked, both also for the composed tasks; `HeapSound` (`BlocksSound`), `FailsOnlyFull` (action property), `HeapAllocates`: the refinement of `Allocator` |
| `TimeoutsProofs` | the start-up sets each periodic timer once, an entry of the pool for each handler, `1000 * (interval + 2 * MaxSlip) < Word` | `Clock`, `InTime`: in each phase of the thread the ticks that will be measured cover those the timers have waited | `DeltaListSound` (`TimersSound`), `CountsDown`: the refinement of `Timers` |
| `NetInputProofs` | at least two descriptors | the DMA owns what it is about to write (`DmaOwns`), who has a frame (`Holding`, `Empty`) | `RingProved`, message and pbuf accounting; for frames that fit a buffer `InterfaceIsFifo`: the refinement of `LossyFifo` by each interface |
| `MailboxProofs` | tasks are distinct numbers, delays and stalls are not 0 | what the records of `tcpip_thread` allow (`ServerInv`), one stage of a call for each state of its caller (`CallerInv`), at most one message of a caller under way, that of its last call (`OneEach`, `LastCall`) | `MailboxProved`, full only while stalled (action property), `FifoProved`: the refinement of `Fifo` |
| `NetOutputProofs` | at least one descriptor | the queued frames lie on the ring from the DMA's descriptor on (`OnRing`), only the oldest of a full ring is hit (`OnlyOldest`), what the drivers have begun (`Writing`, `EncInv`) | `SentProved`; `LossProved`: each loss has its cause (action property) |

**Why the invariants are needed.** `OneToken` is not inductive alone: that the masked
task's own post takes that task off the waiting list, and not the token from its
holder, needs the lists and the priorities. `RingInStep` needs `DmaOwns`: otherwise
the DMA could write to a full ring. `SentWhole` needs `OnRing`, which is about the
place of every queued frame: only from it follows that `DMATxDescToSet` meets none
of them while there is room. `MailboxInv` needs `OneEach` and `LastCall`: a call that
has been served must have no second message under way, or a later call of the same
task would come back served by the earlier one.

**The heap.** Until a masked allocation meets somebody in the heap (finding 1),
`MemInv` holds. `BlocksSound` alone would not do: between the pend and the post of
one task another one can come in only if nobody is inside, which the invariant of
the lock says; and an operation under way relies on what it has read (the block
`mem_malloc` found is still unused and large enough, the block `mem_free` has marked
still lies beside the hole). The lemmas on `MemHeap` say what each operator does to
the shape of the heap, for any size.

**The timeouts.** An entry holds the difference to the one before it, so that what a
timer still has to wait is a sum along the list (`Expiry`), and the theorems are
about these sums. `NeverLate` is not inductive: while the thread is blocked the head
has yet to lose what was waited, which `Clock` bounds by what `OSTimeGet` will say.
The bound on `Word` is what keeps the milliseconds from wrapping.

**The connection.** What has to be shown is that a segment, wherever it comes from
(a first transmission, either retransmission, a probe, a duplicate), carries under
its sequence number the bytes that belong there, and that the receiver cuts off
exactly what it has. The two meet in `PieceInLine`: a piece that begins with the
number behind the k-th byte has the bytes that follow the k-th, if an end writes
less than one round of the numbers. Beyond that a duplicate
of the round before could be taken for new; on the wire it would have to outlive its
time to live, which the network of the model does not count. Whether the window
is kept to plays no part: a byte outside it is cut and sent again. `StreamKept`
says this much, from `NothingForgotten`: a byte queued under the number of another
is the only way for the stream to break.

The code does not keep `NothingForgotten` (finding 2), so that its theorem,
`NoneForgotten`, has a hypothesis, and one on the writes only: `JoinsAtEnd` says
that a write joins its bytes to the last unsent segment only where that segment
ends at `snd_lbb`. `tcp_enqueue` does not compare the two (`tcp_out.c:341-350`), and
the trace of `tcp_nagle` is a write that does not meet the condition; that is
therefore the whole of the defect: with that comparison in `tcp_enqueue` every
write would meet it. In the instance of `tcp_stream` every step meets the condition. The inductive
invariant `SenderInv` keeps an account of each block: `a` bytes acknowledged, `n`
sent, `w` written, so that `lastack`, `snd_nxt` and `snd_lbb` are the numbers behind
the `a`-th, `n`-th and `w`-th byte and `snd_buf` is what `w - a` leaves of the buffer;
the segments on the two queues are pairwise disjoint, each a stretch of the bytes
under its number, and cover everything behind `a` (`Complete`), each once (`Apart`).
It says nothing of their order, which the retransmissions disturb. An
acknowledgment under way is the number behind a byte that was written (`Marks`);
`tcp_receive` takes it as new only behind `lastack` and up to `snd_nxt`, in the order
of `SEQ_LT`, which is that of the bytes within half a round: hence `2 * MaxBytes < Seq32`.
`StreamOfWrites` puts the two theorems together.

**Sums and recursion.** A recursive function (`Expiry`, the turns of `tcp_output`)
is shown to exist and to satisfy its equations by a least counterexample, from the
well-foundedness of the naturals (`Least`); the same takes the place of induction
along lists, rings and chains of blocks.

Only model-checked:

- Liveness (`Arrives`, `Drained`, `CallsReturn` and the like): fairness and `ENABLED`
  are out of the prover's reach.
- `Modbus`: its CRC uses bitwise operators the prover cannot reach.
- `QueuesKept` and `WindowHonoured` of `TcpStream`. The order of the queues
  (`QueuesSorted`) is not an invariant beyond the instance, even where the joins are
  right: `tcp_rexmit_rto` puts all of `unacked` in front of `unsent`
  (`tcp_out.c:792-817`), where an earlier segment may wait that a fast retransmission
  has put there and Nagle's algorithm holds back. Of `SendBufferKept` the bytes are
  proved (`BufferNeverDrifts`) and the pbufs checked. `WindowHonoured` is checked for
  one end that writes.
- `InOrder` with frames of two descriptors: they stop interface 1 (section 4).

## 6. Plan

Done: the modules above, in the order RTU, TCP clients, heap lock, timeouts, input
path, heap, output, codecs, mailbox, TCP transfer; proofs of all of them but
`Modbus`, with the refinements of `Fifo`, `Allocator`, `Timers`, `LossyFifo` and
`ByteStream`.

Next, in this order:

1. `TcpStream`: `WindowHonoured` for one writer; the count of the pbufs
   (`snd_queuelen`).
2. `Modbus`: the scan of a reply in a module of its own, which reaches no bitwise
   operator, and `ReplyStored` as a theorem about it.
3. `PcbList`: `TCP_REG` and `TCP_RMV` at the level of pointers, two threads.
4. FIN and the closing states in `TcpStream`; ARP and reassembly.
5. ENC28J60: banks.

## 7. Not modelled

- lwIP below and beside TCP (ARP, IP, reassembly, ICMP, UDP, DNS): third-party code
  used unchanged. Their timers and their consumption of frames are modelled.
- Of TCP: SYN and FIN at the level of sequence numbers, active closing, keep-alive,
  the estimate of the round-trip time, out-of-order queueing (switched off).
- netconn and sockets, DHCP, SNMP, PPP: no application of the board calls them;
  `Mailbox` has their way into `tcpip_thread`.
- The rest of uC/OS-II, CMSIS, the peripheral library, uC/CPU, uC/LIB.
- Start-up and board support: straight-line code before the tasks run.
- Small things in the modelled parts. `TcpClient`: a segment with data and FIN at once,
  after which a callback gets a NULL buffer (`tcp_in.c:326-338`). `NetInput`: the test
  of ES in `ETH_GetRxPktSize`, as the DMA of this build does not forward bad frames.
  In `TcpClient`, `TelnetSyn` frees blocks by priority although a new block does not
  inherit that of the listening one: the clients are treated worse than they are.
- Console texts, LCD, EEPROM and thermometer drivers.
