# A TLA+ model of the CanDybug firmware

CanDybug is a USB to CAN adapter. The host writes requests to a USB OUT
endpoint; the firmware queues the CAN frames they describe, feeds the three
transmit mailboxes of the bxCAN controller, and returns received frames,
acknowledgements and bus errors on a USB IN endpoint. There is no operating
system: everything after start-up runs in the USB and CAN interrupts, which all
have priority 0 and therefore never preempt each other. What does run beside a
handler is the CAN controller: it finishes frames, sets flags and counts errors
between any two register accesses of the software. Most of what can go wrong in
this code is in that gap.

## 1. Inventory

| Component | Source | State | Operations | Interacts with |
|---|---|---|---|---|
| Circular queues | `App/queues.h` | `size`, `head`, `tail`, buffer of `size + 1` slots | `QUEUE_PUT`, `QUEUE_GET`, their array forms, `QUEUE_SPACE/FULL/EMPTY` | `CanTxQ`, `CanIf_IN` |
| Transmit path | `App/can_if.c:90-176, 252-327, 389-531` | `CanTxQ`, mailboxes, TSR flags, whether an OUT transfer is requested | `Can_HandleRequest`, `Can_PostFrames`, `Can_FrameSent`, `Can_BusError`, `CanIf_ReceiveOutData` | USB OUT pipe, CAN controller, IN pipe (acknowledgements) |
| CAN interrupt dispatch | `BSP_*/bsp_can.c` | none of its own | one vector (F042), or one each for transmit, receive and error (F302) | calls the three callbacks of `can_if.c` |
| OUT stream reassembly | `can_if.c:65-68, 131-160` | `CanIf_OUT.buffer`, `offset` | split a transfer into requests, keep the fragment | USB OUT pipe, `Can_HandleRequest` |
| IN pipe | `can_if.c:63, 184-246` | `CanIf_IN`, transfer in flight | `CanIf_AddMessage`, `CanIf_SendInData`, `CanIf_EpInComplete` | called by all three CAN callbacks |
| Frame codec | `can_if.c:278-326, 342-372` | none | bytes to mailbox registers and back | transmit path, IN pipe |
| Life cycle | `can_if.c:90-123, 252-258, 473-507` | CAN configuration | `CanIf_Open`, `Can_Close`, `Can_Setup`, `Can_Start` | resets all of the above |
| LEDs | `App/leds.c`, `BSP_*/bsp_tim.c` | `lastLed`, two compare registers with preload, one-pulse timer | `Leds_Init`, `Leds_Trigger`, `Leds_Deinit` | called by the CAN callbacks and the life cycle |
| USB device set-up | `App/usb_device.c`, `BSP_*/bsp_usb.c` | mounted interfaces, connection | `UsbDevice_Init`, `BSP_USB_Init`, `BSP_USB_Deinit` | USB stack (submodule, sources absent), boot loader (DFU handle) |
| Start-up, clocks, faults | `App/main.c`, `exception.c`, `BSP_*/bsp_system.c`, `system_*.c`, start-up assembly | vector table, bound handles, clocks, DFU tag | `Reset_Handler`, `SystemInit`, `main`, `HardFault_Handler` | boot loader, and every interrupt that may come meanwhile |

What makes each part correct:

- *Queues*: a bounded FIFO, with one account of its space, at every position of
  the indices.
- *Transmit path*: frames leave in the order of the host ("always transmitted in
  the order they are sent to the device", `README.md:55`); an acknowledgement
  stands for exactly one frame that was on the bus; a requested OUT transfer
  always fits; frames and the OUT pipe never get stuck; at high error rates
  transmission stops.
- *OUT stream*: every request is handled once, whatever the transfer boundaries.
- *IN pipe*: messages arrive whole and in order, no byte in flight is
  overwritten, nothing waits without a transfer in flight.
- *Codec*: identifier, type, length and data survive the conversion both ways.
- *LEDs*: one colour at a time, every pulse ends, and the latch that saves channel
  writes tells the truth about the channels.
- *Set-up and start-up*: no interrupt meets a wrong or unready handler, opening and
  closing the CAN interface never takes a pin or a line from the USB, the host sees
  only a complete device, and a hard fault ends in the boot loader.

The behaviours that are hard to test, with the line where each bites, are listed
under "hazards" in `PROJECT.json`.

## 2. Modules

| Module | Content |
|---|---|
| `CircularQueue` | the macros of `queues.h` as operators on queue values |
| `QueueMachine` | one queue driven by callers that keep the contract of the macros |
| `BoundedFifo` | abstract specification: what a user of a queue relies on |
| `CircularQueueLemmas`, `QueueProofs` | what each macro does to the contents; the queue theorems |
| `CanTx` | the transmit path with its two interrupt sources and the CAN controller |
| `TxStream` | abstract specification: what the host is promised about its frames |
| `CanTxInvariant` | the inductive invariants of `CanTx` |
| `CanIfIn` | the IN pipe with the USB device reading from the ring |
| `MessagePipe` | abstract specification: an ordered pipe that never idles |
| `CanIfInProofs` | theorems about the IN pipe |
| `OutStream` | the OUT buffer: packets, transfers, requests and fragments |
| `OutStreamProofs` | theorems about the OUT pipe: the buffer, the sentinel, the batch, the requests |
| `RequestStream` | abstract specification: requests handled whole, once, in order |
| `FrameCodec` | one frame from request to acknowledgement and to a received message |
| `FrameCodecProofs` | lemmas on shifts and byte reversals; theorems about the codec |
| `Leds` | the latch, the compare channels and the one-pulse timer |
| `LedsProofs` | theorems about the LEDs: types, one colour, the latch |
| `Device` | reset, start-up, main, USB set-up, interrupt lines and pins of both boards |
| `DeviceProofs` | theorems about start-up, wiring, connection and faults |
| `CanDybug` | `CanTx` and `CanIfIn` composed under one life cycle |
| `CanDybugProofs` | theorems about `CanTx` (types, room, order, reports, abort, refill), then about the composition |
| `MCQueue`, `MCCanTx`, `MCCanIfIn`, `MCOutStream`, `MCFrameCodec` | instances for TLC; `Leds`, `Device` and `CanDybug` need no definitions of their own |

Four modules implement an abstract one by a refinement mapping: `QueueMachine` and
`CanIfIn` map the contents of the ring, `CanTx` its queue, mailboxes and history,
`OutStream` the requests complete within the bytes received. `CanDybug` in turn
implements `CanIfIn`: what is proved of the IN pipe alone holds in the composition.

### CanTx and the code

A handler is a chain of steps led by `pc`. A step ends where the handler reads
or writes a CAN register that the controller changes too, so that the
controller's actions fall between the steps; the rest of a handler is part of
the step before. No step of a chain is optional: while `pc # "idle"` no other
handler starts.

| Code | Actions |
|---|---|
| `CanIf_Open`, `Can_Setup`, `Can_Start` | `OpenBadRate`, `OpenNoSync`, `OpenOk`, by the outcome of the set-up and of the synchronization |
| `Can_Close` | `Can_Close` |
| `CanIf_EpOutComplete` | `OutComplete(n)` starts it with n complete requests; `HandleRequest` or `RejectRequest` per request; `ParseDone`; then the chain of `Can_PostFrames` and `CanIf_ReceiveOutData` |
| `Can_PostFrames` | `PostFrame(m)` per turn of its loop, `PostDone` |
| `CanIf_ReceiveOutData` | `ReceiveOutData` |
| `CEC_CAN_IRQHandler` (F042) | `CanIrq`, then transmit part, receive part, `ErrorTest` |
| `USB_HP_CAN_TX_`, `USB_LP_CAN_RX0_`, `CAN_SCE_IRQHandler` (F302) | `TxIrq`, `RxIrq`, `ErrorIrq` |
| `Can_FrameSent` | `FrameSentOk`, or `FrameNotOk` and `ClearCompleted`, per mailbox; `FrameSentDone`; then the refill |
| `Can_FrameReceived` | `FrameReceived`, `ReceiveDone` |
| `Can_BusError` | `ErrorRead`, `ErrorClear`, `AbortMailbox` per mailbox, `AbortDone` |
| bxCAN (external) | `Synchronize`, `StartTransmission`, `TransmissionOk`, `TransmissionFailed`, `ReceptionFailed`, `ReceptionOk`, `Recover` |

The flags of TSR are the sets `rqcp`, `txok` and `abrq`; TME is the complement
of the mailboxes in `pending`, which is kept in the order of the requests as
`TxFifoMode` has it (`can_if.c:51`). A transmission request, and clearing RQCP,
clear TXOK as well: that is what loses acknowledgements below. The error state
is `level`; the interrupt flag `erri` rises with every error frame, since only
LECIE is enabled (`can_if.c:500`). Mailbox `txmb` of the code is `txmb + 1`.

Three history variables: `sent` and `acked` record what was on the bus and what
was passed to `CanIf_AddMessage` as an acknowledgement; `unseen` is true from the
moment a success is discarded by the second flag test until `CanTxQ` is next refilled
or emptied.

Abstracted in `CanTx`: the bytes of the OUT stream (a transfer is a number of
complete requests, at most a quarter of the buffer, because a request takes four
bytes at least: `OutStream.BatchFits`), the content of frames (their number stands
for it), the IN pipe (an acknowledgement counts when it is handed over; joined in
`CanDybug`), and the LEDs.

### CanIfIn and the code

`CanIf_AddMessage` and `CanIf_EpInComplete` run to their end in interrupts of one
priority and touch no register that changes under them: each is one step.

| Code | Actions |
|---|---|
| `CanIf_AddMessage` with `CanIf_SendInData` | `AddMessage(m)` |
| `CanIf_EpInComplete` | `EpInComplete` |
| `CanIf_SendInData` | operator `SendInData`, with `ChunkLength`, `ChunkStart`, `Submit` |
| `CanIf_Open`, by its outcome | `OpenBadRate`, `OpenNoSync`, `OpenOk` |
| `Can_Close` | `Close` |
| USB device (external) | `LoadPacket` |

The transfer in flight is the bytes that were submitted (`flight`, a history
variable for the comparison), the slot of the last of them and how many have not
been read. The device reads from the ring itself, packet by packet: that is the
gap between submission and completion. It reads the first packet when the transfer
is submitted, and refuses a second transfer while one is in flight.

### OutStream and the code

| Code | Actions |
|---|---|
| `CanIf_EpOutComplete` up to its loop | `Packet(n)`, when the packet completes the transfer |
| a turn of the loop | `HandleRequest(n)`, or `Refuse(n)`; n is the length byte read |
| the end of the loop, `memcpy`, `CanIf_ReceiveOutData` | `Exit(n, space)` |
| `CanIf_ReceiveOutData` called by `Can_FrameSent` | `ReceiveOutData` |
| `CanIf_Open`, by its outcome; `Can_Close` | `OpenOk`, `OpenFailed`; `Close` |

`StreamOf` gives the bytes of what the host sends as a constant, of which
`OutStreamAssumption` requires only that they are its requests one behind the other
(`IsStream`). The bytes are numbered; a slot of the buffer holds the number of the
byte in it. A length byte is known when it is one of the stream; any other byte that
the loop would take for a length can be any value. `space` is what
`CanIf_ReceiveOutData` finds in `CanTxQ`, which `CanTx` models. External: a transfer
completes with a short packet (also an empty one) or when it is full; a packet
never exceeds the room left, because the endpoint holds only what the transfer has
room for; `USBD_CDC_Receive` refuses a transfer while one is requested. A host that
(re)opens begins with a request. `memcpy` with overlapping regions is undefined in
C; `Moved` is what a copy from the first byte up does, and the mutant of
`ImplementsRequests` is a copy from the last byte down, which is wrong.

### FrameCodec and the code

A register or a byte is the set of its bits that are 1, a shift moves the set.
`HandleRequest`, `FrameSent` and `FrameReceived` are the conversions of
`Can_HandleRequest`, `Can_FrameSent` and `Can_FrameReceived`; between them the bus
carries the frame to a device of the same kind (`Bus`, external). A frame of any
other node arrives by itself (`Arrival`, external): the constant `Frames` gives what it
may leave in the FIFO registers, with every length code from 0 to 15, with or without a
request for data. Bytes that the code does not write hold `Garbage`, and so does what
lies behind the 16 bytes of `buf`, which a message with a length code above 8 reads.

### Leds and the code

`Leds_Trigger` is `TriggerOther`, `TriggerOwn`, `Load`, `Start` for another colour,
`TriggerSame`, `Load`, `Start` for the same one with no pulse running; between its
register accesses the timer counts (`Tick`). The centre-aligned counter is taken to
count up to its first update event, which stops it in one-pulse mode. A pulse lasts
100 ms and the last two accesses of a trigger less than a microsecond, so it does
not run out between them (`InTime`); between the others it may.

### Device and the code

Board and crystal are chosen in the initial state and never change (`build`). Each
function of `main`'s start-up is an action led by `pc`; interrupts and the hard
fault interleave with them. `Handler` says which causes the handler of a line
serves, `Line` at which line a cause arrives. `CanIf_Open` and `Can_Close` appear
with what they do to pins and lines (including `DepInit` and `DepDeinit` of the
boards), `UsbDevice_Init` as `UsbDevice_Start`, `HostDetected` or `ChargerDetected`,
`MountDfu`, `MountCdc`, `Connect`. External: the boot loader, the USB stack, and the
drivers' calls of the board's callbacks. The boot loader is taken to start the program
with all lines disabled and nothing pending, as a reset leaves them: what
`FindsItsHandler` says of the time before the remap is that start-up itself enables
nothing.

### CanDybug and the code

A step of `CanTx` that calls `CanIf_AddMessage` is at the same time a step of the IN
pipe: `FrameSentReports`, `ReceptionReports`, `ErrorReports`. So are `Open` and
`Close`. `InInterrupt` is the completion of an IN transfer, which waits for a
running handler. All other steps leave the IN pipe alone. The acknowledgement of a
frame carries its number beside the flag of 128, where the code has its type; that
number has to fit in the byte, so `MaxFrames` is at most 127 (`CanDybugAssumption`).
Two history variables: `session` is the last frame taken before the interface was
opened, `former` says that the transfer in flight was submitted before that.

## 3. Runs

| Run | Question | Bounds |
|---|---|---|
| `queue` | is a queue a FIFO with one account of its space? | capacity 4, two element values |
| `tx_safety` | order, truth of success flags, what strands frames, room for a transfer, abort, on separate vectors | 1 request per transfer, queue of 2, 2 mailboxes, 4 frames, 2 disturbances, all error states |
| `tx_live` | on a bus that is not error passive, are OUT data requested again and again, and do all frames leave? | as above, but on the shared vector, 1 disturbance, active and passive, malformed requests |
| `tx_wedge` | (violated) does reception resume after an error-passive episode? | 3 mailboxes, 1 frame, 1 disturbance, active and passive |
| `tx_stranded` | (violated) do frames in the queue always have a mailbox under way that will fetch them? | 2 mailboxes, 3 frames, 2 disturbances, active and passive |
| `in_pipe` | is the IN ring an ordered pipe that never idles, how far are bytes in flight safe, does everything leave? | ring of 5, packets of 2, three messages of 2 and 3 bytes with their length |
| `in_overwrite` | (violated) does no byte in flight change before it is read? | as `in_pipe`, ring of 6 |
| `out_requests` | are requests handled whole, once, in order, whatever the cuts, and in the end? | buffer of 5, packets of 3, requests of 2 and 4 bytes, malformed ones of 0, 1, 3 and 6, up to four requests |
| `codec` | acceptance, round trip, frames of other nodes, and acknowledgement | requests: all combinations of 3 values in 4 identifier bytes, lengths 0 to 15, all 4 types and 2 unknown codes; frames of other nodes: all types, length codes 0 to 15, 5 identifiers |
| `leds` | one colour, a truthful latch, blinking | a pulse of 8 counts, 3 initialisations |
| `device` | handlers, wiring, connection, fault, on both boards | crystals of 0 and 8 MHz; otherwise none: every state of the start-up and of the wiring |
| `compose` | the inductive invariant and the order of frames on the shared vector; fresh reports; frames before a malformed request of the same transfer; the callbacks as users of the pipe | 2 requests per transfer and a queue of 4, 2 mailboxes, 3 frames, 1 disturbance, malformed requests, ring of 5, packets of 2 |

Why the bounds are enough. `MaxFrames` is the host's supply; four frames with two
mailboxes and a queue of two fill every place a frame can be in, so that reception
has to be refused and taken up again; three wrap the queue's three slots and reuse a
mailbox. `MaxNoise` bounds lost arbitrations, bus errors and received frames
together; one is enough to reach every error state, because an error detected between
two handlers stands for as many as it takes; two let a second error fall into the
handling of the first, and let the frame that an abort left on the air fail, which is
what it takes to strand frames. In `in_pipe` messages of two and three bytes in a
ring of six slots put a wrap at every place, within a length byte's message too, and
transfers take one to three packets. In `out_requests` a request of four bytes in a
buffer of five is cut at every place, its fragment is longer than the request before
it (the overlapping copy), and two packets fill the buffer (the sentinel behind it).
`codec` has the lengths on both sides of every limit, and every length code of a
received frame; a codec is linear in its bits,
so that three patterns per byte with a gap in one of them show a shift or an order
that is wrong. `leds` needs four counts and more in a quarter pulse and its rest to
let every access fall before and after an update. `compose` has more frames than
mailboxes, so that mailboxes and queue are both occupied when the interface is opened
again, and two requests in a transfer, so that the first can be in `CanTxQ` when the
second is refused. The theorems below do not depend on any of these bounds.

Deadlock is checked in every run but `codec`, which follows one frame and ends: the
interface can always be opened again, and the LEDs can always be switched off.

### What the violated runs show

- `tx_wedge`: when the OUT transfer that was under way completes during error
  passive, `CanIf_ReceiveOutData` declines, and after recovery no event calls
  it again. `FlowOnHealthyBus`, which holds, says that error passive is the only cause.
- `tx_stranded`: `Can_FrameSent` reads TXOK and RQCP of a mailbox one after the
  other (`can_if.c:397, 411`). A frame that completes in between is cleared as if it
  had failed. It is not acknowledged; and if the interrupt came from a mailbox that
  was aborted or failed, `ok` stays false, nothing is refilled, and the frames in
  `CanTxQ` stay there with all mailboxes empty. `StrandedOnlyByLoss`, which holds,
  says that frames are stranded in this way only.
- `in_overwrite`: the tail of `CanIf_IN` moves when a transfer is submitted, so its
  slots count as free before the host has read them. A host that is slow to read
  gets a transfer with other bytes in it, and no longer finds where messages begin.
  `OverwriteBound`, which holds and is proved, says how slow it may be.

### Further configurations

These answer the same questions on other instances, or a question close to one
above. They are kept beside the modules and are run by hand. The first four hold:

| Configuration | Question |
|---|---|
| `MCCanTx_f042.cfg` | the properties of `tx_safety` on the shared vector |
| `MCCanTx_f302.cfg` | `ServiceInv` (the inductive invariant behind the theorems) and `ImplementsStream` with separate vectors, 3 mailboxes, 3 frames, 2 disturbances |
| `MCCanTx_batch.cfg` | `ReceptionHasRoom` and `ImplementsStream` with 2 requests per transfer and a queue of 4, the proportions of the real buffer, 5 frames, malformed requests |
| `MCCanTx_live_f302.cfg` | the two properties of `tx_live` on separate vectors |

The others are violated, each by what the code does against one of its own comments or
its documentation. The properties above are stated so as to hold beside them.

- `MCCanTx_unseen.cfg`, `SuccessIsSeen`: the second flag test discards a success the
  first one missed. It is the cause of `tx_stranded`, on a healthy bus.
- `MCCanTx_lostack.cfg`, `RefillKeepsAck` ("Transmit ACK on USB", `can_if.c:399`):
  `Can_PostFrames` takes any empty mailbox, also one whose frame was just sent; the
  transmission request clears its flags. When OUT data arrives while the CAN interrupt is
  pending, the host misses an acknowledgement. `TxokIsUnreported` says that none is
  reported that was not sent, and none twice.
- `MCCanTx_stopped.cfg`, `StoppedStaysStopped` ("Stop receiving data", `can_if.c:144`):
  after a malformed request a frame accepted before it completes, and `Can_FrameSent`
  requests OUT data again.
- `MCCanIfIn_reopen.cfg`, `RoomKeepsTransfer`: the ring is emptied by `CanIf_Open` but not
  the pipe, and the first messages of the new session are put over the transfer of the
  former one.
- `MCCanDybug_reopen.cfg`, `OldReportsGone` ("empty all buffers", `can_if.c:113`): for the
  same reason an acknowledgement of the former session, in flight when the interface is
  opened again, still reaches the host. `FreshReports` says that this transfer is all
  that does.
- `MCOutStream_sessions.cfg`, `BuffersEmptied` (`can_if.c:113`): the offset is reset, but a
  transfer requested before goes on where it was, with what it has brought. `InStep`
  speaks of the sessions that are opened with no such packet.
- `MCOutStream_toolong.cfg`, `InvalidLengthRefused` ("Invalid frame length should cause
  disconnect", `can_if.c:308`): a request longer than the buffer never meets the condition
  of the loop, is kept as a fragment, and when it fills the buffer the next transfer has
  no room. `Answered` is about all that fit.
- `MCFrameCodec_foreign.cfg`, `ReceivedInTable` (`README.md:46-56`): `Can_FrameReceived`
  takes the length code of the bus as it is (`can_if.c:346`). A data frame may have a code
  above 8 and still carries 8 bytes: its message runs past `buf`, and up to 7 bytes nobody
  wrote leave the device. A remote frame has the length code of the data it asks for: its
  message has that many bytes of data, where the table has none. `FrameReported` says what
  such a message does tell.

## 4. Fairness

`FairSpec` of `CanTx` is used by `tx_live` and `tx_wedge` only.

- `WF(Handler)`: an interrupt handler runs to its end.
- `SF(CanInterrupt)`: a pending CAN interrupt is taken although USB interrupts of
  the same priority come in between: the NVIC serves pending interrupts of equal
  priority by number, and a USB interrupt cannot be raised by the host again and
  again without end between two instructions.
- `WF(Synchronize)`, `WF(StartTransmission)`, `WF(TransmissionOk)`: the bus is
  connected and eventually free, and a frame that keeps being retried succeeds.
- `WF(Recover)`: error counters fall with successful traffic.

Nothing is assumed of the host: it may stop sending, close, or reopen at any time.

`FairSpec` of `CanIfIn` (`in_pipe`): `WF(LoadPacket)`, the host keeps reading while
it is connected, which is what a host that opened the interface does;
`WF(EpInComplete)`, the interrupt of a completed transfer is taken.

`FairSpec` of `OutStream` (`out_requests`, `MCOutStream_toolong.cfg`): `WF(Loop)`, the handler runs
to its end; `SF(ReceiveOutData)`, queue space comes back again and again, which
`tx_live` shows on a bus that is not error passive; `SF(SomeBytes)`, `SF(Packet(0))`,
the host sends what it has and ends with a short packet, although it may close and
reopen in between.

`FairSpec` of `Leds` (`leds`): `WF(Handler)`, a trigger runs to its end; `WF(Tick)`,
the timer runs. Nothing is assumed about how often something triggers: `Blinks`
must hold for a burst without end and for silence.

## 5. Proofs

`QueueProofs` (every capacity above 0, every element set):

- `TypeCorrect`, `SpaceAgreement`, `FifoImplemented`. The argument is in
  `CircularQueueLemmas`: each macro is shown to do to the *contents* (the sequence
  between tail and head) what its name says, with the two copy runs of the array
  macros treated separately; the theorems then follow per action.

`CanDybugProofs`, on the transmit path alone (every buffer size of 4 and more, number
of mailboxes, of frames and of disturbances, both interrupt layouts, every set of
error states):

- `TypeCorrectness` and `RoomForReception`. That a requested transfer fits is not
  inductive: space is tested when the transfer is requested, frames are put when
  it arrives, one by one. `ControlInv` adds what links the two
  (`HandlerSteps`: nothing is requested while requests are being handled, and
  those still to be handled are counted in `todo`) and what keeps the sequence
  `pending` and the flags consistent (`MailboxFlags`), without which the type of
  `pending` is not preserved when a request ends. `FramesHeld` bounds the numbers
  of the frames held.
- `ReportsTruthful` and `StreamImplemented`. Neither holds by induction alone: that a
  step is one of `TxStream` needs that a success flag is truthful (or
  `CanIf_AddMessage` would report an unsent frame), and that a new flag is truthful
  needs the order of the stream (the frame on the air is the oldest waiting, newer
  than all sent, so not yet reported). `FramesOnce` holds both. The contents of
  mailboxes and queue are compared frame by frame, with what the ring macros do to
  the contents taken from `CircularQueueLemmas`: a refill moves the oldest queued
  frame to the place behind the mailboxes, which is where it was.
- `AbortsAreComplete`: `AbortReaches` follows the loop of `Can_BusError` through the
  mailboxes while frames complete, fail and start beside it: what the loop has passed
  is gone, or on the air with an abort request.
- `OnlyLossStrands`: `QueueAttended` says what guards frames in `CanTxQ` while no
  handler is about to refill, whenever the controller is on (also while it synchronizes
  after `CanIf_Open` gave up): a pending request that will end with a success, or a
  success nobody saw since the last refill (`unseen`). It needs two mailboxes, and the
  theorem says so: with a single one, a frame on the air that is aborted and fails
  leaves the mailbox empty without a refill, and TLC finds frames stranded behind it.
  The controllers of both boards have three.

`CanIfInProofs` (every ring size and packet size above 0, every set of messages of 1
to 254 bytes):

- `TypeCorrectIn`, `NeverIdle`, `OverwriteBounded`, `PipeImplemented`. None is
  inductive by itself. The inductive invariant adds to them that a transfer is one
  run of ring slots that ends at the tail unless the ring was emptied since
  (`TransferInRing`), and where its unread bytes are. What the ring macros do to the
  contents is taken from `CircularQueueLemmas`; `PipeImplemented` adds that the chunk
  of `CanIf_SendInData` is a prefix of the contents, at each of its three cases.

`CanDybugProofs`, on the composition (every size of both parts):

- `CompositionInvariant` and `CompositionStream`: every step of `CanDybug` is a step
  of `CanTx` or leaves it alone (`TransmitPart`), so the theorems above carry over.
- `InImplemented`: every step is one of `CanIfIn`. It needs that CAN handlers run only
  while the controller is on, and the controller is on only between `CanIf_Open` and
  `Can_Close` (`Enabled`): or a callback would report into a closed pipe. And it needs
  that a success flag is truthful, from the invariant of `CanTx`: or the message
  reported would name no frame.
- `ReportsAreOfTheSession`: `FreshReports` speaks of what the session hands to the host
  (`Told`: the ring, and before it the transfer in flight unless it was submitted before
  `CanIf_Open`), but what reaches it comes from the mailboxes and the queue. `FreshInv`
  says of all of them that frames held in an open session are newer than the session
  (`Newer`), and of `Told` that an acknowledgement is in it at most once and only of a
  frame reported since. A frame enters the ring when its success flag is seen; that it is
  not there already is the truth of the flag (`TxokIsUnreported`), which is why the
  invariant of `CanTx` is part of the argument. Submitting a transfer moves bytes from
  the ring to the transfer without changing `Told` (`SendKeepsBytes`), a completed
  transfer only takes bytes away (`CompletedFresh`), and `CanIf_Open` empties ring, queue
  and mailboxes at once and leaves the transfer in flight to the former session.
- `MessagesFitPipe`: the messages of the composition are byte sequences as `CanIfIn`
  requires them. The number of a frame shares a byte with the flag, which is what
  `MaxFrames \in 0..127` is for.

`OutStreamProofs` (every buffer size, packet size and host within
`OutStreamAssumption`):

- `SentinelFits`: `BufferInv` adds where the transfer lies (behind the fragment as it
  was when the transfer was requested, or behind a smaller one after `CanIf_Open`) and
  that nothing is requested while the loop runs, so that no packet meets the loop.
- `StreamTypes` and `BatchesFit`: `BatchInv` counts the requests of a batch in bytes of
  the buffer, `MinRequest` for each, together with the bytes the loop still has.
- `BufferFollowsStream` and `StreamImplementsRequests`: `StreamInv` says that, while
  the host's stream is read from a boundary on, the bytes held (the fragment or what
  the loop has left, and the transfer behind it) are the last bytes received, in their
  order, and begin just behind the requests handled. From it follows that what the loop
  reads as a length byte is one, so that a turn handles the next request of the
  abstract specification. The step that keeps it at the exit of the loop is the copy
  of the fragment over itself from the first byte up. What the bytes of the host's
  requests are is not a recursion but the assumption `IsStream`, which ties each byte to
  the one before; that the requests complete within the first bytes are those that end
  there is proved by induction over the bytes, for sets (`SetInduction`, from the
  well-foundedness of `<` in the library) rather than for operators.

`FrameCodecProofs` (every request of 14 bytes and any length, every frame of another
node, every content of unwritten memory):

- `CodecTypes`, `TableAccepted`, `FrameComesBack`, `EveryFrameReported`, `AckNames`. The
  lemmas say which bit
  a shift (`ShlBit`, `ShrBit`) and a byte reversal (`RevByte`, `Rev16Byte`) puts where,
  and from them `IdBits`: where each identifier byte of a request stands in the
  register, and that its other bits are the type; and `StoredId`: what the stores of
  `Can_FrameReceived` bring back of them. `TableAccepted` rests on the type bits of
  the register being those of the request whatever the identifier bytes hold, also
  those beyond the request. `CodecInv` carries the frame from stage to stage.
  `FrameComesBack` is about frames between two of these devices only;
  `EveryFrameReported` is about the frames of any node, and follows from what
  `ReceivedMessage` does to any registers. No theorem says that no unwritten byte leaves
  the device: `MCFrameCodec_foreign.cfg` shows that some do.

`LedsProofs` (every length of a pulse, any number of openings):

- `OneColourLit` and `LatchTells`: `Registers` says what the preload and the active
  registers hold before each register access of a trigger, whichever of the two an
  update event in between has touched; the latch is true at the end because the pair
  was complete before the update that `Load` forces.
- `RegistersTyped`: that the counter never passes the period needs that a running
  timer is below it (`TypesInv`).

`DeviceProofs` (both boards, every set of crystals):

- `DeviceTypes`, `CompleteWhenConnected`, `HandlersFound`, `WiringKept`. `StartUp` says
  for each step of the start-up what has been done before it (vectors, bound handles,
  clock, mounted interfaces), `Wiring` which lines and pins hold from when to when:
  lines are enabled only after the remap, and an open CAN interface implies a
  connected device. `ClockIs48` shows that the multipliers of both boards reach
  48 MHz from every crystal that the build can take.
- `UpdateOffered`: the boot loader leaves the application without the DFU tag only
  after the update (`StartUp`, its third conjunct).

All theorems rest on the named assumptions `QueueAssumption`, `CanTxAssumption`,
`CanIfInAssumption`, `OutStreamAssumption`, `FrameCodecAssumption`,
`LedsAssumption`, `DeviceAssumption` and `CanDybugAssumption` only; TLC evaluates them.

Every safety property that a passing run checks is proved, and so is every
refinement. Out of reach of the prover, and therefore only model-checked, are the
liveness properties, which need fairness and ENABLED: `FlowOnHealthyBus` and
`FramesLeaveHealthyBus` of `CanTx`, `TailMoves` of `CanIfIn`, `Answered` of
`OutStream`, `Blinks` of `Leds`. The refinements are proved as to what a step does; the
abstract specifications state no fairness.

## 6. Not modelled

- The USB device stack, the peripheral drivers and the boot loader: their sources
  are not in the repository. What the code relies on of them is part of the modules
  that use it, and external in the map.
- The linker scripts beyond which RAM survives a reset, the vendor's table of weak
  handlers, the USB descriptors, and the values written to pins: build description
  and data. `UsbDevice_Deinit` is never called.
- Joining the OUT stream with the transmit path: they share the queue space only,
  which each takes from the other as a choice (`space` in `OutStream`, the number of
  requests in `CanTx`); the product would add states and no shared state.

## 7. Plan

1. Done: all components of section 1 modelled and checked; all their safety
   properties and refinements proved.
2. The part of the liveness properties that is not temporal: that a state with work to
   do always has a step that does it (a progress invariant per component), as theorems.
3. Joining `FrameCodec` with the buffer of `OutStream`: a request handled there has all
   its bytes in the buffer, which is what `FrameCodec` takes as given.
