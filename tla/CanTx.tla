------------------------------- MODULE CanTx -------------------------------
(***************************************************************************)
(* The transmit path of App/can_if.c: requests taken from the USB OUT pipe *)
(* into CanTxQ, the three CAN mailboxes fed from it, the acknowledgements, *)
(* the reaction to bus errors, and the flow control of the OUT pipe.       *)
(*                                                                         *)
(* All interrupts have the same priority (bsp_can.c:36, bsp_usb.c:48), so  *)
(* one handler runs at a time, to its end.  The CAN controller does not    *)
(* wait for it: frames complete and errors are detected between any two    *)
(* register accesses of a handler.  A handler is therefore a chain of      *)
(* steps, one per access to a CAN register, that pc leads through; a step  *)
(* of the chain is never optional.                                         *)
(*                                                                         *)
(* Frames are numbered in the order Can_HandleRequest accepts them.  The   *)
(* bytes of the OUT stream and of the IN stream are abstracted.            *)
(***************************************************************************)
EXTENDS CircularQueue, SequencesExt

CONSTANTS
    OutSize,     \* CANIF_OUT_DATA_SIZE, bytes of the OUT buffer (128)
    MailboxCount, \* transmit mailboxes of the CAN controller (3)
    MaxFrames,   \* bound: frames the host sends
    MaxNoise,    \* bound: bus errors, lost arbitrations and received frames
    SharedIrq,   \* TRUE: one CAN vector (STM32F042); FALSE: one vector for
                 \* each of transmit, receive and error (STM32F302)
    ErrorLevels, \* the error states that bus errors can lead to
    MayReject    \* whether the host may send a malformed request

ASSUME CanTxAssumption ==
    /\ OutSize \in Nat /\ OutSize >= 4
    /\ MailboxCount \in Nat \ {0}
    /\ MaxFrames \in Nat
    /\ MaxNoise \in Nat
    /\ SharedIrq \in BOOLEAN
    /\ ErrorLevels \subseteq {"active", "warning", "passive", "busoff"}
    /\ MayReject \in BOOLEAN

\* QUEUE_DEF(CanTxQ, CAN_TxMailBox_TypeDef, (CANIF_OUT_DATA_SIZE / 2))
TxCapacity == OutSize \div 2

\* Fault: half the threshold.
ReceiveSpaceHalved == OutSize \div 8

\* Free elements of CanTxQ below which no OUT data is requested.
ReceiveSpace == OutSize \div 4

\* A request takes 4 bytes at least (a standard frame without data), so this
\* is the most requests one full OUT buffer can complete.
MaxBatch == OutSize \div 4

Frame     == 1..MaxFrames
NoFrame   == 0

\* Mailbox number txmb of the code is txmb + 1 here.
Mailboxes == 1..MailboxCount
NoMailbox == 0

\* Error state of the CAN controller (ESR.EWGF, EPVF and BOFF), best first.
Levels == {"active", "warning", "passive", "busoff"}
Worse(l) == CASE l = "active"  -> Levels
              [] l = "warning" -> Levels \ {"active"}
              [] l = "passive" -> {"passive", "busoff"}
              [] l = "busoff"  -> {"busoff"}

NextWorse(l) == CASE l = "active"  -> {"warning"}
                  [] l = "warning" -> {"passive"}
                  [] OTHER         -> {"busoff"}

\* The mask that keeps OUT reception off and aborts transmission.
Blocking == {"passive", "busoff"}

VARIABLES
    queue,    \* CanTxQ
    taken,    \* number of the last frame accepted from the host
    armed,    \* an OUT transfer is requested with USBD_CDC_Receive
    todo,     \* requests of the OUT transfer in hand not yet handled
    port,     \* "closed", "failed" or "open": outcome of the last CanIf_Open
    stopped,  \* a malformed request was seen since the last CanIf_Open
    mailbox,  \* content of each transmit mailbox
    pending,  \* mailboxes with a transmission request, oldest request first
    onAir,    \* the mailbox being transmitted, or NoMailbox
    rqcp,     \* mailboxes whose TSR.RQCP flag is set
    txok,     \* mailboxes whose TSR.TXOK flag is set
    abrq,     \* mailboxes being transmitted with an abort request
    can,      \* "off", "syncing" or "running"
    level,    \* error state
    lec,      \* ESR.LEC holds the code of an error
    erri,     \* MSR.ERRI, the error interrupt flag
    fmp,      \* frames in receive FIFO 0
    noise,    \* disturbances so far
    pc,       \* next step of the running handler, "idle" when none runs
    mb,       \* loop variable txmb of the running handler, 1 outside its loop
    ok,       \* Can_FrameSent's ok, FALSE outside it
    seen,     \* error state Can_BusError has read, "active" outside it
    sent,     \* history: frames that were on the bus
    acked,    \* history: frames acknowledged with CanIf_AddMessage
    unseen    \* history: a success was discarded since the last refill

host     == <<taken, armed, todo, port, stopped>>
requests == <<mailbox, pending, onAir, rqcp, txok, abrq>>
errors   == <<level, lec, erri>>
bus      == <<can, fmp, noise>>
handler  == <<pc, mb, ok, seen>>
history  == <<sent, acked, unseen>>
vars == <<queue, host, requests, errors, bus, handler, history>>

Steps == {"idle", "parse", "outPost", "outReceive", "txTxok", "txRqcp",
          "txPost", "txReceive", "receive", "errorTest", "errorRead",
          "errorClear", "abort"}

HostType ==
    /\ taken \in 0..MaxFrames
    /\ armed \in BOOLEAN
    /\ todo \in 0..MaxBatch
    /\ port \in {"closed", "failed", "open"}
    /\ stopped \in BOOLEAN

RequestsType ==
    /\ mailbox \in [Mailboxes -> Frame \cup {NoFrame}]
    /\ pending \in Seq(Mailboxes)
    /\ onAir \in Mailboxes \cup {NoMailbox}
    /\ rqcp \in SUBSET Mailboxes
    /\ txok \in SUBSET rqcp
    /\ abrq \in SUBSET Mailboxes

ErrorsType == level \in Levels /\ lec \in BOOLEAN /\ erri \in BOOLEAN

BusType ==
    /\ can \in {"off", "syncing", "running"}
    /\ fmp \in 0..3
    /\ noise \in 0..MaxNoise

HandlerType ==
    /\ pc \in Steps
    /\ mb \in 1..(MailboxCount + 1)
    /\ ok \in BOOLEAN
    /\ seen \in Levels

HistoryType ==
    sent \in SUBSET Frame /\ acked \in SUBSET Frame /\ unseen \in BOOLEAN

TypeOK ==
    /\ queue \in Queue(TxCapacity, Frame \cup {NoFrame})
    /\ HostType /\ RequestsType /\ ErrorsType
    /\ BusType /\ HandlerType /\ HistoryType

Init ==
    /\ queue = QueueDef(TxCapacity, NoFrame)
    /\ taken = 0 /\ armed = FALSE /\ todo = 0
    /\ port = "closed" /\ stopped = FALSE
    /\ mailbox = [m \in Mailboxes |-> NoFrame]
    /\ pending = <<>> /\ onAir = NoMailbox
    /\ rqcp = {} /\ txok = {} /\ abrq = {}
    /\ can = "off" /\ fmp = 0 /\ noise = 0
    /\ level = "active" /\ lec = FALSE /\ erri = FALSE
    /\ pc = "idle" /\ mb = 1 /\ ok = FALSE /\ seen = "active"
    /\ sent = {} /\ acked = {} /\ unseen = FALSE

Requested == {pending[i] : i \in DOMAIN pending}

\* Mailboxes with TSR.TME set.
Empty == Mailboxes \ Requested

\* What is left of pending when the request of m is over.
Place(m)   == CHOOSE i \in DOMAIN pending : pending[i] = m
Without(m) == RemoveAt(pending, Place(m))
-----------------------------------------------------------------------------
(***************************************************************************)
(* CanIf_Open and Can_Close, run from the USB interrupt.                   *)
(***************************************************************************)
\* The CAN peripheral is reset: no request, no flag, no error is left.
ResetCan ==
    /\ pending' = <<>> /\ onAir' = NoMailbox
    /\ rqcp' = {} /\ txok' = {} /\ abrq' = {}
    /\ level' = "active" /\ lec' = FALSE /\ erri' = FALSE
    /\ fmp' = 0
    /\ UNCHANGED <<mailbox, noise>>

\* The baudrate cannot be made: Can_Setup fails after the peripheral was
\* reset, and CAN_eInit is not reached.
OpenBadRate ==
    /\ pc = "idle"
    /\ ResetCan
    /\ port' = "failed" /\ can' = "off"
    /\ UNCHANGED <<queue, taken, armed, todo, stopped, handler, history>>

\* CAN_eInit gives up waiting for the bus: Can_Start has enabled the
\* interrupts and reset the queue all the same.
OpenNoSync ==
    /\ pc = "idle"
    /\ ResetCan
    /\ port' = "failed" /\ can' = "syncing"
    /\ queue' = QueueReset(queue)
    /\ unseen' = FALSE
    /\ UNCHANGED <<taken, armed, todo, stopped, handler, sent, acked>>

\* The queue was just emptied and the error state is that of a reset, so
\* CanIf_ReceiveOutData requests OUT data (a transfer already requested
\* stays as it is).
OpenOk ==
    /\ pc = "idle"
    /\ ResetCan
    /\ port' = "open" /\ can' = "running" /\ stopped' = FALSE
    /\ queue' = QueueReset(queue)
    /\ armed' = TRUE /\ unseen' = FALSE
    /\ UNCHANGED <<taken, todo, handler, sent, acked>>

CanIf_Open == OpenBadRate \/ OpenNoSync \/ OpenOk

\* The device is disconnected: its endpoints are closed with it.
Can_Close ==
    /\ pc = "idle" /\ port # "closed"
    /\ ResetCan
    /\ port' = "closed" /\ can' = "off" /\ armed' = FALSE
    /\ UNCHANGED <<queue, taken, todo, stopped, handler, history>>

-----------------------------------------------------------------------------
(***************************************************************************)
(* CanIf_EpOutComplete: the requested OUT data has arrived.                *)
(***************************************************************************)
\* n requests are complete with the bytes just received.
OutComplete(n) ==
    /\ pc = "idle" /\ armed
    /\ taken + n <= MaxFrames
    /\ armed' = FALSE /\ todo' = n /\ pc' = "parse"
    /\ UNCHANGED <<queue, taken, port, stopped, requests, errors, bus,
                   mb, ok, seen, history>>

\* One turn of the loop in which Can_HandleRequest accepts a frame.
HandleRequest ==
    /\ pc = "parse" /\ todo > 0
    /\ queue' = QueuePut(queue, taken + 1)
    /\ taken' = taken + 1 /\ todo' = todo - 1
    /\ UNCHANGED <<armed, port, stopped, requests, errors, bus, handler,
                   history>>

\* The request is malformed: the handler returns at once.
RejectRequest ==
    /\ pc = "parse" /\ todo > 0 /\ MayReject
    /\ todo' = 0 /\ stopped' = TRUE /\ pc' = "idle"
    /\ UNCHANGED <<queue, taken, armed, port, requests, errors, bus,
                   mb, ok, seen, history>>

ParseDone ==
    /\ pc = "parse" /\ todo = 0
    /\ pc' = "outPost"
    /\ UNCHANGED <<queue, host, requests, errors, bus, mb, ok, seen, history>>

\* TSR.CODE names the empty mailbox of the lowest number.
IsNextMailbox(m) == m \in Empty /\ \A n \in Empty : m <= n

\* Can_PostFrames, one turn of its loop: the oldest frame goes to the mailbox
\* TSR names.  The transmission request clears the flags of the mailbox.
PostFrame(m) ==
    /\ pc \in {"outPost", "txPost"}
    /\ ~QueueEmpty(queue) /\ IsNextMailbox(m)
    /\ mailbox' = [mailbox EXCEPT ![m] = QueueFront(queue)]
    /\ queue' = QueueGet(queue)
    /\ pending' = Append(pending, m)
    /\ rqcp' = rqcp \ {m} /\ txok' = txok \ {m}
    /\ UNCHANGED <<host, onAir, abrq, errors, bus, handler, history>>

\* The step after the transmit and after the receive part of a CAN interrupt.
AfterTx == IF SharedIrq THEN "receive" ELSE "idle"
AfterRx == IF SharedIrq THEN "errorTest" ELSE "idle"

\* Fault: CanIf_ReceiveOutData is not called after an acknowledgement.
PostDoneNoReceive ==
    /\ pc \in {"outPost", "txPost"}
    /\ QueueEmpty(queue) \/ Empty = {}
    /\ pc' = IF pc = "outPost" THEN "outReceive" ELSE AfterTx
    /\ unseen' = FALSE
    /\ UNCHANGED <<queue, host, requests, errors, bus, mb, ok, seen, sent, acked>>

PostDone ==
    /\ pc \in {"outPost", "txPost"}
    /\ QueueEmpty(queue) \/ Empty = {}
    /\ pc' = IF pc = "outPost" THEN "outReceive" ELSE "txReceive"
    /\ unseen' = FALSE
    /\ UNCHANGED <<queue, host, requests, errors, bus, mb, ok, seen, sent, acked>>

\* CanIf_ReceiveOutData.  The USB device refuses it while it is closed.
ReceiveOutData ==
    /\ pc \in {"outReceive", "txReceive"}
    /\ armed' = \/ armed
                \/ /\ QueueSpace(queue) >= ReceiveSpace
                   /\ level \notin Blocking
                   /\ port # "closed"
    /\ pc' = IF pc = "outReceive" THEN "idle" ELSE AfterTx
    /\ UNCHANGED <<queue, taken, todo, port, stopped, requests, errors, bus,
                   mb, ok, seen, history>>

-----------------------------------------------------------------------------
(***************************************************************************)
(* The CAN interrupt and Can_FrameSent.                                    *)
(***************************************************************************)
\* CEC_CAN_IRQHandler (STM32F042) is entered for any enabled cause and tests
\* the flags itself.
CanIrq ==
    /\ SharedIrq /\ pc = "idle" /\ can # "off"
    /\ rqcp # {} \/ fmp > 0 \/ erri
    /\ pc' = IF rqcp # {} THEN "txTxok" ELSE "receive"
    /\ UNCHANGED <<queue, host, requests, errors, bus, mb, ok, seen, history>>

\* The three vectors of the STM32F302 call one handler each, untested.
TxIrq ==
    /\ ~SharedIrq /\ pc = "idle" /\ can # "off" /\ rqcp # {}
    /\ pc' = "txTxok"
    /\ UNCHANGED <<queue, host, requests, errors, bus, mb, ok, seen, history>>

RxIrq ==
    /\ ~SharedIrq /\ pc = "idle" /\ can # "off" /\ fmp > 0
    /\ pc' = "receive"
    /\ UNCHANGED <<queue, host, requests, errors, bus, mb, ok, seen, history>>

ErrorIrq ==
    /\ ~SharedIrq /\ pc = "idle" /\ can # "off" /\ erri
    /\ pc' = "errorRead"
    /\ UNCHANGED <<queue, host, requests, errors, bus, mb, ok, seen, history>>

\* Fault: the flags of an acknowledged mailbox are not cleared.
FrameSentOkKeepsFlags ==
    /\ pc = "txTxok" /\ mb \in txok
    /\ acked' = acked \cup {mailbox[mb]}
    /\ ok' = TRUE /\ mb' = mb + 1
    /\ UNCHANGED <<queue, host, requests, errors, bus, pc, seen, sent, unseen>>

\* Fault: RQCP is taken for success.
FrameSentOkAtRqcp ==
    /\ pc = "txTxok" /\ mb \in rqcp
    /\ acked' = acked \cup {mailbox[mb]}
    /\ rqcp' = rqcp \ {mb} /\ txok' = txok \ {mb}
    /\ ok' = TRUE /\ mb' = mb + 1
    /\ UNCHANGED <<queue, host, mailbox, pending, onAir, abrq, errors, bus,
                   pc, seen, sent, unseen>>

\* Fault: only the flags of the last mailbox decide whether to refill.
FrameSentOkLastOnly ==
    /\ pc = "txTxok" /\ mb \in txok
    /\ acked' = acked \cup {mailbox[mb]}
    /\ rqcp' = rqcp \ {mb} /\ txok' = txok \ {mb}
    /\ ok' = (mb = MailboxCount) /\ mb' = mb + 1
    /\ UNCHANGED <<queue, host, mailbox, pending, onAir, abrq, errors, bus,
                   pc, seen, sent, unseen>>

\* A mailbox whose frame was sent: acknowledge it and clear its flags.
FrameSentOk ==
    /\ pc = "txTxok" /\ mb \in txok
    /\ acked' = acked \cup {mailbox[mb]}
    /\ rqcp' = rqcp \ {mb} /\ txok' = txok \ {mb}
    /\ ok' = TRUE /\ mb' = mb + 1
    /\ UNCHANGED <<queue, host, mailbox, pending, onAir, abrq, errors, bus,
                   pc, seen, sent, unseen>>

\* Fault: the loop over the mailboxes runs one too far.
FrameNotOkPastLast ==
    /\ pc = "txTxok" /\ mb <= MailboxCount + 1 /\ mb \notin txok
    /\ pc' = "txRqcp"
    /\ UNCHANGED <<queue, host, requests, errors, bus, mb, ok, seen, history>>

FrameNotOk ==
    /\ pc = "txTxok" /\ mb <= MailboxCount /\ mb \notin txok
    /\ pc' = "txRqcp"
    /\ UNCHANGED <<queue, host, requests, errors, bus, mb, ok, seen, history>>

\* The second test of the mailbox, of RQCP alone: clearing it clears TXOK.
ClearCompleted ==
    /\ pc = "txRqcp"
    /\ rqcp' = rqcp \ {mb} /\ txok' = txok \ {mb}
    /\ unseen' = (unseen \/ mb \in txok)
    /\ mb' = mb + 1 /\ pc' = "txTxok"
    /\ UNCHANGED <<queue, host, mailbox, pending, onAir, abrq, errors, bus,
                   ok, seen, sent, acked>>

\* Fault: the mailboxes are not refilled after an acknowledgement.
FrameSentDoneNoRefill ==
    /\ pc = "txTxok" /\ mb = MailboxCount + 1
    /\ pc' = IF ok THEN "txReceive" ELSE AfterTx
    /\ mb' = 1 /\ ok' = FALSE
    /\ UNCHANGED <<queue, host, requests, errors, bus, seen, history>>

FrameSentDone ==
    /\ pc = "txTxok" /\ mb = MailboxCount + 1
    /\ pc' = IF ok THEN "txPost" ELSE AfterTx
    /\ mb' = 1 /\ ok' = FALSE
    /\ UNCHANGED <<queue, host, requests, errors, bus, seen, history>>

\* Can_FrameReceived reads the FIFO until it is empty.
FrameReceived ==
    /\ pc = "receive" /\ fmp > 0
    /\ fmp' = fmp - 1
    /\ UNCHANGED <<queue, host, requests, errors, can, noise, handler, history>>

ReceiveDone ==
    /\ pc = "receive" /\ fmp = 0
    /\ pc' = AfterRx
    /\ UNCHANGED <<queue, host, requests, errors, bus, mb, ok, seen, history>>

-----------------------------------------------------------------------------
(***************************************************************************)
(* Can_BusError.                                                           *)
(***************************************************************************)
\* CEC_CAN_IRQHandler calls it for a recorded error or a raised level.
ErrorTest ==
    /\ pc = "errorTest"
    /\ pc' = IF lec \/ level # "active" THEN "errorRead" ELSE "idle"
    /\ UNCHANGED <<queue, host, requests, errors, bus, mb, ok, seen, history>>

ErrorRead ==
    /\ pc = "errorRead"
    /\ seen' = level /\ pc' = "errorClear"
    /\ UNCHANGED <<queue, host, requests, errors, bus, mb, ok, history>>

ErrorClear ==
    /\ pc = "errorClear"
    /\ erri' = FALSE
    /\ pc' = IF seen \in Blocking THEN "abort" ELSE "idle"
    /\ seen' = "active"
    /\ UNCHANGED <<queue, host, requests, level, lec, bus, mb, ok, history>>

\* An abort request ends a waiting transmission at once; one on the air ends
\* by itself.  It does nothing to an empty mailbox.
AbortMailbox ==
    /\ pc = "abort" /\ mb <= MailboxCount
    /\ mb' = mb + 1
    /\ IF mb \in Requested /\ mb # onAir
       THEN /\ pending' = Without(mb) /\ rqcp' = rqcp \cup {mb}
            /\ UNCHANGED abrq
       ELSE /\ abrq' = IF mb = onAir THEN abrq \cup {mb} ELSE abrq
            /\ UNCHANGED <<pending, rqcp>>
    /\ UNCHANGED <<queue, host, mailbox, onAir, txok, errors, bus, pc, ok,
                   seen, history>>

\* Fault: the transmit queue survives the abort.
AbortDoneKeepsQueue ==
    /\ pc = "abort" /\ mb = MailboxCount + 1
    /\ pc' = "idle" /\ mb' = 1 /\ unseen' = FALSE
    /\ UNCHANGED <<queue, host, requests, errors, bus, ok, seen, sent, acked>>

AbortDone ==
    /\ pc = "abort" /\ mb = MailboxCount + 1
    /\ queue' = QueueReset(queue)
    /\ pc' = "idle" /\ mb' = 1 /\ unseen' = FALSE
    /\ UNCHANGED <<host, requests, errors, bus, ok, seen, sent, acked>>

-----------------------------------------------------------------------------
(***************************************************************************)
(* The CAN controller and the bus.                                         *)
(***************************************************************************)
Synchronize ==
    /\ can = "syncing" /\ can' = "running"
    /\ UNCHANGED <<queue, host, requests, errors, fmp, noise, handler, history>>

\* Fault: without TxFifoMode the mailbox of the lowest number goes first.
StartTransmissionByNumber ==
    /\ can = "running" /\ level # "busoff"
    /\ onAir = NoMailbox /\ pending # <<>>
    /\ onAir' \in {m \in Requested : \A n \in Requested : m <= n}
    /\ UNCHANGED <<queue, host, mailbox, pending, rqcp, txok, abrq, errors,
                   bus, handler, history>>

\* TxFifoMode: the oldest request is transmitted first.
StartTransmission ==
    /\ can = "running" /\ level # "busoff"
    /\ onAir = NoMailbox /\ pending # <<>>
    /\ onAir' = Head(pending)
    /\ UNCHANGED <<queue, host, mailbox, pending, rqcp, txok, abrq, errors,
                   bus, handler, history>>

TransmissionOk ==
    /\ onAir # NoMailbox
    /\ sent' = sent \cup {mailbox[onAir]}
    /\ pending' = Without(onAir) /\ onAir' = NoMailbox
    /\ rqcp' = rqcp \cup {onAir} /\ txok' = txok \cup {onAir}
    /\ abrq' = abrq \ {onAir}
    /\ lec' = FALSE
    /\ UNCHANGED <<queue, host, mailbox, level, erri, bus, handler, acked,
                   unseen>>

\* Error frames: the code is recorded, the error counters may cross limits,
\* one at a time while a handler runs.  Between handlers one step stands for
\* as many errors as it takes.
ErrorDetected(limits) ==
    /\ lec' = TRUE /\ erri' = TRUE
    /\ level' \in {level} \cup
           ((IF pc = "idle" THEN Worse(level) ELSE NextWorse(level)) \cap limits)

\* A failed transmission is retried unless it was to be aborted.
TransmissionFailed ==
    /\ onAir # NoMailbox /\ noise < MaxNoise
    /\ noise' = noise + 1 /\ onAir' = NoMailbox
    /\ IF onAir \in abrq
       THEN /\ pending' = Without(onAir)
            /\ rqcp' = rqcp \cup {onAir} /\ abrq' = abrq \ {onAir}
       ELSE UNCHANGED <<pending, rqcp, abrq>>
    /\ \/ ErrorDetected(ErrorLevels)
       \/ UNCHANGED errors
    /\ UNCHANGED <<queue, host, mailbox, txok, can, fmp, handler, history>>

\* Errors of a receiver do not lead to bus off.
ReceptionFailed ==
    /\ can = "running" /\ onAir = NoMailbox /\ noise < MaxNoise
    /\ noise' = noise + 1
    /\ ErrorDetected(ErrorLevels \ {"busoff"})
    /\ UNCHANGED <<queue, host, requests, can, fmp, handler, history>>

ReceptionOk ==
    /\ can = "running" /\ onAir = NoMailbox /\ level # "busoff"
    /\ noise < MaxNoise /\ fmp < 3
    /\ noise' = noise + 1 /\ fmp' = fmp + 1 /\ lec' = FALSE
    /\ UNCHANGED <<queue, host, requests, level, erri, can, handler, history>>

\* The error counters have fallen with the traffic on the bus.
Recover ==
    /\ can = "running" /\ level \in {"warning", "passive"}
    /\ level' = "active"
    /\ UNCHANGED <<queue, host, requests, lec, erri, bus, handler, history>>

-----------------------------------------------------------------------------
Handler ==
    \/ HandleRequest \/ RejectRequest \/ ParseDone
    \/ \E m \in Mailboxes : PostFrame(m)
    \/ PostDone \/ ReceiveOutData
    \/ FrameSentOk \/ FrameNotOk \/ ClearCompleted \/ FrameSentDone
    \/ FrameReceived \/ ReceiveDone
    \/ ErrorTest \/ ErrorRead \/ ErrorClear \/ AbortMailbox \/ AbortDone

CanInterrupt == CanIrq \/ TxIrq \/ RxIrq \/ ErrorIrq

UsbInterrupt == CanIf_Open \/ Can_Close \/ \E n \in 0..MaxBatch : OutComplete(n)

Controller ==
    \/ Synchronize \/ StartTransmission \/ TransmissionOk \/ TransmissionFailed
    \/ ReceptionFailed \/ ReceptionOk \/ Recover

Next == Handler \/ CanInterrupt \/ UsbInterrupt \/ Controller

Spec == Init /\ [][Next]_vars

\* A running handler finishes, a pending CAN interrupt is taken even when
\* the USB interrupt is taken before it now and then, a transmission that
\* keeps being started succeeds in the end, and the controller leaves a
\* passed error state.
FairSpec ==
    /\ Spec
    /\ WF_vars(Handler)
    /\ SF_vars(CanInterrupt)
    /\ WF_vars(Synchronize) /\ WF_vars(StartTransmission)
    /\ WF_vars(TransmissionOk) /\ WF_vars(Recover)

-----------------------------------------------------------------------------
\* Can_HandleRequest puts frames without a look at the space: the test made
\* when the transfer was requested (can_if.c:169) must still cover whatever
\* one transfer can bring when it arrives, and what is left of it to handle.
ReceptionHasRoom ==
    /\ armed => QueueSpace(queue) >= MaxBatch
    /\ todo <= QueueSpace(queue)

\* A TXOK flag always speaks for the frame its mailbox still holds: that
\* frame was on the bus and has not been acknowledged.  So no frame is
\* reported that was not sent, and none twice, although the mailboxes are
\* refilled from two handlers while the controller sets flags.
TxokIsUnreported == \A m \in txok : mailbox[m] \in sent \ acked

\* Between handlers, frames in CanTxQ wait for an interrupt that will come
\* (can_if.c:421 is the only refill after the request): a request is pending,
\* or a success is about to be handled.  What can break this is a success that
\* Can_FrameSent discarded unseen since the mailboxes were last refilled, and
\* nothing else.  It holds also while the controller is still synchronizing
\* after a failed CanIf_Open.  A malformed request ends the service until the
\* next CanIf_Open.
Serving == can # "off" /\ ~stopped
StrandedOnlyByLoss ==
    pc = "idle" /\ Serving /\ ~QueueEmpty(queue)
        => pending # <<>> \/ txok # {} \/ unseen

\* The frames taken from the host and neither sent nor discarded.
Waiting == [i \in 1..Len(pending) |-> mailbox[pending[i]]]
               \o QueueContents(queue)

\* Mailboxes, queue and their two refills implement the ordered stream of
\* README.md:55: "always transmitted in the order they are sent".
Stream == INSTANCE TxStream WITH waiting <- Waiting
ImplementsStream == Stream!Spec

\* "Stop transmitting at high error rates" (can_if.c:452): when Can_BusError
\* is done, of all frames taken before at most the one on the air is left,
\* and it is not retried.
AbortLeavesAtMostOne ==
    [][AbortDone => /\ Len(Waiting') <= 1
                    /\ Requested' \subseteq abrq']_vars

\* The interface was opened, and no malformed request was seen since.
InService == port = "open" /\ ~stopped

\* As long as the bus is not seen error passive, flow control never locks up:
\* the OUT pipe is requested again and again while the interface is open
\* ("Continue receiving new OUT data when there is enough CAN TX FIFO space",
\* can_if.c:163).
Healthy == level \notin Blocking
FlowResumes == InService ~> (armed \/ ~InService)
FlowOnHealthyBus == []Healthy => FlowResumes

\* ... and every frame taken from the host leaves the device.  The host sends
\* finitely many, so all leave if and only if the backlog empties.
FramesLeave == InService ~> (Waiting = <<>> \/ ~InService)
FramesLeaveHealthyBus == []Healthy => FramesLeave

-----------------------------------------------------------------------------
\* "check all mailboxes for successful interrupt requests" (can_if.c:394):
\* the second test of a mailbox never discards a success the first missed.
SuccessIsSeen ==
    [][ClearCompleted => mb \notin txok]_vars

\* "Fill empty mailboxes with available queue data" (can_if.c:420): frames in
\* CanTxQ do not stay behind when the mailboxes have become empty.
NoStranding ==
    pc = "idle" /\ InService /\ ~QueueEmpty(queue) => pending # <<>> \/ txok # {}

\* "Transmit ACK on USB" (can_if.c:399): a mailbox is not refilled before the
\* frame it sent is acknowledged.
RefillKeepsAck ==
    [][\A m \in Mailboxes : PostFrame(m) => m \notin txok]_vars

\* "Stop receiving data" (can_if.c:144): after a malformed request nothing is
\* received until the next CanIf_Open.
StoppedStaysStopped == stopped => ~armed
=============================================================================
