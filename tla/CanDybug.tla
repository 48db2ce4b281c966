----------------------------- MODULE CanDybug -----------------------------
(***************************************************************************)
(* The transmit path (CanTx) and the IN pipe (CanIfIn) together, as the    *)
(* callbacks and CanIf_Open of App/can_if.c join them: a step of a handler *)
(* that reports to the host is a step of both, and so is opening and       *)
(* closing the interface.  The completion of an IN transfer is an interrupt*)
(* of its own and waits for a running handler.                             *)
(***************************************************************************)
EXTENDS CanTxInvariant

CONSTANTS InSize, PacketSize

\* A byte holds the number of a frame beside the acknowledgement flag.
ASSUME CanDybugAssumption ==
    /\ InSize \in Nat \ {0} /\ PacketSize \in Nat \ {0}
    /\ MaxFrames \in 0..127

VARIABLES
    ring, flight, last, left,  \* CanIf_IN and its transfer, see CanIfIn
    session,                   \* history: taken when the session was opened
    former                     \* history: the transfer in flight was submitted
                               \* before that

inPipe == <<ring, flight, last, left>>
epoch  == <<session, former>>
both   == <<vars, inPipe, epoch>>

\* The messages: their type byte, and what follows it.  The acknowledgement of
\* frame f is told from others by its number (the code has the frame type).
CANIF_ACK_FLAG  == 128
CANIF_BUS_ERROR == 64
Ack(f)    == <<CANIF_ACK_FLAG + f>>
BusError  == <<CANIF_BUS_ERROR, 0>>
Received  == <<0, 0, 0>>     \* a standard frame without data

Messages == {Ack(f) : f \in Frame} \cup {BusError, Received}

\* Can_Setup fails with the interrupts off, Can_Start with the interrupts on.
InPort == IF port = "failed" /\ can = "off" THEN "silent" ELSE port

In == INSTANCE CanIfIn WITH Message <- Messages, port <- InPort

InitBoth == Init /\ ring = QueueDef(InSize, 0)
                 /\ flight = <<>> /\ last = 0 /\ left = 0
                 /\ session = 0 /\ former = FALSE

-----------------------------------------------------------------------------
\* Fault: the message is queued without a look at the space.
ReportUnchecked(m) ==
    In!SendInData(QueuePutArray(QueuePut(ring, Len(m) + 1), m), In!Free)

\* CanIf_AddMessage as a part of the calling handler's step.
Report(m) ==
    IF In!HasRoom(m)
    THEN In!SendInData(QueuePutArray(QueuePut(ring, Len(m) + 1), m), In!Free)
    ELSE UNCHANGED inPipe

\* Can_FrameSent, Can_FrameReceived and Can_BusError with their messages; the
\* latter reports when the error code it read is new.
FrameSentReports == FrameSentOk /\ Report(Ack(mailbox[mb]))
ReceptionReports == FrameReceived /\ Report(Received)
ErrorReports     == ErrorRead /\ IF lec THEN Report(BusError) ELSE UNCHANGED inPipe

Reports == FrameSentReports \/ ReceptionReports \/ ErrorReports

\* Fault: the buffer of the former session is not emptied.
OpenKeepsRing ==
    /\ OpenOk /\ session' = taken /\ former' = ~In!Free
    /\ UNCHANGED inPipe

\* CanIf_Open as a whole.  A transfer in flight goes on.
Open ==
    /\ OpenOk /\ session' = taken /\ former' = ~In!Free
    /\ ring' = QueueReset(ring) /\ UNCHANGED <<flight, last, left>>

OpenFails == (OpenBadRate \/ OpenNoSync) /\ UNCHANGED <<inPipe, epoch>>

Close ==
    /\ Can_Close
    /\ ring' = ring /\ flight' = <<>> /\ last' = 0 /\ left' = 0
    /\ UNCHANGED session /\ former' = FALSE

\* The USB interrupt: the next packet, or the end of the IN transfer.
InInterrupt ==
    /\ pc = "idle" /\ UNCHANGED <<vars, session>>
    /\ \/ In!LoadPacket   /\ UNCHANGED former
       \/ In!EpInComplete /\ former' = FALSE

Receives == \E n \in 0..MaxBatch : OutComplete(n)

\* The steps of a handler that report nothing.
Silent ==
    \/ HandleRequest \/ RejectRequest \/ ParseDone
    \/ \E m \in Mailboxes : PostFrame(m)
    \/ PostDone \/ ReceiveOutData
    \/ FrameNotOk \/ ClearCompleted \/ FrameSentDone \/ ReceiveDone
    \/ ErrorTest \/ ErrorClear \/ AbortMailbox \/ AbortDone

NextBoth ==
    \/ Reports /\ UNCHANGED epoch
    \/ Open \/ OpenFails \/ Close \/ InInterrupt
    \/ (Silent \/ CanInterrupt \/ Receives \/ Controller)
           /\ UNCHANGED <<inPipe, epoch>>

SpecBoth == InitBoth /\ [][NextBoth]_both

-----------------------------------------------------------------------------
\* The pipe is used as CanIfIn takes it to be used, whatever the order of CAN
\* interrupts, completions, openings and failures: nothing is reported while
\* the interface is closed or its bit rate was refused.
ImplementsIn == In!Spec

Waits == QueueContents(ring)

\* Where the bytes w hold the acknowledgement of frame f.
AcksIn(w, f) == {i \in DOMAIN w : w[i] = CANIF_ACK_FLAG + f}

\* What the session hands to the host: the transfer in flight as it was
\* submitted, unless it dates from before CanIf_Open, and the ring behind it.
Told == IF former THEN Waits ELSE flight \o Waits

\* Apart from the transfer that was in flight at CanIf_Open, the host is told
\* about the new session only: what the session hands over are acknowledgements
\* of frames that were taken after it was opened, were on the bus, and each at
\* most once.  It needs the reset of the peripheral (can_if.c:100), of the
\* queue (can_if.c:504) and of the ring (can_if.c:114).
FreshReports ==
    port = "open" =>
        \A f \in Frame :
            LET places == AcksIn(Told, f)
            IN  /\ places # {} => f > session /\ f \in sent
                /\ \A i, j \in places : i = j

-----------------------------------------------------------------------------
\* "empty all buffers" (can_if.c:113): once the interface is open again nothing
\* that was reported before is on its way to the host.
OldReportsGone ==
    port = "open" => \A f \in 1..session : AcksIn(flight \o Waits, f) = {}
=============================================================================
