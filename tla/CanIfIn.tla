------------------------------ MODULE CanIfIn ------------------------------
(***************************************************************************)
(* The IN pipe of App/can_if.c: messages to the host are put into the byte *)
(* ring CanIf_IN by the CAN callbacks and leave it in USB IN transfers.    *)
(*                                                                         *)
(* A transfer is a run of ring slots that the USB device reads packet by   *)
(* packet while the program goes on.  The tail of the ring moves when the  *)
(* transfer is submitted (can_if.c:227), not when it was read.             *)
(*                                                                         *)
(* CanIf_AddMessage and CanIf_EpInComplete run in interrupts of the same   *)
(* priority, each to its end, and touch no register that changes under     *)
(* them: each is one step.                                                 *)
(***************************************************************************)
EXTENDS CircularQueue

CONSTANTS
    InSize,      \* CANIF_IN_DATA_SIZE (256)
    PacketSize,  \* bytes of one USB packet (64)
    Message      \* the messages without their length byte

Byte == 0..255

ASSUME CanIfInAssumption ==
    /\ InSize \in Nat \ {0}
    /\ PacketSize \in Nat \ {0}
    /\ \A m \in Message : m \in Seq(Byte) /\ Len(m) \in 1..254

VARIABLES
    ring,    \* CanIf_IN
    port,    \* outcome of the last CanIf_Open
    flight,  \* history: bytes of the transfer in flight when it was submitted
    last,    \* the ring slot of its last byte
    left     \* how many of its bytes the USB device has not read yet

vars == <<ring, port, flight, last, left>>

\* A transfer is one run of slots, and the tail stands at its end unless the
\* ring was emptied since it was submitted.
TransferInRing ==
    /\ left <= last + 1
    /\ flight # <<>> => ring.tail \in {0, last}

TypeOK ==
    /\ ring \in Queue(InSize, Byte)
    /\ port \in {"closed", "silent", "failed", "open"}
    /\ flight \in Seq(Byte)
    /\ last \in 0..InSize
    /\ left \in 0..Len(flight)
    /\ TransferInRing

Init ==
    /\ ring = QueueDef(InSize, 0)
    /\ port = "closed"
    /\ flight = <<>> /\ last = 0 /\ left = 0

\* The CAN interrupts are enabled also when CAN_eInit gave up on the bus.
Reporting == port \in {"failed", "open"}

\* USBD_CDC_Transmit takes a transfer when none is in flight.
Free == flight = <<>>

\* Fault: the last packet is taken for a full one.
AfterFullPacket(n) == n - PacketSize

\* What the USB device leaves of n bytes when it reads its next packet.
AfterPacket(n) == IF n > PacketSize THEN n - PacketSize ELSE 0

\* The bytes that follow the tail without a gap: to the head, or to the end
\* of the buffer when the ring has wrapped.
ChunkLength(q) ==
    IF q.tail = q.size THEN q.head + 1
    ELSE IF q.tail < q.head THEN q.head - q.tail
    ELSE q.size - q.tail

\* Fault: at the end of the buffer one slot is skipped.
ChunkStartSkips(q) == IF q.tail = q.size THEN 1 ELSE q.tail + 1

ChunkStart(q) == IF q.tail = q.size THEN 0 ELSE q.tail + 1

\* The next chunk of the ring q is submitted.  The USB device loads the first
\* packet at once.
Submit(q) ==
    LET start == ChunkStart(q)
        n     == ChunkLength(q)
    IN  /\ flight' = [i \in 1..n |-> q.buffer[start + i - 1]]
        /\ last' = start + n - 1
        /\ left' = AfterPacket(n)
        /\ ring' = [q EXCEPT !.tail = start + n - 1]

\* The ring q waits for the transfer in flight, if there is one.
NoSubmit(q, free) ==
    /\ ring' = q
    /\ IF free THEN flight' = <<>> /\ last' = 0 /\ left' = 0
               ELSE UNCHANGED <<flight, last, left>>

\* Fault: nothing is submitted before the ring has wrapped.
SendInDataWaits(q, free) ==
    IF q.tail > q.head /\ free THEN Submit(q) ELSE NoSubmit(q, free)

\* CanIf_SendInData, on the ring q: submit the next chunk if the pipe is free.
SendInData(q, free) ==
    IF ~QueueEmpty(q) /\ free THEN Submit(q) ELSE NoSubmit(q, free)

\* The bytes of message m as they are queued, its length byte first.
Framed(m) == <<Len(m) + 1>> \o m

\* Fault: the space for the length byte is forgotten.
HasRoomForPayload(m) == QueueSpace(ring) >= Len(m)

\* The test that leaves room for the length byte too.
HasRoom(m) == QueueSpace(ring) > Len(m)

-----------------------------------------------------------------------------
\* CanIf_AddMessage, called by the CAN callbacks: a message without room is
\* dropped.
AddMessage(m) ==
    /\ Reporting
    /\ IF HasRoom(m)
       THEN SendInData(QueuePutArray(QueuePut(ring, Len(m) + 1), m), Free)
       ELSE UNCHANGED <<ring, flight, last, left>>
    /\ UNCHANGED port

\* The USB device reads the next packet of the transfer from the ring.
LoadPacket ==
    /\ left > 0
    /\ left' = AfterPacket(left)
    /\ UNCHANGED <<ring, port, flight, last>>

\* Fault: the completed transfer is not followed by the next one.
EpInCompleteNoNext ==
    /\ ~Free /\ left = 0
    /\ flight' = <<>> /\ last' = 0 /\ UNCHANGED <<ring, left, port>>

\* CanIf_EpInComplete: the host has read the whole transfer.
EpInComplete ==
    /\ ~Free /\ left = 0
    /\ SendInData(ring, TRUE)
    /\ UNCHANGED port

\* CanIf_Open empties the ring; a transfer in flight goes on.
OpenOk ==
    /\ port' = "open"
    /\ ring' = QueueReset(ring)
    /\ UNCHANGED <<flight, last, left>>

\* Can_Setup fails after the CAN peripheral was reset, or Can_Start fails
\* after the interrupts were enabled.
OpenBadRate == port' = "silent" /\ UNCHANGED <<ring, flight, last, left>>
OpenNoSync  == port' = "failed" /\ UNCHANGED <<ring, flight, last, left>>

\* The device is disconnected: the transfer is lost with the endpoint.
Close ==
    /\ port # "closed" /\ port' = "closed"
    /\ flight' = <<>> /\ last' = 0 /\ left' = 0
    /\ UNCHANGED ring

Next ==
    \/ \E m \in Message : AddMessage(m)
    \/ LoadPacket \/ EpInComplete
    \/ OpenOk \/ OpenBadRate \/ OpenNoSync \/ Close

Spec == Init /\ [][Next]_vars

\* The host keeps reading while it is connected, and the interrupt of a
\* completed transfer is taken.
FairSpec == Spec /\ WF_vars(LoadPacket) /\ WF_vars(EpInComplete)

-----------------------------------------------------------------------------
\* The index arithmetic of CanIf_SendInData and the ring macros implement an
\* ordered pipe: what is submitted are the oldest bytes, each once, wherever
\* the ring has wrapped, and a free pipe never leaves bytes waiting that were
\* just added.
Pipe == INSTANCE MessagePipe
            WITH waiting <- QueueContents(ring),
                 Packet  <- {Framed(m) : m \in Message}
ImplementsPipe == Pipe!Spec

\* In an open session nobody but the completion of a transfer sends what is
\* queued behind it, so queued bytes imply a transfer in flight.
NothingWaits == port = "open" /\ ~QueueEmpty(ring) => ~Free

\* The byte that is i before the last one of the transfer is still in the
\* ring as it was submitted.
Intact(i) == ring.buffer[last - i] = flight[Len(flight) - i]

\* Since the tail moves when a transfer is submitted (can_if.c:227), its slots
\* count as free.  How far that is safe: an unread byte survives as long as
\* the queued bytes do not come round to its slot.  (A transfer of the same
\* session ends at the tail.)
OverwriteBound ==
    ~Free /\ last = ring.tail =>
        \A i \in 0..(left - 1) : QueueLength(ring) + i <= InSize => Intact(i)

\* Nothing is stuck in the ring: while the host reads, the tail moves on.
TailMoves ==
    \A t \in 0..InSize :
        LET stuck == port = "open" /\ ring.tail = t /\ ~QueueEmpty(ring)
        IN  stuck ~> ~stuck

-----------------------------------------------------------------------------
\* "The first byte is always the total length of the message" (README.md:44):
\* the host gets the messages as they were added, so no byte of a transfer in
\* flight changes before it is read.
InFlightIntact ==
    ~Free /\ last = ring.tail => \A i \in 0..(left - 1) : Intact(i)

\* The same for a host that reads in time: while unread and queued bytes fit
\* into the ring together no unread byte changes.  A new CanIf_Open, which
\* empties the ring (can_if.c:114) but not the pipe, is no exception.
RoomKeepsTransfer ==
    ~Free /\ QueueLength(ring) + left <= InSize =>
        \A i \in 0..(left - 1) : Intact(i)
=============================================================================
