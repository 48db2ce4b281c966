----------------------------- MODULE FrameCodec -----------------------------
(***************************************************************************)
(* How App/can_if.c turns a request of the host into the registers of a    *)
(* CAN mailbox, and a received frame and a finished transmission into      *)
(* messages.  A frame goes one of two ways: a request of the host is       *)
(* queued, transmitted, acknowledged and received by a device of the same  *)
(* kind, or any other node of the bus has sent it and it is received.      *)
(*                                                                         *)
(* A byte or register is the set of its bit numbers that are 1.            *)
(***************************************************************************)
EXTENDS Integers, Sequences

CONSTANTS
    Requests,   \* what CanIf_EpOutComplete may pass: the bytes from pbuf + 1
                \* on, of which the first length belong to the request
    Frames,     \* what a frame of another node may leave in the FIFO registers:
                \* any length code, with or without a request for data
    Garbage     \* what unwritten bytes may hold

Byte == SUBSET (0..7)
Word == SUBSET (0..31)

Request == [bytes : [0..13 -> Byte], length : 0..254]

Registers == [id : Word, dlc : 0..15, data : [0..7 -> Byte]]

\* RIR has no transmission request bit.
ASSUME FrameCodecAssumption ==
    /\ Requests \subseteq Request
    /\ Frames \subseteq {f \in Registers : 0 \notin f.id}
    /\ Garbage \subseteq Byte /\ Garbage # {}

\* CAN_IDTYPE_*: bit 1 marks a remote frame (RTR), bit 2 an extended identifier.
STD_DATA == {}
STD_RTR  == {1}
EXT_DATA == {2}
EXT_RTR  == {1, 2}

FrameTypes == {STD_DATA, STD_RTR, EXT_DATA, EXT_RTR}

AckFlag == {7}    \* CANIF_ACK_FLAG

StidPos == 21     \* STID of TIR and RIR: bits 21 to 31
ExidPos == 3      \* EXID: bits 3 to 31

VARIABLES
    stage,     \* what has been done with the frame
    request,   \* the request for it
    tx,        \* the mailbox registers TIR, TDTR and the data bytes
    rx,        \* the FIFO registers RIR, RDTR and the data bytes
    ack,       \* the message of Can_FrameSent
    message    \* the message of Can_FrameReceived

vars == <<stage, request, tx, rx, ack, message>>

Stages == {"start", "queued", "refused", "onBus", "sent", "received",
           "arrived", "reported"}

TypeOK ==
    /\ stage \in Stages
    /\ request \in Request
    /\ tx \in Registers /\ rx \in Registers
    /\ ack \in Seq(Byte) /\ message \in Seq(Byte)

Blank == [id |-> {}, dlc |-> 0, data |-> [k \in 0..7 |-> {}]]

NoRequest == [bytes |-> [k \in 0..13 |-> {}], length |-> 0]

Init ==
    /\ stage = "start" /\ request = NoRequest
    /\ tx = Blank /\ rx = Blank /\ ack = <<>> /\ message = <<>>

\* Fault: the register is taken to be wider than it is.
ShlWide(w, n) == {i + n : i \in w}

\* The shifts of a 32 bit register: bits leave it at both ends.
Shl(w, n) == {i + n : i \in w} \cap (0..31)
Shr(w, n) == {i - n : i \in w \ (0..(n - 1))}

\* __REV16 and __REV: the order of the bytes is reversed, in each halfword or
\* in the word.
Rev16(w) == {IF i % 16 < 8 THEN i + 8 ELSE i - 8 : i \in w}
Rev(w)   == {24 - 8 * (i \div 8) + (i % 8) : i \in w}

\* Byte number k of a register in memory.
ByteOf(w, k) == {i - 8 * k : i \in w \cap ((8 * k)..(8 * k + 7))}

IsExtended(type) == type \cap EXT_DATA # STD_DATA

IdBytes(type) == IF IsExtended(type) THEN 4 ELSE 2

\* TIR for the message m: the type, and the identifier, highest byte first.
IdRegister(m) ==
    m[0] \cup (IF IsExtended(m[0])
               THEN Shl(m[1], 24 + ExidPos) \cup Shl(m[2], 16 + ExidPos)
                        \cup Shl(m[3], 8 + ExidPos) \cup Shl(m[4], ExidPos)
               ELSE Shl(m[1], 8 + StidPos) \cup Shl(m[2], StidPos))

\* flen: what is left of the request behind the type and the identifier.
DataLength(m, length) == length - 1 - IdBytes(m[0])

\* Fault: a remote frame may come with data.
AcceptsRemoteData(m, length) ==
    /\ m[0] \in FrameTypes
    /\ DataLength(m, length) \in 0..8

\* The switch and the length test of Can_HandleRequest.
Accepts(m, length) ==
    /\ m[0] \in FrameTypes
    /\ DataLength(m, length) \in 0..8
    /\ IdRegister(m) \cap STD_RTR # {} => DataLength(m, length) = 0

-----------------------------------------------------------------------------
\* Can_HandleRequest.
HandleRequest ==
    /\ stage = "start" /\ request' \in Requests
    /\ LET m    == request'.bytes
           flen == DataLength(m, request'.length)
       IN  IF Accepts(m, request'.length)
           THEN /\ stage' = "queued"
                /\ \E g \in Garbage :
                     tx' = [id |-> IdRegister(m), dlc |-> flen,
                            data |-> [k \in 0..7 |-> IF k < flen
                                        THEN m[1 + IdBytes(m[0]) + k] ELSE g]]
           ELSE stage' = "refused" /\ UNCHANGED tx
    /\ UNCHANGED <<rx, ack, message>>

\* The bus, for a frame of this firmware: another controller receives the type,
\* the identifier, the length, and as many bytes of data.
Bus ==
    /\ stage = "queued" /\ stage' = "onBus"
    /\ \E g \in Garbage :
         rx' = [id |-> tx.id \ {0}, dlc |-> tx.dlc,
                data |-> [k \in 0..7 |-> IF k < tx.dlc THEN tx.data[k] ELSE g]]
    /\ UNCHANGED <<request, tx, ack, message>>

\* The bus, for a frame of any other node.
Arrival ==
    /\ stage = "start" /\ stage' = "arrived"
    /\ rx' \in Frames
    /\ UNCHANGED <<request, tx, ack, message>>

\* Fault: the type of a remote frame is not acknowledged.
FrameSentAsData ==
    /\ stage = "onBus" /\ stage' = "sent"
    /\ ack' = <<AckFlag \cup (tx.id \cap EXT_DATA)>>
    /\ UNCHANGED <<request, tx, rx, message>>

\* Can_FrameSent: the acknowledgement carries the type of the frame.
FrameSent ==
    /\ stage = "onBus" /\ stage' = "sent"
    /\ ack' = <<AckFlag \cup (tx.id \cap EXT_RTR)>>
    /\ UNCHANGED <<request, tx, rx, message>>

\* The stores of a register to memory from byte at on, n bytes of it.
Store(buf, at, n, w) ==
    [k \in DOMAIN buf |-> IF k \in at..(at + n - 1) THEN ByteOf(w, k - at)
                          ELSE buf[k]]

\* Fault: the bytes of an extended identifier are reversed in pairs.
IdStoredPaired(buf, id) ==
    IF IsExtended(id) THEN Store(buf, 4, 4, Rev16(Shr(id, ExidPos)))
    ELSE Store(buf, 6, 2, Rev16(Shr(id, StidPos)))

\* The identifier is stored behind the type byte, highest byte first, so that
\* the data, stored from byte 8 on, follow it.
IdStored(buf, id) ==
    IF IsExtended(id) THEN Store(buf, 4, 4, Rev(Shr(id, ExidPos)))
    ELSE Store(buf, 6, 2, Rev16(Shr(id, StidPos)))

\* Fault: two bytes are counted for every identifier.
MessageLengthStd(frame) == frame.dlc + 1 + 2

\* len: the length code as it was received, the type and the identifier.
MessageLength(frame) == frame.dlc + 1 + IdBytes(frame.id)

\* The message about a frame, built in a buffer of 16 bytes whose unwritten ones
\* hold g.  It ends before byte 23: a message may run past the buffer, and what
\* is read there is garbage, too.
ReceivedMessage(frame, g) ==
    LET msg == 7 - IdBytes(frame.id)
        id  == IdStored([k \in 0..22 |-> g], frame.id)
        buf == [k \in 0..22 |-> IF k = msg THEN frame.id \cap EXT_RTR
                                ELSE IF k \in 8..15 THEN frame.data[k - 8] ELSE id[k]]
    IN  [i \in 1..MessageLength(frame) |-> buf[msg + i - 1]]

\* Can_FrameReceived.
FrameReceived ==
    /\ \/ stage = "sent" /\ stage' = "received"
       \/ stage = "arrived" /\ stage' = "reported"
    /\ \E g \in Garbage : message' = ReceivedMessage(rx, g)
    /\ UNCHANGED <<request, tx, rx, ack>>

Next == HandleRequest \/ Bus \/ Arrival \/ FrameSent \/ FrameReceived

Spec == Init /\ [][Next]_vars

-----------------------------------------------------------------------------
\* The rows of the message table that are frames (README.md:48-51): code and
\* total length, the length byte included.
InTable(code, length) ==
    \/ code = {}     /\ length \in 4..12
    \/ code = {1}    /\ length = 4
    \/ code = {2}    /\ length \in 6..14
    \/ code = {1, 2} /\ length = 6

\* Exactly the frames of the table are accepted, whatever the other bytes of
\* the buffer hold: the length test is made on a register that was assembled
\* before the length was known to be enough.
AcceptsTable ==
    LET listed == InTable(request.bytes[0], request.length + 1)
    IN  /\ stage = "refused" => ~listed
        /\ stage \in {"queued", "onBus", "sent", "received"} => listed

\* Between two devices of this firmware a frame received is the frame
\* requested: the message equals the request in length, type, identifier and
\* data, up to the bits of the first identifier byte that the bus has no room
\* for (can_if.c:289 shifts them out).
RoundTrip ==
    stage = "received" =>
        LET m   == request.bytes
            top == IF IsExtended(m[0]) THEN 0..4 ELSE 0..2
        IN  message = [i \in 1..request.length |->
                          IF i = 2 THEN m[1] \cap top ELSE m[i - 1]]

\* The bytes of data a frame has on the bus: none if it requests data, and
\* never more than 8.
DataBytes(frame) ==
    IF frame.id \cap STD_RTR # {} THEN 0 ELSE IF frame.dlc < 8 THEN frame.dlc ELSE 8

\* A message read as Can_HandleRequest reads one.
AsRequest(msg) == [k \in 0..13 |-> IF k < Len(msg) THEN msg[k + 1] ELSE {}]

\* Whatever node sent a frame, the message about it, read the way requests are
\* read, gives back its identifier register - the bits 3 to 20 that a standard
\* identifier does not use may hold anything - and its data, and has as many
\* bytes behind the identifier as the length code says (can_if.c:342-375).
\* Those beyond DataBytes(rx) are no part of the frame: they are what the data
\* registers, or the stack behind buf, happened to hold.
FrameReported ==
    stage \in {"received", "reported"} =>
        LET m == AsRequest(message)
        IN  /\ Len(message) = 1 + IdBytes(rx.id) + rx.dlc
            /\ m[0] \in FrameTypes
            /\ IdRegister(m) = IF IsExtended(rx.id) THEN rx.id ELSE rx.id \ (3..20)
            /\ \A k \in 0..7 :
                   k < DataBytes(rx) => m[1 + IdBytes(rx.id) + k] = rx.data[k]

\* What the message table says of the frames the device reports
\* (README.md:48-56): their length is one the table has for their code.  The
\* code takes the length code of the frame as it is (can_if.c:346), so this is
\* violated by a length code above 8 and by a remote frame that asks for data.
ReceivedInTable ==
    stage \in {"received", "reported"} => InTable(message[1], Len(message) + 1)

\* The acknowledgement names the type of the frame it stands for, and its
\* code (0x8#) is none of the other message types.
AckNamesFrame ==
    stage \in {"sent", "received"} =>
        /\ Len(ack) = 1 /\ ack[1] = request.bytes[0] \cup {7}
        /\ ack[1] \notin FrameTypes \cup {{6}}
=============================================================================
