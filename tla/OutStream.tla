----------------------------- MODULE OutStream -----------------------------
(***************************************************************************)
(* The OUT pipe of App/can_if.c: how CanIf_EpOutComplete finds requests in *)
(* the bytes of USB transfers, keeps the fragment at their end, and        *)
(* requests the next transfer behind it.                                   *)
(*                                                                         *)
(* The host's bytes are abstracted to their position in its stream.  What  *)
(* Can_HandleRequest makes of a request is module FrameCodec; whether      *)
(* CanIf_ReceiveOutData finds queue space is module CanTx, a choice here.  *)
(***************************************************************************)
EXTENDS Integers, Sequences

CONSTANTS
    OutSize,     \* CANIF_OUT_DATA_SIZE, bytes of the OUT buffer (128)
    PacketSize,  \* bytes of one USB packet (64)
    MinRequest,  \* length of the shortest well-formed request (4)
    Plans,       \* what the host may send: sequences of requests, each with
                 \* its length byte and whether it is well formed
    StreamOf(_)  \* the bytes of a plan, as [of |-> request number,
                 \* place |-> place of the byte in the request]

\* A request whose length byte is 0 is that one byte.
Size(request) == IF request.length = 0 THEN 1 ELSE request.length

\* The stream s is the requests of p, one behind the other.
IsStream(s, p) ==
    /\ s \in Seq([of : DOMAIN p, place : Nat \ {0}])
    /\ p = <<>> <=> s = <<>>
    /\ s # <<>> => /\ s[1] = [of |-> 1, place |-> 1]
                   /\ s[Len(s)].place = Size(p[s[Len(s)].of])
    /\ \A n \in 1..(Len(s) - 1) :
          s[n + 1] = IF s[n].place = Size(p[s[n].of])
                     THEN [of |-> s[n].of + 1, place |-> 1]
                     ELSE [of |-> s[n].of, place |-> s[n].place + 1]

ASSUME OutStreamAssumption ==
    /\ OutSize \in Nat /\ PacketSize \in Nat \ {0}
    /\ MinRequest \in Nat \ {0}
    /\ \A p \in Plans :
           /\ p \in Seq([length : Nat, good : BOOLEAN])
           /\ \A i \in DOMAIN p : p[i].good => p[i].length \in MinRequest..OutSize
           /\ IsStream(StreamOf(p), p)

Stream == [p \in Plans |-> StreamOf(p)]

None     == -1    \* no transfer requested
Nothing  == 0     \* a slot never written
Sentinel == -1    \* the 1 behind the received bytes

VARIABLES
    memory,    \* CanIf_OUT.buffer, one slot longer than OutSize
    offset,    \* CanIf_OUT.offset
    armed,     \* slot where the requested transfer starts, or None
    got,       \* bytes that transfer has brought so far
    pc, at, left,  \* the loop of CanIf_EpOutComplete: pbuf and length
    port,      \* outcome of the last CanIf_Open, or "closed"
    plan,      \* what the host sends
    fed,       \* bytes of it that were sent
    batch,     \* history: requests handled since the transfer completed
    handled,   \* history: last request handled while serving
    serving,   \* history: the stream is read from a request boundary on
    opened     \* history: fed when the session began

loop == <<pc, at, left, batch>>
vars == <<memory, offset, armed, got, loop, port, plan, fed, handled, serving, opened>>

Bytes == Stream[plan]

TypeOK ==
    /\ memory \in [0..OutSize -> -1..Len(Bytes)]
    /\ offset \in 0..OutSize
    /\ armed \in -1..OutSize
    /\ got \in 0..(IF armed = None THEN 0 ELSE OutSize - armed)
    /\ pc \in {"idle", "parse"} /\ at \in 0..OutSize /\ left \in 0..OutSize
    /\ port \in {"closed", "failed", "open"}
    /\ plan \in Plans /\ fed \in 0..Len(Bytes)
    /\ batch \in Nat /\ handled \in 0..Len(plan)
    /\ serving \in BOOLEAN /\ opened \in 0..fed

Init ==
    /\ memory = [s \in 0..OutSize |-> Nothing]
    /\ offset = 0 /\ armed = None /\ got = 0
    /\ pc = "idle" /\ at = 0 /\ left = 0 /\ batch = 0
    /\ port = "closed"
    /\ plan \in Plans /\ fed = 0
    /\ handled = 0 /\ serving = FALSE /\ opened = 0

\* The last request complete within the first n bytes.
Complete(n) ==
    IF n = 0 THEN 0
    ELSE LET b == Bytes[n]
         IN  IF b.place = Size(plan[b.of]) THEN b.of ELSE b.of - 1

\* The first n or more bytes that end with a request.
Boundary(n) ==
    CHOOSE m \in n..Len(Bytes) :
        /\ m = 0 \/ Bytes[m].place = Size(plan[Bytes[m].of])
        /\ \A k \in n..(m - 1) : k # 0 /\ Bytes[k].place # Size(plan[Bytes[k].of])

\* What a slot may hold for the loop that reads it as a length: any byte when
\* it is none of the length bytes.
Header(slot) ==
    LET b == memory[slot]
    IN  IF b = Sentinel THEN {1}
        ELSE IF b > 0 /\ Bytes[b].place = 1 THEN {plan[Bytes[b].of].length}
        ELSE 0..(OutSize + 1)

\* The n bytes at pbuf are the bytes of one request.
Whole(n) == /\ memory[at] > 0 /\ Bytes[memory[at]].place = 1
            /\ n = plan[Bytes[memory[at]].of].length
            /\ \A i \in 0..(n - 1) : memory[at + i] = memory[at] + i

\* Fault: the length test of Can_HandleRequest lets shorter requests pass.
VerdictShort(n) == IF Whole(n) THEN {plan[Bytes[memory[at]].of].good \/ n < MinRequest}
                   ELSE IF n >= MinRequest THEN BOOLEAN ELSE {FALSE}

\* What Can_HandleRequest may return for the n bytes at pbuf.
Verdict(n) == IF Whole(n) THEN {plan[Bytes[memory[at]].of].good}
              ELSE IF n >= MinRequest THEN BOOLEAN ELSE {FALSE}

\* Fault: a request that ends the received bytes is taken for a fragment.
FragmentOrLast(n) == n >= left

\* The loop condition: of n bytes at pbuf not all have been received.
Fragment(n) == n > left

\* Fault: the slot for the sentinel is lent to the transfer too.
RoomWithSentinel == OutSize + 1 - armed

\* The length of the requested transfer.
Room == OutSize - armed

-----------------------------------------------------------------------------
\* The packet with the next n bytes of the host arrives.  A short packet, or
\* the one that fills the transfer, completes it: CanIf_EpOutComplete steps
\* back over the fragment and writes the sentinel.
Packet(n) ==
    /\ pc = "idle" /\ armed # None
    /\ n <= PacketSize /\ got + n <= Room /\ fed + n <= Len(Bytes)
    /\ fed' = fed + n
    /\ LET first   == armed + got
           stored  == [s \in 0..OutSize |-> IF s \in first..(first + n - 1)
                                            THEN fed + 1 + s - first
                                            ELSE memory[s]]
       IN  IF n < PacketSize \/ got + n = Room
           THEN /\ memory' = [stored EXCEPT ![first + n] = Sentinel]
                /\ pc' = "parse" /\ at' = armed - offset
                /\ left' = got + n + offset /\ batch' = 0
                /\ armed' = None /\ got' = 0
           ELSE /\ memory' = stored /\ got' = got + n
                /\ UNCHANGED <<loop, armed>>
    /\ UNCHANGED <<offset, port, plan, handled, serving, opened>>

\* One turn of the loop: the request at pbuf is complete and accepted.
HandleRequest(n) ==
    /\ pc = "parse" /\ n \in Header(at) /\ ~Fragment(n) /\ n # 0
    /\ TRUE \in Verdict(n)
    /\ at' = at + n /\ left' = left - n /\ batch' = batch + 1
    /\ handled' = IF ~serving THEN handled
                  ELSE IF Whole(n) THEN Bytes[memory[at]].of ELSE 0
    /\ UNCHANGED <<memory, offset, armed, got, pc, port, plan, fed, serving, opened>>

\* A malformed request: the handler returns without a new transfer.
Refuse(n) ==
    /\ pc = "parse" /\ n \in Header(at) /\ ~Fragment(n)
    /\ n = 0 \/ FALSE \in Verdict(n)
    /\ offset' = 0 /\ serving' = FALSE
    /\ pc' = "idle" /\ at' = 0 /\ left' = 0 /\ batch' = 0
    /\ UNCHANGED <<memory, armed, got, port, plan, fed, handled, opened>>

\* Fault: an overlapping fragment is copied from its last byte down.
MovedDown ==
    [s \in 0..OutSize |->
        IF s >= left \/ at = 0 THEN memory[s]
        ELSE memory[s + at * (1 + (left - 1 - s) \div at)]]

\* memcpy to the front.  The regions may overlap, which C leaves undefined;
\* every copy from the first byte up, as the library's, is right.
Moved == [s \in 0..OutSize |-> IF s < left THEN memory[at + s] ELSE memory[s]]

\* The loop ends: the fragment is moved to the front, Can_PostFrames and
\* CanIf_ReceiveOutData follow.
Exit(n, space) ==
    /\ pc = "parse" /\ n \in Header(at) /\ Fragment(n)
    /\ memory' = Moved /\ offset' = left
    /\ pc' = "idle" /\ at' = 0 /\ left' = 0 /\ batch' = 0
    /\ armed' = IF space /\ port # "closed" THEN left ELSE None
    /\ UNCHANGED <<got, port, plan, fed, handled, serving, opened>>

\* CanIf_ReceiveOutData from Can_FrameSent.
ReceiveOutData ==
    /\ pc = "idle" /\ port # "closed" /\ armed = None
    /\ armed' = offset
    /\ UNCHANGED <<memory, offset, got, loop, port, plan, fed, handled, serving, opened>>

\* A host that (re)opens the interface begins with a request.
HostRestarts ==
    /\ fed' = Boundary(fed) /\ opened' = fed' /\ handled' = Complete(fed' - got)

\* Fault: the fragment of the former session is kept.
OpenOkKeepsOffset ==
    /\ pc = "idle" /\ port' = "open"
    /\ armed' = IF armed = None THEN offset ELSE armed
    /\ HostRestarts /\ serving' = (got = 0)
    /\ UNCHANGED <<memory, offset, got, loop, plan>>

\* CanIf_Open drops the fragment and requests a transfer, which the USB device
\* refuses when one is requested already.  That one goes on where it is, with
\* what it has brought so far.
OpenOk ==
    /\ pc = "idle" /\ port' = "open"
    /\ offset' = 0
    /\ armed' = IF armed = None THEN 0 ELSE armed
    /\ HostRestarts /\ serving' = (got = 0)
    /\ UNCHANGED <<memory, got, loop, plan>>

\* Can_Setup or Can_Start fails: the buffers are left alone.
OpenFailed ==
    /\ pc = "idle" /\ port' = "failed" /\ serving' = FALSE
    /\ HostRestarts
    /\ UNCHANGED <<memory, offset, armed, got, loop, plan>>

\* The device is disconnected: the transfer is lost with the endpoint.
Close ==
    /\ pc = "idle" /\ port # "closed"
    /\ port' = "closed" /\ armed' = None /\ got' = 0 /\ serving' = FALSE
    /\ UNCHANGED <<memory, offset, loop, plan, fed, handled, opened>>

Loop == \E n \in 0..(OutSize + 1) :
            \/ HandleRequest(n) \/ Refuse(n)
            \/ \E space \in BOOLEAN : Exit(n, space)

SomeBytes == \E n \in 1..PacketSize : Packet(n)

Next == \/ Packet(0) \/ SomeBytes \/ Loop
        \/ ReceiveOutData \/ OpenOk \/ OpenFailed \/ Close

Spec == Init /\ [][Next]_vars

\* The loop runs to its end, space comes back again and again (module CanTx),
\* and the host keeps sending what it has and ends with a short packet.
FairSpec ==
    /\ Spec
    /\ WF_vars(Loop) /\ SF_vars(ReceiveOutData)
    /\ SF_vars(SomeBytes) /\ SF_vars(Packet(0))

-----------------------------------------------------------------------------
\* Bytes handed over by completed transfers.
Received == fed - got

\* However the stream is cut into packets and transfers, the requests are
\* passed to Can_HandleRequest whole, in order and without delay.
Requests == INSTANCE RequestStream WITH arrived <- Complete(Received)
ImplementsRequests == Requests!Spec

\* The loop invariant behind it.  While serving, what lies at pbuf, or at the
\* front between transfers, is the end of the received stream and begins with
\* a request; the requested transfer continues it.
InStep ==
    serving =>
        /\ LET start == IF pc = "parse" THEN at ELSE 0
               n     == IF pc = "parse" THEN left ELSE offset
           IN  /\ n <= Received
               /\ \A i \in 0..(n - 1) : memory[start + i] = Received - n + 1 + i
               /\ Complete(Received - n) = handled
               /\ Boundary(Received - n) = Received - n
        /\ armed # None /\ offset # 0 => armed = offset

\* The byte behind the received bytes exists (can_if.c:137), and the loop
\* never runs past it.
SentinelInBuffer ==
    pc = "parse" => at + left <= OutSize /\ memory[at + left] = Sentinel

\* One transfer completes no more requests than CanIf_ReceiveOutData has
\* reserved queue space for (can_if.c:169), because no accepted request is
\* shorter than a standard frame without data.
BatchFits == batch <= OutSize \div MinRequest

\* A request of any length the buffer can hold is handled or refused in the
\* end: no fragment stops the pipe.
Answered ==
    \A r \in 1..4 :
        LET waits == /\ serving /\ handled = r - 1 /\ r \in DOMAIN plan
                     /\ plan[r].length <= OutSize
        IN  waits ~> ~waits

-----------------------------------------------------------------------------
\* "empty all buffers" (can_if.c:113): no byte sent before the session began
\* is read as part of a request.
BuffersEmptied ==
    pc = "parse" /\ port = "open" =>
        \A i \in 0..(left - 1) : memory[at + i] > opened

\* "Invalid frame length should cause disconnect" (can_if.c:308): a request
\* longer than any frame is refused.
InvalidLengthRefused ==
    \A r \in 1..4 :
        LET waits == /\ serving /\ handled = r - 1 /\ r \in DOMAIN plan
                     /\ plan[r].length > OutSize
        IN  waits ~> ~waits
=============================================================================
