--------------------------- MODULE OutStreamProofs ---------------------------
(***************************************************************************)
(* Theorems about the OUT pipe, for every size of the buffer and of a      *)
(* packet and for every host.                                              *)
(***************************************************************************)
EXTENDS OutStream, WellFoundedInduction, SequenceTheorems, TLAPS

\* The transfer lies in the buffer behind the fragment, and nothing is
\* requested while the loop runs.
BufferInv ==
    /\ memory = [s \in 0..OutSize |-> memory[s]]
    /\ offset \in 0..OutSize
    /\ \/ armed = None /\ got = 0
       \/ armed \in offset..OutSize /\ got \in 0..(OutSize - armed)
    /\ pc \in {"idle", "parse"}
    /\ pc = "parse" => /\ armed = None
                       /\ at \in 0..OutSize /\ left \in 0..OutSize
    /\ SentinelInBuffer

\* The arrival of a packet.
LEMMA PacketStep ==
  ASSUME BufferInv, NEW n \in 0..PacketSize, Packet(n)
  PROVE  BufferInv'
<1>. DEFINE first  == armed + got
            stored == [s \in 0..OutSize |-> IF s \in first..(first + n - 1)
                                            THEN fed + 1 + s - first
                                            ELSE memory[s]]
<1>1. /\ pc = "idle" /\ armed \in offset..OutSize /\ got \in 0..(OutSize - armed)
      /\ offset \in 0..OutSize /\ n \in Nat /\ OutSize \in Nat
      /\ got + n <= OutSize - armed /\ UNCHANGED offset
  BY OutStreamAssumption DEF Packet, BufferInv, Room
<1>2. first + n \in 0..OutSize
  BY <1>1
<1>3. CASE n < PacketSize \/ got + n = Room
  <2>1. /\ memory' = [stored EXCEPT ![first + n] = Sentinel]
        /\ pc' = "parse" /\ at' = armed - offset /\ left' = got + n + offset
        /\ armed' = None /\ got' = 0
    BY <1>3 DEF Packet
  <2>2. at' \in 0..OutSize /\ left' \in 0..OutSize /\ at' + left' = first + n
    BY <1>1, <2>1
  <2>. HIDE DEF first
  <2>3. memory' = [s \in 0..OutSize |-> memory'[s]] /\ memory'[first + n] = Sentinel
    BY <1>2, <2>1
  <2>. QED
    BY <1>1, <1>2, <2>1, <2>2, <2>3 DEF BufferInv, SentinelInBuffer
<1>4. CASE ~(n < PacketSize \/ got + n = Room)
  <2>1. memory' = stored /\ got' = got + n /\ UNCHANGED <<loop, armed>>
    BY <1>4 DEF Packet
  <2>2. UNCHANGED <<pc, armed>>
    BY <2>1 DEF loop
  <2>3. memory' = [s \in 0..OutSize |-> memory'[s]]
    <3>. HIDE DEF first
    <3>. QED
      BY <2>1
  <2>4. got' \in 0..(OutSize - armed)
    BY <1>1, <2>1
  <2>. QED
    BY <1>1, <2>2, <2>3, <2>4 DEF BufferInv, SentinelInBuffer
<1>. QED
  BY <1>3, <1>4

\* One turn of the loop, and its end.
LEMMA LoopStep ==
  ASSUME BufferInv, Loop
  PROVE  BufferInv'
<1>. PICK n \in 0..(OutSize + 1) : \/ HandleRequest(n) \/ Refuse(n)
                                   \/ \E space \in BOOLEAN : Exit(n, space)
  BY DEF Loop
<1>0. /\ pc = "parse" /\ armed = None /\ got = 0
      /\ at \in 0..OutSize /\ left \in 0..OutSize /\ OutSize \in Nat
      /\ n \in Nat
  <2>1. pc = "parse"
    BY DEF HandleRequest, Refuse, Exit
  <2>2. n \in Nat /\ OutSize \in Nat
    BY OutStreamAssumption
  <2>. QED
    BY <2>1, <2>2 DEF BufferInv, None
<1>1. CASE HandleRequest(n)
  <2>1. /\ at' = at + n /\ left' = left - n /\ ~(n > left)
        /\ UNCHANGED <<memory, offset, armed, got, pc>>
    BY <1>1 DEF HandleRequest, Fragment
  <2>2. /\ at + left <= OutSize /\ memory[at + left] = Sentinel
    BY <1>0 DEF BufferInv, SentinelInBuffer
  <2>3. at' \in 0..OutSize /\ left' \in 0..OutSize /\ at' + left' = at + left
    BY <1>0, <2>1, <2>2
  <2>. QED
    BY <1>0, <2>1, <2>2, <2>3 DEF BufferInv, SentinelInBuffer
<1>2. CASE Refuse(n)
  <2>1. offset' = 0 /\ pc' = "idle" /\ UNCHANGED <<memory, armed, got>>
    BY <1>2 DEF Refuse
  <2>. QED
    BY <1>0, <2>1 DEF BufferInv, SentinelInBuffer
<1>3. ASSUME NEW space \in BOOLEAN, Exit(n, space)
      PROVE  BufferInv'
  <2>1. /\ memory' = Moved /\ offset' = left /\ pc' = "idle"
        /\ armed' = left \/ armed' = None
        /\ UNCHANGED got
    BY <1>3 DEF Exit
  <2>2. memory' = [s \in 0..OutSize |-> memory'[s]]
    BY <2>1 DEF Moved
  <2>. QED
    BY <1>0, <2>1, <2>2 DEF BufferInv, SentinelInBuffer
<1>. QED
  BY <1>1, <1>2, <1>3

\* Transfers requested elsewhere, and sessions that begin and end.
LEMMA SessionStep ==
  ASSUME BufferInv, ReceiveOutData \/ OpenOk \/ OpenFailed \/ Close
  PROVE  BufferInv'
<1>0. OutSize \in Nat
  BY OutStreamAssumption
<1>1. /\ pc = "idle" /\ UNCHANGED <<memory, pc>>
      /\ \/ offset' = offset /\ armed = None /\ armed' = offset /\ got' = got
         \/ offset' = 0 /\ armed = None /\ armed' = 0 /\ got' = got
         \/ offset' = 0 /\ armed # None /\ armed' = armed /\ got' = got
         \/ offset' = offset /\ armed' = armed /\ got' = got
         \/ offset' = offset /\ armed' = None /\ got' = 0
  BY DEF ReceiveOutData, OpenOk, OpenFailed, Close, loop
<1>. QED
  BY <1>0, <1>1 DEF BufferInv, SentinelInBuffer

\* The sentinel behind the received bytes has a slot of its own in the buffer
\* (can_if.c:137), whatever the fragment, the session and the sizes, and the
\* loop never runs past it.
THEOREM SentinelFits == Spec => []SentinelInBuffer
<1>1. Init => BufferInv
  BY OutStreamAssumption DEF Init, BufferInv, SentinelInBuffer
<1>2. BufferInv /\ [Next]_vars => BufferInv'
  <2>. SUFFICES ASSUME BufferInv, [Next]_vars
                PROVE  BufferInv'
    OBVIOUS
  <2>1. CASE Packet(0) \/ SomeBytes
    <3>1. PICK n \in 0..PacketSize : Packet(n)
      BY <2>1, OutStreamAssumption DEF SomeBytes
    <3>. QED
      BY <3>1, PacketStep
  <2>2. CASE UNCHANGED vars
    <3>1. UNCHANGED <<memory, offset, armed, got, pc, at, left>>
      BY <2>2 DEF vars, loop
    <3>. QED
      BY <3>1 DEF BufferInv, SentinelInBuffer
  <2>. QED
    BY <2>1, <2>2, LoopStep, SessionStep DEF Next
<1>3. BufferInv => SentinelInBuffer
  BY DEF BufferInv
<1>. QED
  BY <1>1, <1>2, <1>3, PTL DEF Spec

-----------------------------------------------------------------------------
(***************************************************************************)
(* The bytes of the host's stream.                                         *)
(***************************************************************************)

\* Induction over the natural numbers, for a set of them.
LEMMA SetInduction ==
  ASSUME NEW S, 0 \in S, \A n \in Nat : n \in S => n + 1 \in S
  PROVE  Nat \subseteq S
<1>. DEFINE R == OpToRel(<, Nat)
            T == Nat \ S
<1>1. ASSUME T # {} PROVE FALSE
  <2>0. IsWellFoundedOn(R, Nat)
    BY NatLessThanWellFounded
  <2>. HIDE DEF R
  <2>1. PICK x \in T : \A y \in T : ~(<<y, x>> \in R)
    BY <1>1, <2>0, WFMin
  <2>2. x \in Nat \ {0} /\ x - 1 \in Nat /\ x - 1 < x
    OBVIOUS
  <2>3. <<x - 1, x>> \in R
    BY <2>2 DEF R, OpToRel
  <2>4. x - 1 \in S
    BY <2>1, <2>2, <2>3
  <2>5. x \in S
    <3>1. (x - 1) + 1 = x
      BY <2>2
    <3>. QED
      BY <2>2, <2>4, <3>1
  <2>. QED
    BY <2>5
<1>. QED
  BY <1>1

\* A request ends with the first n bytes.
Ends(n) == n = 0 \/ Bytes[n].place = Size(plan[Bytes[n].of])

\* The bytes are those of the requests, one behind the other.
LEMMA StreamShape ==
  ASSUME plan \in Plans
  PROVE  /\ plan \in Seq([length : Nat, good : BOOLEAN])
         /\ Len(Bytes) \in Nat
         /\ \A n \in 1..Len(Bytes) : /\ Bytes[n].of \in 1..Len(plan)
                                     /\ Bytes[n].place \in Nat \ {0}
                                     /\ Size(plan[Bytes[n].of]) \in Nat \ {0}
         /\ 1 <= Len(Bytes) => Bytes[1].of = 1 /\ Bytes[1].place = 1
         /\ Ends(Len(Bytes))
<1>1. /\ plan \in Seq([length : Nat, good : BOOLEAN])
      /\ IsStream(Bytes, plan)
  BY OutStreamAssumption DEF Bytes, Stream
<1>2. Bytes \in Seq([of : DOMAIN plan, place : Nat \ {0}])
  BY <1>1 DEF IsStream
<1>3. Len(Bytes) \in Nat /\ Bytes = <<>> <=> Len(Bytes) = 0
  BY <1>2
<1>4. ASSUME NEW n \in 1..Len(Bytes)
      PROVE  /\ Bytes[n].of \in 1..Len(plan)
             /\ Bytes[n].place \in Nat \ {0}
             /\ Size(plan[Bytes[n].of]) \in Nat \ {0}
  <2>1. Bytes[n] \in [of : DOMAIN plan, place : Nat \ {0}]
    BY <1>2, ElementOfSeq
  <2>2. Bytes[n].of \in 1..Len(plan) /\ Bytes[n].place \in Nat \ {0}
    BY <1>1, <2>1
  <2>3. plan[Bytes[n].of] \in [length : Nat, good : BOOLEAN]
    BY <1>1, <2>2, ElementOfSeq
  <2>. QED
    BY <2>2, <2>3 DEF Size
<1>5. Len(Bytes) # 0 => /\ Bytes[1] = [of |-> 1, place |-> 1]
                        /\ Bytes[Len(Bytes)].place = Size(plan[Bytes[Len(Bytes)].of])
  BY <1>1, <1>3 DEF IsStream
<1>. QED
  BY <1>1, <1>3, <1>4, <1>5 DEF Ends

\* Behind the end of a request begins the next one, and otherwise the same
\* request goes on.
LEMMA NextByte ==
  ASSUME plan \in Plans, NEW n \in 1..Len(Bytes), n + 1 \in 1..Len(Bytes)
  PROVE  IF Ends(n)
         THEN Bytes[n + 1].of = Bytes[n].of + 1 /\ Bytes[n + 1].place = 1
         ELSE Bytes[n + 1].of = Bytes[n].of /\ Bytes[n + 1].place = Bytes[n].place + 1
<1>1. IsStream(Bytes, plan)
  BY OutStreamAssumption DEF Bytes, Stream
<1>2. n \in 1..(Len(Bytes) - 1)
  BY StreamShape
<1>3. Bytes[n + 1] = IF Bytes[n].place = Size(plan[Bytes[n].of])
                     THEN [of |-> Bytes[n].of + 1, place |-> 1]
                     ELSE [of |-> Bytes[n].of, place |-> Bytes[n].place + 1]
  BY <1>1, <1>2 DEF IsStream
<1>. QED
  BY <1>3 DEF Ends

\* No byte lies behind the end of its request.
LEMMA PlaceFits ==
  ASSUME plan \in Plans, NEW n \in 1..Len(Bytes)
  PROVE  Bytes[n].place <= Size(plan[Bytes[n].of])
<1>. DEFINE Fits(k) == Bytes[k].place <= Size(plan[Bytes[k].of])
            S == {k \in Nat : k + 1 \in 1..Len(Bytes) => Fits(k + 1)}
<1>1. 0 \in S
  BY StreamShape
<1>2. ASSUME NEW k \in Nat, k \in S PROVE k + 1 \in S
  <2>. SUFFICES ASSUME (k + 1) + 1 \in 1..Len(Bytes) PROVE Fits((k + 1) + 1)
    OBVIOUS
  <2>1. k + 1 \in 1..Len(Bytes)
    BY StreamShape
  <2>2. Fits(k + 1)
    BY <1>2, <2>1
  <2>3. /\ Bytes[k + 1].place \in Nat
        /\ Size(plan[Bytes[k + 1].of]) \in Nat
        /\ Size(plan[Bytes[(k + 1) + 1].of]) \in Nat \ {0}
    BY <2>1, StreamShape
  <2>4. IF Ends(k + 1)
        THEN Bytes[(k + 1) + 1].place = 1
        ELSE /\ Bytes[(k + 1) + 1].of = Bytes[k + 1].of
             /\ Bytes[(k + 1) + 1].place = Bytes[k + 1].place + 1
    BY <2>1, NextByte
  <2>. QED
    BY <2>2, <2>3, <2>4 DEF Ends
<1>3. Nat \subseteq S
  <2>. HIDE DEF S
  <2>. QED
    BY <1>1, <1>2, SetInduction
<1>4. n - 1 \in Nat /\ (n - 1) + 1 = n
  BY StreamShape
<1>5. n - 1 \in S
  BY <1>3, <1>4
<1>. QED
  BY <1>4, <1>5

\* What follows a byte up to the end of its request.
LEMMA RestOfRequest ==
  ASSUME plan \in Plans, NEW n \in 1..Len(Bytes), NEW i \in Nat,
         n + i <= Len(Bytes), Bytes[n].place + i <= Size(plan[Bytes[n].of])
  PROVE  Bytes[n + i].of = Bytes[n].of /\ Bytes[n + i].place = Bytes[n].place + i
<1>. DEFINE Follows(k) == /\ Bytes[n + k].of = Bytes[n].of
                          /\ Bytes[n + k].place = Bytes[n].place + k
            Within(k) == /\ n + k <= Len(Bytes)
                         /\ Bytes[n].place + k <= Size(plan[Bytes[n].of])
            S == {k \in Nat : Within(k) => Follows(k)}
<1>1. 0 \in S
  <2>1. n + 0 = n /\ Bytes[n].place + 0 = Bytes[n].place
    BY StreamShape
  <2>2. Follows(0)
    BY <2>1
  <2>. QED
    BY <2>2
<1>2. ASSUME NEW k \in Nat, k \in S PROVE k + 1 \in S
  <2>. SUFFICES ASSUME Within(k + 1) PROVE Follows(k + 1)
    OBVIOUS
  <2>0. /\ Len(Bytes) \in Nat /\ n \in 1..Len(Bytes)
        /\ Bytes[n].place \in Nat /\ Size(plan[Bytes[n].of]) \in Nat
    BY StreamShape
  <2>1. /\ n + k \in 1..Len(Bytes) /\ (n + k) + 1 \in 1..Len(Bytes)
        /\ n + (k + 1) = (n + k) + 1
        /\ Bytes[n].place + k < Size(plan[Bytes[n].of])
        /\ Bytes[n].place + (k + 1) = (Bytes[n].place + k) + 1
    <3>1. /\ n + (k + 1) <= Len(Bytes)
          /\ Bytes[n].place + (k + 1) <= Size(plan[Bytes[n].of])
      OBVIOUS
    <3>. DEFINE len == Len(Bytes)
                place == Bytes[n].place
                size == Size(plan[Bytes[n].of])
    <3>2. len \in Nat /\ n \in 1..len /\ place \in Nat /\ size \in Nat
      BY <2>0
    <3>. HIDE DEF len, place, size
    <3>3. n + (k + 1) <= len /\ place + (k + 1) <= size
      BY <3>1 DEF len, place, size
    <3>4. /\ n + k \in 1..len /\ (n + k) + 1 \in 1..len
          /\ n + (k + 1) = (n + k) + 1 /\ place + k < size
          /\ place + (k + 1) = (place + k) + 1
      BY <3>2, <3>3
    <3>. QED
      BY <3>4 DEF len, place, size
  <2>2. Follows(k)
    <3>1. Within(k) => Follows(k)
      BY <1>2
    <3>2. n + k <= Len(Bytes) /\ Bytes[n].place + k <= Size(plan[Bytes[n].of])
      <4>. DEFINE len == Len(Bytes)
                  place == Bytes[n].place
                  size == Size(plan[Bytes[n].of])
      <4>1. len \in Nat /\ place \in Nat /\ size \in Nat
        BY <2>0
      <4>2. n + k \in 1..len /\ place + k < size
        BY <2>1
      <4>. HIDE DEF len, place, size
      <4>3. n + k <= len /\ place + k <= size
        BY <4>1, <4>2
      <4>. QED
        BY <4>3 DEF len, place, size
    <3>. QED
      BY <3>1, <3>2
  <2>3. n + k # 0
    BY <2>1
  <2>4. ~Ends(n + k)
    BY <2>0, <2>1, <2>2, <2>3 DEF Ends
  <2>. QED
    BY <2>1, <2>2, <2>4, NextByte
<1>3. Nat \subseteq S
  <2>. HIDE DEF S
  <2>. QED
    BY <1>1, <1>2, SetInduction
<1>. QED
  BY <1>3

\* Complete in terms of Ends.
LEMMA CompleteIs ==
  ASSUME NEW n \in Nat \ {0}
  PROVE  Complete(n) = IF Ends(n) THEN Bytes[n].of ELSE Bytes[n].of - 1
BY DEF Complete, Ends

LEMMA CompleteRange ==
  ASSUME plan \in Plans, NEW n \in 0..Len(Bytes)
  PROVE  Complete(n) \in 0..Len(plan)
<1>0. Len(Bytes) \in Nat /\ Len(plan) \in Nat
  BY StreamShape
<1>1. CASE n = 0
  BY <1>0, <1>1 DEF Complete
<1>2. CASE n # 0
  <2>1. n \in Nat \ {0} /\ n \in 1..Len(Bytes)
    BY <1>0, <1>2
  <2>2. Bytes[n].of \in 1..Len(plan)
    BY <2>1, StreamShape
  <2>. QED
    BY <1>0, <2>1, <2>2, CompleteIs
<1>. QED
  BY <1>1, <1>2

\* More bytes complete no fewer requests.
LEMMA CompleteGrows ==
  ASSUME plan \in Plans, NEW m \in 0..Len(Bytes), NEW n \in m..Len(Bytes)
  PROVE  Complete(m) <= Complete(n)
<1>0. Len(Bytes) \in Nat /\ m \in Nat /\ n \in Nat
  BY StreamShape
<1>1. ASSUME NEW k \in 0..(Len(Bytes) - 1)
      PROVE  Complete(k) <= Complete(k + 1)
  <2>0. k + 1 \in 1..Len(Bytes) /\ k + 1 \in Nat \ {0} /\ k \in 0..Len(Bytes)
    BY <1>0
  <2>1. Complete(k + 1) = IF Ends(k + 1) THEN Bytes[k + 1].of ELSE Bytes[k + 1].of - 1
    BY <2>0, CompleteIs
  <2>2. Bytes[k + 1].of \in 1..Len(plan)
    BY <2>0, StreamShape
  <2>3. CASE k = 0
    <3>1. Complete(k) = 0
      BY <2>3 DEF Complete
    <3>. QED
      BY <2>1, <2>2, <3>1
  <2>4. CASE k # 0
    <3>1. k \in 1..Len(Bytes) /\ k \in Nat \ {0}
      BY <2>0, <2>4
    <3>2. Complete(k) = IF Ends(k) THEN Bytes[k].of ELSE Bytes[k].of - 1
      BY <3>1, CompleteIs
    <3>3. Bytes[k].of \in 1..Len(plan)
      BY <3>1, StreamShape
    <3>4. Bytes[k + 1].of = IF Ends(k) THEN Bytes[k].of + 1 ELSE Bytes[k].of
      BY <2>0, <3>1, NextByte
    <3>. QED
      BY SMTT(20), <2>1, <2>2, <3>2, <3>3, <3>4
  <2>. QED
    BY <2>3, <2>4
<1>. DEFINE S == {k \in Nat : m + k <= Len(Bytes) => Complete(m) <= Complete(m + k)}
<1>2. 0 \in S
  <2>1. m + 0 = m /\ Complete(m) \in 0..Len(plan)
    BY <1>0, CompleteRange
  <2>. QED
    BY <2>1
<1>3. ASSUME NEW k \in Nat, k \in S PROVE k + 1 \in S
  <2>. SUFFICES ASSUME m + (k + 1) <= Len(Bytes)
                PROVE  Complete(m) <= Complete(m + (k + 1))
    OBVIOUS
  <2>1. /\ m + k \in 0..(Len(Bytes) - 1) /\ m + k <= Len(Bytes)
        /\ m + (k + 1) = (m + k) + 1
        /\ m + k \in 0..Len(Bytes) /\ (m + k) + 1 \in 0..Len(Bytes)
    BY <1>0
  <2>2. Complete(m) <= Complete(m + k) /\ Complete(m + k) <= Complete((m + k) + 1)
    BY <1>1, <1>3, <2>1
  <2>3. /\ Complete(m) \in 0..Len(plan) /\ Complete(m + k) \in 0..Len(plan)
        /\ Complete((m + k) + 1) \in 0..Len(plan)
    BY <2>1, CompleteRange
  <2>. QED
    BY <2>1, <2>2, <2>3
<1>4. Nat \subseteq S
  <2>. HIDE DEF S
  <2>. QED
    BY <1>2, <1>3, SetInduction
<1>5. n - m \in Nat /\ m + (n - m) = n
  BY <1>0
<1>6. n - m \in S
  BY <1>4, <1>5
<1>. QED
  BY <1>0, <1>5, <1>6

\* The request that begins behind the first n bytes.
LEMMA NextRequest ==
  ASSUME plan \in Plans, NEW n \in 0..(Len(Bytes) - 1), Ends(n)
  PROVE  Bytes[n + 1].of = Complete(n) + 1 /\ Bytes[n + 1].place = 1
<1>0. Len(Bytes) \in Nat /\ n + 1 \in 1..Len(Bytes)
  BY StreamShape
<1>1. CASE n = 0
  BY <1>0, <1>1, StreamShape DEF Complete
<1>2. CASE n # 0
  <2>1. n \in 1..Len(Bytes) /\ n \in Nat \ {0}
    BY <1>0, <1>2
  <2>2. Complete(n) = Bytes[n].of
    BY <2>1, CompleteIs
  <2>. QED
    BY <1>0, <2>1, <2>2, NextByte
<1>. QED
  BY <1>1, <1>2

\* Where it ends, and that it is not complete before.
LEMMA RequestEnds ==
  ASSUME plan \in Plans, NEW n \in 0..(Len(Bytes) - 1), Ends(n),
         NEW k \in 1..Size(plan[Bytes[n + 1].of]), n + k <= Len(Bytes)
  PROVE  IF k = Size(plan[Bytes[n + 1].of])
         THEN Ends(n + k) /\ Complete(n + k) = Complete(n) + 1
         ELSE Complete(n + k) = Complete(n)
<1>0. /\ Len(Bytes) \in Nat /\ n + 1 \in 1..Len(Bytes)
      /\ Size(plan[Bytes[n + 1].of]) \in Nat
  <2>1. Len(Bytes) \in Nat
    BY StreamShape
  <2>2. n + 1 \in 1..Len(Bytes)
    BY <2>1
  <2>. QED
    BY <2>1, <2>2, StreamShape
<1>1. Bytes[n + 1].of = Complete(n) + 1 /\ Bytes[n + 1].place = 1
  BY NextRequest
<1>2. k - 1 \in Nat /\ (n + 1) + (k - 1) = n + k /\ 1 + (k - 1) = k
  BY <1>0
<1>3. Bytes[n + k].of = Bytes[n + 1].of /\ Bytes[n + k].place = k
  <2>1. (n + 1) + (k - 1) <= Len(Bytes)
    BY <1>2
  <2>2. Bytes[n + 1].place + (k - 1) <= Size(plan[Bytes[n + 1].of])
    BY <1>0, <1>1, <1>2
  <2>3. /\ Bytes[(n + 1) + (k - 1)].of = Bytes[n + 1].of
        /\ Bytes[(n + 1) + (k - 1)].place = Bytes[n + 1].place + (k - 1)
    BY <1>0, <1>2, <2>1, <2>2, RestOfRequest
  <2>. QED
    BY <1>1, <1>2, <2>3
<1>4. n + k \in Nat \ {0}
  BY <1>0
<1>5. Ends(n + k) <=> k = Size(plan[Bytes[n + 1].of])
  BY <1>3, <1>4 DEF Ends
<1>6. Complete(n) \in Nat
  <2>1. n \in 0..Len(Bytes)
    BY <1>0
  <2>2. Complete(n) \in 0..Len(plan)
    BY <2>1, CompleteRange
  <2>. QED
    BY <2>2
<1>7. Complete(n + k) = IF Ends(n + k) THEN Bytes[n + k].of ELSE Bytes[n + k].of - 1
  BY <1>4, CompleteIs
<1>. QED
  BY <1>1, <1>3, <1>5, <1>6, <1>7

\* Boundary is the end of the request that the first n bytes have begun.
LEMMA BoundaryEnds ==
  ASSUME plan \in Plans, NEW n \in 0..Len(Bytes)
  PROVE  /\ Boundary(n) \in n..Len(Bytes) /\ Ends(Boundary(n))
         /\ Boundary(n) = n <=> Ends(n)
<1>. DEFINE First(m) == /\ m = 0 \/ Bytes[m].place = Size(plan[Bytes[m].of])
                        /\ \A k \in n..(m - 1) : /\ k # 0
                                                 /\ Bytes[k].place # Size(plan[Bytes[k].of])
<1>0. Len(Bytes) \in Nat /\ n \in Nat
  BY StreamShape
<1>1. \E m \in n..Len(Bytes) : First(m)
  <2>1. CASE n = 0
    BY <1>0, <2>1
  <2>2. CASE n # 0
    <3>. DEFINE size  == Size(plan[Bytes[n].of])
                place == Bytes[n].place
                last  == n + (size - place)
    <3>1. n \in 1..Len(Bytes)
      BY <1>0, <2>2
    <3>2. size \in Nat \ {0} /\ place \in Nat \ {0} /\ place <= size
      BY <3>1, StreamShape, PlaceFits
    <3>3. ASSUME NEW i \in 0..(size - place), n + i <= Len(Bytes)
          PROVE  /\ Bytes[n + i].of = Bytes[n].of /\ Bytes[n + i].place = place + i
                 /\ Ends(n + i) <=> i = size - place
      <4>1. i \in Nat /\ place + i <= size
        BY <3>2
      <4>2. Bytes[n + i].of = Bytes[n].of /\ Bytes[n + i].place = place + i
        BY <3>1, <3>3, <4>1, RestOfRequest
      <4>3. n + i # 0
        BY <3>1, <4>1
      <4>4. Ends(n + i) <=> place + i = size
        BY <4>2, <4>3 DEF Ends
      <4>. QED
        BY <3>2, <4>1, <4>2, <4>4
    <3>4. last <= Len(Bytes)
      <4>1. SUFFICES ASSUME last > Len(Bytes) PROVE FALSE
        BY <1>0, <3>2
      <4>2. /\ Len(Bytes) - n \in 0..(size - place) /\ Len(Bytes) - n # size - place
            /\ n + (Len(Bytes) - n) = Len(Bytes)
        BY <1>0, <3>1, <3>2, <4>1
      <4>3. n + (Len(Bytes) - n) <= Len(Bytes)
        BY <1>0, <4>2
      <4>. HIDE DEF size, place
      <4>4. Ends(n + (Len(Bytes) - n)) <=> Len(Bytes) - n = size - place
        BY <3>3, <4>2, <4>3
      <4>5. Ends(Len(Bytes))
        BY StreamShape
      <4>. QED
        BY <4>2, <4>4, <4>5
    <3>5. last \in n..Len(Bytes) /\ last # 0 /\ size - place \in 0..(size - place)
      BY <1>0, <3>1, <3>2, <3>4
    <3>6. Bytes[last].place = Size(plan[Bytes[last].of])
      <4>. HIDE DEF size, place
      <4>1. Ends(last)
        BY <3>3, <3>4, <3>5
      <4>. QED
        BY <3>5, <4>1 DEF Ends
    <3>7. ASSUME NEW k \in n..(last - 1)
          PROVE  k # 0 /\ Bytes[k].place # Size(plan[Bytes[k].of])
      <4>. HIDE DEF size, place
      <4>1. /\ k - n \in 0..(size - place) /\ k - n # size - place
            /\ n + (k - n) = k /\ k <= Len(Bytes) /\ k # 0
        BY <1>0, <3>1, <3>2, <3>4
      <4>2. n + (k - n) <= Len(Bytes)
        BY <4>1
      <4>3. ~Ends(n + (k - n))
        BY <3>3, <4>1, <4>2
      <4>. QED
        BY <4>1, <4>3 DEF Ends
    <3>. HIDE DEF last
    <3>. QED
      BY <3>5, <3>6, <3>7
  <2>. QED
    BY <2>1, <2>2
<1>2. Boundary(n) \in n..Len(Bytes) /\ First(Boundary(n))
  <2>1. Boundary(n) = CHOOSE m \in n..Len(Bytes) : First(m)
    BY Zenon DEF Boundary
  <2>. HIDE DEF First
  <2>. QED
    BY <1>1, <2>1
<1>3. Ends(Boundary(n))
  BY <1>2, Zenon DEF Ends
<1>4. ASSUME Ends(n), Boundary(n) # n PROVE FALSE
  <2>1. n \in n..(Boundary(n) - 1)
    BY <1>0, <1>2, <1>4
  <2>. QED
    BY <1>2, <1>4, <2>1 DEF Ends
<1>. QED
  BY <1>2, <1>3, <1>4

-----------------------------------------------------------------------------
(***************************************************************************)
(* Types, and how many requests one transfer can complete.                 *)
(***************************************************************************)

\* The requests handled since the transfer completed and the bytes left fit
\* into the buffer together.
BatchInv ==
    /\ pc = "idle" => batch = 0
    /\ pc = "parse" => batch * MinRequest + left <= OutSize

TypesInv == TypeOK /\ BufferInv /\ BatchInv /\ got <= fed

LEMMA PacketTypes ==
  ASSUME TypesInv, NEW n \in 0..PacketSize, Packet(n)
  PROVE  TypesInv'
<1>. DEFINE first  == armed + got
            stored == [s \in 0..OutSize |-> IF s \in first..(first + n - 1)
                                            THEN fed + 1 + s - first
                                            ELSE memory[s]]
<1>1. BufferInv'
  BY PacketStep DEF TypesInv
<1>2. /\ pc = "idle" /\ armed \in offset..OutSize /\ got \in 0..(OutSize - armed)
      /\ offset \in 0..OutSize /\ n \in Nat /\ OutSize \in Nat /\ armed # None
      /\ got + n <= OutSize - armed /\ fed + n <= Len(Bytes) /\ got <= fed
      /\ fed' = fed + n /\ fed \in 0..Len(Bytes) /\ opened \in 0..fed
      /\ UNCHANGED <<offset, port, plan, handled, serving, opened>>
  BY OutStreamAssumption DEF TypesInv, TypeOK, Packet, BufferInv, Room
<1>3. Len(Bytes) \in Nat /\ Bytes' = Bytes
  BY <1>2, StreamShape DEF TypesInv, TypeOK, Bytes
<1>4. stored \in [0..OutSize -> -1..Len(Bytes)]
  <2>1. memory \in [0..OutSize -> -1..Len(Bytes)]
    BY DEF TypesInv, TypeOK
  <2>. QED
    BY <1>2, <1>3, <2>1
<1>5. fed' \in 0..Len(Bytes) /\ opened' \in 0..fed'
  BY <1>2, <1>3
<1>6. /\ port' \in {"closed", "failed", "open"} /\ plan' \in Plans
      /\ handled' \in 0..Len(plan') /\ serving' \in BOOLEAN
  BY <1>2 DEF TypesInv, TypeOK
<1>7. CASE n < PacketSize \/ got + n = Room
  <2>1. /\ memory' = [stored EXCEPT ![first + n] = Sentinel]
        /\ pc' = "parse" /\ at' = armed - offset /\ left' = got + n + offset
        /\ batch' = 0 /\ armed' = -1 /\ got' = 0
    BY <1>7 DEF Packet, None
  <2>2. /\ at' \in 0..OutSize /\ left' \in 0..OutSize /\ got' <= fed'
        /\ batch' * MinRequest + left' <= OutSize
    <3>1. 0 * MinRequest = 0
      BY OutStreamAssumption
    <3>. QED
      BY <1>2, <2>1, <3>1
  <2>3. memory' \in [0..OutSize -> -1..Len(Bytes)]
    <3>. HIDE DEF stored
    <3>1. Sentinel \in -1..Len(Bytes)
      BY <1>3 DEF Sentinel
    <3>. QED
      BY <1>4, <2>1, <3>1
  <2>4. armed' \in -1..OutSize /\ got' \in 0..0 /\ armed' = None
    BY <1>2, <2>1 DEF None
  <2>5. TypeOK'
    BY <1>1, <1>3, <1>5, <1>6, <2>1, <2>2, <2>3, <2>4 DEF TypeOK, BufferInv
  <2>. QED
    BY <1>1, <2>1, <2>2, <2>5 DEF TypesInv, BatchInv
<1>8. CASE ~(n < PacketSize \/ got + n = Room)
  <2>1. memory' = stored /\ got' = got + n /\ UNCHANGED <<loop, armed>>
    BY <1>8 DEF Packet
  <2>2. UNCHANGED <<pc, at, left, batch, armed>>
    BY <2>1 DEF loop
  <2>3. got' <= fed' /\ got' \in 0..(OutSize - armed')
    BY <1>2, <2>1, <2>2
  <2>4. memory' \in [0..OutSize -> -1..Len(Bytes)]
    BY <1>4, <2>1
  <2>5. TypeOK'
    BY <1>1, <1>2, <1>3, <1>5, <1>6, <2>2, <2>3, <2>4 DEF TypeOK, BufferInv, TypesInv
  <2>6. BatchInv'
    BY <1>2, <2>2 DEF TypesInv, BatchInv
  <2>. QED
    BY <1>1, <2>3, <2>5, <2>6 DEF TypesInv
<1>. QED
  BY <1>7, <1>8

LEMMA LoopTypes ==
  ASSUME TypesInv, Loop
  PROVE  TypesInv'
<1>. PICK n \in 0..(OutSize + 1) : \/ HandleRequest(n) \/ Refuse(n)
                                   \/ \E space \in BOOLEAN : Exit(n, space)
  BY DEF Loop
<1>1. BufferInv'
  BY LoopStep DEF TypesInv
<1>2. /\ pc = "parse" /\ armed = -1 /\ got = 0 /\ None = -1
      /\ at \in 0..OutSize /\ left \in 0..OutSize /\ OutSize \in Nat
      /\ MinRequest \in Nat \ {0} /\ n \in Nat /\ batch \in Nat
      /\ batch * MinRequest + left <= OutSize /\ at + left <= OutSize
  <2>1. pc = "parse"
    BY DEF HandleRequest, Refuse, Exit
  <2>2. n \in Nat /\ OutSize \in Nat /\ MinRequest \in Nat \ {0}
    BY OutStreamAssumption
  <2>. QED
    BY <2>1, <2>2 DEF TypesInv, TypeOK, BufferInv, SentinelInBuffer, BatchInv, None
<1>3. /\ memory \in [0..OutSize -> -1..Len(Bytes)] /\ plan \in Plans
      /\ fed \in 0..Len(Bytes) /\ opened \in 0..fed /\ handled \in 0..Len(plan)
      /\ port \in {"closed", "failed", "open"} /\ serving \in BOOLEAN
      /\ Len(Bytes) \in Nat
  BY StreamShape DEF TypesInv, TypeOK
<1>4. UNCHANGED <<got, port, plan, fed, opened>> /\ Bytes' = Bytes
  BY DEF HandleRequest, Refuse, Exit, Bytes
<1>5. CASE HandleRequest(n)
  <2>1. /\ at' = at + n /\ left' = left - n /\ batch' = batch + 1 /\ ~(n > left)
        /\ TRUE \in Verdict(n)
        /\ UNCHANGED <<memory, offset, armed, got, pc, port, plan, fed, serving, opened>>
        /\ handled' = IF ~serving THEN handled
                      ELSE IF Whole(n) THEN Bytes[memory[at]].of ELSE 0
    BY <1>5 DEF HandleRequest, Fragment
  <2>2. Whole(n) => /\ memory[at] \in 1..Len(Bytes)
                    /\ n = plan[Bytes[memory[at]].of].length
    BY <1>2, <1>3 DEF Whole
  <2>3. Whole(n) => Bytes[memory[at]].of \in 1..Len(plan)
    BY <1>3, <2>2, StreamShape
  <2>4. handled' \in 0..Len(plan)
    <3>1. Len(plan) \in Nat
      BY <1>3, StreamShape
    <3>. QED
      BY SMTT(20), <1>3, <2>1, <2>3, <3>1
  <2>5. n >= MinRequest
    <3>1. CASE Whole(n)
      <4>1. plan[Bytes[memory[at]].of].good
        BY <2>1, <3>1, Zenon DEF Verdict
      <4>2. DOMAIN plan = 1..Len(plan)
        BY <1>3, StreamShape
      <4>3. plan[Bytes[memory[at]].of].length \in MinRequest..OutSize
        BY <1>3, <2>3, <3>1, <4>1, <4>2, OutStreamAssumption
      <4>. QED
        BY SMTT(20), <1>2, <2>2, <3>1, <4>3
    <3>2. CASE ~Whole(n)
      BY <2>1, <3>2 DEF Verdict
    <3>. QED
      BY <3>1, <3>2
  <2>6. /\ at' \in 0..OutSize /\ left' \in 0..OutSize /\ batch' \in Nat
        /\ batch' * MinRequest + left' <= OutSize
    <3>1. (batch + 1) * MinRequest = batch * MinRequest + MinRequest
      BY <1>2
    <3>2. batch * MinRequest \in Nat
      BY <1>2
    <3>. QED
      BY <1>2, <2>1, <2>5, <3>1, <3>2
  <2>7. TypeOK'
    BY <1>2, <1>3, <1>4, <2>1, <2>4, <2>6 DEF TypeOK, BufferInv, TypesInv
  <2>. QED
    BY <1>1, <1>2, <1>3, <2>1, <2>6, <2>7 DEF TypesInv, BatchInv
<1>6. CASE Refuse(n)
  <2>1. /\ offset' = 0 /\ serving' = FALSE /\ pc' = "idle"
        /\ at' = 0 /\ left' = 0 /\ batch' = 0
        /\ UNCHANGED <<memory, armed, got, port, plan, fed, handled, opened>>
    BY <1>6 DEF Refuse
  <2>2. TypeOK'
    BY SMTT(20), <1>2, <1>3, <1>4, <2>1 DEF TypeOK
  <2>. QED
    BY <1>1, <1>2, <1>3, <2>1, <2>2 DEF TypesInv, BatchInv
<1>7. ASSUME NEW space \in BOOLEAN, Exit(n, space)
      PROVE  TypesInv'
  <2>1. /\ memory' = Moved /\ offset' = left /\ pc' = "idle"
        /\ at' = 0 /\ left' = 0 /\ batch' = 0
        /\ armed' = left \/ armed' = None
        /\ UNCHANGED <<got, port, plan, fed, handled, serving, opened>>
    BY <1>7 DEF Exit
  <2>2. memory' \in [0..OutSize -> -1..Len(Bytes)]
    BY <1>2, <1>3, <2>1 DEF Moved
  <2>3. armed' \in -1..OutSize /\ got' \in 0..(IF armed' = None THEN 0 ELSE OutSize - armed')
    BY <1>2, <2>1
  <2>4. /\ offset' \in 0..OutSize /\ at' \in 0..OutSize /\ left' \in 0..OutSize
        /\ batch' \in Nat /\ plan' = plan /\ fed' = fed /\ opened' = opened
        /\ handled' = handled /\ serving' = serving /\ port' = port
    BY <1>2, <2>1
  <2>5. TypeOK'
    BY <1>3, <1>4, <2>1, <2>2, <2>3, <2>4 DEF TypeOK
  <2>. QED
    BY <1>1, <1>2, <1>3, <2>1, <2>5 DEF TypesInv, BatchInv
<1>. QED
  BY <1>5, <1>6, <1>7

LEMMA SessionTypes ==
  ASSUME TypesInv, ReceiveOutData \/ OpenOk \/ OpenFailed \/ Close
  PROVE  TypesInv'
<1>1. BufferInv'
  BY SessionStep DEF TypesInv
<1>2. /\ pc = "idle" /\ UNCHANGED <<memory, pc, at, left, batch, plan>>
      /\ Bytes' = Bytes
  BY DEF ReceiveOutData, OpenOk, OpenFailed, Close, loop, Bytes
<1>3. /\ \/ armed = None /\ got = 0
         \/ armed \in 0..OutSize /\ got \in 0..(OutSize - armed)
      /\ offset \in 0..OutSize /\ OutSize \in Nat /\ None = -1 /\ got <= fed
  BY OutStreamAssumption DEF TypesInv, BufferInv, None
<1>4. /\ plan \in Plans /\ fed \in 0..Len(Bytes) /\ Len(Bytes) \in Nat
      /\ opened \in 0..fed /\ handled \in 0..Len(plan) /\ port \in {"closed", "failed", "open"}
      /\ serving \in BOOLEAN
  BY StreamShape DEF TypesInv, TypeOK
<1>5. /\ fed' \in fed..Len(Bytes) /\ opened' \in 0..fed' /\ handled' \in 0..Len(plan)
  <2>1. CASE ReceiveOutData \/ Close
    BY <1>4, <2>1 DEF ReceiveOutData, Close
  <2>2. CASE OpenOk \/ OpenFailed
    <3>1. fed' = Boundary(fed) /\ opened' = fed' /\ handled' = Complete(fed' - got)
      BY <2>2 DEF OpenOk, OpenFailed, HostRestarts
    <3>2. Boundary(fed) \in fed..Len(Bytes)
      BY <1>4, BoundaryEnds
    <3>3. fed' - got \in 0..Len(Bytes)
      BY <1>3, <1>4, <3>1, <3>2
    <3>4. Complete(fed' - got) \in 0..Len(plan)
      BY <1>4, <3>3, CompleteRange
    <3>. QED
      BY <1>4, <3>1, <3>2, <3>4
  <2>. QED
    BY <2>1, <2>2
<1>6. /\ offset' \in 0..OutSize /\ armed' \in -1..OutSize /\ got' <= fed'
      /\ got' \in 0..(IF armed' = None THEN 0 ELSE OutSize - armed')
  <2>1. \/ armed' = armed /\ got' = got
        \/ armed = None /\ got' = got /\ armed' \in {0, offset}
        \/ armed' = None /\ got' = 0
    BY DEF ReceiveOutData, OpenOk, OpenFailed, Close
  <2>2. offset' = offset \/ offset' = 0
    BY DEF ReceiveOutData, OpenOk, OpenFailed, Close
  <2>3. fed <= fed'
    BY <1>4, <1>5
  <2>4. CASE armed' = None /\ got' = 0
    BY <1>3, <1>4, <1>5, <2>2, <2>4
  <2>5. CASE armed' = armed /\ got' = got
    BY <1>3, <1>4, <1>5, <2>2, <2>3, <2>5
  <2>6. CASE armed = None /\ got' = got /\ armed' \in {0, offset}
    <3>1. got' = 0 /\ got' <= fed' /\ offset' \in 0..OutSize
      BY <1>3, <1>4, <1>5, <2>2, <2>6
    <3>2. armed' \in 0..OutSize
      <4>1. 0 \in 0..OutSize
        BY <1>3
      <4>. QED
        BY <1>3, <2>6, <4>1, Zenon
    <3>3. OutSize \in Nat
      BY <1>3
    <3>4. \A a \in 0..OutSize : /\ a \in -1..OutSize
                                /\ 0 \in 0..(IF a = None THEN 0 ELSE OutSize - a)
      BY <3>3 DEF None
    <3>. QED
      BY <3>1, <3>2, <3>4
  <2>. QED
    BY <2>1, <2>4, <2>5, <2>6
<1>7. port' \in {"closed", "failed", "open"} /\ serving' \in BOOLEAN
  BY <1>4 DEF ReceiveOutData, OpenOk, OpenFailed, Close
<1>8. TypeOK'
  <2>1. fed' \in 0..Len(Bytes)
    BY <1>4, <1>5
  <2>. QED
    BY <1>2, <1>5, <1>6, <1>7, <2>1 DEF TypeOK, TypesInv
<1>. QED
  BY <1>1, <1>2, <1>6, <1>8 DEF TypesInv, BatchInv

LEMMA TypesInvariant == Spec => []TypesInv
<1>1. Init => TypesInv
  <2>. SUFFICES ASSUME Init PROVE TypesInv
    OBVIOUS
  <2>1. /\ plan \in Plans /\ OutSize \in Nat /\ Len(Bytes) \in Nat /\ Len(plan) \in Nat
    BY StreamShape, OutStreamAssumption DEF Init
  <2>2. BufferInv
    BY <2>1 DEF Init, BufferInv, SentinelInBuffer
  <2>3. memory \in [0..OutSize -> -1..Len(Bytes)]
    BY <2>1 DEF Init, Nothing
  <2>4. /\ offset \in 0..OutSize /\ armed \in -1..OutSize
        /\ got \in 0..(IF armed = None THEN 0 ELSE OutSize - armed)
        /\ at \in 0..OutSize /\ left \in 0..OutSize /\ fed \in 0..Len(Bytes)
    BY <2>1 DEF Init, None
  <2>5. /\ batch \in Nat /\ handled \in 0..Len(plan) /\ opened \in 0..fed /\ got <= fed
        /\ BatchInv
    BY <2>1 DEF Init, BatchInv
  <2>. QED
    BY <2>1, <2>2, <2>3, <2>4, <2>5 DEF Init, TypesInv, TypeOK
<1>2. TypesInv /\ [Next]_vars => TypesInv'
  <2>. SUFFICES ASSUME TypesInv, [Next]_vars
                PROVE  TypesInv'
    OBVIOUS
  <2>1. CASE Packet(0) \/ SomeBytes
    <3>1. PICK n \in 0..PacketSize : Packet(n)
      BY <2>1, OutStreamAssumption DEF SomeBytes
    <3>. QED
      BY <3>1, PacketTypes
  <2>2. CASE UNCHANGED vars
    <3>1. UNCHANGED <<memory, offset, armed, got, pc, at, left, batch, port, plan, fed,
                      handled, serving, opened>>
      BY <2>2 DEF vars, loop
    <3>. QED
      BY <3>1 DEF TypesInv, TypeOK, BufferInv, SentinelInBuffer, BatchInv, Bytes
  <2>. QED
    BY <2>1, <2>2, LoopTypes, SessionTypes DEF Next
<1>. QED
  BY <1>1, <1>2, PTL DEF Spec

\* The variables keep their types, whatever the host sends.
THEOREM StreamTypes == Spec => []TypeOK
<1>1. TypesInv => TypeOK
  BY DEF TypesInv
<1>. QED
  BY <1>1, TypesInvariant, PTL

\* How many requests of at least m bytes fit into n bytes.
LEMMA Quotient ==
  ASSUME NEW a \in Nat, NEW m \in Nat \ {0}, NEW n \in Nat, a * m <= n
  PROVE  a <= n \div m
<1>. DEFINE q == n \div m
            r == n % m
<1>1. q \in Nat /\ r \in Nat /\ r < m /\ n = q * m + r
  OBVIOUS
<1>. HIDE DEF q, r
<1>2. SUFFICES ASSUME a >= q + 1 PROVE FALSE
  BY <1>1 DEF q
<1>3. PICK d \in Nat : a = (q + 1) + d
  <2>1. a - (q + 1) \in Nat /\ a = (q + 1) + (a - (q + 1))
    BY <1>1, <1>2
  <2>. QED
    BY <2>1
<1>4. a * m = (q + 1) * m + d * m /\ (q + 1) * m = q * m + m
  BY <1>1, <1>3
<1>5. d * m >= 0 /\ d * m \in Nat /\ q * m \in Nat
  BY <1>1, <1>3
<1>. QED
  BY <1>1, <1>4, <1>5

\* One transfer completes no more requests than CanIf_ReceiveOutData has
\* reserved queue space for (can_if.c:169).
THEOREM BatchesFit == Spec => []BatchFits
<1>1. TypesInv => BatchFits
  <2>. SUFFICES ASSUME TypesInv PROVE BatchFits
    OBVIOUS
  <2>1. /\ batch \in Nat /\ MinRequest \in Nat \ {0} /\ OutSize \in Nat
        /\ left \in Nat /\ pc \in {"idle", "parse"}
    BY OutStreamAssumption DEF TypesInv, TypeOK
  <2>2. batch * MinRequest \in Nat
    BY <2>1
  <2>3. batch * MinRequest <= OutSize
    <3>1. 0 * MinRequest = 0
      BY <2>1
    <3>. QED
      BY <2>1, <2>2, <3>1 DEF TypesInv, BatchInv
  <2>. QED
    BY <2>1, <2>3, Quotient DEF BatchFits
<1>. QED
  BY <1>1, TypesInvariant, PTL

-----------------------------------------------------------------------------
(***************************************************************************)
(* The requests of the stream are handled whole, in order and at once.     *)
(***************************************************************************)

\* The received bytes not handed over as requests yet lie in Held slots from
\* Start on; Front bytes of the stream lie before them.
Start == IF pc = "parse" THEN at ELSE 0
Held  == IF pc = "parse" THEN left ELSE offset
Front == Received - Held

\* While serving, the held bytes continue the handled requests, the requested
\* transfer goes on behind them, and between two transfers no complete request
\* is held.
ServingInv ==
    serving =>
        /\ Held <= Received
        /\ \A i \in 0..(Held - 1) : memory[Start + i] = Front + 1 + i
        /\ \A i \in 0..(got - 1) : memory[armed + i] = Received + 1 + i
        /\ Ends(Front) /\ Complete(Front) = handled
        /\ armed # None /\ offset # 0 => armed = offset
        /\ pc = "idle" => Complete(Received) = handled

StreamInv == TypesInv /\ ServingInv /\ handled <= Complete(Received)

\* What is complete depends on the variables through these counts only.
LEMMA SamePlan ==
  ASSUME UNCHANGED plan
  PROVE  /\ Ends(Front)' <=> Ends(Front')
         /\ Complete(Front)' = Complete(Front')
         /\ Complete(Received)' = Complete(Received')
BY DEF Ends, Complete, Bytes

LEMMA ServingKept ==
  ASSUME UNCHANGED plan, Held' <= Received',
         \A i \in 0..(Held' - 1) : memory'[Start' + i] = Front' + 1 + i,
         \A i \in 0..(got' - 1) : memory'[armed' + i] = Received' + 1 + i,
         Ends(Front'), Complete(Front') = handled',
         armed' # None /\ offset' # 0 => armed' = offset',
         pc' = "idle" => Complete(Received') = handled'
  PROVE  ServingInv'
BY SamePlan DEF ServingInv

\* The counts of a state.
LEMMA Counts ==
  ASSUME TypesInv
  PROVE  /\ plan \in Plans /\ Len(Bytes) \in Nat /\ OutSize \in Nat
         /\ fed \in 0..Len(Bytes) /\ got \in 0..fed
         /\ Received \in 0..Len(Bytes) /\ Held \in 0..OutSize /\ Start \in 0..OutSize
         /\ handled \in 0..Len(plan) /\ Len(plan) \in Nat
         /\ Complete(Received) \in 0..Len(plan)
<1>1. /\ plan \in Plans /\ Len(Bytes) \in Nat /\ OutSize \in Nat /\ Len(plan) \in Nat
      /\ fed \in 0..Len(Bytes) /\ handled \in 0..Len(plan)
  BY OutStreamAssumption, StreamShape DEF TypesInv, TypeOK
<1>2. got \in 0..fed
  BY <1>1 DEF TypesInv, TypeOK, BufferInv, None
<1>3. Received \in 0..Len(Bytes)
  BY <1>1, <1>2 DEF Received
<1>4. Held \in 0..OutSize /\ Start \in 0..OutSize
  BY <1>1 DEF TypesInv, TypeOK, Held, Start
<1>. QED
  BY <1>1, <1>2, <1>3, <1>4, CompleteRange

\* A packet that does not complete its transfer changes nothing for the
\* requests, one that does is an arrival.
LEMMA PacketServes ==
  ASSUME StreamInv, NEW n \in 0..PacketSize, Packet(n)
  PROVE  StreamInv' /\ [Requests!Next]_(Requests!vars)
<1>. DEFINE first  == armed + got
            stored == [s \in 0..OutSize |-> IF s \in first..(first + n - 1)
                                            THEN fed + 1 + s - first
                                            ELSE memory[s]]
<1>0. TypesInv /\ TypesInv'
  BY PacketTypes DEF StreamInv
<1>1. /\ pc = "idle" /\ armed \in offset..OutSize /\ got \in 0..(OutSize - armed)
      /\ offset \in 0..OutSize /\ n \in Nat /\ OutSize \in Nat /\ armed # None
      /\ got + n <= OutSize - armed /\ fed + n <= Len(Bytes)
      /\ fed' = fed + n /\ UNCHANGED <<offset, port, plan, handled, serving, opened>>
      /\ fed \in 0..Len(Bytes) /\ got \in 0..fed /\ Len(Bytes) \in Nat
      /\ plan \in Plans
  BY <1>0, Counts, OutStreamAssumption DEF TypesInv, TypeOK, Packet, BufferInv, Room
<1>2. Received = fed - got /\ Held = offset /\ Start = 0 /\ Front = fed - got - offset
  BY <1>1 DEF Received, Held, Start, Front
<1>3. \A s \in 0..OutSize : stored[s] = IF s \in first..(first + n - 1)
                                        THEN fed + 1 + s - first ELSE memory[s]
  OBVIOUS
<1>4. serving => /\ offset <= Received
                 /\ \A i \in 0..(offset - 1) : memory[i] = Front + 1 + i
                 /\ \A i \in 0..(got - 1) : memory[armed + i] = Received + 1 + i
                 /\ Ends(Front) /\ Complete(Front) = handled
                 /\ offset # 0 => armed = offset
                 /\ Complete(Received) = handled
  <2>1. \A i \in 0..(offset - 1) : 0 + i = i
    BY <1>1
  <2>. QED
    BY <1>1, <1>2, <2>1 DEF StreamInv, ServingInv
\* the bytes in the buffer once the packet is stored
<1>5. ASSUME serving
      PROVE  /\ \A i \in 0..(offset - 1) : stored[i] = Front + 1 + i
             /\ \A i \in 0..(got + n - 1) : stored[armed + i] = Received + 1 + i
  <2>1. ASSUME NEW i \in 0..(offset - 1)
        PROVE  stored[i] = Front + 1 + i
    <3>1. i \in 0..OutSize /\ i < first
      BY <1>1
    <3>2. stored[i] = memory[i]
      <4>. HIDE DEF first, stored
      <4>1. i \notin first..(first + n - 1)
        BY <1>1, <3>1 DEF first
      <4>. QED
        BY <1>3, <3>1, <4>1
    <3>. QED
      BY <1>4, <1>5, <3>2
  <2>2. ASSUME NEW i \in 0..(got + n - 1)
        PROVE  stored[armed + i] = Received + 1 + i
    <3>1. armed + i \in 0..OutSize
      BY <1>1
    <3>2. CASE i < got
      <4>1. armed + i \notin first..(first + n - 1)
        BY <1>1, <3>2
      <4>2. i \in 0..(got - 1)
        BY <1>1, <3>2
      <4>. HIDE DEF first, stored
      <4>3. stored[armed + i] = memory[armed + i]
        BY <1>3, <3>1, <4>1
      <4>. QED
        BY <1>4, <1>5, <4>2, <4>3
    <3>3. CASE i >= got
      <4>1. armed + i \in first..(first + n - 1) /\ fed + 1 + (armed + i) - first = (fed - got) + 1 + i
        BY <1>1, <3>3
      <4>. HIDE DEF first, stored
      <4>. QED
        BY <1>2, <1>3, <3>1, <4>1
    <3>. QED
      BY <1>1, <3>2, <3>3
  <2>. QED
    BY <2>1, <2>2
<1>6. CASE n < PacketSize \/ got + n = Room
  <2>1. /\ memory' = [stored EXCEPT ![first + n] = Sentinel]
        /\ pc' = "parse" /\ at' = armed - offset /\ left' = got + n + offset
        /\ batch' = 0 /\ armed' = None /\ got' = 0
    BY <1>6 DEF Packet
  <2>2. /\ Received' = fed + n /\ Held' = got + n + offset /\ Start' = armed - offset
        /\ Front' = Front
    <3>1. Received' = fed + n /\ Held' = got + n + offset /\ Start' = armed - offset
      BY <1>1, <2>1 DEF Received, Held, Start
    <3>. QED
      BY <1>1, <1>2, <3>1 DEF Front
  <2>3. ASSUME serving PROVE ServingInv'
    <3>1. \A i \in 0..(Held' - 1) : memory'[Start' + i] = Front' + 1 + i
      <4>. SUFFICES ASSUME NEW i \in 0..(Held' - 1)
                    PROVE  memory'[Start' + i] = Front' + 1 + i
        OBVIOUS
      <4>0. i \in 0..(got + n + offset - 1)
        BY <1>1, <2>2
      <4>1. (armed - offset) + i \in 0..OutSize /\ (armed - offset) + i # first + n
        BY <1>1, <4>0
      <4>2. memory'[(armed - offset) + i] = stored[(armed - offset) + i]
        <5>. HIDE DEF first
        <5>. QED
          BY <2>1, <4>1
      <4>3. CASE i < offset
        <5>1. i \in 0..(offset - 1) /\ (armed - offset) + i = i
          BY <1>1, <1>4, <2>3, <4>0, <4>3
        <5>. HIDE DEF stored
        <5>. QED
          BY <1>5, <2>2, <2>3, <4>2, <5>1
      <4>4. CASE i >= offset
        <5>1. /\ i - offset \in 0..(got + n - 1)
              /\ (armed - offset) + i = armed + (i - offset)
              /\ Received + 1 + (i - offset) = Front + 1 + i
          BY <1>1, <1>2, <4>0, <4>4
        <5>. HIDE DEF stored
        <5>. QED
          BY <1>5, <2>2, <2>3, <4>2, <5>1
      <4>. QED
        BY <1>1, <4>0, <4>3, <4>4
    <3>2. Held' <= Received'
      BY <1>1, <1>2, <1>4, <2>2, <2>3
    <3>3. \A i \in 0..(got' - 1) : memory'[armed' + i] = Received' + 1 + i
      BY <2>1
    <3>. QED
      BY <1>1, <1>4, <2>1, <2>2, <2>3, <3>1, <3>2, <3>3, ServingKept
  <2>4. /\ Complete(Received') \in Complete(Received)..Len(plan)
        /\ handled <= Complete(Received')
    <3>1. Received \in 0..Len(Bytes) /\ fed + n \in Received..Len(Bytes)
      BY <1>1, <1>2
    <3>2. fed + n \in 0..Len(Bytes)
      BY <1>1
    <3>3. /\ Complete(Received) <= Complete(fed + n)
          /\ Complete(fed + n) \in 0..Len(plan) /\ Complete(Received) \in 0..Len(plan)
      BY <1>1, <3>1, <3>2, CompleteGrows, CompleteRange
    <3>4. handled \in 0..Len(plan) /\ Len(plan) \in Nat /\ handled <= Complete(Received)
      BY <1>0, Counts DEF StreamInv
    <3>. QED
      BY <2>2, <3>3, <3>4
  <2>5. StreamInv'
    <3>1. ServingInv'
      BY <1>1, <2>3 DEF ServingInv
    <3>. QED
      BY <1>0, <1>1, <2>4, <3>1, SamePlan DEF StreamInv
  <2>6. Requests!Arrive
    BY <1>1, <1>4, <2>4, SamePlan DEF Requests!Arrive
  <2>. QED
    BY <2>5, <2>6 DEF Requests!Next
<1>7. CASE ~(n < PacketSize \/ got + n = Room)
  <2>1. memory' = stored /\ got' = got + n /\ UNCHANGED <<loop, armed>>
    BY <1>7 DEF Packet
  <2>2. UNCHANGED <<pc, at, left, batch, armed>>
    BY <2>1 DEF loop
  <2>3. Received' = Received /\ Held' = offset /\ Start' = 0 /\ Front' = Front
    <3>1. Received' = Received /\ Held' = offset /\ Start' = 0
      BY <1>1, <2>1, <2>2 DEF Received, Held, Start
    <3>. QED
      BY <1>2, <3>1 DEF Front
  <2>4. ASSUME serving PROVE ServingInv'
    <3>. HIDE DEF stored
    <3>1. \A i \in 0..(Held' - 1) : memory'[Start' + i] = Front' + 1 + i
      <4>1. \A i \in 0..(offset - 1) : 0 + i = i
        BY <1>1
      <4>. QED
        BY <1>5, <2>1, <2>3, <2>4, <4>1
    <3>2. ASSUME NEW i \in 0..(got' - 1)
          PROVE  memory'[armed' + i] = Received' + 1 + i
      <4>1. i \in 0..(got + n - 1)
        BY <1>1, <2>1
      <4>2. stored[armed + i] = Received + 1 + i
        BY <1>5, <2>4, <4>1
      <4>. QED
        BY <2>1, <2>2, <2>3, <4>2
    <3>. QED
      BY <1>1, <1>2, <1>4, <2>2, <2>3, <2>4, <3>1, <3>2, ServingKept
  <2>5. StreamInv'
    <3>1. ServingInv'
      BY <1>1, <2>4 DEF ServingInv
    <3>. QED
      BY <1>0, <1>1, <2>3, <3>1, SamePlan DEF StreamInv
  <2>6. UNCHANGED Requests!vars
    BY <1>1, <2>3, SamePlan DEF Requests!vars
  <2>. QED
    BY <2>5, <2>6
<1>. QED
  BY <1>6, <1>7

\* What the loop finds at pbuf while serving: the sentinel when no byte is
\* left, else the next request, as far as it has been received.
LEMMA HeldRequest ==
  ASSUME StreamInv, serving, pc = "parse", left > 0
  PROVE  LET r    == handled + 1
             size == Size(plan[r])
         IN  /\ r \in 1..Len(plan) /\ Header(at) = {plan[r].length}
             /\ plan[r].length \in Nat /\ Front + left = Received /\ Front \in Nat
             /\ \A n \in 1..left : n = plan[r].length => Whole(n) /\ Verdict(n) = {plan[r].good}
             /\ \A k \in 1..left : k <= size =>
                    IF k = size THEN Ends(Front + k) /\ Complete(Front + k) = r
                                ELSE Complete(Front + k) = handled
<1>. DEFINE r    == handled + 1
            size == Size(plan[r])
            b    == Front + 1
<1>1. /\ plan \in Plans /\ Len(Bytes) \in Nat /\ Received \in 0..Len(Bytes)
      /\ left \in 0..OutSize /\ OutSize \in Nat /\ Held = left /\ Start = at
      /\ handled \in 0..Len(plan) /\ at \in 0..OutSize
  BY Counts DEF StreamInv, TypesInv, TypeOK, Held, Start
<1>2. /\ left <= Received /\ Front = Received - left
      /\ \A i \in 0..(left - 1) : memory[at + i] = Front + 1 + i
      /\ Ends(Front) /\ Complete(Front) = handled
  BY <1>1 DEF StreamInv, ServingInv, Front
<1>3. /\ Front \in 0..(Len(Bytes) - 1) /\ Front \in Nat /\ Front + left = Received
      /\ b \in 1..Len(Bytes)
  BY <1>1, <1>2
<1>4. memory[at] = b /\ \A i \in 0..(left - 1) : memory[at + i] = memory[at] + i
  <2>1. 0 \in 0..(left - 1) /\ at + 0 = at /\ Front + 1 + 0 = Front + 1
    BY <1>1, <1>3
  <2>2. memory[at] = b
    BY <1>2, <2>1
  <2>. QED
    BY <1>2, <2>2
<1>5. Bytes[b].of = r /\ Bytes[b].place = 1
  BY <1>1, <1>2, <1>3, NextRequest
<1>6. r \in 1..Len(plan)
  BY <1>1, <1>3, <1>5, StreamShape
<1>7. plan[r].length \in Nat /\ plan[r].good \in BOOLEAN
  <2>1. plan \in Seq([length : Nat, good : BOOLEAN])
    BY <1>1, StreamShape
  <2>2. plan[r] \in [length : Nat, good : BOOLEAN]
    <3>. HIDE DEF r
    <3>. QED
      BY <1>6, <2>1, ElementOfSeq
  <2>. QED
    BY <2>2
<1>8. Header(at) = {plan[r].length}
  <2>. HIDE DEF r, b
  <2>1. b # -1 /\ b > 0
    BY <1>3
  <2>. QED
    BY <1>4, <1>5, <2>1 DEF Header, Sentinel
<1>9. ASSUME NEW n \in 1..left, n = plan[r].length
      PROVE  Whole(n) /\ Verdict(n) = {plan[r].good}
  <2>1. \A i \in 0..(n - 1) : i \in 0..(left - 1)
    BY <1>1
  <2>2. Whole(n)
    <3>. HIDE DEF r, b
    <3>1. b > 0
      BY <1>3
    <3>. QED
      BY <1>4, <1>5, <1>9, <2>1, <3>1 DEF Whole
  <2>. HIDE DEF r, b
  <2>. QED
    BY <1>4, <1>5, <2>2 DEF Verdict
<1>10. ASSUME NEW k \in 1..left, k <= size
       PROVE  IF k = size THEN Ends(Front + k) /\ Complete(Front + k) = r
                          ELSE Complete(Front + k) = handled
  <2>0. size = Size(plan[Bytes[Front + 1].of])
    BY <1>5
  <2>1. size \in Nat
    BY <1>1, <1>3, <2>0, StreamShape
  <2>. HIDE DEF size
  <2>2. k \in 1..Size(plan[Bytes[Front + 1].of]) /\ Front + k <= Len(Bytes)
    BY <1>1, <1>3, <1>10, <2>0, <2>1
  <2>3. IF k = Size(plan[Bytes[Front + 1].of])
        THEN Ends(Front + k) /\ Complete(Front + k) = Complete(Front) + 1
        ELSE Complete(Front + k) = Complete(Front)
    BY <1>1, <1>2, <1>3, <2>2, RequestEnds
  <2>. QED
    BY <1>2, <2>0, <2>3
<1>. QED
  BY <1>3, <1>6, <1>7, <1>8, <1>9, <1>10

\* Without held bytes the loop finds the sentinel, which counts as fragment.
LEMMA HeldNothing ==
  ASSUME StreamInv, pc = "parse", left = 0
  PROVE  Header(at) = {1}
<1>1. at + left = at /\ memory[at + left] = Sentinel
  BY DEF StreamInv, TypesInv, TypeOK, BufferInv, SentinelInBuffer
<1>. QED
  BY <1>1 DEF Header

\* A turn of the loop handles the next request or refuses it, and its end
\* leaves no complete request.
LEMMA LoopServes ==
  ASSUME StreamInv, Loop
  PROVE  StreamInv' /\ [Requests!Next]_(Requests!vars)
<1>. PICK n \in 0..(OutSize + 1) : \/ HandleRequest(n) \/ Refuse(n)
                                   \/ \E space \in BOOLEAN : Exit(n, space)
  BY DEF Loop
<1>0. TypesInv /\ TypesInv'
  BY LoopTypes DEF StreamInv
<1>1. /\ pc = "parse" /\ armed = None /\ got = 0 /\ n \in Header(at) /\ n \in Nat
      /\ left \in Nat /\ at \in Nat /\ Held = left /\ Start = at
      /\ UNCHANGED <<got, plan, fed>> /\ Received' = Received
      /\ None = -1 /\ 0 - 1 = -1
  <2>1. pc = "parse" /\ n \in Header(at) /\ UNCHANGED <<got, plan, fed>>
    BY DEF HandleRequest, Refuse, Exit
  <2>2. n \in Nat /\ OutSize \in Nat
    BY OutStreamAssumption
  <2>. QED
    BY <1>0, <2>1, <2>2 DEF TypesInv, TypeOK, BufferInv, Received, None, Held, Start
<1>2. Complete(Received)' = Complete(Received) /\ Complete(Received') = Complete(Received)
  BY <1>1, SamePlan
<1>3. /\ Received \in Nat /\ Front \in Int /\ Front + left = Received /\ handled \in Nat
      /\ plan \in Plans /\ Len(Bytes) \in Nat /\ Received \in 0..Len(Bytes)
  BY <1>0, <1>1, Counts DEF Front
\* nothing is requested, so nothing lies behind the held bytes
<1>4. \A i \in 0..(got' - 1) : memory'[armed' + i] = Received' + 1 + i
  BY <1>1
<1>5. serving /\ left = 0 => n = 1
  BY <1>1, HeldNothing
<1>6. ASSUME serving, left > 0
      PROVE  /\ n = plan[handled + 1].length /\ handled + 1 \in 1..Len(plan)
             /\ n > 0 => Size(plan[handled + 1]) = n
             /\ n = 0 => Size(plan[handled + 1]) = 1
             /\ left <= Received /\ Front \in Nat
             /\ \A i \in 0..(left - 1) : memory[at + i] = Front + 1 + i
  <2>1. n = plan[handled + 1].length /\ handled + 1 \in 1..Len(plan) /\ Front \in Nat
    BY <1>1, <1>6, HeldRequest
  <2>2. left <= Received /\ \A i \in 0..(left - 1) : memory[at + i] = Front + 1 + i
    BY <1>1, <1>6 DEF StreamInv, ServingInv
  <2>. QED
    BY <2>1, <2>2 DEF Size
<1>7. CASE HandleRequest(n)
  <2>1. /\ at' = at + n /\ left' = left - n /\ ~(n > left) /\ n # 0
        /\ TRUE \in Verdict(n)
        /\ UNCHANGED <<memory, offset, armed, got, pc, plan, fed, serving>>
        /\ handled' = IF ~serving THEN handled
                      ELSE IF Whole(n) THEN Bytes[memory[at]].of ELSE 0
    BY <1>7 DEF HandleRequest, Fragment
  <2>2. CASE ~serving
    <3>1. handled' = handled /\ ~serving'
      BY <2>1, <2>2
    <3>2. ServingInv' /\ handled' <= Complete(Received)'
      BY <1>2, <3>1 DEF StreamInv, ServingInv
    <3>3. UNCHANGED Requests!vars
      BY <1>2, <2>1, <3>1 DEF Requests!vars
    <3>. QED
      BY <1>0, <3>2, <3>3 DEF StreamInv
  <2>3. CASE serving
    <3>1. n \in 1..left /\ left > 0
      BY <1>1, <2>1
    <3>2. /\ n = plan[handled + 1].length /\ Size(plan[handled + 1]) = n /\ left <= Received
          /\ \A i \in 0..(left - 1) : memory[at + i] = Front + 1 + i
          /\ handled + 1 \in 1..Len(plan) /\ Front \in Nat
      BY <1>1, <1>6, <2>3, <3>1
    <3>3. /\ Whole(n) /\ Verdict(n) = {plan[handled + 1].good}
          /\ Ends(Front + n) /\ Complete(Front + n) = handled + 1
      BY <1>1, <2>3, <3>1, <3>2, HeldRequest
    <3>4. handled' = handled + 1
      <4>1. Header(at) = {plan[handled + 1].length} /\ 0 \in 0..(left - 1)
        BY <1>1, <2>3, <3>1, HeldRequest
      <4>2. memory[at] = Front + 1
        <5>1. at + 0 = at /\ Front + 1 + 0 = Front + 1
          BY <1>1, <3>2
        <5>. QED
          BY <3>2, <4>1, <5>1
      <4>3. Front \in 0..(Len(Bytes) - 1) /\ Ends(Front) /\ Complete(Front) = handled
        BY <1>1, <1>3, <2>3, <3>1, <3>2 DEF StreamInv, ServingInv
      <4>4. Bytes[Front + 1].of = handled + 1
        BY <1>3, <4>3, NextRequest
      <4>. QED
        BY <2>1, <2>3, <3>3, <4>2, <4>4
    <3>5. Held' = left - n /\ Start' = at + n /\ Front' = Front + n
      <4>1. Held' = left - n /\ Start' = at + n
        BY <1>1, <2>1 DEF Held, Start
      <4>. QED
        BY <1>1, <1>3, <4>1 DEF Front
    <3>6. ServingInv'
      <4>1. \A i \in 0..(Held' - 1) : memory'[Start' + i] = Front' + 1 + i
        <5>. SUFFICES ASSUME NEW i \in 0..(Held' - 1)
                      PROVE  memory'[Start' + i] = Front' + 1 + i
          OBVIOUS
        <5>1. /\ n + i \in 0..(left - 1) /\ (at + n) + i = at + (n + i)
              /\ (Front + n) + 1 + i = Front + 1 + (n + i)
          BY <1>1, <1>3, <3>1, <3>5
        <5>. QED
          BY <2>1, <3>2, <3>5, <5>1
      <4>2. Held' <= Received'
        BY SMTT(20), <1>1, <1>3, <3>1, <3>2, <3>5
      <4>3. armed' = None /\ pc' # "idle"
        BY <1>1, <2>1
      <4>. QED
        BY <1>1, <1>4, <3>3, <3>4, <3>5, <4>1, <4>2, <4>3, ServingKept
    <3>7. handled + 1 <= Complete(Received)
      <4>1. Front + n \in 0..Len(Bytes) /\ Received \in (Front + n)..Len(Bytes)
        BY <1>1, <1>3, <3>1, <3>2
      <4>2. Complete(Front + n) <= Complete(Received)
        BY <1>3, <4>1, CompleteGrows
      <4>. QED
        BY <3>3, <4>2
    <3>8. StreamInv'
      BY <1>0, <1>2, <3>4, <3>6, <3>7 DEF StreamInv
    <3>9. Requests!Accept
      <4>1. plan[handled + 1].good
        BY <2>1, <3>3
      <4>2. handled < Complete(Received)
        <5>1. Complete(Received) \in Nat
          BY <1>0, Counts
        <5>. QED
          BY <1>3, <3>7, <5>1
      <4>. QED
        BY <1>2, <2>1, <2>3, <3>4, <4>1, <4>2 DEF Requests!Accept, Requests!Next1
    <3>. QED
      BY <3>8, <3>9 DEF Requests!Next
  <2>. QED
    BY <2>2, <2>3
<1>8. CASE Refuse(n)
  <2>1. /\ ~(n > left)
        /\ n = 0 \/ FALSE \in Verdict(n)
        /\ serving' = FALSE /\ UNCHANGED <<plan, handled>>
    BY <1>8 DEF Refuse, Fragment
  <2>2. StreamInv'
    <3>1. ServingInv'
      BY <2>1 DEF ServingInv
    <3>. QED
      BY <1>0, <1>2, <2>1, <3>1 DEF StreamInv
  <2>3. CASE ~serving
    <3>1. serving = FALSE
      BY <1>0, <2>3 DEF TypesInv, TypeOK
    <3>2. UNCHANGED Requests!vars
      BY <1>2, <2>1, <3>1 DEF Requests!vars
    <3>. QED
      BY <2>2, <3>2
  <2>4. CASE serving
    <3>. DEFINE size == Size(plan[handled + 1])
    <3>1. left > 0
      BY <1>1, <1>5, <2>1, <2>4
    <3>2. /\ n = plan[handled + 1].length /\ handled + 1 \in 1..Len(plan)
          /\ n > 0 => size = n
          /\ n = 0 => size = 1
          /\ left <= Received /\ Front \in Nat
      BY <1>6, <2>4, <3>1
    <3>3. size \in 1..left
      BY <1>1, <2>1, <3>1, <3>2
    <3>4. Complete(Front + size) = handled + 1
      <4>1. \A k \in 1..left : k = size => Complete(Front + k) = handled + 1
        <5>. HIDE DEF size
        <5>1. \A k \in 1..left : k <= size => (k = size => Complete(Front + k) = handled + 1)
          BY <1>1, <2>4, <3>1, HeldRequest DEF size
        <5>2. \A k \in 1..left : k = size => k <= size
          BY <3>3
        <5>. QED
          BY <5>1, <5>2
      <4>. HIDE DEF size
      <4>. QED
        BY <3>3, <4>1
    <3>5. handled < Complete(Received)
      <4>. HIDE DEF size
      <4>1. Front + size \in 0..Len(Bytes) /\ Received \in (Front + size)..Len(Bytes)
        BY <1>1, <1>3, <3>2, <3>3
      <4>2. Complete(Front + size) <= Complete(Received)
        BY <1>3, <4>1, CompleteGrows
      <4>3. Complete(Received) \in Nat
        BY <1>0, Counts
      <4>. QED
        BY <1>3, <3>4, <4>2, <4>3
    <3>6. ~plan[handled + 1].good
      <4>1. CASE n = 0
        <5>1. plan[handled + 1].good => plan[handled + 1].length \in MinRequest..OutSize
          <6>1. DOMAIN plan = 1..Len(plan)
            BY <1>3, StreamShape
          <6>. QED
            BY <1>3, <3>2, <6>1, OutStreamAssumption
        <5>. QED
          BY <3>2, <4>1, <5>1, OutStreamAssumption
      <4>2. CASE n # 0
        <5>1. n \in 1..left
          BY <1>1, <2>1, <4>2
        <5>2. Verdict(n) = {plan[handled + 1].good}
          BY <1>1, <2>4, <3>1, <3>2, <5>1, HeldRequest
        <5>. QED
          BY <2>1, <4>2, <5>2
      <4>. QED
        BY <4>1, <4>2
    <3>7. Requests!Refuse
      BY <1>2, <2>1, <2>4, <3>5, <3>6 DEF Requests!Refuse, Requests!Next1
    <3>. QED
      BY <2>2, <3>7 DEF Requests!Next
  <2>. QED
    BY <2>3, <2>4
<1>9. ASSUME NEW space \in BOOLEAN, Exit(n, space)
      PROVE  StreamInv' /\ [Requests!Next]_(Requests!vars)
  <2>1. /\ n > left /\ memory' = Moved /\ offset' = left /\ pc' = "idle"
        /\ armed' = left \/ armed' = None
        /\ UNCHANGED <<got, port, plan, fed, handled, serving, opened>>
    BY <1>9 DEF Exit, Fragment
  <2>2. Held' = left /\ Start' = 0 /\ Front' = Front
    <3>1. Held' = left /\ Start' = 0
      BY <2>1 DEF Held, Start
    <3>. QED
      BY <1>1, <3>1 DEF Front
  <2>3. UNCHANGED Requests!vars
    BY <1>2, <2>1 DEF Requests!vars
  <2>4. ASSUME serving PROVE ServingInv'
    <3>0. /\ left <= Received /\ Ends(Front) /\ Complete(Front) = handled
          /\ \A i \in 0..(left - 1) : memory[at + i] = Front + 1 + i
      BY <1>1, <2>4 DEF StreamInv, ServingInv
    <3>1. \A i \in 0..(Held' - 1) : memory'[Start' + i] = Front' + 1 + i
      <4>. SUFFICES ASSUME NEW i \in 0..(Held' - 1)
                    PROVE  memory'[Start' + i] = Front' + 1 + i
        OBVIOUS
      <4>1. i \in 0..(left - 1) /\ 0 + i = i /\ i < left
        BY <1>1, <2>2
      <4>2. i \in 0..OutSize
        BY <1>0, <1>1, <4>1, Counts
      <4>3. memory'[i] = memory[at + i]
        BY <2>1, <4>1, <4>2 DEF Moved
      <4>. QED
        BY <2>2, <3>0, <4>1, <4>3
    <3>2. Held' <= Received'
      BY <1>1, <2>2, <3>0
    <3>3. Complete(Received) = handled
      <4>1. CASE left = 0
        BY <1>3, <3>0, <4>1
      <4>2. CASE left > 0
        <5>1. Size(plan[handled + 1]) = n
          BY <1>1, <1>6, <2>1, <2>4, <4>2
        <5>2. left \in 1..left /\ left <= Size(plan[handled + 1])
              /\ left # Size(plan[handled + 1])
          BY <1>1, <2>1, <4>2, <5>1
        <5>3. Complete(Front + left) = handled
          BY <1>1, <2>4, <4>2, <5>2, HeldRequest
        <5>. QED
          BY <1>3, <5>3
      <4>. QED
        BY <1>1, <4>1, <4>2
    <3>4. Complete(Received') = handled' /\ Ends(Front') /\ Complete(Front') = handled'
      BY <1>2, <2>1, <2>2, <3>0, <3>3
    <3>5. armed' # None /\ offset' # 0 => armed' = offset'
      BY <2>1
    <3>. QED
      BY <1>1, <1>4, <3>1, <3>2, <3>4, <3>5, ServingKept
  <2>5. ServingInv'
    BY <2>1, <2>4 DEF ServingInv
  <2>6. StreamInv'
    BY <1>0, <1>2, <2>1, <2>5 DEF StreamInv
  <2>. QED
    BY <2>3, <2>6
<1>. QED
  BY <1>7, <1>8, <1>9

\* A transfer requested elsewhere changes nothing for the requests, and a
\* session begins with a request of the host.
LEMMA SessionServes ==
  ASSUME StreamInv, ReceiveOutData \/ OpenOk \/ OpenFailed \/ Close
  PROVE  StreamInv' /\ [Requests!Next]_(Requests!vars)
<1>0. TypesInv /\ TypesInv'
  BY SessionTypes DEF StreamInv
<1>1. /\ pc = "idle" /\ UNCHANGED <<memory, pc, plan>>
      /\ Held = offset /\ Start = 0 /\ Held' = offset' /\ Start' = 0
  <2>1. pc = "idle" /\ UNCHANGED <<memory, pc, plan>>
    BY DEF ReceiveOutData, OpenOk, OpenFailed, Close, loop
  <2>. QED
    BY <2>1 DEF Held, Start
<1>2. /\ plan \in Plans /\ Len(Bytes) \in Nat /\ fed \in 0..Len(Bytes) /\ got \in 0..fed
      /\ Received \in 0..Len(Bytes) /\ Received = fed - got /\ offset \in Nat
      /\ handled \in 0..Len(plan) /\ Len(plan) \in Nat
      /\ Complete(Received) \in 0..Len(plan) /\ handled <= Complete(Received)
      /\ armed = None => got = 0
  <2>1. offset \in 0..OutSize /\ (armed = None => got = 0)
    BY <1>0 DEF TypesInv, BufferInv, None
  <2>. QED
    BY <1>0, <2>1, Counts DEF StreamInv, Received
<1>3. CASE ReceiveOutData
  <2>1. /\ armed = None /\ armed' = offset
        /\ UNCHANGED <<offset, got, fed, plan, handled, serving>>
    BY <1>3 DEF ReceiveOutData
  <2>2. Received' = Received /\ Front' = Front
    <3>1. Received' = Received
      BY <2>1 DEF Received
    <3>. QED
      BY <1>1, <2>1, <3>1 DEF Front
  <2>3. ASSUME serving PROVE ServingInv'
    <3>1. \A i \in 0..(got' - 1) : memory'[armed' + i] = Received' + 1 + i
      BY <1>2, <2>1
    <3>2. /\ Held <= Received /\ Ends(Front) /\ Complete(Front) = handled
          /\ \A i \in 0..(Held - 1) : memory[Start + i] = Front + 1 + i
          /\ Complete(Received) = handled
      BY <1>1, <2>3 DEF StreamInv, ServingInv
    <3>3. \A i \in 0..(Held' - 1) : memory'[Start' + i] = Front' + 1 + i
      BY <1>1, <2>1, <2>2, <3>2
    <3>. QED
      BY <1>1, <2>1, <2>2, <3>1, <3>2, <3>3, ServingKept
  <2>4. ServingInv'
    BY <2>1, <2>3 DEF ServingInv
  <2>5. StreamInv'
    BY <1>0, <1>1, <1>2, <2>1, <2>2, <2>4, SamePlan DEF StreamInv
  <2>6. UNCHANGED Requests!vars
    BY <1>1, <2>1, <2>2, SamePlan DEF Requests!vars
  <2>. QED
    BY <2>5, <2>6
<1>4. CASE Close
  <2>1. /\ got' = 0 /\ serving' = FALSE /\ UNCHANGED <<fed, plan, handled>>
    BY <1>4 DEF Close
  <2>2. Received' = fed
    BY <1>2, <2>1 DEF Received
  <2>3. Complete(Received) <= Complete(fed) /\ Complete(fed) \in 0..Len(plan)
    <3>1. fed \in Received..Len(Bytes)
      BY <1>2
    <3>. QED
      BY <1>2, <3>1, CompleteGrows, CompleteRange
  <2>4. handled \in handled..Complete(fed) /\ Complete(fed) \in Complete(Received)..Len(plan)
    BY <1>2, <2>3
  <2>5. StreamInv'
    <3>1. ServingInv'
      BY <2>1 DEF ServingInv
    <3>2. handled' <= Complete(Received)'
      BY <1>1, <2>1, <2>2, <2>4, SamePlan
    <3>. QED
      BY <1>0, <3>1, <3>2 DEF StreamInv
  <2>6. Requests!Restart
    BY <1>1, <2>1, <2>2, <2>4, SamePlan DEF Requests!Restart
  <2>. QED
    BY <2>5, <2>6 DEF Requests!Next
<1>5. CASE OpenOk \/ OpenFailed
  <2>1. /\ fed' = Boundary(fed) /\ handled' = Complete(fed' - got) /\ got' = got
        /\ UNCHANGED plan
    BY <1>5 DEF OpenOk, OpenFailed, HostRestarts
  <2>2. fed' \in fed..Len(Bytes) /\ Ends(fed')
    BY <1>2, <2>1, BoundaryEnds
  <2>3. Received' = fed' - got /\ Received' \in 0..Len(Bytes) /\ Received' \in Received..Len(Bytes)
    BY <1>2, <2>1, <2>2 DEF Received
  <2>4. /\ handled' = Complete(Received')
        /\ handled' \in Complete(Received)..Len(plan) /\ handled' \in handled..handled'
    <3>1. /\ Complete(Received) <= Complete(Received')
          /\ Complete(Received') \in 0..Len(plan)
      BY <1>2, <2>3, CompleteGrows, CompleteRange
    <3>2. handled' = Complete(Received')
      BY <2>1, <2>3
    <3>. QED
      BY <1>2, <3>1, <3>2
  <2>5. handled' = Complete(Received)'
    BY <2>1, <2>4, SamePlan
  <2>6. CASE serving' = FALSE
    <3>1. ServingInv'
      BY <2>6 DEF ServingInv
    <3>2. StreamInv'
      BY <1>0, <1>2, <2>4, <2>5, <3>1 DEF StreamInv
    <3>3. Requests!Restart
      BY <2>1, <2>4, <2>5, <2>6 DEF Requests!Restart
    <3>. QED
      BY <3>2, <3>3 DEF Requests!Next
  <2>7. CASE serving' # FALSE
    <3>1. OpenOk
      BY <1>5, <2>7 DEF OpenFailed
    <3>2. /\ offset' = 0 /\ serving' = (got = 0)
          /\ armed' = IF armed = None THEN 0 ELSE armed
      BY <3>1 DEF OpenOk
    <3>3. got = 0 /\ serving' = TRUE
      BY <2>7, <3>2
    <3>4. Held' = 0 /\ Received' = fed' /\ Front' = fed'
      <4>1. fed' \in Nat /\ fed' - 0 = fed'
        <5>1. fed \in Nat /\ Len(Bytes) \in Nat
          BY <1>2
        <5>2. \A x \in fed..Len(Bytes) : x \in Nat /\ x - 0 = x
          BY <5>1
        <5>. QED
          BY <2>2, <5>2
      <4>2. Held' = 0 /\ Received' = fed'
        BY <1>1, <2>3, <3>2, <3>3, <4>1
      <4>3. Front' = Received' - Held'
        BY DEF Front
      <4>. QED
        BY <4>1, <4>2, <4>3
    <3>5. ServingInv'
      <4>1. \A i \in 0..(Held' - 1) : memory'[Start' + i] = Front' + 1 + i
        BY <3>4
      <4>2. \A i \in 0..(got' - 1) : memory'[armed' + i] = Received' + 1 + i
        BY <2>1, <3>3
      <4>3. Held' <= Received'
        BY <2>3, <3>4
      <4>. QED
        BY <2>1, <2>2, <2>4, <3>2, <3>4, <4>1, <4>2, <4>3, ServingKept
    <3>6. StreamInv'
      BY <1>0, <1>2, <2>4, <2>5, <3>5 DEF StreamInv
    <3>7. Requests!Restart
      BY <2>1, <2>4, <2>5, <3>3 DEF Requests!Restart
    <3>. QED
      BY <3>6, <3>7 DEF Requests!Next
  <2>. QED
    BY <2>6, <2>7
<1>. QED
  BY <1>3, <1>4, <1>5

LEMMA StreamStep ==
  ASSUME StreamInv, [Next]_vars
  PROVE  StreamInv' /\ [Requests!Next]_(Requests!vars)
<1>1. CASE Packet(0) \/ SomeBytes
  <2>1. PICK n \in 0..PacketSize : Packet(n)
    BY <1>1, OutStreamAssumption DEF SomeBytes
  <2>. QED
    BY <2>1, PacketServes
<1>2. CASE UNCHANGED vars
  <2>1. UNCHANGED <<memory, offset, armed, got, pc, at, left, batch, port, plan, fed,
                    handled, serving, opened>>
    BY <1>2 DEF vars, loop
  <2>2. TypesInv'
    BY <2>1 DEF StreamInv, TypesInv, TypeOK, BufferInv, SentinelInBuffer, BatchInv, Bytes
  <2>3. UNCHANGED <<Received, Held, Start, Front>>
    BY <2>1 DEF Received, Held, Start, Front
  <2>4. ServingInv' /\ Complete(Received)' = Complete(Received)
    BY <2>1, <2>3, SamePlan DEF StreamInv, ServingInv
  <2>. QED
    BY <2>1, <2>2, <2>4 DEF StreamInv, Requests!vars
<1>. QED
  BY <1>1, <1>2, LoopServes, SessionServes DEF Next

LEMMA StreamInit ==
  ASSUME Init
  PROVE  ServingInv /\ handled <= Complete(Received) /\ Requests!Init
<1>1. Received = 0 /\ handled = 0 /\ plan \in Plans /\ serving = FALSE
  BY DEF Init, Received
<1>2. Complete(Received) = 0
  BY <1>1 DEF Complete
<1>. QED
  BY <1>1, <1>2 DEF ServingInv, Requests!Init

LEMMA StreamInvariant == Spec => []StreamInv
<1>1. Init /\ TypesInv => StreamInv
  BY StreamInit DEF StreamInv
<1>2. StreamInv /\ [Next]_vars => StreamInv'
  BY StreamStep
<1>. QED
  BY <1>1, <1>2, TypesInvariant, PTL DEF Spec

\* While serving, what lies at pbuf, or at the front between two transfers, is
\* the end of the received stream and begins with a request, and the requested
\* transfer continues it, however the host cuts its bytes (can_if.c:139-179).
THEOREM BufferFollowsStream == Spec => []InStep
<1>1. StreamInv => InStep
  <2>. SUFFICES ASSUME StreamInv, serving PROVE InStep
    BY DEF InStep
  <2>1. /\ Held = (IF pc = "parse" THEN left ELSE offset)
        /\ Start = (IF pc = "parse" THEN at ELSE 0) /\ Front = Received - Held
    BY DEF Held, Start, Front
  <2>2. /\ plan \in Plans /\ Len(Bytes) \in Nat
        /\ Received \in 0..Len(Bytes) /\ Held \in Nat
    BY Counts DEF StreamInv
  <2>3. /\ Held <= Received
        /\ \A i \in 0..(Held - 1) : memory[Start + i] = Front + 1 + i
        /\ Ends(Front) /\ Complete(Front) = handled
        /\ armed # None /\ offset # 0 => armed = offset
    BY DEF StreamInv, ServingInv
  <2>4. Boundary(Front) = Front
    <3>1. Front \in 0..Len(Bytes)
      BY <2>1, <2>2, <2>3
    <3>. QED
      BY <2>2, <2>3, <3>1, BoundaryEnds
  <2>. QED
    BY <2>1, <2>3, <2>4 DEF InStep
<1>. QED
  BY <1>1, StreamInvariant, PTL

\* However the stream is cut into packets and transfers, the requests are
\* handled whole, each once, in order and as soon as they have arrived.
THEOREM StreamImplementsRequests == Spec => ImplementsRequests
<1>1. Init => Requests!Init
  BY StreamInit
<1>2. StreamInv /\ [Next]_vars => [Requests!Next]_(Requests!vars)
  BY StreamStep
<1>. QED
  BY <1>1, <1>2, StreamInvariant, PTL DEF Spec, ImplementsRequests, Requests!Spec
=============================================================================
