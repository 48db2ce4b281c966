--------------------------- MODULE CanIfInProofs ---------------------------
(***************************************************************************)
(* The IN pipe of App/can_if.c hands over every byte once and in order, is *)
(* never idle with bytes to send, and overwrites no unread byte before the *)
(* ring has come round to it: for every size of the ring and the packets   *)
(* and every set of messages.                                              *)
(***************************************************************************)
EXTENDS CanIfIn, CircularQueueLemmas

\* The chunk CanIf_SendInData computes is what QUEUE_GET_ARRAY would take: the
\* oldest bytes of the ring, in one run of slots.
LEMMA ChunkIsFront ==
  ASSUME NEW size \in Nat \ {0}, NEW E, NEW q \in Queue(size, E), ~QueueEmpty(q)
  PROVE  LET start == ChunkStart(q)
             n     == ChunkLength(q)
         IN  /\ start \in 0..size /\ n \in 1..QueueLength(q)
             /\ start + n - 1 \in 0..size
             /\ [q EXCEPT !.tail = start + n - 1] = QueueGetArray(q, n)
             /\ [i \in 1..n |-> q.buffer[start + i - 1]] = QueueFrontArray(q, n)
<1>. DEFINE start == ChunkStart(q)
            n     == ChunkLength(q)
<1>1. /\ q.size = size /\ q.head \in 0..size /\ q.tail \in 0..size
      /\ q.tail # q.head
      /\ q = [size |-> q.size, head |-> q.head, tail |-> q.tail, buffer |-> q.buffer]
  BY DEF Queue, QueueEmpty
<1>2. /\ start \in 0..size /\ n \in 1..QueueLength(q)
      /\ start + n - 1 \in 0..size
  BY <1>1 DEF ChunkStart, ChunkLength, QueueLength
<1>3. [q EXCEPT !.tail = start + n - 1] = QueueGetArray(q, n)
  <2>1. [q EXCEPT !.tail = start + n - 1] =
          [size |-> q.size, head |-> q.head, tail |-> start + n - 1,
           buffer |-> q.buffer]
    BY <1>1
  <2>2. QueueGetArray(q, n).tail = start + n - 1
    BY <1>1 DEF ChunkStart, ChunkLength, QueueGetArray, FirstRun, GetArrayRoom
  <2>. QED
    BY <2>1, <2>2 DEF QueueGetArray
<1>4. [i \in 1..n |-> q.buffer[start + i - 1]] = QueueFrontArray(q, n)
  <2>1. CASE q.tail = q.size
    <3>1. FirstRun(n, GetArrayRoom(q)) = 0 /\ start = 0
      BY <1>1, <2>1 DEF FirstRun, GetArrayRoom, ChunkStart, ChunkLength
    <3>. QED
      BY <1>2, <3>1 DEF QueueFrontArray
  <2>2. CASE q.tail # q.size
    <3>1. FirstRun(n, GetArrayRoom(q)) = n /\ start = q.tail + 1
      BY <1>1, <2>2 DEF FirstRun, GetArrayRoom, ChunkStart, ChunkLength
    <3>. QED
      BY <1>1, <1>2, <3>1 DEF QueueFrontArray
  <2>. QED
    BY <2>1, <2>2
<1>. QED
  BY <1>2, <1>3, <1>4

\* What a message does to the ring when there is room for it.
LEMMA MessageAppends ==
  ASSUME TypeOK, NEW m \in Message, HasRoom(m)
  PROVE  LET q == QueuePutArray(QueuePut(ring, Len(m) + 1), m)
         IN  /\ q \in Queue(InSize, Byte)
             /\ q.tail = ring.tail
             /\ QueueLength(q) = QueueLength(ring) + Len(m) + 1
             /\ QueueContents(q) = QueueContents(ring) \o Framed(m)
             /\ Framed(m) \in Seq(Byte) /\ Len(Framed(m)) = Len(m) + 1
<1>. DEFINE p == QueuePut(ring, Len(m) + 1)
            q == QueuePutArray(p, m)
            c == QueueContents(ring)
<1>1. /\ InSize \in Nat \ {0} /\ m \in Seq(Byte) /\ Len(m) \in 1..254
      /\ ring \in Queue(InSize, Byte) /\ Len(m) + 1 \in Byte
  <2>1. InSize \in Nat \ {0} /\ m \in Seq(Byte) /\ Len(m) \in 1..254
    BY CanIfInAssumption
  <2>2. \A k \in 1..254 : k + 1 \in Byte
    BY DEF Byte
  <2>. QED
    BY <2>1, <2>2 DEF TypeOK
<1>2. /\ QueueLength(ring) \in 0..InSize /\ c \in Seq(Byte)
      /\ Len(c) = QueueLength(ring)
      /\ QueueLength(ring) + Len(m) + 1 <= InSize
  BY <1>1, SpaceAndLength, ContentsType DEF HasRoom
<1>3. /\ p \in Queue(InSize, Byte)
      /\ QueueLength(p) = QueueLength(ring) + 1
      /\ QueueContents(p) = Append(c, Len(m) + 1)
  BY SMTT(20), <1>1, <1>2, PutAppends
<1>4. m \in ArrayOf(Byte) /\ Fits(p, m)
  BY SMTT(20), <1>1, <1>2, <1>3, SpaceAndLength DEF ArrayOf, Fits
<1>5. q \in Queue(InSize, Byte) /\ QueueContents(q) = QueueContents(p) \o m
  <2>. HIDE DEF p, q
  <2>1. /\ QueuePutArray(p, m) \in Queue(InSize, Byte)
        /\ QueueContents(QueuePutArray(p, m)) = QueueContents(p) \o m
    BY ONLY ZenonT(30), <1>1, <1>3, <1>4, PutArrayAppends
  <2>. QED
    BY <2>1 DEF q
<1>6. q.tail = ring.tail
  BY DEF QueuePut, QueuePutArray
<1>7. QueueContents(q) = c \o Framed(m)
  <2>1. Append(c, Len(m) + 1) = c \o <<Len(m) + 1>>
    BY <1>1, <1>2, AppendIsConcat
  <2>2. (c \o <<Len(m) + 1>>) \o m = c \o (<<Len(m) + 1>> \o m)
    <3>1. <<Len(m) + 1>> \in Seq(Byte)
      BY <1>1
    <3>. DEFINE b == <<Len(m) + 1>>
    <3>2. c \in Seq(Byte) /\ b \in Seq(Byte) /\ m \in Seq(Byte)
      BY <1>1, <1>2, <3>1
    <3>. HIDE DEF b, c
    <3>3. (c \o b) \o m = c \o (b \o m)
      BY ONLY <3>2, ConcatAssociative
    <3>. QED
      BY <3>3 DEF b
  <2>. QED
    BY <1>3, <1>5, <2>1, <2>2 DEF Framed
<1>8. Framed(m) \in Seq(Byte) /\ Len(Framed(m)) = Len(m) + 1
  BY <1>1 DEF Framed
<1>9. QueueLength(q) = QueueLength(ring) + Len(m) + 1
  <2>1. Len(QueueContents(q)) = QueueLength(q)
    BY <1>1, <1>5, ContentsType
  <2>2. Len(c \o Framed(m)) = Len(c) + Len(Framed(m))
    BY <1>2, <1>8, ConcatProperties
  <2>. QED
    BY <1>2, <1>7, <1>8, <2>1, <2>2
<1>. QED
  BY <1>5, <1>6, <1>7, <1>8, <1>9

\* A byte put into the ring leaves the slots up to the tail alone as long as
\* the contents do not come round to them.
LEMMA PutKeepsSlot ==
  ASSUME NEW size \in Nat \ {0}, NEW E, NEW q \in Queue(size, E), NEW e \in E,
         NEW i \in 0..q.tail, QueueLength(q) + 1 + i <= size
  PROVE  QueuePut(q, e).buffer[q.tail - i] = q.buffer[q.tail - i]
<1>1. q.size = size /\ q.head \in 0..size /\ q.tail \in 0..size
  BY DEF Queue
<1>2. q.tail - i # NextSlot(q, q.head) /\ q.tail - i \in 0..size
  BY <1>1 DEF QueueLength, NextSlot
<1>3. QueuePut(q, e).buffer = [q.buffer EXCEPT ![NextSlot(q, q.head)] = e]
  BY DEF QueuePut
<1>4. DOMAIN q.buffer = 0..size
  BY DEF Queue
<1>. QED
  BY <1>2, <1>3, <1>4

\* The slots an array of n elements is copied to, as numbers.
LEMMA ArraySlots ==
  ASSUME NEW size \in Nat, NEW h \in 0..size, NEW t \in 0..size, NEW n \in Nat,
         NEW i \in 0..t, NEW first \in Nat, NEW room \in Nat,
         room = IF t > h THEN t - h - 1 ELSE size - h,
         first = IF n < room THEN n ELSE room,
         (IF t > h THEN h + size + 1 - t ELSE h - t) + n + i <= size
  PROVE  /\ t - i \in 0..size /\ ~(t - i < n - first)
         /\ t - i \notin (h + 1)..(h + first)
<1>1. CASE t > h
  BY <1>1
<1>2. CASE ~(t > h)
  BY <1>2
<1>. QED
  BY <1>1, <1>2

\* The same as PutKeepsSlot for an array.
LEMMA PutArrayKeepsSlot ==
  ASSUME NEW size \in Nat \ {0}, NEW E, NEW q \in Queue(size, E),
         NEW es \in ArrayOf(E),
         NEW i \in 0..q.tail, QueueLength(q) + Len(es) + i <= size
  PROVE  QueuePutArray(q, es).buffer[q.tail - i] = q.buffer[q.tail - i]
<1>. DEFINE n     == Len(es)
            slot  == q.tail - i
            room  == IF q.tail > q.head THEN q.tail - q.head - 1
                                        ELSE q.size - q.head
            first == FirstRun(n, room)
            rest  == n - first
<1>1. q.size = size /\ q.head \in 0..size /\ q.tail \in 0..size
  BY DEF Queue
<1>2. n \in Nat
  BY DEF ArrayOf
<1>3. QueuePutArray(q, es).buffer =
        [j \in 0..size |-> IF j < rest THEN es[first + j + 1]
                           ELSE IF j \in (q.head + 1)..(q.head + first)
                           THEN es[j - q.head] ELSE q.buffer[j]]
  BY <1>1, Zenon DEF QueuePutArray
<1>4. /\ room \in Nat /\ first \in Nat
      /\ room = IF q.tail > q.head THEN q.tail - q.head - 1 ELSE size - q.head
      /\ first = IF n < room THEN n ELSE room
  BY <1>1, <1>2 DEF FirstRun
<1>5. (IF q.tail > q.head THEN q.head + size + 1 - q.tail ELSE q.head - q.tail)
        + n + i <= size
  BY <1>1 DEF QueueLength
<1>. HIDE DEF n, room, first
<1>6. slot \in 0..size /\ ~(slot < rest) /\ slot \notin (q.head + 1)..(q.head + first)
  <2>. DEFINE h == q.head
              t == q.tail
  <2>1. /\ size \in Nat /\ h \in 0..size /\ t \in 0..size /\ i \in 0..t
        /\ room = IF t > h THEN t - h - 1 ELSE size - h
        /\ (IF t > h THEN h + size + 1 - t ELSE h - t) + n + i <= size
    BY <1>1, <1>4, <1>5
  <2>. HIDE DEF h, t
  <2>2. /\ t - i \in 0..size /\ ~(t - i < n - first)
        /\ t - i \notin (h + 1)..(h + first)
    BY <1>2, <1>4, <2>1, ArraySlots
  <2>. QED
    BY <2>2 DEF h, t
<1>. HIDE DEF slot, rest
<1>7. QueuePutArray(q, es).buffer[slot] = q.buffer[slot]
  BY <1>3, <1>6
<1>. QED
  BY <1>7 DEF slot

\* What CanIf_SendInData does to the pipe, whatever ring it is called for.
LEMMA SendingHandsOver ==
  ASSUME NEW q \in Queue(InSize, Byte), NEW free \in BOOLEAN,
         SendInData(q, free)
  PROVE  IF free /\ ~QueueEmpty(q)
         THEN /\ ring' \in Queue(InSize, Byte)
              /\ ring'.tail = last' /\ ring'.buffer = q.buffer
              /\ last' \in 0..InSize
              /\ flight' \in Seq(Byte) /\ Len(flight') \in 1..QueueLength(q)
              /\ Len(flight') <= last' + 1
              /\ left' = AfterPacket(Len(flight'))
              /\ \A i \in 0..(Len(flight') - 1) :
                    flight'[Len(flight') - i] = ring'.buffer[last' - i]
              /\ flight' = SubSeq(QueueContents(q), 1, Len(flight'))
              /\ QueueContents(ring)' =
                   SubSeq(QueueContents(q), Len(flight') + 1, QueueLength(q))
         ELSE NoSubmit(q, free)
<1>1. CASE ~(free /\ ~QueueEmpty(q))
  BY <1>1 DEF SendInData
<1>2. CASE free /\ ~QueueEmpty(q)
  <2>. DEFINE start == ChunkStart(q)
              n     == ChunkLength(q)
  <2>0. InSize \in Nat \ {0}
    BY CanIfInAssumption
  <2>1. /\ start \in 0..InSize /\ n \in 1..QueueLength(q)
        /\ start + n - 1 \in 0..InSize
        /\ [q EXCEPT !.tail = start + n - 1] = QueueGetArray(q, n)
        /\ [i \in 1..n |-> q.buffer[start + i - 1]] = QueueFrontArray(q, n)
    BY <1>2, <2>0, ChunkIsFront
  <2>2. /\ flight' = [i \in 1..n |-> q.buffer[start + i - 1]]
        /\ last' = start + n - 1
        /\ left' = AfterPacket(n)
        /\ ring' = [q EXCEPT !.tail = start + n - 1]
    BY <1>2 DEF SendInData, Submit
  <2>. HIDE DEF start, n
  <2>3. /\ QueueLength(q) \in 0..InSize
        /\ QueueContents(q) \in Seq(Byte) /\ Len(QueueContents(q)) = QueueLength(q)
    BY <2>0, ContentsType
  <2>4. /\ ring' \in Queue(InSize, Byte)
        /\ flight' = SubSeq(QueueContents(q), 1, n)
        /\ QueueContents(ring)' = SubSeq(QueueContents(q), n + 1, QueueLength(q))
    <3>1. ring' = QueueGetArray(q, n) /\ flight' = QueueFrontArray(q, n)
      BY <2>1, <2>2
    <3>2. /\ QueueGetArray(q, n) \in Queue(InSize, Byte)
          /\ QueueFrontArray(q, n) = SubSeq(QueueContents(q), 1, n)
          /\ QueueContents(QueueGetArray(q, n)) =
               SubSeq(QueueContents(q), n + 1, Len(QueueContents(q)))
      BY <2>0, <2>1, GetArrayTakesFront
    <3>. QED
      BY <2>3, <3>1, <3>2
  <2>5. ring'.tail = start + n - 1 /\ ring'.buffer = q.buffer
    BY <2>2 DEF Queue
  <2>6. \A i \in 1..n : QueueContents(q)[i] \in Byte
    BY <2>1, <2>3, ElementOfSeq
  <2>7. flight' \in Seq(Byte) /\ Len(flight') = n
    BY <2>1, <2>3, <2>4, <2>6, SubSeqProperties
  <2>8. \A i \in 0..(n - 1) : flight'[n - i] = ring'.buffer[last' - i]
    <3>. SUFFICES ASSUME NEW i \in 0..(n - 1)
                  PROVE  flight'[n - i] = ring'.buffer[last' - i]
      OBVIOUS
    <3>1. n - i \in 1..n /\ start + (n - i) - 1 = (start + n - 1) - i
      BY <2>1, <2>3
    <3>. QED
      BY <2>2, <2>5, <3>1
  <2>9. Len(flight') <= last' + 1 /\ last' \in 0..InSize
    BY <2>0, <2>1, <2>2, <2>7
  <2>. QED
    BY <1>2, <2>1, <2>2, <2>4, <2>5, <2>7, <2>8, <2>9
<1>. QED
  BY <1>1, <1>2

\* TypeOK, with the bound OverwriteBound and the promise NothingWaits: the
\* state the pipe keeps between two operations.
InvIn == TypeOK /\ NothingWaits /\ OverwriteBound

\* A transfer submitted for q leaves the pipe as it should be.
LEMMA SubmitKeeps ==
  ASSUME NEW q \in Queue(InSize, Byte), ~QueueEmpty(q), SendInData(q, TRUE),
         port' = port, port \in {"closed", "silent", "failed", "open"}
  PROVE  InvIn'
<1>1. /\ ring' \in Queue(InSize, Byte)
      /\ ring'.tail = last' /\ ring'.buffer = q.buffer
      /\ last' \in 0..InSize
      /\ flight' \in Seq(Byte) /\ Len(flight') \in 1..QueueLength(q)
      /\ Len(flight') <= last' + 1
      /\ left' = AfterPacket(Len(flight'))
      /\ \A i \in 0..(Len(flight') - 1) :
            flight'[Len(flight') - i] = ring'.buffer[last' - i]
  BY SendingHandsOver
<1>2. Len(flight') \in Nat /\ flight' # <<>>
  BY <1>1, EmptySeq
<1>3. left' \in 0..Len(flight')
  BY <1>1, <1>2, CanIfInAssumption DEF AfterPacket
<1>4. TypeOK'
  <2>1. left' <= last' + 1
    BY <1>1, <1>2, <1>3
  <2>. QED
    BY <1>1, <1>3, <2>1 DEF TypeOK, TransferInRing
<1>5. NothingWaits'
  BY <1>2 DEF NothingWaits, Free
<1>6. OverwriteBound'
  <2>1. \A i \in 0..(left' - 1) : i \in 0..(Len(flight') - 1)
    <3>1. \A a, b \in Nat : a <= b => \A i \in 0..(a - 1) : i \in 0..(b - 1)
      OBVIOUS
    <3>2. left' \in Nat /\ left' <= Len(flight')
      BY <1>2, <1>3
    <3>. QED
      BY <1>2, <3>1, <3>2
  <2>. QED
    BY <1>1, <2>1 DEF OverwriteBound, Intact
<1>. QED
  BY <1>4, <1>5, <1>6 DEF InvIn

\* A message queued behind a transfer leaves the transfer's unread bytes.
LEMMA QueueKeeps ==
  ASSUME InvIn, NEW m \in Message, HasRoom(m), ~Free, port' = port,
         NoSubmit(QueuePutArray(QueuePut(ring, Len(m) + 1), m), FALSE)
  PROVE  InvIn'
<1>. DEFINE p == QueuePut(ring, Len(m) + 1)
            q == QueuePutArray(p, m)
<1>0. TypeOK /\ OverwriteBound
  BY DEF InvIn
<1>1. /\ q \in Queue(InSize, Byte) /\ q.tail = ring.tail
      /\ QueueLength(q) = QueueLength(ring) + Len(m) + 1
  BY <1>0, MessageAppends
<1>2. ring' = q /\ flight' = flight /\ last' = last /\ left' = left
  BY DEF NoSubmit
<1>. HIDE DEF q
<1>3. TypeOK'
  BY <1>0, <1>1, <1>2 DEF TypeOK, TransferInRing
<1>4. NothingWaits'
  BY <1>2 DEF NothingWaits, Free
<1>5. OverwriteBound'
  <2>. SUFFICES ASSUME last = ring.tail, NEW i \in 0..(left - 1),
                       QueueLength(q) + i <= InSize
                PROVE  q.buffer[last - i] = flight[Len(flight) - i]
    BY <1>1, <1>2 DEF OverwriteBound, Intact
  <2>1. /\ InSize \in Nat \ {0} /\ ring \in Queue(InSize, Byte)
        /\ last \in 0..InSize /\ left \in Nat /\ left <= last + 1
        /\ m \in Seq(Byte) /\ Len(m) \in 1..254
    <3>1. InSize \in Nat \ {0} /\ m \in Seq(Byte) /\ Len(m) \in 1..254
      BY CanIfInAssumption
    <3>2. /\ ring \in Queue(InSize, Byte) /\ last \in 0..InSize
          /\ left \in Nat /\ left <= last + 1
      BY <1>0, CanIfInAssumption DEF TypeOK, TransferInRing
    <3>. QED
      BY <3>1, <3>2
  <2>2. Len(m) + 1 \in Byte
    <3>1. \A k \in 1..254 : k + 1 \in Byte
      BY DEF Byte
    <3>. QED
      BY <2>1, <3>1
  <2>3. QueueLength(ring) \in 0..InSize
    BY <2>1, ContentsType
  <2>4. /\ i \in 0..ring.tail /\ QueueLength(ring) + i <= InSize
        /\ QueueLength(ring) + 1 + i <= InSize
        /\ QueueLength(ring) < InSize
        /\ (QueueLength(ring) + 1) + Len(m) + i <= InSize
    <3>. DEFINE len == QueueLength(ring)
                n   == Len(m)
    <3>1. /\ InSize \in Nat /\ len \in 0..InSize /\ n \in 1..254
          /\ left \in Nat /\ left <= last + 1 /\ last = ring.tail
          /\ last \in 0..InSize /\ i \in 0..(left - 1)
          /\ len + n + 1 + i <= InSize
      BY <1>1, <2>1, <2>3
    <3>. HIDE DEF len, n
    <3>2. /\ i \in 0..last /\ len + i <= InSize /\ len + 1 + i <= InSize
          /\ len < InSize /\ (len + 1) + n + i <= InSize
      BY <3>1
    <3>. QED
      BY <3>1, <3>2 DEF len, n
  <2>5. /\ p \in Queue(InSize, Byte) /\ QueueLength(p) = QueueLength(ring) + 1
        /\ p.tail = ring.tail
    <3>1. p.tail = ring.tail
      BY DEF QueuePut
    <3>. QED
      BY <2>1, <2>2, <2>4, <3>1, PutAppends
  <2>6. p.buffer[ring.tail - i] = ring.buffer[ring.tail - i]
    BY <2>1, <2>2, <2>4, PutKeepsSlot
  <2>. HIDE DEF p
  <2>7. m \in ArrayOf(Byte) /\ i \in 0..p.tail
        /\ QueueLength(p) + Len(m) + i <= InSize
    BY <2>1, <2>4, <2>5 DEF ArrayOf
  <2>8. q.buffer[p.tail - i] = p.buffer[p.tail - i]
    BY <2>1, <2>5, <2>7, PutArrayKeepsSlot DEF q
  <2>9. ring.buffer[last - i] = flight[Len(flight) - i]
    BY <1>0, <2>4 DEF OverwriteBound, Intact
  <2>. QED
    BY <2>5, <2>6, <2>8, <2>9
<1>. QED
  BY <1>3, <1>4, <1>5 DEF InvIn

LEMMA InvInInductive == InvIn /\ [Next]_vars => InvIn'
<1>. SUFFICES ASSUME InvIn, [Next]_vars
              PROVE  InvIn'
  OBVIOUS
<1>0. /\ TypeOK /\ NothingWaits /\ OverwriteBound
      /\ InSize \in Nat \ {0} /\ PacketSize \in Nat \ {0}
      /\ ring \in Queue(InSize, Byte)
      /\ port \in {"closed", "silent", "failed", "open"}
  BY CanIfInAssumption DEF InvIn, TypeOK
<1>1. CASE UNCHANGED vars
  BY <1>1 DEF InvIn, TypeOK, TransferInRing, NothingWaits, OverwriteBound,
              Intact, Free, vars
<1>2. ASSUME NEW m \in Message, AddMessage(m)
      PROVE  InvIn'
  <2>1. CASE ~HasRoom(m)
    <3>1. UNCHANGED vars
      BY <1>2, <2>1 DEF AddMessage, vars
    <3>. QED
      BY <1>1, <3>1
  <2>2. CASE HasRoom(m)
    <3>. DEFINE q == QueuePutArray(QueuePut(ring, Len(m) + 1), m)
    <3>1. q \in Queue(InSize, Byte) /\ ~QueueEmpty(q)
      <4>1. /\ q \in Queue(InSize, Byte)
            /\ QueueLength(q) = QueueLength(ring) + Len(m) + 1
        BY <1>0, <2>2, MessageAppends
      <4>2. QueueLength(ring) \in 0..InSize /\ Len(m) \in 1..254
        BY <1>0, ContentsType, CanIfInAssumption
      <4>. HIDE DEF q
      <4>3. QueueLength(q) # 0
        BY <4>1, <4>2
      <4>. QED
        BY <1>0, <4>1, <4>3, SpaceAndLength
    <3>2. SendInData(q, Free) /\ port' = port
      BY <1>2, <2>2 DEF AddMessage
    <3>3. CASE Free
      <4>1. SendInData(q, TRUE)
        BY <3>2, <3>3 DEF SendInData
      <4>. QED
        BY <1>0, <3>1, <3>2, <4>1, SubmitKeeps
    <3>4. CASE ~Free
      <4>1. NoSubmit(q, FALSE)
        BY <3>2, <3>4, Zenon DEF SendInData, NoSubmit
      <4>. QED
        BY <2>2, <3>2, <3>4, <4>1, QueueKeeps
    <3>. QED
      BY <3>3, <3>4
  <2>. QED
    BY <2>1, <2>2
<1>3. CASE LoadPacket
  <2>1. /\ left' = AfterPacket(left) /\ left > 0 /\ left \in 0..Len(flight)
        /\ flight \in Seq(Byte)
        /\ ring' = ring /\ port' = port /\ flight' = flight /\ last' = last
    BY <1>0, <1>3 DEF LoadPacket, TypeOK
  <2>2. left' \in 0..Len(flight) /\ left' <= left
    BY <1>0, <2>1 DEF AfterPacket
  <2>3. TypeOK'
    BY <1>0, <2>1, <2>2 DEF TypeOK, TransferInRing
  <2>4. NothingWaits'
    BY <1>0, <2>1 DEF NothingWaits, Free
  <2>5. OverwriteBound'
    BY <1>0, <2>1, <2>2 DEF OverwriteBound, Intact, Free
  <2>. QED
    BY <2>3, <2>4, <2>5 DEF InvIn
<1>4. CASE EpInComplete
  <2>1. SendInData(ring, TRUE) /\ port' = port
    BY <1>4 DEF EpInComplete
  <2>2. CASE ~QueueEmpty(ring)
    BY <1>0, <2>1, <2>2, SubmitKeeps
  <2>3. CASE QueueEmpty(ring)
    <3>1. ring' = ring /\ flight' = <<>> /\ last' = 0 /\ left' = 0
      BY <2>1, <2>3 DEF SendInData, NoSubmit
    <3>2. TypeOK'
      BY <1>0, <2>1, <3>1 DEF TypeOK, TransferInRing
    <3>. QED
      BY <2>3, <3>1, <3>2 DEF InvIn, NothingWaits, OverwriteBound, Free
  <2>. QED
    BY <2>2, <2>3
<1>5. CASE OpenOk
  <2>1. /\ port' = "open" /\ ring' = QueueReset(ring)
        /\ flight' = flight /\ last' = last /\ left' = left
    BY <1>5 DEF OpenOk
  <2>2. /\ ring' \in Queue(InSize, Byte) /\ QueueLength(ring') = 0
        /\ ring'.tail = 0 /\ ring'.buffer = ring.buffer
    BY <1>0, <2>1, ResetEmpties DEF QueueReset
  <2>3. TypeOK'
    BY <1>0, <2>1, <2>2 DEF TypeOK, TransferInRing
  <2>4. NothingWaits'
    BY <1>0, <2>2, SpaceAndLength DEF NothingWaits
  <2>5. OverwriteBound'
    <3>. SUFFICES ASSUME flight # <<>>, last = 0, NEW i \in 0..(left - 1)
                  PROVE  ring.buffer[last - i] = flight[Len(flight) - i]
      BY <2>1, <2>2 DEF OverwriteBound, Intact, Free
    <3>1. /\ ring.tail = last /\ i = 0 /\ i \in 0..(left - 1)
      BY <1>0 DEF TypeOK, TransferInRing
    <3>2. QueueLength(ring) + i <= InSize
      BY <1>0, <3>1, ContentsType
    <3>. QED
      BY <1>0, <3>1, <3>2 DEF OverwriteBound, Intact, Free
  <2>. QED
    BY <2>3, <2>4, <2>5 DEF InvIn
<1>6. CASE OpenBadRate \/ OpenNoSync
  BY <1>0, <1>6 DEF OpenBadRate, OpenNoSync, InvIn, TypeOK, TransferInRing,
                    NothingWaits, OverwriteBound, Intact, Free
<1>7. CASE Close
  BY <1>0, <1>7 DEF Close, InvIn, TypeOK, TransferInRing, NothingWaits,
                    OverwriteBound, Intact, Free
<1>. QED
  BY <1>1, <1>2, <1>3, <1>4, <1>5, <1>6, <1>7 DEF Next

\* InvIn holds of every state of the pipe.
LEMMA InvInAlways == Spec => []InvIn
<1>1. Init => InvIn
  <2>. SUFFICES ASSUME Init PROVE InvIn
    OBVIOUS
  <2>1. ring \in Queue(InSize, Byte)
    BY CanIfInAssumption DEF Init, QueueDef, Queue, Byte
  <2>. QED
    BY <2>1, CanIfInAssumption
       DEF Init, InvIn, TypeOK, TransferInRing, NothingWaits, OverwriteBound, Free
<1>. QED
  BY <1>1, InvInInductive, PTL DEF Spec

\* Every operation keeps the ring and the transfer well formed, and the tail
\* at the end of the transfer unless the ring was emptied (can_if.c:114).
THEOREM TypeCorrectIn == Spec => []TypeOK
<1>1. InvIn => TypeOK
  BY DEF InvIn
<1>. QED
  BY <1>1, InvInAlways, PTL

\* Bytes wait in an open session only behind a transfer whose completion
\* sends them.
THEOREM NeverIdle == Spec => []NothingWaits
<1>1. InvIn => NothingWaits
  BY DEF InvIn
<1>. QED
  BY <1>1, InvInAlways, PTL

\* How far moving the tail at submission (can_if.c:227) is safe: unread bytes
\* survive until the ring has come round to them.
THEOREM OverwriteBounded == Spec => []OverwriteBound
<1>1. InvIn => OverwriteBound
  BY DEF InvIn
<1>. QED
  BY <1>1, InvInAlways, PTL

\* The bytes of accepted messages are handed to the USB device in order, each
\* once, and one transfer at a time.
THEOREM PipeImplemented == Spec => ImplementsPipe
<1>1. Init => Pipe!Init
  <2>1. ASSUME Init PROVE QueueContents(ring) = <<>>
    BY <2>1, CanIfInAssumption DEF Init, QueueDef, QueueContents, QueueLength
  <2>. QED
    BY <2>1 DEF Pipe!Init, Init
<1>2. InvIn /\ [Next]_vars => [Pipe!Next]_<<QueueContents(ring), flight>>
  <2>. SUFFICES ASSUME InvIn, [Next]_vars
                PROVE  [Pipe!Next]_<<QueueContents(ring), flight>>
    OBVIOUS
  <2>0. /\ TypeOK /\ InSize \in Nat \ {0}
        /\ ring \in Queue(InSize, Byte)
    BY CanIfInAssumption DEF InvIn, TypeOK
  <2>1. ASSUME NEW q \in Queue(InSize, Byte), NEW free \in BOOLEAN, SendInData(q, free),
               ~free => flight # <<>>
        PROVE  Pipe!HandOver(QueueContents(q), IF free THEN <<>> ELSE flight)
    <3>1. QueueContents(q) \in Seq(Byte) /\ Len(QueueContents(q)) = QueueLength(q)
      BY <2>0, ContentsType
    <3>2. QueueEmpty(q) <=> QueueContents(q) = <<>>
      BY <2>0, <3>1, SpaceAndLength, EmptySeq
    <3>3. CASE free /\ ~QueueEmpty(q)
      BY <2>1, <3>1, <3>2, <3>3, SendingHandsOver DEF Pipe!HandOver
    <3>4. CASE ~(free /\ ~QueueEmpty(q))
      <4>1. NoSubmit(q, free)
        BY <2>1, <3>4 DEF SendInData
      <4>. QED
        BY <2>1, <3>2, <3>4, <4>1 DEF NoSubmit, Pipe!HandOver
    <3>. QED
      BY <3>3, <3>4
  <2>2. CASE UNCHANGED vars
    BY <2>2 DEF vars
  <2>3. ASSUME NEW m \in Message, AddMessage(m)
        PROVE  [Pipe!Next]_<<QueueContents(ring), flight>>
    <3>1. CASE ~HasRoom(m)
      BY <2>3, <3>1 DEF AddMessage
    <3>2. CASE HasRoom(m)
      <4>. DEFINE q == QueuePutArray(QueuePut(ring, Len(m) + 1), m)
      <4>1. /\ q \in Queue(InSize, Byte)
            /\ QueueContents(q) = QueueContents(ring) \o Framed(m)
        BY <2>0, <3>2, MessageAppends
      <4>2. SendInData(q, Free) /\ Free \in BOOLEAN
        BY <2>3, <3>2 DEF AddMessage, Free
      <4>. HIDE DEF q
      <4>3. Pipe!HandOver(QueueContents(q), IF Free THEN <<>> ELSE flight)
        BY <2>1, <4>1, <4>2 DEF Free
      <4>4. Pipe!Add(Framed(m))
        BY <4>1, <4>3 DEF Pipe!Add, Free
      <4>. QED
        BY <4>4 DEF Pipe!Next
    <3>. QED
      BY <3>1, <3>2
  <2>4. CASE LoadPacket
    BY <2>4 DEF LoadPacket
  <2>5. CASE EpInComplete
    BY <2>0, <2>1, <2>5 DEF EpInComplete, Free, Pipe!Complete, Pipe!Next
  <2>6. CASE OpenOk
    BY <2>0, <2>6, ResetEmpties DEF OpenOk, Pipe!Forget, Pipe!Next
  <2>7. CASE OpenBadRate \/ OpenNoSync
    BY <2>7 DEF OpenBadRate, OpenNoSync
  <2>8. CASE Close
    BY <2>8 DEF Close, Pipe!Disconnect, Pipe!Next
  <2>. QED
    BY <2>2, <2>3, <2>4, <2>5, <2>6, <2>7, <2>8 DEF Next
<1>. QED
  BY <1>1, <1>2, InvInAlways, PTL DEF Spec, ImplementsPipe, Pipe!Spec, Pipe!vars
=============================================================================
