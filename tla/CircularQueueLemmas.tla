------------------------ MODULE CircularQueueLemmas ------------------------
(***************************************************************************)
(* What the macros of App/queues.h do to the sequence a queue stands for,  *)
(* for every capacity, element set and position of the indices.            *)
(***************************************************************************)
EXTENDS CircularQueue, SequenceTheorems, TLAPS

\* The contents are a sequence no longer than the capacity.
LEMMA ContentsType ==
  ASSUME NEW size \in Nat, NEW E, NEW q \in Queue(size, E)
  PROVE  /\ QueueLength(q) \in 0..size
         /\ QueueContents(q) \in Seq(E)
         /\ Len(QueueContents(q)) = QueueLength(q)
<1>1. QueueLength(q) \in 0..size
  BY DEF Queue, QueueLength
<1>2. \A i \in 1..QueueLength(q) :
        (IF q.tail + i > q.size THEN q.buffer[q.tail + i - q.size - 1]
                                ELSE q.buffer[q.tail + i]) \in E
  BY DEF Queue, QueueLength
<1>. QED
  BY <1>1, <1>2 DEF QueueContents

\* Space, full and empty all follow from the length.
LEMMA SpaceAndLength ==
  ASSUME NEW size \in Nat, NEW E, NEW q \in Queue(size, E)
  PROVE  /\ QueueSpace(q) = size - QueueLength(q)
         /\ QueueFull(q) <=> QueueLength(q) = size
         /\ QueueEmpty(q) <=> QueueLength(q) = 0
  BY DEF Queue, QueueSpace, QueueLength, QueueFull, QueueEmpty

\* Setting both indices to 0 empties the queue.
LEMMA ResetEmpties ==
  ASSUME NEW size \in Nat, NEW E, NEW q \in Queue(size, E)
  PROVE  /\ QueueReset(q) \in Queue(size, E)
         /\ QueueLength(QueueReset(q)) = 0
         /\ QueueSpace(QueueReset(q)) = size
         /\ QueueContents(QueueReset(q)) = <<>>
<1>1. /\ QueueReset(q) \in Queue(size, E)
      /\ QueueReset(q).head = 0 /\ QueueReset(q).tail = 0
  BY DEF QueueReset, Queue
<1>2. QueueLength(QueueReset(q)) = 0
  BY <1>1 DEF QueueLength
<1>. QED
  BY <1>1, <1>2, SpaceAndLength, ContentsType, EmptySeq

\* QUEUE_PUT appends, when there is space.
LEMMA PutAppends ==
  ASSUME NEW size \in Nat \ {0}, NEW E, NEW q \in Queue(size, E), NEW e \in E,
         QueueLength(q) < size
  PROVE  /\ QueuePut(q, e) \in Queue(size, E)
         /\ QueueLength(QueuePut(q, e)) = QueueLength(q) + 1
         /\ QueueContents(QueuePut(q, e)) = Append(QueueContents(q), e)
<1>. DEFINE p == QueuePut(q, e)
            slot == NextSlot(q, q.head)
<1>1. slot \in 0..size
  BY DEF NextSlot, Queue
<1>2. /\ p \in Queue(size, E)
      /\ p.size = size /\ p.head = slot /\ p.tail = q.tail
      /\ p.buffer = [q.buffer EXCEPT ![slot] = e]
  BY <1>1 DEF QueuePut, Queue
<1>. HIDE DEF p
<1>3. q.size = size /\ q.head \in 0..size /\ q.tail \in 0..size
  BY DEF Queue
<1>4. QueueLength(p) = QueueLength(q) + 1
  BY <1>2, <1>3 DEF QueueLength, NextSlot
<1>. DEFINE place(i) == IF q.tail + i > size THEN q.tail + i - size - 1
                                              ELSE q.tail + i
<1>5. \A i \in 1..QueueLength(q) : QueueContents(p)[i] = QueueContents(q)[i]
  <2>. SUFFICES ASSUME NEW i \in 1..QueueLength(q)
                PROVE  QueueContents(p)[i] = QueueContents(q)[i]
    OBVIOUS
  <2>1. QueueLength(q) \in 0..size
    BY ContentsType
  <2>2. /\ QueueContents(q)[i] = q.buffer[place(i)]
        /\ QueueContents(p)[i] = p.buffer[place(i)]
    BY <1>2, <1>3, <1>4, <2>1 DEF QueueContents
  <2>3. place(i) \in 0..size /\ place(i) # slot
    BY <1>3, <2>1 DEF QueueLength, NextSlot
  <2>. QED
    BY <1>2, <2>2, <2>3 DEF Queue
<1>6. QueueContents(p)[QueueLength(p)] = e
  <2>1. QueueLength(q) \in 0..size
    BY ContentsType
  <2>2. QueueContents(p)[QueueLength(p)] = p.buffer[place(QueueLength(p))]
    BY <1>2, <1>3, <1>4, <2>1 DEF QueueContents
  <2>3. place(QueueLength(p)) = slot
    BY <1>3, <1>4 DEF QueueLength, NextSlot
  <2>. QED
    BY <1>1, <1>2, <2>2, <2>3 DEF Queue
<1>7. QueueContents(p) \in Seq(E) /\ QueueContents(q) \in Seq(E)
  BY <1>2, ContentsType
<1>8. Len(QueueContents(p)) = Len(QueueContents(q)) + 1
  BY <1>2, <1>4, ContentsType
<1>9. Len(QueueContents(q)) = QueueLength(q) /\ QueueLength(q) \in Nat
  BY ContentsType
<1>10. QueueContents(p) = Append(QueueContents(q), e)
  BY <1>4, <1>5, <1>6, <1>7, <1>8, <1>9, AppendProperties, SeqEqual
<1>. QED
  BY <1>2, <1>4, <1>10 DEF p

\* QUEUE_GET takes the first element of the contents, when there is one.
LEMMA GetTakesHead ==
  ASSUME NEW size \in Nat \ {0}, NEW E, NEW q \in Queue(size, E),
         QueueLength(q) > 0
  PROVE  /\ QueueGet(q) \in Queue(size, E)
         /\ QueueLength(QueueGet(q)) = QueueLength(q) - 1
         /\ QueueFront(q) = Head(QueueContents(q))
         /\ QueueContents(QueueGet(q)) = Tail(QueueContents(q))
<1>. DEFINE p == QueueGet(q)
            slot == NextSlot(q, q.tail)
<1>1. slot \in 0..size
  BY DEF NextSlot, Queue
<1>2. /\ p \in Queue(size, E)
      /\ p.size = size /\ p.head = q.head /\ p.tail = slot
      /\ p.buffer = q.buffer
  BY <1>1 DEF QueueGet, Queue
<1>. HIDE DEF p
<1>3. q.size = size /\ q.head \in 0..size /\ q.tail \in 0..size
  BY DEF Queue
<1>4. QueueLength(p) = QueueLength(q) - 1
  BY <1>2, <1>3 DEF QueueLength, NextSlot
<1>5. QueueFront(q) = QueueContents(q)[1]
  <2>1. QueueContents(q)[1] = IF q.tail + 1 > size THEN q.buffer[q.tail + 1 - size - 1]
                                                   ELSE q.buffer[q.tail + 1]
    <3>1. 1 \in 1..QueueLength(q)
      BY ContentsType
    <3>. QED
      BY <1>3, <3>1 DEF QueueContents
  <2>. QED
    BY <1>3, <2>1 DEF QueueFront, NextSlot
<1>6. \A i \in 1..QueueLength(p) : QueueContents(p)[i] = QueueContents(q)[i + 1]
  <2>. SUFFICES ASSUME NEW i \in 1..QueueLength(p)
                PROVE  QueueContents(p)[i] = QueueContents(q)[i + 1]
    OBVIOUS
  <2>1. QueueLength(q) \in 0..size /\ i + 1 \in 1..QueueLength(q)
    BY <1>4, ContentsType
  <2>2. QueueContents(p)[i] = IF slot + i > size THEN q.buffer[slot + i - size - 1]
                                                 ELSE q.buffer[slot + i]
    BY <1>2 DEF QueueContents
  <2>3. QueueContents(q)[i + 1] =
          IF q.tail + (i + 1) > size THEN q.buffer[q.tail + (i + 1) - size - 1]
                                     ELSE q.buffer[q.tail + (i + 1)]
    BY <1>3, <2>1 DEF QueueContents
  <2>. QED
    BY <1>3, <1>4, <2>1, <2>2, <2>3 DEF NextSlot
<1>7. QueueContents(p) \in Seq(E) /\ QueueContents(q) \in Seq(E)
  BY <1>2, ContentsType
<1>8. Len(QueueContents(p)) = QueueLength(p) /\ Len(QueueContents(q)) = QueueLength(q)
  BY <1>2, ContentsType
<1>9. QueueContents(q) # <<>>
  BY <1>8, EmptySeq
<1>10. QueueContents(p) = Tail(QueueContents(q))
  BY <1>4, <1>6, <1>7, <1>8, <1>9, HeadTailProperties, SeqEqual
<1>11. QueueFront(q) = Head(QueueContents(q))
  BY <1>5, <1>7, <1>9
<1>. QED
  BY <1>2, <1>4, <1>10, <1>11 DEF p

\* The arrays of elements of E, and those that fit in the space q has left.
\* (Named, so that a step about the indices does not see sequences.)
ArrayOf(E)  == Seq(E)
Fits(q, es) == Len(es) <= QueueSpace(q)

\* QUEUE_PUT_ARRAY appends a whole array, when there is space for it: the two
\* runs stay out of the slots that hold older elements, and the second starts
\* at slot 0 only when the first has reached the end of the buffer.
LEMMA PutArrayAppends ==
  ASSUME NEW size \in Nat \ {0}, NEW E, NEW q \in Queue(size, E),
         NEW es \in ArrayOf(E), Fits(q, es)
  PROVE  /\ QueuePutArray(q, es) \in Queue(size, E)
         /\ QueueContents(QueuePutArray(q, es)) = QueueContents(q) \o es
<1>. DEFINE p     == QueuePutArray(q, es)
            n     == Len(es)
            len   == QueueLength(q)
            room  == IF q.tail > q.head THEN q.tail - q.head - 1
                                        ELSE q.size - q.head
            first == FirstRun(n, room)
            rest  == n - first
<1>1. q.size = size /\ q.head \in 0..size /\ q.tail \in 0..size
  BY DEF Queue
<1>2. q.buffer \in [0..size -> E]
  BY DEF Queue
<1>3. n \in Nat /\ len \in 0..size /\ n <= size - len
  BY ContentsType, SpaceAndLength DEF Fits, ArrayOf
<1>4. len = IF q.tail > q.head THEN q.head + size + 1 - q.tail
                               ELSE q.head - q.tail
  BY <1>1 DEF QueueLength
<1>5. \A i \in 1..n : es[i] \in E
  BY ElementOfSeq DEF ArrayOf
<1>6. p = [size |-> size,
           head |-> IF rest > 0 THEN rest - 1 ELSE q.head + first,
           tail |-> q.tail,
           buffer |-> [i \in 0..size |->
              IF i < rest THEN es[first + i + 1]
              ELSE IF i \in (q.head + 1)..(q.head + first) THEN es[i - q.head]
              ELSE q.buffer[i]]]
  BY <1>1, Zenon DEF QueuePutArray
<1>. HIDE DEF p, n, len
<1>7. /\ first \in 0..n /\ q.head + first \in 0..size
      /\ n > first => /\ q.tail <= q.head
                      /\ n - first - 1 < q.tail
                      /\ q.head + first = size
      /\ q.tail > q.head => q.head + first < q.tail
  BY <1>1, <1>3, <1>4 DEF FirstRun
<1>. HIDE DEF first
<1>8. p.size = size /\ p.tail = q.tail
  BY <1>6
<1>9. p.head \in 0..size /\ p.head = IF rest > 0 THEN rest - 1 ELSE q.head + first
  BY <1>1, <1>3, <1>6, <1>7
<1>10. \A i \in 0..size :
         p.buffer[i] = IF i < rest THEN es[first + i + 1]
                       ELSE IF i \in (q.head + 1)..(q.head + first)
                            THEN es[i - q.head]
                       ELSE q.buffer[i]
  BY <1>6
<1>11. p \in Queue(size, E)
  <2>1. \A i \in 0..size :
          (IF i < rest THEN es[first + i + 1]
           ELSE IF i \in (q.head + 1)..(q.head + first) THEN es[i - q.head]
           ELSE q.buffer[i]) \in E
    <3>. SUFFICES ASSUME NEW i \in 0..size
                  PROVE  (IF i < rest THEN es[first + i + 1]
                          ELSE IF i \in (q.head + 1)..(q.head + first)
                               THEN es[i - q.head]
                          ELSE q.buffer[i]) \in E
      OBVIOUS
    <3>1. i < rest => first + i + 1 \in 1..n
      BY <1>3, <1>7
    <3>2. i \in (q.head + 1)..(q.head + first) => i - q.head \in 1..n
      BY <1>1, <1>3, <1>7
    <3>3. q.buffer[i] \in E
      BY <1>2
    <3>. QED
      BY <1>5, <3>1, <3>2, <3>3
  <2>2. p.buffer \in [0..size -> E]
    BY <1>6, <2>1
  <2>. QED
    BY <1>1, <1>6, <1>9, <2>2 DEF Queue
<1>12. QueueLength(p) = len + n
  BY <1>1, <1>3, <1>4, <1>7, <1>8, <1>9 DEF QueueLength
<1>13. \A i \in 1..(len + n) :
         QueueContents(p)[i] = IF i <= len THEN QueueContents(q)[i] ELSE es[i - len]
  <2>. SUFFICES ASSUME NEW i \in 1..(len + n)
                PROVE  QueueContents(p)[i] =
                         IF i <= len THEN QueueContents(q)[i] ELSE es[i - len]
    OBVIOUS
  <2>. DEFINE slot == IF q.tail + i > size THEN q.tail + i - size - 1
                                          ELSE q.tail + i
  <2>1. slot \in 0..size
    BY <1>1, <1>3
  <2>2. QueueContents(p)[i] = p.buffer[slot]
    BY <1>8, <1>12 DEF QueueContents
  <2>3. i <= len => QueueContents(q)[i] = q.buffer[slot]
    BY <1>1, <1>3 DEF QueueContents, len
  <2>4. CASE i <= len
    <3>1. ~(slot < rest) /\ slot \notin (q.head + 1)..(q.head + first)
      BY <1>1, <1>3, <1>4, <1>7, <2>4
    <3>. QED
      BY <1>10, <2>1, <2>2, <2>3, <2>4, <3>1
  <2>5. CASE i > len /\ slot < rest
    <3>1. first + slot + 1 = i - len
      BY <1>1, <1>3, <1>4, <1>7, <2>5
    <3>. QED
      BY <1>3, <1>10, <2>1, <2>2, <2>5, <3>1
  <2>6. CASE i > len /\ ~(slot < rest)
    <3>1. slot \in (q.head + 1)..(q.head + first) /\ slot - q.head = i - len
      BY <1>1, <1>3, <1>4, <1>7, <2>6
    <3>. QED
      BY <1>3, <1>10, <2>1, <2>2, <2>6, <3>1
  <2>. QED
    BY <1>3, <2>4, <2>5, <2>6
<1>14. /\ QueueContents(p) \in Seq(E) /\ QueueContents(q) \in Seq(E)
       /\ Len(QueueContents(p)) = len + n /\ Len(QueueContents(q)) = len
  BY <1>11, <1>12, ContentsType DEF len
<1>15. QueueContents(p) = QueueContents(q) \o es
  <2>. DEFINE c == QueueContents(q) \o es
  <2>1. /\ c \in Seq(E) /\ Len(c) = len + n
        /\ \A i \in 1..(len + n) :
             c[i] = IF i <= len THEN QueueContents(q)[i] ELSE es[i - len]
    BY <1>14, ConcatProperties DEF n, ArrayOf
  <2>. HIDE DEF c
  <2>2. QueueContents(p) = c
    BY <1>13, <1>14, <2>1, SeqEqual
  <2>. QED
    BY <2>2 DEF c
<1>. QED
  BY <1>11, <1>15 DEF p

\* QUEUE_GET_ARRAY takes the n oldest elements, when there are as many.
LEMMA GetArrayTakesFront ==
  ASSUME NEW size \in Nat \ {0}, NEW E, NEW q \in Queue(size, E),
         NEW n \in 1..QueueLength(q)
  PROVE  /\ QueueGetArray(q, n) \in Queue(size, E)
         /\ QueueFrontArray(q, n) = SubSeq(QueueContents(q), 1, n)
         /\ QueueContents(QueueGetArray(q, n)) =
              SubSeq(QueueContents(q), n + 1, Len(QueueContents(q)))
<1>. DEFINE p     == QueueGetArray(q, n)
            front == QueueFrontArray(q, n)
            len   == QueueLength(q)
            room  == GetArrayRoom(q)
            first == FirstRun(n, room)
            rest  == n - first
<1>1. q.size = size /\ q.head \in 0..size /\ q.tail \in 0..size
  BY DEF Queue
<1>2. q.buffer \in [0..size -> E]
  BY DEF Queue
<1>3. len \in 0..size /\ n \in 1..len
  BY ContentsType
<1>4. len = IF q.tail > q.head THEN q.head + size + 1 - q.tail
                               ELSE q.head - q.tail
  BY <1>1 DEF QueueLength
<1>5. /\ p = [size |-> size,
              head |-> q.head,
              tail |-> IF rest > 0 THEN rest - 1 ELSE q.tail + first,
              buffer |-> q.buffer]
      /\ front = [i \in 1..n |-> IF i <= first THEN q.buffer[q.tail + i]
                                               ELSE q.buffer[i - first - 1]]
  BY <1>1, Zenon DEF QueueGetArray, QueueFrontArray
<1>6. room = IF q.tail < q.head THEN q.head - q.tail ELSE size - q.tail
  BY <1>1 DEF GetArrayRoom
<1>. HIDE DEF p, front, len, room
<1>7. /\ first \in 0..n /\ q.tail + first \in 0..size
      /\ n > first => /\ q.head < q.tail
                      /\ n - first - 1 <= q.head
                      /\ q.tail + first = size
      /\ q.tail <= q.head => q.tail + first <= q.head
  BY <1>1, <1>3, <1>4, <1>6 DEF FirstRun
<1>. HIDE DEF first
<1>8. p.size = size /\ p.head = q.head /\ p.buffer = q.buffer
  BY <1>5
<1>9. p.tail \in 0..size /\ p.tail = IF rest > 0 THEN rest - 1 ELSE q.tail + first
  BY <1>1, <1>3, <1>5, <1>7
<1>10. p \in Queue(size, E)
  BY <1>1, <1>2, <1>5, <1>9 DEF Queue
<1>11. QueueLength(p) = len - n
  BY <1>1, <1>3, <1>4, <1>7, <1>8, <1>9 DEF QueueLength
<1>12. \A i \in 1..len :
         QueueContents(q)[i] = IF q.tail + i > size THEN q.buffer[q.tail + i - size - 1]
                                                    ELSE q.buffer[q.tail + i]
  BY <1>1 DEF QueueContents, len
<1>13. \A i \in 1..(len - n) : QueueContents(p)[i] = QueueContents(q)[n + i]
  <2>. SUFFICES ASSUME NEW i \in 1..(len - n)
                PROVE  QueueContents(p)[i] = QueueContents(q)[n + i]
    OBVIOUS
  <2>1. n + i \in 1..len
    BY <1>3
  <2>2. QueueContents(p)[i] =
          IF p.tail + i > size THEN q.buffer[p.tail + i - size - 1]
                               ELSE q.buffer[p.tail + i]
    BY <1>8, <1>11 DEF QueueContents
  <2>3. CASE rest > 0
    <3>1. q.tail + (n + i) > size /\ q.tail + (n + i) - size - 1 = p.tail + i
      BY <1>1, <1>3, <1>7, <1>9, <2>3
    <3>2. p.tail + i <= size
      BY <1>1, <1>3, <1>4, <1>7, <1>9, <2>3
    <3>3. QueueContents(p)[i] = q.buffer[p.tail + i]
      BY <1>1, <1>9, <2>2, <3>2
    <3>4. QueueContents(q)[n + i] = q.buffer[q.tail + (n + i) - size - 1]
      BY <1>12, <2>1, <3>1
    <3>. QED
      BY <3>1, <3>3, <3>4
  <2>4. CASE ~(rest > 0)
    <3>1. q.tail + (n + i) = p.tail + i
      BY <1>1, <1>3, <1>7, <1>9, <2>4
    <3>2. QueueContents(q)[n + i] =
            IF q.tail + (n + i) > size THEN q.buffer[q.tail + (n + i) - size - 1]
                                       ELSE q.buffer[q.tail + (n + i)]
      BY <1>12, <2>1
    <3>. QED
      BY <1>1, <1>3, <1>9, <2>2, <3>1, <3>2
  <2>. QED
    BY <2>3, <2>4
<1>14. \A i \in 1..n : front[i] = QueueContents(q)[i] /\ front[i] \in E
  <2>. SUFFICES ASSUME NEW i \in 1..n
                PROVE  front[i] = QueueContents(q)[i] /\ front[i] \in E
    OBVIOUS
  <2>1. i \in 1..len
    BY <1>3
  <2>2. CASE i <= first
    <3>1. q.tail + i <= size /\ q.tail + i \in 0..size
      BY <1>1, <1>7, <2>2
    <3>. QED
      BY <1>2, <1>5, <1>12, <2>1, <2>2, <3>1
  <2>3. CASE i > first
    <3>1. n > first /\ q.tail + first = size
      BY <1>3, <1>7, <2>3
    <3>2. q.tail + i > size /\ q.tail + i - size - 1 = i - first - 1
      BY <1>1, <1>3, <1>7, <2>3, <3>1
    <3>3. i - first - 1 \in 0..size
      BY <1>1, <1>3, <1>7, <2>3, <3>1
    <3>4. front[i] = q.buffer[i - first - 1]
      BY <1>5, <1>7, <2>3
    <3>5. QueueContents(q)[i] = q.buffer[q.tail + i - size - 1]
      BY <1>12, <2>1, <3>2
    <3>. QED
      BY <1>2, <3>2, <3>3, <3>4, <3>5
  <2>. QED
    BY <1>3, <1>7, <2>2, <2>3
<1>15. /\ QueueContents(p) \in Seq(E) /\ Len(QueueContents(p)) = len - n
       /\ QueueContents(q) \in Seq(E) /\ Len(QueueContents(q)) = len
  BY <1>10, <1>11, ContentsType DEF len
<1>16. front \in Seq(E) /\ Len(front) = n
  BY <1>3, <1>5, <1>14
<1>17. front = SubSeq(QueueContents(q), 1, n)
  <2>. DEFINE c == SubSeq(QueueContents(q), 1, n)
  <2>1. \A i \in 1..n : QueueContents(q)[i] \in E
    BY <1>14
  <2>2. /\ c \in Seq(E) /\ Len(c) = n
        /\ \A i \in 1..n : c[i] = QueueContents(q)[i]
    BY <1>3, <2>1, SubSeqProperties
  <2>. HIDE DEF c
  <2>3. front = c
    BY <1>14, <1>16, <2>2, SeqEqual
  <2>. QED
    BY <2>3 DEF c
<1>18. QueueContents(p) = SubSeq(QueueContents(q), n + 1, len)
  <2>. DEFINE c == SubSeq(QueueContents(q), n + 1, len)
  <2>1. \A i \in (n + 1)..len : QueueContents(q)[i] \in E
    BY <1>3, <1>15, ElementOfSeq
  <2>2. /\ c \in Seq(E) /\ Len(c) = len - n
        /\ \A i \in 1..(len - n) : c[i] = QueueContents(q)[n + i]
    BY <1>3, <2>1, SubSeqProperties
  <2>. HIDE DEF c
  <2>3. QueueContents(p) = c
    BY <1>13, <1>15, <2>2, SeqEqual
  <2>. QED
    BY <2>3 DEF c
<1>. QED
  BY <1>10, <1>15, <1>17, <1>18 DEF p, front
=============================================================================
