--------------------------- MODULE CircularQueue ---------------------------
(***************************************************************************)
(* The circular queue macros of App/queues.h, as operators on queue values.*)
(*                                                                         *)
(* A queue of capacity size owns a buffer of size + 1 slots.  head is the  *)
(* slot written last and tail the slot read last, so both indices advance  *)
(* before they are used, and the queue is empty when they are equal.       *)
(***************************************************************************)
EXTENDS Integers, Sequences

\* The values a queue of elements of E with the given capacity may have.
Queue(size, E) ==
    [size : {size}, head : 0..size, tail : 0..size, buffer : [0..size -> E]]

\* QUEUE_DEF: a static queue starts with both indices at 0.
QueueDef(size, fill) ==
    [size |-> size, head |-> 0, tail |-> 0,
     buffer |-> [i \in 0..size |-> fill]]

\* head = tail = 0: the queue is emptied, its buffer stays as it is.
QueueReset(q) ==
    [size |-> q.size, head |-> 0, tail |-> 0, buffer |-> q.buffer]

QueueFull(q)  == \/ q.tail = q.head + 1
                 \/ q.tail = 0 /\ q.head = q.size

QueueEmpty(q) == q.tail = q.head

\* Fault: the slot that stays free is counted when the indices have wrapped.
QueueSpaceWrapped(q) == IF q.tail > q.head THEN q.tail - q.head
                                           ELSE q.size - (q.head - q.tail)

QueueSpace(q) == IF q.tail > q.head THEN q.tail - q.head - 1
                                    ELSE q.size - (q.head - q.tail)

\* Fault: the index goes back one slot too late.
NextSlotPastEnd(q, i) == IF i > q.size THEN 0 ELSE i + 1

\* The slot after slot i: ++index, back to 0 past the last slot.
NextSlot(q, i) == IF i + 1 = q.size + 1 THEN 0 ELSE i + 1

\* QUEUE_GET consumes the element after tail: its value, and the queue left.
QueueFront(q) == q.buffer[NextSlot(q, q.tail)]
QueueGet(q)   == [q EXCEPT !.tail = NextSlot(q, q.tail)]

\* QUEUE_PUT never looks at tail: its callers check the space.
QueuePut(q, e) ==
    LET slot == NextSlot(q, q.head)
    IN  [size |-> q.size, head |-> slot, tail |-> q.tail,
         buffer |-> [q.buffer EXCEPT ![slot] = e]]

(***************************************************************************)
(* The array macros copy in two runs: first up to the other index or to    *)
(* the end of the buffer, then, for what is left, from slot 0 on.          *)
(***************************************************************************)
FirstRun(n, room) == IF n < room THEN n ELSE room

\* Fault: the second run copies from the start of the array again.
QueuePutArrayRestarts(q, elements) ==
    LET room  == IF q.tail > q.head THEN q.tail - q.head - 1
                                    ELSE q.size - q.head
        first == FirstRun(Len(elements), room)
        rest  == Len(elements) - first
    IN  [size |-> q.size,
         head |-> IF rest > 0 THEN rest - 1 ELSE q.head + first,
         tail |-> q.tail,
         buffer |-> [i \in 0..q.size |->
              IF i < rest THEN elements[i + 1]
              ELSE IF i \in (q.head + 1)..(q.head + first)
                   THEN elements[i - q.head]
              ELSE q.buffer[i]]]

QueuePutArray(q, elements) ==
    LET room  == IF q.tail > q.head THEN q.tail - q.head - 1
                                    ELSE q.size - q.head
        first == FirstRun(Len(elements), room)
        rest  == Len(elements) - first
    IN  [size |-> q.size,
         head |-> IF rest > 0 THEN rest - 1 ELSE q.head + first,
         tail |-> q.tail,
         buffer |-> [i \in 0..q.size |->
              IF i < rest THEN elements[first + i + 1]
              ELSE IF i \in (q.head + 1)..(q.head + first)
                   THEN elements[i - q.head]
              ELSE q.buffer[i]]]

GetArrayRoom(q) == IF q.tail < q.head THEN q.head - q.tail ELSE q.size - q.tail

\* The elements QUEUE_GET_ARRAY copies out, and the queue it leaves.
QueueFrontArray(q, n) ==
    LET first == FirstRun(n, GetArrayRoom(q))
    IN  [i \in 1..n |-> IF i <= first THEN q.buffer[q.tail + i]
                                      ELSE q.buffer[i - first - 1]]

QueueGetArray(q, n) ==
    LET first == FirstRun(n, GetArrayRoom(q))
        rest  == n - first
    IN  [size |-> q.size, head |-> q.head,
         tail |-> IF rest > 0 THEN rest - 1 ELSE q.tail + first,
         buffer |-> q.buffer]

(***************************************************************************)
(* What a queue stands for: the elements put and not yet got, oldest first.*)
(***************************************************************************)
QueueLength(q) == IF q.tail > q.head THEN q.head + q.size + 1 - q.tail
                                     ELSE q.head - q.tail

QueueContents(q) ==
    [i \in 1..QueueLength(q) |->
        IF q.tail + i > q.size THEN q.buffer[q.tail + i - q.size - 1]
                               ELSE q.buffer[q.tail + i]]

=============================================================================
