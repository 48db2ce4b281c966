---------------------------- MODULE QueueMachine ---------------------------
(***************************************************************************)
(* One queue of App/queues.h driven by callers that keep its contract:     *)
(* nothing is put without space for it (can_if.c:169 and can_if.c:239) and *)
(* nothing is got that is not there (can_if.c:514).  Two users of the      *)
(* macros exist, CanTxQ (one element at a time) and CanIf_IN (one element, *)
(* then an array); all four transfer macros are exercised here.            *)
(***************************************************************************)
EXTENDS CircularQueue

CONSTANTS Capacity, Element, Fill

ASSUME QueueAssumption == Capacity \in Nat \ {0} /\ Fill \in Element

VARIABLES queue,
          moved      \* the elements the last operation put or got

vars == <<queue, moved>>

TypeOK == /\ queue \in Queue(Capacity, Element)
          /\ moved \in Seq(Element)

Init == /\ queue = QueueDef(Capacity, Fill)
        /\ moved = <<>>

Put(e) == /\ ~QueueFull(queue)
          /\ queue' = QueuePut(queue, e)
          /\ moved' = <<e>>

PutArray(es) == /\ Len(es) <= QueueSpace(queue)
                /\ queue' = QueuePutArray(queue, es)
                /\ moved' = es

Get == /\ ~QueueEmpty(queue)
       /\ moved' = <<QueueFront(queue)>>
       /\ queue' = QueueGet(queue)

GetArray(n) == /\ n <= QueueLength(queue)
               /\ moved' = QueueFrontArray(queue, n)
               /\ queue' = QueueGetArray(queue, n)

\* Arrays of one element up to the capacity.
Arrays == UNION {[1..n -> Element] : n \in 1..Capacity}

Next == \/ \E e \in Element : Put(e)
        \/ \E es \in Arrays : PutArray(es)
        \/ Get
        \/ \E n \in 1..Capacity : GetArray(n)

Spec == Init /\ [][Next]_vars

-----------------------------------------------------------------------------
\* QUEUE_SPACE, QUEUE_FULL and QUEUE_EMPTY (queues.h:53-73) give one account
\* of the queue: the space is what the length leaves, full is no space left,
\* and empty is all of it, wherever the indices have wrapped to.
SpaceAgrees ==
    /\ QueueSpace(queue) = Capacity - QueueLength(queue)
    /\ QueueFull(queue) <=> QueueSpace(queue) = 0
    /\ QueueEmpty(queue) <=> QueueSpace(queue) = Capacity

\* The index arithmetic of the macros implements a bounded FIFO: whatever
\* mix of single and array transfers ran, over however many wraps of the
\* buffer, elements come out whole and in the order they were put.
Fifo == INSTANCE BoundedFifo WITH fifo <- QueueContents(queue)

ImplementsFifo == Fifo!Spec
=============================================================================
