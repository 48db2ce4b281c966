---------------------------- MODULE BoundedFifo ----------------------------
(***************************************************************************)
(* What a user of App/queues.h relies on: a first-in first-out sequence of *)
(* at most Capacity elements, filled and emptied one element or one array  *)
(* at a time, that never loses, repeats or reorders an element.            *)
(***************************************************************************)
EXTENDS Integers, Sequences

CONSTANTS Capacity,  \* number of elements the queue can hold
          Element    \* the values an element may have

VARIABLES fifo,      \* the elements held, oldest first
          moved      \* the elements the last operation put or got

Init == fifo = <<>> /\ moved = <<>>

\* An array of elements is accepted as a whole, behind the older ones.
Put(es) ==
    /\ Len(fifo) + Len(es) <= Capacity
    /\ fifo' = fifo \o es
    /\ moved' = es

\* The n oldest elements are handed out and are gone.
Get(n) ==
    /\ n <= Len(fifo)
    /\ moved' = SubSeq(fifo, 1, n)
    /\ fifo' = SubSeq(fifo, n + 1, Len(fifo))

\* Arrays of one element up to the capacity.
Arrays == UNION {[1..n -> Element] : n \in 1..Capacity}

Next == \/ \E es \in Arrays : Put(es)
        \/ \E n \in 1..Capacity : Get(n)

Spec == Init /\ [][Next]_<<fifo, moved>>
=============================================================================
