----------------------------- MODULE TxStream ------------------------------
(***************************************************************************)
(* What the host is promised about the frames it sends (README.md:55):  *)
(* a frame it sent is put on the bus at most once, frames reach the bus in *)
(* the order they were sent, and a frame is reported as sent at most once  *)
(* and only after it was on the bus.  Frames may be discarded (error state *)
(* of the bus, a new setup request), never reordered by that.              *)
(*                                                                         *)
(* Frames are numbered in the order the device takes them from the host.   *)
(***************************************************************************)
EXTENDS Integers, Sequences

CONSTANT Frame      \* the numbers of the frames the host may send, from 1

VARIABLES taken,    \* number of frames taken from the host so far
          waiting,  \* frames taken and not yet sent or discarded, in order
          sent,     \* frames that were on the bus
          acked     \* frames reported to the host as sent

vars == <<taken, waiting, sent, acked>>

Init == taken = 0 /\ waiting = <<>> /\ sent = {} /\ acked = {}

Take == /\ taken + 1 \in Frame
        /\ taken' = taken + 1
        /\ waiting' = Append(waiting, taken + 1)
        /\ UNCHANGED <<sent, acked>>

Send == /\ waiting # <<>>
        /\ sent' = sent \cup {Head(waiting)}
        /\ waiting' = Tail(waiting)
        /\ UNCHANGED <<taken, acked>>

Acknowledge(f) == /\ f \in sent \ acked
                  /\ acked' = acked \cup {f}
                  /\ UNCHANGED <<taken, waiting, sent>>

\* The frames from place i to place j are dropped, the others keep their
\* order.
Discard(i, j) ==
    /\ waiting' = SubSeq(waiting, 1, i - 1) \o SubSeq(waiting, j + 1, Len(waiting))
    /\ UNCHANGED <<taken, sent, acked>>

Next == \/ Take
        \/ Send
        \/ \E f \in Frame : Acknowledge(f)
        \/ \E i, j \in DOMAIN waiting : i <= j /\ Discard(i, j)

Spec == Init /\ [][Next]_vars

-----------------------------------------------------------------------------
\* The frames still waiting are newer than every frame already sent, and in
\* the host's order: this is "transmitted in the order they are sent".
InOrder == /\ \A i, j \in DOMAIN waiting : i < j => waiting[i] < waiting[j]
           /\ \A i \in DOMAIN waiting, f \in sent : f < waiting[i]
=============================================================================
