---------------------------- MODULE MessagePipe ----------------------------
(***************************************************************************)
(* What the IN pipe promises to the callbacks that report to the host:     *)
(* the bytes of accepted messages are handed to the USB device in the order*)
(* they were added, each exactly once, one transfer at a time, and nothing *)
(* waits while the pipe is free to take it.                                *)
(***************************************************************************)
EXTENDS Integers, Sequences

CONSTANT Packet      \* the byte sequences that can be added

VARIABLES waiting,   \* bytes accepted and not yet handed over, oldest first
          flight     \* the bytes of the transfer in flight, <<>> without one

vars == <<waiting, flight>>

Init == waiting = <<>> /\ flight = <<>>

\* With no transfer in flight some of the oldest of the bytes w leave in one.
HandOver(w, inFlight) ==
    IF w = <<>> \/ inFlight # <<>>
    THEN waiting' = w /\ flight' = inFlight
    ELSE \E n \in 1..Len(w) : /\ flight' = SubSeq(w, 1, n)
                              /\ waiting' = SubSeq(w, n + 1, Len(w))

Add(p) == HandOver(waiting \o p, flight)

Complete == flight # <<>> /\ HandOver(waiting, <<>>)

\* A new session forgets what waits, a disconnection what is in flight.
Forget     == waiting' = <<>> /\ UNCHANGED flight
Disconnect == flight' = <<>> /\ UNCHANGED waiting

Next == (\E p \in Packet : Add(p)) \/ Complete \/ Forget \/ Disconnect

Spec == Init /\ [][Next]_vars
=============================================================================
