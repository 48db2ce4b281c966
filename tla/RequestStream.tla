--------------------------- MODULE RequestStream ---------------------------
(***************************************************************************)
(* What the OUT pipe promises to a host that keeps to the protocol of      *)
(* README.md:37-55: however its bytes are cut into USB transfers, its      *)
(* requests are handled whole, each once, in order, and as soon as they    *)
(* have arrived; the first malformed one ends the service until the        *)
(* interface is opened again.                                              *)
(***************************************************************************)
EXTENDS Integers, Sequences

CONSTANT Plans      \* the sequences of requests the host may send

VARIABLES plan,     \* the one it sends; plan[r].good: r is well formed
          arrived,  \* number of the last request that has arrived completely
          handled,  \* number of the last request handled
          serving   \* whether a session is open and no request was refused

vars == <<plan, arrived, handled, serving>>

Init == plan \in Plans /\ arrived = 0 /\ handled = 0 /\ serving = FALSE

\* More bytes are handed over, only when nothing complete is left unhandled.
Arrive == /\ serving => handled = arrived
          /\ arrived' \in arrived..Len(plan)
          /\ UNCHANGED <<plan, handled, serving>>

Next1 == plan[handled + 1]

Accept == /\ serving /\ handled < arrived /\ Next1.good
          /\ handled' = handled + 1
          /\ UNCHANGED <<plan, arrived, serving>>

Refuse == /\ serving /\ handled < arrived /\ ~Next1.good
          /\ serving' = FALSE
          /\ UNCHANGED <<plan, arrived, handled>>

\* A session ends, or begins with the next request the host starts.
Restart == /\ arrived' \in arrived..Len(plan)
           /\ \/ serving' = FALSE /\ handled' \in handled..arrived'
              \/ serving' = TRUE /\ handled' = arrived'
           /\ UNCHANGED plan

Next == Arrive \/ Accept \/ Refuse \/ Restart

Spec == Init /\ [][Next]_vars
=============================================================================
