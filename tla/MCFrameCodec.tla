---------------------------- MODULE MCFrameCodec ----------------------------
(***************************************************************************)
(* Requests with every combination of four identifier bytes, every length  *)
(* around the limits, every frame type and two codes that are none; and    *)
(* frames of other nodes of every type and length code.                    *)
(***************************************************************************)
EXTENDS FrameCodec

SomeBytes == {{}, 0..7, {0, 2, 5}}

Codes == FrameTypes \cup {{3}, {1, 7}}

MCRequests ==
    {[bytes |-> [k \in 0..13 |->
                    CASE k = 0 -> t [] k \in 1..4 -> id[k] [] OTHER -> {k % 8}],
      length |-> n] :
        t \in Codes, id \in [1..4 -> SomeBytes], n \in 0..15}

\* Identifiers, for standard frames with what the unused bits may hold.
SomeIds == {{}, 3..31, 3..20, 21..31, {3, 5, 12, 20, 21, 28, 31}}

MCFrames ==
    {[id |-> t \cup id, dlc |-> n, data |-> [k \in 0..7 |-> {k}]] :
        t \in FrameTypes, id \in SomeIds, n \in 0..15}

MCGarbage == {{0, 4, 6}}
=============================================================================
