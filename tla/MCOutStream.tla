---------------------------- MODULE MCOutStream ----------------------------
(***************************************************************************)
(* A buffer of almost two packets, and requests as the shortest frame, as  *)
(* most of the buffer, shorter than a frame, and longer than the buffer.   *)
(* A fragment of the long request is longer than the short request before  *)
(* it, so that moving it overlaps.                                         *)
(***************************************************************************)
EXTENDS OutStream, SequencesExt

Request(n, ok) == [length |-> n, good |-> ok]

Good == {Request(2, TRUE), Request(4, TRUE)}
Bad  == {Request(n, FALSE) : n \in {0, 1, 3, 6}}

Short == <<Request(2, TRUE), Request(1, FALSE), Request(1, FALSE), Request(2, TRUE)>>

Mixed == {Short} \cup {<<a, b, Request(2, TRUE)>> : a \in Good, b \in Good \cup Bad}

Long == {<<Request(2, TRUE), Request(6, FALSE), Request(2, TRUE)>>}

MCStreamOf(p) ==
    FlattenSeq([r \in DOMAIN p |-> [i \in 1..Size(p[r]) |-> [of |-> r, place |-> i]]])
=============================================================================
