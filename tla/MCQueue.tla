------------------------------ MODULE MCQueue ------------------------------
(***************************************************************************)
(* A queue small enough to visit every pair of index positions with every  *)
(* buffer content.  Two element values tell any two orders of a queue of   *)
(* this size apart in some state.                                          *)
(***************************************************************************)
EXTENDS QueueMachine
=============================================================================
