----------------------------- MODULE MCCanIfIn -----------------------------
(***************************************************************************)
(* A ring of a few bytes and messages of two and three: every position of  *)
(* the indices, and transfers of one to three packets.                     *)
(***************************************************************************)
EXTENDS CanIfIn

Messages == {<<0>>, <<1>>, <<0, 1>>}
=============================================================================
