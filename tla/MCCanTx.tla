------------------------------ MODULE MCCanTx ------------------------------
(***************************************************************************)
(* Instances of CanTx.  With OutSize = 8 the queue holds 4 frames, an OUT  *)
(* transfer brings up to 2, and OUT data is requested while 2 are free:    *)
(* the proportions of the 128 byte buffer, the 64 frame queue and the      *)
(* threshold of 32.                                                        *)
(***************************************************************************)
EXTENDS CanTxInvariant
=============================================================================
