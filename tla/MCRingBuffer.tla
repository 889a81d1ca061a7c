---------------------------- MODULE MCRingBuffer ----------------------------
(***************************************************************************)
(* A ring of three slots: every head and tail position with every count,   *)
(* including full and empty at each position.                              *)
(***************************************************************************)
EXTENDS RingBuffer

MCValues == {0, 1, 2}
=============================================================================
