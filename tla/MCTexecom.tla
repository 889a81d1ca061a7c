----------------------------- MODULE MCTexecom -----------------------------
(***************************************************************************)
(* Instances of Texecom for TLC, with and without a capture.                *)
(***************************************************************************)
EXTENDS Texecom

\* What the pumps may record in one call: consecutive bytes of one sender.
MCPayloads ==
  { Bytes(Panel, from, n) : from \in 0..MaxPanelBytes, n \in 1..ChunkSize }
    \cup { Bytes(c, from, n) : c \in Conns, from \in 0..MaxClientBytes, n \in 1..ChunkSize }
=============================================================================
