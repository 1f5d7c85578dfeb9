---------------------------- MODULE MCDmaChannel ----------------------------
(* Model-checking instances of DmaChannel. *)
EXTENDS DmaChannel
=============================================================================
