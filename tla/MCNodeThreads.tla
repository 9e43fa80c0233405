--------------------------- MODULE MCNodeThreads ---------------------------
(* One room, which may be left and joined again while the sender and the   *)
(* handlers are busy with it.                                              *)
EXTENDS NodeThreads
=============================================================================
