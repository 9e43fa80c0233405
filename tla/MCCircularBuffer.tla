-------------------------- MODULE MCCircularBuffer -------------------------
(* A ring of three slots and three distinct items: every slot is written,  *)
(* overwritten and emptied, head laps tail, and an item can be in the ring *)
(* twice.                                                                  *)
EXTENDS CircularBuffer

CONSTANTS x, y, z

MCItem == {x, y, z}
============================================================================
