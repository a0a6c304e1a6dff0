------------------------- MODULE MCSlotMultiplexer -------------------------
(* An instance of SlotMultiplexer for TLC.                                 *)
EXTENDS SlotMultiplexer
=============================================================================
