------------------------------- MODULE MCSlots -------------------------------
(* A small instance of the runner slots for TLC: two slots, the first      *)
(* urgent-only, so that bulk work depends on the memory of the second.     *)
EXTENDS Slots
=============================================================================
