---------------------------- MODULE MCSlotList -----------------------------
(* The instances of MCEvent, with the list. *)
EXTENDS SlotList, MCEvent
=============================================================================
