---------------------------- MODULE MCSlotContainer ----------------------------
(***************************************************************************)
(* Small instances of SlotContainer: two nodes of three slots.             *)
(***************************************************************************)
EXTENDS SlotContainer

===============================================================================
