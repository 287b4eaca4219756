---------------------------- MODULE MCSlotUnlock ----------------------------
(* TLC instance of SlotUnlock: sections of up to three slots and one damage. *)
EXTENDS SlotUnlock, TLC

CONSTANTS pwA, pwB, idK, dek

Symmetry == Permutations(Passwords)
=============================================================================
