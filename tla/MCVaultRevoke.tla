---------------------------- MODULE MCVaultRevoke ----------------------------
(* TLC instance of VaultRevoke. *)
EXTENDS VaultRevoke, TLC

CONSTANTS pwA, pwB, dek1, w1, w2

Alike == Permutations(Passwords) \cup Permutations(Writers)
==============================================================================
