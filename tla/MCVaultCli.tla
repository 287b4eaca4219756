----------------------------- MODULE MCVaultCli -----------------------------
(* TLC instance of VaultCli. *)
EXTENDS VaultCli, TLC

CONSTANTS pwA, pwB, pwWeak, pwEmpty, idK, idL, dek1, dek2

\* Payload keys and key pairs are only ever compared with each other.
Alike == Permutations(Deks) \cup Permutations(Identities)
=============================================================================
