---------------------------- MODULE MCVaultSpec ----------------------------
(* TLC instance of VaultSpec: two passwords, one identity, two payload keys, *)
(* and a slot counter that is full at four.                                  *)
EXTENDS VaultSpec, TLC

CONSTANTS pwA, pwB, idK, dek1, dek2

MCPasswords  == {pwA, pwB}
MCIdentities == {idK}
MCDeks       == {dek1, dek2}
=============================================================================
