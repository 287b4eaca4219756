---------------------------- MODULE MCVaultFile ----------------------------
(* TLC instances of VaultFile. *)
EXTENDS VaultFile, TLC

CONSTANTS pwA, pwB, idK, dek1, dek2, dek3, w1, w2, r1

Symmetry == Permutations(Passwords) \cup Permutations(Deks) \cup Permutations(Writers)

\* Bound: a decryption is at work only while all sections, those being written
\* too, have one slot at most, for a password.
OnePassword(cells) ==
  \A k \in DOMAIN cells :
    /\ cells[k].kind = "header" => cells[k].n <= 1
    /\ cells[k].kind = "slot" => cells[k].slot.secret \in Passwords

ReadersBound ==
  \/ \A r \in Readers : rd[r].pc = "idle"
  \/ /\ \A i \in Inodes : OnePassword(data[i])
     /\ \A p \in Writers : OnePassword(wr[p].todo)
=============================================================================
