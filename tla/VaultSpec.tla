------------------------------ MODULE VaultSpec ------------------------------
(***************************************************************************)
(* What a vault promises, with every file operation hidden: a command that *)
(* edits the key slots takes effect in one step or not at all, and only    *)
(* the slots change.  VaultFile shows that the files the code writes, step *)
(* by step and with crashes, implement this.                               *)
(*                                                                         *)
(* Encryption is the one command that is not atomic, and the specification *)
(* says so: what was under the path is gone when it starts, and the path   *)
(* is left in the state "partial" (nobody can decrypt it) if it fails.     *)
(* No other command may do that.                                           *)
(***************************************************************************)
EXTENDS KeySlots

VARIABLE vault   \* what is stored under the vault's path

vars == <<vault>>

NoVault       == [state |-> "none"]
Encrypting    == [state |-> "encrypting"]
PartialVault  == [state |-> "partial"]
Ready(d, ss)  == [state |-> "ready", dek |-> d, slots |-> ss]

IsReady == vault.state = "ready"

-----------------------------------------------------------------------------
Init == vault = NoVault

\* encrypt_path truncates whatever is at the destination...
EncryptStarts == vault' = Encrypting

\* ...has a vault there once the final chunk is written...
EncryptEnds ==
  /\ vault = Encrypting
  /\ \E d \in Deks, n \in 1 .. MaxSlots :
       \E secrets \in [1 .. n -> Secrets] :
         vault' = Ready(d, [i \in 1 .. n |-> Wrap(secrets[i], d)])

\* ...or fails and leaves what it has written.
EncryptFails ==
  /\ vault = Encrypting
  /\ vault' = PartialVault

\* (mutation) the slot count is not checked before it is packed in a byte.
PublishUnchecked(slots) == vault' = Ready(vault.dek, slots)

\* _rewrite publishes an edited slot section with the payload copied verbatim.
Publish(slots) ==
  /\ SectionFits(slots)
  /\ vault' = Ready(vault.dek, slots)

Rekey(old, new) ==
  /\ IsReady
  /\ CanRecover(vault.slots, {old})
  /\ Publish(Rekeyed(vault.slots, old, new))

AddPassword(cred, new) ==
  /\ IsReady
  /\ CanRecover(vault.slots, cred)
  /\ Publish(Added(vault.slots, cred, new))

AddRecipient(cred, new) ==
  /\ IsReady
  /\ CanRecover(vault.slots, cred)
  /\ Publish(Added(vault.slots, cred, new))

RemoveSlot(i) ==
  /\ IsReady
  /\ Removable(vault.slots, i)
  /\ Publish(Removed(vault.slots, i))

Next ==
  \/ EncryptStarts
  \/ EncryptEnds
  \/ EncryptFails
  \/ \E old, new \in Passwords : Rekey(old, new)
  \/ \E cred \in Credentials, new \in Passwords : AddPassword(cred, new)
  \/ \E cred \in Credentials, new \in Identities : AddRecipient(cred, new)
  \/ \E i \in 1 .. MaxSlots : RemoveSlot(i)

Spec == Init /\ [][Next]_vars

-----------------------------------------------------------------------------
\* The variable only holds the kinds of value above.
TypeOK ==
  vault \in {NoVault, Encrypting, PartialVault}
            \cup [state : {"ready"}, dek : Deks, slots : Seq(Slot)]

\* A finished vault can always be opened, and by every slot alike: there is
\* at least one slot, never more than the counter byte holds, and each one
\* wraps the DEK of the payload, so no edit can leave the data unrecoverable
\* (service.py 195-198, slotcodec.py 23-29).
EverySlotOpens ==
  IsReady =>
    /\ Len(vault.slots) \in 1 .. MaxSlots
    /\ WrapsOnly(vault.slots, vault.dek)

\* An edit of the slots keeps the payload's DEK, takes access from at most one
\* secret and gives it to at most one: everybody else still opens the vault
\* (service.py:144 "other slots are kept").
EditsAreLocal ==
  [][IsReady /\ IsReady' =>
       /\ vault'.dek = vault.dek
       /\ \E lost, gained \in Secrets :
            /\ Openers(vault.slots) \ {lost} \subseteq Openers(vault'.slots)
            /\ Openers(vault'.slots) \ {gained} \subseteq Openers(vault.slots)]_vars

\* After a password change the old password opens nothing (service.py:142
\* "Change a password", README.md:54, Tests/test_rekey.py:33).  It does not
\* hold: two slots may wrap the same password and rekey_path replaces the
\* first one only.
RekeyRevokesOld ==
  [][\A old, new \in Passwords :
       Rekey(old, new) /\ old # new => ~CanRecover(vault'.slots, {old})]_vars
==============================================================================
