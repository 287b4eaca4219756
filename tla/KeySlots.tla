------------------------------ MODULE KeySlots ------------------------------
(***************************************************************************)
(* Key slots: independent wrappings of one Data Encryption Key (DEK).      *)
(*                                                                         *)
(* A slot section is a non-empty sequence of slots.  A slot holds the DEK  *)
(* wrapped for one secret: a password, or the X25519 key pair of a         *)
(* recipient.  Wrapping is authenticated encryption, so a slot is the pair *)
(* (secret it was wrapped for, DEK inside), and unlocking it returns that  *)
(* DEK to whoever holds that secret and nothing to anybody else.  The slot *)
(* type byte is the kind of the secret.  KDF parameters, salts and wrap    *)
(* nonces only decide which key wraps the DEK and are left out.            *)
(*                                                                         *)
(* Everything here is a pure operator; VaultSpec and VaultFile turn them   *)
(* into steps.                                                             *)
(***************************************************************************)
EXTENDS Naturals, Sequences, FiniteSets

CONSTANTS
  Passwords,    \* passwords a user may choose
  Identities,   \* X25519 key pairs (slot: public half, credential: private half)
  Deks,         \* data encryption keys, one per encryption of a payload
  MaxSlots      \* largest slot count the one-byte counter can hold (0xFF)

ASSUME KeySlotsAssumption ==
  /\ Passwords \cap Identities = {}
  /\ MaxSlots \in Nat \ {0}

Secrets == Passwords \cup Identities

Slot == [secret : Secrets, dek : Deks]

\* What one command line can supply to unlock a vault: at most one password
\* and at most one identity file.
Credentials ==
  {{}} \cup {{s} : s \in Secrets} \cup {{p, k} : p \in Passwords, k \in Identities}

\* (mutation) the arguments of a wrap swapped.
WrapSwapped(secret, dek) == [secret |-> dek, dek |-> secret]

Wrap(secret, dek) == [secret |-> secret, dek |-> dek]

\* unlock_slot: a slot the credential does not fit returns None.
Opens(slot, cred) == slot.secret \in cred

OpenSlots(slots, cred) == {i \in 1 .. Len(slots) : Opens(slots[i], cred)}

CanRecover(slots, cred) == OpenSlots(slots, cred) # {}

\* _recover: slots are tried in order and the first that opens wins.
FirstOpen(slots, cred) ==
  CHOOSE i \in OpenSlots(slots, cred) : \A j \in OpenSlots(slots, cred) : i <= j

RecoveredDek(slots, cred) == slots[FirstOpen(slots, cred)].dek

-----------------------------------------------------------------------------
(* The edits of the slot section.  Each is defined when its guard in the    *)
(* code lets it through (CanRecover, or the index checks of remove_slot).   *)

\* (mutation) the new slot is appended to a fresh list, the others are lost.
RekeyedAlone(slots, old, new) == <<Wrap(new, RecoveredDek(slots, {old}))>>

\* rekey_path: the slot the old password opened is replaced.
Rekeyed(slots, old, new) ==
  [slots EXCEPT ![FirstOpen(slots, {old})] =
     Wrap(new, RecoveredDek(slots, {old}))]

\* add_password, add_recipient: one more wrapping of the recovered DEK.
Added(slots, cred, new) == Append(slots, Wrap(new, RecoveredDek(slots, cred)))

\* remove_slot refuses an index out of range and the last remaining slot.
Removable(slots, i) == i \in 1 .. Len(slots) /\ Len(slots) # 1

Removed(slots, i) ==
  [j \in 1 .. Len(slots) - 1 |-> slots[IF j < i THEN j ELSE j + 1]]

\* serialize_section refuses an empty section and one of more than 255 slots.
SectionFits(slots) == Len(slots) \in 1 .. MaxSlots

\* _build_slots: the passwords first, then the recipients, all wrapping dek.
BuiltSlots(dek, passwords, recipients) ==
  [i \in 1 .. Len(passwords) + Len(recipients) |->
     Wrap((passwords \o recipients)[i], dek)]

-----------------------------------------------------------------------------
\* Every slot of the section gives the same DEK.
WrapsOnly(slots, dek) == \A i \in 1 .. Len(slots) : slots[i].dek = dek

\* The secrets a section can be opened with.
Openers(slots) == {slots[i].secret : i \in 1 .. Len(slots)}
=============================================================================
