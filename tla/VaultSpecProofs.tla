--------------------------- MODULE VaultSpecProofs ---------------------------
(***************************************************************************)
(* Proofs about VaultSpec for every set of passwords, identities and       *)
(* payload keys, and every slot limit.                                     *)
(***************************************************************************)
EXTENDS VaultSpec, KeySlotsProofs

-----------------------------------------------------------------------------
(* The inductive invariant and what one step does to it. *)

IInv == TypeOK /\ EverySlotOpens

\* A finished vault satisfying the invariant, spelled out.
LEMMA ReadyFacts ==
  ASSUME IInv, IsReady
  PROVE  /\ vault = Ready(vault.dek, vault.slots)
         /\ vault.dek \in Deks
         /\ vault.slots \in Seq(Slot)
         /\ Len(vault.slots) \in 1 .. MaxSlots
         /\ WrapsOnly(vault.slots, vault.dek)
BY DEF IInv, TypeOK, EverySlotOpens, IsReady, NoVault, Encrypting, PartialVault, Ready

\* Publishing a well-formed section keeps the invariant.
LEMMA PublishKeeps ==
  ASSUME IInv, IsReady, NEW slots \in Seq(Slot), WrapsOnly(slots, vault.dek),
         Publish(slots)
  PROVE  IInv' /\ vault'.dek = vault.dek /\ vault'.slots = slots
<1>1. vault.dek \in Deks
  BY ReadyFacts
<1>2. vault' = [state |-> "ready", dek |-> vault.dek, slots |-> slots]
      /\ Len(slots) \in 1 .. MaxSlots
  BY DEF Publish, Ready, SectionFits
<1>3. TypeOK'
  BY <1>1, <1>2 DEF TypeOK
<1>4. EverySlotOpens'
  BY <1>2 DEF EverySlotOpens, WrapsOnly
<1> QED
  BY <1>2, <1>3, <1>4 DEF IInv

\* What EditsAreLocal asks of one step.
LocalEdit ==
  IsReady /\ IsReady' =>
    /\ vault'.dek = vault.dek
    /\ \E lost, gained \in Secrets :
         /\ Openers(vault.slots) \ {lost} \subseteq Openers(vault'.slots)
         /\ Openers(vault'.slots) \ {gained} \subseteq Openers(vault.slots)

\* An edit that appends a slot (add_password, add_recipient).
LEMMA AddStep ==
  ASSUME IInv, IsReady, NEW cred, NEW new \in Secrets,
         CanRecover(vault.slots, cred),
         Publish(Added(vault.slots, cred, new))
  PROVE  IInv' /\ LocalEdit
<1> DEFINE r == Added(vault.slots, cred, new)
<1>1. /\ r \in Seq(Slot) /\ WrapsOnly(r, vault.dek)
      /\ Openers(vault.slots) \subseteq Openers(r)
      /\ Openers(r) \ {new} \subseteq Openers(vault.slots)
  BY ReadyFacts, AddedProperties
<1> HIDE DEF r
<1>2. Publish(r)
  BY DEF r
<1>3. IInv' /\ vault'.dek = vault.dek /\ vault'.slots = r
  BY <1>1, <1>2, PublishKeeps
<1> QED
  BY <1>1, <1>3 DEF LocalEdit

\* Every step of the specification keeps the invariant and edits locally.
LEMMA StepOK == IInv /\ [Next]_vars => IInv' /\ LocalEdit
<1> SUFFICES ASSUME IInv, [Next]_vars
             PROVE  IInv' /\ LocalEdit
  OBVIOUS
<1>1. CASE EncryptStarts
  BY <1>1 DEF EncryptStarts, IInv, TypeOK, EverySlotOpens, LocalEdit,
              IsReady, Encrypting
<1>8. CASE EncryptFails
  BY <1>8 DEF EncryptFails, IInv, TypeOK, EverySlotOpens, LocalEdit,
              IsReady, PartialVault, Encrypting
<1>2. CASE EncryptEnds
  <2>1. PICK d \in Deks, n \in 1 .. MaxSlots :
          \E secrets \in [1 .. n -> Secrets] :
            vault' = Ready(d, [i \in 1 .. n |-> Wrap(secrets[i], d)])
    BY <1>2 DEF EncryptEnds
  <2>2. PICK secrets \in [1 .. n -> Secrets] :
          vault' = Ready(d, [i \in 1 .. n |-> Wrap(secrets[i], d)])
    BY <2>1
  <2> DEFINE ss == [i \in 1 .. n |-> Wrap(secrets[i], d)]
  <2>3. n \in Nat /\ n \in 1 .. MaxSlots
    BY KeySlotsAssumption
  <2>4. \A i \in 1 .. n : Wrap(secrets[i], d) \in Slot
                          /\ Wrap(secrets[i], d).dek = d
    BY WrapType
  <2>5. ss \in [1 .. n -> Slot] /\ \A i \in 1 .. n : ss[i].dek = d
    BY <2>4
  <2>6. vault' = [state |-> "ready", dek |-> d, slots |-> ss]
    BY <2>2 DEF Ready
  <2>7. vault = Encrypting
    BY <1>2 DEF EncryptEnds
  <2> HIDE DEF ss
  <2>8. ss \in Seq(Slot) /\ Len(ss) = n
    <3>1. ss \in Seq(Slot)
      BY <2>3, <2>5, SeqDef
    <3>2. DOMAIN ss = 1 .. n /\ DOMAIN ss = 1 .. Len(ss) /\ Len(ss) \in Nat
      BY <2>5, <3>1, LenProperties
    <3> QED
      BY <2>3, <3>1, <3>2
  <2>9. TypeOK'
    BY <2>6, <2>8 DEF TypeOK
  <2>10. EverySlotOpens'
    BY <2>3, <2>5, <2>6, <2>8 DEF EverySlotOpens, WrapsOnly
  <2>11. ~IsReady
    BY <2>7 DEF IsReady, Encrypting
  <2> QED
    BY <2>9, <2>10, <2>11 DEF IInv, LocalEdit
<1>3. ASSUME NEW old \in Passwords, NEW new \in Passwords, Rekey(old, new)
      PROVE  IInv' /\ LocalEdit
  <2> DEFINE r == Rekeyed(vault.slots, old, new)
  <2>1. IsReady /\ CanRecover(vault.slots, {old}) /\ Publish(r)
    BY <1>3 DEF Rekey
  <2>2. /\ r \in Seq(Slot) /\ WrapsOnly(r, vault.dek)
        /\ Openers(vault.slots) \ {old} \subseteq Openers(r)
        /\ Openers(r) \ {new} \subseteq Openers(vault.slots)
    BY <2>1, ReadyFacts, RekeyedProperties
  <2> HIDE DEF r
  <2>3. IInv' /\ vault'.dek = vault.dek /\ vault'.slots = r
    BY <2>1, <2>2, PublishKeeps
  <2>4. old \in Secrets /\ new \in Secrets
    BY DEF Secrets
  <2> QED
    BY <2>2, <2>3, <2>4 DEF LocalEdit
<1>4. ASSUME NEW cred \in Credentials, NEW new \in Passwords,
             AddPassword(cred, new)
      PROVE  IInv' /\ LocalEdit
  <2>1. new \in Secrets
    BY DEF Secrets
  <2> QED
    BY <1>4, <2>1, AddStep DEF AddPassword
<1>5. ASSUME NEW cred \in Credentials, NEW new \in Identities,
             AddRecipient(cred, new)
      PROVE  IInv' /\ LocalEdit
  <2>1. new \in Secrets
    BY DEF Secrets
  <2> QED
    BY <1>5, <2>1, AddStep DEF AddRecipient
<1>6. ASSUME NEW i \in 1 .. MaxSlots, RemoveSlot(i)
      PROVE  IInv' /\ LocalEdit
  <2> DEFINE r == Removed(vault.slots, i)
             s == vault.slots[i].secret
  <2>1. IsReady /\ i \in 1 .. Len(vault.slots) /\ Publish(r)
    BY <1>6 DEF RemoveSlot, Removable
  <2>2. /\ r \in Seq(Slot) /\ WrapsOnly(r, vault.dek) /\ s \in Secrets
        /\ Openers(vault.slots) \ {s} \subseteq Openers(r)
        /\ Openers(r) \subseteq Openers(vault.slots)
    BY <2>1, ReadyFacts, RemovedProperties
  <2> HIDE DEF r, s
  <2>3. IInv' /\ vault'.dek = vault.dek /\ vault'.slots = r
    BY <2>1, <2>2, PublishKeeps
  <2> QED
    BY <2>2, <2>3 DEF LocalEdit
<1>7. CASE UNCHANGED vars
  <2>1. vault' = vault
    BY <1>7 DEF vars
  <2>2. IInv'
    BY <2>1 DEF IInv, TypeOK, EverySlotOpens, IsReady
  <2>3. LocalEdit
    <3> SUFFICES ASSUME IsReady
                 PROVE  \E lost, gained \in Secrets :
                          /\ Openers(vault.slots) \ {lost} \subseteq Openers(vault.slots)
                          /\ Openers(vault.slots) \ {gained} \subseteq Openers(vault.slots)
      BY <2>1 DEF LocalEdit
    <3>1. vault.slots[1].secret \in Secrets
      <4>1. vault.slots \in Seq(Slot) /\ 1 \in 1 .. Len(vault.slots)
        BY ReadyFacts
      <4>2. vault.slots[1] \in Slot
        BY <4>1, ElementOfSeq
      <4> QED
        BY <4>2 DEF Slot
    <3> QED
      BY <3>1
  <2> QED
    BY <2>2, <2>3
<1> QED
  BY <1>1, <1>2, <1>3, <1>4, <1>5, <1>6, <1>7, <1>8 DEF Next

-----------------------------------------------------------------------------
\* The inductive invariant holds throughout every behaviour.
LEMMA Invariance == Spec => []IInv
<1>1. Init => IInv
  BY DEF Init, IInv, TypeOK, EverySlotOpens, IsReady, NoVault
<1> QED
  BY <1>1, StepOK, PTL DEF Spec

\* The variable of VaultSpec always has its type, whatever the constants are.
THEOREM TypeCorrect == Spec => []TypeOK
BY Invariance, PTL DEF IInv

\* No sequence of encryptions, password changes, additions and removals makes
\* a finished vault that one of its slots cannot open, or without a slot
\* (service.py 134-201).
THEOREM EverySlotAlwaysOpens == Spec => []EverySlotOpens
BY Invariance, PTL DEF IInv

\* No edit of the slots changes the payload's DEK, or takes access from, or
\* gives it to, more than one secret (service.py 134-201).
THEOREM EditsStayLocal == Spec => EditsAreLocal
<1>1. IInv /\ [Next]_vars => [LocalEdit]_vars
  BY StepOK
<1>2. Spec => [][LocalEdit]_vars
  BY <1>1, Invariance, PTL DEF Spec
<1> QED
  BY <1>2 DEF EditsAreLocal, LocalEdit
-----------------------------------------------------------------------------
(* When a password change does revoke. *)

\* Replacing the only slot a password opens leaves none that it opens.
LEMMA RekeyedRevokes ==
  ASSUME NEW slots \in Seq(Slot), NEW old \in Passwords, NEW new \in Passwords, old # new,
         CanRecover(slots, {old}), \A i, j \in OpenSlots(slots, {old}) : i = j
  PROVE  ~CanRecover(Rekeyed(slots, old, new), {old})
<1> DEFINE k == FirstOpen(slots, {old})
           w == Wrap(new, RecoveredDek(slots, {old}))
           r == Rekeyed(slots, old, new)
<1>1. k \in OpenSlots(slots, {old}) /\ k \in 1 .. Len(slots)
  BY FirstOpenIsOpen DEF OpenSlots, Opens
<1>2. w.secret = new
  BY DEF Wrap
<1>3. r = [slots EXCEPT ![k] = w]
  BY DEF Rekeyed
<1> HIDE DEF k, w, r
<1>4. /\ DOMAIN r = 1 .. Len(slots)
      /\ \A j \in 1 .. Len(slots) : r[j] = IF j = k THEN w ELSE slots[j]
  BY <1>1, <1>3, LenProperties
<1>5. Len(r) = Len(slots)
  BY <1>4, LenProperties
<1>6. ASSUME NEW j \in 1 .. Len(r) PROVE r[j].secret # old
  <2>1. CASE j = k
    BY <1>2, <1>4, <1>5, <2>1
  <2>2. CASE j # k
    BY <1>1, <1>4, <1>5, <2>2 DEF OpenSlots, Opens
  <2> QED BY <2>1, <2>2
<1> QED BY <1>6 DEF CanRecover, OpenSlots, Opens, r

\* A password change revokes the old password if no other slot is wrapped for it
\* (service.py:142, Tests/test_rekey.py:33): the condition under which
\* RekeyRevokesOld holds.
THEOREM RekeyRevokesOnlySlot ==
  Spec => [][\A old, new \in Passwords :
               /\ Rekey(old, new) /\ old # new
               /\ \A i, j \in OpenSlots(vault.slots, {old}) : i = j
               => ~CanRecover(vault'.slots, {old})]_vars
<1> DEFINE Revokes == \A old, new \in Passwords :
             /\ Rekey(old, new) /\ old # new
             /\ \A i, j \in OpenSlots(vault.slots, {old}) : i = j
             => ~CanRecover(vault'.slots, {old})
<1>1. ASSUME IInv PROVE Revokes
  <2> SUFFICES ASSUME NEW old \in Passwords, NEW new \in Passwords, Rekey(old, new), old # new,
                      \A i, j \in OpenSlots(vault.slots, {old}) : i = j
               PROVE  ~CanRecover(vault'.slots, {old})
    BY Zenon
  <2>1. vault.slots \in Seq(Slot) /\ CanRecover(vault.slots, {old})
    BY <1>1, ReadyFacts DEF Rekey
  <2>2. vault'.slots = Rekeyed(vault.slots, old, new)
    BY DEF Rekey, Publish, Ready
  <2> QED BY <2>1, <2>2, RekeyedRevokes
<1>2. IInv /\ [Next]_vars => [Revokes]_vars
  BY <1>1
<1> HIDE DEF Revokes
<1>3. Spec => [][Revokes]_vars
  BY <1>2, Invariance, PTL DEF Spec
<1> QED BY <1>3 DEF Revokes
=============================================================================
