---------------------------- MODULE KeySlotsProofs ----------------------------
(***************************************************************************)
(* What recovery and the edits of a slot section return, for every set of  *)
(* secrets and keys: the lemmas VaultSpecProofs and VaultFileProofs share. *)
(***************************************************************************)
EXTENDS KeySlots, Integers, SequenceTheorems, WellFoundedInduction, TLAPS

\* A non-empty set of natural numbers has a least element.
LEMMA LeastNat ==
  ASSUME NEW T, T \subseteq Nat, T # {}
  PROVE  \E i \in T : \A j \in T : i <= j
<1> DEFINE R == {ss \in Nat \X Nat : ss[1] < ss[2]}
<1>1. IsWellFoundedOn(R, Nat)
  BY NatLessThanWellFounded DEF OpToRel
<1>2. PICK x \in T : \A y \in T : ~(<<y, x>> \in R)
  BY <1>1, WFMin, Zenon
<1>3. ASSUME NEW y \in T PROVE x <= y
  <2>1. x \in Nat /\ y \in Nat
    OBVIOUS
  <2>2. ~(y < x)
    BY <1>2, <2>1
  <2> QED BY <2>1, <2>2
<1> QED BY <1>2, <1>3

-----------------------------------------------------------------------------
(* What recovery and the edits of a slot section return. *)

\* The slot recovery settles on is one the credential opens, and none before
\* it is.
LEMMA FirstOpenIsOpen ==
  ASSUME NEW slots \in Seq(Slot), NEW cred, CanRecover(slots, cred)
  PROVE  /\ FirstOpen(slots, cred) \in 1 .. Len(slots)
         /\ slots[FirstOpen(slots, cred)].secret \in cred
         /\ \A j \in 1 .. Len(slots) :
              slots[j].secret \in cred => FirstOpen(slots, cred) <= j
<1> DEFINE Open == OpenSlots(slots, cred)
<1>1. Open \subseteq 1 .. Len(slots) /\ Open # {} /\ Len(slots) \in Nat
  BY DEF CanRecover, OpenSlots
<1>2. \E i \in Open : \A j \in Open : i <= j
  BY <1>1, LeastNat
<1>3. FirstOpen(slots, cred) \in Open
      /\ \A j \in Open : FirstOpen(slots, cred) <= j
  BY <1>2 DEF FirstOpen
<1> QED
  BY <1>1, <1>3 DEF OpenSlots, Opens

\* Wrapping for a known secret gives a slot.
LEMMA WrapType ==
  ASSUME NEW s \in Secrets, NEW d \in Deks
  PROVE  Wrap(s, d) \in Slot /\ Wrap(s, d).secret = s /\ Wrap(s, d).dek = d
BY DEF Wrap, Slot

\* Replacing one slot: same length, same DEK everywhere, one secret lost at
\* most and only the new one gained.
LEMMA RekeyedProperties ==
  ASSUME NEW slots \in Seq(Slot), NEW d \in Deks, WrapsOnly(slots, d),
         NEW old \in Passwords, NEW new \in Passwords,
         CanRecover(slots, {old})
  PROVE  /\ Rekeyed(slots, old, new) \in Seq(Slot)
         /\ WrapsOnly(Rekeyed(slots, old, new), d)
         /\ Openers(slots) \ {old} \subseteq Openers(Rekeyed(slots, old, new))
         /\ Openers(Rekeyed(slots, old, new)) \ {new} \subseteq Openers(slots)
<1> DEFINE k == FirstOpen(slots, {old})
           w == Wrap(new, d)
           r == Rekeyed(slots, old, new)
<1>1. k \in 1 .. Len(slots) /\ slots[k].secret = old
  BY FirstOpenIsOpen
<1>2. RecoveredDek(slots, {old}) = d
  BY <1>1 DEF RecoveredDek, WrapsOnly
<1>3. r = [slots EXCEPT ![k] = w]
  BY <1>2 DEF Rekeyed
<1>4. w \in Slot /\ w.secret = new /\ w.dek = d
  BY WrapType DEF Secrets
<1> HIDE DEF k, w, r
<1>5. /\ r \in Seq(Slot)
      /\ Len(r) = Len(slots)
      /\ \A j \in 1 .. Len(slots) : r[j] = IF j = k THEN w ELSE slots[j]
  BY <1>1, <1>3, <1>4, ExceptSeq
<1>6. WrapsOnly(r, d)
  BY <1>4, <1>5 DEF WrapsOnly
<1>7. Openers(slots) \ {old} \subseteq Openers(r)
  BY <1>1, <1>5 DEF Openers
<1>8. Openers(r) \ {new} \subseteq Openers(slots)
  BY <1>4, <1>5 DEF Openers
<1> QED
  BY <1>5, <1>6, <1>7, <1>8 DEF r

\* Adding a slot loses nobody and gains the new secret only.
LEMMA AddedProperties ==
  ASSUME NEW slots \in Seq(Slot), NEW d \in Deks, WrapsOnly(slots, d),
         NEW cred, NEW new \in Secrets, CanRecover(slots, cred)
  PROVE  /\ Added(slots, cred, new) \in Seq(Slot)
         /\ WrapsOnly(Added(slots, cred, new), d)
         /\ Openers(slots) \subseteq Openers(Added(slots, cred, new))
         /\ Openers(Added(slots, cred, new)) \ {new} \subseteq Openers(slots)
<1> DEFINE w == Wrap(new, d)
           r == Added(slots, cred, new)
<1>1. RecoveredDek(slots, cred) = d
  BY FirstOpenIsOpen DEF RecoveredDek, WrapsOnly
<1>2. r = Append(slots, w)
  BY <1>1 DEF Added
<1>3. w \in Slot /\ w.secret = new /\ w.dek = d
  BY WrapType
<1> HIDE DEF w, r
<1>4. /\ r \in Seq(Slot)
      /\ Len(r) = Len(slots) + 1
      /\ \A j \in 1 .. Len(slots) : r[j] = slots[j]
      /\ r[Len(slots) + 1] = w
      /\ Len(slots) \in Nat
  BY <1>2, <1>3, AppendProperties, LenProperties
<1>5. \A j \in 1 .. Len(r) : j \in 1 .. Len(slots) \/ j = Len(slots) + 1
  BY <1>4
<1>6. WrapsOnly(r, d)
  BY <1>3, <1>4, <1>5 DEF WrapsOnly
<1>7. Openers(slots) \subseteq Openers(r)
  BY <1>4 DEF Openers
<1>8. Openers(r) \ {new} \subseteq Openers(slots)
  BY <1>3, <1>4, <1>5 DEF Openers
<1> QED
  BY <1>4, <1>6, <1>7, <1>8 DEF r

\* Removing slot k loses its secret at most and gains nobody.
LEMMA RemovedProperties ==
  ASSUME NEW slots \in Seq(Slot), NEW d \in Deks, WrapsOnly(slots, d),
         NEW k \in 1 .. Len(slots)
  PROVE  /\ Removed(slots, k) \in Seq(Slot)
         /\ WrapsOnly(Removed(slots, k), d)
         /\ slots[k].secret \in Secrets
         /\ Openers(slots) \ {slots[k].secret} \subseteq Openers(Removed(slots, k))
         /\ Openers(Removed(slots, k)) \subseteq Openers(slots)
<1> DEFINE n == Len(slots)
           r == Removed(slots, k)
<1>1. n \in Nat /\ slots \in [1 .. n -> Slot] /\ n # 0
  BY LenProperties
<1>2. r = [j \in 1 .. n - 1 |-> slots[IF j < k THEN j ELSE j + 1]]
  BY DEF Removed
<1> HIDE DEF n, r
<1>3. \A j \in 1 .. n - 1 :
        /\ (IF j < k THEN j ELSE j + 1) \in 1 .. n
        /\ r[j] = slots[IF j < k THEN j ELSE j + 1]
  BY <1>1, <1>2
<1>4. r \in [1 .. n - 1 -> Slot]
  BY <1>1, <1>2, <1>3
<1>5. r \in Seq(Slot) /\ Len(r) = n - 1
  <2>1. n - 1 \in Nat
    BY <1>1
  <2>2. r \in Seq(Slot)
    BY <1>4, <2>1, SeqDef
  <2>3. DOMAIN r = 1 .. n - 1 /\ DOMAIN r = 1 .. Len(r) /\ Len(r) \in Nat
    BY <1>4, <2>2, LenProperties
  <2> QED
    BY <2>1, <2>2, <2>3
<1>6. WrapsOnly(r, d)
  BY <1>1, <1>3, <1>5 DEF WrapsOnly, n
<1>7. slots[k].secret \in Secrets
  BY <1>1 DEF Slot, n
<1>8. Openers(r) \subseteq Openers(slots)
  BY <1>3, <1>5 DEF Openers, n
<1>9. Openers(slots) \ {slots[k].secret} \subseteq Openers(r)
  <2> SUFFICES ASSUME NEW i \in 1 .. n, i # k
               PROVE  slots[i].secret \in Openers(r)
    BY DEF Openers, n
  <2> DEFINE j == IF i < k THEN i ELSE i - 1
  <2>1. j \in 1 .. n - 1 /\ r[j] = slots[i]
    BY <1>1, <1>3 DEF n
  <2> QED
    BY <1>5, <2>1 DEF Openers
<1> QED
  BY <1>5, <1>6, <1>7, <1>8, <1>9 DEF r
-----------------------------------------------------------------------------
(* Types alone, whatever keys the slots of a section wrap: a file that two  *)
(* commands wrote may hold slots of different payloads.                     *)

\* A function on 1 .. n is a sequence of length n.
LEMMA FunctionIsSeq ==
  ASSUME NEW S, NEW n \in Nat, NEW f \in [1 .. n -> S]
  PROVE  f \in Seq(S) /\ Len(f) = n
<1>1. f \in Seq(S)
  BY SeqDef
<1>2. DOMAIN f = 1 .. n /\ DOMAIN f = 1 .. Len(f) /\ Len(f) \in Nat
  BY <1>1, LenProperties
<1> QED
  BY <1>1, <1>2

\* Recovery returns a payload key.
LEMMA RecoveredDekType ==
  ASSUME NEW slots \in Seq(Slot), NEW cred, CanRecover(slots, cred)
  PROVE  RecoveredDek(slots, cred) \in Deks
<1>1. slots[FirstOpen(slots, cred)] \in Slot
  BY FirstOpenIsOpen, ElementOfSeq
<1> QED
  BY <1>1 DEF RecoveredDek, Slot

\* Every edit of a section gives a section.
LEMMA EditTypes ==
  ASSUME NEW slots \in Seq(Slot), NEW cred, NEW new \in Secrets
  PROVE  /\ CanRecover(slots, cred) => Added(slots, cred, new) \in Seq(Slot)
         /\ \A old : CanRecover(slots, {old}) => Rekeyed(slots, old, new) \in Seq(Slot)
         /\ \A i : Removable(slots, i) => Removed(slots, i) \in Seq(Slot)
<1>1. ASSUME CanRecover(slots, cred)
      PROVE  Added(slots, cred, new) \in Seq(Slot)
  <2>1. Wrap(new, RecoveredDek(slots, cred)) \in Slot
    BY <1>1, RecoveredDekType, WrapType
  <2> QED
    BY <2>1, AppendProperties DEF Added
<1>2. ASSUME NEW old, CanRecover(slots, {old})
      PROVE  Rekeyed(slots, old, new) \in Seq(Slot)
  <2>1. Wrap(new, RecoveredDek(slots, {old})) \in Slot
    BY <1>2, RecoveredDekType, WrapType
  <2>2. FirstOpen(slots, {old}) \in 1 .. Len(slots)
    BY <1>2, FirstOpenIsOpen
  <2> QED
    BY <2>1, <2>2, ExceptSeq DEF Rekeyed
<1>3. ASSUME NEW i, Removable(slots, i)
      PROVE  Removed(slots, i) \in Seq(Slot)
  <2>1. /\ Len(slots) \in Nat /\ i \in 1 .. Len(slots)
        /\ \A j \in 1 .. Len(slots) : slots[j] \in Slot
    BY <1>3, ElementOfSeq DEF Removable
  <2>2. \A j \in 1 .. Len(slots) - 1 :
          (IF j < i THEN j ELSE j + 1) \in 1 .. Len(slots)
    BY <2>1
  <2>3. Removed(slots, i) \in [1 .. Len(slots) - 1 -> Slot]
    BY <2>1, <2>2 DEF Removed
  <2>4. Len(slots) - 1 \in Nat
    BY <2>1
  <2> QED
    BY <2>3, <2>4, FunctionIsSeq
<1> QED
  BY <1>1, <1>2, <1>3

\* The section of a new vault: one slot for each secret of the command line.
LEMMA BuiltSlotsType ==
  ASSUME NEW d \in Deks, NEW ps \in Seq(Passwords), NEW ks \in Seq(Identities)
  PROVE  /\ BuiltSlots(d, ps, ks) \in Seq(Slot)
         /\ Len(BuiltSlots(d, ps, ks)) = Len(ps) + Len(ks)
<1> DEFINE n == Len(ps) + Len(ks)
<1>1. ps \in Seq(Secrets) /\ ks \in Seq(Secrets)
  BY SeqMonotonic DEF Secrets
<1>2. /\ n \in Nat
      /\ \A i \in 1 .. n : (ps \o ks)[i] \in Secrets
  BY <1>1, ConcatProperties, ElementOfSeq, LenProperties
<1>3. BuiltSlots(d, ps, ks) \in [1 .. n -> Slot]
  BY <1>2, WrapType DEF BuiltSlots
<1> QED
  BY <1>2, <1>3, FunctionIsSeq
===============================================================================
