----------------------------- MODULE SlotUnlock -----------------------------
(***************************************************************************)
(* The slot section as it is stored, and how a command gets the DEK out of *)
(* it: the framing of slots, the KDF parameter block, and the loop that    *)
(* tries one slot after the other.  KeySlots says what this should amount  *)
(* to; here some cells of the file may be damaged on the way.              *)
(*                                                                         *)
(* A file is a sequence of numbers, one for each field; a length counts    *)
(* cells.  Random fields (salts, nonces, ephemeral keys, what a slot       *)
(* seals) are numbers that occur once.  Damage can make the program take   *)
(* any cell for any field.                                                 *)
(***************************************************************************)
EXTENDS KeySlots, SequencesExt

CONSTANTS
  Garbage,      \* what a damaged cell may hold
  MaxDamages    \* bound: cells damaged, before what a cut takes

ASSUME SlotUnlockAssumption == Garbage \subseteq Nat

VARIABLES
  made,      \* the slots that were wrapped: secret and KDF algorithm
  file,      \* the stored cells
  damaged,   \* places of the damaged cells
  run        \* the command that opens the vault

vars == <<made, file, damaged, run>>

-----------------------------------------------------------------------------
(* What is written. *)

Magic == 70
Version == 4
SizeField == 6
Huge == 256   \* beyond what a size may be, or a work factor the library takes

SLOT_PASSWORD == 1
SLOT_X25519 == 2
Kind(secret) == IF secret \in Passwords THEN SLOT_PASSWORD ELSE SLOT_X25519

\* The tags of an algorithm's parameters in their order, and the values the
\* program uses: the iterations of PBKDF2; n, r and p of scrypt.
Algorithms == {1, 2}
Layout(algo)   == IF algo = 1 THEN <<1>> ELSE <<16, 17, 18>>
Defaults(algo) ==
  IF algo = 1 THEN [tag \in {1} |-> 5]
  ELSE [tag \in {16, 17, 18} |-> IF tag = 16 THEN 8 ELSE IF tag = 17 THEN 3 ELSE 1]
KeySize  == 32
SaltSize == 1

\* The random fields of slot i; Salt stands for the ephemeral key, too.
Salt(i)   == 100 + 3 * i
Nonce(i)  == 101 + 3 * i
Sealed(i) == 102 + 3 * i

\* What slot i was sealed under: the KEK's ingredients and the nonce.
Key(secret, algo, key, extra, salt, nonce) ==
  [secret |-> secret, algo |-> algo, key |-> key, extra |-> extra, salt |-> salt, nonce |-> nonce]

SealedUnder(i) ==
  LET s == made[i].secret IN
    IF s \in Identities THEN Key(s, 0, 0, <<>>, <<Salt(i)>>, Nonce(i))
    ELSE Key(s, made[i].algo, KeySize, Defaults(made[i].algo), <<Salt(i)>>, Nonce(i))

\* The parameter block.
Block(algo) ==
  LET tags == Layout(algo) IN
    <<algo, KeySize, SaltSize, Len(tags)>>
    \o FlattenSeq([k \in DOMAIN tags |-> <<tags[k], Defaults(algo)[tags[k]]>>])

Body(i) ==
  (IF made[i].secret \in Passwords THEN Block(made[i].algo) ELSE <<>>)
  \o <<Salt(i), Nonce(i), Sealed(i)>>

Framed(i) == <<Kind(made[i].secret), Len(Body(i))>> \o Body(i)

\* The cells before slot i, and the whole file: header, count, slots, chunk
\* size, and a payload.
Before(i) == <<Magic, Version, Len(made)>> \o FlattenSeq([k \in 1 .. i - 1 |-> Framed(k)])
Written   == Before(Len(made) + 1) \o <<SizeField, 90, 91, 92>>

-----------------------------------------------------------------------------
(* Reading the section. *)

Idle == [pc |-> "idle", cred |-> {}, off |-> 0, left |-> 0, slots |-> <<>>, at |-> 1]

Ends(outcome) == [run EXCEPT !.pc = outcome]

\* _read_header and the count.
Open(cred) ==
  /\ run.pc = "idle"
  /\ run' = IF Len(file) < 3 \/ file[1] # Magic \/ file[2] # Version \/ file[3] = 0
            THEN [Idle EXCEPT !.pc = "malformed", !.cred = cred]
            ELSE [Idle EXCEPT !.pc = "section", !.cred = cred, !.off = 3, !.left = file[3]]
  /\ UNCHANGED <<made, file, damaged>>

\* One round of read_section.
ReadSlot ==
  /\ run.pc = "section" /\ run.left > 0
  /\ LET head == run.off + 2 IN
       run' = IF head > Len(file) \/ head + file[head] > Len(file) THEN Ends("malformed")
              ELSE [run EXCEPT !.off = head + file[head], !.left = @ - 1,
                     !.slots = Append(@, [type |-> file[head - 1],
                                          body |-> SubSeq(file, head + 1, head + file[head])])]
  /\ UNCHANGED <<made, file, damaged>>

\* (mutation) one slot less than the count is read.
SectionEndsEarly ==
  /\ run.pc = "section" /\ run.left = 1
  /\ run' = [run EXCEPT !.pc = "try"]
  /\ UNCHANGED <<made, file, damaged>>

SectionEnds ==
  /\ run.pc = "section" /\ run.left = 0
  /\ run' = [run EXCEPT !.pc = "try"]
  /\ UNCHANGED <<made, file, damaged>>

-----------------------------------------------------------------------------
(* The parameter block of a body. *)

Entries(body) == 1 .. body[4]

Tags(body) == {body[3 + 2 * k] : k \in Entries(body)}

\* An entry that comes again counts, not the first.
Extra(body) ==
  [t \in Tags(body) |-> body[4 + 2 * Max({k \in Entries(body) : body[3 + 2 * k] = t})]]

Offset(body) == 4 + 2 * Cardinality(Entries(body))

\* A power of two has no odd divisor but 1.
PowerOfTwo(n) == \A d \in 2 .. n : n % d = 0 => d % 2 = 0

\* _validate_pbkdf2, _validate_scrypt.
ValidExtra(algo, extra) ==
  /\ \A t \in DOMAIN extra : extra[t] >= 1
  /\ algo = 2 => extra[16] > 1 /\ PowerOfTwo(extra[16])

\* deserialize returns and does not raise.
Parses(body) ==
  /\ Len(body) >= 4 /\ body[1] \in Algorithms /\ Offset(body) <= Len(body)
  /\ Tags(body) = ToSet(Layout(body[1]))
  /\ body[2] >= 1 /\ body[3] >= 1
  /\ ValidExtra(body[1], Extra(body))

-----------------------------------------------------------------------------
(* Trying a slot. *)

\* The body opens: it ends in something sealed under just this.
Authentic(rest, key) ==
  \E i \in DOMAIN made : rest = <<Sealed(i)>> /\ key = SealedUnder(i)

\* The cells that must be there before what is sealed.
Needed(body) == Offset(body) + body[3] + 1

\* The crypto library raises something that is not a VaultError: a key of no
\* AES size, work factors beyond its limits or memory.
Unusable(body) ==
  \/ body[2] \notin {16, 24, 32}
  \/ \E t \in Tags(body) : Extra(body)[t] = Huge

\* PasswordSlot.unlock
PasswordVerdict(body, password) ==
  CASE ~Parses(body) -> "malformed"
    [] Parses(body) /\ Len(body) < Needed(body) -> "malformed"
    [] Parses(body) /\ Len(body) >= Needed(body) /\ Unusable(body) -> "crash"
    [] OTHER ->
         LET off == Offset(body) + body[3] IN
           IF Authentic(SubSeq(body, off + 2, Len(body)),
                Key(password, body[1], body[2], Extra(body),
                    SubSeq(body, Offset(body) + 1, off), body[off + 1]))
           THEN "dek" ELSE "skip"

\* RecipientSlot.unlock; exchange raises ValueError on a key of low order.
RecipientVerdict(body, identity) ==
  CASE Len(body) < 2 -> "malformed"
    [] Len(body) >= 2 /\ body[1] = 0 -> "crash"
    [] OTHER ->
         IF Authentic(SubSeq(body, 3, Len(body)), Key(identity, 0, 0, <<>>, <<body[1]>>, body[2]))
         THEN "dek" ELSE "skip"

\* (mutation) a password slot is parsed before it is seen that there is no
\* password to try.
VerdictEager(slot, cred) ==
  CASE slot.type = SLOT_PASSWORD ->
         IF ~Parses(slot.body) THEN "malformed"
         ELSE IF cred \cap Passwords = {} THEN "skip"
         ELSE PasswordVerdict(slot.body, CHOOSE p \in cred \cap Passwords : TRUE)
    [] slot.type = SLOT_X25519 ->
         IF cred \cap Identities = {} THEN "skip"
         ELSE RecipientVerdict(slot.body, CHOOSE k \in cred \cap Identities : TRUE)
    [] OTHER -> "malformed"

\* unlock_slot
Verdict(slot, cred) ==
  CASE slot.type = SLOT_PASSWORD ->
         IF cred \cap Passwords = {} THEN "skip"
         ELSE PasswordVerdict(slot.body, CHOOSE p \in cred \cap Passwords : TRUE)
    [] slot.type = SLOT_X25519 ->
         IF cred \cap Identities = {} THEN "skip"
         ELSE RecipientVerdict(slot.body, CHOOSE k \in cred \cap Identities : TRUE)
    [] OTHER -> "malformed"

\* One round of _recover.
TrySlot ==
  /\ run.pc = "try" /\ run.at <= Len(run.slots)
  /\ LET v == Verdict(run.slots[run.at], run.cred) IN
       run' = CASE v = "skip" -> [run EXCEPT !.at = @ + 1]
                [] v = "dek" -> [run EXCEPT !.pc = "size"]
                [] OTHER -> Ends(v)
  /\ UNCHANGED <<made, file, damaged>>

NoneFits ==
  /\ run.pc = "try" /\ run.at > Len(run.slots)
  /\ run' = Ends("denied")
  /\ UNCHANGED <<made, file, damaged>>

\* _read_chunk_size
ReadSize ==
  /\ run.pc = "size"
  /\ run' = IF run.off < Len(file) /\ file[run.off + 1] \in 1 .. Huge - 1
            THEN Ends("opened") ELSE Ends("malformed")
  /\ UNCHANGED <<made, file, damaged>>

\* (mutation) info checks the key in an X25519 slot.
DescribesBody(slot) ==
  \/ slot.type = SLOT_PASSWORD /\ Parses(slot.body)
  \/ slot.type = SLOT_X25519 /\ slot.body[1] # 0

\* _describe_slot returns and does not raise.
Describes(slot) ==
  \/ slot.type = SLOT_PASSWORD /\ Parses(slot.body)
  \/ slot.type = SLOT_X25519

\* What it returns, and what it should return of a slot that was wrapped.
Shown(slot) ==
  IF slot.type = SLOT_PASSWORD
  THEN [type |-> slot.type, algo |-> slot.body[1], extra |-> Extra(slot.body)]
  ELSE [type |-> slot.type, algo |-> 0, extra |-> <<>>]

Wanted(wrapped) ==
  IF wrapped.secret \in Passwords
  THEN [type |-> SLOT_PASSWORD, algo |-> wrapped.algo, extra |-> Defaults(wrapped.algo)]
  ELSE [type |-> SLOT_X25519, algo |-> 0, extra |-> <<>>]

-----------------------------------------------------------------------------
(* Damage to the stored file (external). *)

DamageCell(k, v) ==
  /\ run.pc = "idle" /\ Cardinality(damaged) < MaxDamages
  /\ k \in DOMAIN file \ damaged /\ file[k] # v
  /\ file' = [file EXCEPT ![k] = v]
  /\ damaged' = damaged \cup {k}
  /\ UNCHANGED <<made, run>>

\* The file is cut off before place k.
Cut(k) ==
  /\ run.pc = "idle" /\ Cardinality(damaged) < MaxDamages
  /\ k \in DOMAIN file
  /\ file' = SubSeq(file, 1, k - 1)
  /\ damaged' = damaged \cup (k .. Len(file))
  /\ UNCHANGED <<made, run>>

Init ==
  /\ \E n \in 1 .. MaxSlots : made \in [1 .. n -> [secret : Secrets, algo : Algorithms]]
  /\ \A i \in DOMAIN made : made[i].secret \in Identities => made[i].algo = 1
  /\ file = Written
  /\ damaged = {}
  /\ run = Idle

Next ==
  \/ \E k \in DOMAIN file : Cut(k) \/ \E v \in Garbage : DamageCell(k, v)
  \/ \E cred \in Credentials \ {{}} : Open(cred)
  \/ ReadSlot \/ SectionEnds \/ TrySlot \/ NoneFits \/ ReadSize

Spec == Init /\ [][Next]_vars

-----------------------------------------------------------------------------
Outcomes == {"opened", "denied", "malformed", "crash"}

\* The loops stay within the section, and a section of n slots was read to the end
\* before the first is tried.
TypeOK ==
  /\ run.pc \in {"idle", "section", "try", "size"} \cup Outcomes
  /\ run.at \in 1 .. Len(run.slots) + 1 /\ run.off \in 0 .. Len(file)
  /\ run.pc \in {"try", "size", "opened", "denied"} =>
       Len(run.slots) = file[3] /\ \A i \in DOMAIN run.slots : Len(run.slots[i].body) <= Len(file)

\* The slots as KeySlots sees them, all for one DEK.
Slots == [i \in DOMAIN made |-> Wrap(made[i].secret, CHOOSE d \in Deks : TRUE)]

\* The outcome that KeySlots gives: the first slot that fits, or none.
OpensAsPromised ==
  IF CanRecover(Slots, run.cred)
  THEN run.pc = "opened" /\ run.at = FirstOpen(Slots, run.cred)
  ELSE run.pc = "denied"

\* Places from which unlocking with these secrets takes nothing: the type and body
\* of slots after the one that opens, the body of slots for the other kind of
\* secret, the payload.
Unread(cred) ==
  LET place(i)  == Len(Before(i))
      body(i)   == place(i) + 3 .. place(i) + 2 + Len(Body(i))
      after(i)  == CanRecover(Slots, cred) /\ i > FirstOpen(Slots, cred)
      other(i)  == \A s \in cred : Kind(s) # Kind(made[i].secret)
  IN (UNION {body(i) : i \in {j \in DOMAIN made : after(j) \/ other(j)}})
     \cup {place(i) + 1 : i \in {j \in DOMAIN made : after(j)}}
     \cup {k \in 1 .. Len(Written) : k > Len(Before(Len(made) + 1)) + 1}

\* A vault opens as KeySlots promises, whatever the section is made of, and still
\* does when a slot is damaged that is after the one that opens or is for
\* another kind of secret: no such slot can lock anybody out (service.py 232-240,
\* slots.py 144-165).
DamageStaysLocal == run.pc \in Outcomes /\ damaged \subseteq Unread(run.cred) => OpensAsPromised

\* No damage to the section makes a command end in an exception of another
\* library, which the command line does not catch: a body is refused with a
\* ContainerError or does not fit.  kdfparams.py 150-157 says so of crafted values,
\* slots.py 80 of malformed bodies; a key size that is no AES key's, too large a
\* work factor and an ephemeral key of low order show otherwise.
NeverCrashes == run.pc # "crash"

\* Cells of which damage may end in such an exception: key sizes and values of
\* parameters, ephemeral keys.
Fragile ==
  UNION {LET first == Len(Before(i)) + 3 IN
           IF made[i].secret \in Identities THEN {first}
           ELSE {first + 1} \cup {first + 3 + 2 * k : k \in DOMAIN Layout(made[i].algo)}
         : i \in DOMAIN made}

\* The condition under which NeverCrashes does hold: none of these is damaged.
\* Several other fields changed together can make up a parameter of their own, so
\* this is said of one field damaged.
CrashesOnlyFromValues == run.pc = "crash" => damaged \cap Fragile # {}

\* Places of which `info` shows nothing: what comes after the parameters in a password
\* slot, the body of a recipient's slot, what comes after the section.
Unshown ==
  (UNION {LET body == Len(Before(i)) + 2 IN
            IF made[i].secret \in Identities THEN body + 1 .. body + Len(Body(i))
            ELSE body + Len(Block(made[i].algo)) + 1 .. body + Len(Body(i))
          : i \in DOMAIN made})
  \cup {k \in 1 .. Len(Written) : k > Len(Before(Len(made) + 1))}

\* `info` asks for no secret and needs none of what only a secret is good for: while
\* the frames of the slots and the parameters are what was written, it reports every
\* slot that was wrapped, in its place, with its kind, its KDF and the parameters
\* (service.py 203-211, 265-270), whatever became of salts, nonces, keys, wrapped
\* DEKs and the payload.
InfoShowsWhatWasMade ==
  run.pc \in Outcomes /\ damaged \subseteq Unshown
    /\ Len(file) >= Len(Before(Len(made) + 1)) =>
    /\ Len(run.slots) = Len(made)
    /\ \A i \in DOMAIN made :
         Describes(run.slots[i]) /\ Shown(run.slots[i]) = Wanted(made[i])
=============================================================================
