------------------------------ MODULE VaultFile ------------------------------
(***************************************************************************)
(* The vault as VaultService keeps it on disk: a file under its path, a    *)
(* temporary file next to it, and the processes that read and write them   *)
(* one piece at a time.                                                    *)
(*                                                                         *)
(* A file is a sequence of cells: the header with the slot count, one cell *)
(* per slot, the chunk size, one cell per chunk of ciphertext.  Cells are  *)
(* no larger than the blocks the code's buffered files write, so a crash   *)
(* or an interleaving between two blocks is a behaviour of this module.    *)
(*                                                                         *)
(* Writers run the commands that write a vault (encrypt, rekey,            *)
(* add-password, add-recipient, remove-slot), one after the other and      *)
(* without any lock, as the code does; readers run decrypt.  Any of them   *)
(* may fail (disk full, Ctrl-C, bad input) or be killed between two steps. *)
(***************************************************************************)
EXTENDS KeySlots, SequencesExt

CONSTANTS
  Writers, Readers,   \* processes
  Inodes,             \* file bodies (external: the file system), as numbers
  Chunks,             \* ciphertext chunks of a payload
  None                \* no inode, no cell, no key

ASSUME VaultFileAssumption ==
  /\ Chunks \in Nat \ {0}
  /\ Inodes \subseteq Nat
  /\ None \notin Inodes \cup Deks \cup Secrets

VARIABLES
  dir,    \* the two directory entries: "vault" and "tmp" (vault + ".tmp")
  data,   \* the contents of each inode
  wr,     \* what each writer is doing
  rd      \* what each reader is doing

vars == <<dir, data, wr, rd>>

-----------------------------------------------------------------------------
(* Cells and file layout. *)

\* Magic and version with the slot count; count 0 when the section is missing.
Header(n)   == [kind |-> "header", n |-> n]
SlotCell(s) == [kind |-> "slot", slot |-> s]
SizeCell    == [kind |-> "size"]
Hole        == [kind |-> "hole"]
Chunk(d, i, final) ==
  [kind |-> "chunk", dek |-> d, i |-> i, final |-> final]

Cell ==
  {SizeCell, Hole}
  \cup [kind : {"header"}, n : 0 .. MaxSlots]
  \cup [kind : {"slot"}, slot : Slot]
  \cup [kind : {"chunk"}, dek : Deks, i : 0 .. Chunks - 1, final : BOOLEAN]

ASSUME NoneIsNoCell == None \notin Cell

\* (mutation) the slot count is packed without checking that it fits.
PrefixUnchecked(slots) ==
  <<Header(Len(slots))>>
  \o [i \in 1 .. Len(slots) |-> SlotCell(slots[i])] \o <<SizeCell>>

\* Header, slot section and chunk size.  Serializing a section that does not
\* fit raises when only the header has been written.
Prefix(slots) ==
  IF SectionFits(slots)
  THEN <<Header(Len(slots))>>
       \o [i \in 1 .. Len(slots) |-> SlotCell(slots[i])] \o <<SizeCell>>
  ELSE <<Header(0)>>

Payload(d) == [i \in 1 .. Chunks |-> Chunk(d, i - 1, i = Chunks)]

\* read_section and the chunk size: every cell of the prefix is there.
Readable(s) ==
  /\ s # <<>> /\ s[1].kind = "header" /\ s[1].n > 0
  /\ Len(s) >= s[1].n + 2
  /\ \A i \in 2 .. s[1].n + 1 : s[i].kind = "slot"
  /\ s[s[1].n + 2] = SizeCell

SlotsOf(s)      == [i \in 1 .. s[1].n |-> s[i + 1].slot]
PayloadStart(s) == s[1].n + 3

\* A complete vault: a prefix, then the whole payload of one encryption, under
\* the key that every slot wraps.
Whole(s) ==
  /\ Readable(s)
  /\ \E d \in Deks :
       /\ WrapsOnly(SlotsOf(s), d)
       /\ SubSeq(s, PayloadStart(s), Len(s)) = Payload(d)

DekOf(s) == SlotsOf(s)[1].dek

\* write() at an offset: bytes skipped over read as zeros.
WriteAt(s, off, cell) ==
  IF off <= Len(s) THEN [s EXCEPT ![off] = cell]
  ELSE s \o [i \in 1 .. off - Len(s) - 1 |-> Hole] \o <<cell>>

-----------------------------------------------------------------------------
(* Processes and inodes. *)

IdleWriter ==
  [pc |-> "idle", fh |-> None, pos |-> 0, slots |-> <<>>, adds |-> None,
   out |-> None, off |-> 1, todo |-> <<>>, buf |-> None]

IdleReader ==
  [pc |-> "idle", fh |-> None, pos |-> 0, dek |-> None, held |-> None,
   got |-> <<>>]

\* Inodes with a name or an open file descriptor; the rest are free.
LiveInodes(d, w, r) ==
  {d.vault, d.tmp} \cup (UNION {{w[p].fh, w[p].out} : p \in Writers})
  \cup {r[q].fh : q \in Readers}

FreeInodes == Inodes \ LiveInodes(dir, wr, rd)

\* Files nobody can reach any more are reclaimed.
Reclaimed(files, d, w, r) ==
  [i \in Inodes |-> IF i \in LiveInodes(d, w, r) THEN files[i] ELSE <<>>]

\* A step that leaves process p with state new, and the files as given.
WriterStep(p, new, files, entries) ==
  /\ wr' = [wr EXCEPT ![p] = new]
  /\ dir' = entries
  /\ data' = Reclaimed(files, entries, wr', rd)
  /\ UNCHANGED rd

ReaderStep(r, new) ==
  /\ rd' = [rd EXCEPT ![r] = new]
  /\ data' = Reclaimed(data, dir, wr, rd')
  /\ UNCHANGED <<dir, wr>>

KeysIn(cells) ==
  {cells[k].slot.dek : k \in {j \in DOMAIN cells : cells[j].kind = "slot"}}
  \cup {cells[k].dek : k \in {j \in DOMAIN cells : cells[j].kind = "chunk"}}

\* Keys in use: os.urandom never returns one of them.
UsedDeks ==
  (UNION {KeysIn(data[i]) : i \in Inodes})
  \cup (UNION {KeysIn(wr[p].todo) : p \in Writers})
  \cup (UNION {{wr[p].slots[k].dek : k \in DOMAIN wr[p].slots} : p \in Writers})
  \cup {rd[r].dek : r \in Readers}

-----------------------------------------------------------------------------
(* Rewriting the slot section: rekey, add-password, add-recipient and       *)
(* remove-slot all open the vault, read its section, build the new one and  *)
(* call _rewrite.                                                           *)

OpenForEdit(p) ==
  /\ wr[p].pc = "idle"
  /\ dir.vault # None
  /\ WriterStep(p, [IdleWriter EXCEPT !.pc = "opened", !.fh = dir.vault], data, dir)

\* The section now in the opened file.
OldSlots(p) == SlotsOf(data[wr[p].fh])

\* The new section is built, the payload not copied yet.  adds is the secret
\* this command gives access to.
Build(p, slots, adds) ==
  WriterStep(p, [wr[p] EXCEPT !.pc = "create", !.slots = slots, !.adds = adds,
                              !.pos = PayloadStart(data[wr[p].fh])], data, dir)

MayEdit(p) == wr[p].pc = "opened" /\ Readable(data[wr[p].fh])

Rekey(p, old, new) ==
  /\ MayEdit(p)
  /\ CanRecover(OldSlots(p), {old})
  /\ Build(p, Rekeyed(OldSlots(p), old, new), new)

AddPassword(p, cred, new) ==
  /\ MayEdit(p)
  /\ CanRecover(OldSlots(p), cred)
  /\ Build(p, Added(OldSlots(p), cred, new), new)

AddRecipient(p, cred, new) ==
  /\ MayEdit(p)
  /\ CanRecover(OldSlots(p), cred)
  /\ Build(p, Added(OldSlots(p), cred, new), new)

RemoveSlot(p, i) ==
  /\ MayEdit(p)
  /\ Removable(OldSlots(p), i)
  /\ Build(p, Removed(OldSlots(p), i), None)

\* An unreadable file, a secret that opens no slot or an index out of range:
\* the command ends before it writes anything.
Reject(p) ==
  /\ wr[p].pc = "opened"
  /\ WriterStep(p, IdleWriter, data, dir)

\* _create_private: O_CREAT | O_TRUNC, so an existing file is reused, whoever
\* left it there, and the directory entry names this inode from now on.
MayCreate(entry)    == dir[entry] # None \/ FreeInodes # {}
CreatedInode(entry) == IF dir[entry] # None THEN dir[entry] ELSE Min(FreeInodes)

\* (mutation) the file is opened without O_TRUNC.
UntruncatedFiles(inode) == data

Truncated(inode) == [data EXCEPT ![inode] = <<>>]

\* (mutation) the section is rewritten in the vault itself.
CreateInPlace(p) ==
  /\ wr[p].pc = "create"
  /\ MayCreate("vault")
  /\ LET i == CreatedInode("vault") IN
       WriterStep(p,
         [wr[p] EXCEPT !.pc = "write", !.out = i, !.todo = Prefix(wr[p].slots)],
         Truncated(i), [dir EXCEPT !.vault = i])

CreateTmp(p) ==
  /\ wr[p].pc = "create"
  /\ MayCreate("tmp")
  /\ LET i == CreatedInode("tmp") IN
       WriterStep(p,
         [wr[p] EXCEPT !.pc = "write", !.out = i, !.todo = Prefix(wr[p].slots)],
         Truncated(i), [dir EXCEPT !.tmp = i])

\* After its last cell an encryption is over, and a rewrite goes on to the
\* payload unless its section did not fit.
Written(w) ==
  IF Len(w.todo) > 1 THEN [w EXCEPT !.off = @ + 1, !.todo = Tail(@)]
  ELSE IF w.pc = "encrypt" THEN IdleWriter
  ELSE IF SectionFits(w.slots)
       THEN [w EXCEPT !.off = @ + 1, !.todo = <<>>, !.pc = "copy"]
       ELSE [w EXCEPT !.todo = <<>>, !.out = None, !.pc = "cleanup"]

\* One cell of a prefix, or of an encrypted payload, goes out at this process's
\* own offset.
WriteCell(p) ==
  /\ wr[p].pc \in {"write", "encrypt"}
  /\ WriterStep(p, Written(wr[p]),
       [data EXCEPT ![wr[p].out] = WriteAt(@, wr[p].off, Head(wr[p].todo))], dir)

\* copyfileobj: read a block of the old payload...
CopyRead(p) ==
  /\ wr[p].pc = "copy" /\ wr[p].buf = None
  /\ LET from == data[wr[p].fh] IN
       IF wr[p].pos <= Len(from)
       THEN WriterStep(p, [wr[p] EXCEPT !.buf = from[wr[p].pos], !.pos = @ + 1], data, dir)
       ELSE WriterStep(p, [wr[p] EXCEPT !.pc = "replace", !.out = None], data, dir)

\* ...and write it after the new prefix.
CopyWrite(p) ==
  /\ wr[p].pc = "copy" /\ wr[p].buf # None
  /\ WriterStep(p, [wr[p] EXCEPT !.off = @ + 1, !.buf = None],
       [data EXCEPT ![wr[p].out] = WriteAt(@, wr[p].off, wr[p].buf)], dir)

\* os.replace: the temporary file takes the vault's name, or the call fails
\* because somebody else has taken the temporary file away.
Replace(p) ==
  /\ wr[p].pc = "replace"
  /\ IF dir.tmp # None
     THEN WriterStep(p, IdleWriter, data, [vault |-> dir.tmp, tmp |-> None])
     ELSE WriterStep(p, [wr[p] EXCEPT !.pc = "cleanup"], data, dir)

\* Any exception inside _rewrite, before or after the file is created...
Fail(p) ==
  /\ wr[p].pc \in {"create", "write", "copy", "replace"}
  /\ WriterStep(p, [wr[p] EXCEPT !.pc = "cleanup", !.out = None], data, dir)

\* ...removes whatever now has the temporary name.
Cleanup(p) ==
  /\ wr[p].pc = "cleanup"
  /\ WriterStep(p, IdleWriter, data, [dir EXCEPT !.tmp = None])

-----------------------------------------------------------------------------
(* Encrypting: in place, no temporary file. *)

\* The destination is emptied and reused if it is there.  What is written then
\* is the whole vault, or only a header when the section does not fit.
Encrypt(p, d, passwords, recipients) ==
  LET slots == BuiltSlots(d, passwords, recipients) IN
  /\ wr[p].pc = "idle"
  /\ d \notin UsedDeks
  /\ slots # <<>>
  /\ MayCreate("vault")
  /\ LET i == CreatedInode("vault") IN
       WriterStep(p,
         [IdleWriter EXCEPT !.pc = "encrypt", !.out = i,
            !.todo = Prefix(slots) \o (IF SectionFits(slots) THEN Payload(d) ELSE <<>>)],
         Truncated(i), [dir EXCEPT !.vault = i])

\* The archive cannot be read, the disk is full, Ctrl-C: encrypt_path has no
\* handler, so what was written stays.
EncryptFails(p) ==
  /\ wr[p].pc = "encrypt"
  /\ WriterStep(p, IdleWriter, data, dir)

\* The process is killed: its descriptors close, its files stay.
Crash(p) ==
  /\ wr[p].pc # "idle"
  /\ WriterStep(p, IdleWriter, data, dir)

-----------------------------------------------------------------------------
(* Decrypting. *)

OpenForDecrypt(r) ==
  /\ rd[r].pc = "idle"
  /\ dir.vault # None
  /\ ReaderStep(r, [IdleReader EXCEPT !.pc = "opened", !.fh = dir.vault])

\* Header, section and chunk size are read and the DEK recovered; "denied"
\* when the credential opens no slot.
Unlock(r, cred) ==
  /\ rd[r].pc = "opened"
  /\ LET s == data[rd[r].fh] IN
       ReaderStep(r,
         CASE ~Readable(s) -> [rd[r] EXCEPT !.pc = "failed"]
           [] Readable(s) /\ ~CanRecover(SlotsOf(s), cred) -> [rd[r] EXCEPT !.pc = "denied"]
           [] OTHER -> [rd[r] EXCEPT !.pc = "reading", !.pos = PayloadStart(s),
                                     !.dek = RecoveredDek(SlotsOf(s), cred)])

\* (mutation) a chunk of any encryption is accepted.
AuthenticAnyKey(reader, final) ==
  \E d \in Deks : reader.held = Chunk(d, Len(reader.got), final)

\* The held chunk authenticates under the key, at its place, with its flag.
Authentic(reader, final) ==
  reader.held = Chunk(reader.dek, Len(reader.got), final)

\* decrypt_stream holds one chunk back: it is opened as a non-final one when
\* another follows it...
ReadAhead(r) ==
  /\ rd[r].pc = "reading"
  /\ LET s == data[rd[r].fh] IN
       /\ rd[r].pos <= Len(s)
       /\ ReaderStep(r,
            IF rd[r].held = None
            THEN [rd[r] EXCEPT !.held = s[rd[r].pos], !.pos = @ + 1]
            ELSE IF Authentic(rd[r], FALSE)
            THEN [rd[r] EXCEPT !.held = s[rd[r].pos], !.pos = @ + 1,
                              !.got = Append(@, rd[r].held)]
            ELSE [rd[r] EXCEPT !.pc = "failed"])

\* ...and as the final one at the end of the file, which must not come before
\* any chunk.
ReadEnd(r) ==
  /\ rd[r].pc = "reading"
  /\ rd[r].pos > Len(data[rd[r].fh])
  /\ ReaderStep(r,
       IF Authentic(rd[r], TRUE)
       THEN [rd[r] EXCEPT !.pc = "done", !.got = Append(@, rd[r].held)]
       ELSE [rd[r] EXCEPT !.pc = "failed"])

\* The command returns or is killed.
CloseReader(r) ==
  /\ rd[r].pc # "idle"
  /\ ReaderStep(r, IdleReader)

-----------------------------------------------------------------------------
\* What one command line can name: up to MaxSlots + 1 secrets.
SecretLists ==
  {lists \in BoundedSeq(Passwords, MaxSlots + 1) \X BoundedSeq(Identities, MaxSlots + 1) :
     Len(lists[1]) + Len(lists[2]) <= MaxSlots + 1}

Edit(p) ==
  \/ OpenForEdit(p)
  \/ \E old, new \in Passwords : Rekey(p, old, new)
  \/ \E cred \in Credentials, new \in Passwords : AddPassword(p, cred, new)
  \/ \E cred \in Credentials, new \in Identities : AddRecipient(p, cred, new)
  \/ \E i \in 1 .. MaxSlots : RemoveSlot(p, i)
  \/ Reject(p)
  \/ CreateTmp(p)
  \/ WriteCell(p)
  \/ CopyRead(p)
  \/ CopyWrite(p)
  \/ Replace(p)
  \/ Fail(p)
  \/ Cleanup(p)
  \/ Crash(p)

EncryptNext(p) ==
  \/ \E d \in Deks, lists \in SecretLists : Encrypt(p, d, lists[1], lists[2])
  \/ EncryptFails(p)

Decrypt(r) ==
  \/ OpenForDecrypt(r)
  \/ \E cred \in Credentials : Unlock(r, cred)
  \/ ReadAhead(r)
  \/ ReadEnd(r)
  \/ CloseReader(r)

Idle ==
  /\ wr = [p \in Writers |-> IdleWriter]
  /\ rd = [r \in Readers |-> IdleReader]

\* Nothing there yet; every command may run.
Init ==
  /\ dir = [vault |-> None, tmp |-> None]
  /\ data = [i \in Inodes |-> <<>>]
  /\ Idle

Next ==
  \/ \E p \in Writers : Edit(p) \/ EncryptNext(p)
  \/ \E r \in Readers : Decrypt(r)

Spec == Init /\ [][Next]_vars

\* A finished vault with any slots; only commands that edit or read it run.
InitWhole ==
  /\ \E d \in Deks, n \in 1 .. MaxSlots : \E secrets \in [1 .. n -> Secrets] :
       /\ dir = [vault |-> Min(Inodes), tmp |-> None]
       /\ data = [i \in Inodes |->
                    IF i = dir.vault THEN Prefix([k \in 1 .. n |-> Wrap(secrets[k], d)]) \o Payload(d)
                    ELSE <<>>]
  /\ Idle

NextEdits ==
  \/ \E p \in Writers : Edit(p)
  \/ \E r \in Readers : Decrypt(r)

SpecEdits == InitWhole /\ [][NextEdits]_vars

-----------------------------------------------------------------------------
Entries == [vault : Inodes \cup {None}, tmp : Inodes \cup {None}]

\* States of writers and readers that hold the given cells.
WriterStates(cells) ==
  [pc : {"idle", "opened", "create", "write", "copy", "replace", "cleanup", "encrypt"},
   fh : Inodes \cup {None}, pos : Nat, slots : Seq(Slot), adds : Secrets \cup {None},
   out : Inodes \cup {None}, off : Nat \ {0}, todo : Seq(cells), buf : cells \cup {None}]

ReaderStates(cells) ==
  [pc : {"idle", "opened", "reading", "done", "denied", "failed"},
   fh : Inodes \cup {None}, pos : Nat, dek : Deks \cup {None},
   held : cells \cup {None}, got : Seq(cells)]

\* Each place in a command has the descriptors and the data it needs.
WriterAtWork(w) ==
  /\ w.pc \in {"opened", "create", "write", "copy", "replace"} => w.fh # None
  /\ w.pc \in {"write", "encrypt"} => w.out # None /\ w.todo # <<>>
  /\ w.pc = "copy" => w.out # None
  /\ w.pc \in {"create", "write", "copy"} => w.pos > 0

ReaderAtWork(r) ==
  /\ r.pc \in {"opened", "reading"} => r.fh # None
  /\ r.pc = "reading" => r.pos > 0

\* The shape of the state: entries name inodes, files hold cells, and every
\* process is at a known place with what that place needs.
TypeOK ==
  /\ dir \in Entries
  /\ data \in [Inodes -> Seq(Cell)]
  /\ wr \in [Writers -> WriterStates(Cell)]
  /\ rd \in [Readers -> ReaderStates(Cell)]
  /\ \A p \in Writers : WriterAtWork(wr[p])
  /\ \A r \in Readers : ReaderAtWork(rd[r])

\* The vault as VaultSpec sees it.
VaultBar ==
  IF \E p \in Writers : wr[p].pc = "encrypt" THEN [state |-> "encrypting"]
  ELSE IF dir.vault = None THEN [state |-> "none"]
  ELSE LET s == data[dir.vault] IN
       IF Whole(s) THEN [state |-> "ready", dek |-> DekOf(s), slots |-> SlotsOf(s)]
       ELSE [state |-> "partial"]

Abstract == INSTANCE VaultSpec WITH vault <- VaultBar

\* With one writer at a time, crashes and failures included, the files implement the
\* atomic vault of VaultSpec (service.py:248 "Writes atomically").
ImplementsVaultSpec == Abstract!Spec

\* While only edits run, the path always names a complete vault that every
\* slot opens: no crash or failure exposes a half-written one (service.py:248).
VaultStaysWhole == dir.vault # None /\ Whole(data[dir.vault])

\* With one writer at a time, no step of an edit changes what a file holds that a
\* decryption has open: it goes on with the vault it opened, however many edits
\* are published meanwhile (service.py 249-259).
EditsSpareReaders ==
  [][\A p \in Writers, r \in Readers :
       /\ wr'[p] # wr[p] /\ wr[p].pc # "encrypt" /\ wr'[p].pc # "encrypt"
       /\ rd[r].fh # None
       => data'[rd[r].fh] = data[rd[r].fh]]_vars

\* A decryption that succeeds has released one encryption's whole payload: what an
\* interrupted or overlapping write leaves behind is never taken for a shorter
\* vault, and chunks of two encryptions never mix (service.py 116-118).
DecryptWhole ==
  \A r \in Readers : rd[r].pc = "done" => rd[r].got = Payload(rd[r].dek)

\* What a command publishes opens for nobody who could not open the vault
\* before, but for the secret the command adds (service.py 146-152).  So it is
\* when commands take turns; VaultRevoke has what happens when they overlap.
CommitAddsOnlyItsOwn ==
  [][\A p \in Writers :
       /\ Replace(p) /\ dir' # dir
       /\ Whole(data[dir.vault]) /\ Whole(data'[dir'.vault])
       => Openers(SlotsOf(data'[dir'.vault]))
            \subseteq Openers(SlotsOf(data[dir.vault])) \cup {wr[p].adds}]_vars
=============================================================================
