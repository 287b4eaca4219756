--------------------------- MODULE VaultFileProofs ---------------------------
(***************************************************************************)
(* Proofs about VaultFile for any number of writers and readers, any       *)
(* secrets, keys, slot limit and number of chunks.                         *)
(*                                                                         *)
(* First part, any number of writers: every chunk that is ever written     *)
(* carries the final flag of its place, and every file, buffer and reader  *)
(* only holds cells that were written (StoredCell).  So a reader that      *)
(* accepts chunks in order, the last one as final, has collected a whole   *)
(* payload, no matter which commands wrote into the file meanwhile or were *)
(* cut short.                                                              *)
(*                                                                         *)
(* Second part, writers that take turns (OneAtATime): what is under the    *)
(* path is always the beginning of one encryption's vault, and the         *)
(* temporary file the beginning of the same vault with an edited section   *)
(* (VaultInv).  From this the files implement VaultSpec, readers are never *)
(* disturbed, and what is published opens for nobody new but the one its   *)
(* command is for.                                                         *)
(***************************************************************************)
EXTENDS VaultFile, KeySlotsProofs

\* The cells commands write: a chunk is flagged final exactly at the end of
\* its payload.
StoredCell ==
  {SizeCell, Hole}
  \cup [kind : {"header"}, n : 0 .. MaxSlots]
  \cup [kind : {"slot"}, slot : Slot]
  \cup {Chunk(d, i - 1, i = Chunks) : d \in Deks, i \in 1 .. Chunks}

\* What a reader has released so far.
ReleasesPayload(r) ==
  /\ r.pc = "opened" => r.got = <<>>
  /\ r.pc = "reading" =>
       /\ r.dek \in Deks
       /\ Len(r.got) < Chunks
       /\ \A k \in 1 .. Len(r.got) : r.got[k] = Chunk(r.dek, k - 1, k = Chunks)
  /\ r.pc = "done" => r.got = Payload(r.dek)

GoodFiles == [Inodes -> Seq(StoredCell)]

GoodWriter(w) == w \in WriterStates(StoredCell) /\ WriterAtWork(w)

GoodReader(r) ==
  r \in ReaderStates(StoredCell) /\ ReaderAtWork(r) /\ ReleasesPayload(r)

IInv ==
  /\ dir \in Entries
  /\ data \in GoodFiles
  /\ wr \in [Writers -> WriterStates(StoredCell)]
  /\ rd \in [Readers -> ReaderStates(StoredCell)]
  /\ \A p \in Writers : WriterAtWork(wr[p])
  /\ \A r \in Readers : ReaderAtWork(rd[r]) /\ ReleasesPayload(rd[r])

-----------------------------------------------------------------------------
(* Cells and the files made of them. *)

\* Stored cells are cells, so what holds for files of the one holds for files
\* of the other.
LEMMA StoredIsCell == StoredCell \subseteq Cell
<1>1. ASSUME NEW d \in Deks, NEW i \in 1 .. Chunks
      PROVE  Chunk(d, i - 1, i = Chunks) \in Cell
  <2>1. i - 1 \in 0 .. Chunks - 1 /\ (i = Chunks) \in BOOLEAN
    BY VaultFileAssumption
  <2> QED
    BY <2>1 DEF Chunk, Cell
<1> QED
  BY <1>1 DEF StoredCell, Cell

\* What the kinds of a stored cell are.
LEMMA StoredKinds ==
  ASSUME NEW c \in StoredCell
  PROVE  /\ c.kind = "header" => c.n \in 0 .. MaxSlots
         /\ c.kind = "slot" => c.slot \in Slot
         /\ c.kind = "chunk" =>
              \E d \in Deks, i \in 1 .. Chunks : c = Chunk(d, i - 1, i = Chunks)
BY DEF StoredCell, SizeCell, Hole, Chunk

\* A stored chunk is final exactly when it is the last of its payload.
LEMMA StoredChunk ==
  ASSUME NEW d, NEW n \in Nat, NEW final \in BOOLEAN,
         Chunk(d, n, final) \in StoredCell
  PROVE  n < Chunks /\ final = (n + 1 = Chunks)
<1>1. Chunk(d, n, final).kind = "chunk"
  BY DEF Chunk
<1>2. PICK e \in Deks, i \in 1 .. Chunks :
        Chunk(d, n, final) = Chunk(e, i - 1, i = Chunks)
  BY <1>1, StoredKinds
<1>3. n = i - 1 /\ final = (i = Chunks)
  BY <1>2 DEF Chunk
<1> QED
  BY <1>3, VaultFileAssumption

\* The front of a file, and the payload, are made of stored cells.
LEMMA PrefixType ==
  ASSUME NEW slots \in Seq(Slot)
  PROVE  Prefix(slots) \in Seq(StoredCell) /\ Prefix(slots) # <<>>
<1> DEFINE cells == [i \in 1 .. Len(slots) |-> SlotCell(slots[i])]
<1>1. CASE SectionFits(slots)
  <2>1. Len(slots) \in Nat /\ \A i \in 1 .. Len(slots) : SlotCell(slots[i]) \in StoredCell
    BY ElementOfSeq, LenProperties DEF SlotCell, StoredCell
  <2>2. cells \in [1 .. Len(slots) -> StoredCell]
    BY <2>1
  <2>3. cells \in Seq(StoredCell)
    BY <2>1, <2>2, FunctionIsSeq
  <2>4. <<Header(Len(slots))>> \in Seq(StoredCell) /\ <<SizeCell>> \in Seq(StoredCell)
    BY <1>1, KeySlotsAssumption DEF SectionFits, Header, StoredCell
  <2>5. Prefix(slots) = (<<Header(Len(slots))>> \o cells) \o <<SizeCell>>
    BY <1>1 DEF Prefix
  <2> HIDE DEF cells
  <2>6. /\ <<Header(Len(slots))>> \o cells \in Seq(StoredCell)
        /\ Prefix(slots) \in Seq(StoredCell)
        /\ Len(Prefix(slots)) = Len(<<Header(Len(slots))>> \o cells) + 1
    BY <2>3, <2>4, <2>5, ConcatProperties
  <2>7. Len(Prefix(slots)) # 0
    BY <2>6, LenProperties
  <2> QED
    BY <2>6, <2>7, EmptySeq
<1>2. CASE ~SectionFits(slots)
  BY <1>2, KeySlotsAssumption DEF Prefix, Header, StoredCell
<1> QED
  BY <1>1, <1>2

LEMMA PayloadType ==
  ASSUME NEW d \in Deks
  PROVE  Payload(d) \in Seq(StoredCell)
<1>1. Payload(d) \in [1 .. Chunks -> StoredCell]
  BY DEF Payload, StoredCell
<1> QED
  BY <1>1, FunctionIsSeq, VaultFileAssumption

\* Writing one cell anywhere keeps a file a sequence of stored cells.
LEMMA WriteAtType ==
  ASSUME NEW s \in Seq(StoredCell), NEW off \in Nat \ {0}, NEW c \in StoredCell
  PROVE  WriteAt(s, off, c) \in Seq(StoredCell)
<1>0. Len(s) \in Nat
  BY LenProperties
<1>1. CASE off <= Len(s)
  <2>1. off \in 1 .. Len(s)
    BY <1>0, <1>1
  <2> QED
    BY <1>1, <2>1, ExceptSeq DEF WriteAt
<1>2. CASE ~(off <= Len(s))
  <2> DEFINE gap == [i \in 1 .. off - Len(s) - 1 |-> Hole]
  <2>1. off - Len(s) - 1 \in Nat
    BY <1>0, <1>2
  <2>2. gap \in [1 .. off - Len(s) - 1 -> StoredCell]
    BY DEF StoredCell
  <2>3. gap \in Seq(StoredCell)
    BY <2>1, <2>2, FunctionIsSeq
  <2>4. WriteAt(s, off, c) = (s \o gap) \o <<c>>
    BY <1>2 DEF WriteAt
  <2> HIDE DEF gap
  <2> QED
    BY <2>3, <2>4, ConcatProperties
<1> QED
  BY <1>1, <1>2

\* The section read from a file is a sequence of slots, and the payload does
\* not start before it.
LEMMA ReadableFacts ==
  ASSUME NEW s \in Seq(StoredCell), Readable(s)
  PROVE  SlotsOf(s) \in Seq(Slot) /\ PayloadStart(s) \in Nat \ {0}
<1>1. Len(s) \in Nat /\ s # <<>> /\ 1 \in 1 .. Len(s)
  BY EmptySeq, LenProperties DEF Readable
<1>2. s[1] \in StoredCell
  BY <1>1, ElementOfSeq
<1>3. s[1].n \in Nat
  BY <1>2, StoredKinds DEF Readable
<1>4. ASSUME NEW i \in 1 .. s[1].n
      PROVE  s[i + 1].slot \in Slot
  <2>1. i + 1 \in 2 .. s[1].n + 1 /\ i + 1 \in 1 .. Len(s)
    BY <1>1, <1>3 DEF Readable
  <2>2. s[i + 1] \in StoredCell /\ s[i + 1].kind = "slot"
    BY <2>1, ElementOfSeq DEF Readable
  <2> QED
    BY <2>2, StoredKinds
<1>5. SlotsOf(s) \in [1 .. s[1].n -> Slot]
  BY <1>4 DEF SlotsOf
<1> QED
  BY <1>3, <1>5, FunctionIsSeq DEF PayloadStart

-----------------------------------------------------------------------------
(* What every step has in common. *)

\* Reclaiming a file leaves nothing in it.
LEMMA ReclaimedType ==
  ASSUME NEW files \in GoodFiles, NEW d, NEW w, NEW r
  PROVE  Reclaimed(files, d, w, r) \in GoodFiles
<1>1. <<>> \in Seq(StoredCell)
  BY EmptySeq
<1> QED
  BY <1>1 DEF Reclaimed, GoodFiles

\* A step of a writer keeps the invariant when what it makes of itself, of the
\* files and of the directory is good.
LEMMA WriterKeeps ==
  ASSUME IInv, NEW p \in Writers, NEW new, GoodWriter(new),
         NEW files \in GoodFiles, NEW entries \in Entries,
         WriterStep(p, new, files, entries)
  PROVE  IInv'
<1>1. wr' = [wr EXCEPT ![p] = new] /\ dir' = entries /\ rd' = rd
      /\ data' = Reclaimed(files, entries, wr', rd)
  BY DEF WriterStep
<1>2. data' \in GoodFiles
  BY <1>1, ReclaimedType
<1>3. wr' \in [Writers -> WriterStates(StoredCell)]
  BY <1>1 DEF IInv, GoodWriter
<1>4. \A q \in Writers : WriterAtWork(wr'[q])
  BY <1>1 DEF IInv, GoodWriter
<1> QED
  BY <1>1, <1>2, <1>3, <1>4 DEF IInv, GoodFiles

\* The same for a step of a reader.
LEMMA ReaderKeeps ==
  ASSUME IInv, NEW r \in Readers, NEW new, GoodReader(new), ReaderStep(r, new)
  PROVE  IInv'
<1>1. rd' = [rd EXCEPT ![r] = new] /\ dir' = dir /\ wr' = wr
      /\ data' = Reclaimed(data, dir, wr, rd')
  BY DEF ReaderStep
<1>2. data' \in GoodFiles
  BY <1>1, ReclaimedType DEF IInv
<1>3. rd' \in [Readers -> ReaderStates(StoredCell)]
  BY <1>1 DEF IInv, GoodReader
<1>4. \A q \in Readers : ReaderAtWork(rd'[q]) /\ ReleasesPayload(rd'[q])
  BY <1>1 DEF IInv, GoodReader
<1> QED
  BY <1>1, <1>2, <1>3, <1>4 DEF IInv, GoodFiles

\* What the invariant says of one process.
LEMMA ProcessFacts ==
  ASSUME IInv
  PROVE  /\ \A p \in Writers : GoodWriter(wr[p])
         /\ \A r \in Readers : GoodReader(rd[r])
         /\ \A i \in Inodes : data[i] \in Seq(StoredCell)
         /\ data \in GoodFiles /\ dir \in Entries
BY DEF IInv, GoodWriter, GoodReader, GoodFiles

\* A command that is not running.
LEMMA IdleIsGood == GoodWriter(IdleWriter) /\ GoodReader(IdleReader)
<1>1. <<>> \in Seq(StoredCell) /\ <<>> \in Seq(Slot)
  BY EmptySeq
<1>2. GoodWriter(IdleWriter)
  BY <1>1 DEF GoodWriter, IdleWriter, WriterStates, WriterAtWork
<1>3. GoodReader(IdleReader)
  BY <1>1 DEF GoodReader, IdleReader, ReaderStates, ReaderAtWork, ReleasesPayload
<1> QED
  BY <1>2, <1>3

\* A file is opened for writing at an inode, and emptied.
LEMMA CreateFacts ==
  ASSUME IInv, NEW entry \in {"vault", "tmp"}, MayCreate(entry)
  PROVE  /\ CreatedInode(entry) \in Inodes /\ CreatedInode(entry) # None
         /\ Truncated(CreatedInode(entry)) \in GoodFiles
<1>1. CreatedInode(entry) \in Inodes
  <2>1. CASE dir[entry] # None
    BY <2>1 DEF IInv, Entries, CreatedInode
  <2>2. CASE dir[entry] = None
    <3>1. FreeInodes # {} /\ FreeInodes \subseteq Nat /\ FreeInodes \subseteq Inodes
      BY <2>2, VaultFileAssumption DEF MayCreate, FreeInodes
    <3>2. \E i \in FreeInodes : \A j \in FreeInodes : i <= j
      BY <3>1, LeastNat
    <3>3. Min(FreeInodes) \in FreeInodes
      BY <3>2 DEF Min
    <3> QED
      BY <2>2, <3>1, <3>3 DEF CreatedInode
  <2> QED
    BY <2>1, <2>2
<1>2. <<>> \in Seq(StoredCell)
  BY EmptySeq
<1> QED
  BY <1>1, <1>2, VaultFileAssumption DEF IInv, GoodFiles, Truncated

-----------------------------------------------------------------------------
(* The steps of writers. *)

\* Opening the vault, being rejected, failing, cleaning up and being killed
\* touch no cell.
LEMMA PlainWriterStep ==
  ASSUME IInv, NEW p \in Writers,
         \/ OpenForEdit(p) \/ Reject(p) \/ Fail(p) \/ Cleanup(p) \/ Crash(p)
         \/ EncryptFails(p) \/ Replace(p)
  PROVE  IInv'
<1> USE ProcessFacts, IdleIsGood, WriterKeeps
<1>1. CASE OpenForEdit(p)
  <2> DEFINE new == [IdleWriter EXCEPT !.pc = "opened", !.fh = dir.vault]
  <2>1. dir.vault \in Inodes /\ dir.vault # None /\ WriterStep(p, new, data, dir)
    BY <1>1 DEF OpenForEdit, IInv, Entries
  <2>2. GoodWriter(new)
    BY <2>1 DEF GoodWriter, IdleWriter, WriterStates, WriterAtWork
  <2> QED
    BY <2>1, <2>2
<1>2. CASE Reject(p) \/ Crash(p) \/ EncryptFails(p)
  <2>1. WriterStep(p, IdleWriter, data, dir)
    BY <1>2 DEF Reject, Crash, EncryptFails
  <2> QED
    BY <2>1
<1>3. CASE Fail(p)
  <2> DEFINE new == [wr[p] EXCEPT !.pc = "cleanup", !.out = None]
  <2>1. WriterStep(p, new, data, dir)
    BY <1>3 DEF Fail
  <2>2. GoodWriter(new)
    BY DEF GoodWriter, WriterStates, WriterAtWork
  <2> QED
    BY <2>1, <2>2
<1>4. CASE Cleanup(p)
  <2>1. WriterStep(p, IdleWriter, data, [dir EXCEPT !.tmp = None])
    BY <1>4 DEF Cleanup
  <2>2. [dir EXCEPT !.tmp = None] \in Entries
    BY DEF Entries
  <2> QED
    BY <2>1, <2>2
<1>5. CASE Replace(p)
  <2>1. CASE dir.tmp # None
    <3>1. WriterStep(p, IdleWriter, data, [vault |-> dir.tmp, tmp |-> None])
      BY <1>5, <2>1 DEF Replace
    <3>2. [vault |-> dir.tmp, tmp |-> None] \in Entries
      BY DEF Entries
    <3> QED
      BY <3>1, <3>2
  <2>2. CASE dir.tmp = None
    <3> DEFINE new == [wr[p] EXCEPT !.pc = "cleanup"]
    <3>1. WriterStep(p, new, data, dir)
      BY <1>5, <2>2 DEF Replace
    <3>2. GoodWriter(new)
      BY DEF GoodWriter, WriterStates, WriterAtWork
    <3> QED
      BY <3>1, <3>2
  <2> QED
    BY <2>1, <2>2
<1> QED
  BY <1>1, <1>2, <1>3, <1>4, <1>5

\* The four edits build a section from the one in the opened file.
LEMMA BuildStep ==
  ASSUME IInv, NEW p \in Writers, MayEdit(p), NEW slots \in Seq(Slot),
         NEW adds \in Secrets \cup {None}, Build(p, slots, adds)
  PROVE  IInv'
<1> DEFINE new == [wr[p] EXCEPT !.pc = "create", !.slots = slots, !.adds = adds,
                                !.pos = PayloadStart(data[wr[p].fh])]
<1>1. wr[p].fh \in Inodes /\ wr[p].fh # None /\ GoodWriter(wr[p])
  BY ProcessFacts DEF MayEdit, GoodWriter, WriterAtWork, WriterStates
<1>2. PayloadStart(data[wr[p].fh]) \in Nat \ {0}
  BY <1>1, ProcessFacts, ReadableFacts DEF MayEdit
<1>3. WriterStep(p, new, data, dir)
  BY DEF Build
<1> DEFINE w == wr[p]
           start == PayloadStart(data[wr[p].fh])
<1>4. start \in Nat /\ start > 0
  BY <1>2
<1> HIDE DEF w, start
<1>5. new = [w EXCEPT !.pc = "create", !.slots = slots, !.adds = adds, !.pos = start]
  BY DEF w, start
<1>6. GoodWriter(w) /\ w.fh # None
  BY <1>1 DEF w
<1>7. new \in WriterStates(StoredCell)
  BY <1>4, <1>5, <1>6 DEF GoodWriter, WriterStates
<1>8. new.pc = "create" /\ new.fh = w.fh /\ new.pos = start
  BY <1>5, <1>6 DEF GoodWriter, WriterStates
<1>9. GoodWriter(new)
  BY <1>4, <1>6, <1>7, <1>8 DEF GoodWriter, WriterAtWork
<1> QED
  BY <1>3, <1>9, ProcessFacts, WriterKeeps

LEMMA EditStep ==
  ASSUME IInv, NEW p \in Writers,
         \/ \E old, new \in Passwords : Rekey(p, old, new)
         \/ \E cred \in Credentials, new \in Passwords : AddPassword(p, cred, new)
         \/ \E cred \in Credentials, new \in Identities : AddRecipient(p, cred, new)
         \/ \E i \in 1 .. MaxSlots : RemoveSlot(p, i)
  PROVE  IInv'
<1>0. MayEdit(p)
  BY DEF Rekey, AddPassword, AddRecipient, RemoveSlot
<1>1. OldSlots(p) \in Seq(Slot)
  <2>1. wr[p].fh \in Inodes
    BY <1>0, ProcessFacts DEF MayEdit, GoodWriter, WriterAtWork, WriterStates
  <2> QED
    BY <1>0, <2>1, ProcessFacts, ReadableFacts DEF MayEdit, OldSlots
<1>2. ASSUME NEW old \in Passwords, NEW new \in Passwords, Rekey(p, old, new)
      PROVE  IInv'
  <2>1. new \in Secrets /\ CanRecover(OldSlots(p), {old})
        /\ Build(p, Rekeyed(OldSlots(p), old, new), new)
    BY <1>2 DEF Rekey, Secrets
  <2>2. Rekeyed(OldSlots(p), old, new) \in Seq(Slot)
    BY <1>1, <2>1, EditTypes
  <2> QED
    BY <1>0, <2>1, <2>2, BuildStep
<1>3. ASSUME NEW cred \in Credentials, NEW new \in Secrets,
             CanRecover(OldSlots(p), cred), Build(p, Added(OldSlots(p), cred, new), new)
      PROVE  IInv'
  <2>1. Added(OldSlots(p), cred, new) \in Seq(Slot)
    BY <1>1, <1>3, EditTypes
  <2> QED
    BY <1>0, <1>3, <2>1, BuildStep
<1>4. ASSUME NEW i \in 1 .. MaxSlots, RemoveSlot(p, i)
      PROVE  IInv'
  <2>1. Removable(OldSlots(p), i) /\ Build(p, Removed(OldSlots(p), i), None)
    BY <1>4 DEF RemoveSlot
  <2>2. CASE Secrets = {}
    <3>1. ASSUME NEW slot \in Slot PROVE FALSE
      BY <2>2 DEF Slot
    <3>2. OldSlots(p)[i] \in Slot
      BY <1>1, <2>1, ElementOfSeq DEF Removable
    <3> QED
      BY <3>1, <3>2
  <2>3. CASE Secrets # {}
    <3>1. PICK secret \in Secrets : TRUE
      BY <2>3
    <3>2. Removed(OldSlots(p), i) \in Seq(Slot)
      BY <1>1, <2>1, <3>1, EditTypes
    <3> QED
      BY <1>0, <2>1, <3>2, BuildStep
  <2> QED
    BY <2>2, <2>3
<1> QED
  BY <1>2, <1>3, <1>4 DEF AddPassword, AddRecipient, Secrets

\* The temporary file is created and will hold the new front.
LEMMA CreateStep ==
  ASSUME IInv, NEW p \in Writers, CreateTmp(p)
  PROVE  IInv'
<1> DEFINE i == CreatedInode("tmp")
           new == [wr[p] EXCEPT !.pc = "write", !.out = i, !.todo = Prefix(wr[p].slots)]
<1>1. wr[p].pc = "create" /\ WriterStep(p, new, Truncated(i), [dir EXCEPT !.tmp = i])
  BY DEF CreateTmp
<1>2. i \in Inodes /\ i # None /\ Truncated(i) \in GoodFiles
  BY CreateFacts DEF CreateTmp
<1>3. GoodWriter(wr[p])
  BY ProcessFacts
<1>4. Prefix(wr[p].slots) \in Seq(StoredCell) /\ Prefix(wr[p].slots) # <<>>
  BY <1>3, PrefixType DEF GoodWriter, WriterStates
<1> HIDE DEF i
<1>5. GoodWriter(new)
  BY <1>1, <1>2, <1>3, <1>4 DEF GoodWriter, WriterStates, WriterAtWork
<1>6. [dir EXCEPT !.tmp = i] \in Entries
  BY <1>2, ProcessFacts DEF Entries
<1> QED
  BY <1>1, <1>2, <1>5, <1>6, WriterKeeps

\* Encrypting empties the vault and will write the front and the payload.
LEMMA EncryptStep ==
  ASSUME IInv, NEW p \in Writers, NEW d \in Deks, NEW lists \in SecretLists,
         Encrypt(p, d, lists[1], lists[2])
  PROVE  IInv'
<1> DEFINE slots == BuiltSlots(d, lists[1], lists[2])
           cells == Prefix(slots) \o (IF SectionFits(slots) THEN Payload(d) ELSE <<>>)
           i == CreatedInode("vault")
           new == [IdleWriter EXCEPT !.pc = "encrypt", !.out = i, !.todo = cells]
<1>1. MayCreate("vault") /\ WriterStep(p, new, Truncated(i), [dir EXCEPT !.vault = i])
  BY DEF Encrypt
<1>2. i \in Inodes /\ i # None /\ Truncated(i) \in GoodFiles
  BY <1>1, CreateFacts
<1>3. lists[1] \in Seq(Passwords) /\ lists[2] \in Seq(Identities)
  <2>1. lists[1] \in BoundedSeq(Passwords, MaxSlots + 1)
        /\ lists[2] \in BoundedSeq(Identities, MaxSlots + 1)
    BY DEF SecretLists
  <2>2. MaxSlots + 1 \in Nat /\ 0 .. MaxSlots + 1 \subseteq Nat
    BY KeySlotsAssumption
  <2> QED
    BY <2>1, <2>2, FunctionIsSeq DEF BoundedSeq, SeqOf
<1>4. slots \in Seq(Slot)
  BY <1>3, BuiltSlotsType
<1> HIDE DEF slots
<1>5. /\ Prefix(slots) \in Seq(StoredCell) /\ Prefix(slots) # <<>>
      /\ (IF SectionFits(slots) THEN Payload(d) ELSE <<>>) \in Seq(StoredCell)
  BY <1>4, PrefixType, PayloadType, EmptySeq
<1>6. cells \in Seq(StoredCell) /\ cells # <<>>
  BY <1>5, ConcatProperties, EmptySeq, LenProperties
<1> HIDE DEF i, cells
<1>7. GoodWriter(new)
  BY <1>2, <1>6, IdleIsGood DEF GoodWriter, WriterStates, WriterAtWork, IdleWriter
<1>8. [dir EXCEPT !.vault = i] \in Entries
  BY <1>2, ProcessFacts DEF Entries
<1> QED
  BY <1>1, <1>2, <1>7, <1>8, WriterKeeps

\* A writer that has written a cell, or the last one of its section.
LEMMA WrittenIsGood ==
  ASSUME NEW w, GoodWriter(w), NEW off \in Nat \ {0}, NEW todo \in Seq(StoredCell)
  PROVE  /\ todo # <<>> => GoodWriter([w EXCEPT !.off = off, !.todo = todo])
         /\ w.pc = "write" => GoodWriter([w EXCEPT !.off = off, !.todo = todo, !.pc = "copy"])
<1>0. w \in WriterStates(StoredCell) /\ WriterAtWork(w)
  BY DEF GoodWriter
<1>1. ASSUME todo # <<>>
      PROVE  GoodWriter([w EXCEPT !.off = off, !.todo = todo])
  <2> DEFINE new == [w EXCEPT !.off = off, !.todo = todo]
  <2>1. new \in WriterStates(StoredCell)
    BY <1>0 DEF WriterStates
  <2>2. new.pc = w.pc /\ new.fh = w.fh /\ new.out = w.out /\ new.pos = w.pos /\ new.todo = todo
    BY <1>0 DEF WriterStates
  <2> HIDE DEF new
  <2>3. WriterAtWork(new)
    BY <1>0, <1>1, <2>2 DEF WriterAtWork
  <2>4. GoodWriter(new)
    BY <2>1, <2>3 DEF GoodWriter
  <2> QED
    BY <2>4 DEF new
<1>2. ASSUME w.pc = "write"
      PROVE  GoodWriter([w EXCEPT !.off = off, !.todo = todo, !.pc = "copy"])
  <2> DEFINE new == [w EXCEPT !.off = off, !.todo = todo, !.pc = "copy"]
  <2>1. new \in WriterStates(StoredCell)
    BY <1>0 DEF WriterStates
  <2>2. new.pc = "copy" /\ new.fh = w.fh /\ new.out = w.out /\ new.pos = w.pos
    BY <1>0 DEF WriterStates
  <2> HIDE DEF new
  <2>3. WriterAtWork(new)
    BY <1>0, <1>2, <2>2 DEF WriterAtWork
  <2>4. GoodWriter(new)
    BY <2>1, <2>3 DEF GoodWriter
  <2> QED
    BY <2>4 DEF new
<1> QED
  BY <1>1, <1>2

\* A writer that has read a cell to copy, or written it.
LEMMA CopiedIsGood ==
  ASSUME NEW w, GoodWriter(w), w.pc = "copy"
  PROVE  /\ \A buf \in StoredCell, pos \in Nat \ {0} :
              GoodWriter([w EXCEPT !.buf = buf, !.pos = pos])
         /\ \A off \in Nat \ {0} : GoodWriter([w EXCEPT !.off = off, !.buf = None])
<1>0. w \in WriterStates(StoredCell) /\ WriterAtWork(w)
  BY DEF GoodWriter
<1>1. ASSUME NEW buf \in StoredCell, NEW pos \in Nat \ {0}
      PROVE  GoodWriter([w EXCEPT !.buf = buf, !.pos = pos])
  <2> DEFINE new == [w EXCEPT !.buf = buf, !.pos = pos]
  <2>1. new \in WriterStates(StoredCell)
    BY <1>0 DEF WriterStates
  <2>2. new.pc = "copy" /\ new.fh = w.fh /\ new.out = w.out /\ new.pos = pos
    BY <1>0 DEF WriterStates
  <2> HIDE DEF new
  <2>3. WriterAtWork(new)
    BY <1>0, <2>2 DEF WriterAtWork
  <2>4. GoodWriter(new)
    BY <2>1, <2>3 DEF GoodWriter
  <2> QED
    BY <2>4 DEF new
<1>2. ASSUME NEW off \in Nat \ {0}
      PROVE  GoodWriter([w EXCEPT !.off = off, !.buf = None])
  <2> DEFINE new == [w EXCEPT !.off = off, !.buf = None]
  <2>1. new \in WriterStates(StoredCell)
    BY <1>0 DEF WriterStates
  <2>2. new.pc = "copy" /\ new.fh = w.fh /\ new.out = w.out /\ new.pos = w.pos
    BY <1>0 DEF WriterStates
  <2> HIDE DEF new
  <2>3. WriterAtWork(new)
    BY <1>0, <2>2 DEF WriterAtWork
  <2>4. GoodWriter(new)
    BY <2>1, <2>3 DEF GoodWriter
  <2> QED
    BY <2>4 DEF new
<1> QED
  BY <1>1, <1>2

\* One cell goes out.
LEMMA WriteCellStep ==
  ASSUME IInv, NEW p \in Writers, WriteCell(p)
  PROVE  IInv'
<1> DEFINE w == wr[p]
           files == [data EXCEPT ![w.out] = WriteAt(@, w.off, Head(w.todo))]
<1>1. /\ GoodWriter(w) /\ w.pc \in {"write", "encrypt"}
      /\ WriterStep(p, Written(w), files, dir)
  BY ProcessFacts DEF WriteCell
<1> HIDE DEF w
<1>2. /\ w.out \in Inodes /\ w.todo \in Seq(StoredCell) /\ w.todo # <<>>
      /\ w.off \in Nat \ {0}
  BY <1>1 DEF GoodWriter, WriterStates, WriterAtWork
<1>3. /\ Head(w.todo) \in StoredCell /\ Tail(w.todo) \in Seq(StoredCell)
      /\ Len(Tail(w.todo)) = Len(w.todo) - 1
  BY <1>2, HeadTailProperties
<1>4. WriteAt(data[w.out], w.off, Head(w.todo)) \in Seq(StoredCell)
  BY <1>2, <1>3, ProcessFacts, WriteAtType
<1>5. files \in GoodFiles
  BY <1>2, <1>4, ProcessFacts DEF GoodFiles
<1>6. Len(w.todo) > 1 => Tail(w.todo) # <<>>
  <2>1. Len(w.todo) \in Nat /\ Len(<<>>) = 0
    BY <1>2, LenProperties
  <2> DEFINE rest == Tail(w.todo)
  <2>2. Len(rest) = Len(w.todo) - 1
    BY <1>3
  <2> HIDE DEF rest
  <2>3. Len(w.todo) > 1 => rest # <<>>
    BY <2>1, <2>2
  <2> QED
    BY <2>3 DEF rest
<1>7. <<>> \in Seq(StoredCell)
  BY EmptySeq
<1>8. GoodWriter(Written(w))
  <2>0. w.off + 1 \in Nat \ {0}
    BY <1>2
  <2>1. CASE Len(w.todo) > 1
    <3> DEFINE rest == Tail(w.todo)
               off == w.off + 1
    <3>1. Written(w) = [w EXCEPT !.off = off, !.todo = rest]
      BY <2>1 DEF Written
    <3>2. rest \in Seq(StoredCell) /\ rest # <<>> /\ off \in Nat \ {0}
      BY <1>3, <1>6, <2>0, <2>1
    <3> HIDE DEF rest, off
    <3>3. GoodWriter([w EXCEPT !.off = off, !.todo = rest])
      BY <1>1, <3>2, WrittenIsGood
    <3> QED
      BY <3>1, <3>3
  <2>2. CASE ~(Len(w.todo) > 1) /\ w.pc = "encrypt"
    BY <2>2, IdleIsGood DEF Written
  <2>3. CASE ~(Len(w.todo) > 1) /\ w.pc = "write" /\ SectionFits(w.slots)
    <3> DEFINE off == w.off + 1
    <3>1. Written(w) = [w EXCEPT !.off = off, !.todo = <<>>, !.pc = "copy"]
      BY <2>3 DEF Written
    <3>2. off \in Nat \ {0}
      BY <2>0
    <3> HIDE DEF off
    <3>3. GoodWriter([w EXCEPT !.off = off, !.todo = <<>>, !.pc = "copy"])
      BY <1>1, <1>7, <2>3, <3>2, WrittenIsGood
    <3> QED
      BY <3>1, <3>3
  <2>4. CASE ~(Len(w.todo) > 1) /\ w.pc = "write" /\ ~SectionFits(w.slots)
    <3>1. Written(w) = [w EXCEPT !.todo = <<>>, !.out = None, !.pc = "cleanup"]
      BY <2>4 DEF Written
    <3> QED
      BY <1>1, <1>7, <2>4, <3>1 DEF GoodWriter, WriterStates, WriterAtWork
  <2> QED
    BY <1>1, <2>1, <2>2, <2>3, <2>4
<1> HIDE DEF files
<1> QED
  BY <1>1, <1>5, <1>8, ProcessFacts, WriterKeeps

\* The old payload is copied cell by cell.
LEMMA CopyStep ==
  ASSUME IInv, NEW p \in Writers, CopyRead(p) \/ CopyWrite(p)
  PROVE  IInv'
<1> DEFINE w == wr[p]
<1>1. GoodWriter(w) /\ w.pc = "copy"
  BY ProcessFacts DEF CopyRead, CopyWrite
<1>2. w.out \in Inodes
  BY <1>1 DEF GoodWriter, WriterStates, WriterAtWork
<1>3. CASE CopyRead(p) /\ w.pos <= Len(data[w.fh])
  <2> DEFINE new == [w EXCEPT !.buf = data[w.fh][w.pos], !.pos = @ + 1]
  <2>1. WriterStep(p, new, data, dir)
    BY <1>3 DEF CopyRead
  <2>2. CASE w.fh \in Inodes
    <3>1. data[w.fh] \in Seq(StoredCell) /\ Len(data[w.fh]) \in Nat
      BY <2>2, ProcessFacts, LenProperties
    <3>2. w.pos \in 1 .. Len(data[w.fh])
      BY <1>1, <1>3, <3>1 DEF GoodWriter, WriterStates, WriterAtWork
    <3>3. data[w.fh][w.pos] \in StoredCell
      BY <3>1, <3>2, ElementOfSeq
    <3>4. w.pos + 1 \in Nat \ {0}
      BY <3>1, <3>2
    <3>5. GoodWriter(new)
      BY <1>1, <3>3, <3>4, CopiedIsGood
    <3> QED
      BY <2>1, <3>5, ProcessFacts, WriterKeeps
  <2> QED
    BY <1>1, <2>2 DEF GoodWriter, WriterStates, WriterAtWork
<1>4. CASE CopyRead(p) /\ ~(w.pos <= Len(data[w.fh]))
  <2> DEFINE new == [w EXCEPT !.pc = "replace", !.out = None]
  <2>1. WriterStep(p, new, data, dir)
    BY <1>4 DEF CopyRead
  <2> HIDE DEF w
  <2>2. GoodWriter(new)
    BY <1>1 DEF GoodWriter, WriterStates, WriterAtWork
  <2> QED
    BY <2>1, <2>2, ProcessFacts, WriterKeeps
<1>5. CASE CopyWrite(p)
  <2> DEFINE new == [w EXCEPT !.off = @ + 1, !.buf = None]
             files == [data EXCEPT ![w.out] = WriteAt(@, w.off, w.buf)]
  <2>1. WriterStep(p, new, files, dir) /\ w.buf # None
    BY <1>5 DEF CopyWrite
  <2> HIDE DEF w
  <2>2. w.buf \in StoredCell /\ w.off \in Nat \ {0}
    BY <1>1, <2>1 DEF GoodWriter, WriterStates
  <2>3. files \in GoodFiles
    BY <1>2, <2>2, ProcessFacts, WriteAtType DEF GoodFiles
  <2>4. w.off + 1 \in Nat \ {0}
    BY <2>2
  <2>5. GoodWriter(new)
    BY <1>1, <2>4, CopiedIsGood
  <2> HIDE DEF files, new
  <2> QED
    BY <2>1, <2>3, <2>5, ProcessFacts, WriterKeeps
<1> QED
  BY <1>3, <1>4, <1>5

-----------------------------------------------------------------------------
(* The steps of readers. *)

\* A reader that is not reading has nothing to live up to but its types.
LEMMA OpenedStep ==
  ASSUME IInv, NEW r \in Readers,
         OpenForDecrypt(r) \/ CloseReader(r) \/ \E cred \in Credentials : Unlock(r, cred)
  PROVE  IInv'
<1> USE ProcessFacts, IdleIsGood, ReaderKeeps
<1>0. <<>> \in Seq(StoredCell) /\ Len(<<>>) = 0
  BY EmptySeq
<1>1. CASE OpenForDecrypt(r)
  <2> DEFINE new == [IdleReader EXCEPT !.pc = "opened", !.fh = dir.vault]
  <2>1. ReaderStep(r, new) /\ dir.vault \in Inodes /\ dir.vault # None
    BY <1>1 DEF OpenForDecrypt, IInv, Entries
  <2>2. GoodReader(new)
    BY <1>0, <2>1 DEF GoodReader, IdleReader, ReaderStates, ReaderAtWork, ReleasesPayload
  <2> QED
    BY <2>1, <2>2
<1>2. CASE CloseReader(r)
  BY <1>2 DEF CloseReader
<1>3. ASSUME NEW cred \in Credentials, Unlock(r, cred)
      PROVE  IInv'
  <2> DEFINE s == data[rd[r].fh]
             refused == [rd[r] EXCEPT !.pc = "failed"]
             denied == [rd[r] EXCEPT !.pc = "denied"]
             reading == [rd[r] EXCEPT !.pc = "reading", !.pos = PayloadStart(s),
                                      !.dek = RecoveredDek(SlotsOf(s), cred)]
  <2>1. rd[r].pc = "opened" /\ GoodReader(rd[r])
    BY <1>3 DEF Unlock
  <2>2. rd[r].fh \in Inodes /\ rd[r].fh # None /\ s \in Seq(StoredCell)
    BY <2>1 DEF GoodReader, ReaderStates, ReaderAtWork
  <2>3. CASE ~Readable(s)
    <3>1. ReaderStep(r, refused)
      BY <1>3, <2>3 DEF Unlock
    <3>2. GoodReader(refused)
      BY <2>1 DEF GoodReader, ReaderStates, ReaderAtWork, ReleasesPayload
    <3> QED
      BY <3>1, <3>2
  <2>4. CASE Readable(s) /\ ~CanRecover(SlotsOf(s), cred)
    <3>1. ReaderStep(r, denied)
      BY <1>3, <2>4 DEF Unlock
    <3>2. GoodReader(denied)
      BY <2>1 DEF GoodReader, ReaderStates, ReaderAtWork, ReleasesPayload
    <3> QED
      BY <3>1, <3>2
  <2>5. CASE Readable(s) /\ CanRecover(SlotsOf(s), cred)
    <3>1. ReaderStep(r, reading)
      BY <1>3, <2>5 DEF Unlock
    <3>2. PayloadStart(s) \in Nat \ {0} /\ RecoveredDek(SlotsOf(s), cred) \in Deks
      BY <2>2, <2>5, ReadableFacts, RecoveredDekType
    <3>3. rd[r].got = <<>> /\ Len(rd[r].got) = 0 /\ 0 < Chunks
      BY <1>0, <2>1, VaultFileAssumption DEF GoodReader, ReleasesPayload
    <3> DEFINE start == PayloadStart(s)
               dek == RecoveredDek(SlotsOf(s), cred)
    <3>4. reading = [rd[r] EXCEPT !.pc = "reading", !.pos = start, !.dek = dek]
      OBVIOUS
    <3>5. start \in Nat /\ start > 0 /\ dek \in Deks
      BY <3>2
    <3> HIDE DEF start, dek, s
    <3>6. reading \in ReaderStates(StoredCell)
      BY <2>1, <3>4, <3>5 DEF GoodReader, ReaderStates
    <3>7. /\ reading.pc = "reading" /\ reading.fh = rd[r].fh
          /\ reading.pos = start /\ reading.got = rd[r].got /\ reading.dek = dek
      BY <2>1, <3>4 DEF GoodReader, ReaderStates
    <3> HIDE DEF reading
    <3>8. ReaderAtWork(reading) /\ ReleasesPayload(reading)
      BY <2>2, <3>3, <3>5, <3>7 DEF ReaderAtWork, ReleasesPayload
    <3> QED
      BY <3>1, <3>6, <3>8 DEF GoodReader
  <2> QED
    BY <2>3, <2>4, <2>5
<1> QED
  BY <1>1, <1>2, <1>3

\* Accepting the held chunk as one that is not the last.
LEMMA AcceptMore ==
  ASSUME NEW reader, GoodReader(reader), reader.pc = "reading",
         reader.held # None, Authentic(reader, FALSE)
  PROVE  LET got == Append(reader.got, reader.held) IN
           /\ got \in Seq(StoredCell) /\ Len(got) < Chunks
           /\ \A k \in 1 .. Len(got) : got[k] = Chunk(reader.dek, k - 1, k = Chunks)
<1> DEFINE got == reader.got
           n == Len(got)
<1>1. /\ got \in Seq(StoredCell) /\ n \in Nat /\ reader.held \in StoredCell
      /\ n < Chunks /\ Chunks \in Nat
      /\ \A k \in 1 .. n : got[k] = Chunk(reader.dek, k - 1, k = Chunks)
  BY LenProperties, VaultFileAssumption DEF GoodReader, ReaderStates, ReleasesPayload
<1>2. reader.held = Chunk(reader.dek, n, FALSE)
  BY DEF Authentic
<1>3. n + 1 # Chunks
  BY <1>1, <1>2, StoredChunk
<1>4. /\ Append(got, reader.held) \in Seq(StoredCell)
      /\ Len(Append(got, reader.held)) = n + 1
      /\ \A k \in 1 .. n : Append(got, reader.held)[k] = got[k]
      /\ Append(got, reader.held)[n + 1] = reader.held
  BY <1>1, AppendProperties
<1> HIDE DEF n
<1>5. reader.held = Chunk(reader.dek, (n + 1) - 1, n + 1 = Chunks)
  <2>1. (n + 1) - 1 = n /\ (n + 1 = Chunks) = FALSE
    BY <1>1, <1>3
  <2> QED
    BY <1>2, <2>1
<1>6. \A k \in 1 .. n + 1 :
        Append(got, reader.held)[k] = Chunk(reader.dek, k - 1, k = Chunks)
  <2> TAKE k \in 1 .. n + 1
  <2>1. CASE k = n + 1
    BY <1>4, <1>5, <2>1
  <2>2. CASE k # n + 1
    <3>1. k \in 1 .. n
      BY <1>1, <2>2
    <3> QED
      BY <1>1, <1>4, <3>1
  <2> QED
    BY <2>1, <2>2
<1>7. n + 1 < Chunks
  BY <1>1, <1>3
<1> QED
  BY <1>4, <1>6, <1>7

\* Accepting the held chunk as the last one completes the payload.
LEMMA AcceptLast ==
  ASSUME NEW reader, GoodReader(reader), reader.pc = "reading",
         Authentic(reader, TRUE)
  PROVE  /\ Append(reader.got, reader.held) = Payload(reader.dek)
         /\ Append(reader.got, reader.held) \in Seq(StoredCell)
<1> DEFINE got == reader.got
           n == Len(got)
           all == Append(got, reader.held)
<1>1. reader.held = Chunk(reader.dek, n, TRUE)
  BY DEF Authentic
<1>2. /\ got \in Seq(StoredCell) /\ n \in Nat /\ n < Chunks /\ Chunks \in Nat \ {0}
      /\ reader.dek \in Deks
      /\ \A k \in 1 .. n : got[k] = Chunk(reader.dek, k - 1, k = Chunks)
  BY LenProperties, VaultFileAssumption DEF GoodReader, ReaderStates, ReleasesPayload
<1>3. reader.held \in StoredCell
  <2>1. reader.held # None
    <3>1. n \in 0 .. Chunks - 1
      BY <1>2
    <3>2. Chunk(reader.dek, n, TRUE) \in Cell
      BY <1>2, <3>1 DEF Chunk, Cell
    <3> QED
      BY <1>1, <3>2, NoneIsNoCell
  <2> QED
    BY <2>1 DEF GoodReader, ReaderStates
<1>4. n + 1 = Chunks
  BY <1>1, <1>2, <1>3, StoredChunk
<1>5. /\ all \in Seq(StoredCell) /\ Len(all) = n + 1
      /\ \A k \in 1 .. n : all[k] = got[k]
      /\ all[n + 1] = reader.held
  BY <1>2, <1>3, AppendProperties
<1>6. all \in [1 .. Chunks -> StoredCell]
  BY <1>4, <1>5, LenProperties
<1> HIDE DEF all, n
<1>7. ASSUME NEW k \in 1 .. Chunks
      PROVE  all[k] = Chunk(reader.dek, k - 1, k = Chunks)
  <2>1. CASE k = n + 1
    <3>1. k - 1 = n /\ (k = Chunks) = TRUE
      BY <1>2, <1>4, <2>1
    <3> QED
      BY <1>1, <1>5, <2>1, <3>1
  <2>2. CASE k # n + 1
    <3>1. k \in 1 .. n
      BY <1>2, <1>4, <2>2
    <3> QED
      BY <1>2, <1>5, <3>1
  <2> QED
    BY <2>1, <2>2
<1>8. all = Payload(reader.dek)
  BY <1>6, <1>7 DEF Payload
<1> QED
  BY <1>5, <1>8 DEF all

LEMMA ReadStep ==
  ASSUME IInv, NEW r \in Readers, ReadAhead(r) \/ ReadEnd(r)
  PROVE  IInv'
<1> DEFINE x == rd[r]
           failed == [x EXCEPT !.pc = "failed"]
<1>1. GoodReader(x) /\ x.pc = "reading"
  BY ProcessFacts DEF ReadAhead, ReadEnd
<1>2. x.fh \in Inodes /\ x.pos \in Nat /\ x.pos > 0
  BY <1>1 DEF GoodReader, ReaderStates, ReaderAtWork
<1>3. GoodReader(failed)
  BY <1>1 DEF GoodReader, ReaderStates, ReaderAtWork, ReleasesPayload
<1>4. CASE ReadAhead(r)
  <2> DEFINE next == data[x.fh][x.pos]
             pos == x.pos + 1
             got == Append(x.got, x.held)
             first == [x EXCEPT !.held = next, !.pos = pos]
             more == [x EXCEPT !.held = next, !.pos = pos, !.got = got]
  <2>1. /\ x.pos <= Len(data[x.fh])
        /\ ReaderStep(r, IF x.held = None THEN first
                         ELSE IF Authentic(x, FALSE) THEN more ELSE failed)
    BY <1>4 DEF ReadAhead
  <2>2. next \in StoredCell /\ pos \in Nat /\ pos > 0
    <3>1. data[x.fh] \in Seq(StoredCell) /\ Len(data[x.fh]) \in Nat
      BY <1>2, ProcessFacts, LenProperties
    <3>2. x.pos \in 1 .. Len(data[x.fh])
      BY <1>2, <2>1, <3>1
    <3> QED
      BY <1>2, <3>1, <3>2, ElementOfSeq
  <2> HIDE DEF x, next, pos
  <2>3. GoodReader(first)
    <3>1. first \in ReaderStates(StoredCell)
      BY <1>1, <2>2 DEF GoodReader, ReaderStates
    <3>2. /\ first.pc = "reading" /\ first.fh = x.fh /\ first.pos = pos
          /\ first.dek = x.dek /\ first.got = x.got
      BY <1>1 DEF GoodReader, ReaderStates
    <3> HIDE DEF first
    <3>3. ReaderAtWork(first) /\ ReleasesPayload(first)
      BY <1>1, <2>2, <3>2 DEF GoodReader, ReaderAtWork, ReleasesPayload
    <3> QED
      BY <3>1, <3>3 DEF GoodReader
  <2>4. ASSUME x.held # None, Authentic(x, FALSE)
        PROVE  GoodReader(more)
    <3>1. /\ got \in Seq(StoredCell) /\ Len(got) < Chunks
          /\ \A k \in 1 .. Len(got) : got[k] = Chunk(x.dek, k - 1, k = Chunks)
      BY <1>1, <2>4, AcceptMore
    <3> HIDE DEF got
    <3>2. more \in ReaderStates(StoredCell)
      BY <1>1, <2>2, <3>1 DEF GoodReader, ReaderStates
    <3>3. /\ more.pc = "reading" /\ more.fh = x.fh /\ more.pos = pos
          /\ more.dek = x.dek /\ more.got = got
      BY <1>1 DEF GoodReader, ReaderStates
    <3> HIDE DEF more
    <3>4. ReaderAtWork(more) /\ ReleasesPayload(more)
      BY <1>1, <2>2, <3>1, <3>3 DEF GoodReader, ReaderAtWork, ReleasesPayload
    <3> QED
      BY <3>2, <3>4 DEF GoodReader
  <2> HIDE DEF first, more, failed
  <2> QED
    BY <1>3, <2>1, <2>3, <2>4, ReaderKeeps
<1>5. CASE ReadEnd(r)
  <2> DEFINE got == Append(x.got, x.held)
             done == [x EXCEPT !.pc = "done", !.got = got]
  <2>1. ReaderStep(r, IF Authentic(x, TRUE) THEN done ELSE failed)
    BY <1>5 DEF ReadEnd
  <2> HIDE DEF x
  <2>2. ASSUME Authentic(x, TRUE)
        PROVE  GoodReader(done)
    <3>1. got = Payload(x.dek) /\ got \in Seq(StoredCell)
      BY <1>1, <2>2, AcceptLast
    <3> HIDE DEF got
    <3>2. done \in ReaderStates(StoredCell)
      BY <1>1, <3>1 DEF GoodReader, ReaderStates
    <3>3. done.pc = "done" /\ done.dek = x.dek /\ done.got = got
      BY <1>1 DEF GoodReader, ReaderStates
    <3> HIDE DEF done
    <3>4. ReaderAtWork(done) /\ ReleasesPayload(done)
      BY <3>1, <3>3 DEF ReaderAtWork, ReleasesPayload
    <3> QED
      BY <3>2, <3>4 DEF GoodReader
  <2> HIDE DEF done, failed
  <2> QED
    BY <1>3, <2>1, <2>2, ReaderKeeps
<1> QED
  BY <1>4, <1>5

-----------------------------------------------------------------------------
\* Every step keeps the invariant.
LEMMA InvariantStep ==
  ASSUME IInv, [Next]_vars
  PROVE  IInv'
<1>1. ASSUME NEW p \in Writers, Edit(p) PROVE IInv'
  BY <1>1, PlainWriterStep, EditStep, CreateStep, WriteCellStep, CopyStep DEF Edit
<1>2. ASSUME NEW p \in Writers, EncryptNext(p) PROVE IInv'
  BY <1>2, PlainWriterStep, EncryptStep DEF EncryptNext
<1>3. ASSUME NEW r \in Readers, Decrypt(r) PROVE IInv'
  BY <1>3, OpenedStep, ReadStep DEF Decrypt
<1>4. CASE UNCHANGED vars
  BY <1>4 DEF vars, IInv
<1> QED
  BY <1>1, <1>2, <1>3, <1>4 DEF Next

\* The invariant holds throughout every behaviour.
LEMMA Invariance == Spec => []IInv
<1>1. Init => IInv
  <2> SUFFICES ASSUME Init PROVE IInv
    OBVIOUS
  <2>1. dir \in Entries /\ data \in GoodFiles
    BY EmptySeq DEF Init, Entries, GoodFiles
  <2>2. wr = [p \in Writers |-> IdleWriter] /\ rd = [r \in Readers |-> IdleReader]
    BY DEF Init, Idle
  <2> QED
    BY <2>1, <2>2, IdleIsGood DEF IInv, GoodFiles, GoodWriter, GoodReader
<1>2. IInv /\ [Next]_vars => IInv'
  BY InvariantStep
<1> QED
  BY <1>1, <1>2, PTL DEF Spec

\* Files, descriptors and processes always have the shape TypeOK states, for
\* any number of commands interleaved and interrupted anywhere.
THEOREM TypeCorrect == Spec => []TypeOK
<1>1. IInv => TypeOK
  <2> SUFFICES ASSUME IInv PROVE TypeOK
    OBVIOUS
  <2>1. \A s \in Seq(StoredCell) : s \in Seq(Cell)
    BY StoredIsCell, SeqMonotonic
  <2>2. data \in [Inodes -> Seq(Cell)]
    BY <2>1 DEF IInv, GoodFiles
  <2>3. ASSUME NEW w \in WriterStates(StoredCell)
        PROVE  w \in WriterStates(Cell)
    BY <2>1, StoredIsCell DEF WriterStates
  <2>4. ASSUME NEW x \in ReaderStates(StoredCell)
        PROVE  x \in ReaderStates(Cell)
    BY <2>1, StoredIsCell DEF ReaderStates
  <2>5. wr \in [Writers -> WriterStates(Cell)] /\ rd \in [Readers -> ReaderStates(Cell)]
    BY <2>3, <2>4 DEF IInv
  <2> QED
    BY <2>2, <2>5 DEF IInv, TypeOK
<1> QED
  BY <1>1, Invariance, PTL

\* A decryption that succeeds has released the whole payload of one
\* encryption, however many commands wrote to the file meanwhile, overlapped or
\* were killed (service.py 116-118).
THEOREM DecryptIsWhole == Spec => []DecryptWhole
<1>1. IInv => DecryptWhole
  BY DEF IInv, ReleasesPayload, DecryptWhole
<1> QED
  BY <1>1, Invariance, PTL

-----------------------------------------------------------------------------
(* One writer at a time: the files implement VaultSpec. *)

\* The commands of two processes do not overlap: one begins when no other is
\* under way, each may fail or be killed anywhere, and the next finds what it
\* left.  Two that overlap do not implement VaultSpec.
OneAtATime == \A p, q \in Writers : wr[p].pc # "idle" /\ wr[q].pc # "idle" => p = q

Alone(p) == \A q \in Writers : q # p => wr[q].pc = "idle"

\* Cell k of the vault that one encryption under d with the given slots makes.
VaultCell(slots, d, k) ==
  LET n == Len(slots) IN
    IF k = 1 THEN Header(n)
    ELSE IF k <= n + 1 THEN SlotCell(slots[k - 1])
    ELSE IF k = n + 2 THEN SizeCell
    ELSE Chunk(d, k - n - 3, k - n - 2 = Chunks)

FullLen(slots) == Len(slots) + 2 + Chunks

\* A file that is the beginning of that vault.
Begins(s, slots, d) ==
  Len(s) <= FullLen(slots) /\ \A k \in 1 .. Len(s) : s[k] = VaultCell(slots, d, k)

\* A section that fits, every slot of which wraps the same key.
Sound(slots, d) == slots \in Seq(Slot) /\ d \in Deks /\ SectionFits(slots) /\ WrapsOnly(slots, d)

\* What is found under the vault's path: the beginning of a vault, or what an
\* encryption leaves whose section does not fit.
Stub(s) == s = <<>> \/ s = <<Header(0)>>
IsVault(s) == Stub(s) \/ \E slots \in Seq(Slot), d \in Deks : Sound(slots, d) /\ Begins(s, slots, d)

\* The cells a writer still has to write continue the file s up to length len.
Rest(w, s, slots, d, len) ==
  /\ w.off = Len(s) + 1
  /\ Len(s) + Len(w.todo) = len
  /\ \A k \in 1 .. Len(w.todo) : w.todo[k] = VaultCell(slots, d, Len(s) + k)

\* An edit of the section, as VaultSpec makes it in one step.
Edited(old, new) ==
  \/ \E pw, secret \in Passwords : CanRecover(old, {pw}) /\ new = Rekeyed(old, pw, secret)
  \/ \E cred \in Credentials, secret \in Secrets :
       CanRecover(old, cred) /\ new = Added(old, cred, secret)
  \/ \E i \in 1 .. MaxSlots : Removable(old, i) /\ new = Removed(old, i)

\* A rewrite in progress, from the vault v with slots old and key d, into the
\* temporary file t: the new section first, then as many chunks as were read.
Editing(w, e, old, d, v, t) ==
  /\ Sound(old, d) /\ Begins(v, old, d) /\ Len(v) >= Len(old) + 2
  /\ Edited(old, w.slots)
  /\ w.pc \in {"create", "write"} => w.pos = Len(old) + 3
  /\ w.pc = "write" /\ SectionFits(w.slots) =>
       Begins(t, w.slots, d) /\ Rest(w, t, w.slots, d, Len(w.slots) + 2)
  /\ w.pc \in {"copy", "replace"} => SectionFits(w.slots)
  /\ w.pc = "copy" =>
       /\ Begins(t, w.slots, d) /\ w.off = Len(t) + 1 /\ w.pos <= Len(v) + 1
       /\ IF w.buf = None
          THEN w.pos >= Len(old) + 3 /\ w.pos - Len(old) = w.off - Len(w.slots)
          ELSE /\ w.pos - 1 - Len(old) = w.off - Len(w.slots)
               /\ w.pos - 1 >= Len(old) + 3
               /\ w.buf = VaultCell(old, d, w.pos - 1)
  /\ w.pc = "replace" /\ e.tmp # None =>
       Begins(t, w.slots, d) /\ Len(t) - Len(w.slots) = Len(v) - Len(old)

\* An encryption in progress.
Encrypting(w, v) ==
  \/ \E slots \in Seq(Slot), d \in Deks :
       Sound(slots, d) /\ Begins(v, slots, d) /\ Rest(w, v, slots, d, FullLen(slots))
  \/ v = <<>> /\ w.off = 1 /\ w.todo = <<Header(0)>>

\* Where a writer is, given the directory and the two files it names.
WriterOK(w, e, v, t) ==
  /\ w.pc \in {"opened", "create", "write", "copy", "replace"} => w.fh = e.vault
  /\ w.pc \in {"write", "copy"} => w.out = e.tmp
  /\ w.pc \in {"opened", "create"} => w.off = 1
  /\ w.pc \in {"opened", "create", "write"} => w.buf = None
  /\ w.pc \in {"create", "write", "copy", "replace"} =>
       \E old \in Seq(Slot), d \in Deks : Editing(w, e, old, d, v, t)
  /\ w.pc = "encrypt" => w.out = e.vault /\ Encrypting(w, v)

Contents(files, i) == IF i = None THEN <<>> ELSE files[i]

EntriesOK(e, files) ==
  e.vault # None => e.vault # e.tmp /\ IsVault(files[e.vault])

\* The invariant while no two writers overlap: the path names the beginning of a vault, and
\* nobody reads the temporary file.
VaultInv ==
  /\ EntriesOK(dir, data)
  /\ \A p \in Writers :
       WriterOK(wr[p], dir, Contents(data, dir.vault), Contents(data, dir.tmp))
  /\ \A r \in Readers : rd[r].fh # None => rd[r].fh # dir.tmp

-----------------------------------------------------------------------------
(* Beginnings of vaults. *)

\* The operators of VaultSpec are those of KeySlots.
LEMMA SameOperators ==
  /\ \A slots, cred : Abstract!CanRecover(slots, cred) <=> CanRecover(slots, cred)
  /\ \A slots, old, new : Abstract!Rekeyed(slots, old, new) = Rekeyed(slots, old, new)
  /\ \A slots, cred, new : Abstract!Added(slots, cred, new) = Added(slots, cred, new)
  /\ \A slots, i : /\ Abstract!Removable(slots, i) <=> Removable(slots, i)
                   /\ Abstract!Removed(slots, i) = Removed(slots, i)
  /\ \A slots : Abstract!SectionFits(slots) <=> SectionFits(slots)
  /\ \A s, d : Abstract!Wrap(s, d) = Wrap(s, d)
  /\ Abstract!Credentials = Credentials /\ Abstract!Secrets = Secrets
BY DEF Abstract!CanRecover, Abstract!OpenSlots, Abstract!Opens, Abstract!Rekeyed, Abstract!Added,
       Abstract!FirstOpen, Abstract!RecoveredDek, Abstract!Removable, Abstract!Removed,
       Abstract!SectionFits, Abstract!Wrap, Abstract!Credentials, Abstract!Secrets,
       CanRecover, OpenSlots, Opens, Rekeyed, Added, FirstOpen, RecoveredDek, Removable, Removed,
       SectionFits, Wrap, Credentials, Secrets

\* The lengths that matter are numbers.
LEMMA Lengths ==
  ASSUME NEW slots \in Seq(Slot)
  PROVE  Len(slots) \in Nat /\ FullLen(slots) = Len(slots) + 2 + Chunks /\ FullLen(slots) \in Nat
BY VaultFileAssumption, LenProperties DEF FullLen

\* The prefix, alone or before a payload, is the beginning of a vault.
LEMMA PrefixCells ==
  ASSUME NEW slots \in Seq(Slot), SectionFits(slots), NEW d
  PROVE  /\ Len(Prefix(slots)) = Len(slots) + 2
         /\ \A k \in 1 .. Len(slots) + 2 : Prefix(slots)[k] = VaultCell(slots, d, k)
<1> DEFINE n == Len(slots)
           cells == [i \in 1 .. n |-> SlotCell(slots[i])]
           CellsHere == {Header(n), SizeCell} \cup {SlotCell(slots[i]) : i \in 1 .. n}
<1>1. n \in Nat
  BY LenProperties
<1> HIDE DEF n
<1>2. cells \in Seq(CellsHere) /\ Len(cells) = n /\ \A i \in 1 .. n : cells[i] = SlotCell(slots[i])
  <2>1. cells \in [1 .. n -> CellsHere]
    OBVIOUS
  <2>2. \A i \in 1 .. n : cells[i] = SlotCell(slots[i])
    OBVIOUS
  <2> HIDE DEF cells, CellsHere
  <2> QED
    BY <1>1, <2>1, <2>2, FunctionIsSeq
<1>3. Prefix(slots) = (<<Header(n)>> \o cells) \o <<SizeCell>>
  BY DEF Prefix, n
<1>4. Header(n) \in CellsHere /\ SizeCell \in CellsHere
  OBVIOUS
<1> HIDE DEF cells, CellsHere
<1>5. <<Header(n)>> \in Seq(CellsHere) /\ <<SizeCell>> \in Seq(CellsHere)
      /\ Len(<<Header(n)>>) = 1 /\ Len(<<SizeCell>>) = 1
  BY <1>4
<1> DEFINE front == <<Header(n)>> \o cells
<1>6. /\ front \in Seq(CellsHere) /\ Len(front) = n + 1
      /\ \A k \in 1 .. n + 1 : front[k] = IF k = 1 THEN Header(n) ELSE cells[k - 1]
  BY <1>1, <1>2, <1>5, ConcatProperties
<1> HIDE DEF front
<1>7. Prefix(slots) = front \o <<SizeCell>>
  BY <1>3 DEF front
<1>8. /\ Len(Prefix(slots)) = n + 2
      /\ \A k \in 1 .. n + 2 :
           Prefix(slots)[k] = IF k <= n + 1 THEN front[k] ELSE SizeCell
  BY <1>1, <1>5, <1>6, <1>7, ConcatProperties
<1>9. ASSUME NEW k \in 1 .. n + 2
      PROVE  Prefix(slots)[k] = VaultCell(slots, d, k)
  <2>1. CASE k = 1 \/ k = n + 2
    BY <1>1, <1>6, <1>8, <2>1 DEF VaultCell, n
  <2>2. CASE k # 1 /\ k # n + 2
    <3>1. k - 1 \in 1 .. n /\ k \in 1 .. n + 1
      BY <1>1, <2>2
    <3>2. Prefix(slots)[k] = SlotCell(slots[k - 1])
      BY <1>1, <1>2, <1>6, <1>8, <2>2, <3>1
    <3>3. VaultCell(slots, d, k) = SlotCell(slots[k - 1])
      BY <1>1, <2>2, <3>1 DEF VaultCell, n
    <3> QED
      BY <3>2, <3>3
  <2> QED
    BY <2>1, <2>2
<1> QED
  BY <1>8, <1>9 DEF n

LEMMA WholeCells ==
  ASSUME NEW slots \in Seq(Slot), SectionFits(slots), NEW d \in Deks
  PROVE  LET cells == Prefix(slots) \o Payload(d) IN
           /\ Len(cells) = FullLen(slots)
           /\ \A k \in 1 .. FullLen(slots) : cells[k] = VaultCell(slots, d, k)
<1> DEFINE n == Len(slots)
           front == Prefix(slots)
           body == Payload(d)
           cells == front \o body
<1>1. n \in Nat /\ FullLen(slots) = n + 2 + Chunks /\ Chunks \in Nat
  BY Lengths, VaultFileAssumption
<1>2. /\ front \in Seq(StoredCell) /\ Len(front) = n + 2
      /\ \A k \in 1 .. n + 2 : front[k] = VaultCell(slots, d, k)
  BY PrefixType, PrefixCells
<1>3. /\ body \in Seq(StoredCell) /\ Len(body) = Chunks
      /\ \A i \in 1 .. Chunks : body[i] = Chunk(d, i - 1, i = Chunks)
  <2>1. Payload(d) \in [1 .. Chunks -> StoredCell]
    BY DEF Payload, StoredCell
  <2>2. \A i \in 1 .. Chunks : Payload(d)[i] = Chunk(d, i - 1, i = Chunks)
    BY DEF Payload
  <2> QED
    BY <1>1, <2>1, <2>2, FunctionIsSeq
<1> HIDE DEF n, front, body
<1>4. /\ Len(cells) = n + 2 + Chunks
      /\ \A k \in 1 .. n + 2 + Chunks :
           cells[k] = IF k <= n + 2 THEN front[k] ELSE body[k - (n + 2)]
  <2>0. front \in Seq(StoredCell) /\ body \in Seq(StoredCell)
    BY <1>2, <1>3
  <2>1. /\ Len(cells) = Len(front) + Len(body)
        /\ \A k \in 1 .. Len(front) + Len(body) :
             cells[k] = IF k <= Len(front) THEN front[k] ELSE body[k - Len(front)]
    BY <2>0, ConcatProperties, Zenon
  <2> HIDE DEF cells
  <2> QED
    BY <1>2, <1>3, <2>1
<1> HIDE DEF cells
<1>5. ASSUME NEW k \in 1 .. FullLen(slots)
      PROVE  cells[k] = VaultCell(slots, d, k)
  <2>1. CASE k <= n + 2
    BY <1>1, <1>2, <1>4, <2>1
  <2>2. CASE ~(k <= n + 2)
    <3>1. k - (n + 2) \in 1 .. Chunks
      BY <1>1, <2>2
    <3>2. cells[k] = Chunk(d, k - (n + 2) - 1, k - (n + 2) = Chunks)
      BY <1>1, <1>3, <1>4, <2>2, <3>1
    <3>3. VaultCell(slots, d, k) = Chunk(d, k - n - 3, k - n - 2 = Chunks)
      BY <1>1, <2>2 DEF VaultCell, n
    <3>4. k - (n + 2) - 1 = k - n - 3 /\ k - (n + 2) = k - n - 2
      BY <1>1
    <3> QED
      BY <3>2, <3>3, <3>4
  <2> QED
    BY <2>1, <2>2
<1> QED
  BY <1>1, <1>4, <1>5 DEF cells, front, body

\* Writing the next cell of a vault at the end of a beginning of it.
LEMMA NextCell ==
  ASSUME NEW s \in Seq(StoredCell), NEW slots \in Seq(Slot), NEW d, Begins(s, slots, d),
         Len(s) < FullLen(slots), NEW off, off = Len(s) + 1,
         NEW c, c = VaultCell(slots, d, off)
  PROVE  Len(WriteAt(s, off, c)) = Len(s) + 1 /\ Begins(WriteAt(s, off, c), slots, d)
<1>1. Len(s) \in Nat /\ FullLen(slots) \in Nat
  BY LenProperties, Lengths
<1> DEFINE gap == [i \in 1 .. off - Len(s) - 1 |-> Hole]
<1>2. WriteAt(s, off, c) = s \o gap \o <<c>>
  BY <1>1 DEF WriteAt
<1>3. gap = <<>>
  BY <1>1
<1>4. s \o gap = s
  BY <1>3, ConcatEmptySeq
<1>5. WriteAt(s, off, c) = Append(s, c)
  BY <1>2, <1>4
<1> DEFINE t == Append(s, c)
<1>6. Len(t) = Len(s) + 1 /\ \A k \in 1 .. Len(s) + 1 : t[k] = IF k = Len(s) + 1 THEN c ELSE s[k]
  BY <1>1
<1> HIDE DEF t
<1>7. Begins(t, slots, d)
  BY <1>1, <1>6 DEF Begins
<1> QED
  BY <1>5, <1>6, <1>7 DEF t

\* What a beginning of a vault looks like to those who read it.
LEMMA BeginsFacts ==
  ASSUME NEW s \in Seq(StoredCell), NEW slots, NEW d, Sound(slots, d), Begins(s, slots, d)
  PROVE  /\ Readable(s) <=> Len(s) >= Len(slots) + 2
         /\ Readable(s) => SlotsOf(s) = slots /\ PayloadStart(s) = Len(slots) + 3 /\ DekOf(s) = d
         /\ Whole(s) <=> Len(s) = FullLen(slots)
<1> DEFINE n == Len(slots)
<1>1. /\ slots \in Seq(Slot) /\ n \in 1 .. MaxSlots /\ Len(s) \in Nat /\ n \in Nat /\ n >= 1
      /\ FullLen(slots) = n + 2 + Chunks /\ Chunks \in Nat /\ Chunks >= 1 /\ d \in Deks
      /\ Len(s) <= FullLen(slots) /\ \A k \in 1 .. Len(s) : s[k] = VaultCell(slots, d, k)
  BY Lengths, LenProperties, VaultFileAssumption, KeySlotsAssumption DEF Sound, SectionFits, Begins
<1> DEFINE Cells(k) == VaultCell(slots, d, k)
<1>2. /\ VaultCell(slots, d, 1) = Header(n)
      /\ \A k \in 2 .. n + 1 : VaultCell(slots, d, k) = SlotCell(slots[k - 1])
      /\ VaultCell(slots, d, n + 2) = SizeCell
      /\ \A k \in n + 3 .. n + 2 + Chunks :
           VaultCell(slots, d, k) = Chunk(d, k - n - 3, k - n - 2 = Chunks)
  BY <1>1 DEF VaultCell
<1> HIDE DEF n
<1>3. Len(s) >= 1 => s # <<>> /\ s[1] = Header(n) /\ s[1].kind = "header" /\ s[1].n = n
  BY <1>1, <1>2, EmptySeq DEF Header
<1>4. Readable(s) => Len(s) >= n + 2
  <2> SUFFICES ASSUME Readable(s) PROVE Len(s) >= n + 2
    OBVIOUS
  <2>1. Len(s) >= 1
    BY <1>1, EmptySeq DEF Readable
  <2> QED
    BY <1>3, <2>1 DEF Readable
<1>5. ASSUME Len(s) >= n + 2
      PROVE  /\ Readable(s) /\ SlotsOf(s) = slots /\ PayloadStart(s) = n + 3 /\ DekOf(s) = d
             /\ Whole(s) <=> Len(s) = FullLen(slots)
  <2>1. s # <<>> /\ s[1].kind = "header" /\ s[1].n = n
    BY <1>1, <1>3, <1>5
  <2>2. \A i \in 2 .. n + 1 : s[i] = SlotCell(slots[i - 1])
    BY <1>1, <1>2, <1>5
  <2>3. s[n + 2] = SizeCell
    BY <1>1, <1>2, <1>5
  <2>4. \A i \in 2 .. n + 1 : s[i].kind = "slot"
    <3>1. \A x : SlotCell(x).kind = "slot"
      BY DEF SlotCell
    <3> QED
      BY <2>2, <3>1
  <2>5. Readable(s)
    <3>1. s[1].n > 0 /\ Len(s) >= s[1].n + 2 /\ s[s[1].n + 2] = SizeCell
      BY <1>1, <1>5, <2>1, <2>3
    <3>2. \A i \in 2 .. s[1].n + 1 : s[i].kind = "slot"
      BY <2>1, <2>4
    <3> QED BY <2>1, <3>1, <3>2, Zenon DEF Readable
  <2>6. \A i \in 1 .. n : s[i + 1].slot = slots[i]
    <3> TAKE i \in 1 .. n
    <3>1. i + 1 \in 2 .. n + 1 /\ i + 1 - 1 = i
      BY <1>1
    <3>2. s[i + 1] = SlotCell(slots[i])
      BY <2>2, <3>1
    <3> QED
      BY <3>2 DEF SlotCell
  <2>7. SlotsOf(s) = slots
    <3>1. slots = [i \in 1 .. n |-> slots[i]]
      BY <1>1, LenProperties DEF n
    <3> QED
      BY <2>1, <2>6, <3>1 DEF SlotsOf
  <2>8. PayloadStart(s) = n + 3
    BY <2>1 DEF PayloadStart
  <2>9. DekOf(s) = d /\ WrapsOnly(SlotsOf(s), d)
    BY <1>1, <2>7 DEF Sound, WrapsOnly, DekOf, n
  <2> DEFINE rest == SubSeq(s, n + 3, Len(s))
  <2>10. /\ Len(rest) = Len(s) - (n + 2)
         /\ \A i \in 1 .. Len(s) - (n + 2) : rest[i] = s[n + 2 + i]
    <3>1. \A i \in n + 3 .. Len(s) : s[i] \in StoredCell
      BY <1>1, ElementOfSeq
    <3>2. n + 3 \in Int /\ Len(s) \in Int
      BY <1>1
    <3>3. /\ Len(rest) = IF n + 3 <= Len(s) THEN Len(s) - (n + 3) + 1 ELSE 0
          /\ \A i \in 1 .. Len(s) - (n + 3) + 1 : rest[i] = s[n + 3 + i - 1]
      BY <3>1, <3>2, SubSeqProperties
    <3> HIDE DEF rest
    <3> QED
      BY <1>1, <1>5, <3>3
  <2>11. /\ Len(Payload(d)) = Chunks /\ DOMAIN Payload(d) = 1 .. Chunks
         /\ \A i \in 1 .. Chunks : Payload(d)[i] = Chunk(d, i - 1, i = Chunks)
    BY <1>1 DEF Payload
  <2>12. rest \in Seq(StoredCell)
    <3>1. \A i \in n + 3 .. Len(s) : s[i] \in StoredCell
      BY <1>1, ElementOfSeq
    <3> QED
      BY <1>1, <3>1, SubSeqProperties
  <2>13. ASSUME Len(s) = FullLen(slots)
         PROVE  Whole(s)
    <3>1. Len(rest) = Chunks /\ DOMAIN rest = 1 .. Chunks
      BY <1>1, <2>10, <2>12, <2>13, LenProperties
    <3>2. ASSUME NEW i \in 1 .. Chunks
          PROVE  rest[i] = Payload(d)[i]
      <4>1. rest[i] = s[n + 2 + i] /\ n + 2 + i \in n + 3 .. n + 2 + Chunks
            /\ n + 2 + i \in 1 .. Len(s)
        BY <1>1, <2>10, <2>13
      <4>2. rest[i] = Chunk(d, (n + 2 + i) - n - 3, (n + 2 + i) - n - 2 = Chunks)
        BY <1>1, <1>2, <4>1
      <4>3. (n + 2 + i) - n - 3 = i - 1 /\ (n + 2 + i) - n - 2 = i
        BY <1>1
      <4> QED
        BY <2>11, <4>2, <4>3
    <3>3. rest = Payload(d)
      BY <2>11, <2>12, <3>1, <3>2, LenProperties DEF Payload
    <3> QED
      BY <1>1, <2>5, <2>8, <2>9, <3>3 DEF Whole
  <2>14. ASSUME Whole(s)
         PROVE  Len(s) = FullLen(slots)
    <3>1. PICK e \in Deks : rest = Payload(e)
      BY <2>8, <2>14 DEF Whole
    <3>2. Len(Payload(e)) = Chunks
      BY <1>1 DEF Payload
    <3> HIDE DEF rest
    <3>3. Len(s) - (n + 2) = Chunks
      BY <2>10, <3>1, <3>2
    <3> QED
      BY <1>1, <3>3
  <2> QED
    BY <2>5, <2>7, <2>8, <2>9, <2>13, <2>14
<1>6. Whole(s) => Readable(s)
  BY DEF Whole
<1>7. Len(s) = FullLen(slots) => Len(s) >= n + 2
  BY <1>1
<1> QED
  BY <1>4, <1>5, <1>6, <1>7 DEF n

\* A stub is no vault.
LEMMA StubFacts ==
  ASSUME NEW s, Stub(s)
  PROVE  ~Readable(s) /\ ~Whole(s) /\ IsVault(s)
<1>1. ~Readable(s)
  BY DEF Stub, Readable, Header
<1> QED
  BY <1>1 DEF Whole, IsVault

-----------------------------------------------------------------------------
(* What the steps of a single writer have in common. *)

\* An edit keeps the key.
LEMMA EditedSound ==
  ASSUME NEW old, NEW d, Sound(old, d), NEW new, Edited(old, new)
  PROVE  new \in Seq(Slot) /\ WrapsOnly(new, d) /\ (SectionFits(new) => Sound(new, d))
<1>1. old \in Seq(Slot) /\ d \in Deks /\ WrapsOnly(old, d)
  BY DEF Sound
<1>2. ASSUME NEW pw \in Passwords, NEW secret \in Passwords, CanRecover(old, {pw}),
             new = Rekeyed(old, pw, secret)
      PROVE  new \in Seq(Slot) /\ WrapsOnly(new, d)
  BY <1>1, <1>2, RekeyedProperties
<1>3. ASSUME NEW cred \in Credentials, NEW secret \in Secrets, CanRecover(old, cred),
             new = Added(old, cred, secret)
      PROVE  new \in Seq(Slot) /\ WrapsOnly(new, d)
  BY <1>1, <1>3, AddedProperties
<1>4. ASSUME NEW i \in 1 .. MaxSlots, Removable(old, i), new = Removed(old, i)
      PROVE  new \in Seq(Slot) /\ WrapsOnly(new, d)
  BY <1>1, <1>4, RemovedProperties DEF Removable
<1> QED
  BY <1>1, <1>2, <1>3, <1>4 DEF Edited, Sound

\* Publishing an edited section is a step of VaultSpec.
LEMMA EditIsAbstract ==
  ASSUME NEW old, NEW d, NEW new, Edited(old, new), SectionFits(new),
         VaultBar = [state |-> "ready", dek |-> d, slots |-> old],
         VaultBar' = [state |-> "ready", dek |-> d, slots |-> new]
  PROVE  Abstract!Next
<1>1. /\ Abstract!IsReady /\ VaultBar.slots = old
      /\ Abstract!Publish(new)
  BY SameOperators DEF Abstract!IsReady, Abstract!Publish, Abstract!Ready
<1>2. ASSUME NEW pw \in Passwords, NEW secret \in Passwords, CanRecover(old, {pw}),
             new = Rekeyed(old, pw, secret)
      PROVE  Abstract!Rekey(pw, secret)
  BY <1>1, <1>2, SameOperators DEF Abstract!Rekey
<1>3. ASSUME NEW cred \in Credentials, NEW secret \in Secrets, CanRecover(old, cred),
             new = Added(old, cred, secret)
      PROVE  Abstract!AddPassword(cred, secret) /\ Abstract!AddRecipient(cred, secret)
  BY <1>1, <1>3, SameOperators DEF Abstract!AddPassword, Abstract!AddRecipient
<1>4. ASSUME NEW i \in 1 .. MaxSlots, Removable(old, i), new = Removed(old, i)
      PROVE  Abstract!RemoveSlot(i)
  BY <1>1, <1>4, SameOperators DEF Abstract!RemoveSlot
<1>5. CASE \E pw, secret \in Passwords : CanRecover(old, {pw}) /\ new = Rekeyed(old, pw, secret)
  BY <1>2, <1>5 DEF Abstract!Next
<1>6. CASE \E cred \in Credentials, secret \in Secrets :
             CanRecover(old, cred) /\ new = Added(old, cred, secret)
  <2>1. PICK cred \in Credentials, secret \in Secrets :
          Abstract!AddPassword(cred, secret) /\ Abstract!AddRecipient(cred, secret)
    BY <1>3, <1>6
  <2>2. cred \in Abstract!Credentials
    BY SameOperators
  <2>3. CASE secret \in Passwords
    BY <2>1, <2>2, <2>3 DEF Abstract!Next
  <2>4. CASE secret \in Identities
    BY <2>1, <2>2, <2>4 DEF Abstract!Next
  <2> QED
    BY <2>3, <2>4 DEF Secrets
<1>7. CASE \E i \in 1 .. MaxSlots : Removable(old, i) /\ new = Removed(old, i)
  BY <1>4, <1>7 DEF Abstract!Next
<1> QED
  BY <1>5, <1>6, <1>7 DEF Edited

\* A step that is nobody's encryption and leaves the vault alone is a stutter of
\* VaultSpec.
LEMMA BarUnchanged ==
  ASSUME dir'.vault = dir.vault, dir.vault # None => data'[dir.vault] = data[dir.vault],
         (\E p \in Writers : wr'[p].pc = "encrypt") <=> (\E p \in Writers : wr[p].pc = "encrypt")
  PROVE  VaultBar' = VaultBar
BY DEF VaultBar

\* What is left of the files after a step.
LeavesBehind(p, new, files, entries) ==
  /\ wr'[p] = new /\ \A q \in Writers : q # p => wr'[q] = wr[q]
  /\ dir' = entries /\ rd' = rd
  /\ Contents(data', entries.vault) = Contents(files, entries.vault)
  /\ Contents(data', entries.tmp) = Contents(files, entries.tmp)
  /\ \A r \in Readers : rd[r].fh # None => data'[rd[r].fh] = files[rd[r].fh]

LEMMA AfterWriterStep ==
  ASSUME IInv, NEW p \in Writers, NEW new, NEW files \in GoodFiles, NEW entries \in Entries,
         WriterStep(p, new, files, entries)
  PROVE  LeavesBehind(p, new, files, entries)
<1>1. /\ wr' = [wr EXCEPT ![p] = new] /\ dir' = entries /\ rd' = rd
      /\ data' = Reclaimed(files, entries, wr', rd)
  BY DEF WriterStep
<1>2. \A i \in Inodes : i \in LiveInodes(entries, wr', rd) => data'[i] = files[i]
  BY <1>1 DEF Reclaimed
<1>3. /\ entries.vault \in LiveInodes(entries, wr', rd) /\ entries.tmp \in LiveInodes(entries, wr', rd)
      /\ \A r \in Readers : rd[r].fh \in LiveInodes(entries, wr', rd)
  <2>1. entries.vault \in LiveInodes(entries, wr', rd) /\ entries.tmp \in LiveInodes(entries, wr', rd)
    BY DEF LiveInodes
  <2>2. ASSUME NEW x \in Readers
        PROVE  rd[x].fh \in LiveInodes(entries, wr', rd)
    BY DEF LiveInodes
  <2> QED
    BY <2>1, <2>2
<1>4. /\ entries.vault \in Inodes \cup {None} /\ entries.tmp \in Inodes \cup {None}
      /\ \A r \in Readers : rd[r].fh \in Inodes \cup {None}
  BY DEF Entries, IInv, ReaderStates
<1> QED
  BY <1>1, <1>2, <1>3, <1>4 DEF LeavesBehind, IInv, Contents

LEMMA AfterReaderStep ==
  ASSUME IInv, NEW r \in Readers, NEW new, ReaderStep(r, new)
  PROVE  /\ rd'[r] = new /\ \A q \in Readers : q # r => rd'[q] = rd[q]
         /\ dir' = dir /\ wr' = wr
         /\ Contents(data', dir.vault) = Contents(data, dir.vault)
         /\ Contents(data', dir.tmp) = Contents(data, dir.tmp)
<1>1. /\ rd' = [rd EXCEPT ![r] = new] /\ dir' = dir /\ wr' = wr
      /\ data' = Reclaimed(data, dir, wr, rd')
  BY DEF ReaderStep
<1>2. \A i \in Inodes : i \in LiveInodes(dir, wr, rd') => data'[i] = data[i]
  BY <1>1 DEF Reclaimed
<1>3. /\ dir.vault \in LiveInodes(dir, wr, rd') /\ dir.tmp \in LiveInodes(dir, wr, rd')
  BY DEF LiveInodes
<1>4. /\ dir.vault \in Inodes \cup {None} /\ dir.tmp \in Inodes \cup {None}
  BY DEF Entries, IInv
<1> QED
  BY <1>1, <1>2, <1>3, <1>4 DEF IInv, Contents

\* What a step of a writer must be: it keeps the invariant, VaultSpec allows it,
\* and if it is no encryption the files that are being read stay as they are.
StepGood(p) ==
  /\ VaultInv'
  /\ Abstract!Next \/ VaultBar' = VaultBar
  /\ wr[p].pc # "encrypt" /\ wr'[p].pc # "encrypt" =>
       \A r \in Readers : rd[r].fh # None => data'[rd[r].fh] = data[rd[r].fh]

\* The invariant after a step of the writer whose turn it is.
LEMMA InvAfter ==
  ASSUME IInv, VaultInv, NEW p \in Writers, Alone(p), NEW new, NEW files \in GoodFiles,
         NEW entries \in Entries, WriterStep(p, new, files, entries),
         EntriesOK(entries, files),
         WriterOK(new, entries, Contents(files, entries.vault), Contents(files, entries.tmp)),
         \A r \in Readers : rd[r].fh # None => rd[r].fh # entries.tmp
  PROVE  VaultInv'
<1>1. /\ wr'[p] = new /\ dir' = entries /\ rd' = rd
      /\ Contents(data', entries.vault) = Contents(files, entries.vault)
      /\ Contents(data', entries.tmp) = Contents(files, entries.tmp)
  <2>1. LeavesBehind(p, new, files, entries)
    BY AfterWriterStep
  <2> QED BY <2>1 DEF LeavesBehind
<1>2. EntriesOK(dir', data')
  BY <1>1 DEF EntriesOK, Contents
<1>3. ASSUME NEW q \in Writers, q # p
      PROVE  WriterOK(wr'[q], entries, Contents(data', entries.vault), Contents(data', entries.tmp))
  <2>1. wr'[q].pc = "idle"
    <3>1. LeavesBehind(p, new, files, entries)
      BY AfterWriterStep
    <3> QED BY <1>3, <3>1 DEF LeavesBehind, Alone
  <2> QED BY <2>1 DEF WriterOK
<1> QED
  BY <1>1, <1>2, <1>3 DEF VaultInv

\* A step of an edit that publishes nothing.
LEMMA QuietEdit ==
  ASSUME IInv, VaultInv, NEW p \in Writers, Alone(p), NEW new, NEW files \in GoodFiles,
         NEW entries \in Entries, WriterStep(p, new, files, entries),
         wr[p].pc # "encrypt", new.pc # "encrypt",
         entries.vault = dir.vault, Contents(files, dir.vault) = Contents(data, dir.vault),
         dir.vault # None => entries.tmp # dir.vault,
         \A r \in Readers :
           rd[r].fh # None => rd[r].fh # entries.tmp /\ files[rd[r].fh] = data[rd[r].fh],
         WriterOK(new, entries, Contents(data, dir.vault), Contents(files, entries.tmp))
  PROVE  StepGood(p)
<1>1. EntriesOK(entries, files)
  BY DEF VaultInv, EntriesOK, Contents
<1>2. VaultInv'
  BY <1>1, InvAfter
<1>3. /\ wr'[p] = new /\ dir' = entries
      /\ Contents(data', entries.vault) = Contents(files, entries.vault)
  <2>1. LeavesBehind(p, new, files, entries)
    BY AfterWriterStep
  <2> QED BY <2>1 DEF LeavesBehind
<1>4. ASSUME NEW x \in Readers, rd[x].fh # None
      PROVE  data'[rd[x].fh] = files[rd[x].fh]
  <2>1. LeavesBehind(p, new, files, entries)
    BY <1>4, AfterWriterStep
  <2> QED BY <2>1, <1>4 DEF LeavesBehind
<1>5. \A q \in Writers : q # p => wr[q].pc = "idle" /\ wr'[q] = wr[q]
  <2>1. LeavesBehind(p, new, files, entries)
    BY AfterWriterStep
  <2> QED BY <2>1 DEF LeavesBehind, Alone
<1>6. VaultBar' = VaultBar
  <2>1. Contents(data', dir.vault) = Contents(data, dir.vault)
    BY <1>3
  <2>2. dir.vault # None => data'[dir.vault] = data[dir.vault]
    BY <2>1 DEF Contents
  <2>3. dir'.vault = dir.vault
    BY <1>3
  <2>4. (\E q \in Writers : wr'[q].pc = "encrypt") <=> (\E q \in Writers : wr[q].pc = "encrypt")
    BY <1>3, <1>5
  <2> QED
    BY <2>2, <2>3, <2>4, BarUnchanged
<1>7. \A r \in Readers : rd[r].fh # None => data'[rd[r].fh] = data[rd[r].fh]
  BY <1>4
<1> QED
  BY <1>2, <1>6, <1>7 DEF StepGood

\* A file created under an entry is nobody else's.
LEMMA CreatedIsNew ==
  ASSUME IInv, VaultInv, NEW entry \in {"vault", "tmp"}, MayCreate(entry)
  PROVE  LET i == CreatedInode(entry) IN
           /\ entry = "tmp" => /\ dir.vault # None => i # dir.vault
                               /\ \A r \in Readers : rd[r].fh # None => i # rd[r].fh
           /\ entry = "vault" => (dir.tmp # None => i # dir.tmp)
<1> DEFINE i == CreatedInode(entry)
<1>1. CASE dir[entry] # None
  BY <1>1 DEF CreatedInode, VaultInv, EntriesOK
<1>2. CASE dir[entry] = None
  <2>1. FreeInodes # {} /\ FreeInodes \subseteq Nat
    BY <1>2, VaultFileAssumption DEF MayCreate, FreeInodes
  <2>2. \E k \in FreeInodes : \A j \in FreeInodes : k <= j
    BY <2>1, LeastNat
  <2>3. Min(FreeInodes) \in FreeInodes
    BY <2>2 DEF Min
  <2>4. i \in FreeInodes
    BY <1>2, <2>3 DEF CreatedInode
  <2>5. i \notin LiveInodes(dir, wr, rd)
    BY <2>4 DEF FreeInodes
  <2> HIDE DEF i
  <2>6. i # dir.vault /\ i # dir.tmp /\ \A r \in Readers : i # rd[r].fh
    <3>1. dir.vault \in LiveInodes(dir, wr, rd) /\ dir.tmp \in LiveInodes(dir, wr, rd)
      BY DEF LiveInodes
    <3>2. ASSUME NEW x \in Readers
          PROVE  rd[x].fh \in LiveInodes(dir, wr, rd)
      BY DEF LiveInodes
    <3> QED
      BY <2>5, <3>1, <3>2
  <2> QED
    BY <2>6 DEF i
<1> QED
  BY <1>1, <1>2

-----------------------------------------------------------------------------
(* The steps of the writer whose turn it is. *)

\* A step of an edit that writes to no file and renames none.
LEMMA IdleEdit ==
  ASSUME IInv, VaultInv, NEW p \in Writers, Alone(p), NEW new, WriterStep(p, new, data, dir),
         wr[p].pc # "encrypt", new.pc # "encrypt",
         WriterOK(new, dir, Contents(data, dir.vault), Contents(data, dir.tmp))
  PROVE  StepGood(p)
<1>1. data \in GoodFiles /\ dir \in Entries
  BY ProcessFacts
<1>2. dir.vault # None => dir.tmp # dir.vault
  BY DEF VaultInv, EntriesOK
<1>3. \A r \in Readers : rd[r].fh # None => rd[r].fh # dir.tmp /\ data[rd[r].fh] = data[rd[r].fh]
  BY DEF VaultInv
<1> QED
  BY <1>1, <1>2, <1>3, QuietEdit

\* Opening the vault, being rejected, failing and being killed.
LEMMA EndingEdit ==
  ASSUME IInv, VaultInv, NEW p \in Writers, Alone(p), wr[p].pc # "encrypt",
         OpenForEdit(p) \/ Reject(p) \/ Fail(p) \/ Crash(p)
  PROVE  StepGood(p)
<1>1. CASE OpenForEdit(p)
  <2> DEFINE new == [IdleWriter EXCEPT !.pc = "opened", !.fh = dir.vault]
  <2>1. WriterStep(p, new, data, dir)
    BY <1>1 DEF OpenForEdit
  <2>2. new.pc = "opened" /\ new.fh = dir.vault /\ new.off = 1 /\ new.buf = None
    BY DEF IdleWriter
  <2> HIDE DEF new
  <2> QED
    BY <2>1, <2>2, IdleEdit DEF WriterOK
<1>2. CASE Reject(p) \/ Crash(p)
  <2>1. WriterStep(p, IdleWriter, data, dir) /\ IdleWriter.pc = "idle"
    BY <1>2 DEF Reject, Crash, IdleWriter
  <2> QED
    BY <2>1, IdleEdit DEF WriterOK
<1>3. CASE Fail(p)
  <2> DEFINE new == [wr[p] EXCEPT !.pc = "cleanup", !.out = None]
  <2>1. WriterStep(p, new, data, dir)
    BY <1>3 DEF Fail
  <2>2. new.pc = "cleanup"
    BY ProcessFacts DEF GoodWriter, WriterStates
  <2> HIDE DEF new
  <2> QED
    BY <2>1, <2>2, IdleEdit DEF WriterOK
<1> QED
  BY <1>1, <1>2, <1>3

\* What the invariant says of a writer at work on a rewrite.
LEMMA AtWork ==
  ASSUME IInv, VaultInv, NEW p \in Writers
  PROVE  /\ GoodWriter(wr[p])
         /\ WriterOK(wr[p], dir, Contents(data, dir.vault), Contents(data, dir.tmp))
         /\ Contents(data, dir.vault) \in Seq(StoredCell)
         /\ Contents(data, dir.tmp) \in Seq(StoredCell)
         /\ wr[p].pc \in {"opened", "create", "write", "copy", "replace"} =>
              /\ wr[p].fh = dir.vault /\ dir.vault # None
              /\ Contents(data, dir.vault) = data[wr[p].fh]
         /\ wr[p].pc \in {"write", "copy"} =>
              /\ wr[p].out = dir.tmp /\ dir.tmp # None
              /\ Contents(data, dir.tmp) = data[wr[p].out]
<1>1. GoodWriter(wr[p])
  BY ProcessFacts
<1>2. WriterOK(wr[p], dir, Contents(data, dir.vault), Contents(data, dir.tmp))
  BY DEF VaultInv
<1>3. <<>> \in Seq(StoredCell)
  BY EmptySeq
<1>4. /\ dir.vault # None => dir.vault \in Inodes
      /\ dir.tmp # None => dir.tmp \in Inodes
  BY DEF IInv, Entries
<1>5. /\ Contents(data, dir.vault) \in Seq(StoredCell)
      /\ Contents(data, dir.tmp) \in Seq(StoredCell)
  BY <1>3, <1>4, ProcessFacts DEF Contents
<1>6. ASSUME wr[p].pc \in {"opened", "create", "write", "copy", "replace"}
      PROVE  /\ wr[p].fh = dir.vault /\ dir.vault # None
             /\ Contents(data, dir.vault) = data[wr[p].fh]
  BY <1>1, <1>2, <1>6 DEF WriterOK, GoodWriter, WriterAtWork, Contents
<1>7. ASSUME wr[p].pc \in {"write", "copy"}
      PROVE  /\ wr[p].out = dir.tmp /\ dir.tmp # None
             /\ Contents(data, dir.tmp) = data[wr[p].out]
  BY <1>1, <1>2, <1>7 DEF WriterOK, GoodWriter, WriterAtWork, Contents
<1> QED
  BY <1>1, <1>2, <1>5, <1>6, <1>7

\* The new section is built from a vault whose section is complete.
LEMMA BuildGood ==
  ASSUME IInv, VaultInv, NEW p \in Writers, Alone(p), MayEdit(p), NEW slots, NEW adds,
         Edited(OldSlots(p), slots), Build(p, slots, adds)
  PROVE  StepGood(p)
<1> DEFINE V == Contents(data, dir.vault)
           T == Contents(data, dir.tmp)
           start == PayloadStart(data[wr[p].fh])
           w == wr[p]
           new == [wr[p] EXCEPT !.pc = "create", !.slots = slots, !.adds = adds, !.pos = start]
<1>1. w.pc = "opened" /\ Readable(data[wr[p].fh]) /\ WriterStep(p, new, data, dir)
  BY DEF MayEdit, Build
<1>2. /\ GoodWriter(w) /\ WriterOK(w, dir, V, T) /\ V \in Seq(StoredCell)
      /\ w.fh = dir.vault /\ dir.vault # None /\ V = data[wr[p].fh]
  BY <1>1, AtWork
<1>3. IsVault(V)
  BY <1>2 DEF VaultInv, EntriesOK
<1>4. PICK old \in Seq(Slot), d \in Deks : Sound(old, d) /\ Begins(V, old, d)
  BY <1>1, <1>2, <1>3, StubFacts DEF IsVault
<1>5. Len(V) >= Len(old) + 2 /\ SlotsOf(V) = old /\ PayloadStart(V) = Len(old) + 3
  BY <1>1, <1>2, <1>4, BeginsFacts
<1>6. Edited(old, slots) /\ start = Len(old) + 3
  BY <1>2, <1>5 DEF OldSlots
<1> HIDE DEF V, T, start
<1>7. w.off = 1 /\ w.buf = None
  BY <1>1, <1>2 DEF WriterOK
<1> HIDE DEF w
<1>8. new = [w EXCEPT !.pc = "create", !.slots = slots, !.adds = adds, !.pos = start]
  BY DEF w
<1>9. /\ new.pc = "create" /\ new.slots = slots /\ new.pos = start /\ new.fh = w.fh
      /\ new.off = w.off /\ new.buf = w.buf
  BY <1>2, <1>8 DEF GoodWriter, WriterStates
<1> HIDE DEF new
<1>10. Editing(new, dir, old, d, V, T)
  BY <1>4, <1>5, <1>6, <1>9 DEF Editing
<1>11. WriterOK(new, dir, V, T)
  BY <1>2, <1>4, <1>7, <1>9, <1>10 DEF WriterOK
<1> QED
  BY <1>1, <1>9, <1>11, IdleEdit DEF V, T, w

LEMMA EditGood ==
  ASSUME IInv, VaultInv, NEW p \in Writers, Alone(p),
         \/ \E old, new \in Passwords : Rekey(p, old, new)
         \/ \E cred \in Credentials, new \in Passwords : AddPassword(p, cred, new)
         \/ \E cred \in Credentials, new \in Identities : AddRecipient(p, cred, new)
         \/ \E i \in 1 .. MaxSlots : RemoveSlot(p, i)
  PROVE  StepGood(p)
<1>1. ASSUME NEW old \in Passwords, NEW new \in Passwords, Rekey(p, old, new)
      PROVE  StepGood(p)
  BY <1>1, BuildGood DEF Rekey, Edited
<1>2. ASSUME NEW cred \in Credentials, NEW new \in Secrets, MayEdit(p),
             CanRecover(OldSlots(p), cred), Build(p, Added(OldSlots(p), cred, new), new)
      PROVE  StepGood(p)
  BY <1>2, BuildGood DEF Edited
<1>3. ASSUME NEW i \in 1 .. MaxSlots, RemoveSlot(p, i)
      PROVE  StepGood(p)
  BY <1>3, BuildGood DEF RemoveSlot, Edited
<1> QED
  BY <1>1, <1>2, <1>3 DEF AddPassword, AddRecipient, Secrets

\* The temporary file is removed.
LEMMA CleanupGood ==
  ASSUME IInv, VaultInv, NEW p \in Writers, Alone(p), Cleanup(p)
  PROVE  StepGood(p)
<1> DEFINE entries == [dir EXCEPT !.tmp = None]
<1>1. /\ wr[p].pc = "cleanup" /\ WriterStep(p, IdleWriter, data, entries)
      /\ IdleWriter.pc = "idle"
  BY DEF Cleanup, IdleWriter
<1>2. /\ entries \in Entries /\ entries.vault = dir.vault /\ entries.tmp = None
      /\ data \in GoodFiles
  BY ProcessFacts DEF Entries
<1>3. WriterOK(IdleWriter, entries, Contents(data, dir.vault), Contents(data, entries.tmp))
  BY <1>1 DEF WriterOK
<1> HIDE DEF entries
<1>4. \A r \in Readers :
        rd[r].fh # None => rd[r].fh # entries.tmp /\ data[rd[r].fh] = data[rd[r].fh]
  BY <1>2
<1>5. wr[p].pc # "encrypt" /\ IdleWriter.pc # "encrypt" /\ (dir.vault # None => entries.tmp # dir.vault)
  BY <1>1, <1>2
<1> QED
  BY <1>1, <1>2, <1>3, <1>4, <1>5, QuietEdit

\* The temporary file is created empty.
LEMMA CreateGood ==
  ASSUME IInv, VaultInv, NEW p \in Writers, Alone(p), CreateTmp(p)
  PROVE  StepGood(p)
<1> DEFINE V == Contents(data, dir.vault)
           T == Contents(data, dir.tmp)
           i == CreatedInode("tmp")
           w == wr[p]
           entries == [dir EXCEPT !.tmp = i]
           files == Truncated(i)
           todo == Prefix(wr[p].slots)
           new == [wr[p] EXCEPT !.pc = "write", !.out = i, !.todo = todo]
<1>1. w.pc = "create" /\ WriterStep(p, new, files, entries) /\ MayCreate("tmp")
  BY DEF CreateTmp
<1>2. /\ i \in Inodes /\ i # None /\ files \in GoodFiles
      /\ dir.vault # None => i # dir.vault
      /\ \A r \in Readers : rd[r].fh # None => i # rd[r].fh
  BY <1>1, CreateFacts, CreatedIsNew
<1>3. /\ GoodWriter(w) /\ WriterOK(w, dir, V, T) /\ w.fh = dir.vault /\ dir.vault # None
  BY <1>1, AtWork
<1> HIDE DEF i
<1>4. /\ entries \in Entries /\ entries.vault = dir.vault /\ entries.tmp = i
  BY <1>2, ProcessFacts DEF Entries
<1>5. /\ \A j \in Inodes : j # i => files[j] = data[j]
      /\ files[i] = <<>>
  BY <1>2, ProcessFacts DEF Truncated, GoodFiles
<1>6. /\ Contents(files, dir.vault) = V /\ Contents(files, entries.tmp) = <<>>
  BY <1>2, <1>3, <1>4, <1>5, ProcessFacts DEF Contents, Entries
<1>7. \A r \in Readers : rd[r].fh # None => rd[r].fh # entries.tmp /\ files[rd[r].fh] = data[rd[r].fh]
  BY <1>2, <1>4, <1>5, ProcessFacts DEF GoodReader, ReaderStates
<1>8. PICK old \in Seq(Slot), d \in Deks : Editing(w, dir, old, d, V, T)
  BY <1>1, <1>3 DEF WriterOK
<1> HIDE DEF V, T, w, todo, entries, files
<1>9. new = [w EXCEPT !.pc = "write", !.out = i, !.todo = todo]
  BY DEF w
<1>10. /\ new.pc = "write" /\ new.out = i /\ new.todo = todo /\ new.slots = w.slots
       /\ new.pos = w.pos /\ new.off = w.off /\ new.buf = w.buf /\ new.fh = w.fh
  BY <1>3, <1>9 DEF GoodWriter, WriterStates
<1> HIDE DEF new
<1>11. w.off = 1 /\ w.buf = None /\ w.pos = Len(old) + 3 /\ Edited(old, w.slots)
  BY <1>1, <1>3, <1>8 DEF WriterOK, Editing
<1>12. ASSUME SectionFits(new.slots)
       PROVE  Begins(<<>>, new.slots, d) /\ Rest(new, <<>>, new.slots, d, Len(new.slots) + 2)
  <2>1. Sound(new.slots, d)
    BY <1>8, <1>10, <1>11, <1>12, EditedSound DEF Editing
  <2>2. /\ Len(todo) = Len(new.slots) + 2
        /\ \A k \in 1 .. Len(new.slots) + 2 : todo[k] = VaultCell(new.slots, d, k)
    BY <1>10, <1>12, <2>1, PrefixCells DEF Sound, todo, w
  <2>3. Len(new.slots) \in Nat /\ FullLen(new.slots) \in Nat /\ Len(<<>>) = 0
    BY <2>1, Lengths DEF Sound
  <2>4. Begins(<<>>, new.slots, d)
    BY <2>3 DEF Begins
  <2>5. \A k \in 1 .. Len(todo) : todo[k] = VaultCell(new.slots, d, 0 + k)
    BY <2>2, <2>3
  <2> QED
    BY <1>10, <1>11, <2>2, <2>3, <2>4, <2>5 DEF Rest
<1>13. Editing(new, entries, old, d, V, <<>>)
  BY <1>8, <1>10, <1>11, <1>12 DEF Editing
<1>14. WriterOK(new, entries, V, <<>>)
  BY <1>3, <1>4, <1>10, <1>11, <1>13 DEF WriterOK
<1>15. wr[p].pc # "encrypt" /\ new.pc # "encrypt" /\ (dir.vault # None => entries.tmp # dir.vault)
  BY <1>1, <1>2, <1>4, <1>10 DEF w
<1>16. Contents(files, dir.vault) = Contents(data, dir.vault)
       /\ WriterOK(new, entries, Contents(data, dir.vault), Contents(files, entries.tmp))
  BY <1>6, <1>14 DEF V
<1> HIDE DEF Alone
<1> QED
  BY <1>1, <1>2, <1>4, <1>7, <1>15, <1>16, QuietEdit

\* A step that writes one cell to the temporary file.
LEMMA TmpGood ==
  ASSUME IInv, VaultInv, NEW p \in Writers, Alone(p), NEW new, NEW cell \in StoredCell,
         NEW off \in Nat \ {0}, wr[p].pc \in {"write", "copy"},
         WriterStep(p, new, [data EXCEPT ![wr[p].out] = WriteAt(@, off, cell)], dir),
         new.pc # "encrypt",
         WriterOK(new, dir, Contents(data, dir.vault),
                  WriteAt(Contents(data, dir.tmp), off, cell))
  PROVE  StepGood(p)
<1> DEFINE T == Contents(data, dir.tmp)
           body == WriteAt(T, off, cell)
           files == [data EXCEPT ![wr[p].out] = WriteAt(@, off, cell)]
<1>1. wr[p].out = dir.tmp /\ dir.tmp # None /\ T = data[dir.tmp] /\ T \in Seq(StoredCell)
  BY AtWork
<1>2. body \in Seq(StoredCell)
  BY <1>1, WriteAtType
<1>3. dir.tmp \in Inodes
  BY <1>1, ProcessFacts DEF Entries
<1>4. files = [data EXCEPT ![dir.tmp] = body]
  BY <1>1
<1> HIDE DEF files, body, T
<1>5. /\ files \in GoodFiles /\ files[dir.tmp] = body
      /\ \A j \in Inodes : j # dir.tmp => files[j] = data[j]
  BY <1>2, <1>3, <1>4, ProcessFacts DEF GoodFiles
<1>6. dir.vault # None => dir.tmp # dir.vault
  BY DEF VaultInv, EntriesOK
<1>7. Contents(files, dir.vault) = Contents(data, dir.vault) /\ Contents(files, dir.tmp) = body
  BY <1>1, <1>5, <1>6, ProcessFacts DEF Contents, Entries
<1>8. \A r \in Readers : rd[r].fh # None => rd[r].fh # dir.tmp /\ files[rd[r].fh] = data[rd[r].fh]
  BY <1>5, ProcessFacts DEF VaultInv, GoodReader, ReaderStates
<1>9. WriterStep(p, new, files, dir) /\ dir \in Entries /\ wr[p].pc # "encrypt"
  BY ProcessFacts DEF files
<1>10. WriterOK(new, dir, Contents(data, dir.vault), Contents(files, dir.tmp))
  BY <1>7 DEF body, T
<1> QED
  BY <1>5, <1>6, <1>7, <1>8, <1>9, <1>10, QuietEdit

\* The new section is written cell by cell.
LEMMA SectionGood ==
  ASSUME IInv, VaultInv, NEW p \in Writers, Alone(p), WriteCell(p), wr[p].pc = "write"
  PROVE  StepGood(p)
<1> DEFINE V == Contents(data, dir.vault)
           T == Contents(data, dir.tmp)
           w == wr[p]
           cell == Head(wr[p].todo)
           body == WriteAt(T, wr[p].off, cell)
           new == Written(wr[p])
<1>1. WriterStep(p, new, [data EXCEPT ![wr[p].out] = WriteAt(@, wr[p].off, cell)], dir)
  BY DEF WriteCell
<1>2. /\ GoodWriter(w) /\ WriterOK(w, dir, V, T) /\ T \in Seq(StoredCell)
      /\ w.fh = dir.vault /\ w.out = dir.tmp /\ w.pc = "write"
  BY AtWork
<1>3. PICK old \in Seq(Slot), d \in Deks : Editing(w, dir, old, d, V, T)
  BY <1>2 DEF WriterOK
<1>4. w.todo \in Seq(StoredCell) /\ w.todo # <<>> /\ w.off \in Nat \ {0}
  BY <1>2 DEF GoodWriter, WriterStates, WriterAtWork
<1>5. /\ cell \in StoredCell /\ cell = w.todo[1] /\ Len(w.todo) \in Nat /\ Len(w.todo) >= 1
      /\ Tail(w.todo) \in Seq(StoredCell) /\ Len(Tail(w.todo)) = Len(w.todo) - 1
      /\ \A k \in 1 .. Len(w.todo) - 1 : Tail(w.todo)[k] = w.todo[k + 1]
  BY <1>4, HeadTailProperties, LenProperties, EmptySeq
<1> HIDE DEF V, w
<1>6. /\ Edited(old, w.slots) /\ w.pos = Len(old) + 3 /\ w.buf = None
      /\ Sound(old, d) /\ Begins(V, old, d) /\ Len(V) >= Len(old) + 2
  BY <1>2, <1>3 DEF Editing, WriterOK
<1>7. /\ new.pc \in {"write", "copy", "cleanup"} /\ new.slots = w.slots /\ new.pos = w.pos
      /\ new.fh = w.fh /\ new.buf = w.buf
      /\ new.pc = "write" <=> Len(w.todo) > 1
      /\ new.pc \in {"write", "copy"} => new.off = w.off + 1 /\ new.out = w.out
      /\ new.pc = "write" => new.todo = Tail(w.todo)
      /\ new.pc = "copy" => SectionFits(w.slots)
  <2>1. new = Written(w)
    BY DEF w
  <2> HIDE DEF new
  <2>2. CASE Len(w.todo) > 1
    <3>1. new = [w EXCEPT !.off = @ + 1, !.todo = Tail(@)]
      BY <2>1, <2>2 DEF Written
    <3> QED
      BY <1>2, <2>2, <3>1 DEF GoodWriter, WriterStates
  <2>3. CASE ~(Len(w.todo) > 1) /\ SectionFits(w.slots)
    <3>1. new = [w EXCEPT !.off = @ + 1, !.todo = <<>>, !.pc = "copy"]
      BY <1>2, <2>1, <2>3 DEF Written
    <3> QED
      BY <1>2, <2>3, <3>1 DEF GoodWriter, WriterStates
  <2>4. CASE ~(Len(w.todo) > 1) /\ ~SectionFits(w.slots)
    <3>1. new = [w EXCEPT !.todo = <<>>, !.out = None, !.pc = "cleanup"]
      BY <1>2, <2>1, <2>4 DEF Written
    <3> QED
      BY <1>2, <2>4, <3>1 DEF GoodWriter, WriterStates
  <2> QED
    BY <2>2, <2>3, <2>4
<1> HIDE DEF new, cell, T
<1>8. body = WriteAt(T, w.off, cell)
  BY DEF w
<1>9. ASSUME SectionFits(w.slots)
      PROVE  /\ Begins(body, w.slots, d) /\ Len(body) = Len(T) + 1 /\ Len(T) \in Nat
             /\ w.off = Len(T) + 1 /\ Len(T) + Len(w.todo) = Len(w.slots) + 2
             /\ \A k \in 1 .. Len(w.todo) : w.todo[k] = VaultCell(w.slots, d, Len(T) + k)
             /\ Len(w.slots) \in Nat
  <2>1. Begins(T, w.slots, d) /\ Rest(w, T, w.slots, d, Len(w.slots) + 2)
    BY <1>2, <1>3, <1>9 DEF Editing
  <2>2. w.slots \in Seq(Slot)
    BY <1>6, EditedSound
  <2>3. /\ Len(w.slots) \in Nat /\ FullLen(w.slots) = Len(w.slots) + 2 + Chunks
        /\ Len(T) \in Nat /\ Chunks \in Nat /\ Chunks >= 1
    BY <1>2, <2>2, Lengths, LenProperties, VaultFileAssumption
  <2>4. /\ w.off = Len(T) + 1 /\ Len(T) + Len(w.todo) = Len(w.slots) + 2
        /\ \A k \in 1 .. Len(w.todo) : w.todo[k] = VaultCell(w.slots, d, Len(T) + k)
    BY <2>1 DEF Rest
  <2>5. Len(T) < FullLen(w.slots)
    BY <1>5, <2>3, <2>4
  <2>6. cell = VaultCell(w.slots, d, w.off)
    BY <1>5, <2>4
  <2> HIDE DEF body
  <2>7. Begins(body, w.slots, d) /\ Len(body) = Len(T) + 1
    BY <1>2, <1>8, <2>1, <2>2, <2>4, <2>5, <2>6, NextCell
  <2> QED
    BY <2>3, <2>4, <2>7
<1> HIDE DEF body
<1>10. ASSUME new.pc = "write", SectionFits(w.slots)
       PROVE  Rest(new, body, w.slots, d, Len(w.slots) + 2)
  <2>1. /\ new.off = Len(body) + 1 /\ new.todo = Tail(w.todo)
        /\ Len(body) + Len(new.todo) = Len(w.slots) + 2
    <3> DEFINE left == Len(w.todo)
               rest == Len(Tail(w.todo))
               size == Len(w.slots)
    <3>1. new.off = w.off + 1 /\ new.todo = Tail(w.todo) /\ rest = left - 1 /\ left \in Nat
      BY <1>5, <1>7, <1>10
    <3>2. /\ w.off = Len(T) + 1 /\ Len(body) = Len(T) + 1 /\ Len(T) \in Nat
          /\ Len(T) + left = size + 2 /\ size \in Nat
      BY <1>9, <1>10
    <3> HIDE DEF rest, left, size
    <3>3. Len(body) + rest = size + 2
      BY <3>1, <3>2
    <3> QED
      BY <3>1, <3>2, <3>3 DEF rest, size
  <2>2. ASSUME NEW k \in 1 .. Len(new.todo)
        PROVE  new.todo[k] = VaultCell(w.slots, d, Len(body) + k)
    <3>1. k \in 1 .. Len(w.todo) - 1 /\ k + 1 \in 1 .. Len(w.todo)
      BY <1>5, <2>1
    <3>2. new.todo[k] = VaultCell(w.slots, d, Len(T) + (k + 1))
      BY <1>5, <1>9, <1>10, <2>1, <3>1
    <3>3. Len(T) + (k + 1) = Len(body) + k
      <4>1. Len(body) = Len(T) + 1 /\ Len(T) \in Nat /\ k \in Nat
        BY <1>9, <1>10, <3>1, LenProperties
      <4> QED
        BY <4>1
    <3> QED
      BY <3>2, <3>3
  <2> QED
    BY <2>1, <2>2 DEF Rest
<1>11. ASSUME new.pc = "copy"
       PROVE  /\ SectionFits(w.slots) /\ Begins(body, w.slots, d) /\ new.off = Len(body) + 1
              /\ new.pos <= Len(V) + 1 /\ new.buf = None /\ new.pos >= Len(old) + 3
              /\ new.pos - Len(old) = new.off - Len(w.slots)
  <2>1. SectionFits(w.slots) /\ Len(w.todo) = 1
    <3> DEFINE n == Len(w.todo)
    <3>1. ~(n > 1) /\ SectionFits(w.slots)
      BY <1>7, <1>11
    <3>2. n \in Nat /\ n >= 1
      BY <1>5
    <3> HIDE DEF n
    <3>3. n = 1
      BY <3>1, <3>2
    <3> QED
      BY <3>1, <3>3 DEF n
  <2>2. Len(body) = Len(w.slots) + 2 /\ new.off = Len(body) + 1 /\ Begins(body, w.slots, d)
    BY <1>7, <1>9, <1>11, <2>1
  <2>3. Len(old) \in Nat /\ Len(w.slots) \in Nat /\ Len(V) \in Nat
    BY <1>6, <1>9, <2>1, Lengths, AtWork, LenProperties DEF V
  <2> QED
    BY <1>6, <1>7, <2>1, <2>2, <2>3
<1>12. ASSUME new.pc \in {"write", "copy"}
       PROVE  Editing(new, dir, old, d, V, body)
  BY <1>6, <1>7, <1>9, <1>10, <1>11, <1>12 DEF Editing
<1>13. WriterOK(new, dir, V, body)
  BY <1>2, <1>6, <1>7, <1>12 DEF WriterOK
<1>14. new.pc # "encrypt" /\ wr[p].pc = "write" /\ wr[p].off \in Nat \ {0}
  BY <1>2, <1>4, <1>7 DEF w
<1>15. WriterOK(new, dir, Contents(data, dir.vault), WriteAt(Contents(data, dir.tmp), wr[p].off, cell))
  BY <1>13 DEF V, T, body
<1> QED
  BY <1>1, <1>5, <1>14, <1>15, TmpGood

\* A chunk keeps its place in the payload when slots are added or removed.
LEMMA ShiftedCell ==
  ASSUME NEW a, NEW b, NEW d, Len(a) \in Nat, Len(b) \in Nat, NEW j \in Nat, NEW k \in Nat,
         j - Len(a) = k - Len(b), j >= Len(a) + 3
  PROVE  VaultCell(a, d, j) = VaultCell(b, d, k)
<1> DEFINE m == Len(a)
           n == Len(b)
<1>1. m \in Nat /\ n \in Nat /\ j - m = k - n /\ j >= m + 3
  OBVIOUS
<1> HIDE DEF m, n
<1>2. j > m + 2 /\ k > n + 2 /\ j - m - 3 = k - n - 3 /\ j - m - 2 = k - n - 2
  BY <1>1
<1>3. j # 1 /\ ~(j <= m + 1) /\ j # m + 2 /\ k # 1 /\ ~(k <= n + 1) /\ k # n + 2
  BY <1>1, <1>2
<1>4. VaultCell(a, d, j) = Chunk(d, j - m - 3, j - m - 2 = Chunks)
  BY <1>3 DEF VaultCell, m
<1>5. VaultCell(b, d, k) = Chunk(d, k - n - 3, k - n - 2 = Chunks)
  BY <1>3 DEF VaultCell, n
<1> QED
  BY <1>2, <1>4, <1>5

\* A block of the old payload is read.
LEMMA CopyReadGood ==
  ASSUME IInv, VaultInv, NEW p \in Writers, Alone(p), CopyRead(p)
  PROVE  StepGood(p)
<1> DEFINE V == Contents(data, dir.vault)
           T == Contents(data, dir.tmp)
           w == wr[p]
           next == V[w.pos]
           after == w.pos + 1
           more == [wr[p] EXCEPT !.buf = next, !.pos = after]
           done == [wr[p] EXCEPT !.pc = "replace", !.out = None]
<1>1. /\ GoodWriter(w) /\ WriterOK(w, dir, V, T) /\ w.pc = "copy" /\ w.buf = None
      /\ V = data[w.fh] /\ V \in Seq(StoredCell) /\ T \in Seq(StoredCell)
      /\ w.fh = dir.vault /\ w.out = dir.tmp
  BY AtWork DEF CopyRead
<1>2. PICK old \in Seq(Slot), d \in Deks : Editing(w, dir, old, d, V, T)
  BY <1>1 DEF WriterOK
<1>3. /\ Sound(old, d) /\ Begins(V, old, d) /\ Len(V) >= Len(old) + 2 /\ Edited(old, w.slots)
      /\ SectionFits(w.slots) /\ Begins(T, w.slots, d) /\ w.off = Len(T) + 1
      /\ w.pos <= Len(V) + 1 /\ w.pos >= Len(old) + 3 /\ w.pos - Len(old) = w.off - Len(w.slots)
  BY <1>1, <1>2 DEF Editing
<1>4. w.slots \in Seq(Slot)
  BY <1>3, EditedSound
<1>5. /\ Len(old) \in Nat /\ Len(w.slots) \in Nat /\ Len(V) \in Nat /\ Len(T) \in Nat
      /\ w.pos \in Nat
  BY <1>1, <1>4, Lengths, LenProperties DEF GoodWriter, WriterStates
<1>6. CASE w.pos <= Len(V)
  <2>1. WriterStep(p, more, data, dir)
    BY <1>1, <1>6 DEF CopyRead
  <2>2. w.pos \in 1 .. Len(V)
    <3> DEFINE m == Len(old)
               n == Len(V)
    <3>1. m \in Nat /\ n \in Nat /\ w.pos \in Nat /\ w.pos >= m + 3 /\ w.pos <= n
      BY <1>3, <1>5, <1>6
    <3> HIDE DEF m, n
    <3>2. w.pos \in 1 .. n
      BY <3>1
    <3> QED
      BY <3>2 DEF n
  <2>3. next \in StoredCell /\ next = VaultCell(old, d, w.pos)
    BY <1>1, <1>3, <2>2, ElementOfSeq DEF Begins
  <2>4. next # None
    BY <2>3, StoredIsCell, NoneIsNoCell
  <2>5. after - 1 = w.pos /\ after <= Len(V) + 1
    BY <1>5, <1>6
  <2> HIDE DEF next, after, w, V, T
  <2>6. /\ more.pc = "copy" /\ more.buf = next /\ more.pos = after /\ more.slots = w.slots
        /\ more.off = w.off /\ more.fh = w.fh /\ more.out = w.out
    BY <1>1 DEF GoodWriter, WriterStates, w
  <2> HIDE DEF more
  <2>7. Editing(more, dir, old, d, V, T)
    BY <1>3, <2>3, <2>4, <2>5, <2>6 DEF Editing
  <2>8. WriterOK(more, dir, V, T)
    BY <1>1, <2>6, <2>7 DEF WriterOK
  <2> QED
    BY <1>1, <2>1, <2>6, <2>8, IdleEdit DEF V, T, w
<1>7. CASE ~(w.pos <= Len(V))
  <2>1. WriterStep(p, done, data, dir)
    BY <1>1, <1>7 DEF CopyRead
  <2>2. Len(T) - Len(w.slots) = Len(V) - Len(old)
    <3> DEFINE m == Len(old)
               n == Len(w.slots)
               v == Len(V)
               t == Len(T)
    <3>1. /\ m \in Nat /\ n \in Nat /\ v \in Nat /\ t \in Nat /\ w.pos \in Nat
          /\ ~(w.pos <= v) /\ w.pos <= v + 1 /\ w.off = t + 1 /\ w.pos - m = w.off - n
      BY <1>3, <1>5, <1>7
    <3> HIDE DEF m, n, v, t
    <3>2. t - n = v - m
      BY <3>1
    <3> QED
      BY <3>2 DEF m, n, v, t
  <2> HIDE DEF w, V, T
  <2>3. /\ done.pc = "replace" /\ done.slots = w.slots /\ done.fh = w.fh
    BY <1>1 DEF GoodWriter, WriterStates, w
  <2> HIDE DEF done
  <2>4. Editing(done, dir, old, d, V, T)
    BY <1>3, <2>2, <2>3 DEF Editing
  <2>5. WriterOK(done, dir, V, T)
    BY <1>1, <2>3, <2>4 DEF WriterOK
  <2> QED
    BY <1>1, <2>1, <2>3, <2>5, IdleEdit DEF V, T, w
<1> QED
  BY <1>6, <1>7

\* The block is written at its place behind the new section.
LEMMA CopyWriteGood ==
  ASSUME IInv, VaultInv, NEW p \in Writers, Alone(p), CopyWrite(p)
  PROVE  StepGood(p)
<1> DEFINE V == Contents(data, dir.vault)
           T == Contents(data, dir.tmp)
           w == wr[p]
           body == WriteAt(T, w.off, w.buf)
           off == w.off + 1
           new == [wr[p] EXCEPT !.off = off, !.buf = None]
<1>1. /\ GoodWriter(w) /\ WriterOK(w, dir, V, T) /\ w.pc = "copy" /\ w.buf # None
      /\ V \in Seq(StoredCell) /\ T \in Seq(StoredCell) /\ w.fh = dir.vault /\ w.out = dir.tmp
      /\ WriterStep(p, new, [data EXCEPT ![wr[p].out] = WriteAt(@, w.off, w.buf)], dir)
  BY AtWork DEF CopyWrite
<1>2. PICK old \in Seq(Slot), d \in Deks : Editing(w, dir, old, d, V, T)
  BY <1>1 DEF WriterOK
<1>3. /\ Sound(old, d) /\ Begins(V, old, d) /\ Len(V) >= Len(old) + 2 /\ Edited(old, w.slots)
      /\ SectionFits(w.slots) /\ Begins(T, w.slots, d) /\ w.off = Len(T) + 1
      /\ w.pos <= Len(V) + 1 /\ w.pos - 1 - Len(old) = w.off - Len(w.slots)
      /\ w.pos - 1 >= Len(old) + 3 /\ w.buf = VaultCell(old, d, w.pos - 1)
  BY <1>1, <1>2 DEF Editing
<1>4. w.slots \in Seq(Slot)
  BY <1>3, EditedSound
<1>5. /\ Len(old) \in Nat /\ Len(w.slots) \in Nat /\ Len(V) \in Nat /\ Len(T) \in Nat
      /\ w.pos \in Nat /\ w.off \in Nat /\ w.off # 0 /\ w.buf \in StoredCell
      /\ FullLen(old) = Len(old) + 2 + Chunks /\ FullLen(w.slots) = Len(w.slots) + 2 + Chunks
      /\ Len(V) <= FullLen(old) /\ Chunks \in Nat
  BY <1>1, <1>3, <1>4, Lengths, LenProperties, VaultFileAssumption
     DEF GoodWriter, WriterStates, Begins
<1>6. /\ w.pos - 1 \in Nat /\ Len(T) < FullLen(w.slots)
      /\ off = Len(T) + 2 /\ w.pos >= Len(old) + 3 /\ w.pos - Len(old) = off - Len(w.slots)
  <2> DEFINE m == Len(old)
             n == Len(w.slots)
             v == Len(V)
             t == Len(T)
             pos == w.pos
             to == w.off
             full == FullLen(w.slots)
  <2>1. /\ m \in Nat /\ n \in Nat /\ v \in Nat /\ t \in Nat /\ pos \in Nat /\ Chunks \in Nat
        /\ to = t + 1 /\ pos <= v + 1 /\ pos - 1 - m = to - n /\ pos - 1 >= m + 3
        /\ v <= m + 2 + Chunks /\ off = to + 1 /\ full = n + 2 + Chunks
    BY <1>3, <1>5
  <2> HIDE DEF m, n, v, t, pos, to, full, off
  <2>2. pos - 1 \in Nat /\ pos >= m + 3 /\ off = t + 2
    BY <2>1
  <2>3. pos - m = off - n
    BY <2>1, <2>2
  <2>4. t < full
    <3>1. pos - m <= Chunks + 3
      BY <2>1
    <3>2. t + 2 - n <= Chunks + 3
      BY <2>1, <2>2, <2>3, <3>1
    <3> QED
      BY <2>1, <2>2, <2>3
  <2> QED
    BY <2>2, <2>3, <2>4 DEF m, n, t, pos, full
<1>7. w.buf = VaultCell(w.slots, d, w.off)
  <2> DEFINE at == w.pos - 1
             slots == w.slots
             to == w.off
  <2>1. /\ Len(old) \in Nat /\ Len(slots) \in Nat /\ at \in Nat /\ to \in Nat
        /\ at - Len(old) = to - Len(slots) /\ at >= Len(old) + 3
    BY <1>3, <1>5, <1>6
  <2> HIDE DEF at, slots, to
  <2>2. VaultCell(old, d, at) = VaultCell(slots, d, to)
    BY <2>1, ShiftedCell
  <2> QED
    BY <1>3, <2>2 DEF at, slots, to
<1>8. Begins(body, w.slots, d) /\ Len(body) = Len(T) + 1
  BY <1>1, <1>3, <1>4, <1>6, <1>7, NextCell
<1>9. off = Len(body) + 1
  <2> HIDE DEF body, off
  <2> QED
    BY <1>5, <1>6, <1>8
<1> HIDE DEF w, V, T, body, off
<1>10. /\ new.pc = "copy" /\ new.buf = None /\ new.pos = w.pos /\ new.slots = w.slots
       /\ new.off = off /\ new.fh = w.fh /\ new.out = w.out
  BY <1>1 DEF GoodWriter, WriterStates, w
<1> HIDE DEF new
<1>11. Editing(new, dir, old, d, V, body)
  BY <1>3, <1>6, <1>8, <1>9, <1>10 DEF Editing
<1>12. WriterOK(new, dir, V, body)
  BY <1>1, <1>10, <1>11 DEF WriterOK
<1>13. WriterOK(new, dir, Contents(data, dir.vault), WriteAt(Contents(data, dir.tmp), w.off, w.buf))
  BY <1>12 DEF V, T, body
<1>14. w.off \in Nat \ {0} /\ w.buf \in StoredCell /\ new.pc # "encrypt" /\ wr[p].pc \in {"write", "copy"}
  BY <1>1, <1>5, <1>10 DEF w
<1> QED
  BY <1>1, <1>13, <1>14, TmpGood

\* Publishing: the vault with its new section takes the place of the old one, whole
\* if the old one was whole.
LEMMA ReplaceGood ==
  ASSUME IInv, VaultInv, NEW p \in Writers, Alone(p), Replace(p)
  PROVE  StepGood(p)
<1> DEFINE V == Contents(data, dir.vault)
           T == Contents(data, dir.tmp)
           w == wr[p]
           entries == [vault |-> dir.tmp, tmp |-> None]
<1>1. /\ GoodWriter(w) /\ WriterOK(w, dir, V, T) /\ w.pc = "replace"
      /\ V \in Seq(StoredCell) /\ T \in Seq(StoredCell)
      /\ w.fh = dir.vault /\ dir.vault # None /\ V = data[dir.vault]
  BY AtWork DEF Replace
<1>2. PICK old \in Seq(Slot), d \in Deks : Editing(w, dir, old, d, V, T)
  BY <1>1 DEF WriterOK
<1>3. /\ Sound(old, d) /\ Begins(V, old, d) /\ Edited(old, w.slots) /\ SectionFits(w.slots)
      /\ dir.tmp # None => Begins(T, w.slots, d) /\ Len(T) - Len(w.slots) = Len(V) - Len(old)
  BY <1>1, <1>2 DEF Editing
<1>4. Sound(w.slots, d)
  BY <1>3, EditedSound
<1>5. CASE dir.tmp = None
  <2> DEFINE new == [wr[p] EXCEPT !.pc = "cleanup"]
  <2>1. WriterStep(p, new, data, dir)
    BY <1>5 DEF Replace
  <2>2. new.pc = "cleanup"
    BY <1>1 DEF GoodWriter, WriterStates
  <2> HIDE DEF new
  <2>3. WriterOK(new, dir, V, T)
    BY <2>2 DEF WriterOK
  <2> QED
    BY <1>1, <2>1, <2>2, <2>3, IdleEdit
<1>6. CASE dir.tmp # None
  <2>1. WriterStep(p, IdleWriter, data, entries) /\ IdleWriter.pc = "idle"
    BY <1>6 DEF Replace, IdleWriter
  <2>2. /\ entries \in Entries /\ entries.vault = dir.tmp /\ entries.tmp = None /\ data \in GoodFiles
    BY ProcessFacts DEF Entries
  <2>3. T = data[dir.tmp]
    BY <1>6 DEF Contents
  <2>4. IsVault(T)
    BY <1>3, <1>4, <1>6 DEF IsVault, Sound
  <2> HIDE DEF entries
  <2>5. EntriesOK(entries, data)
    BY <1>6, <2>2, <2>3, <2>4 DEF EntriesOK
  <2>6. WriterOK(IdleWriter, entries, Contents(data, entries.vault), Contents(data, entries.tmp))
    BY <2>1 DEF WriterOK
  <2>7. \A r \in Readers : rd[r].fh # None => rd[r].fh # entries.tmp
    BY <2>2
  <2>8. VaultInv'
    BY <2>1, <2>2, <2>5, <2>6, <2>7, InvAfter
  <2>9. /\ wr'[p] = IdleWriter /\ dir' = entries
        /\ Contents(data', entries.vault) = Contents(data, entries.vault)
    <3>1. LeavesBehind(p, IdleWriter, data, entries)
      BY <2>1, <2>2, AfterWriterStep
    <3> QED BY <3>1, <2>1, <2>2 DEF LeavesBehind
  <2>10. ASSUME NEW x \in Readers, rd[x].fh # None
         PROVE  data'[rd[x].fh] = data[rd[x].fh]
    <3>1. LeavesBehind(p, IdleWriter, data, entries)
      BY <2>1, <2>2, <2>10, AfterWriterStep
    <3> QED BY <3>1, <2>1, <2>2, <2>10 DEF LeavesBehind
  <2>11. /\ ~\E q \in Writers : wr[q].pc = "encrypt"
         /\ ~\E q \in Writers : wr'[q].pc = "encrypt"
    <3>1. LeavesBehind(p, IdleWriter, data, entries)
      BY <2>1, <2>2, AfterWriterStep
    <3> QED BY <1>1, <2>1, <2>9, <3>1 DEF LeavesBehind, Alone
  <2>12. dir'.vault # None /\ data'[dir'.vault] = T
    BY <1>6, <2>2, <2>3, <2>9 DEF Contents
  <2>13. VaultBar = IF Whole(V) THEN [state |-> "ready", dek |-> DekOf(V), slots |-> SlotsOf(V)]
                    ELSE [state |-> "partial"]
    BY <1>1, <2>11 DEF VaultBar
  <2>14. VaultBar' = IF Whole(T) THEN [state |-> "ready", dek |-> DekOf(T), slots |-> SlotsOf(T)]
                     ELSE [state |-> "partial"]
    BY <2>11, <2>12 DEF VaultBar
  <2>15. /\ Whole(V) <=> Len(V) = FullLen(old)
         /\ Whole(V) => DekOf(V) = d /\ SlotsOf(V) = old
    BY <1>1, <1>3, BeginsFacts DEF Whole
  <2>16. /\ Whole(T) <=> Len(T) = FullLen(w.slots)
         /\ Whole(T) => DekOf(T) = d /\ SlotsOf(T) = w.slots
    BY <1>1, <1>3, <1>4, <1>6, BeginsFacts DEF Whole
  <2>17. Whole(V) <=> Whole(T)
    <3> DEFINE m == Len(old)
               n == Len(w.slots)
               v == Len(V)
               t == Len(T)
    <3>1. /\ m \in Nat /\ n \in Nat /\ v \in Nat /\ t \in Nat /\ Chunks \in Nat
          /\ FullLen(old) = m + 2 + Chunks /\ FullLen(w.slots) = n + 2 + Chunks
          /\ t - n = v - m
      BY <1>1, <1>3, <1>4, <1>6, Lengths, LenProperties, VaultFileAssumption DEF Sound
    <3> HIDE DEF m, n, v, t
    <3>2. v = FullLen(old) <=> t = FullLen(w.slots)
      BY <3>1
    <3> QED
      BY <2>15, <2>16, <3>2 DEF v, t
  <2>18. Abstract!Next \/ VaultBar' = VaultBar
    <3>1. CASE Whole(V)
      <4>1. /\ VaultBar = [state |-> "ready", dek |-> d, slots |-> old]
            /\ VaultBar' = [state |-> "ready", dek |-> d, slots |-> w.slots]
        BY <2>13, <2>14, <2>15, <2>16, <2>17, <3>1
      <4> QED
        BY <1>3, <4>1, EditIsAbstract
    <3>2. CASE ~Whole(V)
      BY <2>13, <2>14, <2>17, <3>2
    <3> QED
      BY <3>1, <3>2
  <2> QED
    BY <2>8, <2>10, <2>18 DEF StepGood
<1> QED
  BY <1>5, <1>6

-----------------------------------------------------------------------------
(* Encrypting. *)

\* The section of a new vault wraps one key.
LEMMA BuiltIsSound ==
  ASSUME NEW d \in Deks, NEW lists \in SecretLists
  PROVE  LET slots == BuiltSlots(d, lists[1], lists[2]) IN
           slots \in Seq(Slot) /\ (SectionFits(slots) => Sound(slots, d))
<1> DEFINE slots == BuiltSlots(d, lists[1], lists[2])
<1>1. lists[1] \in Seq(Passwords) /\ lists[2] \in Seq(Identities)
  <2>1. lists[1] \in BoundedSeq(Passwords, MaxSlots + 1)
        /\ lists[2] \in BoundedSeq(Identities, MaxSlots + 1)
    BY DEF SecretLists
  <2>2. MaxSlots + 1 \in Nat /\ 0 .. MaxSlots + 1 \subseteq Nat
    BY KeySlotsAssumption
  <2> QED
    BY <2>1, <2>2, FunctionIsSeq DEF BoundedSeq, SeqOf
<1>2. slots \in Seq(Slot) /\ Len(slots) = Len(lists[1]) + Len(lists[2])
  BY <1>1, BuiltSlotsType
<1>3. WrapsOnly(slots, d)
  BY <1>2 DEF WrapsOnly, BuiltSlots, Wrap
<1> QED
  BY <1>2, <1>3 DEF Sound

\* The destination is emptied.
LEMMA EncryptGood ==
  ASSUME IInv, VaultInv, NEW p \in Writers, Alone(p), NEW d \in Deks, NEW lists \in SecretLists,
         Encrypt(p, d, lists[1], lists[2])
  PROVE  StepGood(p)
<1> DEFINE slots == BuiltSlots(d, lists[1], lists[2])
           todo == Prefix(slots) \o (IF SectionFits(slots) THEN Payload(d) ELSE <<>>)
           i == CreatedInode("vault")
           new == [IdleWriter EXCEPT !.pc = "encrypt", !.out = i, !.todo = todo]
           entries == [dir EXCEPT !.vault = i]
           files == Truncated(i)
<1>1. wr[p].pc = "idle" /\ MayCreate("vault") /\ WriterStep(p, new, files, entries)
  BY DEF Encrypt
<1>2. /\ i \in Inodes /\ i # None /\ files \in GoodFiles /\ (dir.tmp # None => i # dir.tmp)
  BY <1>1, CreateFacts, CreatedIsNew
<1>3. slots \in Seq(Slot) /\ (SectionFits(slots) => Sound(slots, d))
  BY BuiltIsSound
<1> HIDE DEF i, slots
<1>4. /\ entries \in Entries /\ entries.vault = i /\ entries.tmp = dir.tmp
  BY <1>2, ProcessFacts DEF Entries
<1>5. files[i] = <<>>
  BY <1>2, ProcessFacts DEF Truncated, GoodFiles
<1>6. ASSUME SectionFits(slots)
      PROVE  Begins(<<>>, slots, d) /\ Len(todo) = FullLen(slots)
             /\ \A k \in 1 .. Len(todo) : todo[k] = VaultCell(slots, d, k)
  <2>1. Len(<<>>) = 0 /\ FullLen(slots) \in Nat
    BY <1>3, Lengths
  <2>2. Begins(<<>>, slots, d)
    BY <2>1 DEF Begins
  <2>3. todo = Prefix(slots) \o Payload(d)
    BY <1>6
  <2> HIDE DEF todo
  <2>4. Len(todo) = FullLen(slots) /\ \A k \in 1 .. FullLen(slots) : todo[k] = VaultCell(slots, d, k)
    BY <1>3, <1>6, <2>3, WholeCells
  <2> QED
    BY <2>2, <2>4
<1>7. ASSUME ~SectionFits(slots)
      PROVE  todo = <<Header(0)>>
  <2>1. Prefix(slots) = <<Header(0)>> /\ todo = <<Header(0)>> \o <<>>
    BY <1>7 DEF Prefix
  <2>2. <<Header(0)>> \in Seq({Header(0)})
    OBVIOUS
  <2> QED
    BY <2>1, <2>2, ConcatEmptySeq
<1>8. new.pc = "encrypt" /\ new.out = i /\ new.todo = todo /\ new.off = 1
  BY DEF IdleWriter
<1> HIDE DEF new, todo, entries, files
<1>9. Encrypting(new, <<>>)
  <2>1. CASE SectionFits(slots)
    <3>1. Len(<<>>) = 0 /\ FullLen(slots) \in Nat
      BY <1>3, Lengths
    <3>2. \A k \in 1 .. Len(todo) : todo[k] = VaultCell(slots, d, 0 + k)
      BY <1>6, <2>1, <3>1
    <3>3. Rest(new, <<>>, slots, d, FullLen(slots))
      BY <1>6, <1>8, <2>1, <3>1, <3>2 DEF Rest
    <3> QED
      BY <1>3, <1>6, <2>1, <3>3 DEF Encrypting
  <2>2. CASE ~SectionFits(slots)
    BY <1>7, <1>8, <2>2 DEF Encrypting
  <2> QED
    BY <2>1, <2>2
<1>10. Contents(files, entries.vault) = <<>>
  BY <1>4, <1>5 DEF Contents
<1>11. WriterOK(new, entries, Contents(files, entries.vault), Contents(files, entries.tmp))
  BY <1>4, <1>8, <1>9, <1>10 DEF WriterOK
<1>12. EntriesOK(entries, files)
  BY <1>2, <1>4, <1>5, StubFacts DEF EntriesOK, Stub
<1>13. \A r \in Readers : rd[r].fh # None => rd[r].fh # entries.tmp
  BY <1>4 DEF VaultInv
<1>14. VaultInv'
  BY <1>1, <1>2, <1>4, <1>11, <1>12, <1>13, InvAfter
<1>15. wr'[p].pc = "encrypt"
  <2>1. LeavesBehind(p, new, files, entries)
    BY <1>1, <1>2, <1>4, <1>8, AfterWriterStep
  <2> QED BY <2>1, <1>1, <1>2, <1>4, <1>8 DEF LeavesBehind
<1>16. VaultBar' = [state |-> "encrypting"] /\ VaultBar # [state |-> "encrypting"]
  <2>1. ~\E q \in Writers : wr[q].pc = "encrypt"
    BY <1>1 DEF Alone
  <2> QED
    BY <1>15, <2>1 DEF VaultBar
<1>17. Abstract!EncryptStarts
  BY <1>16 DEF Abstract!EncryptStarts, Abstract!Encrypting
<1> QED
  BY <1>14, <1>15, <1>17 DEF StepGood, Abstract!Next

\* A vault with a sound section is one VaultSpec may end an encryption with.
LEMMA SoundIsReady ==
  ASSUME NEW slots, NEW d, Sound(slots, d)
  PROVE  \E n \in 1 .. MaxSlots : \E secrets \in [1 .. n -> Secrets] :
           slots = [i \in 1 .. n |-> Wrap(secrets[i], d)]
<1> DEFINE n == Len(slots)
           secrets == [i \in 1 .. n |-> slots[i].secret]
<1>1. n \in 1 .. MaxSlots /\ slots \in Seq(Slot) /\ \A i \in 1 .. n : slots[i].dek = d
  BY DEF Sound, SectionFits, WrapsOnly
<1>2. \A i \in 1 .. n : slots[i] \in Slot
  BY <1>1, ElementOfSeq
<1>3. secrets \in [1 .. n -> Secrets]
  BY <1>2 DEF Slot
<1>4. \A i \in 1 .. n : slots[i] = Wrap(secrets[i], d)
  BY <1>1, <1>2 DEF Slot, Wrap
<1>5. slots = [i \in 1 .. n |-> slots[i]]
  BY <1>1, LenProperties
<1> HIDE DEF secrets
<1>6. slots = [i \in 1 .. n |-> Wrap(secrets[i], d)]
  BY <1>4, <1>5
<1> QED
  BY <1>1, <1>3, <1>6

\* The end of an encryption, finished or not.
LEMMA EndOfEncryption ==
  ASSUME IInv, VaultInv, NEW p \in Writers, Alone(p), wr[p].pc = "encrypt", NEW files \in GoodFiles,
         WriterStep(p, IdleWriter, files, dir), IsVault(Contents(files, dir.vault)),
         \/ ~Whole(Contents(files, dir.vault))
         \/ \E slots, d : Sound(slots, d) /\ Whole(Contents(files, dir.vault))
                          /\ DekOf(Contents(files, dir.vault)) = d
                          /\ SlotsOf(Contents(files, dir.vault)) = slots
  PROVE  StepGood(p)
<1> DEFINE W == Contents(files, dir.vault)
<1>1. /\ wr[p].out # None /\ wr[p].out = dir.vault /\ dir \in Entries
  BY ProcessFacts DEF VaultInv, WriterOK, GoodWriter, WriterAtWork
<1>2. EntriesOK(dir, files)
  BY <1>1 DEF EntriesOK, VaultInv, Contents
<1>3. WriterOK(IdleWriter, dir, W, Contents(files, dir.tmp)) /\ IdleWriter.pc = "idle"
  BY DEF WriterOK, IdleWriter
<1>4. \A r \in Readers : rd[r].fh # None => rd[r].fh # dir.tmp
  BY DEF VaultInv
<1>5. VaultInv'
  BY <1>1, <1>2, <1>3, <1>4, InvAfter
<1>6. wr'[p] = IdleWriter /\ dir' = dir /\ Contents(data', dir.vault) = W
  <2>1. LeavesBehind(p, IdleWriter, files, dir)
    BY <1>1, AfterWriterStep
  <2> QED BY <2>1, <1>1 DEF LeavesBehind
<1>7. VaultBar = [state |-> "encrypting"]
  BY DEF VaultBar
<1>8. ~\E q \in Writers : wr'[q].pc = "encrypt"
  <2>1. LeavesBehind(p, IdleWriter, files, dir)
    BY <1>1, AfterWriterStep
  <2> QED BY <1>3, <1>6, <2>1 DEF LeavesBehind, Alone
<1>9. dir'.vault # None /\ data'[dir'.vault] = W
  BY <1>1, <1>6 DEF Contents
<1> HIDE DEF W
<1>10. VaultBar' = IF Whole(W) THEN [state |-> "ready", dek |-> DekOf(W), slots |-> SlotsOf(W)]
                   ELSE [state |-> "partial"]
  BY <1>8, <1>9 DEF VaultBar
<1>11. CASE ~Whole(W)
  <2>1. Abstract!EncryptFails
    BY <1>7, <1>10, <1>11 DEF Abstract!EncryptFails, Abstract!Encrypting, Abstract!PartialVault
  <2> QED
    BY <1>5, <2>1 DEF StepGood, Abstract!Next
<1>12. CASE Whole(W)
  <2>1. PICK slots, d : Sound(slots, d) /\ DekOf(W) = d /\ SlotsOf(W) = slots
    BY <1>12 DEF W
  <2>2. PICK n \in 1 .. MaxSlots : \E secrets \in [1 .. n -> Secrets] :
          slots = [i \in 1 .. n |-> Wrap(secrets[i], d)]
    BY <2>1, SoundIsReady
  <2>3. PICK secrets \in [1 .. n -> Secrets] : slots = [i \in 1 .. n |-> Wrap(secrets[i], d)]
    BY <2>2
  <2>4. VaultBar' = Abstract!Ready(d, [i \in 1 .. n |-> Abstract!Wrap(secrets[i], d)])
    BY <1>10, <1>12, <2>1, <2>3, SameOperators DEF Abstract!Ready
  <2>5. Abstract!EncryptEnds
    BY <1>7, <2>1, <2>4, SameOperators DEF Abstract!EncryptEnds, Abstract!Encrypting, Sound
  <2> QED
    BY <1>5, <2>5 DEF StepGood, Abstract!Next
<1> QED
  BY <1>11, <1>12

\* An encryption that fails or is killed leaves a partial vault.
LEMMA EncryptFailsGood ==
  ASSUME IInv, VaultInv, NEW p \in Writers, Alone(p), wr[p].pc = "encrypt",
         EncryptFails(p) \/ Crash(p)
  PROVE  StepGood(p)
<1> DEFINE V == Contents(data, dir.vault)
           w == wr[p]
<1>1. /\ GoodWriter(w) /\ WriterOK(w, dir, V, Contents(data, dir.tmp)) /\ V \in Seq(StoredCell)
  BY AtWork
<1>2. WriterStep(p, IdleWriter, data, dir) /\ data \in GoodFiles
  BY ProcessFacts DEF EncryptFails, Crash
<1>3. Encrypting(w, V) /\ w.todo # <<>> /\ w.todo \in Seq(StoredCell) /\ w.out # None /\ w.out = dir.vault
  BY <1>1 DEF WriterOK, GoodWriter, WriterAtWork, WriterStates
<1>4. IsVault(V)
  BY <1>3 DEF VaultInv, EntriesOK, Contents
<1>5. ~Whole(V)
  <2>1. CASE V = <<>>
    BY <2>1, StubFacts DEF Stub
  <2>2. CASE V # <<>>
    <3>1. PICK slots \in Seq(Slot), d \in Deks :
            Sound(slots, d) /\ Begins(V, slots, d) /\ Rest(w, V, slots, d, FullLen(slots))
      BY <1>3, <2>2 DEF Encrypting
    <3> DEFINE left == Len(w.todo)
               v == Len(V)
    <3>2. left \in Nat /\ left # 0 /\ v \in Nat /\ v + left = FullLen(slots)
      BY <1>1, <1>3, <3>1, LenProperties, EmptySeq DEF Rest
    <3> HIDE DEF left, v
    <3>3. v # FullLen(slots)
      BY <3>2
    <3> QED
      BY <1>1, <3>1, <3>3, BeginsFacts DEF v
  <2> QED
    BY <2>1, <2>2
<1> QED
  BY <1>2, <1>4, <1>5, EndOfEncryption

\* One cell of the new vault is written, the last one ends the encryption.
LEMMA CellGood ==
  ASSUME IInv, VaultInv, NEW p \in Writers, Alone(p), WriteCell(p), wr[p].pc = "encrypt"
  PROVE  StepGood(p)
<1> DEFINE V == Contents(data, dir.vault)
           w == wr[p]
           cell == Head(wr[p].todo)
           off == wr[p].off
           body == WriteAt(V, off, cell)
           new == Written(wr[p])
           files == [data EXCEPT ![wr[p].out] = WriteAt(@, off, cell)]
<1>1. /\ WriterStep(p, new, files, dir) /\ GoodWriter(w) /\ V \in Seq(StoredCell)
      /\ WriterOK(w, dir, V, Contents(data, dir.tmp)) /\ w.pc = "encrypt"
  BY AtWork DEF WriteCell
<1>2. /\ w.out = dir.vault /\ dir.vault # None /\ Encrypting(w, V) /\ V = data[dir.vault]
      /\ dir.vault \in Inodes
  BY <1>1, ProcessFacts DEF WriterOK, GoodWriter, WriterAtWork, Contents, Entries
<1>3. w.todo \in Seq(StoredCell) /\ w.todo # <<>> /\ off \in Nat \ {0}
  BY <1>1 DEF GoodWriter, WriterStates, WriterAtWork
<1>4. /\ cell \in StoredCell /\ cell = w.todo[1] /\ Len(w.todo) \in Nat /\ Len(w.todo) >= 1
      /\ Tail(w.todo) \in Seq(StoredCell) /\ Len(Tail(w.todo)) = Len(w.todo) - 1
      /\ \A k \in 1 .. Len(w.todo) - 1 : Tail(w.todo)[k] = w.todo[k + 1]
  BY <1>3, HeadTailProperties, LenProperties, EmptySeq
<1>5. body \in Seq(StoredCell)
  BY <1>1, <1>3, <1>4, WriteAtType
<1>6. files = [data EXCEPT ![dir.vault] = body]
  BY <1>2
<1> HIDE DEF files, body, cell, V
<1>7. files \in GoodFiles /\ Contents(files, dir.vault) = body
  BY <1>2, <1>5, <1>6, ProcessFacts DEF GoodFiles, Contents
<1>8. CASE Len(w.todo) > 1
  <2>1. PICK slots \in Seq(Slot), d \in Deks :
          Sound(slots, d) /\ Begins(V, slots, d) /\ Rest(w, V, slots, d, FullLen(slots))
    <3>1. w.todo # <<Header(0)>>
      <4> DEFINE one == <<Header(0)>>
      <4>1. Len(one) = 1
        OBVIOUS
      <4> HIDE DEF one
      <4>2. ASSUME w.todo = one
            PROVE  FALSE
        <5>1. Len(w.todo) = 1
          BY <4>1, <4>2
        <5>2. 1 > 1
          BY <1>8, <5>1
        <5> QED
          BY <5>2
      <4> QED
        BY <4>2 DEF one
    <3> QED
      BY <1>2, <3>1 DEF Encrypting
  <2>2. new = [w EXCEPT !.off = off + 1, !.todo = Tail(w.todo)]
    BY <1>8 DEF Written
  <2>3. /\ new.pc = "encrypt" /\ new.off = off + 1 /\ new.todo = Tail(w.todo) /\ new.out = w.out
    BY <1>1, <2>2 DEF GoodWriter, WriterStates
  <2>4. /\ off = Len(V) + 1 /\ Len(V) + Len(w.todo) = FullLen(slots) /\ Len(V) \in Nat
        /\ \A k \in 1 .. Len(w.todo) : w.todo[k] = VaultCell(slots, d, Len(V) + k)
        /\ FullLen(slots) \in Nat
    BY <1>1, <2>1, Lengths, LenProperties DEF Rest
  <2> HIDE DEF new, off
  <2>5. cell = VaultCell(slots, d, off)
    BY <1>4, <2>4
  <2> DEFINE left == Len(w.todo)
             v == Len(V)
  <2>6. v < FullLen(slots)
    <3>1. left \in Nat /\ left >= 1 /\ v + left = FullLen(slots) /\ v \in Nat
      BY <1>4, <2>4
    <3> HIDE DEF left, v
    <3> QED
      BY <3>1
  <2>7. Begins(body, slots, d) /\ Len(body) = Len(V) + 1
    BY <1>1, <2>1, <2>4, <2>5, <2>6, NextCell DEF body
  <2>8. Rest(new, body, slots, d, FullLen(slots))
    <3>1. new.off = Len(body) + 1
      BY <2>3, <2>4, <2>7
    <3>2. Len(body) + Len(new.todo) = FullLen(slots)
      <4> DEFINE rest == Len(Tail(w.todo))
      <4>1. rest = left - 1 /\ left \in Nat /\ v + left = FullLen(slots) /\ v \in Nat
            /\ Len(body) = v + 1
        BY <1>4, <2>4, <2>7
      <4> HIDE DEF rest, left, v
      <4>2. Len(body) + rest = FullLen(slots)
        BY <4>1
      <4> QED
        BY <2>3, <4>2 DEF rest
    <3>3. ASSUME NEW k \in 1 .. Len(new.todo)
          PROVE  new.todo[k] = VaultCell(slots, d, Len(body) + k)
      <4>1. k \in 1 .. Len(w.todo) - 1 /\ k + 1 \in 1 .. Len(w.todo)
        BY <1>4, <2>3
      <4>2. new.todo[k] = VaultCell(slots, d, Len(V) + (k + 1))
        BY <1>4, <2>3, <2>4, <4>1
      <4>3. Len(V) + (k + 1) = Len(body) + k
        <5>1. k \in Nat /\ Len(V) \in Nat /\ Len(body) = Len(V) + 1
          BY <2>4, <2>7, <4>1, <1>4
        <5> QED
          BY <5>1
      <4> QED
        BY <4>2, <4>3
    <3> QED
      BY <3>1, <3>2, <3>3 DEF Rest
  <2>9. WriterOK(new, dir, Contents(files, dir.vault), Contents(files, dir.tmp))
    BY <1>2, <1>7, <2>1, <2>3, <2>7, <2>8 DEF WriterOK, Encrypting
  <2>10. EntriesOK(dir, files)
    <3>1. IsVault(body)
      BY <2>1, <2>7 DEF IsVault
    <3> QED
      BY <1>2, <1>7, <3>1 DEF EntriesOK, VaultInv, Contents
  <2>11. \A r \in Readers : rd[r].fh # None => rd[r].fh # dir.tmp
    BY DEF VaultInv
  <2>12. dir \in Entries
    BY ProcessFacts
  <2>13. VaultInv'
    BY <1>1, <1>7, <2>9, <2>10, <2>11, <2>12, InvAfter
  <2>14. wr'[p].pc = "encrypt"
    <3>1. LeavesBehind(p, new, files, dir)
      BY <1>1, <1>7, <2>3, <2>12, AfterWriterStep
    <3> QED BY <3>1, <1>1, <1>7, <2>3, <2>12 DEF LeavesBehind
  <2>15. VaultBar' = VaultBar
    BY <1>1, <2>14 DEF VaultBar
  <2> QED
    BY <2>13, <2>14, <2>15 DEF StepGood
<1>9. CASE ~(Len(w.todo) > 1)
  <2>1. new = IdleWriter
    BY <1>1, <1>9 DEF Written
  <2>2. Len(w.todo) = 1
    <3> DEFINE left == Len(w.todo)
    <3>1. left \in Nat /\ left >= 1 /\ ~(left > 1)
      BY <1>4, <1>9
    <3> HIDE DEF left
    <3>2. left = 1
      BY <3>1
    <3> QED
      BY <3>2 DEF left
  <2>3. CASE \E slots \in Seq(Slot), d \in Deks :
               Sound(slots, d) /\ Begins(V, slots, d) /\ Rest(w, V, slots, d, FullLen(slots))
    <3>1. PICK slots \in Seq(Slot), d \in Deks :
            Sound(slots, d) /\ Begins(V, slots, d) /\ Rest(w, V, slots, d, FullLen(slots))
      BY <2>3
    <3>2. /\ off = Len(V) + 1 /\ Len(V) + 1 = FullLen(slots) /\ Len(V) \in Nat
          /\ cell = VaultCell(slots, d, off)
      BY <1>1, <1>4, <2>2, <3>1, LenProperties DEF Rest
    <3> HIDE DEF off
    <3>3. Begins(body, slots, d) /\ Len(body) = FullLen(slots)
      BY <1>1, <3>1, <3>2, NextCell DEF body
    <3>4. Whole(body) /\ DekOf(body) = d /\ SlotsOf(body) = slots
      BY <1>5, <3>1, <3>3, BeginsFacts DEF Whole
    <3>5. IsVault(body)
      BY <3>1, <3>3 DEF IsVault
    <3> QED
      BY <1>1, <1>7, <2>1, <3>1, <3>4, <3>5, EndOfEncryption
  <2>4. CASE V = <<>> /\ w.off = 1 /\ w.todo = <<Header(0)>>
    <3>1. cell = Header(0) /\ off = 1
      BY <1>4, <2>4
    <3>2. body = <<Header(0)>>
      BY <2>4, <3>1 DEF body, WriteAt
    <3>3. ~Whole(body) /\ IsVault(body)
      BY <3>2, StubFacts DEF Stub
    <3> QED
      BY <1>1, <1>7, <2>1, <3>3, EndOfEncryption
  <2> QED
    BY <1>2, <2>3, <2>4 DEF Encrypting
<1> QED
  BY <1>8, <1>9

\* Every step of the writer whose turn it is.
LEMMA WriterGood ==
  ASSUME IInv, VaultInv, NEW p \in Writers, Alone(p), Edit(p) \/ EncryptNext(p)
  PROVE  StepGood(p)
<1>1. CASE wr[p].pc = "encrypt" /\ (Crash(p) \/ EncryptFails(p) \/ WriteCell(p))
  BY <1>1, CellGood, EncryptFailsGood
<1>2. ASSUME \E d \in Deks, lists \in SecretLists : Encrypt(p, d, lists[1], lists[2])
      PROVE  StepGood(p)
  BY <1>2, EncryptGood
<1>3. CASE \/ OpenForEdit(p) \/ Reject(p) \/ Fail(p)
           \/ Crash(p) /\ wr[p].pc # "encrypt"
  <2>1. wr[p].pc # "encrypt"
    BY <1>3 DEF OpenForEdit, Reject, Fail
  <2> QED
    BY <1>3, <2>1, EndingEdit
<1>4. CASE WriteCell(p) /\ wr[p].pc # "encrypt"
  BY <1>4, SectionGood DEF WriteCell
<1>5. CASE CreateTmp(p) \/ CopyRead(p) \/ CopyWrite(p) \/ Replace(p) \/ Cleanup(p)
  BY <1>5, CreateGood, CopyReadGood, CopyWriteGood, ReplaceGood, CleanupGood
<1>6. EncryptFails(p) => wr[p].pc = "encrypt"
  BY DEF EncryptFails
<1> QED
  BY <1>1, <1>2, <1>3, <1>4, <1>5, <1>6, EditGood DEF Edit, EncryptNext

\* No step of a reader changes what is under the path.
LEMMA ReaderGood ==
  ASSUME IInv, VaultInv, NEW r \in Readers, Decrypt(r)
  PROVE  VaultInv' /\ VaultBar' = VaultBar /\ wr' = wr
<1>1. PICK new : ReaderStep(r, new) /\ new.fh \in {rd[r].fh, dir.vault, None}
  <2>0. rd[r] \in ReaderStates(StoredCell)
    BY ProcessFacts DEF GoodReader
  <2>1. CASE OpenForDecrypt(r)
    <3> DEFINE new == [IdleReader EXCEPT !.pc = "opened", !.fh = dir.vault]
    <3>1. ReaderStep(r, new) /\ new.fh = dir.vault
      BY <2>1 DEF OpenForDecrypt, IdleReader
    <3> QED
      BY <3>1
  <2>2. CASE CloseReader(r)
    <3>1. ReaderStep(r, IdleReader) /\ IdleReader.fh = None
      BY <2>2 DEF CloseReader, IdleReader
    <3> QED
      BY <3>1
  <2>3. ASSUME NEW cred \in Credentials, Unlock(r, cred)
        PROVE  \E new : ReaderStep(r, new) /\ new.fh \in {rd[r].fh, dir.vault, None}
    <3> DEFINE s == data[rd[r].fh]
               new == CASE ~Readable(s) -> [rd[r] EXCEPT !.pc = "failed"]
                        [] Readable(s) /\ ~CanRecover(SlotsOf(s), cred) -> [rd[r] EXCEPT !.pc = "denied"]
                        [] OTHER -> [rd[r] EXCEPT !.pc = "reading", !.pos = PayloadStart(s),
                                                  !.dek = RecoveredDek(SlotsOf(s), cred)]
    <3>1. ReaderStep(r, new)
      BY <2>3 DEF Unlock
    <3>2. new.fh = rd[r].fh
      BY <2>0 DEF ReaderStates
    <3> HIDE DEF new
    <3> QED
      BY <3>1, <3>2
  <2>4. CASE ReadAhead(r)
    <3> DEFINE next == data[rd[r].fh][rd[r].pos]
               new == IF rd[r].held = None
                      THEN [rd[r] EXCEPT !.held = next, !.pos = @ + 1]
                      ELSE IF Authentic(rd[r], FALSE)
                      THEN [rd[r] EXCEPT !.held = next, !.pos = @ + 1, !.got = Append(@, rd[r].held)]
                      ELSE [rd[r] EXCEPT !.pc = "failed"]
    <3>1. ReaderStep(r, new)
      BY <2>4 DEF ReadAhead
    <3>2. new.fh = rd[r].fh
      BY <2>0 DEF ReaderStates
    <3> HIDE DEF new
    <3> QED
      BY <3>1, <3>2
  <2>5. CASE ReadEnd(r)
    <3> DEFINE new == IF Authentic(rd[r], TRUE)
                      THEN [rd[r] EXCEPT !.pc = "done", !.got = Append(@, rd[r].held)]
                      ELSE [rd[r] EXCEPT !.pc = "failed"]
    <3>1. ReaderStep(r, new)
      BY <2>5 DEF ReadEnd
    <3>2. new.fh = rd[r].fh
      BY <2>0 DEF ReaderStates
    <3> HIDE DEF new
    <3> QED
      BY <3>1, <3>2
  <2> QED
    BY <2>1, <2>2, <2>3, <2>4, <2>5 DEF Decrypt
<1>2. /\ rd'[r] = new /\ (\A q \in Readers : q # r => rd'[q] = rd[q])
      /\ dir' = dir /\ wr' = wr
      /\ Contents(data', dir.vault) = Contents(data, dir.vault)
      /\ Contents(data', dir.tmp) = Contents(data, dir.tmp)
  BY <1>1, AfterReaderStep
<1>3. dir.vault # None => data'[dir.vault] = data[dir.vault]
  BY <1>2 DEF Contents
<1>4. EntriesOK(dir', data')
  BY <1>2, <1>3 DEF EntriesOK, VaultInv
<1>5. \A x \in Readers : rd'[x].fh # None => rd'[x].fh # dir'.tmp
  <2> TAKE x \in Readers
  <2>1. CASE x # r
    BY <1>2, <2>1 DEF VaultInv
  <2>2. CASE x = r
    <3>1. rd'[x].fh \in {rd[r].fh, dir.vault, None}
      BY <1>1, <1>2, <2>2
    <3> QED
      BY <1>2, <3>1 DEF VaultInv, EntriesOK
  <2> QED
    BY <2>1, <2>2
<1>6. VaultInv'
  BY <1>2, <1>4, <1>5 DEF VaultInv
<1>7. VaultBar' = VaultBar
  BY <1>2, <1>3, BarUnchanged
<1> QED
  BY <1>2, <1>6, <1>7

\* A step of an edit begins no encryption.
LEMMA EditIsNoEncryption ==
  ASSUME IInv, NEW p \in Writers, Edit(p), wr[p].pc # "encrypt"
  PROVE  wr'[p].pc # "encrypt"
<1>0. wr[p] \in WriterStates(StoredCell)
  BY ProcessFacts DEF GoodWriter
<1>1. PICK new, files, entries : WriterStep(p, new, files, entries) /\ new.pc # "encrypt"
  <2>1. CASE OpenForEdit(p) \/ Reject(p) \/ Cleanup(p) \/ Crash(p)
    <3>1. IdleWriter.pc # "encrypt" /\ [IdleWriter EXCEPT !.pc = "opened", !.fh = dir.vault].pc # "encrypt"
      BY DEF IdleWriter
    <3> QED
      BY <2>1, <3>1 DEF OpenForEdit, Reject, Cleanup, Crash
  <2>2. ASSUME NEW slots, NEW adds, Build(p, slots, adds)
        PROVE  \E new, files, entries : WriterStep(p, new, files, entries) /\ new.pc # "encrypt"
    <3> DEFINE new == [wr[p] EXCEPT !.pc = "create", !.slots = slots, !.adds = adds,
                                    !.pos = PayloadStart(data[wr[p].fh])]
    <3>1. WriterStep(p, new, data, dir) /\ new.pc = "create"
      BY <1>0, <2>2 DEF Build, WriterStates
    <3> HIDE DEF new
    <3> QED
      BY <3>1
  <2>3. CASE CreateTmp(p)
    <3> DEFINE i == CreatedInode("tmp")
               new == [wr[p] EXCEPT !.pc = "write", !.out = i, !.todo = Prefix(wr[p].slots)]
    <3>1. WriterStep(p, new, Truncated(i), [dir EXCEPT !.tmp = i]) /\ new.pc = "write"
      BY <1>0, <2>3 DEF CreateTmp, WriterStates
    <3> HIDE DEF new
    <3> QED
      BY <3>1
  <2>4. CASE WriteCell(p)
    <3> DEFINE new == Written(wr[p])
    <3>1. wr[p].pc = "write" /\ new.pc # "encrypt"
      BY <1>0, <2>4 DEF WriteCell, Written, WriterStates
    <3>2. \E files : WriterStep(p, new, files, dir)
      BY <2>4 DEF WriteCell
    <3> HIDE DEF new
    <3> QED
      BY <3>1, <3>2
  <2>5. CASE CopyRead(p)
    <3> DEFINE more == [wr[p] EXCEPT !.buf = data[wr[p].fh][wr[p].pos], !.pos = @ + 1]
               done == [wr[p] EXCEPT !.pc = "replace", !.out = None]
    <3>1. WriterStep(p, more, data, dir) \/ WriterStep(p, done, data, dir)
      BY <2>5 DEF CopyRead
    <3>2. more.pc # "encrypt" /\ done.pc # "encrypt"
      BY <1>0, <2>5 DEF CopyRead, WriterStates
    <3> HIDE DEF more, done
    <3> QED
      BY <3>1, <3>2
  <2>6. CASE CopyWrite(p)
    <3> DEFINE new == [wr[p] EXCEPT !.off = @ + 1, !.buf = None]
    <3>1. \E files : WriterStep(p, new, files, dir)
      BY <2>6 DEF CopyWrite
    <3>2. new.pc # "encrypt"
      BY <1>0, <2>6 DEF CopyWrite, WriterStates
    <3> HIDE DEF new
    <3> QED
      BY <3>1, <3>2
  <2>7. CASE Replace(p) \/ Fail(p)
    <3> DEFINE failed == [wr[p] EXCEPT !.pc = "cleanup"]
               stopped == [wr[p] EXCEPT !.pc = "cleanup", !.out = None]
    <3>1. \E new \in {IdleWriter, failed, stopped} : \E entries : WriterStep(p, new, data, entries)
      BY <2>7 DEF Replace, Fail
    <3>2. IdleWriter.pc # "encrypt" /\ failed.pc # "encrypt" /\ stopped.pc # "encrypt"
      BY <1>0 DEF IdleWriter, WriterStates
    <3> HIDE DEF failed, stopped
    <3> QED
      BY <3>1, <3>2
  <2> QED
    BY <2>1, <2>2, <2>3, <2>4, <2>5, <2>6, <2>7
       DEF Edit, Rekey, AddPassword, AddRecipient, RemoveSlot
<1> QED
  BY <1>1 DEF IInv, WriterStep

\* A writer that takes a step is alone: a command begins in that step, or is the
\* one under way.
LEMMA WorksAlone ==
  ASSUME IInv, OneAtATime, OneAtATime', NEW p \in Writers, Edit(p) \/ EncryptNext(p)
  PROVE  /\ Alone(p)
         /\ \A q \in Writers : q # p => wr'[q] = wr[q]
<1>1. PICK new, files, entries : WriterStep(p, new, files, entries)
  BY Zenon DEF Edit, EncryptNext, OpenForEdit, Rekey, AddPassword, AddRecipient, RemoveSlot, Build, Reject,
         CreateTmp, WriteCell, CopyRead, CopyWrite, Replace, Fail, Cleanup, Crash, Encrypt,
         EncryptFails
<1>2. wr'[p] = new /\ \A q \in Writers : q # p => wr'[q] = wr[q]
  BY <1>1 DEF WriterStep, IInv
<1>3. CASE wr[p].pc # "idle"
  BY <1>2, <1>3 DEF OneAtATime, Alone
<1>4. CASE wr[p].pc = "idle"
  <2>1. wr'[p].pc # "idle"
    <3>1. ASSUME NEW w, NEW f, NEW e, WriterStep(p, w, f, e)
          PROVE  wr'[p] = w
      BY <3>1 DEF WriterStep, IInv
    <3>2. CASE OpenForEdit(p)
      <4>1. wr'[p] = [IdleWriter EXCEPT !.pc = "opened", !.fh = dir.vault]
        BY <3>1, <3>2 DEF OpenForEdit
      <4> QED BY <4>1 DEF IdleWriter
    <3>3. ASSUME NEW d, NEW ps, NEW ks, Encrypt(p, d, ps, ks) PROVE wr'[p].pc # "idle"
      <4>1. PICK i, todo : wr'[p] = [IdleWriter EXCEPT !.pc = "encrypt", !.out = i, !.todo = todo]
        BY <3>1, <3>3 DEF Encrypt
      <4> QED BY <4>1 DEF IdleWriter
    <3> QED
      BY <1>4, <3>2, <3>3
         DEF Edit, EncryptNext, Rekey, AddPassword, AddRecipient, RemoveSlot, MayEdit, Reject,
             CreateTmp, WriteCell, CopyRead, CopyWrite, Replace, Fail, Cleanup, Crash, EncryptFails
  <2> QED BY <1>2, <2>1 DEF OneAtATime, Alone
<1> QED BY <1>2, <1>3, <1>4

\* Every step of a behaviour in which no two writers overlap.
LEMMA TurnsStep ==
  ASSUME IInv, VaultInv, OneAtATime, OneAtATime', [Next]_vars
  PROVE  /\ VaultInv'
         /\ Abstract!Next \/ VaultBar' = VaultBar
         /\ \A p \in Writers, r \in Readers :
              /\ wr'[p] # wr[p] /\ wr[p].pc # "encrypt" /\ wr'[p].pc # "encrypt"
              /\ rd[r].fh # None
              => data'[rd[r].fh] = data[rd[r].fh]
<1>1. ASSUME NEW p \in Writers, Edit(p) \/ EncryptNext(p)
      PROVE  /\ VaultInv'
             /\ Abstract!Next \/ VaultBar' = VaultBar
             /\ \A q \in Writers, r \in Readers :
                  /\ wr'[q] # wr[q] /\ wr[q].pc # "encrypt" /\ wr'[q].pc # "encrypt"
                  /\ rd[r].fh # None
                  => data'[rd[r].fh] = data[rd[r].fh]
  <2>1. Alone(p) /\ \A q \in Writers : q # p => wr'[q] = wr[q]
    BY <1>1, WorksAlone
  <2>2. StepGood(p)
    BY <1>1, <2>1, WriterGood
  <2> QED
    BY <2>1, <2>2 DEF StepGood
<1>2. ASSUME NEW r \in Readers, Decrypt(r)
      PROVE  VaultInv' /\ VaultBar' = VaultBar /\ wr' = wr
  BY <1>2, ReaderGood
<1>3. CASE UNCHANGED vars
  <2>1. dir' = dir /\ data' = data /\ wr' = wr /\ rd' = rd
    BY <1>3 DEF vars
  <2>2. VaultInv'
    BY <2>1 DEF VaultInv
  <2>3. VaultBar' = VaultBar
    BY <2>1 DEF VaultBar
  <2> QED
    BY <2>1, <2>2, <2>3
<1> QED
  BY <1>1, <1>2, <1>3 DEF Next

LEMMA VaultInvariance == Spec /\ []OneAtATime => [](IInv /\ VaultInv)
<1>1. Init => VaultInv
  <2> SUFFICES ASSUME Init PROVE VaultInv
    OBVIOUS
  <2>1. /\ dir.vault = None /\ \A p \in Writers : wr[p] = IdleWriter
        /\ \A r \in Readers : rd[r] = IdleReader
    BY DEF Init, Idle
  <2>2. IdleWriter.pc = "idle" /\ IdleReader.fh = None
    BY DEF IdleWriter, IdleReader
  <2>3. \A p \in Writers :
          WriterOK(wr[p], dir, Contents(data, dir.vault), Contents(data, dir.tmp))
    BY <2>1, <2>2 DEF WriterOK
  <2> QED
    BY <2>1, <2>2, <2>3 DEF VaultInv, EntriesOK
<1>2. IInv /\ VaultInv /\ OneAtATime /\ OneAtATime' /\ [Next]_vars => VaultInv'
  BY TurnsStep
<1> QED
  BY <1>1, <1>2, Invariance, PTL DEF Spec

\* Writers that take turns, each killed or failing anywhere, and any number of
\* readers implement the atomic vault of VaultSpec: an edit takes effect in the step that
\* renames the temporary file, and no other step of it is seen under the path
\* (service.py 241-264).
THEOREM FilesImplementVaultSpec == Spec /\ []OneAtATime => ImplementsVaultSpec
<1>1. Init => Abstract!Init
  <2> SUFFICES ASSUME Init PROVE VaultBar = [state |-> "none"]
    BY DEF Abstract!Init, Abstract!NoVault
  <2>1. dir.vault = None /\ \A p \in Writers : wr[p] = IdleWriter
    BY DEF Init, Idle
  <2>2. \A p \in Writers : wr[p].pc # "encrypt"
    BY <2>1 DEF IdleWriter
  <2> QED
    BY <2>1, <2>2 DEF VaultBar
<1>2. IInv /\ VaultInv /\ OneAtATime /\ OneAtATime' /\ [Next]_vars
        => [Abstract!Next]_(Abstract!vars)
  BY TurnsStep DEF Abstract!vars
<1> QED
  BY <1>1, <1>2, VaultInvariance, PTL DEF Spec, ImplementsVaultSpec, Abstract!Spec

\* A decryption keeps the file it has open, however many edits are published
\* meanwhile, one after the other (service.py 249-259).
THEOREM ReadersAreSpared == Spec /\ []OneAtATime => EditsSpareReaders
<1>1. IInv /\ VaultInv /\ OneAtATime /\ OneAtATime' /\ [Next]_vars =>
        [\A p \in Writers, r \in Readers :
           /\ wr'[p] # wr[p] /\ wr[p].pc # "encrypt" /\ wr'[p].pc # "encrypt"
           /\ rd[r].fh # None
           => data'[rd[r].fh] = data[rd[r].fh]]_vars
  BY TurnsStep
<1> QED
  BY <1>1, VaultInvariance, PTL DEF Spec, EditsSpareReaders

\* While writers edit a finished vault in turns, the path names a complete vault
\* that every slot opens, wherever an edit fails or is killed (service.py:248).
\* Two writers that overlap can tear it.
THEOREM EditsKeepItWhole ==
  ASSUME Inodes # {}
  PROVE  SpecEdits /\ []OneAtATime => []VaultStaysWhole
<1> DEFINE NoEncryption == \A p \in Writers : wr[p].pc # "encrypt"
           J == IInv /\ VaultInv /\ NoEncryption /\ VaultStaysWhole
<1>1. ASSUME InitWhole
      PROVE  J
  <2>1. PICK d \in Deks, n \in 1 .. MaxSlots : \E secrets \in [1 .. n -> Secrets] :
          /\ dir = [vault |-> Min(Inodes), tmp |-> None]
          /\ data = [i \in Inodes |->
                       IF i = dir.vault
                       THEN Prefix([k \in 1 .. n |-> Wrap(secrets[k], d)]) \o Payload(d) ELSE <<>>]
    BY <1>1 DEF InitWhole
  <2>2. PICK secrets \in [1 .. n -> Secrets] :
          /\ dir = [vault |-> Min(Inodes), tmp |-> None]
          /\ data = [i \in Inodes |->
                       IF i = dir.vault
                       THEN Prefix([k \in 1 .. n |-> Wrap(secrets[k], d)]) \o Payload(d) ELSE <<>>]
    BY <2>1
  <2> DEFINE slots == [k \in 1 .. n |-> Wrap(secrets[k], d)]
             cells == Prefix(slots) \o Payload(d)
  <2>3. Sound(slots, d) /\ slots \in Seq(Slot)
    <3>1. n \in Nat /\ \A k \in 1 .. n : secrets[k] \in Secrets
      BY KeySlotsAssumption
    <3>2. slots \in [1 .. n -> Slot]
      BY <3>1 DEF Slot, Wrap
    <3>3. slots \in Seq(Slot) /\ Len(slots) = n
      BY <3>1, <3>2, FunctionIsSeq
    <3>4. \A k \in 1 .. n : slots[k].dek = d
      BY DEF Wrap
    <3> HIDE DEF slots
    <3> QED
      BY <3>3, <3>4 DEF Sound, SectionFits, WrapsOnly
  <2>4. \A p \in Writers : wr[p] = IdleWriter
    BY <1>1 DEF InitWhole, Idle
  <2>5. \A r \in Readers : rd[r] = IdleReader
    BY <1>1 DEF InitWhole, Idle
  <2>6. dir.vault \in Inodes /\ dir.vault # None /\ dir.tmp = None
    <3>1. \E k \in Inodes : \A j \in Inodes : k <= j
      BY VaultFileAssumption, LeastNat
    <3>2. Min(Inodes) \in Inodes
      BY <3>1 DEF Min
    <3> QED
      BY <2>2, <3>2, VaultFileAssumption
  <2> HIDE DEF slots
  <2>7. cells \in Seq(StoredCell) /\ Begins(cells, slots, d) /\ Len(cells) = FullLen(slots)
    <3>1. Prefix(slots) \in Seq(StoredCell) /\ Payload(d) \in Seq(StoredCell)
      BY <2>3, PrefixType, PayloadType
    <3>2. cells \in Seq(StoredCell)
      BY <3>1, ConcatProperties
    <3>3. /\ Len(cells) = FullLen(slots)
          /\ \A k \in 1 .. FullLen(slots) : cells[k] = VaultCell(slots, d, k)
      BY <2>3, WholeCells DEF Sound
    <3>4. FullLen(slots) \in Nat
      BY <2>3, Lengths
    <3> HIDE DEF cells
    <3> QED
      BY <3>2, <3>3, <3>4 DEF Begins
  <2>8. data = [i \in Inodes |-> IF i = dir.vault THEN cells ELSE <<>>]
    BY <2>2 DEF slots
  <2> HIDE DEF cells
  <2>9. data[dir.vault] = cells /\ data \in GoodFiles
    BY <2>6, <2>7, <2>8, EmptySeq DEF GoodFiles
  <2>10. IInv
    <3>1. dir \in Entries
      BY <2>2, <2>6 DEF Entries
    <3>2. wr = [p \in Writers |-> IdleWriter] /\ rd = [r \in Readers |-> IdleReader]
      BY <1>1 DEF InitWhole, Idle
    <3> QED
      BY <2>9, <3>1, <3>2, IdleIsGood DEF IInv, GoodFiles, GoodWriter, GoodReader
  <2>11. IdleWriter.pc = "idle" /\ IdleReader.fh = None
    BY DEF IdleWriter, IdleReader
  <2>12. EntriesOK(dir, data)
    BY <2>3, <2>6, <2>7, <2>9 DEF EntriesOK, IsVault
  <2>13. VaultInv
    BY <2>4, <2>5, <2>11, <2>12 DEF VaultInv, WriterOK
  <2>14. VaultStaysWhole
    BY <2>3, <2>6, <2>7, <2>9, BeginsFacts DEF VaultStaysWhole
  <2> QED
    BY <2>4, <2>10, <2>11, <2>13, <2>14
<1>2. J /\ OneAtATime /\ OneAtATime' /\ [NextEdits]_vars => J'
  <2> SUFFICES ASSUME J, OneAtATime, OneAtATime', [NextEdits]_vars PROVE J'
    OBVIOUS
  <2>1. [Next]_vars
    BY DEF Next, NextEdits
  <2>2. IInv'
    BY <2>1, InvariantStep
  <2>3. VaultInv' /\ (Abstract!Next \/ VaultBar' = VaultBar)
    BY <2>1, TurnsStep
  <2>4. NoEncryption'
    <3>1. ASSUME NEW p \in Writers, Edit(p)
          PROVE  wr'[p].pc # "encrypt" /\ \A q \in Writers : q # p => wr'[q] = wr[q]
      BY <3>1, EditIsNoEncryption, WorksAlone
    <3>2. ASSUME NEW r \in Readers, Decrypt(r)
          PROVE  wr' = wr
      BY <3>2, ReaderGood
    <3>3. CASE UNCHANGED vars
      BY <3>3 DEF vars
    <3> QED
      BY <3>1, <3>2, <3>3 DEF NextEdits
  <2>5. VaultBar.state = "ready" /\ VaultBar'.state # "encrypting"
    BY <2>4 DEF VaultBar, VaultStaysWhole
  <2>6. VaultBar'.state = "ready"
    <3>1. CASE VaultBar' = VaultBar
      BY <2>5, <3>1
    <3>2. CASE Abstract!Next
      <4>1. VaultBar # Abstract!Encrypting /\ VaultBar' # Abstract!Encrypting
        BY <2>5 DEF Abstract!Encrypting
      <4>2. \E slots : Abstract!Publish(slots)
        BY <3>2, <4>1 DEF Abstract!Next, Abstract!EncryptStarts, Abstract!EncryptEnds,
           Abstract!EncryptFails, Abstract!Rekey, Abstract!AddPassword, Abstract!AddRecipient,
           Abstract!RemoveSlot
      <4> QED
        BY <4>2 DEF Abstract!Publish, Abstract!Ready
    <3> QED
      BY <2>3, <3>1, <3>2
  <2>7. VaultStaysWhole'
    BY <2>6 DEF VaultBar, VaultStaysWhole
  <2> QED
    BY <2>2, <2>3, <2>4, <2>7
<1>3. J => VaultStaysWhole
  OBVIOUS
<1> HIDE DEF J
<1>4. InitWhole => J
  BY <1>1
<1> QED
  BY <1>2, <1>3, <1>4, PTL DEF SpecEdits

-----------------------------------------------------------------------------
(* One writer at a time: an edit gives access to nobody but the one it is for. *)

\* The section a rewrite makes opens for those the vault opens for, and for the
\* secret it adds.
Grants(w, v) ==
  w.pc \in {"create", "write", "copy", "replace"} =>
    Openers(w.slots) \subseteq Openers(SlotsOf(v)) \cup {w.adds}

GrantsInv == \A p \in Writers : Grants(wr[p], data[dir.vault])

\* A step that leaves the vault alone.
LEMMA VaultKept ==
  ASSUME IInv, NEW p \in Writers, NEW new, NEW files, NEW entries,
         WriterStep(p, new, files, entries),
         entries.vault = dir.vault, dir.vault # None, files[dir.vault] = data[dir.vault]
  PROVE  wr'[p] = new /\ dir'.vault = dir.vault /\ data'[dir.vault] = data[dir.vault]
<1>1. /\ wr' = [wr EXCEPT ![p] = new] /\ dir' = entries
      /\ data' = Reclaimed(files, entries, wr', rd)
  BY DEF WriterStep
<1>2. dir.vault \in Inodes /\ p \in DOMAIN wr
  BY DEF IInv, Entries
<1>3. dir.vault \in LiveInodes(entries, wr', rd)
  BY DEF LiveInodes
<1>4. data'[dir.vault] = files[dir.vault]
  BY <1>1, <1>2, <1>3 DEF Reclaimed
<1> QED
  BY <1>1, <1>2, <1>4

\* Building the new section.
LEMMA BuildGrants ==
  ASSUME IInv, VaultInv, NEW p \in Writers, Edit(p),
         wr[p].pc = "opened", wr'[p].pc = "create"
  PROVE  Grants(wr'[p], data'[dir'.vault])
<1> DEFINE old == OldSlots(p)
<1>1. /\ GoodWriter(wr[p]) /\ wr[p].fh = dir.vault /\ dir.vault # None
      /\ Contents(data, dir.vault) = data[dir.vault] /\ data[dir.vault] \in Seq(StoredCell)
  BY AtWork
<1>2. ASSUME MayEdit(p)
      PROVE  \E d \in Deks : WrapsOnly(old, d) /\ old \in Seq(Slot)
  <2>1. Readable(data[dir.vault]) /\ IsVault(data[dir.vault])
    BY <1>1, <1>2 DEF MayEdit, VaultInv, EntriesOK
  <2>2. PICK slots \in Seq(Slot), d \in Deks : Sound(slots, d) /\ Begins(data[dir.vault], slots, d)
    BY <2>1, StubFacts DEF IsVault
  <2>3. SlotsOf(data[dir.vault]) = slots
    BY <1>1, <2>1, <2>2, BeginsFacts
  <2> QED BY <1>1, <2>2, <2>3 DEF OldSlots, Sound
<1>3. ASSUME MayEdit(p), NEW slots, NEW adds, Build(p, slots, adds),
             Openers(slots) \subseteq Openers(old) \cup {adds}
      PROVE  Grants(wr'[p], data'[dir'.vault])
  <2> DEFINE start == PayloadStart(data[wr[p].fh])
             new == [wr[p] EXCEPT !.pc = "create", !.slots = slots, !.adds = adds, !.pos = start]
  <2>1. WriterStep(p, new, data, dir)
    BY <1>3 DEF Build
  <2> HIDE DEF start
  <2>2. new.slots = slots /\ new.adds = adds
    BY <1>1 DEF GoodWriter, WriterStates
  <2> HIDE DEF new
  <2>3. wr'[p] = new /\ dir'.vault = dir.vault /\ data'[dir.vault] = data[dir.vault]
    BY <1>1, <2>1, VaultKept
  <2> QED BY <1>1, <1>3, <2>2, <2>3 DEF Grants, OldSlots
<1> HIDE DEF old
<1>4. ASSUME NEW pw \in Passwords, NEW new \in Passwords, Rekey(p, pw, new)
      PROVE  Grants(wr'[p], data'[dir'.vault])
  <2>1. MayEdit(p) /\ CanRecover(old, {pw}) /\ Build(p, Rekeyed(old, pw, new), new)
    BY <1>4 DEF Rekey, old
  <2>2. Openers(Rekeyed(old, pw, new)) \ {new} \subseteq Openers(old)
    BY <1>2, <2>1, RekeyedProperties
  <2> QED BY <1>3, <2>1, <2>2
<1>5. ASSUME NEW cred \in Credentials, NEW new \in Secrets, MayEdit(p),
             CanRecover(OldSlots(p), cred), Build(p, Added(OldSlots(p), cred, new), new)
      PROVE  Grants(wr'[p], data'[dir'.vault])
  <2>1. MayEdit(p) /\ CanRecover(old, cred) /\ Build(p, Added(old, cred, new), new)
    BY <1>5 DEF old
  <2>2. Openers(Added(old, cred, new)) \ {new} \subseteq Openers(old)
    BY <1>2, <2>1, AddedProperties
  <2> QED BY <1>3, <2>1, <2>2
<1>6. ASSUME NEW i \in 1 .. MaxSlots, RemoveSlot(p, i)
      PROVE  Grants(wr'[p], data'[dir'.vault])
  <2>1. MayEdit(p) /\ Removable(old, i) /\ Build(p, Removed(old, i), None)
    BY <1>6 DEF RemoveSlot, old
  <2>2. Openers(Removed(old, i)) \subseteq Openers(old)
    BY <1>2, <2>1, RemovedProperties DEF Removable
  <2> QED BY <1>3, <2>1, <2>2
<1>7. CASE Reject(p) \/ Crash(p)
  <2>1. wr'[p] = IdleWriter
    BY <1>7 DEF Reject, Crash, WriterStep, IInv
  <2> QED BY <2>1 DEF IdleWriter
<1> QED
  BY <1>4, <1>5, <1>6, <1>7
     DEF Edit, OpenForEdit, AddPassword, AddRecipient, Secrets, CreateTmp, WriteCell, CopyRead,
         CopyWrite, Replace, Fail, Cleanup

\* Until it is published, a rewrite keeps its section and the vault it is made from.
LEMMA RewriteKeeps ==
  ASSUME IInv, VaultInv, NEW p \in Writers, Edit(p),
         wr[p].pc \in {"create", "write", "copy", "replace"},
         wr'[p].pc \in {"create", "write", "copy", "replace"}
  PROVE  /\ wr'[p].slots = wr[p].slots /\ wr'[p].adds = wr[p].adds
         /\ data'[dir'.vault] = data[dir.vault]
<1> DEFINE w == wr[p]
<1>1. /\ GoodWriter(w) /\ w.fh = dir.vault /\ dir.vault # None /\ dir.vault \in Inodes
      /\ w.pc \in {"write", "copy"} => w.out = dir.tmp /\ dir.tmp # None
      /\ dir.vault # dir.tmp /\ w \in WriterStates(StoredCell)
  BY AtWork DEF VaultInv, EntriesOK, IInv, Entries, GoodWriter
<1>2. ASSUME NEW new, NEW files, NEW entries, WriterStep(p, new, files, entries),
             new.slots = w.slots, new.adds = w.adds,
             entries.vault = dir.vault, files[dir.vault] = data[dir.vault]
      PROVE  /\ wr'[p].slots = wr[p].slots /\ wr'[p].adds = wr[p].adds
             /\ data'[dir'.vault] = data[dir.vault]
  <2>1. wr'[p] = new /\ dir'.vault = dir.vault /\ data'[dir.vault] = data[dir.vault]
    BY <1>1, <1>2, VaultKept
  <2> QED BY <1>2, <2>1
<1>3. CASE CreateTmp(p)
  <2> DEFINE i == CreatedInode("tmp")
             new == [wr[p] EXCEPT !.pc = "write", !.out = i, !.todo = Prefix(wr[p].slots)]
             entries == [dir EXCEPT !.tmp = i]
  <2>1. WriterStep(p, new, Truncated(i), entries) /\ MayCreate("tmp")
    BY <1>3 DEF CreateTmp
  <2>2. i # dir.vault
    BY <1>1, <2>1, CreatedIsNew
  <2> HIDE DEF i
  <2>3. new.slots = w.slots /\ new.adds = w.adds
    BY <1>1 DEF WriterStates
  <2>4. entries.vault = dir.vault /\ Truncated(i)[dir.vault] = data[dir.vault]
    BY <1>1, <2>2 DEF Truncated, IInv, Entries, GoodFiles
  <2> QED BY <1>2, <2>1, <2>3, <2>4
<1>4. CASE WriteCell(p)
  <2> DEFINE new == Written(wr[p])
             files == [data EXCEPT ![wr[p].out] = WriteAt(@, wr[p].off, Head(wr[p].todo))]
  <2>1. WriterStep(p, new, files, dir) /\ w.pc = "write"
    BY <1>4 DEF WriteCell
  <2>2. new.slots = w.slots /\ new.adds = w.adds
    BY <1>1, <2>1 DEF WriterStates, Written
  <2>3. files[dir.vault] = data[dir.vault]
    BY <1>1, <2>1
  <2> HIDE DEF new, files
  <2> QED BY <1>2, <2>1, <2>2, <2>3
<1>5. CASE CopyRead(p)
  <2> DEFINE more == [wr[p] EXCEPT !.buf = data[wr[p].fh][wr[p].pos], !.pos = @ + 1]
             done == [wr[p] EXCEPT !.pc = "replace", !.out = None]
  <2>1. WriterStep(p, more, data, dir) \/ WriterStep(p, done, data, dir)
    BY <1>5 DEF CopyRead
  <2>2. more.slots = w.slots /\ more.adds = w.adds /\ done.slots = w.slots /\ done.adds = w.adds
    BY <1>1 DEF WriterStates
  <2> HIDE DEF more, done
  <2> QED BY <1>2, <2>1, <2>2
<1>6. CASE CopyWrite(p)
  <2> DEFINE new == [wr[p] EXCEPT !.off = @ + 1, !.buf = None]
             files == [data EXCEPT ![wr[p].out] = WriteAt(@, wr[p].off, wr[p].buf)]
  <2>1. WriterStep(p, new, files, dir) /\ w.pc = "copy"
    BY <1>6 DEF CopyWrite
  <2>2. new.slots = w.slots /\ new.adds = w.adds
    BY <1>1 DEF WriterStates
  <2>3. files[dir.vault] = data[dir.vault]
    BY <1>1, <2>1
  <2> HIDE DEF new, files
  <2> QED BY <1>2, <2>1, <2>2, <2>3
<1>7. ASSUME Replace(p) \/ Fail(p) \/ Crash(p)
      PROVE  FALSE
  <2> DEFINE failed == [wr[p] EXCEPT !.pc = "cleanup"]
             stopped == [wr[p] EXCEPT !.pc = "cleanup", !.out = None]
  <2>1. \E new \in {IdleWriter, failed, stopped} : wr' = [wr EXCEPT ![p] = new]
    BY <1>7 DEF Replace, Fail, Crash, WriterStep
  <2>2. IdleWriter.pc = "idle" /\ failed.pc = "cleanup" /\ stopped.pc = "cleanup"
    BY <1>1 DEF IdleWriter, WriterStates
  <2> HIDE DEF failed, stopped
  <2> QED BY <2>1, <2>2 DEF IInv
<1> QED
  BY <1>3, <1>4, <1>5, <1>6, <1>7
     DEF Edit, OpenForEdit, Rekey, AddPassword, AddRecipient, RemoveSlot, MayEdit, Reject, Cleanup

\* A rewrite begins by building its section, and is nothing an encryption does.
LEMMA RewriteBegins ==
  ASSUME IInv, NEW p \in Writers, Edit(p) \/ EncryptNext(p),
         wr[p].pc \notin {"create", "write", "copy", "replace"},
         wr'[p].pc \in {"create", "write", "copy", "replace"}
  PROVE  Edit(p) /\ wr[p].pc = "opened" /\ wr'[p].pc = "create"
<1>0. wr[p] \in WriterStates(StoredCell)
  BY ProcessFacts DEF GoodWriter
<1>1. ASSUME NEW new, NEW files, NEW entries, WriterStep(p, new, files, entries)
      PROVE  wr'[p] = new
  BY <1>1 DEF WriterStep, IInv
<1>2. ASSUME Reject(p) \/ Cleanup(p) \/ Crash(p) \/ EncryptFails(p) PROVE FALSE
  <2>1. wr'[p] = IdleWriter
    BY <1>1, <1>2 DEF Reject, Cleanup, Crash, EncryptFails
  <2> QED BY <2>1 DEF IdleWriter
<1>3. ASSUME OpenForEdit(p) PROVE FALSE
  <2>1. wr'[p] = [IdleWriter EXCEPT !.pc = "opened", !.fh = dir.vault]
    BY <1>1, <1>3 DEF OpenForEdit
  <2> QED BY <2>1 DEF IdleWriter
<1>4. ASSUME NEW slots, NEW adds, MayEdit(p), Build(p, slots, adds)
      PROVE  wr[p].pc = "opened" /\ wr'[p].pc = "create"
  <2> DEFINE start == PayloadStart(data[wr[p].fh])
             new == [wr[p] EXCEPT !.pc = "create", !.slots = slots, !.adds = adds, !.pos = start]
  <2>1. wr'[p] = new
    BY <1>1, <1>4 DEF Build
  <2> HIDE DEF start
  <2> QED BY <1>0, <1>4, <2>1 DEF MayEdit, WriterStates
<1>5. ASSUME WriteCell(p) PROVE FALSE
  <2>1. wr[p].pc = "encrypt" /\ wr'[p] = Written(wr[p])
    BY <1>1, <1>5 DEF WriteCell
  <2>2. wr'[p].pc \in {"encrypt", "idle"}
    BY <1>0, <2>1 DEF Written, WriterStates, IdleWriter
  <2> QED BY <2>2
<1>6. ASSUME NEW d, NEW ps, NEW ks, Encrypt(p, d, ps, ks) PROVE FALSE
  <2>1. PICK i, todo : wr'[p] = [IdleWriter EXCEPT !.pc = "encrypt", !.out = i, !.todo = todo]
    BY <1>1, <1>6 DEF Encrypt
  <2> QED BY <2>1 DEF IdleWriter
<1> QED
  BY <1>2, <1>3, <1>4, <1>5, <1>6
     DEF Edit, EncryptNext, Rekey, AddPassword, AddRecipient, RemoveSlot, CreateTmp, CopyRead,
         CopyWrite, Replace, Fail

LEMMA GrantsStep ==
  ASSUME IInv, VaultInv, GrantsInv, OneAtATime, OneAtATime', [Next]_vars
  PROVE  GrantsInv'
<1>1. ASSUME NEW p \in Writers, Edit(p) \/ EncryptNext(p)
      PROVE  GrantsInv'
  <2>1. Grants(wr'[p], data'[dir'.vault])
    <3>1. CASE wr'[p].pc \notin {"create", "write", "copy", "replace"}
      BY <3>1 DEF Grants
    <3>2. CASE wr'[p].pc \in {"create", "write", "copy", "replace"}
               /\ wr[p].pc \notin {"create", "write", "copy", "replace"}
      BY <1>1, <3>2, RewriteBegins, BuildGrants
    <3>3. CASE wr'[p].pc \in {"create", "write", "copy", "replace"}
               /\ wr[p].pc \in {"create", "write", "copy", "replace"}
      <4>1. Edit(p)
        <5>1. ~EncryptNext(p)
          BY <3>3 DEF EncryptNext, Encrypt, EncryptFails
        <5> QED BY <1>1, <5>1
      <4>2. /\ wr'[p].slots = wr[p].slots /\ wr'[p].adds = wr[p].adds
            /\ data'[dir'.vault] = data[dir.vault]
        BY <3>3, <4>1, RewriteKeeps
      <4>3. Grants(wr[p], data[dir.vault])
        BY DEF GrantsInv
      <4> QED BY <3>3, <4>2, <4>3 DEF Grants
    <3> QED BY <3>1, <3>2, <3>3
  <2>2. ASSUME NEW q \in Writers, q # p PROVE Grants(wr'[q], data'[dir'.vault])
    <3>1. wr'[q].pc = "idle"
      BY <1>1, <2>2, WorksAlone DEF Alone
    <3> QED BY <3>1 DEF Grants
  <2> QED BY <2>1, <2>2 DEF GrantsInv
<1>2. ASSUME NEW r \in Readers, Decrypt(r)
      PROVE  GrantsInv'
  <2>1. wr' = wr
    BY <1>2, ReaderGood
  <2>2. PICK new : ReaderStep(r, new)
    BY <1>2 DEF Decrypt, OpenForDecrypt, Unlock, ReadAhead, ReadEnd, CloseReader
  <2>3. dir' = dir /\ Contents(data', dir.vault) = Contents(data, dir.vault)
    BY <2>2, AfterReaderStep
  <2>4. ASSUME NEW q \in Writers, wr[q].pc \in {"create", "write", "copy", "replace"}
        PROVE  data'[dir.vault] = data[dir.vault]
    <3>1. dir.vault # None
      BY <2>4, AtWork
    <3> QED BY <2>3, <3>1 DEF Contents
  <2>5. ASSUME NEW q \in Writers PROVE Grants(wr'[q], data'[dir'.vault])
    <3>1. Grants(wr[q], data[dir.vault])
      BY DEF GrantsInv
    <3> QED BY <2>1, <2>3, <2>4, <3>1 DEF Grants
  <2> QED BY <2>5 DEF GrantsInv
<1>3. CASE UNCHANGED vars
  <2>1. dir' = dir /\ data' = data /\ wr' = wr
    BY <1>3 DEF vars
  <2> QED BY <2>1 DEF GrantsInv
<1> QED
  BY <1>1, <1>2, <1>3 DEF Next

\* What the path names after a rewrite is the section the rewrite made.
LEMMA CommitGrants ==
  ASSUME IInv, VaultInv, GrantsInv, NEW p \in Writers, Replace(p), dir' # dir
  PROVE  Openers(SlotsOf(data'[dir'.vault]))
           \subseteq Openers(SlotsOf(data[dir.vault])) \cup {wr[p].adds}
<1> DEFINE V == Contents(data, dir.vault)
           T == Contents(data, dir.tmp)
           w == wr[p]
           entries == [vault |-> dir.tmp, tmp |-> None]
<1>1. /\ WriterOK(w, dir, V, T) /\ w.pc = "replace"
      /\ V \in Seq(StoredCell) /\ T \in Seq(StoredCell)
  BY AtWork DEF Replace
<1>2. WriterStep(p, IdleWriter, data, entries) /\ dir.tmp # None
  <2>1. CASE dir.tmp = None
    <3>1. WriterStep(p, [wr[p] EXCEPT !.pc = "cleanup"], data, dir)
      BY <2>1 DEF Replace
    <3> QED BY <3>1 DEF WriterStep
  <2> QED BY <2>1 DEF Replace
<1>3. PICK old \in Seq(Slot), d \in Deks : Editing(w, dir, old, d, V, T)
  BY <1>1 DEF WriterOK
<1>4. /\ Sound(old, d) /\ Edited(old, w.slots) /\ SectionFits(w.slots) /\ Len(V) >= Len(old) + 2
      /\ Begins(T, w.slots, d) /\ Len(T) - Len(w.slots) = Len(V) - Len(old)
  BY <1>1, <1>2, <1>3 DEF Editing
<1>5. Sound(w.slots, d)
  BY <1>4, EditedSound
<1>6. SlotsOf(T) = w.slots
  <2> DEFINE s == w.slots
  <2>1. Len(T) \in Nat /\ Len(V) \in Nat /\ Len(s) \in Nat /\ Len(old) \in Nat
    BY <1>1, <1>5, LenProperties DEF Sound
  <2>2. Len(V) >= Len(old) + 2 /\ Len(T) - Len(s) = Len(V) - Len(old)
    BY <1>4
  <2> HIDE DEF s, V, T
  <2>3. Len(T) >= Len(s) + 2
    BY ONLY <2>1, <2>2
  <2> QED BY <1>1, <1>4, <1>5, <2>3, BeginsFacts DEF s
<1>7. dir' = entries /\ data'[dir'.vault] = T
  <2>1. data \in GoodFiles /\ entries \in Entries /\ entries.vault = dir.tmp
    BY ProcessFacts DEF Entries
  <2> HIDE DEF entries
  <2>2. LeavesBehind(p, IdleWriter, data, entries)
    BY <1>2, <2>1, AfterWriterStep
  <2> QED BY <1>2, <2>1, <2>2 DEF LeavesBehind, Contents
<1>8. Grants(w, data[dir.vault])
  BY DEF GrantsInv
<1> QED
  BY <1>1, <1>6, <1>7, <1>8 DEF Grants

\* While no two writers overlap, what one publishes opens for nobody new but the
\* secret its command adds: a slot that was removed stays removed (service.py
\* 190-201, 259, README.md:87).
\* Two writers that overlap can bring it back.
THEOREM RevokedStaysRevoked == Spec /\ []OneAtATime => CommitAddsOnlyItsOwn
<1> DEFINE Commit == \A p \in Writers :
             /\ Replace(p) /\ dir' # dir
             /\ Whole(data[dir.vault]) /\ Whole(data'[dir'.vault])
             => Openers(SlotsOf(data'[dir'.vault]))
                  \subseteq Openers(SlotsOf(data[dir.vault])) \cup {wr[p].adds}
<1>1. Init => GrantsInv
  <2> SUFFICES ASSUME Init, NEW p \in Writers PROVE wr[p].pc = "idle"
    BY DEF GrantsInv, Grants
  <2> QED BY DEF Init, Idle, IdleWriter
<1>2. IInv /\ VaultInv /\ GrantsInv /\ OneAtATime /\ OneAtATime' /\ [Next]_vars => GrantsInv'
  BY GrantsStep
<1>3. IInv /\ VaultInv /\ GrantsInv => Commit
  BY CommitGrants
<1>4. IInv /\ VaultInv /\ GrantsInv /\ [Next]_vars => [Commit]_vars
  BY <1>3
<1> HIDE DEF Commit
<1>5. Spec /\ []OneAtATime => [][Commit]_vars
  BY <1>1, <1>2, <1>4, VaultInvariance, PTL DEF Spec
<1> QED
  BY <1>5 DEF Commit, CommitAddsOnlyItsOwn
=============================================================================
