# File-Vault: a TLA+ model

File-Vault encrypts files and folders into one `.vault` file that several
passwords and public keys can open. This directory holds TLA+ modules for the
parts of it that are hard to test, TLC configurations that model-check them, and
TLAPS proofs of the properties that matter most. Paths below are relative to
`src/`; `service.py` stands for `src/Vault/service.py`, and so on.

Contents: [inventory](#1-inventory), [modules](#2-modules-and-how-they-correspond-to-the-code),
[runs](#3-runs), [proofs](#4-proofs), [findings](#5-where-the-code-and-its-documentation-disagree),
[limits](#6-what-is-abstracted-and-what-is-left-out), [plan](#7-plan).

## 1. Inventory

| component | state | operations | what makes it correct |
|---|---|---|---|
| **vault service**, `service.py` | the file under the vault's path; `<vault>.tmp` during an edit; the files extracted | `encrypt_path`, `decrypt_path`, `rekey_path`, `add_password`, `add_recipient`, `remove_slot`, `inspect`, and below them `_rewrite`, `_extract_staged`, `_merge_tree` | an edit takes effect whole or not at all; a partial vault never decrypts; a readable vault stays readable; extraction publishes nothing of a bad stream, and overwrites only with `--force`; success means all of it is there |
| **key slots**, `slots.py`, `slotcodec.py` | the slot section at the head of the file | wrap and unlock a DEK (data encryption key) for a password or an X25519 key; frame the section | every slot gives the DEK of the payload; 1 to 255 slots; an edit touches one slot |
| **chunk stream**, `stream.py` | encoder: `pending`, `counter`; decoder: `buffer`, `prev`, `counter` | `encrypt_stream`, `decrypt_stream`, `_read_chunks` | one framing per plaintext; no nonce twice; only prefixes released; a stream that ends is whole |
| **archive**, `archive.py` | packer: the walk and the open file; unpacker: the tree it writes | `pack_stream`, `unpack_stream` | what is unpacked is what was packed; END is read only when all is there; nothing is replaced unasked; packing ends |
| **command line**, `cli.py`, `main.py` | the process at its prompts; the identity file | one command per process; `keygen` writes the identity file | no password gets in that nobody meant, weak ones only with `--allow-weak`; exit code 0 means done, anything else leaves nothing half done but an encryption |
| **KDF**, `kdf.py`, `kdfparams.py` | the parameter block in a slot | derive a key; encode and check the block | the key of a password can be derived again; a damaged block is refused |
| container header, `container.py` | the first bytes of the file | magic and version | a vault is recognised |
| identities, `identity.py` | a key file | generate, parse, encode | text form round trips |
| strength, `strength.py` | none | reject weak passwords | asked wherever a password gets in |
| whole-blob cipher, `cipher.py` | none | exported, no longer used by the service | – |

How they interact. The command line is one process per command and calls one
method of the service. `encrypt_path` pulls the archive generator through the
encoder generator into the open vault file. `decrypt_path` reads the slot
section, unlocks it, then pulls file blocks through the decoder into
`unpack_stream`, which writes the staging directory; `_merge_tree` moves it into
the destination. The four edits read the section, change it, and let `_rewrite`
copy the payload behind the new section into the temporary file, which then takes
the vault's name. Processes share nothing but the file system, and take no locks.

What is hard here, and where each is modelled:

* **Interleaving.** Commands on the same vault run at the same time: two edits
  share one temporary name, an encryption empties the file a decryption has open,
  an edit replaces it (`VaultFile`); other programs write into an extraction's
  destination (`StagedExtract`).
* **Stale sections.** An edit publishes the section it read, whatever other edits
  have published meanwhile (`VaultRevoke`).
* **Errors anywhere.** A command can fail at a prompt, in the service and after it,
  when it prints its result (`VaultCli`).
* **Crashes and partial failure.** Every write can be the last one. Encryption
  works in place and has no cleanup; edits clean up unless killed, and the
  temporary file they leave is reused (`VaultFile`). Unpacking and merging stop
  half way, killed, interrupted or failed by the file system (`StagedExtract`); a stream
  stops between two records (`ArchiveStream`).
* **A source that moves.** The folder being packed changes, and may contain the
  vault that is being written (`ArchiveStream`).
* **Damage.** The stored frames are lost, repeated, exchanged, changed, cut off
  or extended (`ChunkStream`); a field of the slot section is changed, so that
  every later field may be read from the wrong place (`SlotUnlock`).
* **Boundaries.** The chunk counter at its limit; plaintexts that fill the last
  chunk exactly; the full slot counter; empty files and files of whole blocks.
* **Long sequences.** Edits in any order must keep the payload reachable
  (`VaultSpec`).

`PROJECT.json` lists each hazard at its line with the properties aimed at it.

## 2. Modules and how they correspond to the code

```
                   KeySlots                   pure: slots, unlocking, edits of the section
          /           |          \
   VaultFile ---> VaultSpec ---- VaultCli     files and processes | abstract vault | prompts
       |                                      (---> implements; ---- uses its steps)
   VaultRevoke                                edits, and who has been shut out
   SlotUnlock     (on KeySlots)               the stored section, field by field, and damage
   ArchiveStream                              pack a live tree, encoder, unpack
   ChunkStream                                encoder, stored frames, decoder
   StagedExtract                              unpack to staging, merge into destination

   KeySlotsProofs, VaultSpecProofs, VaultFileProofs, VaultCliProofs,
   ChunkStreamProofs, StagedExtractProofs, ArchiveStreamProofs,
   SlotUnlockProofs                           lemmas and theorems
   MC*                                        instances for TLC
```

**KeySlots** has no variables. A slot is a record of the secret it is wrapped for
and the DEK inside; `Opens` is `unlock_slot`, `FirstOpen` the loop of `_recover`
(the first slot that opens wins), `Rekeyed`, `Added`, `Removed` the list edits of
the four commands and `SectionFits` the guard of `serialize_section`.

**VaultSpec** is the abstract specification: one variable, `vault`, which is
absent, being encrypted, partial, or ready with a DEK and slots. An edit is one
step. Encryption is two (`EncryptStarts`, then `EncryptEnds` or `EncryptFails`),
because the code does not promise more: `encrypt_path` truncates the destination
first. It is the only command that may leave a partial file.

**VaultFile** is what the code does. The directory has two entries, `vault` and
`tmp`; inodes have contents, sequences of cells (header with the slot count, one
cell per slot, chunk size, one per chunk); a file stays readable by whoever has it
open when its name goes to another. Writers carry the local variables of
`_rewrite` and `encrypt_path` (`fh`, the position, the list of slots, `out` and
its offset); readers those of `decrypt_path`. Actions by code:
`OpenForEdit`, then `Rekey`/`AddPassword`/`AddRecipient`/`RemoveSlot` (the read
and the new list), `CreateTmp` (`_create_private`, with `O_TRUNC` on a file that
is there), `WriteCell` and `CopyRead`/`CopyWrite` (`copyfileobj`), `Replace`
(`os.replace`, or its failure), `Fail` and `Cleanup` (the `except` branch, which
removes whatever now has the temporary name), `Encrypt`/`WriteCell`/`EncryptFails`,
`Crash` anywhere; `OpenForDecrypt`, `Unlock`, `ReadAhead`, `ReadEnd`.
A section that does not fit raises when the header is already written: `Prefix`
is then the header alone, and the writer goes to `Cleanup` (an edit) or ends and
leaves the file (an encryption).
`VaultBar` maps the file under the path to the variable of `VaultSpec`, and
`ImplementsVaultSpec` is the refinement.

**ChunkStream** runs the two generators with the stored file between them. `Feed`
is one piece of the caller, of any length; `SealBlock` and `SealFinal` are the
loop body and the last line of `encrypt_stream`; `_next` raising at the limit is
the `ELSE` of `SealBlock`. `Refill` is one read of `fill`, of any length;
`ReadLength`, `TakeFrame`, `EndsInside`, `EndsBetween` are the branches of
`_read_chunks` together with what `decrypt_stream` does with the chunk they yield.
A frame is two cells of length and two of ciphertext, so the file can end inside
either. `Damage` and the actions built on it are the environment.

**VaultRevoke** runs the edits of VaultFile from a vault of two slots and remembers
whom `remove-slot` has shut out (`revoked`, a history variable). No two edits are
between `CreateTmp` and their end at once (`Apart`), so that what goes wrong there is
not the fault of the temporary file.

**VaultCli** extends VaultSpec with what stands before and after it: one command after
the other. `Begin` is the command line (`build_parser` and the branch of `main`),
with any number of `--recipient` options up to `MaxRecipients`; `LoadIdentity`,
`EnterUnlock`, `EnterNew`, `Confirm` are the identity file and the prompts with their
checks, and their pcs the order in which `main` asks. `Call...` is the call of the
service, for which VaultSpec has the step; it returns to "report", where the result is
printed (`Reports`) and only then becomes exit code 0. `Raises` is an error at any
place: before a prompt, in the service before it has any effect, or in the print, which
stands inside the same `try` and fails when the effect is there. `encrypt` takes two
steps, as in VaultSpec. `CallKeygen` overwrites the identity file, or leaves it empty.
`proc.was` is the vault as it was when the command began; `wanted` is a history
variable: the new passwords command lines had in mind, a weak one only with
`--allow-weak`. A typing error makes one of two entries at a prompt differ from the
password in mind.

**SlotUnlock** is the first part of the file as `read_section` gets it: a sequence
of numbers, one per field, with lengths counted in fields. `Written` lays out a
section of slots for either KDF and for key pairs (`Block` is
`kdfparams.serialize`). Damage changes cells or cuts the file. Then a command opens it: `Open`
(header and count), `ReadSlot`, `SectionEnds`, then `TrySlot` for one slot after the
other; `Verdict` is `unlock_slot` with all its errors ("malformed" for a
`VaultError`, "crash" for anything else), and `Parses` is `kdfparams.deserialize`. A slot
opens exactly when what is taken for salt, nonce, parameters and ciphertext is
what was sealed together. `Describes` and `Shown` are `_describe_slot`, what `inspect`
reports of a slot.

**ArchiveStream** packs a tree while others change it, and unpacks the stream.
The agenda is `os.walk` with the loops over its result: records of the
subdirectories when a directory is listed, files opened one at a time, one block
per `ReadBlock`. When the output lies in the source, the packer can read what the
encoder has written so far; `pending` and `ahead` follow how much that is.
`UnpackBegin` hands a prefix of the stream to `unpack_stream` (what the decoder
released) and the target holds anything; one action per record. `Vanish` and `Extend` are
other programs.

**StagedExtract** is `_extract_staged` with `_merge_tree`: `Unpack` takes one
record into the staging directory; `Unpacked` needs the END record, which is the
last byte of an archive and so comes out of the decoder only when all of the
stream verified; then the conflict check, one `exists` at a time (`Check`,
`CheckEnds`), the directories (`MakeDir`), the files (`MoveFile`), `Cleanup`.
`MergeFails` is every error that the file system may raise in the merge, and Ctrl-C:
what was moved by then stays.
`Meddle` is another program creating something in the destination, at the points
of an extraction that the constant `Meddling` names. How far a
stream is good is chosen at `Start`: that what comes before is a prefix of the
archive is `ReleasedIsPrefix`, and that END cannot come early `DoneMeansWhole`.

Definitions marked `(mutation)` are wrong versions of the definition after them,
each a plausible bug; nothing in a specification uses them. `PROJECT.json` pairs
them with the property that tells them from the right one.

## 3. Runs

Each run finishes within two minutes with two workers.

| run | instance | checks | shows |
|---|---|---|---|
| `vault_cli` | commands one after the other; a strong, a weak and the empty password, 2 key pairs, 2 DEKs, at most 2 recipients, 4 slots at most | `TypeOK`, `EverySlotOpens`, `EditsAreLocal`, `OnlyMeantSealed`, `ExitCodeTells` | every command, typing errors, `keygen` and errors at every place included, up to and at the full counter: every slot is a way in, an edit moves one secret in and one out, only meant passwords get a slot, 0 means done and anything else nothing half done but an encryption |
| `vault_file` | 1 writer (all commands), 1 reader, 2 passwords, 1 key pair, 2 slots (1 while the reader is at work), 2 chunks, 2 DEKs | `TypeOK`, `ImplementsVaultSpec`, `DecryptWhole`, `EditsSpareReaders` | step by step, with failures and kills anywhere and stale temporary files, the files implement the atomic vault; what decrypts is one whole payload, never part of one or a mixture; an edit never changes the file a decryption has open |
| `chunk_stream` | plaintexts of 0 to 9 units, chunks of 2, counter limit 2, 2 damages | `TypeOK`, `FramingCanonical`, `NonceFresh`, `ReleasedIsPrefix`, `DoneMeansWhole`, `IntactNeverRejected`, `EncodeEnds`, `DecodeEnds` | see section 4; plus: framing does not depend on batching, an untouched stream is accepted, both generators end |
| `archive_stream` | 8 sources, the output in 4 places of the source or elsewhere, 4 targets, 2 changes by others, every prefix of the stream | `TypeOK`, `ComesBack`, `OkMeansPacked`, `PackedExtracts`, `NeverReplaced`, `PackEnds` | what succeeds brings back all that did not change; without END nothing succeeds; what is packed extracts; nothing is replaced unasked; packing ends unless it reads its own growing output |
| `slot_unlock` | up to 3 slots of any kind, any credential, one damaged field or a cut | `TypeOK`, `DamageStaysLocal`, `InfoShowsWhatWasMade` | damage to slots after the one that opens, and to bodies for the other kind of secret, does not change what comes of unlocking; `info` shows every slot as it was wrapped as long as frames and parameters are intact |
| `staged_extract` | 1 extraction, 4 archives, every initial destination, failures and Ctrl-C anywhere, other programs writing there except between the check and the end of the merge | `TypeOK`, `DamagedLeavesNothing`, `RefusalLeavesUntouched`, `OutcomeTells`, `NoForcedOverwrite`, `ExtractionEnds` | unless others write there in just that time, an extraction without `--force` replaces no file, and publishes all files on success, none when something is in the way, and what it had moved when the merge fails; a bad stream changes nothing; it always ends and cleans up |
| `vault_spec_rekey`, `vault_file_torn`, `vault_revoke`, `slot_unlock_crash`, `staged_extract_race`, `staged_extract_conflict` | | one property each, violated | section 5 |

Why the bounds are enough. *Slots*: the first, a middle and the last slot differ
at three, and the counter is full at four in `vault_cli`; the file layout does not
depend on the number of slots, so two are enough in `vault_file`, with three secrets
on the command line so that the section overflows; `ReadersBound` lets a decryption
work only while all sections have one slot, for a password, as it tries no other slot
once it has the DEK.
*Recipients*: two can be different or the same, next to a password or
alone, and two of them and two edits fill the counter. *Chunks*:
two give a first and a final one, and three frames of ChunkStream a middle one, too. *Inodes*: one for each of the
two names and one for a file that is only open. *DEKs*: the old payload and the new
one. *Plaintext*: 0 to 9 units with chunks of 2 reach the empty plaintext, exact
multiples, remainders, exactly the largest stream (6 units), and the overflow with
one and with two chunks too many, where a counter that started again would repeat.
*Damage* of the payload: two, so that one can hide another (lose a frame and cut,
exchange and repeat). *Damage* of the section: one field, with the values 0 (too
small), 2 and 3 (valid elsewhere: types, algorithms, counts, lengths; 3 is no power of
two) and 256 (too large); sections of two slots with two damages pass
as well. *Sources*: a lone file, full or empty; nested folders with an empty one, a file and a
link; a folder that cannot be listed; a pipe; nothing; a link; a pipe alone. Files have no content,
half a block, one, and one and a half. `MaxAhead` counts the output ahead of the packer up
to more than two blocks, and beyond that nothing changes: a full block is read and
more than a block is written; `MaxCells` stops recording such a stream, not the
reading. *Archives* of StagedExtract: a lone file, files in a directory, nested
directories, directories without files, all under one name, so that each can meet
what another leaves. Symmetry is used only in runs without liveness, over sets whose
members the specification treats alike (inodes are numbers because `CreatedInode`
picks the least, so they are not in it).

Deadlock is not checked for ChunkStream, ArchiveStream, SlotUnlock and
StagedExtract, whose processes end;
it is for the vault modules, where another command can always start.

Fairness. `FairSpec` of ChunkStream has weak fairness of the encoder and of the
decoder: each is a generator pulled by one loop to its end (`service.py` 101,
`archive.py` 112, 211-216). Starting a decryption is not fair, nor is any damage.
`FairSpec` of ArchiveStream has weak fairness of the packer and of the unpacker,
loops of one process too; changes by others are not fair, nor is a failure. A pipe
that nobody writes blocks the packer for good ("blocked"), as it does in the code.
`FairSpec` of StagedExtract has weak fairness of the steps of an extraction once
it runs, straight-line code of one process; not of starting one, of kills, or of
other programs. A kill ends the obligation (`ExtractionEnds` allows "crashed").
SlotUnlock and the vault modules state no liveness: an edit takes a finite number of steps, and
nothing there waits.

## 4. Proofs

TLC checks the instances above; the following hold for every value of the
constants, checked by TLAPS.

**VaultSpecProofs** – for any passwords, key pairs, DEKs and slot limit:

* `TypeCorrect`: `Spec => []TypeOK`.
* `EverySlotAlwaysOpens`: `Spec => []EverySlotOpens`. However long a sequence of
  edits, the section has between 1 and `MaxSlots` slots and each gives the DEK of
  the payload.
* `EditsStayLocal`: `Spec => EditsAreLocal`. An edit keeps the DEK, takes access
  from at most one secret and gives it to at most one.
* `RekeyRevokesOnlySlot`: a password change revokes the old password if it opened one
  slot only. (If it opened two it does not: `vault_spec_rekey`.)

The invariant is `TypeOK /\ EverySlotOpens`. It is inductive because a command
rewraps the DEK of a slot it could open, and that slot wrapped the right one. One
lemma per edit (`RekeyedProperties`, `AddedProperties`, `RemovedProperties`) says
what happens to the section (all in **KeySlotsProofs**, which the other vault
proofs share); `FirstOpenIsOpen` gives sense to the `CHOOSE` of the
first slot, from the well-foundedness of the naturals.
Assumptions: `KeySlotsAssumption` (passwords are not key pairs, at least one slot fits).

**VaultCliProofs** – for any number of commands one after the other, any passwords, weak
ones among them, any recipients and slot limit:

* `NothingUnmeantSealed`: `CliSpec => []OnlyMeantSealed`.
* `ExitCodesTell`: `CliSpec => ExitCodeTells`. A command that returns 0 has done all it
  is for (`Done`: it was let in by a secret of the vault it began with, every secret it
  names opens the vault, nobody else does who did not before). One that fails has left
  the vault as it was, or with all done and only the print failed, or, an encryption,
  partial: exit code 1 alone does not say which.

The invariant says what a command knows at each prompt (`PromptOK`: a password that
would be accepted is wanted; at the second prompt the first entry is what was
wanted unless the one typing error was made) and what it has in hand when it calls
(`CallOK`: an entry is wanted, and only a command that takes a new password has one). For
the exit codes more is needed: until the call the vault is the one the command began
with, and at "report" all is `Done`; the rest is what each edit does to the section.
Assumptions: those of KeySlots, and `VaultCliAssumption` (weak passwords are passwords, the
empty one is weak, `None` is no secret).

**VaultFileProofs** – for any number of writers and readers, any secrets, keys,
slot limit and number of chunks:

* `TypeCorrect`: `Spec => []TypeOK`.
* `DecryptIsWhole`: `Spec => []DecryptWhole`.

The invariant `IInv` has two parts. `StoredCell`: files, buffers and readers only hold
cells commands write, in which a chunk is flagged final exactly at the last place
of its payload. That survives everything writers do to each other's files, since
they copy and drop cells but make up none but holes. `ReleasesPayload`: what a
reader has released are the first chunks of its DEK's payload. A chunk it accepts
as not final, at its place, under its key, then continues that payload, and one it
accepts as final must be the last. Assumptions: `VaultFileAssumption` (at least one
chunk, `None` is nothing else) and `NoneIsNoCell`.

With writers that take turns (`OneAtATime`: no two are under way at once; each may
fail or be killed anywhere, and the next finds what it left), and any number of
readers at any time:

* `FilesImplementVaultSpec`: `Spec /\ []OneAtATime => ImplementsVaultSpec`. Failures and
  kills included, every step on the files is a step of the abstract vault or a stutter;
  so what is proved of VaultSpec holds of the files.
* `ReadersAreSpared`: `Spec /\ []OneAtATime => EditsSpareReaders`.
* `EditsKeepItWhole`: `SpecEdits /\ []OneAtATime => []VaultStaysWhole`. From a finished
  vault, edits never leave the path without one (`Inodes # {}`: there is a file to
  begin with).
* `RevokedStaysRevoked`: `Spec /\ []OneAtATime => CommitAddsOnlyItsOwn`. Nobody gets
  access by an edit but the one it is for, so who was shut out stays out.

`OneAtATime` is not a convenience: when two writers overlap these are false, because all
edits use one temporary name (`vault_file_torn`) and publish the section they have read,
not the one that is there (`vault_revoke`). It is a condition on behaviours, not on
constants: `WorksAlone` says that the
writer of a step has the files to itself, and `TurnsStep` carries the argument from one
step to the next. The invariant `VaultInv` follows the two names. What is under the path
is a beginning of the vault some encryption makes, with one DEK in all slots and chunks
(`Begins`, `Sound`); the temporary file of a rewrite is a beginning of the same vault
with an edited section, and the places in the old and the new file differ by as much as
the sections do (`Editing`); nobody reads the temporary file. A rewrite that reaches
`os.replace` has copied all there was, so the new file is whole exactly if the old one
was: the rename is the abstract edit, every other step of it a stutter. `StepGood`
collects what is to be shown of a step; one lemma per action shows it. For the last
theorem, `GrantsInv` keeps what a rewrite knows of the section it read, which is still
the one under the path when it publishes.

**ChunkStreamProofs** – for any chunk size, counter limit, plaintexts, batching
and any amount of damage:

* `TypeCorrect`, `NoncesStayFresh` (`NonceFresh`), `OnlyPrefixesReleased`
  (`ReleasedIsPrefix`), `DoneIsWhole` (`DoneMeansWhole`).
* `FramingIsCanonical`: `Spec => []FramingCanonical`. How the caller cuts a plaintext
  into pieces does not show in the frames.
* `IntactIsNeverRejected`: `Spec => []IntactNeverRejected`. What was encrypted to its
  end and not touched decrypts, wherever the reads are cut.

None of these is inductive. The idea of the invariant `IInv` is *genuineness*: a frame
that still opens under the key carries, by its counter and flag, a definite piece of the
plaintext (`Genuine`), and `GoodFrame` – genuine if it opens – is kept by every damage,
since damage moves, drops or marks frames but cannot seal new ones. `EncoderOK` says
that what is pending continues the plaintext where the sealed chunks stop; `DecoderOK`
that what is released ends exactly at the chunk the decoder expects next. A release then
extends the prefix by the next chunk, and a final-flagged chunk reaches the end of the
plaintext. `NoncesOK` ties each frame's counter to its place until something is damaged.
The last two are about a file without damage and need more (`IntactInv`): every chunk
but the first begins before the end of the plaintext, and just the last one is final and
reaches it (`Framed`); the decoder holds back exactly the last frame it took (`InStep`).

**StagedExtractProofs** – for any archives, paths, number of extractions and
meddling:

* `TypeCorrect`: `Spec => []TypeOK`; above all, the destination stays a tree.
* `DamagedIsNeverPublished`: `Spec => []DamagedLeavesNothing`.
* `RefusedIsUntouched`: `Spec => []RefusalLeavesUntouched`. A refusal for a conflict
  comes before the first change.

With no two extractions between check and end of merge at once (`OneMerges`), and no
other program writing there in that time (`NoMeddling`):

* `OutcomesTell`: `Spec /\ []OneMerges => [](ForcedStaysOut => OutcomeTells)`. All files
  on success, none when the stream is bad or anything is in the way, and what was moved
  when the merge fails.
  What was published stays, whatever other extractions do before and after it, as long
  as none with `--force` puts a file where one without it has one (`ForcedStaysOut`).
* `NothingOverwritten`: `Spec /\ []OneMerges => NoForcedOverwrite`.
* `ClearDirsMeanUntouched`: `Spec /\ []OneMerges /\ []DirsAreClear =>
  []ConflictLeavesUntouched`. An extraction that is turned away has changed nothing if,
  while it looked, no file was where its archive has a directory (`DirsAreClear`); with
  one there it may have (`staged_extract_conflict`).

The invariant of `DamagedIsNeverPublished` says that an extraction which is not known to
be whole (`Barred`) has neither reached the merge nor changed anything (`Clean`), and
that no file in the destination is its own (`Absent`). The second conjunct is needed
because the files of one extraction must not be taken for another's; `Settled` because a
result, once there, must belong to an extraction that is over. `QuietStep` and
`PublishingStep` split the actions into those that leave the destination alone and those
that do not. The other theorems need that what was looked at stays as it was
(`WayIsFree`: what was checked is still free), that the destination's files from this
extraction are those it moved (`Placed`), and `Planned`: staged is what the archive has
up to the next record, and what is still to move and what has moved are together all
files. Other extractions keep this (`OthersSpare`) because their steps either leave the
destination alone or come when this one is not merging, and then add no file of its own;
`Kept` says that a file that was moved is there or was replaced with `--force`. The last
needs `ClearWay` besides: no file is in the way of a directory still to be made. What
another writes in that time can break all three (`staged_extract_race` shows it for the
second). Assumptions: `StagedExtractAssumption`, and `ArchivesAreTrees`, that an archive
has a directory record for each directory it uses and no path twice as file and
directory, which is how `pack_stream` writes them (`archive.py` 76-98).

**ArchiveStreamProofs** – for any source trees, places of the output, block size and
destinations, any interleaving with other programs, and a stream cut off anywhere:

* `TypeCorrect`: `Spec => []TypeOK`.
* `OnlyWholeArchivesExtract`: `Spec => []OkMeansPacked`.
* `NothingReplaced`: `Spec => []NeverReplaced`.
* `EverythingComesBack`: `Spec => []ComesBack`. An extraction that succeeds has
  brought back every entry nobody touched, with its content, and nothing that was not there.
* `PackedAlwaysExtracts`: `Spec => []PackedExtracts`, provided that no name in the
  sources is one `_safe_target` refuses (`NamesSafe`; otherwise it is false, section 6).

The argument has four layers. `CoreInv`: what is left of the source is a tree, the
stream is made of cells, packer, encoder and unpacker are where the code can be.
`WalkOK` is about `os.walk`: the agenda has no entry above or below another, a path gets
at most one record, and whatever nobody changed has its record or is still covered by
the agenda. `ContentOK` is about the loop over a file: the runs after a file's record
are its blocks in order, and what was read of a file that nobody changed is the
beginning of its content. `UnpackInv` follows the unpacker along the stream: it has
created what the records so far name, each file with the content its runs carry
(`Restores`), and nothing else but what was there (`NothingElse`). When END is read the
stream is complete, so the agenda is empty and every record has been unpacked.
Assumptions: `ArchiveStreamAssumption` (blocks are not empty, `MaxAhead` is more than
two of them, sources and destinations are trees).

**SlotUnlockProofs** – for any secrets, number of slots and of damages, and whatever
numbers a damaged field holds:

* `TypeCorrect`: `Spec => []TypeOK`.
* `BadSlotsHarmNobody`: `Spec => []DamageStaysLocal`.
* `OneFieldCrashes`: `Spec => [](OneFieldLeft => CrashesOnlyFromValues)`. However often
  the file is cut, as long as one field of what is left is damaged, to whatever value, only
  a key size, a parameter's value or an ephemeral key can crash a command.
  With more damages it is false: four damaged fields can make up another entry of a
  parameter block, with a value that crashes (the length of the slot, the number of
  entries, the salt read as a tag and the nonce as its value; TLC finds it).

`DamageStaysLocal` does not say that a damaged slot never locks anybody out. The count,
the lengths of all slots, and the bodies of slots of the same kind before the one that
opens are read by every such credential, and a malformed one ends the command
(`slots.py` 144-165, `service.py` 232-240).

The first part computes: where the cells of slot `i` are in the file (`Places`,
`WrittenCells`), and what unlocking makes of a slot as it was written (`SlotFits`). The
invariant `UnlockInv` has a part for the file (`FileOK`: a cell that is not in `damaged`
is as written), one for the command that holds with any damage (`RunOK`: as many slots
are still to read as the count says, and a command that goes on did so by the verdict on
its slot), and one that holds only while nothing the credential needs is damaged
(`OnTrack`: the slots read are those at their places, none tried so far is for the
credential). Damage in a part that is skipped is then seen not to shift anything, since
type and length of the other slots are read and `Unread` leaves them out. The section is
a concatenation; facts about its pieces are proved by the least slot at which they would
fail. For the crashes, `CrashInv` says that the section is read from where a slot was
written until the damaged field is passed (`InStep`), so that at most one slot holds it,
and that of the slots read none crashes otherwise (`SlotsTame`): after a shift, what
is taken for a slot consists of true cells, whose types and random fields are no parameter
block. Assumptions: those of KeySlots, and `SlotUnlockAssumption` (damaged fields hold
natural numbers).

Only model-checked: liveness, which needs fairness and `ENABLED` (`EncodeEnds`,
`DecodeEnds`, `PackEnds`, `ExtractionEnds`).

The six properties of section 5 are false as stated. Theorems say under which
condition each holds: `RekeyRevokesOnlySlot`, `EditsKeepItWhole`,
`RevokedStaysRevoked` (for `RevokedStayOut`), `OneFieldCrashes` (for `NeverCrashes`),
`NothingOverwritten`, `ClearDirsMeanUntouched`.

## 5. Where the code and its documentation disagree

* **A changed password may still open the vault** (`vault_spec_rekey`). `rekey`
  replaces the first slot the old password opens; the same password can be in two
  slots (`add-password` twice, or `rekey` to a password that is there already).
  `service.py` 144 speaks of "the slot the old password unlocks";
  `Tests/test_rekey.py` 33-34 has the one-slot case only.
* **`_rewrite` is not atomic when two edits run** (`vault_file_torn`).
  `service.py` 248 says "Writes atomically."; the temporary name is fixed, so the
  second edit empties the file the first is about to publish.
* **A removed slot comes back** (`vault_revoke`). README.md 87 calls
  `remove-slot` revoking. Two edits read a section of two slots; each removes another
  one, and their rewrites run one after the other: the second publishes what the first
  has removed. With any other edit in place of the second it is the same.
* **A damaged size ends in a traceback** (`slot_unlock_crash`). A key size of 33 passes
  `_validate_sizes`, and `AESGCM` raises a `ValueError` that `main` does not catch;
  `kdfparams.py` 153-156 says that the checks are there against just that, and
  `slots.py` 80 that only a `ContainerError` is raised. The same happens with a work
  factor beyond what the library takes and an ephemeral key of low order.
* **A file is overwritten without `--force`** (`staged_extract_race`). It only has
  to appear after `_merge_tree` looked (SECURITY.md 68-69).
* **A refused extraction leaves directories behind** (`staged_extract_conflict`).
  A file where the archive has a directory is found only by `os.makedirs`, after
  other directories were made (`service.py` 332-333 "leaves the destination
  untouched").

## 6. What is abstracted, and what is left out

* *Cryptography* is ideal: a slot or chunk opens exactly under the key, nonce and
  associated data it was sealed with. A DEK is fresh (`os.urandom`); a key pair is
  one value; a password and its derived key are not told apart.
* *Bytes* are cells. A cell of VaultFile is written in one step; real blocks are
  larger or smaller, but no reader takes part of a cell for a whole one (the code
  reads exact lengths, and a chunk cut short does not authenticate, which is
  ChunkStream's subject).
* *One read* of the header, the slots and the chunk size is one step (`Unlock`, the
  edit actions): they lie in the first block that the buffered file reads. The key
  derivation that follows, which takes long, is part of the step, but what it works
  on is already in memory.
* *Length fields*: a damaged one is refused at once in ChunkStream. In the code one
  within bounds makes the decoder take the wrong bytes for a chunk, which then does
  not authenticate: the same outcome later.
* *Commands overlap* in VaultFile and VaultRevoke, not in VaultCli, where one runs
  after the other and a call is a step of VaultSpec (two for `encrypt`). What is shown
  of VaultCli therefore says nothing about commands that run at the same time.
* *Exit codes*: exceptions `main` does not catch end Python with a code that is not 0
  and count as 1. An encryption in the service ends by its own steps only, and a call
  that fails has had no effect: a Ctrl-C between `os.replace` and the return is taken
  together with one in the print.
* *Random fields* of the slot section never equal a field value of another kind: a
  damaged length that makes a salt be read as a type byte gives a type that does
  not exist. A damaged cell takes one of four values in the run, any in the proofs.
* *Crashes* of SlotUnlock: which values the crypto library refuses with an exception of its own is an
  outside fact, taken from its documentation (AES key sizes, memory limits, X25519 keys of low order).
* *An archive record* is one cell: `read_exact` raises inside one before any of it
  is used, so a stream that stops inside a record stops before it.
* *Names* are numbers; `BadNames` are those with a backslash. `pack_stream` writes such
  a name and `_safe_target` (`archive.py` 168) refuses it, so that a folder with one
  encrypts and never decrypts, although README.md 36 says that the original names are
  restored: with `BadNames = {2}` TLC refutes `PackedExtracts`. The run has none, and
  `NamesSafe` is the condition of `PackedAlwaysExtracts`.
* *Directories that cannot be listed* come back empty, since `os.walk` (`archive.py` 88)
  passes over them, although README.md 29 says "the entire tree"; so does a source that
  is a lone pipe. `ComesBack` says so by what its `Archived` leaves out.
* *`info`* describes all slots, so it refuses a vault that opens at a slot before a
  malformed one. Nothing promises otherwise, and no property is about it.
* *Paths that `pack_stream` never writes* (absolute, with `..`, through a link in the
  destination) are not modelled.
* *The `destination` argument* of the edits, which no command passes, is left out.
* *The staging directory* is private (`mkdtemp`), and is not part of `dest`.
  `makedirs` of the destination itself, which happens before anything is verified,
  is not counted as publishing. `Meddle` creates but does not remove. The staging
  directory always goes in `Cleanup` (`rmtree` ignores errors of its own); a Ctrl-C
  there counts as a kill.
* *Symbolic links in the destination* are not modelled, nor the dangling ones that
  `os.path.exists` takes for nothing and `os.replace` replaces.
* *Not modelled*, with reasons in `PROJECT.json`: the whole-blob cipher, which the
  service no longer uses; the text encoding of keys and the word list of weak
  passwords, which are strings and calls of libraries; what is printed; the empty
  GUI. Loss of the page cache in a power failure (there is no `fsync`) is not modelled: what
  survives is the file system's choice, and the code promises nothing about it.

## 7. Plan

Done: KeySlots, VaultSpec, VaultFile, VaultRevoke, VaultCli, SlotUnlock, ArchiveStream,
ChunkStream, StagedExtract, their runs, and the proofs of section 4. What is left:

* **VaultFileProofs** when edits overlap: beyond `DecryptIsWhole` (and `TypeCorrect`),
  which hold for any overlap, one could say which slots a vault that is whole may
  carry. That needs a history of the sections that were read.
