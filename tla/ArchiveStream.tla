---------------------------- MODULE ArchiveStream ----------------------------
(***************************************************************************)
(* The archive (DirectoryArchiver): encrypt_path pulls pack_stream, which  *)
(* walks the source and yields records; decrypt_path later drives          *)
(* unpack_stream over what the decoder releases of them.                   *)
(*                                                                         *)
(* The source is a live file system.  Files and directories go or change   *)
(* while the walk is on, a directory may not be listable, and the file     *)
(* that encrypt_path writes may lie in the source.  Then the walk reads    *)
(* what the encoder has written so far, so the encoder is followed here:   *)
(* what it holds back, and how much of its output the reader has ahead.    *)
(*                                                                         *)
(* A record, a run of content with its length, a terminator and END are    *)
(* one cell each: a stream that stops inside one stops before it, because  *)
(* read_exact raises before any of it is used.                             *)
(***************************************************************************)
EXTENDS Naturals, SequencesExt

CONSTANTS
  Trees,       \* the sources, functions from paths to entries
  OutPaths,    \* where in the source the output may lie
  Targets,     \* what the destination of unpack_stream may hold already
  BadNames,    \* names that _safe_target refuses: those with a backslash
  Block,       \* units per read of a file, and per sealed chunk
  MaxAhead,    \* bound: the output ahead of the reader is counted up to this
  MaxCells,    \* bound: its own output is recorded up to this length of stream
  MaxChanges   \* bound: how many entries others change, each once

\* Paths are sequences of names, relative to the directory of the source.
Root      == <<1>>
Elsewhere == <<>>

Dir        == [kind |-> "dir", listable |-> TRUE]
LockedDir  == [kind |-> "dir", listable |-> FALSE]
File(data) == [kind |-> "file", data |-> data]
Link       == [kind |-> "link"]
Pipe       == [kind |-> "pipe"]

Parents(path)  == {SubSeq(path, 1, k) : k \in 1 .. Len(path) - 1}
Below(t, path) == {p \in DOMAIN t : IsPrefix(path, p)}
IsA(t, path, kinds) == path \in DOMAIN t /\ t[path].kind \in kinds

\* What a file system can hold.
IsEntry(e) ==
  e \in {Dir, LockedDir, Link, Pipe} \/ (e = File(e.data) /\ e.data \in Seq(Nat))

IsTree(t) ==
  /\ IsFiniteSet(DOMAIN t)
  /\ \A p \in DOMAIN t : /\ p \in Seq(Nat) \ {<<>>}
                         /\ IsEntry(t[p])
                         /\ \A q \in Parents(p) : IsA(t, q, {"dir"})

\* The tree with this entry put in the place of what may be there.
With(t, path, e) == [p \in DOMAIN t \cup {path} |-> IF p = path THEN e ELSE t[p]]

IsInSource(path) == path \in Seq(Nat) \ {<<>>} /\ path[1] = Root[1]

ASSUME ArchiveStreamAssumption ==
  /\ Block \in Nat \ {0} /\ MaxAhead \in Nat /\ MaxAhead > 2 * Block
  /\ \A t \in Trees : IsTree(t) /\ \A p \in DOMAIN t : IsInSource(p)
  /\ \A p \in OutPaths : IsInSource(p)
  /\ \A t \in Targets : IsTree(t)

Record(kind, path) == [kind |-> kind, path |-> path]
Run(data)          == [kind |-> "run", data |-> data]
Stop               == [kind |-> "stop"]
End                == [kind |-> "end"]

VARIABLES
  source,    \* the tree when the encryption starts, the output still empty
  tree,      \* the tree now
  out,       \* the output's path in the source, or Elsewhere
  pk,        \* pack_stream: agenda of paths, and the file being read
  pending,   \* encoder: units not sealed yet
  ahead,     \* units of the output written beyond the reader's position
  stream,    \* the cells
  un         \* unpack_stream

sources == <<source, tree, out>>
encoder == <<pending, ahead>>
vars    == <<sources, pk, encoder, stream, un>>

\* The entries of one directory by name.
ByName(S) ==
  CHOOSE s \in [1 .. Cardinality(S) -> S] :
    \A i, j \in DOMAIN s : i < j => Last(s[i]) < Last(s[j])

\* The output can be created there, or is a file that is emptied.
MayHold(t, path) ==
  \/ IsA(t, path, {"file"})
  \/ path \notin DOMAIN t /\ (path = Root \/ IsA(t, Front(path), {"dir"}))

\* encrypt_path has created or emptied its output before it pulls a record.
Init ==
  /\ \E t \in Trees :
       /\ out \in {Elsewhere} \cup {p \in OutPaths : MayHold(t, p)}
       /\ source = IF out = Elsewhere THEN t ELSE With(t, out, File(<<>>))
  /\ tree = source
  /\ pk = [pc |-> "start", agenda |-> <<>>, cur |-> <<>>, pos |-> 0]
  /\ pending = 0 /\ ahead = 0 /\ stream = <<>>
  /\ un = [pc |-> "idle", pos |-> 0, good |-> 0, overwrite |-> FALSE,
           cur |-> <<>>, before |-> <<>>, dest |-> <<>>]

-----------------------------------------------------------------------------
(* Packing. *)

\* (mutation) at most one chunk is sealed for a piece, however large.
SealedOnce(held) == IF held > Block THEN 1 ELSE 0

\* All full chunks are sealed, but never the last unit that is there.
Sealed(held) == IF held = 0 THEN 0 ELSE (held - 1) \div Block

\* The encoder takes some units and writes the chunks it seals, each with one
\* unit of length and tag; the reader moves on by readTo.  A record, the length
\* of a run and a terminator are one unit each.
Encode(units, readTo) ==
  IF out = Elsewhere THEN UNCHANGED encoder
  ELSE LET held == pending + units IN
         /\ pending' = held - Sealed(held) * Block
         /\ ahead' = Min({MaxAhead, ahead - readTo + Sealed(held) * (Block + 1)})

Packing(cells, new) ==
  /\ pk' = new
  /\ stream' = stream \o cells
  /\ UNCHANGED <<sources, un>>

\* A missing source or a symbolic link is refused when the first record is
\* asked for.  What is neither file nor directory is walked like one.
PackBegin ==
  LET walks == IsA(tree, Root, {"dir", "pipe"})
      first == IF walks THEN <<Record("dir", Root)>> ELSE <<>>
  IN /\ pk.pc = "start"
     /\ Packing(first,
          IF IsA(tree, Root, {"dir", "pipe", "file"})
          THEN [pk EXCEPT !.pc = "walk",
                          !.agenda = <<Record(IF walks THEN "dir" ELSE "file", Root)>>]
          ELSE [pk EXCEPT !.pc = "failed"])
     /\ Encode(Len(first), 0)

\* os.walk passes over a directory it cannot list, or that is gone.
Listing(d, kinds) ==
  IF ~IsA(tree, d, {"dir"}) \/ ~tree[d].listable THEN <<>>
  ELSE ByName({p \in DOMAIN tree : Len(p) = Len(d) + 1 /\ IsPrefix(d, p)
                                   /\ tree[p].kind \in kinds})

Records(kind, paths) == [i \in DOMAIN paths |-> Record(kind, paths[i])]

\* (mutation) the walk goes on with the new directories only.
AgendaForgetting(d, rest) ==
  LET subs == Records("dir", Listing(d, {"dir"})) IN
    Records("file", Listing(d, {"file", "pipe"})) \o (IF subs = <<>> THEN rest ELSE subs)

\* First the files of this directory, then its subdirectories; no links.
Agenda(d, rest) ==
  Records("file", Listing(d, {"file", "pipe"})) \o Records("dir", Listing(d, {"dir"})) \o rest

\* The records of the subdirectories go out when the directory is listed.
Visit ==
  /\ pk.pc = "walk" /\ pk.agenda # <<>> /\ Head(pk.agenda).kind = "dir"
  /\ LET d     == Head(pk.agenda).path
         cells == Records("dir", Listing(d, {"dir"}))
     IN Packing(cells, [pk EXCEPT !.agenda = Agenda(d, Tail(@))])
        /\ Encode(Len(cells), 0)

\* The header goes out, then the file is opened: one that is gone raises, and
\* opening a pipe waits for a writer.
OpenFile ==
  /\ pk.pc = "walk" /\ pk.agenda # <<>> /\ Head(pk.agenda).kind = "file"
  /\ LET p == Head(pk.agenda).path IN
       Packing(<<Head(pk.agenda)>>,
         [pc |-> CASE IsA(tree, p, {"file"}) -> "read"
                   [] IsA(tree, p, {"pipe"}) -> "blocked"
                   [] OTHER -> "failed",
          agenda |-> Tail(pk.agenda), cur |-> p, pos |-> 0])
  /\ Encode(1, 0)

\* What the next read gives; the contents of its own output are not told apart.
NextBlock ==
  IF pk.cur = out THEN [i \in 1 .. Min({Block, ahead}) |-> 0]
  ELSE LET data == tree[pk.cur].data IN
         SubSeq(data, pk.pos + 1, Min({pk.pos + Block, Len(data)}))

ReadBlock ==
  /\ pk.pc = "read" /\ NextBlock # <<>>
  /\ Packing(
       IF pk.cur = out /\ Len(stream) >= MaxCells THEN <<>> ELSE <<Run(NextBlock)>>,
       IF pk.cur = out THEN pk ELSE [pk EXCEPT !.pos = @ + Len(NextBlock)])
  /\ Encode(1 + Len(NextBlock), IF pk.cur = out THEN Len(NextBlock) ELSE 0)

\* (mutation) the first read of a file is expected to find something.
ReadEndsForever ==
  /\ pk.pc = "read" /\ NextBlock = <<>> /\ pk.pos > 0
  /\ Packing(<<Stop>>, [pk EXCEPT !.pc = "walk", !.cur = <<>>])
  /\ Encode(1, 0)

\* The read that finds nothing more is followed by the terminator.
ReadEnds ==
  /\ pk.pc = "read" /\ NextBlock = <<>>
  /\ Packing(<<Stop>>, [pk EXCEPT !.pc = "walk", !.cur = <<>>])
  /\ Encode(1, 0)

PackEnd ==
  /\ pk.pc = "walk" /\ pk.agenda = <<>>
  /\ Packing(<<End>>, [pk EXCEPT !.pc = "packed"])
  /\ Encode(1, 0)

\* A file that cannot be read, a name that is not UTF-8, an output that cannot
\* be written.
PackFails ==
  /\ pk.pc \in {"walk", "read"}
  /\ Packing(<<>>, [pk EXCEPT !.pc = "failed"])
  /\ UNCHANGED encoder

Pack == PackBegin \/ Visit \/ OpenFile \/ ReadBlock \/ ReadEnds \/ PackEnd

-----------------------------------------------------------------------------
(* Others change the source while it is packed (external).  An open file    *)
(* stays readable when its name goes, so that is no change to the packer.   *)

Changed == {p \in DOMAIN source : p \notin DOMAIN tree \/ source[p] # tree[p]}

Disturb(path, t) ==
  /\ pk.pc \in {"start", "walk", "read"}
  /\ ~IsPrefix(path, out) /\ path \notin Changed
  /\ tree' = t
  /\ UNCHANGED <<source, out, pk, encoder, stream, un>>
  /\ Cardinality(Changed') <= MaxChanges

Vanish(path) ==
  ~IsPrefix(path, pk.cur) /\ Disturb(path, [p \in DOMAIN tree \ Below(tree, path) |-> tree[p]])

Extend(path) ==
  tree[path].kind = "file" /\ Disturb(path, [tree EXCEPT ![path].data = Append(@, 0)])

-----------------------------------------------------------------------------
(* Unpacking. *)

\* good cells of the stream are released before the decoder raises.
UnpackBegin(good, overwrite, target) ==
  /\ pk.pc \in {"packed", "failed"} /\ un.pc = "idle"
  /\ un' = [un EXCEPT !.pc = "records", !.good = good, !.overwrite = overwrite,
                      !.before = target, !.dest = target]
  /\ UNCHANGED <<sources, pk, encoder, stream>>

Cell == stream[un.pos + 1]

\* One cell of the given kind is taken; an exception ends the extraction.
Unpacking(pc, kind, raises, new) ==
  /\ un.pc = pc /\ un.pos < un.good /\ Cell.kind = kind
  /\ un' = IF raises THEN [un EXCEPT !.pc = "failed"] ELSE [new EXCEPT !.pos = @ + 1]
  /\ UNCHANGED <<sources, pk, encoder, stream>>

Unsafe(path) == \E i \in DOMAIN path : path[i] \in BadNames

\* (mutation) makedirs without exist_ok.
BlockedAlways(dirs) == dirs \cap DOMAIN un.dest # {}

\* makedirs(exist_ok=True) raises on a file in its way.
Blocked(dirs) == \E d \in dirs : d \in DOMAIN un.dest /\ un.dest[d].kind # "dir"
WithDirs(dirs) ==
  [p \in DOMAIN un.dest \cup dirs |-> IF p \in DOMAIN un.dest THEN un.dest[p] ELSE Dir]

UnpackDir ==
  LET dirs == Parents(Cell.path) \cup {Cell.path} IN
    Unpacking("records", "dir", Unsafe(Cell.path) \/ Blocked(dirs),
              [un EXCEPT !.dest = WithDirs(dirs)])

\* (mutation) only directories are in the way.
InTheWayDirs(path) == IsA(un.dest, path, {"dir"})

\* What is there is refused, but for a file with overwrite, which is emptied.
InTheWay(path) ==
  path \in DOMAIN un.dest /\ (~un.overwrite \/ un.dest[path].kind = "dir")

UnpackFile ==
  LET path == Cell.path IN
    Unpacking("records", "file",
      Unsafe(path) \/ Blocked(Parents(path)) \/ InTheWay(path),
      [un EXCEPT !.pc = "content", !.cur = path,
                 !.dest = With(WithDirs(Parents(path)), path, File(<<>>))])

UnpackRun == Unpacking("content", "run", FALSE, [un EXCEPT !.dest[un.cur].data = @ \o Cell.data])

UnpackStop == Unpacking("content", "stop", FALSE, [un EXCEPT !.pc = "records", !.cur = <<>>])

UnpackEnd == Unpacking("records", "end", FALSE, [un EXCEPT !.pc = "ok"])

\* (mutation) a stream that stops between two records is taken for whole.
ShortOutcomeLax == IF un.pc = "records" THEN "ok" ELSE "failed"

\* The decoder has no more to give.
ShortOutcome == "failed"

UnpackShort ==
  /\ un.pc \in {"records", "content"} /\ un.pos = un.good
  /\ un' = [un EXCEPT !.pc = ShortOutcome]
  /\ UNCHANGED <<sources, pk, encoder, stream>>

Unpack == UnpackDir \/ UnpackFile \/ UnpackRun \/ UnpackStop \/ UnpackEnd \/ UnpackShort

-----------------------------------------------------------------------------
Next ==
  \/ Pack
  \/ PackFails
  \/ \E path \in DOMAIN tree : Vanish(path) \/ Extend(path)
  \/ \E good \in 0 .. Len(stream), overwrite \in BOOLEAN, target \in Targets :
       UnpackBegin(good, overwrite, target)
  \/ Unpack

Spec == Init /\ [][Next]_vars

\* Both ends are loops of one process (service.py 101, archive.py 112).
FairSpec == Spec /\ WF_vars(Pack) /\ WF_vars(Unpack)

-----------------------------------------------------------------------------
\* The packer and the unpacker are at places of the code, and within what there
\* is to read.
TypeOK ==
  /\ pk.pc \in {"start", "walk", "read", "packed", "failed", "blocked"}
  /\ un.pc \in {"idle", "records", "content", "ok", "failed"}
  /\ pending \in 0 .. Block /\ ahead \in 0 .. MaxAhead
  /\ un.pos \in 0 .. un.good /\ un.good \in 0 .. Len(stream)
  /\ un.pc = "content" => IsA(un.dest, un.cur, {"file"})

\* What an archive holds of the source: no links, and nothing of a directory
\* that cannot be listed.
Archived ==
  {p \in DOMAIN source :
     /\ source[p].kind \in {"dir", "file"}
     /\ \A q \in Parents(p) : source[q].kind = "dir" /\ source[q].listable}

\* An extraction that succeeds has brought back everything the source had, each
\* directory and file in its place with what it held, but for what others
\* changed and the output itself; and nothing else is there that was not
\* there before (archive.py 3-5, README.md:36).  A source that is neither a file
\* nor a directory comes back as an empty directory, and is left out.
ComesBack ==
  un.pc = "ok" /\ IsA(source, Root, {"dir", "file"}) =>
    /\ \A p \in Archived \ ({out} \cup Changed) :
         IF source[p].kind = "dir" THEN IsA(un.dest, p, {"dir"})
         ELSE p \in DOMAIN un.dest /\ un.dest[p] = source[p]
    /\ DOMAIN un.dest \subseteq DOMAIN un.before \cup Archived

\* A packing that failed never extracts successfully, and neither does an
\* archive of which the end is missing (archive.py 115, service.py 116-118).
OkMeansPacked == un.pc = "ok" => pk.pc = "packed" /\ un.good = Len(stream)

\* An archive that was packed to its end extracts into an empty directory
\* (README.md:36 "original names and folder structure are restored
\* automatically").  With names that _safe_target refuses, which pack_stream takes,
\* it does not hold.
PackedExtracts ==
  pk.pc = "packed" /\ un.good = Len(stream) /\ un.before = <<>> => un.pc # "failed"

\* Without overwrite, no file that was there is touched, whether the extraction
\* succeeds or stops (archive.py 56-58).
NeverReplaced ==
  ~un.overwrite =>
    \A p \in DOMAIN un.before : p \in DOMAIN un.dest /\ un.dest[p] = un.before[p]

\* Reading its own output with a whole block of it still ahead.
Runaway == pk.pc = "read" /\ pk.cur = out /\ ahead >= Block

\* Packing ends, or waits for a pipe, or has met its own output with a block of
\* it written: then, and only then, it goes on for ever (archive.py 137).
PackEnds == <>(pk.pc \in {"packed", "failed", "blocked"}) \/ <>[]Runaway
=============================================================================
