---------------------------- MODULE StagedExtract ----------------------------
(***************************************************************************)
(* Extraction (VaultService._extract_staged and _merge_tree): the archive  *)
(* is unpacked into a private staging directory while its stream is being  *)
(* verified, and merged into the destination once the END record has been  *)
(* read.                                                                   *)
(*                                                                         *)
(* Of the stream, only how far it is good matters here: the decoder hands  *)
(* over a beginning of the archive, and raises after it unless it is the   *)
(* whole archive (ChunkStream: ReleasedIsPrefix and DoneMeansWhole).  END  *)
(* is the last byte of an archive, so reading it takes the whole stream.   *)
(*                                                                         *)
(* Several extractions may run into one destination, and other programs    *)
(* create files and directories there.  Staging directories have unique    *)
(* names (mkdtemp) and nobody else writes in them.                         *)
(***************************************************************************)
EXTENDS Naturals, Sequences, FiniteSets

CONSTANTS
  Procs,      \* extractions, one each
  Archives,   \* the archives: sequences of records
  Paths,      \* paths below the destination, as sequences of names
  User,       \* the owner of files that were not extracted
  Meddling    \* where extractions are while others write into the destination

DirRecord(path)  == [kind |-> "dir", path |-> path]
FileRecord(path) == [kind |-> "file", path |-> path]
Record == [kind : {"dir", "file"}, path : Paths]

\* The directories a path lies in.
Ancestors(path) == {SubSeq(path, 1, k) : k \in 1 .. Len(path) - 1}

ASSUME StagedExtractAssumption ==
  /\ Archives \subseteq Seq(Record)
  /\ \A path \in Paths :
       /\ path \in Seq({path[i] : i \in DOMAIN path}) /\ path # <<>>
       /\ Ancestors(path) \subseteq Paths
  /\ User \notin Procs
  /\ Meddling \subseteq {"idle", "unpack", "check", "mkdirs", "cleanup", "ended", "crashed"}

VARIABLES
  dest,   \* what is at each path of the destination
  job     \* what each extraction is doing

vars == <<dest, job>>

Nothing   == [kind |-> "none"]
Directory == [kind |-> "dir"]
FileOf(o) == [kind |-> "file", owner |-> o]
Entry     == {Nothing, Directory} \cup {FileOf(o) : o \in Procs \cup {User}}

IsFile(tree, path) == tree[path].kind = "file"

\* A destination the file system can be in: what lies in something lies in a
\* directory.
IsTree(tree) ==
  \A path \in Paths :
    tree[path] # Nothing => \A up \in Ancestors(path) : tree[up] = Directory

FilesOf(archive) == {archive[i].path : i \in {k \in DOMAIN archive : archive[k].kind = "file"}}
DirsOf(archive)  == {archive[i].path : i \in {k \in DOMAIN archive : archive[k].kind = "dir"}}

\* An archive is packed from a tree: the directories a record lies in have
\* records of their own, and no path is both a file and a directory.
ASSUME ArchivesAreTrees ==
  \A archive \in Archives :
    /\ FilesOf(archive) \cap DirsOf(archive) = {}
    /\ \A path \in FilesOf(archive) \cup DirsOf(archive) :
         Ancestors(path) \subseteq DirsOf(archive)

\* touched remembers whether the extraction has changed the destination.
NewJob == [pc |-> "idle", archive |-> <<>>, good |-> 0, force |-> FALSE, staged |-> <<>>,
           unchecked |-> {}, found |-> {}, dirs |-> {}, files |-> {}, moved |-> {},
           result |-> "none", touched |-> FALSE]

Job == [pc : {"idle", "unpack", "check", "mkdirs", "cleanup", "ended", "crashed"},
        archive : Archives \cup {<<>>}, good : Nat, force : BOOLEAN, staged : Seq(Record),
        unchecked : SUBSET Paths, found : SUBSET Paths, dirs : SUBSET Paths,
        files : SUBSET Paths, moved : SUBSET Paths,
        result : {"none", "ok", "damaged", "refused", "conflict", "failed"}, touched : BOOLEAN]

Become(p, new) == job' = [job EXCEPT ![p] = new]

\* A step after which the destination is tree.
Change(p, new, tree) ==
  /\ Become(p, [new EXCEPT !.touched = @ \/ tree # dest])
  /\ dest' = tree

Init ==
  /\ dest \in {tree \in [Paths -> {Nothing, Directory, FileOf(User)}] : IsTree(tree)}
  /\ job = [p \in Procs |-> NewJob]

-----------------------------------------------------------------------------
(* Unpacking into the staging directory. *)

\* good counts the records, END included, that the decoder will hand over.
Start(p, archive, good, force) ==
  /\ job[p].pc = "idle"
  /\ Become(p, [NewJob EXCEPT !.pc = "unpack", !.archive = archive, !.good = good,
                              !.force = force])
  /\ UNCHANGED dest

Unpack(p) ==
  LET n == Len(job[p].staged) + 1 IN
  /\ job[p].pc = "unpack"
  /\ n <= Len(job[p].archive) /\ n <= job[p].good
  /\ Become(p, [job[p] EXCEPT !.staged = Append(@, job[p].archive[n])])
  /\ UNCHANGED dest

\* (mutation) the staging directory is not removed when unpacking fails.
UnpackFailsUncleaned(p) ==
  /\ job[p].pc = "unpack"
  /\ Become(p, [job[p] EXCEPT !.pc = "ended", !.result = "damaged"])
  /\ UNCHANGED dest

\* The decoder raises, the disk is full, or the user interrupts.
UnpackFails(p) ==
  /\ job[p].pc = "unpack"
  /\ Become(p, [job[p] EXCEPT !.pc = "cleanup", !.result = "damaged"])
  /\ UNCHANGED dest

\* (mutation) the end of the good part is taken for the end of the archive.
UnpackedEarly(p) ==
  /\ job[p].pc = "unpack"
  /\ Len(job[p].staged) = Len(job[p].archive) \/ Len(job[p].staged) = job[p].good
  /\ Become(p, [job[p] EXCEPT !.pc = IF job[p].force THEN "mkdirs" ELSE "check",
                              !.unchecked = FilesOf(job[p].staged),
                              !.dirs = DirsOf(job[p].staged),
                              !.files = FilesOf(job[p].staged)])
  /\ UNCHANGED dest

\* (mutation) the merge never looks for files in its way.
UnpackedUnchecked(p) ==
  /\ job[p].pc = "unpack"
  /\ Len(job[p].staged) = Len(job[p].archive) /\ Len(job[p].staged) < job[p].good
  /\ Become(p, [job[p] EXCEPT !.pc = "mkdirs", !.unchecked = FilesOf(job[p].staged),
                              !.dirs = DirsOf(job[p].staged),
                              !.files = FilesOf(job[p].staged)])
  /\ UNCHANGED dest

\* END is read; the staging directory is listed.
Unpacked(p) ==
  /\ job[p].pc = "unpack"
  /\ Len(job[p].staged) = Len(job[p].archive) /\ Len(job[p].staged) < job[p].good
  /\ Become(p, [job[p] EXCEPT !.pc = IF job[p].force THEN "mkdirs" ELSE "check",
                              !.unchecked = FilesOf(job[p].staged),
                              !.dirs = DirsOf(job[p].staged),
                              !.files = FilesOf(job[p].staged)])
  /\ UNCHANGED dest

-----------------------------------------------------------------------------
(* Merging. *)

\* (mutation) only files count as being in the way.
CheckFilesOnly(p, path) ==
  /\ job[p].pc = "check"
  /\ path \in job[p].unchecked
  /\ Become(p, [job[p] EXCEPT
                  !.unchecked = @ \ {path},
                  !.found = IF IsFile(dest, path) THEN @ \cup {path} ELSE @])
  /\ UNCHANGED dest

\* (mutation) a file's directory is created as soon as the file is checked.
CheckCreating(p, path) ==
  /\ job[p].pc = "check"
  /\ path \in job[p].unchecked
  /\ Change(p, [job[p] EXCEPT
                  !.unchecked = @ \ {path},
                  !.found = IF dest[path] = Nothing THEN @ ELSE @ \cup {path}],
            [other \in Paths |-> IF other \in Ancestors(path) /\ dest[other] = Nothing
                              THEN Directory ELSE dest[other]])

\* Without --force every destination is looked at, one exists() each.
Check(p, path) ==
  /\ job[p].pc = "check"
  /\ path \in job[p].unchecked
  /\ Become(p, [job[p] EXCEPT
                  !.unchecked = @ \ {path},
                  !.found = IF dest[path] = Nothing THEN @ ELSE @ \cup {path}])
  /\ UNCHANGED dest

\* OverwriteError if any of them was there.
CheckEnds(p) ==
  /\ job[p].pc = "check" /\ job[p].unchecked = {}
  /\ Become(p, IF job[p].found # {}
               THEN [job[p] EXCEPT !.pc = "cleanup", !.result = "refused"]
               ELSE [job[p] EXCEPT !.pc = "mkdirs"])
  /\ UNCHANGED dest

\* makedirs(exist_ok=True) raises when a file is in the way, before it creates
\* anything...
Blocked(tree, dirs) == \E d \in dirs : IsFile(tree, d)

\* ...and creates what is missing otherwise.
WithDirs(tree, dirs) == [path \in Paths |-> IF path \in dirs THEN Directory ELSE tree[path]]

\* os.walk lists a directory before what lies in it.
IsNext(path, rest) == path \in rest /\ Ancestors(path) \cap rest = {}

MakeDir(p, d) ==
  /\ job[p].pc = "mkdirs"
  /\ IsNext(d, job[p].dirs)
  /\ LET all == Ancestors(d) \cup {d} IN
       IF Blocked(dest, all)
       THEN /\ Become(p, [job[p] EXCEPT !.pc = "cleanup", !.result = "conflict"])
            /\ UNCHANGED dest
       ELSE Change(p, [job[p] EXCEPT !.dirs = @ \ {d}], WithDirs(dest, all))

\* A file moves once no file of a directory above its own is left to move;
\* os.replace overwrites a file and raises on a directory.
NextToMove(path, rest) ==
  /\ path \in rest
  /\ \A other \in rest :
       Len(other) < Len(path) => SubSeq(path, 1, Len(other) - 1) # SubSeq(other, 1, Len(other) - 1)

\* (mutation) a file replaces a directory, too.
MoveFileOverDir(p, path) ==
  /\ job[p].pc = "mkdirs" /\ job[p].dirs = {}
  /\ NextToMove(path, job[p].files)
  /\ IF Blocked(dest, Ancestors(path))
     THEN /\ Become(p, [job[p] EXCEPT !.pc = "cleanup", !.result = "conflict"])
          /\ UNCHANGED dest
     ELSE Change(p, [job[p] EXCEPT !.files = @ \ {path}, !.moved = @ \cup {path}],
                 [WithDirs(dest, Ancestors(path)) EXCEPT ![path] = FileOf(p)])

MoveFile(p, path) ==
  /\ job[p].pc = "mkdirs" /\ job[p].dirs = {}
  /\ NextToMove(path, job[p].files)
  /\ IF Blocked(dest, Ancestors(path)) \/ dest[path] = Directory
     THEN /\ Become(p, [job[p] EXCEPT !.pc = "cleanup", !.result = "conflict"])
          /\ UNCHANGED dest
     ELSE Change(p, [job[p] EXCEPT !.files = @ \ {path}, !.moved = @ \cup {path}],
                 [WithDirs(dest, Ancestors(path)) EXCEPT ![path] = FileOf(p)])

Merged(p) ==
  /\ job[p].pc = "mkdirs" /\ job[p].dirs = {} /\ job[p].files = {}
  /\ Become(p, [job[p] EXCEPT !.pc = "cleanup", !.result = "ok"])
  /\ UNCHANGED dest

\* exists, makedirs and replace can also fail for reasons of their own (no permission,
\* a full disk, an I/O error), and the user can interrupt before any of them: what
\* has been merged by then stays.
MergeFails(p) ==
  /\ job[p].pc \in {"check", "mkdirs"}
  /\ Become(p, [job[p] EXCEPT !.pc = "cleanup", !.result = "failed"])
  /\ UNCHANGED dest

\* The staging directory goes, whatever happened.
Cleanup(p) ==
  /\ job[p].pc = "cleanup"
  /\ Become(p, [job[p] EXCEPT !.pc = "ended", !.staged = <<>>])
  /\ UNCHANGED dest

\* The process is killed, or interrupted while it cleans up; its staging directory
\* stays.
Crash(p) ==
  /\ job[p].pc \in {"unpack", "check", "mkdirs", "cleanup"}
  /\ Become(p, [job[p] EXCEPT !.pc = "crashed"])
  /\ UNCHANGED dest

-----------------------------------------------------------------------------
\* Somebody else creates a file or a directory (external).
Meddle(path, entry) ==
  /\ \A p \in Procs : job[p].pc \in Meddling
  /\ dest[path] = Nothing
  /\ \A up \in Ancestors(path) : dest[up] = Directory
  /\ dest' = [dest EXCEPT ![path] = entry]
  /\ UNCHANGED job

Begin(p) ==
  \E archive \in Archives : \E good \in 0 .. Len(archive) + 1, force \in BOOLEAN :
    Start(p, archive, good, force)

Extract(p) ==
  \/ Unpack(p)
  \/ UnpackFails(p)
  \/ Unpacked(p)
  \/ \E path \in Paths : Check(p, path)
  \/ CheckEnds(p)
  \/ \E path \in Paths : MakeDir(p, path)
  \/ \E path \in Paths : MoveFile(p, path)
  \/ Merged(p)
  \/ MergeFails(p)
  \/ Cleanup(p)

Next ==
  \/ \E p \in Procs : Begin(p) \/ Extract(p) \/ Crash(p)
  \/ \E path \in Paths, entry \in {Directory, FileOf(User)} : Meddle(path, entry)

Spec == Init /\ [][Next]_vars

\* The merge is straight-line code of one process: unless it is killed, the
\* step it can take is eventually taken.
FairSpec == Spec /\ \A p \in Procs : WF_vars(Extract(p))

-----------------------------------------------------------------------------
Whole(p) == job[p].good > Len(job[p].archive)

\* The destination is a tree, and every extraction's record is well formed.
TypeOK ==
  /\ dest \in [Paths -> Entry] /\ IsTree(dest)
  /\ job \in [Procs -> Job]

\* A stream that does not verify to its end, or cannot be unpacked, changes
\* nothing in the destination, not even directories, and no file of it is there,
\* also while others work there (service.py 116-118).
DamagedLeavesNothing ==
  \A p \in Procs : ~Whole(p) \/ job[p].result = "damaged" =>
    ~job[p].touched /\ \A path \in Paths : dest[path] # FileOf(p)

\* Without --force a file that is there is never replaced (SECURITY.md 68-69).
NoForcedOverwrite ==
  [][\A p \in Procs, path \in Paths :
       ~job[p].force /\ path \in job'[p].moved \ job[p].moved => ~IsFile(dest, path)]_vars

\* A refused overwrite leaves the destination untouched (service.py 332-333).
RefusalLeavesUntouched ==
  \A p \in Procs : job[p].result = "refused" => ~job[p].touched

\* What an extraction without --force ends with tells what it has published: every
\* file of its archive on success; none when the stream is bad or anything is in
\* the way, even a directory where a file must go (service.py 329-334); and only
\* when the file system fails it or the user interrupts it in the middle of the
\* merge a part, exactly the files it has moved (service.py 346-358).
OutcomeTells ==
  \A p \in Procs : job[p].pc = "ended" /\ ~job[p].force =>
    {path \in Paths : dest[path] = FileOf(p)} =
      CASE job[p].result = "ok"     -> FilesOf(job[p].archive)
        [] job[p].result = "failed" -> job[p].moved
        [] OTHER                    -> {}

\* Without --force, whatever is in the way is found before anything changes, so
\* an extraction that is turned away leaves the destination untouched (service.py
\* 332-333).  A file where a directory must go is found too late.
ConflictLeavesUntouched ==
  \A p \in Procs :
    job[p].result \in {"refused", "conflict"} /\ ~job[p].force => ~job[p].touched

\* An extraction that is not killed ends, whatever it meets, and leaves no
\* staging directory (service.py 295-301).
ExtractionEnds ==
  \A p \in Procs :
    (job[p].pc # "idle") ~>
      (job[p].pc = "crashed" \/ (job[p].pc = "ended" /\ job[p].staged = <<>>))
==============================================================================
