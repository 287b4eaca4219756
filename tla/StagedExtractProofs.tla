------------------------- MODULE StagedExtractProofs -------------------------
(***************************************************************************)
(* Proofs about StagedExtract, for any archives and paths.                 *)
(*                                                                         *)
(* With any number of extractions and whatever other programs create       *)
(* meanwhile: nothing of a stream that does not verify to its end reaches  *)
(* the destination (IInv), the destination stays a tree, and an extraction *)
(* that is refused has changed nothing (Untouched).                        *)
(*                                                                         *)
(* With extractions that do not overlap between their check and the end of *)
(* their merge (OneMerges), and no other program writing there in that     *)
(* time (NoMeddling): no file is replaced unasked, and one that ends has   *)
(* published all of its files or none, unless it fails half-way.           *)
(***************************************************************************)
EXTENDS StagedExtract, SequenceTheorems, TLAPS

\* The types of the variables, as far as the argument needs them.
Typed ==
  /\ dest \in [Paths -> Entry]
  /\ job \in [Procs -> Job]

\* An extraction that may not publish: its stream has not been read to the end,
\* or cannot be.
Barred(j) == j.pc \in {"idle", "unpack"} \/ ~(j.good > Len(j.archive)) \/ j.result = "damaged"

\* An extraction that has published nothing and is not about to.
Clean(j)   == j.pc \notin {"check", "mkdirs"} /\ ~j.touched
Absent(p)  == \A path \in Paths : dest[path] # FileOf(p)

\* Only an extraction that is over has a result.
Settled(j) == j.pc \in {"unpack", "check", "mkdirs"} => j.result = "none"

\* The inductive invariant: the END record stands between a bad stream and
\* every step that publishes.
IInv ==
  /\ Typed
  /\ \A p \in Procs : Settled(job[p])
  /\ \A p \in Procs : Barred(job[p]) => Clean(job[p]) /\ Absent(p)

-----------------------------------------------------------------------------
\* The paths of an archive's records are paths.
LEMMA RecordPaths ==
  ASSUME NEW staged \in Seq(Record)
  PROVE  FilesOf(staged) \subseteq Paths /\ DirsOf(staged) \subseteq Paths
<1>1. \A i \in DOMAIN staged : staged[i] \in Record
  OBVIOUS
<1>2. \A record \in Record : record.path \in Paths
  BY DEF Record
<1> QED BY <1>1, <1>2 DEF FilesOf, DirsOf

\* The record of an extraction that has not started is well formed.
LEMMA NewJobType == NewJob \in Job
BY DEF NewJob, Job, Entry

\* The archive an extraction works on has a length.
LEMMA ArchiveLength ==
  ASSUME Typed, NEW p \in Procs
  PROVE  job[p].archive \in Seq(Record) /\ Len(job[p].archive) \in Nat
<1>1. job[p].archive \in Archives \cup {<<>>}
  BY DEF Typed, Job
<1>2. Archives \subseteq Seq(Record) /\ <<>> \in Seq(Record)
  BY StagedExtractAssumption
<1>3. job[p].archive \in Seq(Record)
  BY <1>1, <1>2
<1> QED BY <1>3

\* A step of an extraction that leaves the destination alone keeps the
\* invariant when its own record keeps it.
LEMMA QuietStep ==
  ASSUME IInv, NEW p \in Procs, NEW new \in Job, Become(p, new), UNCHANGED dest,
         Settled(new),
         Barred(new) => Clean(new) /\ Barred(job[p])
  PROVE  IInv'
<1>1. Typed'
  BY DEF IInv, Typed, Become
<1>2. job'[p] = new
  BY DEF Become, IInv, Typed
<1>3. ASSUME NEW q \in Procs
      PROVE  Settled(job'[q]) /\ (Barred(job'[q]) => Clean(job'[q]) /\ Absent(q)')
  <2>1. CASE q = p
    BY <1>2, <2>1 DEF IInv, Absent
  <2>2. CASE q # p
    <3>1. job'[q] = job[q]
      BY <2>2 DEF Become, IInv, Typed
    <3> QED BY <3>1 DEF IInv, Absent
  <2> QED BY <2>1, <2>2
<1> QED BY <1>1, <1>3 DEF IInv

\* So does a step that publishes, when it puts only the extraction's own files
\* and directories into the destination: its stream is good.
LEMMA PublishingStep ==
  ASSUME IInv, NEW p \in Procs, NEW new \in Job, Become(p, new),
         job[p].pc \in {"check", "mkdirs"},
         new.pc \notin {"idle", "unpack"}, new.result # "damaged", Settled(new),
         new.good = job[p].good, new.archive = job[p].archive,
         dest' \in [Paths -> Entry],
         \A path \in Paths : dest'[path] \in {dest[path], Directory, FileOf(p)}
  PROVE  IInv'
<1>1. Typed'
  BY DEF IInv, Typed, Become
<1>2. job'[p] = new
  BY DEF Become, IInv, Typed
<1>3. ~Barred(new)
  BY DEF IInv, Barred, Clean
<1>4. ASSUME NEW q \in Procs
      PROVE  Settled(job'[q]) /\ (Barred(job'[q]) => Clean(job'[q]) /\ Absent(q)')
  <2>1. CASE q = p
    BY <1>2, <1>3, <2>1
  <2>2. CASE q # p
    <3>1. job'[q] = job[q]
      BY <2>2 DEF Become, IInv, Typed
    <3>2. Absent(q) => Absent(q)'
      BY <2>2 DEF Absent, FileOf, Directory
    <3> QED BY <3>1, <3>2 DEF IInv
  <2> QED BY <2>1, <2>2
<1> QED BY <1>1, <1>4 DEF IInv

-----------------------------------------------------------------------------
\* In the initial states nothing is extracted.
LEMMA InitOK == Init => IInv
<1> SUFFICES ASSUME Init PROVE IInv
  OBVIOUS
<1>1. dest \in [Paths -> {Nothing, Directory, FileOf(User)}]
  BY DEF Init
<1>2. dest \in [Paths -> Entry]
  BY <1>1 DEF Entry
<1>3. \A p \in Procs : Absent(p)
  BY <1>1, StagedExtractAssumption DEF Absent, FileOf, Directory, Nothing
<1>4. Settled(NewJob) /\ Clean(NewJob)
  BY DEF NewJob, Settled, Clean
<1> QED BY <1>2, <1>3, <1>4, NewJobType DEF IInv, Typed, Init

\* Starting.
LEMMA StartOK ==
  ASSUME IInv, NEW p \in Procs, Begin(p)
  PROVE  IInv'
<1>0. PICK archive \in Archives : \E good \in 0 .. Len(archive) + 1, force \in BOOLEAN :
        Start(p, archive, good, force)
  BY DEF Begin
<1>1. PICK good \in 0 .. Len(archive) + 1, force \in BOOLEAN : Start(p, archive, good, force)
  BY <1>0
<1> DEFINE new == [NewJob EXCEPT !.pc = "unpack", !.archive = archive, !.good = good,
                                 !.force = force]
<1>2. archive \in Seq(Record) /\ good \in Nat
  BY StagedExtractAssumption
<1>3. new \in Job
  BY <1>2, NewJobType DEF Job, IInv, Typed
<1>4. Settled(new) /\ Clean(new)
  BY DEF NewJob, Settled, Clean
<1>5. Become(p, new) /\ UNCHANGED dest /\ Barred(job[p])
  BY <1>1 DEF Start, Barred
<1> HIDE DEF new
<1> QED BY <1>3, <1>4, <1>5, QuietStep

\* Unpacking, whether it works or not.
LEMMA UnpackingOK ==
  ASSUME IInv, NEW p \in Procs, Unpack(p) \/ UnpackFails(p) \/ Unpacked(p)
  PROVE  IInv'
<1> USE DEF IInv
<1>0. job[p] \in Job
  BY DEF Typed
<1>1. CASE Unpack(p)
  <2> DEFINE n == Len(job[p].staged) + 1
             new == [job[p] EXCEPT !.staged = Append(@, job[p].archive[n])]
  <2>1. n \in 1 .. Len(job[p].archive)
    BY <1>0, <1>1, ArchiveLength DEF Unpack, Job
  <2>2. job[p].archive[n] \in Record
    BY <2>1, ArchiveLength
  <2>3. Append(job[p].staged, job[p].archive[n]) \in Seq(Record)
    <3>1. job[p].staged \in Seq(Record)
      BY <1>0 DEF Job
    <3> QED BY <2>2, <3>1
  <2>4. new \in Job
    <3> HIDE DEF n
    <3> QED BY <1>0, <2>3 DEF Job
  <2>5. /\ new.pc = job[p].pc /\ new.touched = job[p].touched /\ new.result = job[p].result
    BY <1>0 DEF Job
  <2>6. Become(p, new) /\ UNCHANGED dest /\ job[p].pc = "unpack"
    BY <1>1 DEF Unpack
  <2>7. Barred(job[p])
    BY <2>6 DEF Barred
  <2> HIDE DEF new
  <2>8. Settled(new) /\ Clean(new)
    BY <2>5, <2>7 DEF Settled, Clean
  <2> QED BY <2>4, <2>6, <2>7, <2>8, QuietStep
<1>2. CASE UnpackFails(p)
  <2> DEFINE new == [job[p] EXCEPT !.pc = "cleanup", !.result = "damaged"]
  <2>1. new \in Job
    BY <1>0 DEF Job
  <2>2. /\ new.pc = "cleanup" /\ new.touched = job[p].touched
    BY <1>0 DEF Job
  <2>3. Become(p, new) /\ UNCHANGED dest /\ Barred(job[p])
    BY <1>2 DEF UnpackFails, Barred
  <2> HIDE DEF new
  <2>4. Settled(new) /\ Clean(new)
    BY <2>2, <2>3 DEF Settled, Clean
  <2> QED BY <2>1, <2>3, <2>4, QuietStep
<1>3. CASE Unpacked(p)
  <2> DEFINE new == [job[p] EXCEPT !.pc = IF job[p].force THEN "mkdirs" ELSE "check",
                                   !.unchecked = FilesOf(job[p].staged),
                                   !.dirs = DirsOf(job[p].staged),
                                   !.files = FilesOf(job[p].staged)]
  <2>1. job[p].staged \in Seq(Record)
    BY <1>0 DEF Job
  <2>2. new \in Job
    BY <1>0, <2>1, RecordPaths DEF Job
  <2>3. /\ new.pc \in {"check", "mkdirs"} /\ new.result = job[p].result
        /\ new.good = job[p].good /\ new.archive = job[p].archive
    BY <1>0 DEF Job
  <2>4. job[p].good > Len(job[p].archive) /\ job[p].result = "none"
    BY <1>3 DEF Unpacked, Settled
  <2>5. Become(p, new) /\ UNCHANGED dest
    BY <1>3 DEF Unpacked
  <2> HIDE DEF new
  <2>6. Settled(new) /\ ~Barred(new)
    BY <2>3, <2>4 DEF Settled, Barred
  <2> QED BY <2>2, <2>5, <2>6, QuietStep
<1> QED BY <1>1, <1>2, <1>3

\* Looking for files in the way.
LEMMA CheckingOK ==
  ASSUME IInv, NEW p \in Procs, (\E path \in Paths : Check(p, path)) \/ CheckEnds(p)
  PROVE  IInv'
<1>0. job[p] \in Job /\ dest \in [Paths -> Entry] /\ Settled(job[p])
  BY DEF IInv, Typed
<1>1. ASSUME NEW path \in Paths, Check(p, path)
      PROVE  IInv'
  <2> DEFINE new == [job[p] EXCEPT
                       !.unchecked = @ \ {path},
                       !.found = IF dest[path] = Nothing THEN @ ELSE @ \cup {path}]
  <2>1. new \in Job
    BY <1>0 DEF Job
  <2>2. /\ new.pc = job[p].pc /\ new.result = job[p].result
        /\ new.good = job[p].good /\ new.archive = job[p].archive
    BY <1>0 DEF Job
  <2>3. Become(p, new) /\ UNCHANGED dest /\ job[p].pc = "check"
    BY <1>1 DEF Check
  <2> HIDE DEF new
  <2>4. Settled(new) /\ new.result # "damaged"
    BY <1>0, <2>2, <2>3 DEF Settled
  <2> QED BY <1>0, <2>1, <2>2, <2>3, <2>4, PublishingStep
<1>2. CASE CheckEnds(p)
  <2> DEFINE new == IF job[p].found # {}
                    THEN [job[p] EXCEPT !.pc = "cleanup", !.result = "refused"]
                    ELSE [job[p] EXCEPT !.pc = "mkdirs"]
  <2>1. new \in Job
    BY <1>0 DEF Job
  <2>2. Become(p, new) /\ UNCHANGED dest /\ job[p].pc = "check"
    BY <1>2 DEF CheckEnds
  <2>3. /\ new.pc \notin {"idle", "unpack"} /\ new.result # "damaged" /\ Settled(new)
        /\ new.good = job[p].good /\ new.archive = job[p].archive
    BY <1>0, <2>2 DEF Job, Settled
  <2> HIDE DEF new
  <2> QED BY <1>0, <2>1, <2>2, <2>3, PublishingStep
<1> QED BY <1>1, <1>2

\* Making the directories.
LEMMA MakeDirOK ==
  ASSUME IInv, NEW p \in Procs, NEW d \in Paths, MakeDir(p, d)
  PROVE  IInv'
<1> DEFINE all == Ancestors(d) \cup {d}
           stop == [job[p] EXCEPT !.pc = "cleanup", !.result = "conflict"]
           go == [[job[p] EXCEPT !.dirs = @ \ {d}]
                    EXCEPT !.touched = @ \/ WithDirs(dest, all) # dest]
<1>0. /\ job[p] \in Job /\ dest \in [Paths -> Entry]
      /\ job[p].pc = "mkdirs" /\ job[p].result = "none"
  BY DEF IInv, Typed, Settled, MakeDir
<1>1. /\ stop \in Job /\ stop.pc = "cleanup" /\ stop.result = "conflict"
      /\ stop.good = job[p].good /\ stop.archive = job[p].archive /\ Settled(stop)
  BY <1>0 DEF Job, Settled
<1>2. /\ go \in Job /\ go.pc = "mkdirs" /\ go.result = "none"
      /\ go.good = job[p].good /\ go.archive = job[p].archive /\ Settled(go)
  BY <1>0 DEF Job, Settled
<1>3. CASE Blocked(dest, all)
  <2>1. Become(p, stop) /\ UNCHANGED dest
    BY <1>3 DEF MakeDir
  <2> HIDE DEF stop
  <2> QED BY <1>0, <1>1, <2>1, PublishingStep
<1>4. CASE ~Blocked(dest, all)
  <2>1. Become(p, go) /\ dest' = WithDirs(dest, all)
    BY <1>4 DEF MakeDir, Change
  <2>2. /\ dest' \in [Paths -> Entry]
        /\ \A path \in Paths : dest'[path] \in {dest[path], Directory, FileOf(p)}
    BY <1>0, <2>1 DEF WithDirs, Entry
  <2> HIDE DEF go
  <2> QED BY <1>0, <1>2, <2>1, <2>2, PublishingStep
<1> QED BY <1>3, <1>4

\* Moving the files.
LEMMA MoveFileOK ==
  ASSUME IInv, NEW p \in Procs, NEW path \in Paths, MoveFile(p, path)
  PROVE  IInv'
<1> DEFINE blocked == Blocked(dest, Ancestors(path)) \/ dest[path] = Directory
           stop == [job[p] EXCEPT !.pc = "cleanup", !.result = "conflict"]
           tree == [WithDirs(dest, Ancestors(path)) EXCEPT ![path] = FileOf(p)]
           go == [[job[p] EXCEPT !.files = @ \ {path}, !.moved = @ \cup {path}]
                    EXCEPT !.touched = @ \/ tree # dest]
<1>0. /\ job[p] \in Job /\ dest \in [Paths -> Entry]
      /\ job[p].pc = "mkdirs" /\ job[p].result = "none"
  BY DEF IInv, Typed, Settled, MoveFile
<1>1. /\ stop \in Job /\ stop.pc = "cleanup" /\ stop.result = "conflict"
      /\ stop.good = job[p].good /\ stop.archive = job[p].archive /\ Settled(stop)
  BY <1>0 DEF Job, Settled
<1>2. /\ go \in Job /\ go.pc = "mkdirs" /\ go.result = "none"
      /\ go.good = job[p].good /\ go.archive = job[p].archive /\ Settled(go)
  BY <1>0 DEF Job, Settled
<1>3. CASE blocked
  <2>1. Become(p, stop) /\ UNCHANGED dest
    BY <1>3 DEF MoveFile
  <2> HIDE DEF stop
  <2> QED BY <1>0, <1>1, <2>1, PublishingStep
<1>4. CASE ~blocked
  <2>1. Become(p, go) /\ dest' = tree
    BY <1>4 DEF MoveFile, Change
  <2>2. /\ dest' \in [Paths -> Entry]
        /\ \A other \in Paths : dest'[other] \in {dest[other], Directory, FileOf(p)}
    BY <1>0, <2>1 DEF WithDirs, Entry
  <2> HIDE DEF go
  <2> QED BY <1>0, <1>2, <2>1, <2>2, PublishingStep
<1> QED BY <1>3, <1>4

\* Ending, being killed, and cleaning up.
LEMMA EndingOK ==
  ASSUME IInv, NEW p \in Procs, Merged(p) \/ MergeFails(p) \/ Cleanup(p) \/ Crash(p)
  PROVE  IInv'
<1>0. job[p] \in Job
  BY DEF IInv, Typed
<1> DEFINE ThisOK(new) == new \in Job /\ Settled(new) /\ (Barred(new) => Clean(new) /\ Barred(job[p]))
           merged == [job[p] EXCEPT !.pc = "cleanup", !.result = "ok"]
           failed == [job[p] EXCEPT !.pc = "cleanup", !.result = "failed"]
           clean == [job[p] EXCEPT !.pc = "ended", !.staged = <<>>]
           crashed == [job[p] EXCEPT !.pc = "crashed"]
<1>1. Barred(job[p]) => ~job[p].touched
  BY DEF IInv, Clean
<1>2. CASE Merged(p)
  <2>1. Become(p, merged) /\ UNCHANGED dest
    BY <1>2 DEF Merged
  <2>2. ThisOK(merged)
    BY <1>0, <1>1 DEF Job, Settled, Barred, Clean
  <2> HIDE DEF merged
  <2> QED BY <2>1, <2>2, QuietStep
<1>3. CASE Cleanup(p)
  <2>1. Become(p, clean) /\ UNCHANGED dest
    BY <1>3 DEF Cleanup
  <2>2. <<>> \in Seq(Record)
    OBVIOUS
  <2>3. ThisOK(clean)
    BY <1>0, <1>1, <2>2 DEF Job, Settled, Barred, Clean
  <2> HIDE DEF clean
  <2> QED BY <2>1, <2>3, QuietStep
<1>4. CASE Crash(p)
  <2>1. Become(p, crashed) /\ UNCHANGED dest
    BY <1>4 DEF Crash
  <2>2. ThisOK(crashed)
    BY <1>0, <1>1 DEF Job, Settled, Barred, Clean
  <2> HIDE DEF crashed
  <2> QED BY <2>1, <2>2, QuietStep
<1>5. CASE MergeFails(p)
  <2>1. Become(p, failed) /\ UNCHANGED dest
    BY <1>5 DEF MergeFails
  <2>2. ThisOK(failed)
    BY <1>0, <1>1 DEF Job, Settled, Barred, Clean
  <2> HIDE DEF failed
  <2> QED BY <2>1, <2>2, QuietStep
<1> QED BY <1>2, <1>3, <1>4, <1>5

\* What others create is not an extraction's.
LEMMA MeddleOK ==
  ASSUME IInv, NEW path \in Paths, NEW entry \in {Directory, FileOf(User)}, Meddle(path, entry)
  PROVE  IInv'
<1>1. dest' = [dest EXCEPT ![path] = entry] /\ job' = job
  BY DEF Meddle
<1>2. Typed'
  BY <1>1 DEF IInv, Typed, Entry
<1>3. ASSUME NEW p \in Procs, Absent(p)
      PROVE  Absent(p)'
  <2>1. entry # FileOf(p)
    BY StagedExtractAssumption DEF FileOf, Directory
  <2> QED BY <1>1, <1>3, <2>1 DEF Absent, IInv, Typed
<1> QED BY <1>1, <1>2, <1>3 DEF IInv

\* Every step keeps the invariant.
LEMMA StepOK == IInv /\ [Next]_vars => IInv'
<1> SUFFICES ASSUME IInv, [Next]_vars PROVE IInv'
  OBVIOUS
<1>1. ASSUME NEW p \in Procs, Begin(p) PROVE IInv'
  BY <1>1, StartOK
<1>2. ASSUME NEW p \in Procs, Extract(p) PROVE IInv'
  BY <1>2, UnpackingOK, CheckingOK, MakeDirOK, MoveFileOK, EndingOK DEF Extract
<1>3. ASSUME NEW p \in Procs, Crash(p) PROVE IInv'
  BY <1>3, EndingOK
<1>4. ASSUME NEW path \in Paths, NEW entry \in {Directory, FileOf(User)}, Meddle(path, entry)
      PROVE  IInv'
  BY <1>4, MeddleOK
<1>5. CASE UNCHANGED vars
  BY <1>5 DEF vars, IInv, Typed, Absent
<1> QED BY <1>1, <1>2, <1>3, <1>4, <1>5 DEF Next

\* A stream that does not verify to its end changes nothing in the destination
\* (service.py 116-118), for any archives and any number of extractions.
THEOREM DamagedIsNeverPublished == Spec => []DamagedLeavesNothing
<1>1. IInv => DamagedLeavesNothing
  BY DEF IInv, Barred, Clean, Absent, Whole, DamagedLeavesNothing
<1> QED BY <1>1, InitOK, StepOK, PTL DEF Spec

-----------------------------------------------------------------------------
(* The destination stays a tree. *)

\* Directories lie in directories only.
LEMMA AncestorsOfAncestors ==
  ASSUME NEW path \in Paths, NEW up \in Ancestors(path)
  PROVE  up \in Paths /\ up # path /\ Ancestors(up) \subseteq Ancestors(path)
<1> DEFINE Names == {path[i] : i \in DOMAIN path}
<1>1. path \in Seq(Names) /\ Ancestors(path) \subseteq Paths
  BY StagedExtractAssumption
<1>2. PICK k \in 1 .. Len(path) - 1 : up = SubSeq(path, 1, k)
  BY DEF Ancestors
<1>3. Len(path) \in Nat /\ \A i \in 1 .. k : path[i] \in Names
  BY <1>1
<1>4. up \in Seq(Names) /\ Len(up) = k /\ \A i \in 1 .. k : up[i] = path[i]
  BY <1>2, <1>3, SubSeqProperties
<1>5. ASSUME NEW m \in 1 .. Len(up) - 1
      PROVE  SubSeq(up, 1, m) = SubSeq(path, 1, m)
  BY <1>3, <1>4, <1>5
<1>6. Ancestors(up) \subseteq Ancestors(path)
  BY <1>3, <1>4, <1>5 DEF Ancestors
<1> QED
  BY <1>1, <1>3, <1>4, <1>6

\* Creating a set of directories that holds the directories they lie in.
LEMMA DirsKeepTree ==
  ASSUME NEW tree \in [Paths -> Entry], IsTree(tree), NEW dirs \in SUBSET Paths,
         \A d \in dirs : Ancestors(d) \subseteq dirs
  PROVE  WithDirs(tree, dirs) \in [Paths -> Entry] /\ IsTree(WithDirs(tree, dirs))
<1>1. WithDirs(tree, dirs) \in [Paths -> Entry]
  BY DEF WithDirs, Entry
<1>2. ASSUME NEW path \in Paths, WithDirs(tree, dirs)[path] # Nothing, NEW up \in Ancestors(path)
      PROVE  WithDirs(tree, dirs)[up] = Directory
  <2>1. up \in Paths
    BY AncestorsOfAncestors
  <2>2. CASE path \in dirs
    BY <2>1, <2>2 DEF WithDirs
  <2>3. CASE path \notin dirs
    BY <1>2, <2>1, <2>3 DEF WithDirs, IsTree
  <2> QED
    BY <2>2, <2>3
<1> QED
  BY <1>1, <1>2 DEF IsTree

\* A file goes where no directory is.
LEMMA FileKeepsTree ==
  ASSUME NEW tree \in [Paths -> Entry], IsTree(tree), NEW path \in Paths,
         \A up \in Ancestors(path) : tree[up] = Directory,
         tree[path] # Directory, NEW entry \in Entry
  PROVE  [tree EXCEPT ![path] = entry] \in [Paths -> Entry]
         /\ IsTree([tree EXCEPT ![path] = entry])
<1> DEFINE new == [tree EXCEPT ![path] = entry]
<1>1. ASSUME NEW q \in Paths, new[q] # Nothing, NEW up \in Ancestors(q)
      PROVE  new[up] = Directory
  <2>1. up \in Paths /\ up # q
    BY AncestorsOfAncestors
  <2>2. tree[up] = Directory
    BY <1>1 DEF IsTree
  <2> QED
    BY <2>1, <2>2
<1> QED
  BY <1>1 DEF IsTree

\* Every step keeps the destination a tree.
LEMMA StaysTree ==
  ASSUME Typed, IsTree(dest), [Next]_vars
  PROVE  IsTree(dest')
<1> USE DEF Typed
<1>1. ASSUME NEW p \in Procs, NEW d \in Paths, MakeDir(p, d)
      PROVE  IsTree(dest')
  <2> DEFINE all == Ancestors(d) \cup {d}
  <2>1. all \in SUBSET Paths /\ \A e \in all : Ancestors(e) \subseteq all
    BY AncestorsOfAncestors
  <2>2. dest' = dest \/ dest' = WithDirs(dest, all)
    BY <1>1 DEF MakeDir, Change
  <2> QED
    BY <2>1, <2>2, DirsKeepTree
<1>2. ASSUME NEW p \in Procs, NEW path \in Paths, MoveFile(p, path)
      PROVE  IsTree(dest')
  <2> DEFINE ups == Ancestors(path)
             tree == WithDirs(dest, ups)
  <2>1. ups \in SUBSET Paths /\ (\A e \in ups : Ancestors(e) \subseteq ups) /\ path \notin ups
    BY AncestorsOfAncestors
  <2>2. \/ dest' = dest
        \/ dest[path] # Directory /\ dest' = [tree EXCEPT ![path] = FileOf(p)]
    BY <1>2 DEF MoveFile, Change
  <2>3. tree \in [Paths -> Entry] /\ IsTree(tree)
    BY <2>1, DirsKeepTree
  <2>4. tree[path] = dest[path] /\ \A up \in ups : tree[up] = Directory
    BY <2>1 DEF WithDirs
  <2>5. FileOf(p) \in Entry
    BY DEF Entry
  <2> HIDE DEF tree, ups
  <2>6. CASE dest[path] # Directory /\ dest' = [tree EXCEPT ![path] = FileOf(p)]
    BY <2>3, <2>4, <2>5, <2>6, FileKeepsTree DEF ups
  <2> QED
    BY <2>2, <2>6
<1>3. ASSUME NEW path \in Paths, NEW entry \in {Directory, FileOf(User)}, Meddle(path, entry)
      PROVE  IsTree(dest')
  <2>1. /\ dest[path] = Nothing /\ \A up \in Ancestors(path) : dest[up] = Directory
        /\ dest' = [dest EXCEPT ![path] = entry]
    BY <1>3 DEF Meddle
  <2>2. entry \in Entry /\ Nothing # Directory
    BY DEF Entry, Nothing, Directory
  <2> QED
    BY <2>1, <2>2, FileKeepsTree
<1>4. ASSUME NEW p \in Procs,
             \/ Begin(p) \/ Unpack(p) \/ UnpackFails(p) \/ Unpacked(p)
             \/ (\E path \in Paths : Check(p, path)) \/ CheckEnds(p) \/ Merged(p)
             \/ MergeFails(p) \/ Cleanup(p) \/ Crash(p)
      PROVE  IsTree(dest')
  BY <1>4 DEF Begin, Start, Unpack, UnpackFails, Unpacked, Check, CheckEnds, Merged, MergeFails, Cleanup, Crash
<1>5. CASE UNCHANGED vars
  BY <1>5 DEF vars
<1> QED
  BY <1>1, <1>2, <1>3, <1>4, <1>5 DEF Next, Extract

\* The destination is always a tree and every extraction's record well formed,
\* for any archives, paths and number of extractions.
THEOREM TypeCorrect == Spec => []TypeOK
<1>1. Init => IsTree(dest)
  BY DEF Init
<1>2. IInv /\ IsTree(dest) /\ [Next]_vars => IsTree(dest)'
  BY StaysTree DEF IInv
<1>3. IInv /\ IsTree(dest) => TypeOK
  BY DEF IInv, Typed, TypeOK
<1> QED
  BY <1>1, <1>2, <1>3, InitOK, StepOK, PTL DEF Spec

-----------------------------------------------------------------------------
(* A refusal comes before any change. *)

\* Nothing has been published by an extraction that still looks for files in its
\* way, or was turned away by one.
Untouched(j) == j.pc \in {"idle", "unpack", "check"} \/ j.result = "refused" => ~j.touched

\* What a step does to the extractions it is not about.
LEMMA OthersUnchanged ==
  ASSUME Typed, NEW p \in Procs, Begin(p) \/ Extract(p) \/ Crash(p), NEW q \in Procs, q # p
  PROVE  job'[q] = job[q]
<1>1. ASSUME NEW new, Become(p, new) PROVE job'[q] = job[q]
  BY <1>1 DEF Become, Typed
<1> QED
  BY <1>1 DEF Begin, Start, Extract, Unpack, UnpackFails, Unpacked, Check, CheckEnds, MakeDir,
              MoveFile, Change, Merged, MergeFails, Cleanup, Crash

LEMMA UntouchedStep ==
  ASSUME IInv, NEW p \in Procs, Begin(p) \/ Extract(p) \/ Crash(p), Untouched(job[p])
  PROVE  Untouched(job'[p])
<1>0. job[p] \in Job /\ Settled(job[p])
  BY DEF IInv, Typed
<1>1. ASSUME NEW new, Become(p, new) PROVE job'[p] = new
  BY <1>1 DEF Become, IInv, Typed
<1>2. CASE Begin(p)
  BY <1>1, <1>2 DEF Begin, Start, NewJob, Untouched
<1>3. CASE Unpack(p) \/ UnpackFails(p) \/ Unpacked(p)
  BY <1>0, <1>1, <1>3 DEF Unpack, UnpackFails, Unpacked, Untouched, Job
<1>4. CASE (\E path \in Paths : Check(p, path)) \/ CheckEnds(p)
  BY <1>0, <1>1, <1>4 DEF Check, CheckEnds, Untouched, Job
<1>5. ASSUME NEW path \in Paths, MakeDir(p, path) \/ MoveFile(p, path)
      PROVE  Untouched(job'[p])
  <2>1. job[p].pc = "mkdirs" /\ job[p].result = "none"
    BY <1>0, <1>5 DEF MakeDir, MoveFile, Settled
  <2>2. /\ job'[p].pc \in {"mkdirs", "cleanup"} /\ job'[p].result # "refused"
    <3>1. CASE MakeDir(p, path)
      BY <1>0, <1>1, <2>1, <3>1 DEF MakeDir, Change, Job
    <3>2. CASE MoveFile(p, path)
      BY <1>0, <1>1, <2>1, <3>2 DEF MoveFile, Change, Job
    <3> QED BY <1>5, <3>1, <3>2
  <2> QED
    BY <2>2 DEF Untouched
<1>6. CASE Merged(p)
  BY <1>0, <1>1, <1>6 DEF Merged, Untouched, Job
<1>7. CASE Cleanup(p)
  BY <1>0, <1>1, <1>7 DEF Cleanup, Untouched, Job
<1>8. CASE Crash(p)
  BY <1>0, <1>1, <1>8 DEF Crash, Untouched, Job
<1>9. CASE MergeFails(p)
  <2>1. job'[p] = [job[p] EXCEPT !.pc = "cleanup", !.result = "failed"]
    BY <1>1, <1>9 DEF MergeFails
  <2>2. job'[p].pc = "cleanup" /\ job'[p].result = "failed"
    BY <1>0, <2>1 DEF Job
  <2> QED BY <2>2 DEF Untouched
<1> QED
  BY <1>2, <1>3, <1>4, <1>5, <1>6, <1>7, <1>8, <1>9 DEF Extract

\* Files found in the way are found before anything is written: a refused
\* extraction has left the destination as it was (service.py 332-333), whatever
\* else goes on there.
THEOREM RefusedIsUntouched == Spec => []RefusalLeavesUntouched
<1> DEFINE Inv == \A p \in Procs : Untouched(job[p])
<1>1. Init => Inv
  BY DEF Init, NewJob, Untouched
<1>2. IInv /\ Inv /\ [Next]_vars => Inv'
  <2> SUFFICES ASSUME IInv, Inv, [Next]_vars, NEW q \in Procs
               PROVE  Untouched(job'[q])
    OBVIOUS
  <2>1. ASSUME NEW p \in Procs, Begin(p) \/ Extract(p) \/ Crash(p)
        PROVE  Untouched(job'[q])
    BY <2>1, UntouchedStep, OthersUnchanged DEF IInv
  <2>2. CASE job' = job
    BY <2>2
  <2> QED
    BY <2>1, <2>2 DEF Next, Meddle, vars
<1>3. Inv => RefusalLeavesUntouched
  BY DEF Untouched, RefusalLeavesUntouched
<1> QED
  BY <1>1, <1>2, <1>3, InitOK, StepOK, PTL DEF Spec

-----------------------------------------------------------------------------
(* All or nothing. *)

\* No other program writes into the destination while an extraction looks or merges,
\* and no two extractions look or merge at a time.
NoMeddling == Meddling \cap {"check", "mkdirs"} = {}
Merging(p) == job[p].pc \in {"check", "mkdirs"}
OneMerges  == \A p, q \in Procs : Merging(p) /\ Merging(q) => p = q

\* How much of its archive an extraction has staged, and still has to publish.
Planned(j) ==
  /\ j.pc \in {"idle", "unpack", "check"} => j.moved = {}
  /\ j.pc = "unpack" =>
       /\ Len(j.staged) <= Len(j.archive)
       /\ \A i \in 1 .. Len(j.staged) : j.staged[i] = j.archive[i]
  /\ j.pc \in {"unpack", "check", "mkdirs"} => j.archive \in Archives
  /\ j.pc \in {"check", "mkdirs"} =>
       /\ j.files \cup j.moved = FilesOf(j.archive)
       /\ j.files \cap j.moved = {}
       /\ j.dirs \subseteq DirsOf(j.archive)
       /\ j.dirs # {} => j.moved = {}
  /\ j.pc = "check" => j.dirs = DirsOf(j.archive)

\* What the destination holds of it: no files but those it moved, and the
\* directories it has made.
Placed(p) ==
  /\ \A path \in Paths : dest[path] = FileOf(p) => path \in job[p].moved
  /\ job[p].pc = "mkdirs" =>
       \A d \in DirsOf(job[p].archive) \ job[p].dirs : dest[d] = Directory

\* Without --force nothing is in the way of what it has checked.
WayIsFree(p) ==
  ~job[p].force =>
    /\ job[p].pc = "check" =>
         \A path \in job[p].files \ job[p].unchecked :
           path \in job[p].found \/ dest[path] = Nothing
    /\ job[p].pc = "mkdirs" => \A path \in job[p].files : dest[path] = Nothing

\* So what is in the way of an extraction without --force stops it before its first
\* file, and only a failure stops it after.
Decided(j) ==
  /\ j.pc \in {"cleanup", "ended"} => j.result # "none"
  /\ j.result = "ok" => j.moved = FilesOf(j.archive)
  /\ j.result \in {"damaged", "refused", "conflict"} /\ ~j.force => j.moved = {}
  /\ j.result = "failed" => j.moved \subseteq FilesOf(j.archive)

\* The part of the invariant that is about one extraction.
OneOK(p) == Planned(job[p]) /\ Placed(p) /\ WayIsFree(p) /\ Decided(job[p])

\* A file it has moved stays, unless one with --force puts another in its place.
Kept(p) ==
  \A path \in job[p].moved :
    dest[path] = FileOf(p) \/ \E q \in Procs : job[q].force /\ path \in job[q].moved

MergeInv == \A p \in Procs : OneOK(p) /\ Kept(p)

\* What a step makes of the record of its extraction.
LEMMA BecomeFacts ==
  ASSUME IInv, NEW p \in Procs
  PROVE  /\ job[p] \in Job /\ Settled(job[p])
         /\ \A new : Become(p, new) => job'[p] = new
BY DEF IInv, Typed, Become

\* Unpacking a whole archive leaves nothing out of the plan.
LEMMA UnpackingPlans ==
  ASSUME IInv, NEW p \in Procs, OneOK(p),
         Begin(p) \/ Unpack(p) \/ UnpackFails(p) \/ Unpacked(p)
  PROVE  OneOK(p)'
<1> DEFINE j == job[p]
<1>0. job[p] \in Job /\ Settled(job[p]) /\ \A new : Become(p, new) => job'[p] = new
  BY BecomeFacts
<1>1. CASE Begin(p)
  <2>1. PICK archive \in Archives : \E good \in 0 .. Len(archive) + 1, force \in BOOLEAN :
          Start(p, archive, good, force)
    BY <1>1 DEF Begin
  <2>2. PICK good \in 0 .. Len(archive) + 1, force \in BOOLEAN : Start(p, archive, good, force)
    BY <2>1
  <2>3. /\ j.pc = "idle" /\ dest' = dest
        /\ job'[p] = [NewJob EXCEPT !.pc = "unpack", !.archive = archive, !.good = good,
                                    !.force = force]
    BY <1>0, <2>2 DEF Start
  <2>4. /\ job'[p].pc = "unpack" /\ job'[p].moved = {} /\ job'[p].result = "none"
        /\ job'[p].staged = <<>> /\ job'[p].archive = archive
    BY <2>3 DEF NewJob
  <2>5. archive \in Seq(Record) /\ Len(archive) \in Nat /\ Len(<<>>) = 0
    BY StagedExtractAssumption
  <2>6. j.moved = {}
    BY <2>3 DEF OneOK, Planned
  <2> QED
    BY <2>3, <2>4, <2>5, <2>6 DEF OneOK, Planned, Placed, WayIsFree, Decided
<1>2. CASE Unpack(p)
  <2> DEFINE n == Len(j.staged) + 1
  <2>1. /\ j.pc = "unpack" /\ n <= Len(j.archive) /\ dest' = dest
        /\ job'[p] = [j EXCEPT !.staged = Append(@, j.archive[n])]
    BY <1>0, <1>2 DEF Unpack
  <2>2. /\ job'[p].pc = "unpack" /\ job'[p].archive = j.archive /\ job'[p].force = j.force
        /\ job'[p].moved = j.moved /\ job'[p].result = j.result
        /\ job'[p].staged = Append(j.staged, j.archive[n])
    BY <1>0, <2>1 DEF Job
  <2>3. j.staged \in Seq(Record) /\ j.archive \in Seq(Record)
    BY <1>0, ArchiveLength DEF Job, IInv
  <2>4. /\ Len(job'[p].staged) = n
        /\ \A i \in 1 .. n : job'[p].staged[i] = IF i = n THEN j.archive[n] ELSE j.staged[i]
    BY <2>2, <2>3
  <2>5. \A i \in 1 .. n : job'[p].staged[i] = j.archive[i]
    BY <2>1, <2>3, <2>4 DEF OneOK, Planned
  <2> QED
    BY <2>1, <2>2, <2>4, <2>5 DEF OneOK, Planned, Placed, WayIsFree, Decided
<1>3. CASE UnpackFails(p)
  <2>1. /\ j.pc = "unpack" /\ dest' = dest
        /\ job'[p] = [j EXCEPT !.pc = "cleanup", !.result = "damaged"]
    BY <1>0, <1>3 DEF UnpackFails
  <2>2. /\ job'[p].pc = "cleanup" /\ job'[p].result = "damaged" /\ job'[p].moved = j.moved
    BY <1>0, <2>1 DEF Job
  <2> QED
    BY <2>1, <2>2 DEF OneOK, Planned, Placed, WayIsFree, Decided
<1>4. CASE Unpacked(p)
  <2>1. /\ j.pc = "unpack" /\ dest' = dest
        /\ Len(j.staged) = Len(j.archive) /\ Len(j.staged) < j.good
        /\ job'[p] = [j EXCEPT !.pc = IF j.force THEN "mkdirs" ELSE "check",
                               !.unchecked = FilesOf(j.staged),
                               !.dirs = DirsOf(j.staged),
                               !.files = FilesOf(j.staged)]
    BY <1>0, <1>4 DEF Unpacked
  <2>2. /\ job'[p].pc = IF j.force THEN "mkdirs" ELSE "check"
        /\ job'[p].unchecked = FilesOf(j.staged) /\ job'[p].files = FilesOf(j.staged)
        /\ job'[p].dirs = DirsOf(j.staged) /\ job'[p].archive = j.archive
        /\ job'[p].moved = j.moved /\ job'[p].result = j.result /\ job'[p].force = j.force
    BY <1>0, <2>1 DEF Job
  <2>3. j.staged \in Seq(Record) /\ j.archive \in Seq(Record)
    BY <1>0, ArchiveLength DEF Job, IInv
  <2>4. j.staged = j.archive
    BY <2>1, <2>3 DEF OneOK, Planned
  <2>5. j.moved = {} /\ j.result = "none"
    BY <1>0, <2>1 DEF OneOK, Planned, Settled
  <2> QED
    BY <2>1, <2>2, <2>4, <2>5 DEF OneOK, Planned, Placed, WayIsFree, Decided
<1> QED
  BY <1>1, <1>2, <1>3, <1>4

\* The check remembers what it finds, and sees every file of the archive.
LEMMA CheckingFinds ==
  ASSUME IInv, NEW p \in Procs, OneOK(p), (\E path \in Paths : Check(p, path)) \/ CheckEnds(p)
  PROVE  OneOK(p)'
<1> DEFINE j == job[p]
<1>0. job[p] \in Job /\ Settled(job[p]) /\ \A new : Become(p, new) => job'[p] = new
  BY BecomeFacts
<1>1. ASSUME NEW path \in Paths, Check(p, path)
      PROVE  OneOK(p)'
  <2>1. /\ j.pc = "check" /\ path \in j.unchecked /\ dest' = dest
        /\ job'[p] = [j EXCEPT !.unchecked = @ \ {path},
                               !.found = IF dest[path] = Nothing THEN @ ELSE @ \cup {path}]
    BY <1>0, <1>1 DEF Check
  <2>2. /\ job'[p].pc = j.pc /\ job'[p].unchecked = j.unchecked \ {path}
        /\ job'[p].found = IF dest[path] = Nothing THEN j.found ELSE j.found \cup {path}
        /\ job'[p].files = j.files /\ job'[p].dirs = j.dirs /\ job'[p].archive = j.archive
        /\ job'[p].moved = j.moved /\ job'[p].result = j.result /\ job'[p].force = j.force
    BY <1>0, <2>1 DEF Job
  <2>3. Planned(job'[p]) /\ Decided(job'[p])
    BY <2>1, <2>2 DEF OneOK, Planned, Decided
  <2>4. Placed(p)'
    BY <2>1, <2>2 DEF OneOK, Placed
  <2>5. WayIsFree(p)'
    BY <2>1, <2>2 DEF OneOK, WayIsFree
  <2> QED
    BY <2>3, <2>4, <2>5 DEF OneOK
<1>2. CASE CheckEnds(p)
  <2>1. /\ j.pc = "check" /\ j.unchecked = {} /\ dest' = dest
        /\ job'[p] = IF j.found # {} THEN [j EXCEPT !.pc = "cleanup", !.result = "refused"]
                     ELSE [j EXCEPT !.pc = "mkdirs"]
    BY <1>0, <1>2 DEF CheckEnds
  <2>2. /\ job'[p].files = j.files /\ job'[p].dirs = j.dirs /\ job'[p].archive = j.archive
        /\ job'[p].moved = j.moved /\ job'[p].force = j.force
        /\ \/ job'[p].pc = "cleanup" /\ job'[p].result = "refused"
           \/ j.found = {} /\ job'[p].pc = "mkdirs" /\ job'[p].result = "none"
    BY <1>0, <2>1 DEF Job, Settled
  <2> QED
    BY <2>1, <2>2 DEF OneOK, Planned, Placed, WayIsFree, Decided
<1> QED
  BY <1>1, <1>2

\* Directories go where the archive has no file.
LEMMA MakeDirPlaces ==
  ASSUME IInv, NEW p \in Procs, OneOK(p), NEW d \in Paths, MakeDir(p, d)
  PROVE  OneOK(p)'
<1> DEFINE j == job[p]
           all == Ancestors(d) \cup {d}
<1>0. job[p] \in Job /\ Settled(job[p]) /\ \A new : Become(p, new) => job'[p] = new
  BY BecomeFacts
<1>1. j.pc = "mkdirs" /\ d \in j.dirs /\ j.result = "none" /\ dest \in [Paths -> Entry]
  BY <1>0 DEF MakeDir, IsNext, Settled, IInv, Typed
<1>2. /\ j.archive \in Archives /\ j.moved = {} /\ j.files = FilesOf(j.archive)
      /\ j.dirs \subseteq DirsOf(j.archive)
  BY <1>1 DEF OneOK, Planned
<1>3. all \subseteq DirsOf(j.archive) /\ all \cap j.files = {}
  BY <1>1, <1>2, ArchivesAreTrees
<1>4. CASE Blocked(dest, all)
  <2>1. job'[p] = [j EXCEPT !.pc = "cleanup", !.result = "conflict"] /\ dest' = dest
    BY <1>0, <1>4 DEF MakeDir
  <2>2. /\ job'[p].pc = "cleanup" /\ job'[p].result = "conflict" /\ job'[p].moved = j.moved
    BY <1>0, <2>1 DEF Job
  <2> QED
    BY <1>2, <2>1, <2>2 DEF OneOK, Planned, Placed, WayIsFree, Decided
<1>5. CASE ~Blocked(dest, all)
  <2>1. /\ dest' = WithDirs(dest, all)
        /\ job'[p] = [[j EXCEPT !.dirs = @ \ {d}]
                        EXCEPT !.touched = @ \/ WithDirs(dest, all) # dest]
    BY <1>0, <1>5 DEF MakeDir, Change
  <2>2. /\ job'[p].pc = j.pc /\ job'[p].dirs = j.dirs \ {d} /\ job'[p].files = j.files
        /\ job'[p].archive = j.archive /\ job'[p].moved = j.moved
        /\ job'[p].result = j.result /\ job'[p].force = j.force
    BY <1>0, <2>1 DEF Job
  <2>3. \A path \in Paths : dest'[path] = IF path \in all THEN Directory ELSE dest[path]
    BY <2>1 DEF WithDirs
  <2>4. Directory # FileOf(p) /\ DirsOf(j.archive) \subseteq Paths /\ j.files \subseteq Paths
    BY <1>0, <1>2, RecordPaths, StagedExtractAssumption DEF Directory, FileOf, Job
  <2>5. Planned(job'[p]) /\ Decided(job'[p])
    BY <1>1, <2>2 DEF OneOK, Planned, Decided
  <2>6. Placed(p)'
    BY <1>1, <1>2, <2>2, <2>3, <2>4 DEF OneOK, Placed
  <2>7. WayIsFree(p)'
    BY <1>1, <1>3, <2>2, <2>3, <2>4 DEF OneOK, WayIsFree
  <2> QED
    BY <2>5, <2>6, <2>7 DEF OneOK
<1> QED
  BY <1>4, <1>5

\* A file goes into the directory made for it, and stays there.
LEMMA MoveFilePlaces ==
  ASSUME IInv, NEW p \in Procs, OneOK(p), NEW path \in Paths, MoveFile(p, path)
  PROVE  OneOK(p)'
<1> DEFINE j == job[p]
           ups == Ancestors(path)
           tree == [WithDirs(dest, ups) EXCEPT ![path] = FileOf(p)]
<1>0. job[p] \in Job /\ Settled(job[p]) /\ \A new : Become(p, new) => job'[p] = new
  BY BecomeFacts
<1>1. /\ j.pc = "mkdirs" /\ j.dirs = {} /\ path \in j.files /\ j.result = "none"
      /\ dest \in [Paths -> Entry]
  BY <1>0 DEF MoveFile, NextToMove, Settled, IInv, Typed
<1>2. /\ j.archive \in Archives /\ j.files \cup j.moved = FilesOf(j.archive)
      /\ j.files \cap j.moved = {}
  BY <1>1 DEF OneOK, Planned
<1>3. ups \subseteq DirsOf(j.archive) /\ path \notin DirsOf(j.archive) /\ path \notin ups
  BY <1>1, <1>2, ArchivesAreTrees
<1>4. \A up \in ups : dest[up] = Directory
  BY <1>1, <1>3 DEF OneOK, Placed
<1>5. CASE Blocked(dest, ups) \/ dest[path] = Directory
  <2>1. job'[p] = [j EXCEPT !.pc = "cleanup", !.result = "conflict"] /\ dest' = dest
    BY <1>0, <1>5 DEF MoveFile
  <2>2. /\ job'[p].pc = "cleanup" /\ job'[p].result = "conflict" /\ job'[p].moved = j.moved
        /\ job'[p].force = j.force
    BY <1>0, <2>1 DEF Job
  <2>3. j.force
    <3>1. ~Blocked(dest, ups)
      BY <1>4 DEF Blocked, IsFile, Directory
    <3>2. dest[path] # Nothing
      BY <1>5, <3>1 DEF Directory, Nothing
    <3> QED
      BY <1>1, <3>2 DEF OneOK, WayIsFree
  <2> QED
    BY <2>1, <2>2, <2>3 DEF OneOK, Planned, Placed, WayIsFree, Decided
<1>6. CASE ~(Blocked(dest, ups) \/ dest[path] = Directory)
  <2>1. /\ dest' = tree
        /\ job'[p] = [[j EXCEPT !.files = @ \ {path}, !.moved = @ \cup {path}]
                        EXCEPT !.touched = @ \/ tree # dest]
    BY <1>0, <1>6 DEF MoveFile, Change
  <2>2. /\ job'[p].pc = j.pc /\ job'[p].dirs = j.dirs /\ job'[p].files = j.files \ {path}
        /\ job'[p].archive = j.archive /\ job'[p].moved = j.moved \cup {path}
        /\ job'[p].result = j.result /\ job'[p].force = j.force
    <3> HIDE DEF tree
    <3> QED
      BY <1>0, <2>1 DEF Job
  <2>3. \A q \in Paths : dest'[q] = IF q = path THEN FileOf(p) ELSE dest[q]
    BY <1>3, <1>4, <2>1 DEF WithDirs
  <2>4. DirsOf(j.archive) \subseteq Paths /\ j.files \subseteq Paths
    BY <1>0, <1>2, RecordPaths, StagedExtractAssumption DEF Job
  <2>5. Planned(job'[p]) /\ Decided(job'[p])
    BY <1>1, <1>2, <2>2 DEF OneOK, Planned, Decided
  <2>6. Placed(p)'
    BY <1>1, <1>3, <2>2, <2>3, <2>4 DEF OneOK, Placed
  <2>7. WayIsFree(p)'
    BY <1>1, <2>2, <2>3, <2>4 DEF OneOK, WayIsFree
  <2> QED
    BY <2>5, <2>6, <2>7 DEF OneOK
<1> QED
  BY <1>5, <1>6

\* The end of an extraction changes nothing in the destination.
LEMMA EndingDecides ==
  ASSUME IInv, NEW p \in Procs, OneOK(p), Merged(p) \/ MergeFails(p) \/ Cleanup(p) \/ Crash(p)
  PROVE  OneOK(p)'
<1> DEFINE j == job[p]
<1>0. job[p] \in Job /\ Settled(job[p]) /\ \A new : Become(p, new) => job'[p] = new
  BY BecomeFacts
<1>1. CASE Merged(p)
  <2>1. /\ j.pc = "mkdirs" /\ j.dirs = {} /\ j.files = {} /\ dest' = dest
        /\ job'[p] = [j EXCEPT !.pc = "cleanup", !.result = "ok"]
    BY <1>0, <1>1 DEF Merged
  <2>2. /\ job'[p].pc = "cleanup" /\ job'[p].result = "ok"
        /\ job'[p].moved = j.moved /\ job'[p].archive = j.archive
    BY <1>0, <2>1 DEF Job
  <2> QED
    BY <2>1, <2>2 DEF OneOK, Planned, Placed, WayIsFree, Decided
<1>2. CASE Cleanup(p)
  <2>1. /\ j.pc = "cleanup" /\ dest' = dest
        /\ job'[p] = [j EXCEPT !.pc = "ended", !.staged = <<>>]
    BY <1>0, <1>2 DEF Cleanup
  <2>2. /\ job'[p].pc = "ended" /\ job'[p].result = j.result /\ job'[p].force = j.force
        /\ job'[p].moved = j.moved /\ job'[p].archive = j.archive
    BY <1>0, <2>1 DEF Job
  <2> QED
    BY <2>1, <2>2 DEF OneOK, Planned, Placed, WayIsFree, Decided
<1>3. CASE Crash(p)
  <2>1. job'[p] = [j EXCEPT !.pc = "crashed"] /\ dest' = dest
    BY <1>0, <1>3 DEF Crash
  <2>2. /\ job'[p].pc = "crashed" /\ job'[p].result = j.result /\ job'[p].force = j.force
        /\ job'[p].moved = j.moved /\ job'[p].archive = j.archive
    BY <1>0, <2>1 DEF Job
  <2> QED
    BY <2>1, <2>2 DEF OneOK, Planned, Placed, WayIsFree, Decided
<1>4. CASE MergeFails(p)
  <2>1. /\ j.pc \in {"check", "mkdirs"} /\ dest' = dest
        /\ job'[p] = [j EXCEPT !.pc = "cleanup", !.result = "failed"]
    BY <1>0, <1>4 DEF MergeFails
  <2>2. /\ job'[p].pc = "cleanup" /\ job'[p].result = "failed"
        /\ job'[p].moved = j.moved /\ job'[p].archive = j.archive
    BY <1>0, <2>1 DEF Job
  <2> QED
    BY <2>1, <2>2 DEF OneOK, Planned, Placed, WayIsFree, Decided
<1> QED
  BY <1>1, <1>2, <1>3, <1>4

\* Others only add to the destination, and only while the extraction neither
\* looks nor merges.
LEMMA MeddlingSpares ==
  ASSUME NoMeddling, IInv, NEW p \in Procs, OneOK(p),
         NEW path \in Paths, NEW entry \in {Directory, FileOf(User)}, Meddle(path, entry)
  PROVE  OneOK(p)'
<1>1. /\ job' = job /\ dest[path] = Nothing /\ dest' = [dest EXCEPT ![path] = entry]
      /\ job[p].pc \notin {"check", "mkdirs"} /\ dest \in [Paths -> Entry]
  BY DEF Meddle, NoMeddling, IInv, Typed
<1>2. entry # FileOf(p) /\ Nothing # FileOf(p)
  BY StagedExtractAssumption DEF FileOf, Directory, Nothing
<1>3. Placed(p)'
  BY <1>1, <1>2 DEF OneOK, Placed
<1> QED
  BY <1>1, <1>3 DEF OneOK, WayIsFree

\* What a step of an extraction does to the destination and to what it has moved.
LEMMA WhatStepsDo ==
  ASSUME IInv, NEW q \in Procs, Begin(q) \/ Extract(q) \/ Crash(q)
  PROVE  \/ /\ dest' = dest
            /\ \/ job'[q].moved = job[q].moved /\ job'[q].force = job[q].force
               \/ job[q].pc = "idle" /\ job'[q].moved = {}
         \/ \E d \in Paths :
              /\ MakeDir(q, d) /\ ~Blocked(dest, Ancestors(d) \cup {d})
              /\ dest' = WithDirs(dest, Ancestors(d) \cup {d}) /\ job[q].pc = "mkdirs"
              /\ job'[q].moved = job[q].moved /\ job'[q].force = job[q].force
         \/ \E path \in Paths :
              /\ MoveFile(q, path) /\ ~Blocked(dest, Ancestors(path)) /\ path \in job[q].files
              /\ dest' = [WithDirs(dest, Ancestors(path)) EXCEPT ![path] = FileOf(q)]
              /\ job[q].pc = "mkdirs"
              /\ job'[q].moved = job[q].moved \cup {path} /\ job'[q].force = job[q].force
<1> DEFINE j == job[q]
<1>0. job[q] \in Job /\ \A new : Become(q, new) => job'[q] = new
  BY BecomeFacts
<1>1. CASE Begin(q)
  BY <1>0, <1>1 DEF Begin, Start, NewJob
<1>2. ASSUME Unpack(q) \/ UnpackFails(q) \/ Unpacked(q) \/ Merged(q) \/ MergeFails(q) \/ Cleanup(q) \/ Crash(q)
      PROVE  dest' = dest /\ job'[q].moved = j.moved /\ job'[q].force = j.force
  <2>1. CASE Unpack(q) \/ UnpackFails(q)
    BY <1>0, <2>1 DEF Unpack, UnpackFails, Job
  <2>2. CASE Unpacked(q)
    BY <1>0, <2>2 DEF Unpacked, Job
  <2>3. CASE Merged(q) \/ MergeFails(q) \/ Cleanup(q) \/ Crash(q)
    BY <1>0, <2>3 DEF Merged, MergeFails, Cleanup, Crash, Job
  <2> QED BY <1>2, <2>1, <2>2, <2>3
<1>3. ASSUME (\E path \in Paths : Check(q, path)) \/ CheckEnds(q)
      PROVE  dest' = dest /\ job'[q].moved = j.moved /\ job'[q].force = j.force
  BY <1>0, <1>3 DEF Check, CheckEnds, Job
<1>4. ASSUME NEW d \in Paths, MakeDir(q, d)
      PROVE  \/ /\ dest' = dest
                /\ job'[q].moved = job[q].moved /\ job'[q].force = job[q].force
             \/ /\ ~Blocked(dest, Ancestors(d) \cup {d})
                /\ dest' = WithDirs(dest, Ancestors(d) \cup {d}) /\ job[q].pc = "mkdirs"
                /\ job'[q].moved = job[q].moved /\ job'[q].force = job[q].force
  <2> DEFINE all == Ancestors(d) \cup {d}
             stop == [j EXCEPT !.pc = "cleanup", !.result = "conflict"]
             go == [[j EXCEPT !.dirs = @ \ {d}] EXCEPT !.touched = @ \/ WithDirs(dest, all) # dest]
  <2>1. stop.moved = j.moved /\ stop.force = j.force /\ go.moved = j.moved /\ go.force = j.force
    BY <1>0 DEF Job
  <2>2. \/ job'[q] = stop /\ dest' = dest
        \/ ~Blocked(dest, all) /\ job'[q] = go /\ dest' = WithDirs(dest, all) /\ j.pc = "mkdirs"
    BY <1>0, <1>4 DEF MakeDir, Change
  <2> HIDE DEF stop, go
  <2> QED BY <2>1, <2>2
<1>5. ASSUME NEW path \in Paths, MoveFile(q, path)
      PROVE  \/ /\ dest' = dest
                /\ job'[q].moved = job[q].moved /\ job'[q].force = job[q].force
             \/ /\ ~Blocked(dest, Ancestors(path)) /\ path \in job[q].files
                /\ dest' = [WithDirs(dest, Ancestors(path)) EXCEPT ![path] = FileOf(q)]
                /\ job[q].pc = "mkdirs"
                /\ job'[q].moved = job[q].moved \cup {path} /\ job'[q].force = job[q].force
  <2> DEFINE tree == [WithDirs(dest, Ancestors(path)) EXCEPT ![path] = FileOf(q)]
             stop == [j EXCEPT !.pc = "cleanup", !.result = "conflict"]
             go == [[j EXCEPT !.files = @ \ {path}, !.moved = @ \cup {path}]
                      EXCEPT !.touched = @ \/ tree # dest]
  <2>1. /\ stop.moved = j.moved /\ stop.force = j.force
        /\ go.moved = j.moved \cup {path} /\ go.force = j.force
    <3> HIDE DEF tree
    <3> QED BY <1>0 DEF Job
  <2>2. \/ job'[q] = stop /\ dest' = dest
        \/ /\ ~Blocked(dest, Ancestors(path)) /\ path \in j.files
           /\ job'[q] = go /\ dest' = tree /\ j.pc = "mkdirs"
    BY <1>0, <1>5 DEF MoveFile, NextToMove, Change
  <2> HIDE DEF stop, go
  <2> QED BY <2>1, <2>2
<1> QED
  BY <1>1, <1>2, <1>3, <1>4, <1>5 DEF Extract

\* An extraction that looks or merges has the destination to itself, and the steps
\* of others leave none of its files there.
LEMMA OthersSpare ==
  ASSUME OneMerges, IInv, NEW p \in Procs, OneOK(p), NEW q \in Procs, q # p,
         Begin(q) \/ Extract(q) \/ Crash(q)
  PROVE  OneOK(p)'
<1>1. job'[p] = job[p]
  BY OthersUnchanged DEF IInv
<1>2. Merging(p) => dest' = dest
  BY WhatStepsDo DEF OneMerges, Merging
<1>3. ASSUME NEW path \in Paths PROVE dest'[path] \in {dest[path], Directory, FileOf(q)}
  <2>1. ASSUME NEW all PROVE WithDirs(dest, all)[path] \in {dest[path], Directory}
    BY DEF WithDirs
  <2>2. ASSUME NEW other \in Paths, NEW all,
               dest' = [WithDirs(dest, all) EXCEPT ![other] = FileOf(q)]
        PROVE  dest'[path] \in {dest[path], Directory, FileOf(q)}
    <3> DEFINE tree == WithDirs(dest, all)
    <3>1. DOMAIN tree = Paths
      BY DEF WithDirs
    <3>2. tree[path] \in {dest[path], Directory} /\ dest' = [tree EXCEPT ![other] = FileOf(q)]
      BY <2>1, <2>2
    <3> HIDE DEF tree
    <3> QED BY <3>1, <3>2
  <2>3. \/ dest' = dest
        \/ \E all : dest' = WithDirs(dest, all)
        \/ \E all : \E other \in Paths :
             dest' = [WithDirs(dest, all) EXCEPT ![other] = FileOf(q)]
    BY WhatStepsDo, Zenon
  <2>4. CASE \E all : dest' = WithDirs(dest, all)
    BY <2>1, <2>4
  <2> QED BY <2>2, <2>3, <2>4
<1>4. Directory # FileOf(p) /\ FileOf(q) # FileOf(p)
  BY DEF Directory, FileOf
<1>5. Placed(p)'
  BY <1>1, <1>2, <1>3, <1>4 DEF OneOK, Placed, Merging
<1>6. WayIsFree(p)'
  BY <1>1, <1>2 DEF OneOK, WayIsFree, Merging
<1> QED
  BY <1>1, <1>5, <1>6 DEF OneOK

\* A merge replaces a file only with --force, or one that is not there.
LEMMA StepKeeps ==
  ASSUME IInv, MergeInv, NEW q \in Procs, Begin(q) \/ Extract(q) \/ Crash(q),
         NEW p \in Procs
  PROVE  Kept(p)'
<1>1. \A r \in Procs : r # q => job'[r] = job[r]
  BY OthersUnchanged DEF IInv
<1>2. \A r \in Procs : job[r].moved \subseteq Paths /\ job[r] \in Job
  BY DEF IInv, Typed, Job
<1>3. ASSUME NEW r \in Procs, NEW path \in job[r].moved, job[r].force
      PROVE  job'[r].force /\ path \in job'[r].moved
  <2>1. job[r].pc = "idle" => job[r].moved = {}
    BY DEF MergeInv, OneOK, Planned
  <2> QED BY <1>1, <1>3, <2>1, WhatStepsDo
<1>4. ASSUME NEW path \in job[p].moved, ~\E r \in Procs : job'[r].force /\ path \in job'[r].moved
      PROVE  dest'[path] = FileOf(p)
  <2>1. dest[path] = FileOf(p) /\ path \in Paths
    BY <1>2, <1>3, <1>4 DEF MergeInv, Kept
  <2>2. dest[path] # Nothing /\ IsFile(dest, path) /\ dest \in [Paths -> Entry]
    BY <2>1 DEF Nothing, FileOf, IsFile, IInv, Typed
  <2>3. CASE dest' = dest
    BY <2>1, <2>3
  <2>4. ASSUME NEW all, ~Blocked(dest, all) PROVE WithDirs(dest, all)[path] = dest[path]
    BY <2>1, <2>2, <2>4 DEF Blocked, WithDirs
  <2>5. ASSUME NEW d \in Paths, ~Blocked(dest, Ancestors(d) \cup {d}),
               dest' = WithDirs(dest, Ancestors(d) \cup {d})
        PROVE  dest'[path] = FileOf(p)
    BY <2>1, <2>4, <2>5
  <2>6. ASSUME NEW other \in Paths, ~Blocked(dest, Ancestors(other)), other \in job[q].files,
               dest' = [WithDirs(dest, Ancestors(other)) EXCEPT ![other] = FileOf(q)],
               job[q].pc = "mkdirs", job'[q].force = job[q].force,
               job'[q].moved = job[q].moved \cup {other}
        PROVE  dest'[path] = FileOf(p)
    <3>1. CASE path = other
      <4>1. ~job[q].force
        BY <1>4, <2>6, <3>1
      <4>2. dest[other] = Nothing
        BY <2>6, <4>1 DEF MergeInv, OneOK, WayIsFree
      <4> QED BY <2>2, <3>1, <4>2
    <3>2. CASE path # other
      <4>1. dest'[path] = WithDirs(dest, Ancestors(other))[path]
        BY <2>6, <3>2
      <4> QED BY <2>1, <2>4, <2>6, <4>1
    <3> QED BY <3>1, <3>2
  <2> QED BY <2>3, <2>5, <2>6, WhatStepsDo
<1>5. ASSUME NEW path \in job'[p].moved, path \notin job[p].moved
      PROVE  dest'[path] = FileOf(p)
  <2>1. p = q
    BY <1>1, <1>5
  <2>2. PICK other \in Paths :
          /\ dest' = [WithDirs(dest, Ancestors(other)) EXCEPT ![other] = FileOf(q)]
          /\ job'[q].moved = job[q].moved \cup {other}
    BY <1>5, <2>1, WhatStepsDo
  <2>3. path = other
    BY <1>5, <2>1, <2>2
  <2> QED BY <2>1, <2>2, <2>3 DEF WithDirs
<1> QED
  BY <1>4, <1>5 DEF Kept

LEMMA MergeInvariance ==
  ASSUME NoMeddling
  PROVE  Spec /\ []OneMerges => [](IInv /\ MergeInv)
<1>1. Init => MergeInv
  <2> SUFFICES ASSUME Init, NEW p \in Procs PROVE OneOK(p) /\ Kept(p)
    BY DEF MergeInv
  <2>1. Absent(p)
    BY InitOK DEF IInv, Init, NewJob, Barred
  <2>2. job[p] = NewJob
    BY DEF Init
  <2> QED
    BY <2>1, <2>2 DEF OneOK, Planned, Placed, WayIsFree, Decided, Kept, NewJob, Absent
<1>2. IInv /\ MergeInv /\ OneMerges /\ [Next]_vars => MergeInv'
  <2> SUFFICES ASSUME IInv, MergeInv, OneMerges, [Next]_vars, NEW q \in Procs
               PROVE  OneOK(q)' /\ Kept(q)'
    BY DEF MergeInv
  <2>1. OneOK(q)
    BY DEF MergeInv
  <2>2. ASSUME NEW p \in Procs, Begin(p) \/ Extract(p) \/ Crash(p)
        PROVE  OneOK(q)' /\ Kept(q)'
    <3>1. CASE q = p
      BY <2>1, <2>2, <3>1, UnpackingPlans, CheckingFinds, MakeDirPlaces, MoveFilePlaces,
         EndingDecides, StepKeeps DEF Extract
    <3>2. CASE q # p
      BY <2>1, <2>2, <3>2, OthersSpare, StepKeeps
    <3> QED
      BY <3>1, <3>2
  <2>3. ASSUME NEW path \in Paths, NEW entry \in {Directory, FileOf(User)}, Meddle(path, entry)
        PROVE  OneOK(q)' /\ Kept(q)'
    <3>1. OneOK(q)'
      BY <2>1, <2>3, MeddlingSpares
    <3>2. /\ job' = job /\ dest[path] = Nothing /\ dest' = [dest EXCEPT ![path] = entry]
          /\ Nothing # FileOf(q)
      BY <2>3 DEF Meddle, Nothing, FileOf
    <3>3. \A other : dest[other] = FileOf(q) => dest'[other] = FileOf(q)
      BY <3>2
    <3>4. Kept(q)'
      BY <3>2, <3>3 DEF MergeInv, Kept
    <3> QED
      BY <3>1, <3>4
  <2>4. CASE UNCHANGED vars
    BY <2>1, <2>4 DEF vars, MergeInv, OneOK, Placed, WayIsFree, Kept
  <2> QED
    BY <2>2, <2>3, <2>4 DEF Next
<1> QED
  BY <1>1, <1>2, InitOK, StepOK, PTL DEF Spec

\* No extraction with --force has put a file where one without it has one.
ForcedStaysOut ==
  \A p, q \in Procs :
    ~job[p].force /\ job[q].force => FilesOf(job[p].archive) \cap job[q].moved = {}

\* Without --force, an extraction that has the destination to itself while it looks
\* and merges publishes every file of its archive, or none, or, if the file system
\* fails it or the user interrupts it, exactly those it has moved; nothing in its way
\* makes it stop half-way, for any archive packed from a tree (service.py 329-358).
\* What it has published stays whatever other extractions do before and after it,
\* unless one with --force replaces it.
THEOREM OutcomesTell ==
  ASSUME NoMeddling
  PROVE  Spec /\ []OneMerges => [](ForcedStaysOut => OutcomeTells)
<1>1. IInv /\ MergeInv => (ForcedStaysOut => OutcomeTells)
  <2> SUFFICES ASSUME IInv, MergeInv, ForcedStaysOut, NEW p \in Procs,
                      job[p].pc = "ended", ~job[p].force
               PROVE  {path \in Paths : dest[path] = FileOf(p)} =
                        CASE job[p].result = "ok"     -> FilesOf(job[p].archive)
                          [] job[p].result = "failed" -> job[p].moved
                          [] OTHER                    -> {}
    BY DEF OutcomeTells
  <2>1. Placed(p) /\ Decided(job[p]) /\ Kept(p)
    BY DEF MergeInv, OneOK
  <2>2. job[p] \in Job /\ job[p].moved \subseteq Paths
    BY DEF IInv, Typed, Job
  <2>3. \A path \in Paths : dest[path] = FileOf(p) => path \in job[p].moved
    BY <2>1 DEF Placed
  <2>4. ASSUME job[p].moved \subseteq FilesOf(job[p].archive)
        PROVE  {path \in Paths : dest[path] = FileOf(p)} = job[p].moved
    <3>1. ASSUME NEW path \in job[p].moved PROVE dest[path] = FileOf(p)
      BY <2>1, <2>4, <3>1 DEF Kept, ForcedStaysOut
    <3> QED BY <2>2, <2>3, <3>1
  <2>5. CASE job[p].result = "ok"
    BY <2>1, <2>4, <2>5 DEF Decided
  <2>6. CASE job[p].result = "failed"
    BY <2>1, <2>4, <2>6 DEF Decided
  <2>7. CASE job[p].result \notin {"ok", "failed"}
    <3>1. job[p].moved = {}
      BY <2>1, <2>2, <2>7 DEF Decided, Job
    <3>2. {path \in Paths : dest[path] = FileOf(p)} = {}
      BY <2>3, <3>1
    <3> QED BY <2>7, <3>2
  <2> QED
    BY <2>5, <2>6, <2>7
<1> QED
  BY <1>1, MergeInvariance, PTL

\* Under the same conditions an extraction without --force replaces no file that is
\* there, even one that was put there after it began, by whatever else works there.
THEOREM NothingOverwritten ==
  ASSUME NoMeddling
  PROVE  Spec /\ []OneMerges => NoForcedOverwrite
<1>1. IInv /\ MergeInv /\ [Next]_vars =>
        [\A p \in Procs, path \in Paths :
           ~job[p].force /\ path \in job'[p].moved \ job[p].moved => ~IsFile(dest, path)]_vars
  <2> SUFFICES ASSUME IInv, MergeInv, Next, NEW p \in Procs, NEW path \in Paths,
                      ~job[p].force, path \in job'[p].moved, path \notin job[p].moved
               PROVE  ~IsFile(dest, path)
    BY DEF vars
  <2>1. PICK q \in Procs : Begin(q) \/ Extract(q) \/ Crash(q)
    BY DEF Next, Meddle
  <2>2. q = p
    BY <2>1, OthersUnchanged DEF IInv
  <2>3. path \in job[p].files /\ job[p].pc = "mkdirs"
    BY <2>1, <2>2, WhatStepsDo
  <2>4. dest[path] = Nothing
    BY <2>3 DEF MergeInv, OneOK, WayIsFree
  <2> QED
    BY <2>4 DEF IsFile, Nothing
<1> QED
  BY <1>1, MergeInvariance, PTL DEF NoForcedOverwrite, Spec
-----------------------------------------------------------------------------
(* When turning an extraction away does leave the destination untouched. *)

\* While it looks, an extraction finds no file where its archive has a directory.
DirsAreClear ==
  \A p \in Procs : job[p].pc = "check" =>
    \A d \in DirsOf(job[p].archive) : ~IsFile(dest, d)

\* Then none without --force meets one, and none ends in a conflict.
ClearWay(p) ==
  ~job[p].force =>
    /\ job[p].pc = "mkdirs" => \A d \in DirsOf(job[p].archive) : ~IsFile(dest, d)
    /\ job[p].result # "conflict"

LEMMA OwnWayStaysClear ==
  ASSUME IInv, DirsAreClear, NEW p \in Procs, OneOK(p), ClearWay(p),
         Begin(p) \/ Extract(p) \/ Crash(p)
  PROVE  ClearWay(p)'
<1> DEFINE j == job[p]
<1>0. job[p] \in Job /\ Settled(job[p]) /\ \A new : Become(p, new) => job'[p] = new
  BY BecomeFacts
<1>1. CASE Begin(p)
  BY <1>0, <1>1 DEF Begin, Start, NewJob, ClearWay
<1>2. CASE Unpack(p) \/ UnpackFails(p) \/ Unpacked(p) \/ Merged(p) \/ MergeFails(p) \/ Cleanup(p) \/ Crash(p)
  BY <1>0, <1>2 DEF Unpack, UnpackFails, Unpacked, Merged, MergeFails, Cleanup, Crash, Job, ClearWay
<1>3. CASE (\E path \in Paths : Check(p, path)) \/ CheckEnds(p)
  <2>1. ASSUME NEW path \in Paths, Check(p, path)
        PROVE  ClearWay(p)'
    <3> DEFINE seen == IF dest[path] = Nothing THEN j.found ELSE j.found \cup {path}
               new == [j EXCEPT !.unchecked = @ \ {path}, !.found = seen]
    <3>1. job'[p] = new
      BY <1>0, <2>1 DEF Check
    <3>2. new.pc = j.pc /\ new.force = j.force /\ new.result = j.result
      <4> HIDE DEF seen
      <4> QED BY <1>0 DEF Job
    <3>3. j.pc = "check"
      BY <2>1 DEF Check
    <3> HIDE DEF new
    <3> QED BY <3>1, <3>2, <3>3 DEF ClearWay
  <2>2. CASE CheckEnds(p)
    <3> DEFINE turned == [j EXCEPT !.pc = "cleanup", !.result = "refused"]
               merging == [j EXCEPT !.pc = "mkdirs"]
    <3>1. /\ turned.pc = "cleanup" /\ turned.result = "refused"
          /\ merging.force = j.force /\ merging.archive = j.archive
          /\ merging.result = j.result /\ turned.force = j.force
      BY <1>0 DEF Job
    <3>2. /\ j.pc = "check" /\ dest' = dest
          /\ job'[p] = turned \/ job'[p] = merging
      BY <1>0, <2>2 DEF CheckEnds
    <3>3. \A d \in DirsOf(j.archive) : ~IsFile(dest, d)
      BY <3>2 DEF DirsAreClear
    <3> HIDE DEF turned, merging
    <3>4. CASE job'[p] = turned
      BY <3>1, <3>4 DEF ClearWay
    <3>5. CASE job'[p] = merging
      <4>1. job'[p].archive = j.archive /\ job'[p].force = j.force /\ job'[p].result = j.result
        BY <3>1, <3>5
      <4>2. \A d \in DirsOf(job'[p].archive) : ~IsFile(dest', d)
        BY <3>2, <3>3, <4>1 DEF IsFile
      <4> QED BY <4>1, <4>2 DEF ClearWay
    <3> QED BY <3>2, <3>4, <3>5
  <2> QED BY <1>3, <2>1, <2>2
<1>4. ASSUME NEW d \in Paths, MakeDir(p, d), ~job'[p].force
      PROVE  ClearWay(p)'
  <2> DEFINE all == Ancestors(d) \cup {d}
             stop == [j EXCEPT !.pc = "cleanup", !.result = "conflict"]
             go == [[j EXCEPT !.dirs = @ \ {d}] EXCEPT !.touched = @ \/ WithDirs(dest, all) # dest]
  <2>1. /\ stop.force = j.force /\ go.force = j.force /\ go.result = j.result
        /\ go.archive = j.archive /\ go.pc = j.pc
    BY <1>0 DEF Job
  <2>2. j.pc = "mkdirs" /\ d \in j.dirs
    BY <1>4 DEF MakeDir, IsNext
  <2>3. all \subseteq DirsOf(j.archive)
    BY <2>2, ArchivesAreTrees DEF OneOK, Planned
  <2>4. job'[p] = stop \/ job'[p] = go
    BY <1>0, <1>4 DEF MakeDir, Change
  <2>5. ~j.force
    <3> HIDE DEF stop, go
    <3> QED BY <1>4, <2>1, <2>4
  <2>6. ~Blocked(dest, all)
    BY <2>2, <2>3, <2>5 DEF ClearWay, Blocked
  <2>7. job'[p] = go /\ dest' = WithDirs(dest, all)
    BY <1>0, <1>4, <2>6 DEF MakeDir, Change
  <2> HIDE DEF go, stop
  <2>8. \A up \in DirsOf(j.archive) : ~IsFile(dest', up)
    <3>1. DirsOf(j.archive) \subseteq Paths
      BY <1>0, ArchiveLength, RecordPaths DEF IInv
    <3>2. \A up \in DirsOf(j.archive) : ~IsFile(dest, up)
      BY <2>2, <2>5 DEF ClearWay
    <3> QED BY <2>7, <3>1, <3>2 DEF WithDirs, IsFile, Directory
  <2> QED BY <2>1, <2>5, <2>7, <2>8 DEF ClearWay
<1>5. ASSUME NEW path \in Paths, MoveFile(p, path), ~job'[p].force
      PROVE  ClearWay(p)'
  <2> DEFINE ups == Ancestors(path)
             tree == [WithDirs(dest, ups) EXCEPT ![path] = FileOf(p)]
             stop == [j EXCEPT !.pc = "cleanup", !.result = "conflict"]
             go == [[j EXCEPT !.files = @ \ {path}, !.moved = @ \cup {path}]
                      EXCEPT !.touched = @ \/ tree # dest]
  <2>1. /\ stop.force = j.force /\ go.force = j.force /\ go.result = j.result
        /\ go.archive = j.archive /\ go.pc = j.pc
    <3> HIDE DEF tree
    <3> QED BY <1>0 DEF Job
  <2>2. j.pc = "mkdirs" /\ j.dirs = {} /\ path \in j.files
    BY <1>5 DEF MoveFile, NextToMove
  <2>3. ups \subseteq DirsOf(j.archive) /\ path \notin DirsOf(j.archive)
    BY <2>2, ArchivesAreTrees DEF OneOK, Planned
  <2>4. \A up \in ups : dest[up] = Directory
    BY <2>2, <2>3 DEF OneOK, Placed
  <2>5. job'[p] = stop \/ job'[p] = go
    BY <1>0, <1>5 DEF MoveFile, Change
  <2>6. ~j.force
    <3> HIDE DEF stop, go
    <3> QED BY <1>5, <2>1, <2>5
  <2>7. ~Blocked(dest, ups) /\ dest[path] # Directory
    BY <2>2, <2>4, <2>6 DEF OneOK, WayIsFree, Blocked, IsFile, Directory, Nothing
  <2>8. job'[p] = go /\ dest' = tree
    BY <1>0, <1>5, <2>7 DEF MoveFile, Change
  <2>9. \A up \in DirsOf(j.archive) : ~IsFile(dest', up)
    <3>1. DirsOf(j.archive) \subseteq Paths
      BY <1>0, ArchiveLength, RecordPaths DEF IInv
    <3>2. \A up \in DirsOf(j.archive) : ~IsFile(dest, up)
      BY <2>2, <2>6 DEF ClearWay
    <3>3. \A up \in DirsOf(j.archive) : dest'[up] = WithDirs(dest, ups)[up]
      BY <2>3, <2>8
    <3>4. \A up \in Paths : WithDirs(dest, ups)[up] \in {dest[up], Directory}
      BY DEF WithDirs
    <3> HIDE DEF tree, ups
    <3>5. Directory.kind # "file"
      BY DEF Directory
    <3> SUFFICES ASSUME NEW up \in DirsOf(j.archive)
                 PROVE  ~IsFile(dest', up)
      OBVIOUS
    <3>6. dest'[up] = dest[up] \/ dest'[up] = Directory
      BY <3>1, <3>3, <3>4
    <3> QED BY <3>2, <3>5, <3>6 DEF IsFile
  <2> HIDE DEF go, stop
  <2> QED BY <2>1, <2>6, <2>8, <2>9 DEF ClearWay
<1> QED
  BY <1>1, <1>2, <1>3, <1>4, <1>5 DEF Extract, ClearWay

\* An extraction without --force that is turned away has changed nothing, if while it
\* looks no file is where its archive has a directory (service.py 329-356): the
\* condition under which ConflictLeavesUntouched holds.
THEOREM ClearDirsMeanUntouched ==
  ASSUME NoMeddling
  PROVE  Spec /\ []OneMerges /\ []DirsAreClear => []ConflictLeavesUntouched
<1> DEFINE Inv == \A p \in Procs : ClearWay(p)
<1>1. Init => Inv
  BY DEF Init, NewJob, ClearWay
<1>2. IInv /\ MergeInv /\ OneMerges /\ DirsAreClear /\ Inv /\ [Next]_vars => Inv'
  <2> SUFFICES ASSUME IInv, MergeInv, OneMerges, DirsAreClear, Inv, [Next]_vars, NEW p \in Procs
               PROVE  ClearWay(p)'
    OBVIOUS
  <2>1. OneOK(p) /\ ClearWay(p)
    BY DEF MergeInv
  <2>2. ASSUME job'[p] = job[p], job[p].pc = "mkdirs" => dest' = dest
        PROVE  ClearWay(p)'
    BY <2>1, <2>2 DEF ClearWay
  <2>3. ASSUME NEW q \in Procs, Begin(q) \/ Extract(q) \/ Crash(q)
        PROVE  ClearWay(p)'
    <3>1. CASE q = p
      BY <2>1, <2>3, <3>1, OwnWayStaysClear
    <3>2. CASE q # p
      <4>1. job'[p] = job[p]
        BY <2>3, <3>2, OthersUnchanged DEF IInv
      <4>2. job[p].pc = "mkdirs" => dest' = dest
        BY <2>3, <3>2, WhatStepsDo DEF OneMerges, Merging
      <4> QED BY <2>2, <4>1, <4>2
    <3> QED BY <3>1, <3>2
  <2>4. ASSUME NEW path \in Paths, NEW entry \in {Directory, FileOf(User)}, Meddle(path, entry)
        PROVE  ClearWay(p)'
    BY <2>2, <2>4 DEF Meddle, NoMeddling
  <2>5. CASE UNCHANGED vars
    BY <2>2, <2>5 DEF vars
  <2> QED
    BY <2>3, <2>4, <2>5 DEF Next
<1>3. Inv /\ RefusalLeavesUntouched => ConflictLeavesUntouched
  BY DEF ClearWay, RefusalLeavesUntouched, ConflictLeavesUntouched
<1> QED
  BY <1>1, <1>2, <1>3, MergeInvariance, RefusedIsUntouched, PTL DEF Spec
=============================================================================
