-------------------------- MODULE MCStagedExtract --------------------------
(* TLC instances of StagedExtract: a lone file, a directory with two files, a *)
(* directory with a file and a directory with a file, and empty directories,  *)
(* all under the same root name so that they meet.                            *)
EXTENDS StagedExtract, TLC

CONSTANTS p1, p2, user

A == <<"a">>
AX == <<"a", "x">>
AY == <<"a", "y">>
AXZ == <<"a", "x", "z">>

MCPaths  == {A, AX, AY, AXZ}
FewPaths == {A, AX, AY}

LoneFile  == <<FileRecord(A)>>
Flat      == <<DirRecord(A), FileRecord(AX), FileRecord(AY)>>
Nested    == <<DirRecord(A), DirRecord(AX), FileRecord(AY), FileRecord(AXZ)>>
EmptyDirs == <<DirRecord(A), DirRecord(AX), DirRecord(AY)>>

MCArchives   == {LoneFile, Flat, Nested, EmptyDirs}
FewArchives  == {LoneFile, Flat}

Symmetry == Permutations({p1, p2})
=============================================================================
