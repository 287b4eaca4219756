-------------------------- MODULE MCArchiveStream --------------------------
(* TLC instances of ArchiveStream. *)
EXTENDS ArchiveStream

\* A lone file of a block and a half; a lone empty one; folders in a folder with
\* a file and a link; a folder that cannot be listed next to a full block; a pipe in a
\* folder; nothing; a link; a pipe alone.
MCTrees ==
  { Root :> File(<<1, 2, 3>>),
    Root :> File(<<>>),
    (Root :> Dir) @@ (<<1, 1>> :> Dir) @@ (<<1, 1, 1>> :> Dir)
      @@ (<<1, 2>> :> Dir) @@ (<<1, 2, 1>> :> File(<<1>>)) @@ (<<1, 3>> :> Link),
    (Root :> Dir) @@ (<<1, 1>> :> LockedDir) @@ (<<1, 1, 1>> :> File(<<1>>))
      @@ (<<1, 2>> :> File(<<1, 2>>)),
    (Root :> Dir) @@ (<<1, 2>> :> Pipe),
    <<>>,
    Root :> Link,
    Root :> Pipe }

\* The output as the source itself, before and after its entries, or in a folder.
MCOutPaths == {Root, <<1, 0>>, <<1, 5>>, <<1, 1, 3>>}

\* Nothing; files and folders where the archive has a file or a folder.
MCTargets ==
  { <<>>,
    Root :> File(<<9, 9>>),
    (Root :> Dir) @@ (<<1, 2>> :> File(<<9>>)),
    (Root :> Dir) @@ (<<1, 2>> :> Dir) @@ (<<1, 2, 1>> :> File(<<9>>)) }
=============================================================================
