------------------------- MODULE ArchiveStreamProofs -------------------------
(***************************************************************************)
(* Proofs about ArchiveStream, for every source tree, place of the output, *)
(* block size and destination, and every interleaving with others.         *)
(*                                                                         *)
(* The argument has four layers, each an invariant of its own.  CoreInv:   *)
(* what is left of the source is a tree, the stream is made of cells, the  *)
(* encoder's counters keep in their range.  WalkOK: every path gets one    *)
(* record at most, and what nobody changed has its record or is still      *)
(* before the walk.  ContentOK: the runs after a file's record are its     *)
(* blocks, one after the other.  UnpackInv: the unpacker is in step with   *)
(* the stream and has made of the cells before it what they say.           *)
(***************************************************************************)
EXTENDS ArchiveStream, Integers, SequenceTheorems, FiniteSetTheorems,
        WellFoundedInduction, TLAPS

\* A non-empty set of natural numbers has a least element.
LEMMA LeastNat ==
  ASSUME NEW T, T \subseteq Nat, T # {}
  PROVE  \E i \in T : \A j \in T : i <= j
<1> DEFINE R == {ss \in Nat \X Nat : ss[1] < ss[2]}
<1>1. IsWellFoundedOn(R, Nat)
  BY NatLessThanWellFounded DEF OpToRel
<1>2. PICK x \in T : \A y \in T : ~(<<y, x>> \in R)
  BY <1>1, WFMin, Zenon
<1>3. ASSUME NEW y \in T PROVE x <= y
  <2>1. x \in Nat /\ y \in Nat
    OBVIOUS
  <2>2. ~(y < x)
    BY <1>2, <2>1
  <2> QED BY <2>1, <2>2
<1> QED BY <1>2, <1>3

\* The smaller of two.
Lesser(a, b) == IF a <= b THEN a ELSE b

LEMMA MinOfTwo ==
  ASSUME NEW a \in Int, NEW b \in Int
  PROVE  Min({a, b}) = Lesser(a, b)
<1>1. Lesser(a, b) \in {a, b} /\ \A y \in {a, b} : Lesser(a, b) <= y
  BY DEF Lesser
<1>2. \A x, z \in {a, b} : (\A y \in {a, b} : x <= y) /\ (\A y \in {a, b} : z <= y) => x = z
  OBVIOUS
<1> QED BY <1>1, <1>2 DEF Min

-----------------------------------------------------------------------------
(* Paths. *)

Paths == Seq(Nat) \ {<<>>}

LEMMA PathLen ==
  ASSUME NEW p \in Paths
  PROVE  p \in Seq(Nat) /\ Len(p) \in Nat \ {0}
BY EmptySeq DEF Paths

\* To be a prefix, position by position.
LEMMA PrefixMeans ==
  ASSUME NEW p \in Seq(Nat), NEW q \in Seq(Nat)
  PROVE  IsPrefix(p, q) <=> Len(p) <= Len(q) /\ \A i \in 1 .. Len(p) : p[i] = q[i]
<1>1. CASE ~(Len(p) <= Len(q))
  BY <1>1 DEF IsPrefix
<1>2. CASE Len(p) <= Len(q)
  <2> DEFINE l == Len(p)
             a == SubSeq(p, 1, l)
             b == SubSeq(q, 1, l)
  <2>0. l \in Nat /\ Len(q) \in Nat
    BY LenProperties
  <2>1. \A i \in 1 .. l : p[i] \in Nat /\ q[i] \in Nat
    BY <1>2, <2>0, ElementOfSeq
  <2>2. a \in Seq(Nat) /\ Len(a) = l /\ \A i \in 1 .. l : a[i] = p[i]
    BY <2>0, <2>1, SubSeqProperties
  <2>3. b \in Seq(Nat) /\ Len(b) = l /\ \A i \in 1 .. l : b[i] = q[i]
    BY <2>0, <2>1, SubSeqProperties
  <2>4. a = b <=> \A i \in 1 .. l : a[i] = b[i]
    <3> HIDE DEF l, a, b
    <3> QED BY <2>2, <2>3, SeqEqual
  <2>5. IsPrefix(p, q) <=> a = b
    BY <1>2 DEF IsPrefix
  <2> QED BY <1>2, <2>2, <2>3, <2>4, <2>5
<1> QED BY <1>1, <1>2

LEMMA PrefixTransitive ==
  ASSUME NEW p \in Seq(Nat), NEW q \in Seq(Nat), NEW r \in Seq(Nat),
         IsPrefix(p, q), IsPrefix(q, r)
  PROVE  IsPrefix(p, r)
<1>1. Len(p) \in Nat /\ Len(q) \in Nat /\ Len(r) \in Nat
  BY LenProperties
<1>2. Len(p) <= Len(q) /\ \A i \in 1 .. Len(p) : p[i] = q[i]
  BY PrefixMeans
<1>3. Len(q) <= Len(r) /\ \A i \in 1 .. Len(q) : q[i] = r[i]
  BY PrefixMeans
<1>4. Len(p) <= Len(r) /\ \A i \in 1 .. Len(p) : p[i] = r[i]
  BY <1>1, <1>2, <1>3
<1> QED BY <1>4, PrefixMeans

LEMMA PrefixAntisymmetric ==
  ASSUME NEW p \in Seq(Nat), NEW q \in Seq(Nat), IsPrefix(p, q), Len(q) <= Len(p)
  PROVE  p = q
<1>1. Len(p) \in Nat /\ Len(q) \in Nat
  BY LenProperties
<1>2. Len(p) = Len(q) /\ \A i \in 1 .. Len(p) : p[i] = q[i]
  BY <1>1, PrefixMeans
<1> QED BY <1>2, SeqEqual

\* Of two prefixes of one path the shorter is a prefix of the longer.
LEMMA PrefixesOfOne ==
  ASSUME NEW p \in Seq(Nat), NEW q \in Seq(Nat), NEW r \in Seq(Nat),
         IsPrefix(p, r), IsPrefix(q, r), Len(p) <= Len(q)
  PROVE  IsPrefix(p, q)
<1>1. Len(p) \in Nat /\ Len(q) \in Nat /\ Len(r) \in Nat
  BY LenProperties
<1>2. \A i \in 1 .. Len(p) : p[i] = r[i]
  BY PrefixMeans
<1>3. \A i \in 1 .. Len(q) : q[i] = r[i]
  BY PrefixMeans
<1>4. \A i \in 1 .. Len(p) : p[i] = q[i]
  BY <1>1, <1>2, <1>3
<1> QED BY <1>4, PrefixMeans

\* The directories a path lies in are its proper non-empty prefixes.
LEMMA ParentsAre ==
  ASSUME NEW p \in Paths, NEW q
  PROVE  q \in Parents(p) <=> q \in Paths /\ IsPrefix(q, p) /\ Len(q) < Len(p)
<1>0. p \in Seq(Nat) /\ Len(p) \in Nat \ {0} /\ \A i \in 1 .. Len(p) : p[i] \in Nat
  BY PathLen, ElementOfSeq
<1>1. ASSUME q \in Parents(p) PROVE q \in Paths /\ IsPrefix(q, p) /\ Len(q) < Len(p)
  <2>1. PICK k \in 1 .. Len(p) - 1 : q = SubSeq(p, 1, k)
    BY <1>1 DEF Parents
  <2>2. k \in Int /\ 1 <= k /\ k < Len(p)
    BY <1>0
  <2>3. \A i \in 1 .. k : p[i] \in Nat
    BY <1>0, <2>2
  <2>4. q \in Seq(Nat) /\ Len(q) = k /\ \A i \in 1 .. k : q[i] = p[i]
    BY <2>1, <2>2, <2>3, SubSeqProperties
  <2>5. q # <<>>
    BY <2>2, <2>4, EmptySeq
  <2>6. IsPrefix(q, p)
    <3>1. Len(q) <= Len(p) /\ \A i \in 1 .. Len(q) : q[i] = p[i]
      BY <1>0, <2>2, <2>4
    <3>2. p \in Seq(Nat) /\ q \in Seq(Nat)
      BY <1>0, <2>4
    <3> QED BY ONLY <3>1, <3>2, PrefixMeans
  <2> QED BY <2>2, <2>4, <2>5, <2>6 DEF Paths
<1>2. ASSUME q \in Paths, IsPrefix(q, p), Len(q) < Len(p) PROVE q \in Parents(p)
  <2>1. q \in Seq(Nat) /\ Len(q) \in Nat \ {0}
    BY <1>2, PathLen
  <2>2. SubSeq(q, 1, Len(q)) = SubSeq(p, 1, Len(q))
    BY <1>2 DEF IsPrefix
  <2>3. q = SubSeq(p, 1, Len(q))
    BY <2>1, <2>2, SubSeqFull
  <2>4. Len(q) \in 1 .. Len(p) - 1
    BY <1>0, <1>2, <2>1
  <2> QED BY <2>3, <2>4 DEF Parents
<1> QED BY <1>1, <1>2

\* A directory on the way to a path lies in directories on the way to it.
LEMMA ParentsOfParents ==
  ASSUME NEW p \in Paths, NEW q \in Parents(p)
  PROVE  q \in Paths /\ Parents(q) \subseteq Parents(p)
<1>1. q \in Paths /\ IsPrefix(q, p) /\ Len(q) < Len(p)
  BY ParentsAre
<1>2. ASSUME NEW r \in Parents(q) PROVE r \in Parents(p)
  <2>1. r \in Paths /\ IsPrefix(r, q) /\ Len(r) < Len(q)
    BY <1>1, <1>2, ParentsAre
  <2>2. Len(p) \in Nat /\ Len(q) \in Nat /\ Len(r) \in Nat
    BY <1>1, <2>1, PathLen
  <2>3. IsPrefix(r, p)
    BY <1>1, <2>1, PathLen, PrefixTransitive
  <2> QED BY <1>1, <2>1, <2>2, <2>3, ParentsAre
<1> QED BY <1>1, <1>2

\* p is an entry of the directory d.
IsChild(p, d) == p \in Paths /\ Len(p) = Len(d) + 1 /\ IsPrefix(d, p)

LEMMA ParentsOfChild ==
  ASSUME NEW d \in Paths, NEW p, IsChild(p, d)
  PROVE  Parents(p) = Parents(d) \cup {d}
<1>0. p \in Paths /\ Len(p) = Len(d) + 1 /\ IsPrefix(d, p)
  BY DEF IsChild
<1>1. p \in Seq(Nat) /\ d \in Seq(Nat) /\ Len(p) \in Nat /\ Len(d) \in Nat
  BY <1>0, PathLen
<1>2. d \in Parents(p)
  BY <1>0, <1>1, ParentsAre
<1>3. Parents(d) \subseteq Parents(p)
  BY <1>0, <1>2, ParentsOfParents
<1>4. ASSUME NEW q \in Parents(p), q # d PROVE q \in Parents(d)
  <2>1. q \in Paths /\ IsPrefix(q, p) /\ Len(q) < Len(p)
    BY <1>0, <1>4, ParentsAre
  <2>2. q \in Seq(Nat) /\ Len(q) \in Nat /\ Len(q) <= Len(d)
    BY <1>0, <1>1, <2>1, PathLen
  <2>3. IsPrefix(q, d)
    BY <1>0, <1>1, <2>1, <2>2, PrefixesOfOne
  <2>4. Len(q) # Len(d)
    BY <1>1, <1>4, <2>2, <2>3, PrefixAntisymmetric
  <2> QED BY <1>1, <2>1, <2>2, <2>3, <2>4, ParentsAre
<1> QED BY <1>2, <1>3, <1>4

LEMMA FrontIsParent ==
  ASSUME NEW p \in Paths, Len(p) > 1
  PROVE  Front(p) \in Paths /\ IsChild(p, Front(p))
<1>0. p \in Seq(Nat) /\ Len(p) \in Nat \ {0} /\ \A i \in 1 .. Len(p) : p[i] \in Nat
  BY PathLen, ElementOfSeq
<1> DEFINE k == Len(p) - 1
<1>1. k \in 1 .. Len(p) - 1 /\ k \in Int
  BY <1>0
<1>2. SubSeq(p, 1, k) \in Parents(p)
  BY <1>1 DEF Parents
<1>3. SubSeq(p, 1, k) \in Paths /\ IsPrefix(SubSeq(p, 1, k), p)
  BY <1>2, ParentsAre
<1>4. \A i \in 1 .. k : p[i] \in Nat
  BY <1>0
<1>5. Len(SubSeq(p, 1, k)) = k
  BY <1>1, <1>4, SubSeqProperties
<1>6. Len(p) = Len(SubSeq(p, 1, k)) + 1
  BY <1>0, <1>5
<1> QED BY <1>3, <1>6 DEF IsChild, Front

\* The entries of a directory differ in their names.
LEMMA SiblingsDiffer ==
  ASSUME NEW d \in Paths, NEW p, NEW q, IsChild(p, d), IsChild(q, d), Last(p) = Last(q)
  PROVE  p = q
<1>1. p \in Seq(Nat) /\ q \in Seq(Nat) /\ d \in Seq(Nat) /\ Len(d) \in Nat
  BY PathLen DEF IsChild
<1>2. Len(p) = Len(d) + 1 /\ Len(q) = Len(d) + 1
  BY DEF IsChild
<1>3. \A i \in 1 .. Len(d) : d[i] = p[i] /\ d[i] = q[i]
  BY <1>1, PrefixMeans DEF IsChild
<1>4. p[Len(d) + 1] = q[Len(d) + 1]
  BY <1>2 DEF Last
<1>5. \A i \in 1 .. Len(p) : p[i] = q[i]
  BY <1>1, <1>2, <1>3, <1>4
<1> QED BY <1>1, <1>2, <1>5, SeqEqual

\* A finite set of paths that differ in their names can be sorted by them.
Sorts(s, n, S) ==
  s \in [1 .. n -> S] /\ \A i, j \in 1 .. n : i < j => Last(s[i]) < Last(s[j])

LEMMA SortExists ==
  ASSUME NEW S, IsFiniteSet(S), S \subseteq Paths,
         \A p, q \in S : Last(p) = Last(q) => p = q
  PROVE  \E s : Sorts(s, Cardinality(S), S)
<1> DEFINE Bad == {n \in Nat : \E T \in SUBSET S : Cardinality(T) = n /\ ~\E s : Sorts(s, n, T)}
<1>1. SUFFICES ASSUME Bad # {} PROVE FALSE
  <2>1. Cardinality(S) \in Nat
    BY FS_CardinalityType
  <2> QED BY <1>1, <2>1
<1>2. PICK n \in Bad : \A m \in Bad : n <= m
  <2>1. Bad \subseteq Nat
    OBVIOUS
  <2> HIDE DEF Bad
  <2> QED BY <1>1, <2>1, LeastNat
<1>3. PICK T \in SUBSET S : Cardinality(T) = n /\ ~\E s : Sorts(s, n, T)
  BY <1>2
<1>4. n \in Nat /\ IsFiniteSet(T)
  BY <1>2, FS_Subset
<1>5. n # 0
  <2>1. ASSUME n = 0 PROVE Sorts([i \in 1 .. 0 |-> i], n, T)
    BY <2>1 DEF Sorts
  <2> QED BY <1>3, <2>1
<1>6. T # {}
  BY <1>3, <1>4, <1>5, FS_EmptySet
<1>7. \A p \in T : Last(p) \in Nat
  <2>1. SUFFICES ASSUME NEW p \in T PROVE Last(p) \in Nat
    OBVIOUS
  <2>2. p \in Paths
    BY <2>1
  <2>3. Len(p) \in 1 .. Len(p) /\ p \in Seq(Nat)
    BY <2>2, PathLen
  <2> QED BY <2>3, ElementOfSeq DEF Last
<1>8. PICK x \in T : \A p \in T : Last(x) <= Last(p)
  <2> DEFINE L == {Last(p) : p \in T}
  <2>1. L \subseteq Nat /\ L # {}
    BY <1>6, <1>7
  <2>2. \E i \in L : \A j \in L : i <= j
    <3> HIDE DEF L
    <3> QED BY <2>1, LeastNat
  <2> QED BY <2>2
<1>9. Cardinality(T \ {x}) = n - 1 /\ n - 1 \in Nat
  <2>1. x \in T
    BY <1>8
  <2>2. Cardinality(T \ {x}) = Cardinality(T) - 1
    BY <1>4, <2>1, FS_RemoveElement
  <2> QED BY <1>3, <1>4, <1>5, <2>2
<1>10. PICK s : Sorts(s, n - 1, T \ {x})
  <2>1. n - 1 \notin Bad
    BY <1>2, <1>4, <1>9
  <2> QED BY <1>9, <2>1
<1> DEFINE r == [i \in 1 .. n |-> IF i = 1 THEN x ELSE s[i - 1]]
<1>11. \A i \in 1 .. n - 1 : s[i] \in T \ {x}
  BY <1>9, <1>10 DEF Sorts
<1>12. \A i, j \in 1 .. n - 1 : i < j => Last(s[i]) < Last(s[j])
  BY <1>10 DEF Sorts
<1>13. \A p \in T \ {x} : Last(x) < Last(p)
  BY <1>7, <1>8
<1>14. r \in [1 .. n -> T]
  BY <1>4, <1>5, <1>11
<1>15. ASSUME NEW i \in 1 .. n, NEW j \in 1 .. n, i < j PROVE Last(r[i]) < Last(r[j])
  <2>1. j - 1 \in 1 .. n - 1 /\ r[j] = s[j - 1] /\ j # 1
    BY <1>4, <1>15
  <2>2. CASE i = 1
    BY <1>11, <1>13, <2>1, <2>2
  <2>3. CASE i # 1
    <3>1. i - 1 \in 1 .. n - 1 /\ r[i] = s[i - 1] /\ i - 1 < j - 1
      BY <1>4, <1>15, <2>3
    <3> QED BY <1>12, <2>1, <3>1
  <2> QED BY <2>2, <2>3
<1>16. Sorts(r, n, T)
  <2> HIDE DEF r
  <2> QED BY <1>14, <1>15 DEF Sorts
<1> QED BY <1>3, <1>16

\* ByName returns each path of such a set once.
LEMMA ByNameSorts ==
  ASSUME NEW S, IsFiniteSet(S), S \subseteq Paths,
         \A p, q \in S : Last(p) = Last(q) => p = q
  PROVE  /\ ByName(S) \in Seq(S)
         /\ \A p \in S : \E i \in 1 .. Len(ByName(S)) : ByName(S)[i] = p
         /\ \A i, j \in 1 .. Len(ByName(S)) : i # j => ByName(S)[i] # ByName(S)[j]
<1> DEFINE n == Cardinality(S)
           b == ByName(S)
<1>1. n \in Nat
  BY FS_CardinalityType
<1>2. PICK s : Sorts(s, n, S)
  BY SortExists
<1>3. s \in [1 .. n -> S] /\ \A i, j \in DOMAIN s : i < j => Last(s[i]) < Last(s[j])
  BY <1>2 DEF Sorts
<1>4. b \in [1 .. n -> S] /\ \A i, j \in DOMAIN b : i < j => Last(b[i]) < Last(b[j])
  BY <1>3 DEF ByName
<1>5. \A p \in S : Last(p) \in Nat
  <2>1. SUFFICES ASSUME NEW p \in S PROVE Last(p) \in Nat
    OBVIOUS
  <2>2. p \in Paths
    BY <2>1
  <2>3. Len(p) \in 1 .. Len(p) /\ p \in Seq(Nat)
    BY <2>2, PathLen
  <2> QED BY <2>3, ElementOfSeq DEF Last
<1> HIDE DEF b, n
<1>6. b \in Seq(S) /\ Len(b) = n
  BY <1>1, <1>4
<1>7. \A i, j \in 1 .. n : i # j => b[i] # b[j]
  <2>1. SUFFICES ASSUME NEW i \in 1 .. n, NEW j \in 1 .. n, i < j PROVE b[i] # b[j]
    BY <1>1
  <2>2. Last(b[i]) < Last(b[j]) /\ b[i] \in S
    BY <1>4, <2>1
  <2>3. Last(b[i]) \in Nat
    BY <1>5, <2>2
  <2> QED BY <2>2, <2>3
<1>8. b \in Injection(1 .. n, S)
  BY <1>4, <1>7 DEF Injection, IsInjective
<1>9. IsFiniteSet(1 .. n) /\ Cardinality(1 .. n) = n
  BY <1>1, FS_Interval
<1>10. b \in Surjection(1 .. n, S)
  BY <1>8, <1>9, FS_Injection DEF n
<1>11. \A p \in S : \E i \in 1 .. n : b[i] = p
  BY <1>10 DEF Surjection
<1> QED BY <1>6, <1>7, <1>11 DEF b

-----------------------------------------------------------------------------
(* Trees. *)

LEMMA TreePaths ==
  ASSUME NEW t, IsTree(t)
  PROVE  /\ DOMAIN t \subseteq Paths
         /\ \A p \in DOMAIN t : \A q \in Parents(p) : q \in DOMAIN t /\ t[q].kind = "dir"
BY DEF IsTree, Paths, IsA

\* What lists the directory d.
Entries(t, d, kinds) ==
  {p \in DOMAIN t : Len(p) = Len(d) + 1 /\ IsPrefix(d, p) /\ t[p].kind \in kinds}

\* A listing gives each entry of the asked kinds once.
LEMMA ListingIs ==
  ASSUME NEW d \in Paths, NEW kinds, IsTree(tree)
  PROVE  LET L == Listing(d, kinds) IN
         /\ L \in Seq(Paths)
         /\ \A i \in 1 .. Len(L) : /\ IsChild(L[i], d) /\ L[i] \in DOMAIN tree
                                    /\ tree[L[i]].kind \in kinds
                                    /\ IsA(tree, d, {"dir"}) /\ tree[d].listable
         /\ \A i, j \in 1 .. Len(L) : i # j => L[i] # L[j]
         /\ IsA(tree, d, {"dir"}) /\ tree[d].listable =>
              \A p \in DOMAIN tree : IsChild(p, d) /\ tree[p].kind \in kinds =>
                \E i \in 1 .. Len(L) : L[i] = p
<1> DEFINE S == Entries(tree, d, kinds)
           L == Listing(d, kinds)
<1>1. CASE ~IsA(tree, d, {"dir"}) \/ ~tree[d].listable
  <2>1. L = <<>>
    BY <1>1 DEF Listing
  <2>2. L \in Seq(Paths) /\ Len(L) = 0
    BY <2>1, EmptySeq
  <2> HIDE DEF L
  <2> QED BY <1>1, <2>2 DEF L
<1>2. CASE IsA(tree, d, {"dir"}) /\ tree[d].listable
  <2>1. S \subseteq Paths /\ S \subseteq DOMAIN tree
    BY TreePaths DEF Entries
  <2>2. IsFiniteSet(S)
    BY <2>1, FS_Subset DEF IsTree
  <2>3. \A p \in S : IsChild(p, d)
    BY <2>1 DEF Entries, IsChild
  <2>4. \A p, q \in S : Last(p) = Last(q) => p = q
    <3> HIDE DEF S
    <3> QED BY <2>3, SiblingsDiffer
  <2>5. L = ByName(S)
    BY <1>2 DEF Listing, Entries
  <2>6. /\ L \in Seq(S)
        /\ \A p \in S : \E i \in 1 .. Len(L) : L[i] = p
        /\ \A i, j \in 1 .. Len(L) : i # j => L[i] # L[j]
    <3> HIDE DEF S
    <3> QED BY <2>1, <2>2, <2>4, <2>5, ByNameSorts
  <2>7. L \in Seq(Paths)
    <3> HIDE DEF S, L
    <3> QED BY <2>1, <2>6, SeqMonotonic
  <2>8. \A i \in 1 .. Len(L) : L[i] \in S
    <3> HIDE DEF S, L
    <3> QED BY <2>6, ElementOfSeq
  <2>9. \A p \in S : p \in DOMAIN tree /\ tree[p].kind \in kinds
    BY DEF Entries
  <2>10. \A p \in DOMAIN tree : IsChild(p, d) /\ tree[p].kind \in kinds => p \in S
    BY DEF Entries, IsChild
  <2> HIDE DEF S, L
  <2>11. \A i \in 1 .. Len(L) : /\ IsChild(L[i], d) /\ L[i] \in DOMAIN tree
                                  /\ tree[L[i]].kind \in kinds
    BY <2>3, <2>8, <2>9
  <2> QED BY <1>2, <2>6, <2>7, <2>10, <2>11 DEF L
<1> QED BY <1>1, <1>2

\* The headers of some paths.
Headers == [kind : {"dir", "file"}, path : Paths]

LEMMA RecordsAre ==
  ASSUME NEW kind \in {"dir", "file"}, NEW L \in Seq(Paths)
  PROVE  /\ Records(kind, L) \in Seq(Headers)
         /\ Len(Records(kind, L)) = Len(L)
         /\ \A i \in 1 .. Len(L) : Records(kind, L)[i] = Record(kind, L[i])
<1>1. Len(L) \in Nat /\ DOMAIN L = 1 .. Len(L)
  BY LenProperties
<1>2. \A i \in 1 .. Len(L) : Record(kind, L[i]) \in Headers
  BY ElementOfSeq DEF Record, Headers
<1>3. Records(kind, L) = [i \in 1 .. Len(L) |-> Record(kind, L[i])]
  BY <1>1 DEF Records
<1>4. Records(kind, L) \in [1 .. Len(L) -> Headers]
  BY <1>2, <1>3
<1> HIDE DEF Headers
<1>5. Len(Records(kind, L)) = Len(L) /\ Records(kind, L) \in Seq(Headers)
  BY <1>1, <1>4
<1> QED BY <1>3, <1>5

\* The agenda after a directory: its files, its directories, the rest.
LEMMA AgendaIs ==
  ASSUME NEW d \in Paths, NEW rest \in Seq(Headers), IsTree(tree)
  PROVE  LET f == Listing(d, {"file", "pipe"})
             s == Listing(d, {"dir"})
             a == Agenda(d, rest)
         IN /\ a \in Seq(Headers)
            /\ Len(a) = Len(f) + Len(s) + Len(rest)
            /\ \A i \in 1 .. Len(a) :
                 a[i] = IF i <= Len(f) THEN Record("file", f[i])
                        ELSE IF i <= Len(f) + Len(s) THEN Record("dir", s[i - Len(f)])
                        ELSE rest[i - Len(f) - Len(s)]
<1> DEFINE f == Listing(d, {"file", "pipe"})
           s == Listing(d, {"dir"})
           rf == Records("file", f)
           rs == Records("dir", s)
<1>1. f \in Seq(Paths) /\ s \in Seq(Paths)
  BY ListingIs
<1>2. Agenda(d, rest) = (rf \o rs) \o rest
  BY DEF Agenda
<1> HIDE DEF f, s
<1>3. rf \in Seq(Headers) /\ Len(rf) = Len(f) /\ \A i \in 1 .. Len(f) : rf[i] = Record("file", f[i])
  BY <1>1, RecordsAre
<1>4. rs \in Seq(Headers) /\ Len(rs) = Len(s) /\ \A i \in 1 .. Len(s) : rs[i] = Record("dir", s[i])
  BY <1>1, RecordsAre
<1> HIDE DEF rf, rs
<1>5. Len(f) \in Nat /\ Len(s) \in Nat /\ Len(rest) \in Nat
  BY <1>1, LenProperties
<1> DEFINE b == rf \o rs
<1>6. /\ b \in Seq(Headers) /\ Len(b) = Len(f) + Len(s)
      /\ \A i \in 1 .. Len(f) + Len(s) : b[i] = IF i <= Len(f) THEN rf[i] ELSE rs[i - Len(f)]
  <2>0. rf \in Seq(Headers) /\ rs \in Seq(Headers)
    BY <1>3, <1>4
  <2>1. /\ b \in Seq(Headers) /\ Len(b) = Len(rf) + Len(rs)
        /\ \A i \in 1 .. Len(rf) + Len(rs) : b[i] = IF i <= Len(rf) THEN rf[i] ELSE rs[i - Len(rf)]
    BY <2>0, ConcatProperties
  <2> HIDE DEF b
  <2> QED BY <1>3, <1>4, <2>1
<1> HIDE DEF b
<1>7. /\ b \o rest \in Seq(Headers) /\ Len(b \o rest) = Len(b) + Len(rest)
      /\ \A i \in 1 .. Len(b) + Len(rest) :
           (b \o rest)[i] = IF i <= Len(b) THEN b[i] ELSE rest[i - Len(b)]
  <2>1. b \in Seq(Headers) /\ rest \in Seq(Headers)
    BY <1>6
  <2> HIDE DEF Headers
  <2> QED BY <2>1, ConcatProperties, Zenon
<1>8. Agenda(d, rest) = b \o rest
  BY <1>2 DEF b
<1>9. ASSUME NEW i \in 1 .. Len(f) + Len(s) + Len(rest)
      PROVE  (b \o rest)[i] = IF i <= Len(f) THEN Record("file", f[i])
                               ELSE IF i <= Len(f) + Len(s) THEN Record("dir", s[i - Len(f)])
                               ELSE rest[i - Len(f) - Len(s)]
  <2>1. CASE i <= Len(f)
    BY <1>3, <1>5, <1>6, <1>7, <2>1
  <2>2. CASE ~(i <= Len(f)) /\ i <= Len(f) + Len(s)
    <3>1. i - Len(f) \in 1 .. Len(s) /\ i \in 1 .. Len(f) + Len(s)
      BY <1>5, <2>2
    <3>2. b[i] = rs[i - Len(f)]
      BY <1>6, <2>2, <3>1
    <3>3. rs[i - Len(f)] = Record("dir", s[i - Len(f)])
      BY <1>4, <3>1
    <3>4. (b \o rest)[i] = b[i]
      BY <1>5, <1>6, <1>7, <2>2
    <3> QED BY <2>2, <3>2, <3>3, <3>4
  <2>3. CASE ~(i <= Len(f)) /\ ~(i <= Len(f) + Len(s))
    <3>1. (b \o rest)[i] = rest[i - (Len(f) + Len(s))]
      BY <1>5, <1>6, <1>7, <2>3
    <3>2. i - (Len(f) + Len(s)) = i - Len(f) - Len(s)
      BY <1>5
    <3> QED BY <2>3, <3>1, <3>2
  <2> QED BY <2>1, <2>2, <2>3
<1> QED BY <1>6, <1>7, <1>8, <1>9 DEF f, s

-----------------------------------------------------------------------------
(* The invariant of the state: what is packed is a part of the source, the  *)
(* stream is made of cells and its end comes last, and the unpacker reads   *)
(* what a packer has left.                                                   *)

Runs  == [kind : {"run"}, data : Seq(Nat)]
Cells == Headers \cup Runs \cup {Stop, End}

SourcesOK ==
  /\ IsTree(source) /\ IsTree(tree) /\ out \in Seq(Nat)
  /\ \A p \in DOMAIN source : IsInSource(p)
  /\ DOMAIN tree \subseteq DOMAIN source
  /\ \A p \in DOMAIN tree :
       tree[p] = source[p] \/ (tree[p].kind = "file" /\ source[p].kind = "file")
  /\ out # Elsewhere => IsA(tree, out, {"file"})

PackStates ==
  [pc : {"start", "walk", "read", "packed", "failed", "blocked"},
   agenda : Seq(Headers), cur : Seq(Nat), pos : Nat]

PackOK ==
  /\ pk \in PackStates
  /\ stream \in Seq(Cells)
  /\ pk.pc = "start" => pk.agenda = <<>> /\ stream = <<>>
  /\ pk.pc = "read" => IsA(tree, pk.cur, {"file"})
  /\ \A i \in 1 .. Len(stream) : stream[i] = End => i = Len(stream) /\ pk.pc = "packed"

EncoderOK == pending \in 0 .. Block /\ ahead \in 0 .. MaxAhead

UnpackerOK ==
  /\ un = [pc |-> un.pc, pos |-> un.pos, good |-> un.good, overwrite |-> un.overwrite,
           cur |-> un.cur, before |-> un.before, dest |-> un.dest]
  /\ un.pc \in {"idle", "records", "content", "ok", "failed"}
  /\ un.pos \in Nat /\ un.good \in Nat /\ un.pos <= un.good /\ un.good <= Len(stream)
  /\ un.pc = "idle" => un.pos = 0 /\ un.good = 0
  /\ un.pc # "idle" => pk.pc \in {"packed", "failed"}
  /\ un.pc = "ok" => pk.pc = "packed" /\ un.good = Len(stream)
  /\ un.pc = "content" =>
       un.cur \in DOMAIN un.dest /\ un.dest[un.cur] = File(un.dest[un.cur].data)

\* What lets a file that was there stay as it was.
Spared ==
  ~un.overwrite => NeverReplaced /\ (un.pc = "content" => un.cur \notin DOMAIN un.before)

CoreInv == SourcesOK /\ PackOK /\ EncoderOK /\ UnpackerOK

\* Putting the output in its place leaves a tree.
LEMMA OutputFits ==
  ASSUME NEW t, IsTree(t), \A p \in DOMAIN t : IsInSource(p),
         NEW o, IsInSource(o), MayHold(t, o)
  PROVE  LET u == With(t, o, File(<<>>)) IN
         IsTree(u) /\ (\A p \in DOMAIN u : IsInSource(p)) /\ IsA(u, o, {"file"})
<1> DEFINE u == With(t, o, File(<<>>))
<1>1. DOMAIN u = DOMAIN t \cup {o}
  BY DEF With
<1>2. \A p \in DOMAIN u : u[p] = IF p = o THEN File(<<>>) ELSE t[p]
  BY DEF With
<1> HIDE DEF u
<1>3. IsFiniteSet(DOMAIN u)
  BY <1>1, FS_AddElement DEF IsTree
<1>4. o \in Paths
  BY DEF IsInSource, Paths
<1>5. \A p \in DOMAIN u : p \in Paths
  BY <1>1, <1>4, TreePaths
<1>6. IsEntry(File(<<>>)) /\ File(<<>>).kind = "file"
  BY DEF IsEntry, File
<1>7. \A p \in DOMAIN u : IsEntry(u[p])
  BY <1>1, <1>2, <1>6 DEF IsTree
<1>8. \A q \in Parents(o) : IsA(t, q, {"dir"})
  <2>1. CASE IsA(t, o, {"file"})
    BY <2>1, TreePaths DEF IsA
  <2>2. CASE o = Root
    <3>1. Parents(o) = {}
      BY <2>2 DEF Parents, Root
    <3> QED BY <3>1
  <2>3. CASE o # Root /\ IsA(t, Front(o), {"dir"})
    <3>1. Len(o) > 1
      <4>1. Len(o) \in Nat \ {0} /\ o \in Seq(Nat)
        BY <1>4, PathLen
      <4>2. o[1] = 1
        BY DEF IsInSource, Root
      <4>3. ASSUME Len(o) = 1 PROVE FALSE
        <5>1. Root \in Seq(Nat) /\ Len(Root) = 1 /\ Root[1] = 1
          BY DEF Root
        <5>2. \A i \in 1 .. Len(o) : o[i] = Root[i]
          BY <4>2, <4>3, <5>1
        <5>3. o = Root
          BY <4>1, <4>3, <5>1, <5>2, SeqEqual
        <5> QED BY <2>3, <5>3
      <4>4. Len(o) # 1
        BY <4>3
      <4>5. Len(o) \in Nat /\ Len(o) # 0
        BY <4>1
      <4> QED BY <4>4, <4>5
    <3>2. Front(o) \in Paths /\ IsChild(o, Front(o))
      BY <1>4, <3>1, FrontIsParent
    <3>3. Parents(o) = Parents(Front(o)) \cup {Front(o)}
      BY <3>2, ParentsOfChild
    <3> QED BY <2>3, <3>3, TreePaths DEF IsA
  <2> QED BY <2>1, <2>2, <2>3 DEF MayHold
<1>9. \A q \in DOMAIN t : t[q].kind = "dir" => q # o
  BY DEF MayHold, IsA
<1>10. ASSUME NEW p \in DOMAIN u, NEW q \in Parents(p) PROVE IsA(u, q, {"dir"})
  <2>1. IsA(t, q, {"dir"})
    BY <1>1, <1>8, <1>10, TreePaths DEF IsA
  <2> QED BY <1>1, <1>2, <1>9, <2>1 DEF IsA
<1>11. IsTree(u)
  BY <1>3, <1>5, <1>7, <1>10 DEF IsTree, Paths
<1>12. \A p \in DOMAIN u : IsInSource(p)
  BY <1>1
<1>13. IsA(u, o, {"file"})
  BY <1>1, <1>2, <1>6 DEF IsA
<1> QED BY <1>11, <1>12, <1>13 DEF u

LEMMA CoreInit == Init => CoreInv /\ Spared
<1> SUFFICES ASSUME Init PROVE CoreInv /\ Spared
  OBVIOUS
<1>1. PICK t \in Trees :
        /\ out \in {Elsewhere} \cup {p \in OutPaths : MayHold(t, p)}
        /\ source = IF out = Elsewhere THEN t ELSE With(t, out, File(<<>>))
  BY DEF Init
<1>2. IsTree(t) /\ \A p \in DOMAIN t : IsInSource(p)
  BY ArchiveStreamAssumption
<1>3. out = Elsewhere \/ (IsInSource(out) /\ MayHold(t, out))
  BY <1>1, ArchiveStreamAssumption
<1>4. IsTree(source) /\ \A p \in DOMAIN source : IsInSource(p)
  BY <1>1, <1>2, <1>3, OutputFits
<1>5. out # Elsewhere => IsA(source, out, {"file"})
  BY <1>1, <1>2, <1>3, OutputFits
<1>6. out \in Seq(Nat)
  <2>1. <<>> \in Seq(Nat)
    BY EmptySeq
  <2> QED BY <1>3, <2>1 DEF IsInSource, Elsewhere
<1>7. tree = source
  BY DEF Init
<1>8. SourcesOK
  BY <1>4, <1>5, <1>6, <1>7 DEF SourcesOK
<1>9. stream = <<>> /\ pk = [pc |-> "start", agenda |-> <<>>, cur |-> <<>>, pos |-> 0]
  BY DEF Init
<1>10. PackOK
  BY <1>9 DEF PackOK, PackStates
<1>11. EncoderOK
  BY ArchiveStreamAssumption DEF Init, EncoderOK
<1>12. un = [pc |-> "idle", pos |-> 0, good |-> 0, overwrite |-> FALSE,
             cur |-> <<>>, before |-> <<>>, dest |-> <<>>]
  BY DEF Init
<1>13. UnpackerOK
  BY <1>9, <1>12 DEF UnpackerOK
<1>14. Spared
  BY <1>12 DEF Spared, NeverReplaced
<1> QED BY <1>8, <1>10, <1>11, <1>13, <1>14 DEF CoreInv

\* The source loses an entry with what is below it, or a file grows.
LEMMA VanishLeavesTree ==
  ASSUME NEW t, IsTree(t), NEW path \in Paths
  PROVE  IsTree([p \in DOMAIN t \ Below(t, path) |-> t[p]])
<1> DEFINE D == DOMAIN t \ Below(t, path)
           u == [p \in D |-> t[p]]
<1>1. IsFiniteSet(D)
  BY FS_Subset DEF IsTree
<1>2. ASSUME NEW p \in D, NEW q \in Parents(p) PROVE q \in D
  <2>1. p \in Paths /\ q \in DOMAIN t
    BY <1>2, TreePaths
  <2>2. q \in Paths /\ IsPrefix(q, p)
    BY <1>2, <2>1, ParentsAre
  <2>3. IsPrefix(path, q) => IsPrefix(path, p)
    BY <2>1, <2>2, PathLen, PrefixTransitive
  <2> QED BY <2>1, <2>3 DEF Below
<1>3. \A p \in D : p \in DOMAIN t
  OBVIOUS
<1>4. DOMAIN u = D /\ \A p \in D : u[p] = t[p]
  OBVIOUS
<1> HIDE DEF u, D
<1>5. IsTree(u)
  BY <1>1, <1>2, <1>3, <1>4 DEF IsTree, IsA
<1> QED BY <1>5 DEF u, D

LEMMA ExtendLeavesTree ==
  ASSUME NEW t, IsTree(t), NEW path \in DOMAIN t, t[path].kind = "file"
  PROVE  LET u == [t EXCEPT ![path].data = Append(@, 0)] IN
         /\ IsTree(u) /\ DOMAIN u = DOMAIN t
         /\ \A p \in DOMAIN t : /\ u[p].kind = t[p].kind
                                 /\ p # path => u[p] = t[p]
<1> DEFINE u == [t EXCEPT ![path].data = Append(@, 0)]
           d == t[path].data
<1>1. t[path] = File(d) /\ d \in Seq(Nat)
  BY DEF IsTree, IsEntry, Dir, LockedDir, Link, Pipe
<1>2. DOMAIN u = DOMAIN t /\ \A p \in DOMAIN t : p # path => u[p] = t[p]
  OBVIOUS
<1>3. u[path] = [t[path] EXCEPT !.data = Append(d, 0)]
  OBVIOUS
<1> HIDE DEF d, u
<1>4. u[path] = File(Append(d, 0))
  BY <1>1, <1>3 DEF File
<1>5. Append(d, 0) \in Seq(Nat)
  BY <1>1
<1>6. IsEntry(u[path]) /\ u[path].kind = t[path].kind
  BY <1>1, <1>4, <1>5 DEF IsEntry, File
<1>7. \A p \in DOMAIN t : u[p].kind = t[p].kind /\ IsEntry(u[p])
  BY <1>2, <1>6 DEF IsTree
<1>8. IsTree(u)
  BY <1>2, <1>7 DEF IsTree, IsA
<1> QED BY <1>2, <1>7, <1>8 DEF u

LEMMA SourcesStep ==
  ASSUME SourcesOK, [Next]_vars
  PROVE  SourcesOK'
<1>1. ASSUME UNCHANGED sources PROVE SourcesOK'
  BY <1>1 DEF SourcesOK, sources, IsA
<1>2. ASSUME NEW path \in DOMAIN tree, Vanish(path) PROVE SourcesOK'
  <2>1. /\ tree' = [p \in DOMAIN tree \ Below(tree, path) |-> tree[p]]
        /\ ~IsPrefix(path, out) /\ UNCHANGED <<source, out>>
    BY <1>2 DEF Vanish, Disturb
  <2>2. path \in Paths
    BY TreePaths DEF SourcesOK
  <2>3. IsTree(tree')
    BY <2>1, <2>2, VanishLeavesTree DEF SourcesOK
  <2>4. DOMAIN tree' \subseteq DOMAIN tree /\ \A p \in DOMAIN tree' : tree'[p] = tree[p]
    BY <2>1
  <2>5. out \in DOMAIN tree => out \in DOMAIN tree'
    BY <2>1 DEF Below
  <2> QED BY <2>1, <2>3, <2>4, <2>5 DEF SourcesOK, IsA
<1>3. ASSUME NEW path \in DOMAIN tree, Extend(path) PROVE SourcesOK'
  <2>1. /\ tree' = [tree EXCEPT ![path].data = Append(@, 0)] /\ tree[path].kind = "file"
        /\ UNCHANGED <<source, out>>
    BY <1>3 DEF Extend, Disturb
  <2>2. /\ IsTree(tree') /\ DOMAIN tree' = DOMAIN tree
        /\ \A p \in DOMAIN tree : /\ tree'[p].kind = tree[p].kind
                                   /\ p # path => tree'[p] = tree[p]
    BY <2>1, ExtendLeavesTree DEF SourcesOK
  <2>3. source[path].kind = "file"
    BY <2>1 DEF SourcesOK
  <2> QED BY <2>1, <2>2, <2>3 DEF SourcesOK, IsA
<1>4. Pack \/ PackFails => UNCHANGED sources
  BY DEF Pack, PackFails, Packing, PackBegin, Visit, OpenFile, ReadBlock, ReadEnds, PackEnd
<1>5. Unpack => UNCHANGED sources
  BY DEF Unpack, UnpackDir, UnpackFile, UnpackRun, UnpackStop, UnpackEnd, UnpackShort, Unpacking
<1>6. \A good, overwrite, target : UnpackBegin(good, overwrite, target) => UNCHANGED sources
  BY DEF UnpackBegin
<1>7. UNCHANGED vars => UNCHANGED sources
  BY DEF vars
<1> QED BY <1>1, <1>2, <1>3, <1>4, <1>5, <1>6, <1>7 DEF Next

\* The stream with some cells more; only the last one may be its end.
LEMMA AppendCells ==
  ASSUME PackOK, pk.pc # "packed", NEW cells \in Seq(Cells), stream' = stream \o cells,
         \A i \in 1 .. Len(cells) : cells[i] = End => i = Len(cells) /\ pk'.pc = "packed"
  PROVE  /\ stream' \in Seq(Cells) /\ Len(stream') = Len(stream) + Len(cells)
         /\ \A i \in 1 .. Len(stream') :
              stream'[i] = IF i <= Len(stream) THEN stream[i] ELSE cells[i - Len(stream)]
         /\ \A i \in 1 .. Len(stream') : stream'[i] = End => i = Len(stream') /\ pk'.pc = "packed"
<1>1. stream \in Seq(Cells) /\ \A i \in 1 .. Len(stream) : stream[i] # End
  BY DEF PackOK
<1> HIDE DEF Cells
<1>2. /\ stream' \in Seq(Cells) /\ Len(stream') = Len(stream) + Len(cells)
      /\ \A i \in 1 .. Len(stream) + Len(cells) :
           stream'[i] = IF i <= Len(stream) THEN stream[i] ELSE cells[i - Len(stream)]
  BY <1>1, ConcatProperties
<1>3. Len(stream) \in Nat /\ Len(cells) \in Nat
  BY <1>1, LenProperties
<1>4. ASSUME NEW i \in 1 .. Len(stream'), stream'[i] = End
      PROVE  i = Len(stream') /\ pk'.pc = "packed"
  <2>1. ~(i <= Len(stream))
    <3>1. i <= Len(stream) => i \in 1 .. Len(stream) /\ stream'[i] = stream[i]
      BY <1>2, <1>3
    <3> QED BY <1>1, <1>4, <3>1
  <2>2. i - Len(stream) \in 1 .. Len(cells) /\ stream'[i] = cells[i - Len(stream)]
    BY <1>2, <1>3, <2>1
  <2>3. i - Len(stream) = Len(cells) /\ pk'.pc = "packed"
    BY <1>4, <2>2
  <2> QED BY <1>2, <1>3, <2>3
<1> QED BY <1>2, <1>4

\* The chunks that are full go out, and what is held stays within one.
LEMMA EncodeStep ==
  ASSUME EncoderOK, NEW units \in Nat, NEW readTo \in Nat, readTo <= ahead,
         Encode(units, readTo)
  PROVE  EncoderOK'
<1>0. Block \in Nat \ {0} /\ MaxAhead \in Nat
  BY ArchiveStreamAssumption
<1>1. CASE out = Elsewhere
  BY <1>1 DEF Encode, EncoderOK, encoder
<1>2. CASE out # Elsewhere
  <2> DEFINE held == pending + units
             q == Sealed(held)
             n == ahead - readTo + q * (Block + 1)
  <2>1. /\ pending' = held - q * Block
        /\ ahead' = Min({MaxAhead, n})
    BY <1>2 DEF Encode
  <2>2. held \in Nat /\ ahead \in Nat
    BY <1>0 DEF EncoderOK
  <2> HIDE DEF held
  <2>3. q \in Nat /\ held - q * Block \in 0 .. Block
    <3>1. CASE held = 0
      BY <1>0, <3>1 DEF Sealed
    <3>2. CASE held # 0
      <4>1. q = (held - 1) \div Block /\ held - 1 \in Nat
        BY <2>2, <3>2 DEF Sealed
      <4> DEFINE m == held - 1
                 k == m \div Block
      <4>2. k \in Nat /\ k * Block <= m /\ m < k * Block + Block
        <5>1. m \in Nat
          BY <4>1
        <5> HIDE DEF m
        <5> QED BY <1>0, <5>1
      <4>3. k * Block \in Nat
        <5> HIDE DEF k
        <5> QED BY <1>0, <4>2
      <4>4. q = k
        BY <4>1
      <4> HIDE DEF k
      <4>5. k * Block <= held - 1 /\ held - 1 < k * Block + Block
        BY <4>2
      <4> DEFINE z == k * Block
      <4>6. held - z \in 0 .. Block
        <5> HIDE DEF z
        <5> QED BY <1>0, <2>2, <4>3, <4>5 DEF z
      <4> QED BY <4>2, <4>4, <4>6
    <3> QED BY <3>1, <3>2
  <2> HIDE DEF q
  <2>4. n \in Nat
    <3>1. q * (Block + 1) \in Nat
      BY <1>0, <2>3
    <3> DEFINE z == q * (Block + 1)
    <3>2. z \in Nat
      BY <3>1
    <3> HIDE DEF z
    <3>3. ahead - readTo + z \in Nat
      BY <2>2, <3>2
    <3> QED BY <3>3 DEF z
  <2> HIDE DEF n
  <2>5. ahead' = Lesser(MaxAhead, n)
    BY <1>0, <2>1, <2>4, MinOfTwo
  <2>6. ahead' \in 0 .. MaxAhead
    BY <1>0, <2>4, <2>5 DEF Lesser
  <2> QED BY <2>1, <2>3, <2>6 DEF EncoderOK
<1> QED BY <1>1, <1>2

\* A file of the tree holds a sequence of units.
LEMMA FileData ==
  ASSUME NEW t, IsTree(t), NEW p, IsA(t, p, {"file"})
  PROVE  t[p] = File(t[p].data) /\ t[p].data \in Seq(Nat)
BY DEF IsTree, IsEntry, IsA, Dir, LockedDir, Link, Pipe

LEMMA NextBlockIs ==
  ASSUME CoreInv, pk.pc = "read"
  PROVE  /\ NextBlock \in Seq(Nat)
         /\ pk.cur = out => Len(NextBlock) <= ahead
         /\ pk.cur # out =>
              NextBlock = SubSeq(tree[pk.cur].data, pk.pos + 1,
                                 Lesser(pk.pos + Block, Len(tree[pk.cur].data)))
<1>0. Block \in Nat \ {0}
  BY ArchiveStreamAssumption
<1>1. CASE pk.cur = out
  <2> DEFINE m == Min({Block, ahead})
  <2>1. ahead \in Nat
    BY ArchiveStreamAssumption DEF CoreInv, EncoderOK
  <2>2. m = Lesser(Block, ahead)
    BY <1>0, <2>1, MinOfTwo
  <2>3. m \in Nat /\ m <= ahead
    BY <1>0, <2>1, <2>2 DEF Lesser
  <2>4. NextBlock = [i \in 1 .. m |-> 0]
    BY <1>1 DEF NextBlock
  <2> HIDE DEF m
  <2>5. NextBlock \in Seq(Nat) /\ Len(NextBlock) = m
    BY <2>3, <2>4
  <2> QED BY <1>1, <2>3, <2>5
<1>2. CASE pk.cur # out
  <2> DEFINE d == tree[pk.cur].data
  <2>1. d \in Seq(Nat) /\ pk.pos \in Nat
    BY FileData DEF CoreInv, SourcesOK, PackOK, PackStates
  <2>2. NextBlock = SubSeq(d, pk.pos + 1, Min({pk.pos + Block, Len(d)}))
    BY <1>2 DEF NextBlock
  <2> HIDE DEF d
  <2>3. Len(d) \in Nat /\ pk.pos + Block \in Nat
    BY <1>0, <2>1, LenProperties
  <2>4. Min({pk.pos + Block, Len(d)}) = Lesser(pk.pos + Block, Len(d))
    BY <2>3, MinOfTwo
  <2> DEFINE hi == Lesser(pk.pos + Block, Len(d))
  <2>5. hi \in Int /\ hi <= Len(d) /\ pk.pos + 1 \in Int /\ 1 <= pk.pos + 1
    BY <2>1, <2>3 DEF Lesser
  <2> HIDE DEF hi
  <2>6. \A i \in pk.pos + 1 .. hi : d[i] \in Nat
    <3>1. \A i \in pk.pos + 1 .. hi : i \in 1 .. Len(d)
      BY <2>3, <2>5
    <3> QED BY <2>1, <3>1, ElementOfSeq
  <2>7. SubSeq(d, pk.pos + 1, hi) \in Seq(Nat)
    BY <2>5, <2>6, SubSeqProperties
  <2> QED BY <1>2, <2>2, <2>4, <2>7 DEF d, hi
<1> QED BY <1>1, <1>2

LEMMA CellsAre ==
  /\ Headers \subseteq Cells /\ Stop \in Cells /\ End \in Cells
  /\ \A c \in Headers : c # End /\ c # Stop
  /\ \A d \in Seq(Nat) : Run(d) \in Cells /\ Run(d) # End
  /\ Stop # End
BY DEF Headers, Cells, Runs, Run, Stop, End

\* What each step of the packer appends, and how it leaves the agenda.
LEMMA PackBeginStep ==
  ASSUME CoreInv, PackBegin
  PROVE  PackOK' /\ EncoderOK'
<1> DEFINE walks == IsA(tree, Root, {"dir", "pipe"})
           first == IF walks THEN <<Record("dir", Root)>> ELSE <<>>
           kind  == IF walks THEN "dir" ELSE "file"
<1>1. /\ pk.pc = "start" /\ stream' = stream \o first /\ Encode(Len(first), 0)
      /\ pk' = IF IsA(tree, Root, {"dir", "pipe", "file"})
               THEN [pk EXCEPT !.pc = "walk", !.agenda = <<Record(kind, Root)>>]
               ELSE [pk EXCEPT !.pc = "failed"]
  BY DEF PackBegin, Packing
<1>2. Root \in Paths
  BY DEF Root, Paths
<1>3. Record("dir", Root) \in Headers /\ Record(kind, Root) \in Headers
  BY <1>2 DEF Record, Headers
<1>4. first \in Seq(Headers) /\ first \in Seq(Cells)
  <2>1. Record("dir", Root) \in Cells
    BY <1>3, CellsAre
  <2> HIDE DEF Headers, Cells
  <2> QED BY <1>3, <2>1, EmptySeq
<1>5. \A i \in 1 .. Len(first) : first[i] # End
  <2> HIDE DEF first
  <2> QED BY <1>4, CellsAre, ElementOfSeq
<1>6. Len(first) \in Nat
  <2> HIDE DEF first
  <2> QED BY <1>4, LenProperties
<1> HIDE DEF walks, first, kind
<1>7. pk' \in PackStates /\ pk'.pc \in {"walk", "failed"}
  <2>1. <<Record(kind, Root)>> \in Seq(Headers)
    <3> HIDE DEF Headers
    <3> QED BY <1>3
  <2>2. pk \in PackStates
    BY DEF CoreInv, PackOK
  <2>3. CASE IsA(tree, Root, {"dir", "pipe", "file"})
    BY <1>1, <2>1, <2>2, <2>3 DEF PackStates
  <2>4. CASE ~IsA(tree, Root, {"dir", "pipe", "file"})
    BY <1>1, <2>2, <2>4 DEF PackStates
  <2> QED BY <2>3, <2>4
<1>8. /\ stream' \in Seq(Cells)
      /\ \A i \in 1 .. Len(stream') : stream'[i] = End => i = Len(stream') /\ pk'.pc = "packed"
  BY <1>1, <1>4, <1>5, AppendCells DEF CoreInv
<1>9. PackOK'
  BY <1>7, <1>8 DEF PackOK
<1>10. EncoderOK'
  <2>1. ahead \in Nat
    BY ArchiveStreamAssumption DEF CoreInv, EncoderOK
  <2> QED BY <1>1, <1>6, <2>1, EncodeStep DEF CoreInv
<1> QED BY <1>9, <1>10

LEMMA VisitStep ==
  ASSUME CoreInv, Visit
  PROVE  PackOK' /\ EncoderOK'
<1> DEFINE d == Head(pk.agenda).path
           s == Listing(d, {"dir"})
           cells == Records("dir", s)
<1>1. /\ pk.pc = "walk" /\ pk.agenda # <<>> /\ stream' = stream \o cells /\ Encode(Len(cells), 0)
      /\ pk' = [pk EXCEPT !.agenda = Agenda(d, Tail(pk.agenda))]
  BY DEF Visit, Packing
<1>2. Head(pk.agenda) \in Headers /\ Tail(pk.agenda) \in Seq(Headers)
  BY <1>1 DEF CoreInv, PackOK, PackStates
<1>3. d \in Paths
  BY <1>2 DEF Headers
<1> HIDE DEF d
<1>4. Agenda(d, Tail(pk.agenda)) \in Seq(Headers)
  BY <1>2, <1>3, AgendaIs DEF CoreInv, SourcesOK
<1>5. s \in Seq(Paths)
  BY <1>3, ListingIs DEF CoreInv, SourcesOK
<1> HIDE DEF s
<1>6. cells \in Seq(Headers)
  BY <1>5, RecordsAre
<1> HIDE DEF cells
<1>7. cells \in Seq(Cells) /\ Len(cells) \in Nat
  BY <1>6, CellsAre, SeqMonotonic, LenProperties
<1>8. \A i \in 1 .. Len(cells) : cells[i] # End
  BY <1>6, CellsAre, ElementOfSeq
<1>9. pk' \in PackStates /\ pk'.pc = "walk"
  BY <1>1, <1>4 DEF CoreInv, PackOK, PackStates
<1>10. /\ stream' \in Seq(Cells)
       /\ \A i \in 1 .. Len(stream') : stream'[i] = End => i = Len(stream') /\ pk'.pc = "packed"
  BY <1>1, <1>7, <1>8, AppendCells DEF CoreInv
<1>11. PackOK'
  BY <1>9, <1>10 DEF PackOK
<1>12. EncoderOK'
  <2>1. ahead \in Nat
    BY ArchiveStreamAssumption DEF CoreInv, EncoderOK
  <2> QED BY <1>1, <1>7, <2>1, EncodeStep DEF CoreInv
<1> QED BY <1>11, <1>12

\* A step that appends one cell.
LEMMA OneCell ==
  ASSUME CoreInv, pk.pc # "packed", NEW c \in Cells, stream' = stream \o <<c>>,
         c = End => pk'.pc = "packed",
         pk' \in PackStates, pk'.pc # "start", UNCHANGED tree,
         pk'.pc = "read" => IsA(tree, pk'.cur, {"file"}),
         NEW units \in Nat, NEW readTo \in Nat, readTo <= ahead, Encode(units, readTo)
  PROVE  PackOK' /\ EncoderOK'
<1>1. <<c>> \in Seq(Cells) /\ Len(<<c>>) = 1 /\ <<c>>[1] = c
  <2> HIDE DEF Cells
  <2> QED OBVIOUS
<1>2. /\ stream' \in Seq(Cells)
      /\ \A i \in 1 .. Len(stream') : stream'[i] = End => i = Len(stream') /\ pk'.pc = "packed"
  <2> DEFINE cells == <<c>>
  <2>1. cells \in Seq(Cells) /\ stream' = stream \o cells
        /\ \A i \in 1 .. Len(cells) : cells[i] = End => i = Len(cells) /\ pk'.pc = "packed"
    BY <1>1
  <2> HIDE DEF cells
  <2> QED BY <2>1, AppendCells DEF CoreInv
<1>3. IsA(tree, pk'.cur, {"file"}) => IsA(tree, pk.cur, {"file"})'
  BY DEF IsA
<1>4. PackOK'
  BY <1>2, <1>3 DEF PackOK
<1>5. EncoderOK'
  BY EncodeStep DEF CoreInv
<1> QED BY <1>4, <1>5

LEMMA OpenFileStep ==
  ASSUME CoreInv, OpenFile
  PROVE  PackOK' /\ EncoderOK'
<1> DEFINE c == Head(pk.agenda)
           new == [pc |-> CASE IsA(tree, c.path, {"file"}) -> "read"
                            [] IsA(tree, c.path, {"pipe"}) -> "blocked"
                            [] OTHER -> "failed",
                   agenda |-> Tail(pk.agenda), cur |-> c.path, pos |-> 0]
<1>1. /\ pk.pc = "walk" /\ pk.agenda # <<>> /\ stream' = stream \o <<c>> /\ Encode(1, 0)
      /\ pk' = new /\ UNCHANGED tree
  BY DEF OpenFile, Packing, sources
<1>2. c \in Headers /\ Tail(pk.agenda) \in Seq(Headers)
  BY <1>1 DEF CoreInv, PackOK, PackStates
<1>3. c.path \in Seq(Nat)
  BY <1>2 DEF Headers, Paths
<1> HIDE DEF c
<1>4. IsA(tree, c.path, {"pipe"}) => ~IsA(tree, c.path, {"file"})
  BY DEF IsA
<1>5. new \in PackStates /\ new.pc \in {"read", "blocked", "failed"} /\ new.cur = c.path
      /\ (new.pc = "read" => IsA(tree, c.path, {"file"}))
  BY <1>2, <1>3, <1>4 DEF PackStates
<1> HIDE DEF new
<1>6. ahead \in Nat
  BY ArchiveStreamAssumption DEF CoreInv, EncoderOK
<1>7. c \in Cells /\ c # End
  BY <1>2, CellsAre
<1>8. pk.pc # "packed" /\ pk'.pc # "start" /\ pk' \in PackStates
      /\ (pk'.pc = "read" => IsA(tree, pk'.cur, {"file"})) /\ 0 <= ahead
  BY <1>1, <1>5, <1>6
<1> QED BY <1>1, <1>7, <1>8, OneCell

LEMMA ReadBlockStep ==
  ASSUME CoreInv, ReadBlock
  PROVE  PackOK' /\ EncoderOK'
<1> DEFINE b == NextBlock
           readTo == IF pk.cur = out THEN Len(b) ELSE 0
<1>1. /\ pk.pc = "read" /\ UNCHANGED tree /\ Encode(1 + Len(b), readTo)
      /\ pk' = IF pk.cur = out THEN pk ELSE [pk EXCEPT !.pos = @ + Len(b)]
      /\ \/ stream' = stream \o <<>>
         \/ stream' = stream \o <<Run(b)>>
  BY DEF ReadBlock, Packing, sources
<1>2. b \in Seq(Nat) /\ (pk.cur = out => Len(b) <= ahead)
  BY <1>1, NextBlockIs
<1> HIDE DEF b
<1>3. Len(b) \in Nat
  BY <1>2, LenProperties
<1>4. ahead \in Nat
  BY ArchiveStreamAssumption DEF CoreInv, EncoderOK
<1>5. readTo \in Nat /\ readTo <= ahead /\ 1 + Len(b) \in Nat
  BY <1>2, <1>3, <1>4
<1>6. pk' \in PackStates /\ pk'.pc = "read" /\ pk'.cur = pk.cur
  <2>1. pk \in PackStates
    BY DEF CoreInv, PackOK
  <2>2. CASE pk.cur = out
    BY <1>1, <2>1, <2>2
  <2>3. CASE pk.cur # out
    <3>1. pk' = [pk EXCEPT !.pos = pk.pos + Len(b)]
      BY <1>1, <2>3
    <3>2. pk.pos + Len(b) \in Nat
      BY <1>3, <2>1 DEF PackStates
    <3> QED BY <1>1, <2>1, <3>1, <3>2 DEF PackStates
  <2> QED BY <2>2, <2>3
<1>7. IsA(tree, pk'.cur, {"file"})
  BY <1>1, <1>6 DEF CoreInv, PackOK
<1> HIDE DEF readTo
<1>8. CASE stream' = stream \o <<Run(b)>>
  <2>1. Run(b) \in Cells /\ Run(b) # End
    BY <1>2, CellsAre
  <2> QED BY <1>1, <1>5, <1>6, <1>7, <1>8, <2>1, OneCell
<1>9. CASE stream' = stream \o <<>>
  <2>1. stream' = stream
    <3> HIDE DEF Cells
    <3> QED BY <1>9, ConcatEmptySeq DEF CoreInv, PackOK
  <2>2. EncoderOK'
    BY <1>1, <1>5, EncodeStep DEF CoreInv
  <2>3. IsA(tree, pk.cur, {"file"})'
    BY <1>1, <1>7 DEF IsA
  <2>4. PackOK'
    BY <1>1, <1>6, <2>1, <2>3 DEF CoreInv, PackOK
  <2> QED BY <2>2, <2>4
<1> QED BY <1>1, <1>8, <1>9

LEMMA ReadEndsStep ==
  ASSUME CoreInv, ReadEnds
  PROVE  PackOK' /\ EncoderOK'
<1>1. /\ pk.pc = "read" /\ UNCHANGED tree /\ Encode(1, 0) /\ stream' = stream \o <<Stop>>
      /\ pk' = [pk EXCEPT !.pc = "walk", !.cur = <<>>]
  BY DEF ReadEnds, Packing, sources
<1>2. pk' \in PackStates /\ pk'.pc = "walk"
  <2>1. pk \in PackStates /\ <<>> \in Seq(Nat)
    BY EmptySeq DEF CoreInv, PackOK
  <2> QED BY <1>1, <2>1 DEF PackStates
<1>3. ahead \in Nat /\ 0 <= ahead
  BY ArchiveStreamAssumption DEF CoreInv, EncoderOK
<1>4. Stop \in Cells /\ Stop # End
  BY CellsAre
<1> QED BY <1>1, <1>2, <1>3, <1>4, OneCell

LEMMA PackEndStep ==
  ASSUME CoreInv, PackEnd
  PROVE  PackOK' /\ EncoderOK'
<1>1. /\ pk.pc = "walk" /\ UNCHANGED tree /\ Encode(1, 0) /\ stream' = stream \o <<End>>
      /\ pk' = [pk EXCEPT !.pc = "packed"]
  BY DEF PackEnd, Packing, sources
<1>2. pk' \in PackStates /\ pk'.pc = "packed"
  BY <1>1 DEF CoreInv, PackOK, PackStates
<1>3. ahead \in Nat /\ 0 <= ahead
  BY ArchiveStreamAssumption DEF CoreInv, EncoderOK
<1>4. End \in Cells
  BY CellsAre
<1> QED BY <1>1, <1>2, <1>3, <1>4, OneCell

LEMMA PackFailsStep ==
  ASSUME CoreInv, PackFails
  PROVE  PackOK' /\ EncoderOK' /\ stream' = stream
<1>1. /\ pk.pc \in {"walk", "read"} /\ UNCHANGED encoder /\ stream' = stream \o <<>>
      /\ pk' = [pk EXCEPT !.pc = "failed"]
  BY DEF PackFails, Packing
<1>2. stream' = stream
  <2> HIDE DEF Cells
  <2> QED BY <1>1, ConcatEmptySeq DEF CoreInv, PackOK
<1>3. pk' \in PackStates /\ pk'.pc = "failed"
  BY <1>1 DEF CoreInv, PackOK, PackStates
<1>4. PackOK'
  BY <1>1, <1>2, <1>3 DEF CoreInv, PackOK
<1>5. EncoderOK'
  BY <1>1 DEF CoreInv, EncoderOK, encoder
<1> QED BY <1>2, <1>4, <1>5

\* While the packer can move, the unpacker has not started.
LEMMA PackingLeavesUnpacker ==
  ASSUME CoreInv, Spared, PackOK', pk.pc \notin {"packed", "failed"}, UNCHANGED un
  PROVE  UnpackerOK' /\ Spared'
<1>1. un.pc = "idle" /\ un.good = 0
  BY DEF CoreInv, UnpackerOK
<1>2. Len(stream') \in Nat
  <2> HIDE DEF Cells
  <2> QED BY LenProperties DEF PackOK
<1>3. UnpackerOK'
  BY <1>1, <1>2 DEF CoreInv, UnpackerOK
<1>4. Spared'
  BY DEF Spared, NeverReplaced
<1> QED BY <1>3, <1>4

\* What the source loses or gains is not what the packer has open.
LEMMA OthersStep ==
  ASSUME CoreInv, NEW path \in DOMAIN tree, Vanish(path) \/ Extend(path)
  PROVE  PackOK' /\ EncoderOK' /\ pk.pc \notin {"packed", "failed"} /\ UNCHANGED un
<1>1. UNCHANGED <<pk, encoder, stream, un>> /\ pk.pc \in {"start", "walk", "read"}
  BY DEF Vanish, Extend, Disturb
<1>2. IsA(tree, pk.cur, {"file"}) => IsA(tree, pk.cur, {"file"})'
  <2>1. CASE Vanish(path)
    <3>1. /\ tree' = [p \in DOMAIN tree \ Below(tree, path) |-> tree[p]]
          /\ ~IsPrefix(path, pk.cur)
      BY <2>1 DEF Vanish, Disturb
    <3> QED BY <1>1, <3>1 DEF IsA, Below
  <2>2. CASE Extend(path)
    <3>1. /\ tree' = [tree EXCEPT ![path].data = Append(@, 0)] /\ tree[path].kind = "file"
      BY <2>2 DEF Extend, Disturb
    <3>2. DOMAIN tree' = DOMAIN tree /\ \A p \in DOMAIN tree : tree'[p].kind = tree[p].kind
      BY <3>1, ExtendLeavesTree DEF CoreInv, SourcesOK
    <3> QED BY <1>1, <3>2 DEF IsA
  <2> QED BY <2>1, <2>2
<1>3. PackOK'
  BY <1>1, <1>2 DEF CoreInv, PackOK
<1>4. EncoderOK'
  BY <1>1 DEF CoreInv, EncoderOK, encoder
<1> QED BY <1>1, <1>3, <1>4

-----------------------------------------------------------------------------
(* The steps of the unpacker. *)

LEMMA UnpackBeginStep ==
  ASSUME CoreInv, NEW good \in 0 .. Len(stream), NEW overwrite \in BOOLEAN, NEW target,
         UnpackBegin(good, overwrite, target)
  PROVE  UnpackerOK' /\ Spared'
<1>1. /\ pk.pc \in {"packed", "failed"} /\ un.pc = "idle"
      /\ un' = [un EXCEPT !.pc = "records", !.good = good, !.overwrite = overwrite,
                          !.before = target, !.dest = target]
      /\ UNCHANGED <<pk, stream>>
  BY DEF UnpackBegin
<1>2. Len(stream) \in Nat
  <2> HIDE DEF Cells
  <2> QED BY LenProperties DEF CoreInv, PackOK
<1>3. un' = [pc |-> "records", pos |-> 0, good |-> good, overwrite |-> overwrite,
             cur |-> un.cur, before |-> target, dest |-> target]
  BY <1>1 DEF CoreInv, UnpackerOK
<1>4. good \in Nat /\ good <= Len(stream)
  BY <1>2
<1>5. UnpackerOK'
  <2>1. pk' = pk /\ stream' = stream /\ pk.pc \in {"packed", "failed"}
    BY <1>1
  <2> QED BY <1>3, <1>4, <2>1 DEF UnpackerOK
<1>6. Spared'
  BY <1>3 DEF Spared, NeverReplaced
<1> QED BY <1>5, <1>6

\* An extraction that stops has done nothing more.
LEMMA StopsStep ==
  ASSUME CoreInv, Spared, un.pc \in {"records", "content"},
         un' = [un EXCEPT !.pc = "failed"], UNCHANGED <<pk, stream>>
  PROVE  UnpackerOK' /\ Spared'
<1>1. un' = [pc |-> "failed", pos |-> un.pos, good |-> un.good, overwrite |-> un.overwrite,
             cur |-> un.cur, before |-> un.before, dest |-> un.dest]
  BY DEF CoreInv, UnpackerOK
<1>2. UnpackerOK'
  BY <1>1 DEF CoreInv, UnpackerOK
<1>3. Spared'
  BY <1>1 DEF Spared, NeverReplaced
<1> QED BY <1>2, <1>3

\* One cell is taken, and leaves this behind.
Took(pc, cur, dest) ==
  [pc |-> pc, pos |-> un.pos + 1, good |-> un.good, overwrite |-> un.overwrite,
   cur |-> cur, before |-> un.before, dest |-> dest]

LEMMA TakesStep ==
  ASSUME CoreInv, un.pc \in {"records", "content"}, un.pos < un.good,
         NEW pc \in {"records", "content", "ok"}, NEW cur, NEW dest,
         un' = Took(pc, cur, dest),
         UNCHANGED <<pk, stream>>,
         pc = "content" => cur \in DOMAIN dest /\ dest[cur] = File(dest[cur].data),
         pc = "ok" => pk.pc = "packed" /\ un.good = Len(stream),
         ~un.overwrite =>
           /\ \A p \in DOMAIN un.before : p \in DOMAIN dest /\ dest[p] = un.before[p]
           /\ pc = "content" => cur \notin DOMAIN un.before
  PROVE  UnpackerOK' /\ Spared'
<1>1. un.pos \in Nat /\ un.good \in Nat /\ un.good <= Len(stream) /\ pk.pc \in {"packed", "failed"}
  BY DEF CoreInv, UnpackerOK
<1>2. UnpackerOK'
  BY <1>1 DEF UnpackerOK, Took
<1>3. Spared'
  BY DEF Spared, NeverReplaced, Took
<1> QED BY <1>2, <1>3

LEMMA CellIs ==
  ASSUME CoreInv, un.pos < un.good
  PROVE  /\ un.pos + 1 \in 1 .. Len(stream) /\ Cell \in Cells /\ Cell = stream[un.pos + 1]
         /\ Cell.kind \in {"dir", "file"} => Cell \in Headers /\ Cell.path \in Paths
         /\ Cell.kind = "run" => Cell = Run(Cell.data) /\ Cell.data \in Seq(Nat)
         /\ Cell.kind = "stop" => Cell = Stop
         /\ Cell.kind = "end" => Cell = End
<1>1. stream \in Seq(Cells) /\ un.pos \in Nat /\ un.good \in Nat /\ un.good <= Len(stream)
  BY DEF CoreInv, PackOK, UnpackerOK
<1>2. un.pos + 1 \in 1 .. Len(stream)
  <2> HIDE DEF Cells
  <2> QED BY <1>1, LenProperties
<1>3. Cell \in Cells /\ Cell = stream[un.pos + 1]
  <2> HIDE DEF Cells
  <2> QED BY <1>1, <1>2, ElementOfSeq DEF Cell
<1> QED BY <1>2, <1>3 DEF Cells, Headers, Runs, Run, Stop, End

LEMMA UnpackDirStep ==
  ASSUME CoreInv, Spared, UnpackDir
  PROVE  UnpackerOK' /\ Spared'
<1> DEFINE dirs == Parents(Cell.path) \cup {Cell.path}
           raises == Unsafe(Cell.path) \/ Blocked(dirs)
           dest == WithDirs(dirs)
<1>1. /\ un.pc = "records" /\ un.pos < un.good /\ UNCHANGED <<pk, stream>>
      /\ un' = IF raises THEN [un EXCEPT !.pc = "failed"]
               ELSE [[un EXCEPT !.dest = dest] EXCEPT !.pos = @ + 1]
  BY DEF UnpackDir, Unpacking
<1>2. DOMAIN un.dest \subseteq DOMAIN dest /\ \A p \in DOMAIN un.dest : dest[p] = un.dest[p]
  BY DEF WithDirs
<1> HIDE DEF raises, dest
<1>3. CASE raises
  BY <1>1, <1>3, StopsStep
<1>4. CASE ~raises
  <2>1. un' = Took("records", un.cur, dest)
    BY <1>1, <1>4 DEF CoreInv, UnpackerOK, Took
  <2>2. ~un.overwrite =>
          \A p \in DOMAIN un.before : p \in DOMAIN dest /\ dest[p] = un.before[p]
    BY <1>2 DEF Spared, NeverReplaced
  <2> QED BY <1>1, <2>1, <2>2, TakesStep
<1> QED BY <1>3, <1>4

LEMMA UnpackFileStep ==
  ASSUME CoreInv, Spared, UnpackFile
  PROVE  UnpackerOK' /\ Spared'
<1> DEFINE path == Cell.path
           raises == Unsafe(path) \/ Blocked(Parents(path)) \/ InTheWay(path)
           dest == With(WithDirs(Parents(path)), path, File(<<>>))
<1>1. /\ un.pc = "records" /\ un.pos < un.good /\ UNCHANGED <<pk, stream>>
      /\ un' = IF raises THEN [un EXCEPT !.pc = "failed"]
               ELSE [[un EXCEPT !.pc = "content", !.cur = path, !.dest = dest] EXCEPT !.pos = @ + 1]
  BY DEF UnpackFile, Unpacking
<1>2. /\ path \in DOMAIN dest /\ dest[path] = File(<<>>)
      /\ DOMAIN un.dest \subseteq DOMAIN dest
      /\ \A p \in DOMAIN un.dest : p # path => dest[p] = un.dest[p]
  BY DEF WithDirs, With
<1>3. ~raises /\ ~un.overwrite => path \notin DOMAIN un.dest
  BY DEF InTheWay
<1> HIDE DEF raises, dest, path
<1>4. CASE raises
  BY <1>1, <1>4, StopsStep
<1>5. CASE ~raises
  <2>1. un' = Took("content", path, dest)
    BY <1>1, <1>5 DEF CoreInv, UnpackerOK, Took
  <2>2. ~un.overwrite =>
          /\ \A p \in DOMAIN un.before : p \in DOMAIN dest /\ dest[p] = un.before[p]
          /\ path \notin DOMAIN un.before
    BY <1>2, <1>3, <1>5 DEF Spared, NeverReplaced
  <2>3. dest[path] = File(dest[path].data)
    BY <1>2 DEF File
  <2> QED BY <1>1, <1>2, <2>1, <2>2, <2>3, TakesStep
<1> QED BY <1>4, <1>5

LEMMA UnpackRunStep ==
  ASSUME CoreInv, Spared, UnpackRun
  PROVE  UnpackerOK' /\ Spared'
<1> DEFINE data == Cell.data
           dest == [un.dest EXCEPT ![un.cur].data = @ \o data]
<1>1. /\ un.pc = "content" /\ un.pos < un.good /\ UNCHANGED <<pk, stream>>
      /\ un' = [[un EXCEPT !.dest = dest] EXCEPT !.pos = @ + 1]
  BY DEF UnpackRun, Unpacking
<1>2. un.cur \in DOMAIN un.dest /\ un.dest[un.cur] = File(un.dest[un.cur].data)
  BY <1>1 DEF CoreInv, UnpackerOK
<1>3. /\ DOMAIN dest = DOMAIN un.dest /\ dest[un.cur] = File(dest[un.cur].data)
      /\ \A p \in DOMAIN un.dest : p # un.cur => dest[p] = un.dest[p]
  <2> DEFINE old == un.dest[un.cur].data
  <2>1. dest[un.cur] = [un.dest[un.cur] EXCEPT !.data = old \o data]
    BY <1>2
  <2>2. un.dest[un.cur] = File(old)
    BY <1>2
  <2> HIDE DEF old
  <2>3. dest[un.cur] = File(old \o data)
    <3>1. dest[un.cur] = [File(old) EXCEPT !.data = old \o data]
      BY <2>1, <2>2, Zenon
    <3> HIDE DEF dest
    <3> QED BY <3>1 DEF File
  <2>4. dest[un.cur] = File(dest[un.cur].data)
    <3> HIDE DEF dest
    <3> QED BY <2>3 DEF File
  <2> QED BY <1>2, <2>4
<1> HIDE DEF dest, data
<1>4. un' = Took("content", un.cur, dest)
  BY <1>1 DEF CoreInv, UnpackerOK, Took
<1>5. ~un.overwrite =>
        /\ \A p \in DOMAIN un.before : p \in DOMAIN dest /\ dest[p] = un.before[p]
        /\ un.cur \notin DOMAIN un.before
  BY <1>1, <1>3 DEF Spared, NeverReplaced
<1>6. un.pc \in {"records", "content"}
  BY <1>1
<1> QED BY <1>1, <1>2, <1>3, <1>4, <1>5, <1>6, TakesStep

LEMMA UnpackStopStep ==
  ASSUME CoreInv, Spared, UnpackStop
  PROVE  UnpackerOK' /\ Spared'
<1>1. /\ un.pc = "content" /\ un.pos < un.good /\ UNCHANGED <<pk, stream>>
      /\ un' = [[un EXCEPT !.pc = "records", !.cur = <<>>] EXCEPT !.pos = @ + 1]
  BY DEF UnpackStop, Unpacking
<1>2. un' = Took("records", <<>>, un.dest)
  BY <1>1 DEF CoreInv, UnpackerOK, Took
<1>3. ~un.overwrite =>
        \A p \in DOMAIN un.before : p \in DOMAIN un.dest /\ un.dest[p] = un.before[p]
  BY DEF Spared, NeverReplaced
<1>4. un.pc \in {"records", "content"}
  BY <1>1
<1> QED BY <1>1, <1>2, <1>3, <1>4, TakesStep

LEMMA UnpackEndStep ==
  ASSUME CoreInv, Spared, UnpackEnd
  PROVE  UnpackerOK' /\ Spared' /\ un.good = Len(stream) /\ un.pos + 1 = Len(stream)
         /\ pk.pc = "packed"
<1>1. /\ un.pc = "records" /\ un.pos < un.good /\ UNCHANGED <<pk, stream>> /\ Cell.kind = "end"
      /\ un' = [[un EXCEPT !.pc = "ok"] EXCEPT !.pos = @ + 1]
  BY DEF UnpackEnd, Unpacking
<1>2. un' = Took("ok", un.cur, un.dest)
  BY <1>1 DEF CoreInv, UnpackerOK, Took
<1>3. un.pos + 1 \in 1 .. Len(stream) /\ stream[un.pos + 1] = End
  BY <1>1, CellIs
<1>4. un.pos + 1 = Len(stream) /\ pk.pc = "packed"
  BY <1>3 DEF CoreInv, PackOK
<1>5. un.good = Len(stream)
  BY <1>1, <1>4 DEF CoreInv, UnpackerOK
<1>6. ~un.overwrite =>
        \A p \in DOMAIN un.before : p \in DOMAIN un.dest /\ un.dest[p] = un.before[p]
  BY DEF Spared, NeverReplaced
<1>7. UnpackerOK' /\ Spared'
  BY <1>1, <1>2, <1>4, <1>5, <1>6, TakesStep
<1> QED BY <1>4, <1>5, <1>7

LEMMA UnpackShortStep ==
  ASSUME CoreInv, Spared, UnpackShort
  PROVE  UnpackerOK' /\ Spared'
BY StopsStep DEF UnpackShort, ShortOutcome

LEMMA UnpackStep ==
  ASSUME CoreInv, Spared, Unpack
  PROVE  UnpackerOK' /\ Spared'
BY UnpackDirStep, UnpackFileStep, UnpackRunStep, UnpackStopStep, UnpackEndStep, UnpackShortStep
   DEF Unpack

LEMMA CoreStep ==
  ASSUME CoreInv, Spared, [Next]_vars
  PROVE  CoreInv' /\ Spared'
<1>1. SourcesOK'
  BY SourcesStep DEF CoreInv
<1>2. CASE Pack
  <2>1. pk.pc \notin {"packed", "failed"} /\ UNCHANGED un
    BY <1>2 DEF Pack, Packing, PackBegin, Visit, OpenFile, ReadBlock, ReadEnds, PackEnd
  <2>2. PackOK' /\ EncoderOK'
    BY <1>2, PackBeginStep, VisitStep, OpenFileStep, ReadBlockStep, ReadEndsStep, PackEndStep
       DEF Pack
  <2> QED BY <1>1, <2>1, <2>2, PackingLeavesUnpacker DEF CoreInv
<1>3. CASE PackFails
  <2>1. pk.pc \notin {"packed", "failed"} /\ UNCHANGED un
    BY <1>3 DEF PackFails, Packing
  <2> QED BY <1>1, <1>3, <2>1, PackFailsStep, PackingLeavesUnpacker DEF CoreInv
<1>4. CASE \E path \in DOMAIN tree : Vanish(path) \/ Extend(path)
  BY <1>1, <1>4, OthersStep, PackingLeavesUnpacker DEF CoreInv
<1>5. CASE \E good \in 0 .. Len(stream), overwrite \in BOOLEAN, target \in Targets :
             UnpackBegin(good, overwrite, target)
  <2>1. UnpackerOK' /\ Spared'
    BY <1>5, UnpackBeginStep
  <2>2. UNCHANGED <<sources, pk, encoder, stream>>
    BY <1>5 DEF UnpackBegin
  <2>3. PackOK' /\ EncoderOK'
    BY <2>2 DEF CoreInv, PackOK, EncoderOK, IsA, sources, encoder
  <2> QED BY <1>1, <2>1, <2>3 DEF CoreInv
<1>6. CASE Unpack
  <2>1. UnpackerOK' /\ Spared'
    BY <1>6, UnpackStep
  <2>2. UNCHANGED <<sources, pk, encoder, stream>>
    BY <1>6 DEF Unpack, UnpackDir, UnpackFile, UnpackRun, UnpackStop, UnpackEnd, UnpackShort, Unpacking
  <2>3. PackOK' /\ EncoderOK'
    BY <2>2 DEF CoreInv, PackOK, EncoderOK, IsA, sources, encoder
  <2> QED BY <1>1, <2>1, <2>3 DEF CoreInv
<1>7. CASE UNCHANGED vars
  <2>1. UNCHANGED <<sources, pk, encoder, stream, un>>
    BY <1>7 DEF vars
  <2>2. PackOK' /\ EncoderOK' /\ UnpackerOK' /\ Spared'
    BY <2>1 DEF CoreInv, PackOK, EncoderOK, UnpackerOK, Spared, NeverReplaced, IsA, sources, encoder
  <2> QED BY <1>1, <2>2 DEF CoreInv
<1> QED BY <1>2, <1>3, <1>4, <1>5, <1>6, <1>7 DEF Next

\* TypeOK: packer and unpacker are at places of the code and within what there
\* is to read, the encoder holds back at most a chunk, and the file that the
\* unpacker writes is there.
THEOREM TypeCorrect == Spec => []TypeOK
<1>1. CoreInv => TypeOK
  <2>1. CoreInv => (un.pc = "content" => IsA(un.dest, un.cur, {"file"}))
    BY DEF CoreInv, UnpackerOK, IsA, File
  <2>2. CoreInv => Len(stream) \in Nat
    <3> HIDE DEF Cells
    <3> QED BY LenProperties DEF CoreInv, PackOK
  <2> QED BY <2>1, <2>2 DEF CoreInv, PackOK, PackStates, EncoderOK, UnpackerOK, TypeOK
<1> QED BY <1>1, CoreInit, CoreStep, PTL DEF Spec

\* OkMeansPacked: an extraction succeeds only on an archive packed to its end,
\* of which the whole stream was released (archive.py 115, service.py 116-118).
THEOREM OnlyWholeArchivesExtract == Spec => []OkMeansPacked
<1>1. CoreInv => OkMeansPacked
  BY DEF CoreInv, UnpackerOK, OkMeansPacked
<1> QED BY <1>1, CoreInit, CoreStep, PTL DEF Spec

\* NeverReplaced: without overwrite what was in the destination stays as it was
\* at every moment of an extraction, whatever the stream holds (archive.py 56-58).
THEOREM NothingReplaced == Spec => []NeverReplaced
<1>1. Spared => NeverReplaced
  BY DEF Spared, NeverReplaced
<1> QED BY <1>1, CoreInit, CoreStep, PTL DEF Spec

-----------------------------------------------------------------------------
(* The walk.  Each path gets one record at most, and every entry of the     *)
(* source that nobody changed has its record or is still before the walk.   *)

\* The walk can come to p.
Reachable(p) ==
  p \in DOMAIN source /\ \A q \in Parents(p) : source[q].kind = "dir" /\ source[q].listable

\* A record, or an item of the agenda, that the walk over the source can give.
IsItem(a) ==
  /\ Reachable(a.path)
  /\ a.kind = "dir" =>
       source[a.path].kind = "dir" \/ (a.path = Root /\ source[a.path].kind = "pipe")
  /\ a.kind = "file" => source[a.path].kind \in {"file", "pipe"}

IsHeader(c) == c.kind \in {"dir", "file"}
Walks == {"walk", "read", "packed"}

ItemsOK ==
  /\ \A i \in 1 .. Len(pk.agenda) : IsItem(pk.agenda[i])
  /\ \A i \in 1 .. Len(stream) : IsHeader(stream[i]) => IsItem(stream[i])

\* A pipe in a directory ends the walk.
NoPipes ==
  pk.pc \in Walks =>
    \A i \in 1 .. Len(stream) :
      stream[i].kind = "file" => source[stream[i].path].kind = "file"

\* Nothing on the agenda lies in or at something else on it.
AntiChain ==
  \A i, j \in 1 .. Len(pk.agenda) :
    i # j => ~IsPrefix(pk.agenda[i].path, pk.agenda[j].path)

OneRecordEach ==
  \A i, j \in 1 .. Len(stream) :
    IsHeader(stream[i]) /\ IsHeader(stream[j]) /\ stream[i].path = stream[j].path => i = j

\* Nothing recorded lies in what is on the agenda, or is it, but for
\* directories: they are recorded before they are listed.
Fresh ==
  \A i \in 1 .. Len(stream), j \in 1 .. Len(pk.agenda) :
    IsHeader(stream[i]) =>
      /\ pk.agenda[j].path \notin Parents(stream[i].path)
      /\ pk.agenda[j].path = stream[i].path => pk.agenda[j].kind = "dir" /\ stream[i].kind = "dir"

Ahead(p) ==
  \E j \in 1 .. Len(pk.agenda) :
    \/ pk.agenda[j].kind = "file" /\ pk.agenda[j].path = p
    \/ pk.agenda[j].kind = "dir" /\ pk.agenda[j].path \in Parents(p)

Covered ==
  pk.pc \in Walks /\ IsA(source, Root, {"dir", "file"}) =>
    \A p \in Archived \ Changed :
      (\E i \in 1 .. Len(stream) : stream[i] = Record(source[p].kind, p)) \/ Ahead(p)

WalkOK == ItemsOK /\ NoPipes /\ AntiChain /\ OneRecordEach /\ Fresh /\ Covered

LEMMA Lens ==
  ASSUME CoreInv
  PROVE  /\ Len(stream) \in Nat /\ Len(pk.agenda) \in Nat
         /\ pk.agenda \in Seq(Headers) /\ stream \in Seq(Cells)
         /\ \A i \in 1 .. Len(stream) : stream[i] \in Cells
         /\ \A i \in 1 .. Len(pk.agenda) : pk.agenda[i] \in Headers
<1>1. pk.agenda \in Seq(Headers) /\ stream \in Seq(Cells)
  BY DEF CoreInv, PackOK, PackStates
<1> HIDE DEF Headers, Cells
<1> QED BY <1>1, LenProperties, ElementOfSeq

LEMMA HeaderCells ==
  /\ \A c \in Cells : IsHeader(c) => c \in Headers /\ c.path \in Paths /\ c = Record(c.kind, c.path)
  /\ \A c \in Headers : IsHeader(c) /\ c.path \in Paths /\ c = Record(c.kind, c.path)
  /\ \A d : ~IsHeader(Run(d))
  /\ ~IsHeader(Stop) /\ ~IsHeader(End)
BY DEF Cells, Headers, Runs, IsHeader, Run, Stop, End, Record

\* Once changed, changed.
LEMMA ChangedGrows ==
  ASSUME CoreInv, [Next]_vars
  PROVE  source' = source /\ out' = out /\ Changed \subseteq Changed'
<1>1. ASSUME UNCHANGED sources PROVE source' = source /\ out' = out /\ Changed \subseteq Changed'
  BY <1>1 DEF sources, Changed
<1>2. ASSUME NEW path \in DOMAIN tree, Vanish(path)
      PROVE  source' = source /\ out' = out /\ Changed \subseteq Changed'
  <2>1. /\ tree' = [p \in DOMAIN tree \ Below(tree, path) |-> tree[p]]
        /\ source' = source /\ out' = out
    BY <1>2 DEF Vanish, Disturb
  <2> QED BY <2>1 DEF Changed
<1>3. ASSUME NEW path \in DOMAIN tree, Extend(path)
      PROVE  source' = source /\ out' = out /\ Changed \subseteq Changed'
  <2>1. /\ tree' = [tree EXCEPT ![path].data = Append(@, 0)] /\ path \notin Changed
        /\ source' = source /\ out' = out
    BY <1>3 DEF Extend, Disturb
  <2>2. DOMAIN tree' = DOMAIN tree /\ \A p \in DOMAIN tree : p # path => tree'[p] = tree[p]
    BY <2>1
  <2> QED BY <2>1, <2>2 DEF Changed
<1>4. Pack \/ PackFails => UNCHANGED sources
  BY DEF Pack, PackFails, Packing, PackBegin, Visit, OpenFile, ReadBlock, ReadEnds, PackEnd
<1>5. Unpack => UNCHANGED sources
  BY DEF Unpack, UnpackDir, UnpackFile, UnpackRun, UnpackStop, UnpackEnd, UnpackShort, Unpacking
<1>6. \A good, overwrite, target : UnpackBegin(good, overwrite, target) => UNCHANGED sources
  BY DEF UnpackBegin
<1>7. UNCHANGED vars => UNCHANGED sources
  BY DEF vars
<1> QED BY <1>1, <1>2, <1>3, <1>4, <1>5, <1>6, <1>7 DEF Next

\* A step that records nothing and leaves the agenda.
LEMMA WalkKept ==
  ASSUME CoreInv, CoreInv', WalkOK, source' = source, Changed \subseteq Changed',
         pk'.agenda = pk.agenda, pk'.pc \in Walks => pk.pc \in Walks,
         Len(stream) <= Len(stream'),
         \A i \in 1 .. Len(stream) : stream'[i] = stream[i],
         \A i \in 1 .. Len(stream') : IsHeader(stream'[i]) => i \in 1 .. Len(stream)
  PROVE  WalkOK'
<1>1. Len(stream) \in Nat /\ Len(stream') \in Nat /\ Len(pk.agenda) \in Nat
  BY Lens DEF CoreInv, PackOK
<1>2. ItemsOK'
  BY DEF WalkOK, ItemsOK, IsItem, Reachable
<1>3. NoPipes'
  <2>1. \A i \in 1 .. Len(stream') : stream'[i].kind = "file" => i \in 1 .. Len(stream)
    BY DEF IsHeader
  <2> QED BY <2>1 DEF WalkOK, NoPipes
<1>4. AntiChain'
  BY DEF WalkOK, AntiChain
<1>5. OneRecordEach'
  BY DEF WalkOK, OneRecordEach
<1>6. Fresh'
  BY DEF WalkOK, Fresh
<1>7. Covered'
  <2> SUFFICES ASSUME pk'.pc \in Walks, IsA(source, Root, {"dir", "file"}),
                      NEW p \in Archived \ Changed'
               PROVE  (\E i \in 1 .. Len(stream') : stream'[i] = Record(source[p].kind, p)) \/ Ahead(p)'
    BY DEF Covered, IsA, Archived
  <2>1. p \in Archived \ Changed
    OBVIOUS
  <2>2. (\E i \in 1 .. Len(stream) : stream[i] = Record(source[p].kind, p)) \/ Ahead(p)
    BY <2>1 DEF WalkOK, Covered
  <2>3. Ahead(p) => Ahead(p)'
    BY DEF Ahead
  <2>4. \A i \in 1 .. Len(stream) : i \in 1 .. Len(stream')
    BY <1>1
  <2> QED BY <2>2, <2>3, <2>4
<1> QED BY <1>2, <1>3, <1>4, <1>5, <1>6, <1>7 DEF WalkOK

LEMMA WalkInit == Init => WalkOK
<1> SUFFICES ASSUME Init PROVE WalkOK
  OBVIOUS
<1>1. pk.pc = "start" /\ pk.agenda = <<>> /\ stream = <<>>
  BY DEF Init
<1>2. Len(pk.agenda) = 0 /\ Len(stream) = 0
  BY <1>1
<1> QED BY <1>1, <1>2 DEF WalkOK, ItemsOK, NoPipes, AntiChain, OneRecordEach, Fresh, Covered, Walks

\* What is left of the source is as it was, or is a file that was one.
LEMMA TreeKinds ==
  ASSUME SourcesOK, NEW p \in DOMAIN tree
  PROVE  /\ p \in DOMAIN source /\ p \in Paths /\ tree[p].kind = source[p].kind
         /\ tree[p].kind = "dir" => tree[p] = source[p]
<1>1. p \in DOMAIN source /\ p \in Paths
  BY TreePaths DEF SourcesOK
<1>2. tree[p] = source[p] \/ (tree[p].kind = "file" /\ source[p].kind = "file")
  BY DEF SourcesOK
<1> QED BY <1>1, <1>2

\* What the walk can come to from a directory that it has listed.
LEMMA ChildReachable ==
  ASSUME SourcesOK, NEW d \in Paths, Reachable(d), IsA(tree, d, {"dir"}), tree[d].listable,
         NEW p \in DOMAIN tree, IsChild(p, d)
  PROVE  Reachable(p)
<1>1. d \in DOMAIN tree /\ source[d].kind = "dir" /\ source[d].listable
  BY TreeKinds DEF IsA
<1>2. Parents(p) = Parents(d) \cup {d}
  BY ParentsOfChild
<1>3. p \in DOMAIN source
  BY TreeKinds
<1> QED BY <1>1, <1>2, <1>3 DEF Reachable

LEMMA RootParents == Root \in Paths /\ Parents(Root) = {} /\ Len(Root) = 1
BY DEF Root, Paths, Parents

\* All of the source lies at or in its root.
LEMMA RootAboveAll ==
  ASSUME NEW p, IsInSource(p), p # Root
  PROVE  Root \in Parents(p)
<1>1. p \in Paths /\ p \in Seq(Nat) /\ Len(p) \in Nat \ {0} /\ p[1] = 1
  BY PathLen DEF IsInSource, Paths, Root
<1>2. Root \in Paths /\ Root \in Seq(Nat) /\ Len(Root) = 1 /\ Root[1] = 1
  BY RootParents DEF Root
<1>3. IsPrefix(Root, p)
  BY <1>1, <1>2, PrefixMeans
<1>4. Len(p) # 1
  <2>1. ASSUME Len(p) = 1 PROVE FALSE
    <3>1. \A i \in 1 .. Len(p) : p[i] = Root[i]
      BY <1>1, <1>2, <2>1
    <3>2. p = Root
      BY <1>1, <1>2, <2>1, <3>1, SeqEqual
    <3> QED BY <3>2
  <2> QED BY <2>1
<1>5. Len(Root) < Len(p)
  BY <1>1, <1>2, <1>4
<1> QED BY <1>1, <1>2, <1>3, <1>5, ParentsAre

LEMMA WalkBegins ==
  ASSUME CoreInv, CoreInv', WalkOK, PackBegin, Changed \subseteq Changed'
  PROVE  WalkOK'
<1> DEFINE walks == IsA(tree, Root, {"dir", "pipe"})
           kind  == IF walks THEN "dir" ELSE "file"
           item  == Record(kind, Root)
<1>1. /\ pk.pc = "start" /\ UNCHANGED sources
      /\ stream' = stream \o (IF walks THEN <<Record("dir", Root)>> ELSE <<>>)
      /\ pk' = IF IsA(tree, Root, {"dir", "pipe", "file"})
               THEN [pk EXCEPT !.pc = "walk", !.agenda = <<item>>]
               ELSE [pk EXCEPT !.pc = "failed"]
  BY DEF PackBegin, Packing
<1>2. pk.agenda = <<>> /\ stream = <<>> /\ pk \in PackStates
  BY <1>1 DEF CoreInv, PackOK
<1>3. CASE ~IsA(tree, Root, {"dir", "pipe", "file"})
  <2>1. ~walks
    BY <1>3 DEF IsA
  <2>2. stream' = <<>> /\ pk'.agenda = <<>> /\ pk'.pc = "failed"
    BY <1>1, <1>2, <1>3, <2>1 DEF PackStates
  <2>3. Len(stream') = 0 /\ Len(pk'.agenda) = 0
    BY <2>2
  <2> QED BY <2>2, <2>3 DEF WalkOK, ItemsOK, NoPipes, AntiChain, OneRecordEach, Fresh, Covered, Walks
<1>4. CASE IsA(tree, Root, {"dir", "pipe", "file"})
  <2>1. pk'.agenda = <<item>> /\ pk'.pc = "walk"
    BY <1>1, <1>2, <1>4 DEF PackStates
  <2>2. stream' = IF walks THEN <<Record("dir", Root)>> ELSE <<>>
    <3>1. Record("dir", Root) \in Headers
      BY RootParents DEF Record, Headers
    <3> HIDE DEF Headers
    <3>2. <<Record("dir", Root)>> \in Seq(Headers) /\ <<>> \in Seq(Headers)
      BY <3>1
    <3> QED BY <1>1, <1>2, <3>2, ConcatEmptySeq
  <2>3. Root \in DOMAIN source /\ tree[Root].kind = source[Root].kind
    BY <1>4, TreeKinds DEF IsA, CoreInv
  <2>4. Reachable(Root)
    BY <2>3, RootParents DEF Reachable
  <2>5. /\ walks => source[Root].kind \in {"dir", "pipe"}
        /\ ~walks => source[Root].kind = "file"
    BY <1>4, <2>3 DEF IsA
  <2>6. item.kind = kind /\ item.path = Root /\ IsItem(item)
    BY <2>4, <2>5 DEF Record, IsItem
  <2>7. Len(pk'.agenda) = 1 /\ pk'.agenda[1] = item
    BY <2>1
  <2>8. /\ walks => Len(stream') = 1 /\ stream'[1] = item
        /\ ~walks => Len(stream') = 0
    BY <2>2
  <2> HIDE DEF item
  <2>9. UNCHANGED source
    BY <1>1 DEF sources
  <2>10. ItemsOK'
    BY <2>6, <2>7, <2>8, <2>9 DEF ItemsOK, IsItem, Reachable
  <2>11. NoPipes'
    BY <2>6, <2>8 DEF NoPipes
  <2>12. AntiChain'
    BY <2>7 DEF AntiChain
  <2>13. OneRecordEach'
    BY <2>8 DEF OneRecordEach
  <2>14. Fresh'
    BY <2>6, <2>7, <2>8, RootParents DEF Fresh
  <2>15. Covered'
    <3> SUFFICES ASSUME IsA(source, Root, {"dir", "file"}), NEW p \in Archived \ Changed'
                 PROVE  (\E i \in 1 .. Len(stream') : stream'[i] = Record(source[p].kind, p)) \/ Ahead(p)'
      BY <2>9 DEF Covered, IsA, Archived
    <3>1. IsInSource(p) /\ p \in DOMAIN source
      BY DEF CoreInv, SourcesOK, Archived
    <3>2. CASE walks /\ p = Root
      <4>1. source[Root].kind = "dir"
        BY <2>5, <3>2 DEF IsA
      <4>2. stream'[1] = Record(source[p].kind, p)
        BY <2>8, <3>2, <4>1 DEF item
      <4> QED BY <2>8, <3>2, <4>2
    <3>3. CASE walks /\ p # Root
      <4>1. Root \in Parents(p)
        BY <3>1, <3>3, RootAboveAll
      <4> QED BY <2>6, <2>7, <3>3, <4>1 DEF Ahead
    <3>4. CASE ~walks /\ p = Root
      BY <2>6, <2>7, <3>4 DEF Ahead
    <3>5. CASE ~walks /\ p # Root
      <4>1. Root \in Parents(p)
        BY <3>1, <3>5, RootAboveAll
      <4>2. source[Root].kind = "dir"
        BY <3>1, <4>1, TreePaths DEF CoreInv, SourcesOK
      <4> QED BY <2>5, <3>5, <4>2
    <3> QED BY <3>2, <3>3, <3>4, <3>5
  <2> QED BY <2>10, <2>11, <2>12, <2>13, <2>14, <2>15 DEF WalkOK
<1> QED BY <1>3, <1>4

\* An entry that the listing of d gives, as a record or an item.
Listed(d, a) ==
  /\ a \in Headers /\ IsChild(a.path, d) /\ a.path \in DOMAIN tree
  /\ IsA(tree, d, {"dir"}) /\ tree[d].listable
  /\ a.kind = "dir" => tree[a.path].kind = "dir"
  /\ a.kind = "file" => tree[a.path].kind \in {"file", "pipe"}

\* After a directory its entries are on the agenda before what was there, and
\* its subdirectories are recorded.
LEMMA Visited ==
  ASSUME CoreInv, Visit
  PROVE  LET d == pk.agenda[1].path
             a == pk'.agenda
         IN /\ pk.pc = "walk" /\ pk'.pc = "walk" /\ Len(pk.agenda) \in Nat \ {0}
            /\ pk.agenda[1].kind = "dir" /\ pk.agenda[1] \in Headers /\ d \in Paths
            /\ UNCHANGED sources /\ pk'.cur = pk.cur
            /\ \E n \in Nat :
                 /\ Len(a) = n + Len(pk.agenda) - 1
                 /\ \A j \in 1 .. n : Listed(d, a[j])
                 /\ \A i, j \in 1 .. n : i # j => a[i].path # a[j].path
                 /\ \A j \in n + 1 .. Len(a) : a[j] = pk.agenda[j - n + 1]
                 /\ IsA(tree, d, {"dir"}) /\ tree[d].listable =>
                      \A p \in DOMAIN tree : IsChild(p, d) =>
                        /\ tree[p].kind \in {"file", "pipe"} => \E j \in 1 .. n : a[j] = Record("file", p)
                        /\ tree[p].kind = "dir" => \E j \in 1 .. n : a[j] = Record("dir", p)
            /\ Len(stream) <= Len(stream') /\ Len(stream') \in Nat
            /\ \A i \in 1 .. Len(stream) : stream'[i] = stream[i]
            /\ \A i \in Len(stream) + 1 .. Len(stream') :
                 stream'[i].kind = "dir" /\ Listed(d, stream'[i])
            /\ \A i, j \in Len(stream) + 1 .. Len(stream') :
                 i # j => stream'[i].path # stream'[j].path
            /\ IsA(tree, d, {"dir"}) /\ tree[d].listable =>
                 \A p \in DOMAIN tree : IsChild(p, d) /\ tree[p].kind = "dir" =>
                   \E i \in 1 .. Len(stream') : stream'[i] = Record("dir", p)
<1> DEFINE d == pk.agenda[1].path
           f == Listing(d, {"file", "pipe"})
           s == Listing(d, {"dir"})
           r == Tail(pk.agenda)
           cells == Records("dir", s)
           a == pk'.agenda
           n == Len(f) + Len(s)
<1>0. pk.agenda \in Seq(Headers) /\ pk.agenda # <<>> /\ pk \in PackStates
  BY DEF Visit, CoreInv, PackOK, PackStates
<1>1. Head(pk.agenda) = pk.agenda[1] /\ Len(pk.agenda) \in Nat \ {0}
  <2> HIDE DEF Headers
  <2> QED BY <1>0
<1>2. /\ pk.pc = "walk" /\ pk.agenda[1].kind = "dir" /\ stream' = stream \o cells
      /\ pk' = [pk EXCEPT !.agenda = Agenda(d, r)] /\ UNCHANGED sources
  BY <1>1 DEF Visit, Packing
<1>3. a = Agenda(d, r) /\ pk'.pc = "walk" /\ pk'.cur = pk.cur
  BY <1>0, <1>2 DEF PackStates
<1>4. /\ r \in Seq(Headers) /\ Len(r) = Len(pk.agenda) - 1
      /\ \A i \in 1 .. Len(r) : r[i] = pk.agenda[i + 1]
  <2> HIDE DEF Headers
  <2> QED BY <1>0, HeadTailProperties
<1>5. pk.agenda[1] \in Headers /\ d \in Paths
  <2>1. pk.agenda[1] \in Headers
    BY <1>0, <1>1, ElementOfSeq
  <2> QED BY <2>1 DEF Headers
<1> HIDE DEF d, r
<1>6. IsTree(tree)
  BY DEF CoreInv, SourcesOK
<1>7. /\ f \in Seq(Paths)
      /\ \A i \in 1 .. Len(f) : /\ IsChild(f[i], d) /\ f[i] \in DOMAIN tree
                                 /\ tree[f[i]].kind \in {"file", "pipe"}
                                 /\ IsA(tree, d, {"dir"}) /\ tree[d].listable
      /\ \A i, j \in 1 .. Len(f) : i # j => f[i] # f[j]
      /\ IsA(tree, d, {"dir"}) /\ tree[d].listable =>
           \A p \in DOMAIN tree : IsChild(p, d) /\ tree[p].kind \in {"file", "pipe"} =>
             \E i \in 1 .. Len(f) : f[i] = p
  BY <1>5, <1>6, ListingIs
<1>8. /\ s \in Seq(Paths)
      /\ \A i \in 1 .. Len(s) : /\ IsChild(s[i], d) /\ s[i] \in DOMAIN tree
                                 /\ tree[s[i]].kind \in {"dir"}
                                 /\ IsA(tree, d, {"dir"}) /\ tree[d].listable
      /\ \A i, j \in 1 .. Len(s) : i # j => s[i] # s[j]
      /\ IsA(tree, d, {"dir"}) /\ tree[d].listable =>
           \A p \in DOMAIN tree : IsChild(p, d) /\ tree[p].kind \in {"dir"} =>
             \E i \in 1 .. Len(s) : s[i] = p
  BY <1>5, <1>6, ListingIs
<1>9. /\ a \in Seq(Headers)
      /\ Len(a) = Len(f) + Len(s) + Len(r)
      /\ \A i \in 1 .. Len(a) :
           a[i] = IF i <= Len(f) THEN Record("file", f[i])
                  ELSE IF i <= Len(f) + Len(s) THEN Record("dir", s[i - Len(f)])
                  ELSE r[i - Len(f) - Len(s)]
  <2> DEFINE b == Agenda(d, r)
  <2>1. /\ b \in Seq(Headers)
        /\ Len(b) = Len(f) + Len(s) + Len(r)
        /\ \A i \in 1 .. Len(b) :
             b[i] = IF i <= Len(f) THEN Record("file", f[i])
                    ELSE IF i <= Len(f) + Len(s) THEN Record("dir", s[i - Len(f)])
                    ELSE r[i - Len(f) - Len(s)]
    <3> HIDE DEF Headers
    <3> QED BY <1>4, <1>5, <1>6, AgendaIs, Zenon
  <2>2. a = b
    BY <1>3
  <2> HIDE DEF a, b, f, s
  <2> QED BY <2>1, <2>2
<1> HIDE DEF f, s, a
<1>10. /\ cells \in Seq(Headers) /\ Len(cells) = Len(s)
       /\ \A i \in 1 .. Len(s) : cells[i] = Record("dir", s[i])
  BY <1>8, RecordsAre
<1> HIDE DEF cells
<1>11. Len(f) \in Nat /\ Len(s) \in Nat /\ Len(r) \in Nat /\ Len(stream) \in Nat
       /\ stream \in Seq(Cells)
  <2> HIDE DEF Cells, Headers
  <2> QED BY <1>4, <1>7, <1>8, LenProperties DEF CoreInv, PackOK
<1>12. \A p \in Paths, kind \in {"dir", "file"} :
         Record(kind, p) \in Headers /\ Record(kind, p).kind = kind /\ Record(kind, p).path = p
  BY DEF Record, Headers
<1>13. ASSUME NEW i \in 1 .. Len(f) PROVE Listed(d, Record("file", f[i]))
  <2>1. f[i] \in Paths
    BY <1>7, ElementOfSeq
  <2> QED BY <1>7, <1>12, <2>1 DEF Listed
<1>14. ASSUME NEW i \in 1 .. Len(s) PROVE Listed(d, Record("dir", s[i]))
  <2>1. s[i] \in Paths
    BY <1>8, ElementOfSeq
  <2> QED BY <1>8, <1>12, <2>1 DEF Listed
<1>15. \A i \in 1 .. Len(f) : i \in 1 .. n /\ i \in 1 .. Len(a) /\ a[i] = Record("file", f[i])
  BY <1>9, <1>11
<1>16. \A i \in 1 .. Len(s) : i + Len(f) \in 1 .. n /\ a[i + Len(f)] = Record("dir", s[i])
  <2> SUFFICES ASSUME NEW i \in 1 .. Len(s)
               PROVE  i + Len(f) \in 1 .. n /\ a[i + Len(f)] = Record("dir", s[i])
    OBVIOUS
  <2>1. i + Len(f) \in 1 .. n /\ i + Len(f) \in 1 .. Len(a) /\ ~(i + Len(f) <= Len(f))
        /\ i + Len(f) - Len(f) = i
    BY <1>9, <1>11
  <2> QED BY <1>9, <2>1
<1>17. \A j \in 1 .. n : \/ j \in 1 .. Len(f) /\ a[j] = Record("file", f[j])
                         \/ j - Len(f) \in 1 .. Len(s) /\ a[j] = Record("dir", s[j - Len(f)])
  <2> SUFFICES ASSUME NEW j \in 1 .. n, ~(j \in 1 .. Len(f))
               PROVE  j - Len(f) \in 1 .. Len(s) /\ a[j] = Record("dir", s[j - Len(f)])
    BY <1>15
  <2>1. j - Len(f) \in 1 .. Len(s) /\ (j - Len(f)) + Len(f) = j
    BY <1>11
  <2> QED BY <1>16, <2>1
<1>18. n \in Nat /\ Len(a) = n + Len(pk.agenda) - 1
  BY <1>1, <1>4, <1>9, <1>11
<1>19. \A j \in 1 .. n : Listed(d, a[j])
  BY <1>13, <1>14, <1>17
<1>20. ASSUME NEW i \in 1 .. n, NEW j \in 1 .. n, i # j PROVE a[i].path # a[j].path
  <2>1. CASE i \in 1 .. Len(f) /\ j \in 1 .. Len(f)
    <3>1. f[i] # f[j]
      BY <1>7, <1>20, <2>1
    <3>2. a[i] = Record("file", f[i]) /\ a[j] = Record("file", f[j])
      BY <1>15, <2>1
    <3> QED BY <3>1, <3>2 DEF Record
  <2>2. CASE i - Len(f) \in 1 .. Len(s) /\ j - Len(f) \in 1 .. Len(s)
    <3>1. i - Len(f) # j - Len(f)
      BY <1>11, <1>20
    <3>2. s[i - Len(f)] # s[j - Len(f)]
      BY <1>8, <2>2, <3>1
    <3>3. ~(i \in 1 .. Len(f)) /\ ~(j \in 1 .. Len(f))
      BY <1>11, <2>2
    <3>4. a[i] = Record("dir", s[i - Len(f)]) /\ a[j] = Record("dir", s[j - Len(f)])
      BY <1>17, <3>3
    <3> QED BY <3>2, <3>4 DEF Record
  <2>3. CASE i \in 1 .. Len(f) /\ j - Len(f) \in 1 .. Len(s)
    <3>1. ~(j \in 1 .. Len(f))
      BY <1>11, <2>3
    <3>2. a[i] = Record("file", f[i]) /\ a[j] = Record("dir", s[j - Len(f)])
      BY <1>15, <1>17, <2>3, <3>1
    <3>3. f[i] # s[j - Len(f)]
      BY <1>7, <1>8, <2>3
    <3> QED BY <3>2, <3>3 DEF Record
  <2>4. CASE j \in 1 .. Len(f) /\ i - Len(f) \in 1 .. Len(s)
    <3>1. ~(i \in 1 .. Len(f))
      BY <1>11, <2>4
    <3>2. a[j] = Record("file", f[j]) /\ a[i] = Record("dir", s[i - Len(f)])
      BY <1>15, <1>17, <2>4, <3>1
    <3>3. f[j] # s[i - Len(f)]
      BY <1>7, <1>8, <2>4
    <3> QED BY <3>2, <3>3 DEF Record
  <2> QED BY <1>17, <2>1, <2>2, <2>3, <2>4
<1>21. ASSUME NEW j \in n + 1 .. Len(a) PROVE a[j] = pk.agenda[j - n + 1]
  <2>1. j \in 1 .. Len(a) /\ ~(j <= Len(f)) /\ ~(j <= Len(f) + Len(s))
    BY <1>9, <1>11
  <2>2. a[j] = r[j - Len(f) - Len(s)]
    BY <1>9, <2>1
  <2>3. j - Len(f) - Len(s) = j - n /\ j - n \in 1 .. Len(r)
    BY <1>9, <1>11
  <2> QED BY <1>4, <2>2, <2>3
<1>22. IsA(tree, d, {"dir"}) /\ tree[d].listable =>
         \A p \in DOMAIN tree : IsChild(p, d) =>
           /\ tree[p].kind \in {"file", "pipe"} => \E j \in 1 .. n : a[j] = Record("file", p)
           /\ tree[p].kind = "dir" => \E j \in 1 .. n : a[j] = Record("dir", p)
  <2> HIDE DEF n
  <2> SUFFICES ASSUME IsA(tree, d, {"dir"}), tree[d].listable, NEW p \in DOMAIN tree, IsChild(p, d)
               PROVE  /\ tree[p].kind \in {"file", "pipe"} => \E j \in 1 .. n : a[j] = Record("file", p)
                      /\ tree[p].kind = "dir" => \E j \in 1 .. n : a[j] = Record("dir", p)
    OBVIOUS
  <2>1. tree[p].kind \in {"file", "pipe"} => \E j \in 1 .. n : a[j] = Record("file", p)
    BY <1>7, <1>15
  <2>2. tree[p].kind = "dir" => \E j \in 1 .. n : a[j] = Record("dir", p)
    BY <1>8, <1>16
  <2> QED BY <2>1, <2>2
<1>23. /\ Len(stream') = Len(stream) + Len(s)
       /\ \A i \in 1 .. Len(stream) : stream'[i] = stream[i]
       /\ \A i \in 1 .. Len(s) : stream'[Len(stream) + i] = Record("dir", s[i])
  <2>1. cells \in Seq(Cells)
    BY <1>10, CellsAre, SeqMonotonic
  <2> HIDE DEF Cells
  <2>2. /\ Len(stream') = Len(stream) + Len(cells)
        /\ \A i \in 1 .. Len(stream) + Len(cells) :
             stream'[i] = IF i <= Len(stream) THEN stream[i] ELSE cells[i - Len(stream)]
    BY <1>2, <1>11, <2>1, ConcatProperties
  <2>3. \A i \in 1 .. Len(stream) : stream'[i] = stream[i]
    BY <1>10, <1>11, <2>2
  <2>4. ASSUME NEW i \in 1 .. Len(s) PROVE stream'[Len(stream) + i] = Record("dir", s[i])
    <3>1. /\ Len(stream) + i \in 1 .. Len(stream) + Len(cells) /\ ~(Len(stream) + i <= Len(stream))
          /\ (Len(stream) + i) - Len(stream) = i
      BY <1>10, <1>11
    <3> QED BY <1>10, <2>2, <3>1
  <2> QED BY <1>10, <2>2, <2>3, <2>4
<1>24. \A i \in Len(stream) + 1 .. Len(stream') :
         i - Len(stream) \in 1 .. Len(s) /\ stream'[i] = Record("dir", s[i - Len(stream)])
  <2> SUFFICES ASSUME NEW i \in Len(stream) + 1 .. Len(stream')
               PROVE  i - Len(stream) \in 1 .. Len(s) /\ stream'[i] = Record("dir", s[i - Len(stream)])
    OBVIOUS
  <2>1. i - Len(stream) \in 1 .. Len(s) /\ Len(stream) + (i - Len(stream)) = i
    BY <1>11, <1>23
  <2> QED BY <1>23, <2>1
<1>25. \A i \in Len(stream) + 1 .. Len(stream') : stream'[i].kind = "dir" /\ Listed(d, stream'[i])
  <2> SUFFICES ASSUME NEW i \in Len(stream) + 1 .. Len(stream')
               PROVE  stream'[i].kind = "dir" /\ Listed(d, stream'[i])
    OBVIOUS
  <2>1. i - Len(stream) \in 1 .. Len(s) /\ stream'[i] = Record("dir", s[i - Len(stream)])
    BY <1>24
  <2>2. Listed(d, stream'[i])
    BY <1>14, <2>1
  <2>3. stream'[i].kind = "dir"
    BY <2>1 DEF Record
  <2> QED BY <2>2, <2>3
<1>26. ASSUME NEW i \in Len(stream) + 1 .. Len(stream'), NEW j \in Len(stream) + 1 .. Len(stream'), i # j
       PROVE  stream'[i].path # stream'[j].path
  <2>1. i - Len(stream) # j - Len(stream)
    BY <1>11, <1>23, <1>26
  <2>2. s[i - Len(stream)] # s[j - Len(stream)]
    BY <1>8, <1>24, <2>1
  <2>3. stream'[i] = Record("dir", s[i - Len(stream)]) /\ stream'[j] = Record("dir", s[j - Len(stream)])
    BY <1>24
  <2> QED BY <2>2, <2>3 DEF Record
<1>27. IsA(tree, d, {"dir"}) /\ tree[d].listable =>
         \A p \in DOMAIN tree : IsChild(p, d) /\ tree[p].kind = "dir" =>
           \E i \in 1 .. Len(stream') : stream'[i] = Record("dir", p)
  <2>1. \A i \in 1 .. Len(s) : Len(stream) + i \in 1 .. Len(stream')
    BY <1>11, <1>23
  <2>2. ASSUME IsA(tree, d, {"dir"}), tree[d].listable, NEW p \in DOMAIN tree, IsChild(p, d),
               tree[p].kind = "dir"
        PROVE  \E i \in 1 .. Len(stream') : stream'[i] = Record("dir", p)
    <3>1. PICK i \in 1 .. Len(s) : s[i] = p
      BY <1>8, <2>2
    <3>2. stream'[Len(stream) + i] = Record("dir", p)
      BY <1>23, <3>1
    <3> QED BY <2>1, <3>2
  <2> QED BY <2>2
<1>28. Len(stream) <= Len(stream') /\ Len(stream') \in Nat
  BY <1>11, <1>23
<1> DEFINE Shape(m) ==
             /\ Len(a) = m + Len(pk.agenda) - 1
             /\ \A j \in 1 .. m : Listed(d, a[j])
             /\ \A i, j \in 1 .. m : i # j => a[i].path # a[j].path
             /\ \A j \in m + 1 .. Len(a) : a[j] = pk.agenda[j - m + 1]
             /\ IsA(tree, d, {"dir"}) /\ tree[d].listable =>
                  \A p \in DOMAIN tree : IsChild(p, d) =>
                    /\ tree[p].kind \in {"file", "pipe"} => \E j \in 1 .. m : a[j] = Record("file", p)
                    /\ tree[p].kind = "dir" => \E j \in 1 .. m : a[j] = Record("dir", p)
<1>29. Shape(n)
  <2> HIDE DEF n
  <2> QED BY <1>18, <1>19, <1>20, <1>21, <1>22
<1>30. \E m \in Nat : Shape(m)
  <2> HIDE DEF Shape, n
  <2> QED BY <1>18, <1>29
<1> QED BY <1>1, <1>2, <1>3, <1>5, <1>23, <1>25, <1>26, <1>27, <1>28, <1>30 DEF d, a

\* How an entry of the first directory on the agenda lies to the others there.
LEMMA ListedAside ==
  ASSUME NEW d \in Paths, NEW p, IsChild(p, d), NEW t \in Paths,
         ~IsPrefix(d, t), ~IsPrefix(t, d)
  PROVE  ~IsPrefix(p, t) /\ ~IsPrefix(t, p) /\ t \notin Parents(p) /\ t # p
<1>1. p \in Paths /\ p \in Seq(Nat) /\ d \in Seq(Nat) /\ t \in Seq(Nat)
  BY PathLen DEF IsChild
<1>2. Len(p) \in Nat /\ Len(d) \in Nat /\ Len(t) \in Nat /\ Len(p) = Len(d) + 1 /\ IsPrefix(d, p)
  BY <1>1, PathLen DEF IsChild
<1>3. ~IsPrefix(p, t)
  BY <1>1, <1>2, PrefixTransitive
<1>4. ~IsPrefix(t, p)
  <2>1. SUFFICES ASSUME IsPrefix(t, p) PROVE FALSE
    OBVIOUS
  <2>2. CASE Len(t) <= Len(d)
    BY <1>1, <1>2, <2>1, <2>2, PrefixesOfOne
  <2>3. CASE Len(d) <= Len(t)
    BY <1>1, <1>2, <2>1, <2>3, PrefixesOfOne
  <2> QED BY <1>2, <2>2, <2>3
<1>5. t \notin Parents(p)
  BY <1>1, <1>4, ParentsAre
<1>6. t # p
  BY <1>2
<1> QED BY <1>3, <1>4, <1>5, <1>6

\* A path lies in the directories that its directories lie in.
LEMMA BelowIsBelow ==
  ASSUME NEW d \in Paths, NEW p, IsChild(p, d), NEW q \in Paths, p = q \/ p \in Parents(q)
  PROVE  d \in Parents(q)
<1>1. d \in Parents(p)
  BY ParentsOfChild
<1>2. p \in Parents(q) => Parents(p) \subseteq Parents(q)
  BY ParentsOfParents
<1> QED BY <1>1, <1>2

\* The first step from a directory towards what lies in it.
LEMMA StepTowards ==
  ASSUME NEW q \in Paths, NEW d \in Parents(q)
  PROVE  \E p : IsChild(p, d) /\ (p = q \/ p \in Parents(q))
<1>1. d \in Paths /\ IsPrefix(d, q) /\ Len(d) < Len(q)
  BY ParentsAre
<1>2. q \in Seq(Nat) /\ d \in Seq(Nat) /\ Len(q) \in Nat /\ Len(d) \in Nat
  BY <1>1, PathLen
<1> DEFINE k == Len(d) + 1
           p == SubSeq(q, 1, k)
<1>3. k \in Int /\ 1 <= k /\ k <= Len(q)
  BY <1>1, <1>2
<1>4. \A i \in 1 .. k : i \in 1 .. Len(q) /\ q[i] \in Nat
  BY <1>2, <1>3, ElementOfSeq
<1>5. p \in Seq(Nat) /\ Len(p) = k /\ \A i \in 1 .. k : p[i] = q[i]
  <2> HIDE DEF k
  <2> QED BY <1>3, <1>4, SubSeqProperties
<1> HIDE DEF p
<1>6. IsPrefix(p, q)
  BY <1>2, <1>3, <1>5, PrefixMeans
<1>7. IsPrefix(d, p)
  BY <1>1, <1>2, <1>5, <1>6, PrefixesOfOne
<1>8. p \in Paths
  BY <1>2, <1>5, EmptySeq DEF Paths
<1>9. IsChild(p, d)
  BY <1>5, <1>7, <1>8 DEF IsChild
<1>10. CASE Len(p) < Len(q)
  BY <1>6, <1>8, <1>9, <1>10, ParentsAre
<1>11. CASE ~(Len(p) < Len(q))
  <2>1. p = q
    BY <1>2, <1>3, <1>5, <1>6, <1>11, PrefixAntisymmetric
  <2> QED BY <1>9, <2>1
<1> QED BY <1>10, <1>11

LEMMA WalkVisits ==
  ASSUME CoreInv, CoreInv', WalkOK, Visit, Changed \subseteq Changed'
  PROVE  WalkOK'
<1> DEFINE d == pk.agenda[1].path
           a == pk'.agenda
<1> DEFINE Shape(n) ==
                 /\ Len(a) = n + Len(pk.agenda) - 1
                 /\ \A j \in 1 .. n : Listed(d, a[j])
                 /\ \A i, j \in 1 .. n : i # j => a[i].path # a[j].path
                 /\ \A j \in n + 1 .. Len(a) : a[j] = pk.agenda[j - n + 1]
                 /\ IsA(tree, d, {"dir"}) /\ tree[d].listable =>
                      \A p \in DOMAIN tree : IsChild(p, d) =>
                        /\ tree[p].kind \in {"file", "pipe"} => \E j \in 1 .. n : a[j] = Record("file", p)
                        /\ tree[p].kind = "dir" => \E j \in 1 .. n : a[j] = Record("dir", p)
<1>1. /\ pk.pc = "walk" /\ pk'.pc = "walk" /\ Len(pk.agenda) \in Nat \ {0}
      /\ pk.agenda[1].kind = "dir" /\ pk.agenda[1] \in Headers /\ d \in Paths
      /\ UNCHANGED sources
      /\ \E n \in Nat : Shape(n)
  BY Visited
<1>2. /\ Len(stream) <= Len(stream') /\ Len(stream') \in Nat
      /\ \A i \in 1 .. Len(stream) : stream'[i] = stream[i]
      /\ \A i \in Len(stream) + 1 .. Len(stream') :
           stream'[i].kind = "dir" /\ Listed(d, stream'[i])
      /\ \A i, j \in Len(stream) + 1 .. Len(stream') :
           i # j => stream'[i].path # stream'[j].path
      /\ IsA(tree, d, {"dir"}) /\ tree[d].listable =>
           \A p \in DOMAIN tree : IsChild(p, d) /\ tree[p].kind = "dir" =>
             \E i \in 1 .. Len(stream') : stream'[i] = Record("dir", p)
  BY Visited
<1>3. PICK n \in Nat : Shape(n)
  <2> HIDE DEF Shape
  <2> QED BY <1>1
<1>4. /\ Len(a) = n + Len(pk.agenda) - 1
      /\ \A j \in 1 .. n : Listed(d, a[j])
      /\ \A i, j \in 1 .. n : i # j => a[i].path # a[j].path
      /\ \A j \in n + 1 .. Len(a) : a[j] = pk.agenda[j - n + 1]
      /\ IsA(tree, d, {"dir"}) /\ tree[d].listable =>
           \A p \in DOMAIN tree : IsChild(p, d) =>
             /\ tree[p].kind \in {"file", "pipe"} => \E j \in 1 .. n : a[j] = Record("file", p)
             /\ tree[p].kind = "dir" => \E j \in 1 .. n : a[j] = Record("dir", p)
  BY <1>3
<1> HIDE DEF Shape
<1>5. source' = source /\ Len(stream) \in Nat
  BY <1>1, Lens DEF sources
<1>6. d = pk.agenda[1].path /\ a = pk'.agenda
  OBVIOUS
<1> HIDE DEF d, a
<1>7. \A j \in 1 .. Len(pk.agenda) : pk.agenda[j] \in Headers /\ pk.agenda[j].path \in Paths
  BY Lens, HeaderCells
<1>8. \A i \in 1 .. Len(stream) : IsHeader(stream[i]) => stream[i].path \in Paths
  BY Lens, HeaderCells
<1>9. 1 \in 1 .. Len(pk.agenda)
  BY <1>1
\* an item of the new agenda was listed, or stood behind the directory
<1>10. \A j \in 1 .. Len(a) :
         \/ j \in 1 .. n /\ Listed(d, a[j])
         \/ /\ j \notin 1 .. n /\ j - n + 1 \in 2 .. Len(pk.agenda)
            /\ a[j] = pk.agenda[j - n + 1]
  <2> SUFFICES ASSUME NEW j \in 1 .. Len(a), j \notin 1 .. n
               PROVE  j - n + 1 \in 2 .. Len(pk.agenda) /\ a[j] = pk.agenda[j - n + 1]
    BY <1>4
  <2>1. j \in n + 1 .. Len(a) /\ j - n + 1 \in 2 .. Len(pk.agenda)
    BY <1>1, <1>4
  <2> QED BY <1>4, <2>1
\* a cell of the new stream was listed, or was there
<1>11. \A i \in 1 .. Len(stream') :
         \/ /\ i \in Len(stream) + 1 .. Len(stream')
            /\ stream'[i].kind = "dir" /\ Listed(d, stream'[i])
         \/ i \in 1 .. Len(stream) /\ stream'[i] = stream[i]
  BY <1>2, <1>5
\* what was listed is aside of the rest of the agenda, and was not recorded
<1>12. \A k \in 2 .. Len(pk.agenda) : ~IsPrefix(d, pk.agenda[k].path) /\ ~IsPrefix(pk.agenda[k].path, d)
  <2> SUFFICES ASSUME NEW k \in 2 .. Len(pk.agenda)
               PROVE  ~IsPrefix(d, pk.agenda[k].path) /\ ~IsPrefix(pk.agenda[k].path, d)
    OBVIOUS
  <2>1. k \in 1 .. Len(pk.agenda) /\ k # 1
    BY <1>1
  <2> QED BY <1>6, <1>9, <2>1 DEF WalkOK, AntiChain
<1>13. \A p, k : IsChild(p, d) /\ k \in 2 .. Len(pk.agenda) =>
         LET t == pk.agenda[k].path IN
         ~IsPrefix(p, t) /\ ~IsPrefix(t, p) /\ t \notin Parents(p) /\ t # p
  <2> SUFFICES ASSUME NEW p, NEW k \in 2 .. Len(pk.agenda), IsChild(p, d)
               PROVE  LET t == pk.agenda[k].path IN
                      ~IsPrefix(p, t) /\ ~IsPrefix(t, p) /\ t \notin Parents(p) /\ t # p
    OBVIOUS
  <2>1. k \in 1 .. Len(pk.agenda)
    BY <1>1
  <2>2. pk.agenda[k].path \in Paths
    BY <1>7, <2>1
  <2> QED BY <1>1, <1>12, <2>2, ListedAside
<1>14. ASSUME NEW p, IsChild(p, d), NEW i \in 1 .. Len(stream), IsHeader(stream[i])
       PROVE  p # stream[i].path /\ p \notin Parents(stream[i].path)
  <2>1. d \notin Parents(stream[i].path)
    BY <1>6, <1>9, <1>14 DEF WalkOK, Fresh
  <2> QED BY <1>1, <1>8, <1>14, <2>1, BelowIsBelow
<1>15. \A c : Listed(d, c) => IsItem(c)
  <2> SUFFICES ASSUME NEW c, Listed(d, c) PROVE IsItem(c)
    OBVIOUS
  <2>1. Reachable(d)
    BY <1>6, <1>9 DEF WalkOK, ItemsOK, IsItem
  <2>2. Reachable(c.path)
    BY <1>1, <2>1, ChildReachable DEF Listed, CoreInv
  <2>3. tree[c.path].kind = source[c.path].kind
    BY TreeKinds DEF Listed, CoreInv
  <2> QED BY <2>2, <2>3 DEF IsItem, Listed
<1>16. ItemsOK'
  <2>1. \A c : IsItem(c) => IsItem(c)'
    BY <1>5 DEF IsItem, Reachable
  <2>2. \A k \in 2 .. Len(pk.agenda) : IsItem(pk.agenda[k])
    BY DEF WalkOK, ItemsOK
  <2>3. \A j \in 1 .. Len(a) : IsItem(a[j])
    BY <1>10, <1>15, <2>2
  <2>4. \A i \in 1 .. Len(stream') : IsHeader(stream'[i]) => IsItem(stream'[i])
    BY <1>11, <1>15 DEF WalkOK, ItemsOK
  <2>5. \A j \in 1 .. Len(pk'.agenda) : IsItem(pk.agenda[j])'
    BY <1>5, <1>6, <2>3 DEF IsItem, Reachable
  <2>6. \A i \in 1 .. Len(stream') : IsHeader(stream'[i]) => IsItem(stream[i])'
    BY <1>5, <2>4 DEF IsItem, Reachable
  <2> QED BY <2>5, <2>6 DEF ItemsOK
<1>17. NoPipes'
  <2>1. \A i \in 1 .. Len(stream) : stream[i].kind = "file" => source[stream[i].path].kind = "file"
    BY <1>1 DEF WalkOK, NoPipes, Walks
  <2> QED BY <1>5, <1>11, <2>1 DEF NoPipes
<1>18. AntiChain'
  <2> SUFFICES ASSUME NEW i \in 1 .. Len(a), NEW j \in 1 .. Len(a), i # j
               PROVE  ~IsPrefix(a[i].path, a[j].path)
    BY <1>6 DEF AntiChain
  <2>1. CASE i \in 1 .. n /\ j \in 1 .. n
    <3>1. IsChild(a[i].path, d) /\ IsChild(a[j].path, d) /\ a[i].path # a[j].path
      BY <1>4, <2>1 DEF Listed
    <3>2. Len(a[i].path) = Len(a[j].path) /\ a[i].path \in Seq(Nat) /\ a[j].path \in Seq(Nat)
          /\ Len(a[j].path) \in Nat
      BY <3>1, PathLen DEF IsChild
    <3> QED BY <3>1, <3>2, PrefixAntisymmetric
  <2>2. CASE i \in 1 .. n /\ j \notin 1 .. n
    BY <1>10, <1>13, <2>2 DEF Listed
  <2>3. CASE i \notin 1 .. n /\ j \in 1 .. n
    BY <1>10, <1>13, <2>3 DEF Listed
  <2>4. CASE i \notin 1 .. n /\ j \notin 1 .. n
    <3>0. i - n + 1 \in 2 .. Len(pk.agenda) /\ j - n + 1 \in 2 .. Len(pk.agenda)
      BY <1>10, <2>4
    <3>1. i - n + 1 \in 1 .. Len(pk.agenda) /\ j - n + 1 \in 1 .. Len(pk.agenda)
          /\ i - n + 1 # j - n + 1
      BY <3>0
    <3>2. a[i] = pk.agenda[i - n + 1] /\ a[j] = pk.agenda[j - n + 1]
      BY <1>10, <2>4
    <3> QED BY <3>1, <3>2 DEF WalkOK, AntiChain
  <2> QED BY <2>1, <2>2, <2>3, <2>4
<1>19. OneRecordEach'
  <2> SUFFICES ASSUME NEW i \in 1 .. Len(stream'), NEW j \in 1 .. Len(stream'),
                      IsHeader(stream'[i]), IsHeader(stream'[j]), stream'[i].path = stream'[j].path
               PROVE  i = j
    BY DEF OneRecordEach
  <2>1. CASE i \in 1 .. Len(stream) /\ j \in 1 .. Len(stream)
    BY <1>2, <2>1 DEF WalkOK, OneRecordEach
  <2>2. CASE i \notin 1 .. Len(stream) /\ j \in 1 .. Len(stream)
    <3>1. IsChild(stream'[i].path, d) /\ stream'[j] = stream[j]
      BY <1>11, <2>2 DEF Listed
    <3> QED BY <1>14, <2>2, <3>1
  <2>3. CASE i \in 1 .. Len(stream) /\ j \notin 1 .. Len(stream)
    <3>1. IsChild(stream'[j].path, d) /\ stream'[i] = stream[i]
      BY <1>11, <2>3 DEF Listed
    <3> QED BY <1>14, <2>3, <3>1
  <2>4. CASE i \notin 1 .. Len(stream) /\ j \notin 1 .. Len(stream)
    BY <1>2, <1>11, <2>4
  <2> QED BY <2>1, <2>2, <2>3, <2>4
<1>20. Fresh'
  <2> SUFFICES ASSUME NEW i \in 1 .. Len(stream'), NEW j \in 1 .. Len(a), IsHeader(stream'[i])
               PROVE  /\ a[j].path \notin Parents(stream'[i].path)
                      /\ a[j].path = stream'[i].path => a[j].kind = "dir" /\ stream'[i].kind = "dir"
    BY <1>6 DEF Fresh
  <2>1. CASE i \in 1 .. Len(stream) /\ j \in 1 .. n
    <3>1. IsChild(a[j].path, d) /\ stream'[i] = stream[i]
      BY <1>4, <1>11, <2>1 DEF Listed
    <3> QED BY <1>14, <2>1, <3>1
  <2>2. CASE i \in 1 .. Len(stream) /\ j \notin 1 .. n
    <3>1. a[j] = pk.agenda[j - n + 1] /\ j - n + 1 \in 1 .. Len(pk.agenda) /\ stream'[i] = stream[i]
      BY <1>1, <1>2, <1>10, <2>2
    <3> QED BY <2>2, <3>1 DEF WalkOK, Fresh
  <2>3. CASE i \notin 1 .. Len(stream) /\ j \in 1 .. n
    <3>1. /\ IsChild(a[j].path, d) /\ IsChild(stream'[i].path, d) /\ stream'[i].kind = "dir"
          /\ Listed(d, stream'[i]) /\ Listed(d, a[j])
      BY <1>4, <1>11, <2>3 DEF Listed
    <3>2. a[j].path \notin Parents(stream'[i].path)
      <4>1. Len(a[j].path) = Len(stream'[i].path) /\ stream'[i].path \in Paths /\ Len(stream'[i].path) \in Nat
        BY <3>1, PathLen DEF IsChild
      <4> QED BY <4>1, ParentsAre
    <3>3. a[j].kind \in {"dir", "file"}
      BY <3>1 DEF Listed, Headers
    <3>4. a[j].path = stream'[i].path => a[j].kind # "file"
      BY <3>1 DEF Listed
    <3> QED BY <3>1, <3>2, <3>3, <3>4
  <2>4. CASE i \notin 1 .. Len(stream) /\ j \notin 1 .. n
    <3>1. IsChild(stream'[i].path, d)
      BY <1>11, <2>4 DEF Listed
    <3> QED BY <1>10, <1>13, <2>4, <3>1
  <2> QED BY <2>1, <2>2, <2>3, <2>4
<1>21. Covered'
  <2> SUFFICES ASSUME IsA(source, Root, {"dir", "file"}), NEW p \in Archived \ Changed'
               PROVE  (\E i \in 1 .. Len(stream') : stream'[i] = Record(source[p].kind, p)) \/ Ahead(p)'
    BY <1>5 DEF Covered, IsA, Archived
  <2>0. \A i \in 1 .. Len(stream) : i \in 1 .. Len(stream') /\ stream'[i] = stream[i]
    BY <1>2, <1>5
  <2>1. CASE \E i \in 1 .. Len(stream) : stream[i] = Record(source[p].kind, p)
    BY <2>0, <2>1
  <2>2. ASSUME NEW k \in 1 .. Len(pk.agenda), k # 1,
               \/ pk.agenda[k].kind = "file" /\ pk.agenda[k].path = p
               \/ pk.agenda[k].kind = "dir" /\ pk.agenda[k].path \in Parents(p)
        PROVE  Ahead(p)'
    <3>1. k - 1 + n \in n + 1 .. Len(a) /\ (k - 1 + n) - n + 1 = k /\ k - 1 + n \in 1 .. Len(a)
      <4>1. Len(a) = n + Len(pk.agenda) - 1 /\ Len(pk.agenda) \in Nat /\ k \in Nat /\ k > 1
            /\ k <= Len(pk.agenda)
        BY <1>1, <1>4, <2>2
      <4> QED BY <4>1
    <3>2. a[k - 1 + n] = pk.agenda[k]
      BY <1>4, <3>1
    <3> QED BY <1>6, <2>2, <3>1, <3>2 DEF Ahead
  <2>3. CASE d \in Parents(p)
    <3>1. p \in DOMAIN tree /\ tree[p] = source[p] /\ p \in DOMAIN source /\ p \in Paths
      BY TreePaths DEF Archived, Changed, CoreInv, SourcesOK
    <3>2. IsTree(tree)
      BY DEF CoreInv, SourcesOK
    <3>3. d \in DOMAIN tree /\ tree[d].kind = "dir"
      BY <2>3, <3>1, <3>2, TreePaths
    <3>4. tree[d].listable
      BY <2>3, <3>3, TreeKinds DEF Archived, CoreInv
    <3>5. PICK c : IsChild(c, d) /\ (c = p \/ c \in Parents(p))
      BY <2>3, <3>1, StepTowards
    <3>6. c \in DOMAIN tree /\ (c \in Parents(p) => tree[c].kind = "dir")
      BY <3>1, <3>2, <3>5, TreePaths
    <3>7. IsA(tree, d, {"dir"})
      BY <3>3 DEF IsA
    <3>8. CASE c \in Parents(p)
      <4>1. PICK j \in 1 .. n : a[j] = Record("dir", c)
        BY <1>4, <3>4, <3>5, <3>6, <3>7, <3>8
      <4>2. j \in 1 .. Len(a)
        BY <1>1, <1>4
      <4> QED BY <1>6, <3>8, <4>1, <4>2 DEF Ahead, Record
    <3>9. CASE c = p /\ source[p].kind = "dir"
      BY <1>2, <3>1, <3>4, <3>5, <3>7, <3>9
    <3>10. CASE c = p /\ source[p].kind = "file"
      <4>1. PICK j \in 1 .. n : a[j] = Record("file", c)
        BY <1>4, <3>1, <3>4, <3>5, <3>6, <3>7, <3>10
      <4>2. j \in 1 .. Len(a)
        BY <1>1, <1>4
      <4> QED BY <1>6, <3>10, <4>1, <4>2 DEF Ahead, Record
    <3>11. source[p].kind \in {"dir", "file"}
      BY DEF Archived
    <3> QED BY <3>5, <3>8, <3>9, <3>10, <3>11
  <2>4. (\E i \in 1 .. Len(stream) : stream[i] = Record(source[p].kind, p)) \/ Ahead(p)
    BY <1>1 DEF WalkOK, Covered, Walks
  <2>5. Ahead(p) => d \in Parents(p) \/ Ahead(p)'
    BY <1>1, <1>6, <2>2 DEF Ahead
  <2> QED BY <2>1, <2>3, <2>4, <2>5
<1> QED BY <1>16, <1>17, <1>18, <1>19, <1>20, <1>21 DEF WalkOK

\* One cell more.
LEMMA AppendOne ==
  ASSUME CoreInv, NEW c \in Cells, stream' = stream \o <<c>>
  PROVE  /\ Len(stream) \in Nat /\ Len(stream') = Len(stream) + 1 /\ stream'[Len(stream')] = c
         /\ \A i \in 1 .. Len(stream) : i \in 1 .. Len(stream') /\ stream'[i] = stream[i]
         /\ \A i \in 1 .. Len(stream') : i \in 1 .. Len(stream) \/ (i = Len(stream') /\ i = Len(stream) + 1)
<1>1. <<c>> \in Seq(Cells) /\ Len(<<c>>) = 1 /\ <<c>>[1] = c
  <2> HIDE DEF Cells
  <2> QED OBVIOUS
<1>2. stream \in Seq(Cells) /\ Len(stream) \in Nat
  BY Lens
<1> DEFINE cs == <<c>>
<1>3. cs \in Seq(Cells) /\ Len(cs) = 1 /\ cs[1] = c /\ stream' = stream \o cs
  BY <1>1
<1> HIDE DEF Cells, cs
<1>4. /\ Len(stream') = Len(stream) + Len(cs)
      /\ \A i \in 1 .. Len(stream) + Len(cs) :
           stream'[i] = IF i <= Len(stream) THEN stream[i] ELSE cs[i - Len(stream)]
  BY <1>2, <1>3, ConcatProperties
<1>5. Len(stream') = Len(stream) + 1
  BY <1>3, <1>4
<1>6. stream'[Len(stream')] = c
  <2>1. Len(stream') \in 1 .. Len(stream) + Len(cs) /\ ~(Len(stream') <= Len(stream))
        /\ Len(stream') - Len(stream) = 1
    BY <1>2, <1>3, <1>5
  <2> QED BY <1>3, <1>4, <2>1
<1>7. \A i \in 1 .. Len(stream) : i \in 1 .. Len(stream') /\ stream'[i] = stream[i]
  BY <1>2, <1>3, <1>4
<1> QED BY <1>2, <1>5, <1>6, <1>7

LEMMA WalkOpens ==
  ASSUME CoreInv, CoreInv', WalkOK, OpenFile, Changed \subseteq Changed'
  PROVE  WalkOK'
<1> DEFINE c == pk.agenda[1]
           a == pk'.agenda
<1>0. pk.agenda \in Seq(Headers) /\ pk.agenda # <<>>
  BY Lens DEF OpenFile
<1>1. Head(pk.agenda) = c /\ Len(pk.agenda) \in Nat \ {0} /\ c \in Headers
  <2> HIDE DEF Headers
  <2> QED BY <1>0
<1>2. /\ pk.pc = "walk" /\ c.kind = "file" /\ stream' = stream \o <<c>> /\ UNCHANGED sources
      /\ pk' = [pc |-> CASE IsA(tree, c.path, {"file"}) -> "read"
                         [] IsA(tree, c.path, {"pipe"}) -> "blocked"
                         [] OTHER -> "failed",
                agenda |-> Tail(pk.agenda), cur |-> c.path, pos |-> 0]
  BY <1>1 DEF OpenFile, Packing
<1>3. a = Tail(pk.agenda) /\ (pk'.pc \in Walks => IsA(tree, c.path, {"file"}))
  BY <1>2 DEF Walks, IsA
<1>4. Len(a) = Len(pk.agenda) - 1 /\ \A j \in 1 .. Len(a) : a[j] = pk.agenda[j + 1]
  <2> HIDE DEF Headers
  <2> QED BY <1>0, <1>3, HeadTailProperties
<1>5. c \in Cells /\ IsHeader(c) /\ c.path \in Paths /\ c = Record("file", c.path)
  BY <1>1, <1>2, CellsAre, HeaderCells
<1>6. /\ Len(stream) \in Nat /\ Len(stream') = Len(stream) + 1 /\ stream'[Len(stream')] = c
      /\ \A i \in 1 .. Len(stream) : i \in 1 .. Len(stream') /\ stream'[i] = stream[i]
      /\ \A i \in 1 .. Len(stream') : i \in 1 .. Len(stream) \/ (i = Len(stream') /\ i = Len(stream) + 1)
  BY <1>2, <1>5, AppendOne
<1>7. source' = source /\ 1 \in 1 .. Len(pk.agenda)
  BY <1>1, <1>2 DEF sources
<1>8. a = pk'.agenda /\ c = pk.agenda[1]
  OBVIOUS
<1> HIDE DEF a, c
<1>9. \A j \in 1 .. Len(a) : j + 1 \in 1 .. Len(pk.agenda) /\ j + 1 # 1 /\ a[j] = pk.agenda[j + 1]
  BY <1>1, <1>4
<1>10. IsItem(c)
  BY <1>7, <1>8 DEF WalkOK, ItemsOK
<1>11. ItemsOK'
  <2>1. \A j \in 1 .. Len(a) : IsItem(a[j])
    BY <1>9 DEF WalkOK, ItemsOK
  <2>2. \A i \in 1 .. Len(stream') : IsHeader(stream'[i]) => IsItem(stream'[i])
    BY <1>6, <1>10 DEF WalkOK, ItemsOK
  <2>3. \A j \in 1 .. Len(pk'.agenda) : IsItem(pk.agenda[j])'
    BY <1>7, <1>8, <2>1 DEF IsItem, Reachable
  <2>4. \A i \in 1 .. Len(stream') : IsHeader(stream'[i]) => IsItem(stream[i])'
    BY <1>7, <2>2 DEF IsItem, Reachable
  <2> QED BY <2>3, <2>4 DEF ItemsOK
<1>12. NoPipes'
  <2> SUFFICES ASSUME pk'.pc \in Walks, NEW i \in 1 .. Len(stream'), stream'[i].kind = "file"
               PROVE  source[stream'[i].path].kind = "file"
    BY <1>7 DEF NoPipes
  <2>1. CASE i \in 1 .. Len(stream)
    BY <1>2, <1>6, <2>1 DEF WalkOK, NoPipes, Walks
  <2>2. CASE stream'[i] = c
    <3>1. c.path \in DOMAIN tree /\ tree[c.path].kind = "file"
      BY <1>3 DEF IsA
    <3> QED BY <2>2, <3>1, TreeKinds DEF CoreInv
  <2> QED BY <1>6, <2>1, <2>2
<1>13. AntiChain'
  <2> SUFFICES ASSUME NEW i \in 1 .. Len(a), NEW j \in 1 .. Len(a), i # j
               PROVE  ~IsPrefix(a[i].path, a[j].path)
    BY <1>8 DEF AntiChain
  <2>1. i + 1 # j + 1
    OBVIOUS
  <2> QED BY <1>9, <2>1 DEF WalkOK, AntiChain
<1>14. ASSUME NEW i \in 1 .. Len(stream), IsHeader(stream[i])
       PROVE  stream[i].path # c.path
  BY <1>2, <1>7, <1>8, <1>14 DEF WalkOK, Fresh
<1>15. OneRecordEach'
  <2> SUFFICES ASSUME NEW i \in 1 .. Len(stream'), NEW j \in 1 .. Len(stream'),
                      IsHeader(stream'[i]), IsHeader(stream'[j]), stream'[i].path = stream'[j].path
               PROVE  i = j
    BY DEF OneRecordEach
  <2>1. CASE i \in 1 .. Len(stream) /\ j \in 1 .. Len(stream)
    BY <1>6, <2>1 DEF WalkOK, OneRecordEach
  <2>2. CASE i \notin 1 .. Len(stream) /\ j \in 1 .. Len(stream)
    BY <1>6, <1>14, <2>2
  <2>3. CASE i \in 1 .. Len(stream) /\ j \notin 1 .. Len(stream)
    BY <1>6, <1>14, <2>3
  <2>4. CASE i \notin 1 .. Len(stream) /\ j \notin 1 .. Len(stream)
    BY <1>6, <2>4
  <2> QED BY <2>1, <2>2, <2>3, <2>4
<1>16. Fresh'
  <2> SUFFICES ASSUME NEW i \in 1 .. Len(stream'), NEW j \in 1 .. Len(a), IsHeader(stream'[i])
               PROVE  /\ a[j].path \notin Parents(stream'[i].path)
                      /\ a[j].path = stream'[i].path => a[j].kind = "dir" /\ stream'[i].kind = "dir"
    BY <1>8 DEF Fresh
  <2>1. CASE i \in 1 .. Len(stream)
    <3>1. j + 1 \in 1 .. Len(pk.agenda) /\ a[j] = pk.agenda[j + 1]
      BY <1>9
    <3>2. stream'[i] = stream[i]
      BY <1>6, <2>1
    <3>3. IsHeader(stream[i])
      BY <3>2
    <3> QED BY <2>1, <3>1, <3>2, <3>3 DEF WalkOK, Fresh
  <2>2. CASE stream'[i] = c
    <3>1. ~IsPrefix(a[j].path, c.path)
      BY <1>7, <1>8, <1>9 DEF WalkOK, AntiChain
    <3>2. a[j].path \notin Parents(c.path)
      BY <1>5, <3>1, ParentsAre
    <3>3. a[j].path # c.path
      <4>1. IsPrefix(c.path, c.path)
        BY <1>5, PathLen, PrefixMeans
      <4> QED BY <3>1, <4>1
    <3> QED BY <2>2, <3>2, <3>3
  <2> QED BY <1>6, <2>1, <2>2
<1>17. Covered'
  <2> SUFFICES ASSUME pk'.pc \in Walks, IsA(source, Root, {"dir", "file"}),
                      NEW p \in Archived \ Changed'
               PROVE  (\E i \in 1 .. Len(stream') : stream'[i] = Record(source[p].kind, p)) \/ Ahead(p)'
    BY <1>7 DEF Covered, IsA, Archived
  <2>1. (\E i \in 1 .. Len(stream) : stream[i] = Record(source[p].kind, p)) \/ Ahead(p)
    BY <1>2 DEF WalkOK, Covered, Walks
  <2>2. CASE \E i \in 1 .. Len(stream) : stream[i] = Record(source[p].kind, p)
    BY <1>6, <2>2
  <2>3. CASE Ahead(p)
    <3>1. PICK k \in 1 .. Len(pk.agenda) :
            \/ pk.agenda[k].kind = "file" /\ pk.agenda[k].path = p
            \/ pk.agenda[k].kind = "dir" /\ pk.agenda[k].path \in Parents(p)
      BY <2>3 DEF Ahead
    <3>2. CASE k = 1
      <4>1. p = c.path
        BY <1>2, <1>8, <3>1, <3>2
      <4>2. source[p].kind = "file"
        <5>1. p \in DOMAIN tree /\ tree[p].kind = "file"
          BY <1>3, <4>1 DEF IsA
        <5> QED BY <5>1, TreeKinds DEF CoreInv
      <4>3. Len(stream') \in 1 .. Len(stream')
        BY <1>6
      <4> QED BY <1>5, <1>6, <4>1, <4>2, <4>3
    <3>3. CASE k # 1
      <4>1. k - 1 \in 1 .. Len(a) /\ (k - 1) + 1 = k
        BY <1>1, <1>4, <3>3
      <4>2. a[k - 1] = pk.agenda[k]
        BY <1>9, <4>1
      <4> QED BY <1>8, <3>1, <4>1, <4>2 DEF Ahead
    <3> QED BY <3>2, <3>3
  <2> QED BY <2>1, <2>2, <2>3
<1> QED BY <1>11, <1>12, <1>13, <1>15, <1>16, <1>17 DEF WalkOK

\* What a step of the packer appends while it reads a file, and at the end.
LEMMA ReadAppends ==
  ASSUME CoreInv, ReadBlock
  PROVE  /\ pk.pc = "read" /\ pk'.pc = "read" /\ pk'.agenda = pk.agenda /\ pk'.cur = pk.cur
         /\ NextBlock \in Seq(Nat) /\ NextBlock # <<>> /\ UNCHANGED sources
         /\ pk.cur # out => pk'.pos = pk.pos + Len(NextBlock)
         /\ \/ pk.cur = out /\ stream' = stream
            \/ stream' = stream \o <<Run(NextBlock)>>
<1>1. /\ pk.pc = "read" /\ NextBlock # <<>> /\ UNCHANGED sources
      /\ pk' = IF pk.cur = out THEN pk ELSE [pk EXCEPT !.pos = @ + Len(NextBlock)]
      /\ stream' = stream \o IF pk.cur = out /\ Len(stream) >= MaxCells THEN <<>> ELSE <<Run(NextBlock)>>
  BY DEF ReadBlock, Packing
<1>2. NextBlock \in Seq(Nat)
  BY <1>1, NextBlockIs
<1>3. pk \in PackStates
  BY DEF CoreInv, PackOK
<1>4. /\ pk'.pc = "read" /\ pk'.agenda = pk.agenda /\ pk'.cur = pk.cur
      /\ pk.cur # out => pk'.pos = pk.pos + Len(NextBlock)
  BY <1>1, <1>3 DEF PackStates
<1>5. CASE pk.cur = out /\ Len(stream) >= MaxCells
  <2>1. stream' = stream \o <<>>
    BY <1>1, <1>5
  <2>2. stream' = stream
    <3> HIDE DEF Cells
    <3> QED BY <2>1, Lens, ConcatEmptySeq
  <2> QED BY <1>1, <1>2, <1>4, <1>5, <2>2
<1>6. CASE ~(pk.cur = out /\ Len(stream) >= MaxCells)
  BY <1>1, <1>2, <1>4, <1>6
<1> QED BY <1>5, <1>6

LEMMA ReadEndsAppends ==
  ASSUME CoreInv, ReadEnds
  PROVE  /\ pk.pc = "read" /\ pk'.pc = "walk" /\ pk'.agenda = pk.agenda
         /\ NextBlock = <<>> /\ UNCHANGED sources /\ stream' = stream \o <<Stop>>
BY DEF ReadEnds, Packing, CoreInv, PackOK, PackStates

LEMMA PackEndAppends ==
  ASSUME CoreInv, PackEnd
  PROVE  /\ pk.pc = "walk" /\ pk'.pc = "packed" /\ pk.agenda = <<>> /\ pk'.agenda = <<>>
         /\ UNCHANGED sources /\ stream' = stream \o <<End>>
BY DEF PackEnd, Packing, CoreInv, PackOK, PackStates

LEMMA PackFailsAppends ==
  ASSUME CoreInv, PackFails
  PROVE  /\ pk'.pc = "failed" /\ pk'.agenda = pk.agenda /\ UNCHANGED sources /\ stream' = stream
BY PackFailsStep DEF PackFails, Packing, CoreInv, PackOK, PackStates

\* Every other step leaves the packer and its stream alone.
LEMMA NotPacking ==
  ASSUME [Next]_vars
  PROVE  Pack \/ PackFails \/ UNCHANGED <<pk, stream>>
<1>1. \A path : Vanish(path) \/ Extend(path) => UNCHANGED <<pk, stream>>
  BY DEF Vanish, Extend, Disturb
<1>2. Unpack => UNCHANGED <<pk, stream>>
  BY DEF Unpack, UnpackDir, UnpackFile, UnpackRun, UnpackStop, UnpackEnd, UnpackShort, Unpacking
<1>3. \A good, overwrite, target : UnpackBegin(good, overwrite, target) => UNCHANGED <<pk, stream>>
  BY DEF UnpackBegin
<1>4. UNCHANGED vars => UNCHANGED <<pk, stream>>
  BY DEF vars
<1> QED BY <1>1, <1>2, <1>3, <1>4 DEF Next

LEMMA WalkAppends ==
  ASSUME CoreInv, CoreInv', WalkOK, source' = source, Changed \subseteq Changed',
         pk'.agenda = pk.agenda, pk.pc \in Walks,
         NEW c \in Cells, ~IsHeader(c), stream' = stream \o <<c>>
  PROVE  WalkOK'
<1>1. /\ Len(stream) \in Nat /\ Len(stream') = Len(stream) + 1 /\ stream'[Len(stream')] = c
      /\ \A i \in 1 .. Len(stream) : i \in 1 .. Len(stream') /\ stream'[i] = stream[i]
      /\ \A i \in 1 .. Len(stream') : i \in 1 .. Len(stream) \/ (i = Len(stream') /\ i = Len(stream) + 1)
  BY AppendOne
<1>2. Len(stream) <= Len(stream') /\ \A i \in 1 .. Len(stream) : stream'[i] = stream[i]
  BY <1>1
<1>3. \A i \in 1 .. Len(stream') : IsHeader(stream'[i]) => i \in 1 .. Len(stream)
  BY <1>1
<1> QED BY <1>2, <1>3, WalkKept

LEMMA WalkStep ==
  ASSUME CoreInv, CoreInv', WalkOK, [Next]_vars
  PROVE  WalkOK'
<1>1. source' = source /\ Changed \subseteq Changed'
  BY ChangedGrows
<1>2. ASSUME stream' = stream, pk'.agenda = pk.agenda, pk'.pc \in Walks => pk.pc \in Walks
      PROVE  WalkOK'
  <2>1. Len(stream) \in Nat
    BY Lens
  <2>2. Len(stream) <= Len(stream') /\ (\A i \in 1 .. Len(stream) : stream'[i] = stream[i])
        /\ \A i \in 1 .. Len(stream') : IsHeader(stream'[i]) => i \in 1 .. Len(stream)
    BY <1>2, <2>1
  <2> QED BY <1>1, <1>2, <2>2, WalkKept
<1>3. CASE Pack
  <2>1. CASE PackBegin
    BY <1>1, <2>1, WalkBegins
  <2>2. CASE Visit
    BY <1>1, <2>2, WalkVisits
  <2>3. CASE OpenFile
    BY <1>1, <2>3, WalkOpens
  <2>4. CASE ReadBlock
    <3>1. Run(NextBlock) \in Cells /\ ~IsHeader(Run(NextBlock))
      BY <2>4, ReadAppends, CellsAre, HeaderCells
    <3>2. CASE stream' = stream
      BY <1>2, <2>4, <3>2, ReadAppends DEF Walks
    <3>3. CASE stream' = stream \o <<Run(NextBlock)>>
      BY <1>1, <2>4, <3>1, <3>3, ReadAppends, WalkAppends DEF Walks
    <3> QED BY <2>4, <3>2, <3>3, ReadAppends
  <2>5. CASE ReadEnds
    BY <1>1, <2>5, ReadEndsAppends, WalkAppends, CellsAre, HeaderCells DEF Walks
  <2>6. CASE PackEnd
    BY <1>1, <2>6, PackEndAppends, WalkAppends, CellsAre, HeaderCells DEF Walks
  <2> QED BY <1>3, <2>1, <2>2, <2>3, <2>4, <2>5, <2>6 DEF Pack
<1>4. CASE PackFails
  BY <1>2, <1>4, PackFailsAppends DEF Walks
<1>5. CASE UNCHANGED <<pk, stream>>
  BY <1>2, <1>5
<1> QED BY <1>3, <1>4, <1>5, NotPacking

-----------------------------------------------------------------------------
(* The content of a file follows its record: runs, each with a block of the *)
(* file, and a terminator after the last.                                    *)

\* Nobody else has touched p.
Kept(p) == p # out /\ p \notin Changed

\* From the record i on to k there is nothing but runs.
Within(i, k) == i < k /\ \A j \in i + 1 .. k - 1 : stream[j].kind = "run"

Grammar ==
  /\ \A i \in 1 .. Len(stream) :
       stream[i].kind \in {"run", "stop"} <=> i > 1 /\ stream[i - 1].kind \in {"file", "run"}
  /\ pk.pc \in {"start", "walk"} /\ stream # <<>> =>
       stream[Len(stream)].kind \notin {"file", "run"}
  /\ pk.pc = "packed" => stream # <<>> /\ stream[Len(stream)] = End /\ pk.agenda = <<>>

\* What the cell after n runs is, if D is the file.
Carries(c, D, n) ==
  /\ c.kind = "run" => /\ n * Block < Len(D)
                       /\ c.data = SubSeq(D, n * Block + 1, Lesser((n + 1) * Block, Len(D)))
  /\ c.kind = "stop" => n * Block >= Len(D)

Content ==
  \A i, k \in 1 .. Len(stream) :
    stream[i].kind = "file" /\ Kept(stream[i].path) /\ Within(i, k) =>
      Carries(stream[k], source[stream[i].path].data, k - i - 1)

Reading ==
  pk.pc = "read" =>
    \E i \in 1 .. Len(stream) :
      /\ stream[i] = Record("file", pk.cur) /\ Within(i, Len(stream) + 1)
      /\ Kept(pk.cur) =>
           pk.pos = Lesser((Len(stream) - i) * Block, Len(source[pk.cur].data))

ContentOK == Grammar /\ Content /\ Reading

LEMMA ContentInit == Init => ContentOK
<1> SUFFICES ASSUME Init PROVE ContentOK
  OBVIOUS
<1>1. pk.pc = "start" /\ stream = <<>> /\ Len(stream) = 0
  BY DEF Init
<1> QED BY <1>1 DEF ContentOK, Grammar, Content, Reading

\* A step that appends nothing.
LEMMA ContentStays ==
  ASSUME CoreInv, ContentOK, stream' = stream, source' = source, out' = out, Changed \subseteq Changed',
         pk'.pc = "read" => /\ pk.pc = "read" /\ pk'.cur = pk.cur
                            /\ pk'.pos = pk.pos \/ pk.cur = out,
         pk'.pc \in {"start", "walk"} => pk.pc \in {"start", "walk"},
         pk'.pc = "packed" => pk.pc = "packed" /\ pk'.agenda = pk.agenda
  PROVE  ContentOK'
<1>1. \A p : Kept(p)' => Kept(p)
  BY DEF Kept
<1>2. \A i, k : Within(i, k)' <=> Within(i, k)
  BY DEF Within
<1>3. Grammar'
  BY DEF ContentOK, Grammar
<1>4. Content'
  <2> SUFFICES ASSUME NEW i \in 1 .. Len(stream), NEW k \in 1 .. Len(stream),
                      stream[i].kind = "file", Kept(stream[i].path), Within(i, k)
               PROVE  Carries(stream[k], source[stream[i].path].data, k - i - 1)
    BY <1>1, <1>2 DEF Content
  <2> QED BY DEF ContentOK, Content
<1>5. Reading'
  <2> SUFFICES ASSUME pk'.pc = "read"
               PROVE  \E i \in 1 .. Len(stream) :
                        /\ stream[i] = Record("file", pk.cur) /\ Within(i, Len(stream) + 1)
                        /\ Kept(pk.cur)' =>
                             pk'.pos = Lesser((Len(stream) - i) * Block, Len(source[pk.cur].data))
    BY <1>2 DEF Reading, Kept
  <2>1. Kept(pk.cur)' => Kept(pk.cur) /\ pk'.pos = pk.pos
    BY DEF Kept
  <2> QED BY <2>1 DEF ContentOK, Reading
<1> QED BY <1>3, <1>4, <1>5 DEF ContentOK

\* Directories are recorded between the files.
LEMMA ContentDirs ==
  ASSUME CoreInv, ContentOK, source' = source, out' = out, Changed \subseteq Changed',
         pk.pc \in {"start", "walk"}, pk'.pc \in {"walk", "failed"},
         Len(stream) <= Len(stream'), Len(stream') \in Nat, stream' # <<>> => Len(stream') # 0,
         \A i \in 1 .. Len(stream) : stream'[i] = stream[i],
         \A i \in Len(stream) + 1 .. Len(stream') : stream'[i].kind = "dir"
  PROVE  ContentOK'
<1>0. Len(stream) \in Nat /\ (Len(stream) = 0 \/ stream # <<>>)
  <2> HIDE DEF Cells
  <2> QED BY Lens, EmptySeq
<1>1. \A p : Kept(p)' => Kept(p)
  BY DEF Kept
<1>2. \A i \in 1 .. Len(stream') :
        \/ i \in 1 .. Len(stream) /\ stream'[i] = stream[i]
        \/ i \in Len(stream) + 1 .. Len(stream') /\ stream'[i].kind = "dir"
  BY <1>0
<1>3. Len(stream) # 0 => stream[Len(stream)].kind \notin {"file", "run"}
  BY <1>0 DEF ContentOK, Grammar
<1>4. \A i \in Len(stream) .. Len(stream') : i # 0 => stream'[i].kind \notin {"file", "run"}
  <2> SUFFICES ASSUME NEW i \in Len(stream) .. Len(stream'), i # 0
               PROVE  stream'[i].kind \notin {"file", "run"}
    OBVIOUS
  <2>1. CASE i = Len(stream)
    <3>1. i \in 1 .. Len(stream)
      BY <1>0, <2>1
    <3> QED BY <1>3, <2>1, <3>1
  <2>2. CASE i # Len(stream)
    <3>1. i \in Len(stream) + 1 .. Len(stream')
      BY <1>0, <2>2
    <3> QED BY <3>1
  <2> QED BY <2>1, <2>2
<1>5. Grammar'
  <2>1. ASSUME NEW i \in 1 .. Len(stream')
        PROVE  stream'[i].kind \in {"run", "stop"} <=> i > 1 /\ stream'[i - 1].kind \in {"file", "run"}
    <3>1. CASE i \in 1 .. Len(stream)
      <4>1. i > 1 => stream'[i - 1] = stream[i - 1]
        BY <1>0, <3>1
      <4>2. stream'[i] = stream[i]
        BY <3>1
      <4>3. stream[i].kind \in {"run", "stop"} <=> i > 1 /\ stream[i - 1].kind \in {"file", "run"}
        BY <3>1 DEF ContentOK, Grammar
      <4> QED BY <4>1, <4>2, <4>3
    <3>2. CASE i \in Len(stream) + 1 .. Len(stream')
      <4>1. i > 1 => i - 1 \in Len(stream) .. Len(stream') /\ i - 1 # 0
        BY <1>0, <3>2
      <4> QED BY <1>4, <3>2, <4>1
    <3> QED BY <1>2, <3>1, <3>2
  <2>2. stream' # <<>> => stream'[Len(stream')].kind \notin {"file", "run"}
    <3>1. stream' # <<>> => Len(stream') \in Len(stream) .. Len(stream') /\ Len(stream') # 0
      BY <1>0
    <3> QED BY <1>4, <3>1
  <2> QED BY <2>1, <2>2 DEF Grammar
<1>6. Content'
  <2> SUFFICES ASSUME NEW i \in 1 .. Len(stream'), NEW k \in 1 .. Len(stream'),
                      stream'[i].kind = "file", Kept(stream[i].path)', Within(i, k)'
               PROVE  Carries(stream'[k], source[stream'[i].path].data, k - i - 1)
    BY DEF Content
  <2>1. i \in 1 .. Len(stream) /\ stream'[i] = stream[i]
    BY <1>2
  <2>2. Kept(stream[i].path)
    BY <1>1, <2>1 DEF Kept
  <2>3. CASE stream'[k].kind = "dir"
    BY <2>3 DEF Carries
  <2>4. CASE k \in 1 .. Len(stream) /\ stream'[k] = stream[k]
    <3>1. \A j \in i + 1 .. k - 1 : j \in 1 .. Len(stream)
      BY <1>0, <2>1, <2>4
    <3>2. i < k /\ \A j \in i + 1 .. k - 1 : stream'[j].kind = "run"
      BY DEF Within
    <3>3. Within(i, k)
      BY <3>1, <3>2 DEF Within
    <3>4. stream[i].kind = "file"
      BY <2>1
    <3> QED BY <2>1, <2>2, <2>4, <3>3, <3>4 DEF ContentOK, Content
  <2> QED BY <1>2, <2>3, <2>4
<1>7. Reading'
  BY DEF Reading
<1> QED BY <1>5, <1>6, <1>7 DEF ContentOK

\* A cell is appended that the grammar allows, and that holds what Content asks.
LEMMA ContentGrows ==
  ASSUME CoreInv, ContentOK, source' = source, out' = out, Changed \subseteq Changed',
         NEW c \in Cells, stream' = stream \o <<c>>,
         c.kind \in {"run", "stop"} <=> Len(stream) # 0 /\ stream[Len(stream)].kind \in {"file", "run"},
         \A i \in 1 .. Len(stream) :
           stream[i].kind = "file" /\ Kept(stream[i].path) /\ Within(i, Len(stream) + 1) =>
             Carries(c, source[stream[i].path].data, Len(stream) - i)
  PROVE  /\ \A i \in 1 .. Len(stream') :
              stream'[i].kind \in {"run", "stop"} <=> i > 1 /\ stream'[i - 1].kind \in {"file", "run"}
         /\ Content'
<1>1. /\ Len(stream) \in Nat /\ Len(stream') = Len(stream) + 1 /\ stream'[Len(stream')] = c
      /\ \A i \in 1 .. Len(stream) : i \in 1 .. Len(stream') /\ stream'[i] = stream[i]
      /\ \A i \in 1 .. Len(stream') : i \in 1 .. Len(stream) \/ (i = Len(stream') /\ i = Len(stream) + 1)
  BY AppendOne
<1>2. ASSUME NEW i \in 1 .. Len(stream')
      PROVE  stream'[i].kind \in {"run", "stop"} <=> i > 1 /\ stream'[i - 1].kind \in {"file", "run"}
  <2>1. CASE i \in 1 .. Len(stream)
    <3>1. i > 1 => i - 1 \in 1 .. Len(stream)
      BY <1>1, <2>1
    <3>2. i > 1 => stream'[i - 1] = stream[i - 1]
      BY <1>1, <3>1
    <3>3. stream'[i] = stream[i]
      BY <1>1, <2>1
    <3>4. stream[i].kind \in {"run", "stop"} <=> i > 1 /\ stream[i - 1].kind \in {"file", "run"}
      BY <2>1 DEF ContentOK, Grammar
    <3> QED BY <3>2, <3>3, <3>4
  <2>2. CASE i = Len(stream')
    <3>1. i > 1 <=> Len(stream) # 0
      BY <1>1, <2>2
    <3>2. i > 1 => i - 1 = Len(stream) /\ i - 1 \in 1 .. Len(stream)
      BY <1>1, <2>2
    <3>3. i > 1 => stream'[i - 1] = stream[Len(stream)]
      BY <1>1, <3>2
    <3> QED BY <1>1, <2>2, <3>1, <3>3
  <2> QED BY <1>1, <2>1, <2>2
<1>3. \A p : Kept(p)' => Kept(p)
  BY DEF Kept
<1>4. Content'
  <2> SUFFICES ASSUME NEW i \in 1 .. Len(stream'), NEW k \in 1 .. Len(stream'),
                      stream'[i].kind = "file", Kept(stream[i].path)', Within(i, k)'
               PROVE  Carries(stream'[k], source[stream'[i].path].data, k - i - 1)
    BY DEF Content
  <2>1. i < k /\ \A j \in i + 1 .. k - 1 : stream'[j].kind = "run"
    BY DEF Within
  <2>2. i \in 1 .. Len(stream) /\ stream'[i] = stream[i]
    BY <1>1, <2>1
  <2>3. Kept(stream[i].path) /\ stream[i].kind = "file"
    BY <2>2 DEF Kept
  <2>4. Within(i, k)
    <3>1. \A j \in i + 1 .. k - 1 : j \in 1 .. Len(stream)
      BY <1>1
    <3> QED BY <1>1, <2>1, <3>1 DEF Within
  <2>5. CASE k \in 1 .. Len(stream)
    <3>1. stream'[k] = stream[k]
      BY <1>1, <2>5
    <3> QED BY <2>2, <2>3, <2>4, <2>5, <3>1 DEF ContentOK, Content
  <2>6. CASE k = Len(stream) + 1
    <3>1. stream'[k] = c /\ k - i - 1 = Len(stream) - i
      BY <1>1, <2>6
    <3> QED BY <2>2, <2>3, <2>4, <2>6, <3>1
  <2> QED BY <1>1, <2>5, <2>6
<1> QED BY <1>2, <1>4

\* How long a part of a sequence is.
LEMMA PartLength ==
  ASSUME NEW D \in Seq(Nat), NEW lo \in Nat, NEW hi \in Nat, lo <= hi, hi <= Len(D)
  PROVE  /\ Len(SubSeq(D, lo + 1, hi)) = hi - lo
         /\ SubSeq(D, lo + 1, hi) = <<>> <=> lo = hi
<1>1. lo + 1 \in Int /\ hi \in Int /\ Len(D) \in Nat
  BY LenProperties
<1>2. \A i \in lo + 1 .. hi : D[i] \in Nat
  <2>1. \A i \in lo + 1 .. hi : i \in 1 .. Len(D)
    BY <1>1
  <2> QED BY <2>1, ElementOfSeq
<1> DEFINE m == lo + 1
<1>3. m \in Int
  BY <1>1
<1>4. \A i \in m .. hi : D[i] \in Nat
  BY <1>2
<1>5. m = lo + 1
  OBVIOUS
<1> HIDE DEF m
<1>6. /\ SubSeq(D, m, hi) \in Seq(Nat)
      /\ Len(SubSeq(D, m, hi)) = IF m <= hi THEN hi - m + 1 ELSE 0
  BY <1>1, <1>3, <1>4, SubSeqProperties
<1>7. Len(SubSeq(D, m, hi)) = hi - lo
  BY <1>5, <1>6
<1>8. SubSeq(D, m, hi) = <<>> <=> lo = hi
  <2>1. \A s \in Seq(Nat) : s = <<>> <=> Len(s) = 0
    BY EmptySeq
  <2>2. SubSeq(D, m, hi) = <<>> <=> Len(SubSeq(D, m, hi)) = 0
    BY <1>6, <2>1
  <2>3. hi - lo = 0 <=> lo = hi
    OBVIOUS
  <2> QED BY <1>7, <2>2, <2>3, Zenon
<1> QED BY <1>5, <1>7, <1>8

\* What one more read of a file D gives after n of them.
LEMMA NextRead ==
  ASSUME NEW D \in Seq(Nat), NEW n \in Nat, NEW pos, pos = Lesser(n * Block, Len(D)),
         NEW b, b = SubSeq(D, pos + 1, Lesser(pos + Block, Len(D)))
  PROVE  /\ b # <<>> => /\ n * Block < Len(D)
                        /\ b = SubSeq(D, n * Block + 1, Lesser((n + 1) * Block, Len(D)))
                        /\ pos + Len(b) = Lesser((n + 1) * Block, Len(D))
         /\ b = <<>> => n * Block >= Len(D)
<1>0. Block \in Nat \ {0} /\ Len(D) \in Nat
  BY ArchiveStreamAssumption, LenProperties
<1> DEFINE z == n * Block
           hi == Lesser(pos + Block, Len(D))
<1>1. z \in Nat /\ (n + 1) * Block = z + Block
  BY <1>0
<1>2. z = n * Block
  OBVIOUS
<1> HIDE DEF z
<1>3. pos = Lesser(z, Len(D)) /\ pos \in Nat
  BY <1>0, <1>1, <1>2 DEF Lesser
<1>4. hi \in Nat /\ hi <= Len(D) /\ pos <= hi
  BY <1>0, <1>1, <1>3 DEF Lesser
<1>5. hi = Lesser(pos + Block, Len(D)) /\ b = SubSeq(D, pos + 1, hi)
  OBVIOUS
<1> HIDE DEF hi
<1>6. Len(SubSeq(D, pos + 1, hi)) = hi - pos /\ (SubSeq(D, pos + 1, hi) = <<>> <=> pos = hi)
  <2> HIDE DEF Lesser
  <2>1. D \in Seq(Nat) /\ pos \in Nat /\ hi \in Nat /\ pos <= hi /\ hi <= Len(D)
    BY <1>3, <1>4
  <2> QED BY ONLY <2>1, PartLength
<1>7. Len(b) = hi - pos /\ (b = <<>> <=> pos = hi)
  BY <1>5, <1>6, Zenon
<1>8. CASE pos < Len(D)
  <2>1. pos = z /\ z < Len(D)
    BY <1>0, <1>1, <1>3, <1>8 DEF Lesser
  <2>2. pos < hi
    BY <1>0, <1>3, <1>5, <1>8 DEF Lesser
  <2>3. b # <<>>
    BY <1>3, <1>4, <1>7, <2>2
  <2>4. hi = Lesser(z + Block, Len(D)) /\ pos + Len(b) = hi
    BY <1>3, <1>4, <1>5, <1>7, <2>1
  <2> QED BY <1>1, <1>2, <1>5, <2>1, <2>3, <2>4
<1>9. CASE ~(pos < Len(D))
  <2>1. z >= Len(D) /\ hi = Len(D) /\ pos = Len(D)
    BY <1>0, <1>1, <1>3, <1>4, <1>9 DEF Lesser
  <2>2. b = <<>>
    BY <1>7, <2>1
  <2> QED BY <1>2, <2>1, <2>2
<1> QED BY <1>3, <1>0, <1>8, <1>9

\* The record a cell follows is the last one before it.
LEMMA WithinOne ==
  ASSUME CoreInv, NEW i \in 1 .. Len(stream), NEW j \in 1 .. Len(stream), NEW k \in Nat,
         stream[i].kind = "file", stream[j].kind = "file", Within(i, k), Within(j, k)
  PROVE  i = j
<1>1. \A m \in i + 1 .. k - 1 : stream[m].kind = "run"
  BY DEF Within
<1>2. \A m \in j + 1 .. k - 1 : stream[m].kind = "run"
  BY DEF Within
<1>3. i < k /\ j < k
  BY DEF Within
<1>4. ~(i < j)
  <2>1. i < j => j \in i + 1 .. k - 1
    BY <1>3
  <2> QED BY <1>1, <2>1
<1>5. ~(j < i)
  <2>1. j < i => i \in j + 1 .. k - 1
    BY <1>3
  <2> QED BY <1>2, <2>1
<1> QED BY <1>4, <1>5

\* The file that is read, and what has been read of it.
LEMMA ReadSoFar ==
  ASSUME CoreInv, ContentOK, pk.pc = "read",
         NEW i \in 1 .. Len(stream), stream[i] = Record("file", pk.cur), Within(i, Len(stream) + 1)
  PROVE  /\ Len(stream) - i \in Nat /\ Len(stream) # 0
         /\ stream[Len(stream)].kind \in {"file", "run"}
         /\ \A j \in 1 .. Len(stream) : stream[j].kind = "file" /\ Within(j, Len(stream) + 1) => j = i
         /\ Kept(pk.cur) =>
              LET D == source[pk.cur].data IN
              /\ D \in Seq(Nat) /\ pk.pos = Lesser((Len(stream) - i) * Block, Len(D))
              /\ NextBlock = SubSeq(D, pk.pos + 1, Lesser(pk.pos + Block, Len(D)))
<1>1. Len(stream) \in Nat
  BY Lens
<1>2. stream[i].kind = "file"
  BY DEF Record
<1>3. stream[Len(stream)].kind \in {"file", "run"}
  <2>1. i # Len(stream) => Len(stream) \in i + 1 .. (Len(stream) + 1) - 1
    BY <1>1
  <2> QED BY <1>2, <2>1 DEF Within
<1>4. \A j \in 1 .. Len(stream) : stream[j].kind = "file" /\ Within(j, Len(stream) + 1) => j = i
  BY <1>1, <1>2, WithinOne
<1>5. ASSUME Kept(pk.cur)
      PROVE  LET D == source[pk.cur].data IN
              /\ D \in Seq(Nat) /\ pk.pos = Lesser((Len(stream) - i) * Block, Len(D))
              /\ NextBlock = SubSeq(D, pk.pos + 1, Lesser(pk.pos + Block, Len(D)))
  <2>1. IsA(tree, pk.cur, {"file"}) /\ IsTree(tree)
    BY DEF CoreInv, SourcesOK, PackOK
  <2>2. tree[pk.cur].data \in Seq(Nat)
    BY <2>1, FileData
  <2>3. source[pk.cur] = tree[pk.cur]
    <3>1. pk.cur \in DOMAIN tree
      BY <2>1 DEF IsA
    <3>2. pk.cur \in DOMAIN source
      BY <3>1, TreeKinds DEF CoreInv
    <3> QED BY <1>5, <3>1, <3>2 DEF Kept, Changed
  <2>4. NextBlock = SubSeq(tree[pk.cur].data, pk.pos + 1,
                           Lesser(pk.pos + Block, Len(tree[pk.cur].data)))
    BY <1>5, NextBlockIs DEF Kept
  <2>5. PICK j \in 1 .. Len(stream) :
          /\ stream[j] = Record("file", pk.cur) /\ Within(j, Len(stream) + 1)
          /\ Kept(pk.cur) =>
               pk.pos = Lesser((Len(stream) - j) * Block, Len(source[pk.cur].data))
    BY DEF ContentOK, Reading
  <2>6. j = i
    BY <1>4, <2>5 DEF Record
  <2> QED BY <1>5, <2>2, <2>3, <2>4, <2>5, <2>6
<1> QED BY <1>1, <1>3, <1>4, <1>5

LEMMA ContentOpens ==
  ASSUME CoreInv, CoreInv', ContentOK, OpenFile, source' = source, out' = out, Changed \subseteq Changed'
  PROVE  ContentOK'
<1> DEFINE c == Head(pk.agenda)
<1>1. /\ pk.pc = "walk" /\ c.kind = "file" /\ stream' = stream \o <<c>> /\ pk.agenda # <<>>
      /\ pk' = [pc |-> CASE IsA(tree, c.path, {"file"}) -> "read"
                         [] IsA(tree, c.path, {"pipe"}) -> "blocked"
                         [] OTHER -> "failed",
                agenda |-> Tail(pk.agenda), cur |-> c.path, pos |-> 0]
  BY DEF OpenFile, Packing
<1>2. c \in Headers
  <2> HIDE DEF Headers
  <2> QED BY <1>1, Lens
<1>3. c \in Cells /\ c = Record("file", c.path)
  BY <1>1, <1>2, CellsAre, HeaderCells
<1>4. /\ Len(stream) \in Nat /\ Len(stream') = Len(stream) + 1 /\ stream'[Len(stream')] = c
      /\ \A i \in 1 .. Len(stream) : i \in 1 .. Len(stream') /\ stream'[i] = stream[i]
      /\ \A i \in 1 .. Len(stream') : i \in 1 .. Len(stream) \/ (i = Len(stream') /\ i = Len(stream) + 1)
  BY <1>1, <1>3, AppendOne
<1>5. /\ pk'.cur = c.path /\ pk'.pos = 0 /\ pk'.pc \in {"read", "blocked", "failed"}
      /\ pk'.pc = "read" => IsA(tree, c.path, {"file"})
  BY <1>1 DEF IsA
<1> HIDE DEF c
<1>6. ~(Len(stream) # 0 /\ stream[Len(stream)].kind \in {"file", "run"})
  BY <1>1 DEF ContentOK, Grammar
<1>7. \A D, n : Carries(c, D, n)
  BY <1>1 DEF Carries
<1>8. /\ \A i \in 1 .. Len(stream') :
           stream'[i].kind \in {"run", "stop"} <=> i > 1 /\ stream'[i - 1].kind \in {"file", "run"}
      /\ Content'
  BY <1>1, <1>3, <1>6, <1>7, ContentGrows
<1>9. Grammar'
  BY <1>5, <1>8 DEF Grammar
<1>10. Reading'
  <2> SUFFICES ASSUME pk'.pc = "read"
               PROVE  \E i \in 1 .. Len(stream') :
                        /\ stream'[i] = Record("file", pk'.cur)
                        /\ i < Len(stream') + 1 /\ \A j \in i + 1 .. (Len(stream') + 1) - 1 : stream'[j].kind = "run"
                        /\ pk'.pos = Lesser((Len(stream') - i) * Block, Len(source[pk'.cur].data))
    BY DEF Reading, Within
  <2>1. source[c.path].data \in Seq(Nat)
    <3>1. c.path \in DOMAIN tree /\ tree[c.path].kind = "file"
      BY <1>5 DEF IsA
    <3>2. IsA(source, c.path, {"file"})
      BY <3>1, TreeKinds DEF CoreInv, IsA
    <3> QED BY <3>2, FileData DEF CoreInv, SourcesOK
  <2>2. Len(source[c.path].data) \in Nat
    BY <2>1, LenProperties
  <2>3. (Len(stream') - Len(stream')) * Block = 0
    BY <1>4, ArchiveStreamAssumption
  <2>4. pk'.pos = Lesser((Len(stream') - Len(stream')) * Block, Len(source[pk'.cur].data))
    BY <1>5, <2>2, <2>3 DEF Lesser
  <2>5. Len(stream') \in 1 .. Len(stream') /\ Len(stream') < Len(stream') + 1
        /\ \A j \in Len(stream') + 1 .. (Len(stream') + 1) - 1 : stream'[j].kind = "run"
    BY <1>4
  <2> QED BY <1>3, <1>4, <1>5, <2>4, <2>5
<1> QED BY <1>8, <1>9, <1>10 DEF ContentOK

LEMMA ContentReads ==
  ASSUME CoreInv, ContentOK, ReadBlock, source' = source, out' = out, Changed \subseteq Changed',
         stream' = stream \o <<Run(NextBlock)>>
  PROVE  ContentOK'
<1> DEFINE b == NextBlock
           c == Run(b)
<1>1. /\ pk.pc = "read" /\ pk'.pc = "read" /\ pk'.cur = pk.cur /\ b \in Seq(Nat) /\ b # <<>>
      /\ pk.cur # out => pk'.pos = pk.pos + Len(b)
  BY ReadAppends
<1>2. c \in Cells /\ c.kind = "run" /\ c.data = b /\ stream' = stream \o <<c>>
  BY <1>1, CellsAre DEF Run
<1> HIDE DEF c
<1>3. /\ Len(stream) \in Nat /\ Len(stream') = Len(stream) + 1 /\ stream'[Len(stream')] = c
      /\ \A i \in 1 .. Len(stream) : i \in 1 .. Len(stream') /\ stream'[i] = stream[i]
      /\ \A i \in 1 .. Len(stream') : i \in 1 .. Len(stream) \/ (i = Len(stream') /\ i = Len(stream) + 1)
  BY <1>2, AppendOne
<1>4. PICK i \in 1 .. Len(stream) : stream[i] = Record("file", pk.cur) /\ Within(i, Len(stream) + 1)
  BY <1>1 DEF ContentOK, Reading
<1> DEFINE D == source[pk.cur].data
           n == Len(stream) - i
<1>5. /\ n \in Nat /\ Len(stream) # 0 /\ stream[Len(stream)].kind \in {"file", "run"}
      /\ \A j \in 1 .. Len(stream) : stream[j].kind = "file" /\ Within(j, Len(stream) + 1) => j = i
      /\ Kept(pk.cur) => /\ D \in Seq(Nat) /\ pk.pos = Lesser(n * Block, Len(D))
                         /\ b = SubSeq(D, pk.pos + 1, Lesser(pk.pos + Block, Len(D)))
  BY <1>1, <1>4, ReadSoFar
<1>6. stream[i].path = pk.cur
  BY <1>4 DEF Record
<1> HIDE DEF b, D, n
<1>7. Kept(pk.cur) => /\ n * Block < Len(D)
                      /\ b = SubSeq(D, n * Block + 1, Lesser((n + 1) * Block, Len(D)))
                      /\ pk.pos + Len(b) = Lesser((n + 1) * Block, Len(D))
  BY <1>1, <1>5, NextRead
<1>8. Kept(pk.cur) => Carries(c, D, n)
  BY <1>2, <1>7 DEF Carries
<1>9. \A j \in 1 .. Len(stream) :
        stream[j].kind = "file" /\ Kept(stream[j].path) /\ Within(j, Len(stream) + 1) =>
          Carries(c, source[stream[j].path].data, Len(stream) - j)
  BY <1>5, <1>6, <1>8 DEF D, n
<1>10. /\ \A j \in 1 .. Len(stream') :
            stream'[j].kind \in {"run", "stop"} <=> j > 1 /\ stream'[j - 1].kind \in {"file", "run"}
       /\ Content'
  BY <1>2, <1>5, <1>9, ContentGrows
<1>11. Grammar'
  BY <1>1, <1>10 DEF Grammar
<1>12. Reading'
  <2>1. stream'[i] = Record("file", pk'.cur) /\ i \in 1 .. Len(stream')
    BY <1>1, <1>3, <1>4
  <2>2. i < Len(stream') + 1 /\ \A j \in i + 1 .. (Len(stream') + 1) - 1 : stream'[j].kind = "run"
    <3>1. \A j \in i + 1 .. (Len(stream) + 1) - 1 : stream[j].kind = "run"
      BY <1>4 DEF Within
    <3>2. ASSUME NEW j \in i + 1 .. (Len(stream') + 1) - 1 PROVE stream'[j].kind = "run"
      <4>1. CASE j \in 1 .. Len(stream)
        <5>1. j \in i + 1 .. (Len(stream) + 1) - 1
          BY <1>3, <3>2, <4>1
        <5> QED BY <1>3, <3>1, <4>1, <5>1
      <4>2. CASE j = Len(stream')
        BY <1>2, <1>3, <4>2
      <4>3. j \in 1 .. Len(stream')
        BY <1>3, <3>2
      <4> QED BY <1>3, <4>1, <4>2, <4>3
    <3>3. i < Len(stream') + 1
      BY <1>3
    <3> QED BY <3>2, <3>3
  <2>3. Kept(pk.cur)' => pk'.pos = Lesser((Len(stream') - i) * Block, Len(source'[pk'.cur].data))
    <3> SUFFICES ASSUME Kept(pk.cur)'
                 PROVE  pk'.pos = Lesser((Len(stream') - i) * Block, Len(source'[pk'.cur].data))
      OBVIOUS
    <3>1. Kept(pk.cur) /\ pk.cur # out
      BY <1>1 DEF Kept
    <3>2. Len(stream') - i = n + 1
      BY <1>3 DEF n
    <3>3. source'[pk'.cur].data = D
      BY <1>1 DEF D
    <3> QED BY <1>1, <1>7, <3>1, <3>2, <3>3 DEF b
  <2> QED BY <2>1, <2>2, <2>3 DEF Reading, Within
<1> QED BY <1>10, <1>11, <1>12 DEF ContentOK

LEMMA ContentStops ==
  ASSUME CoreInv, ContentOK, ReadEnds, source' = source, out' = out, Changed \subseteq Changed'
  PROVE  ContentOK'
<1>1. pk.pc = "read" /\ pk'.pc = "walk" /\ NextBlock = <<>> /\ stream' = stream \o <<Stop>>
  BY ReadEndsAppends
<1>2. Stop \in Cells /\ Stop.kind = "stop"
  BY CellsAre DEF Stop
<1>3. Len(stream) \in Nat /\ Len(stream') = Len(stream) + 1 /\ stream'[Len(stream')] = Stop
  BY <1>1, <1>2, AppendOne
<1>4. PICK i \in 1 .. Len(stream) : stream[i] = Record("file", pk.cur) /\ Within(i, Len(stream) + 1)
  BY <1>1 DEF ContentOK, Reading
<1> DEFINE D == source[pk.cur].data
           n == Len(stream) - i
<1>5. /\ n \in Nat /\ Len(stream) # 0 /\ stream[Len(stream)].kind \in {"file", "run"}
      /\ \A j \in 1 .. Len(stream) : stream[j].kind = "file" /\ Within(j, Len(stream) + 1) => j = i
      /\ Kept(pk.cur) => /\ D \in Seq(Nat) /\ pk.pos = Lesser(n * Block, Len(D))
                         /\ NextBlock = SubSeq(D, pk.pos + 1, Lesser(pk.pos + Block, Len(D)))
  BY <1>1, <1>4, ReadSoFar
<1>6. stream[i].path = pk.cur
  BY <1>4 DEF Record
<1> HIDE DEF D, n
<1>7. Kept(pk.cur) => n * Block >= Len(D)
  BY <1>1, <1>5, NextRead
<1>8. Kept(pk.cur) => Carries(Stop, D, n)
  BY <1>2, <1>7 DEF Carries
<1>9. \A j \in 1 .. Len(stream) :
        stream[j].kind = "file" /\ Kept(stream[j].path) /\ Within(j, Len(stream) + 1) =>
          Carries(Stop, source[stream[j].path].data, Len(stream) - j)
  BY <1>5, <1>6, <1>8 DEF D, n
<1>10. /\ \A j \in 1 .. Len(stream') :
            stream'[j].kind \in {"run", "stop"} <=> j > 1 /\ stream'[j - 1].kind \in {"file", "run"}
       /\ Content'
  BY <1>1, <1>2, <1>5, <1>9, ContentGrows
<1>11. Grammar'
  BY <1>1, <1>2, <1>3, <1>10 DEF Grammar
<1>12. Reading'
  BY <1>1 DEF Reading
<1> QED BY <1>10, <1>11, <1>12 DEF ContentOK

LEMMA ContentEnds ==
  ASSUME CoreInv, ContentOK, PackEnd, source' = source, out' = out, Changed \subseteq Changed'
  PROVE  ContentOK'
<1>1. /\ pk.pc = "walk" /\ pk'.pc = "packed" /\ pk.agenda = <<>> /\ pk'.agenda = <<>>
      /\ stream' = stream \o <<End>>
  BY PackEndAppends
<1>2. End \in Cells /\ End.kind = "end"
  BY CellsAre DEF End
<1>3. Len(stream) \in Nat /\ Len(stream') = Len(stream) + 1 /\ stream'[Len(stream')] = End
  BY <1>1, <1>2, AppendOne
<1>4. ~(Len(stream) # 0 /\ stream[Len(stream)].kind \in {"file", "run"})
  BY <1>1 DEF ContentOK, Grammar
<1>5. \A D, n : Carries(End, D, n)
  BY <1>2 DEF Carries
<1>6. /\ \A j \in 1 .. Len(stream') :
           stream'[j].kind \in {"run", "stop"} <=> j > 1 /\ stream'[j - 1].kind \in {"file", "run"}
      /\ Content'
  BY <1>1, <1>2, <1>4, <1>5, ContentGrows
<1>7. stream' # <<>>
  BY <1>3
<1>8. Grammar'
  BY <1>1, <1>3, <1>6, <1>7 DEF Grammar
<1>9. Reading'
  BY <1>1 DEF Reading
<1> QED BY <1>6, <1>8, <1>9 DEF ContentOK

LEMMA ContentStep ==
  ASSUME CoreInv, CoreInv', ContentOK, [Next]_vars
  PROVE  ContentOK'
<1>1. source' = source /\ out' = out /\ Changed \subseteq Changed'
  BY ChangedGrows
<1>2. CASE Pack
  <2>1. CASE PackBegin
    <3>1. /\ pk.pc = "start" /\ pk'.pc \in {"walk", "failed"}
          /\ stream' = stream \o <<Record("dir", Root)>> \/ stream' = stream \o <<>>
      BY <2>1 DEF PackBegin, Packing, CoreInv, PackOK, PackStates
    <3>2. CASE stream' = stream \o <<>>
      <4>1. stream' = stream
        <5> HIDE DEF Cells
        <5> QED BY <3>2, Lens, ConcatEmptySeq
      <4> QED BY <1>1, <3>1, <4>1, ContentStays
    <3>3. CASE stream' = stream \o <<Record("dir", Root)>>
      <4>1. Record("dir", Root) \in Cells /\ Record("dir", Root).kind = "dir"
        BY RootParents, CellsAre DEF Record, Headers
      <4>2. /\ Len(stream) \in Nat /\ Len(stream') = Len(stream) + 1
            /\ stream'[Len(stream')] = Record("dir", Root)
            /\ \A i \in 1 .. Len(stream) : i \in 1 .. Len(stream') /\ stream'[i] = stream[i]
        BY <3>3, <4>1, AppendOne
      <4>3. /\ Len(stream) <= Len(stream') /\ Len(stream') \in Nat /\ Len(stream') # 0
            /\ \A i \in Len(stream) + 1 .. Len(stream') : stream'[i].kind = "dir"
        BY <4>1, <4>2
      <4> QED BY <1>1, <3>1, <4>2, <4>3, ContentDirs
    <3> QED BY <3>1, <3>2, <3>3
  <2>2. CASE Visit
    <3>1. /\ pk.pc = "walk" /\ pk'.pc = "walk"
          /\ Len(stream) <= Len(stream') /\ Len(stream') \in Nat
          /\ \A i \in 1 .. Len(stream) : stream'[i] = stream[i]
          /\ \A i \in Len(stream) + 1 .. Len(stream') : stream'[i].kind = "dir"
      BY <2>2, Visited
    <3>2. stream' # <<>> => Len(stream') # 0
      <4>1. stream' \in Seq(Cells)
        BY DEF CoreInv, PackOK
      <4> HIDE DEF Cells
      <4> QED BY <4>1, EmptySeq
    <3> QED BY <1>1, <3>1, <3>2, ContentDirs
  <2>3. CASE OpenFile
    BY <1>1, <2>3, ContentOpens
  <2>4. CASE ReadBlock
    <3>1. CASE pk.cur = out /\ stream' = stream
      BY <1>1, <2>4, <3>1, ReadAppends, ContentStays
    <3> QED BY <1>1, <2>4, <3>1, ReadAppends, ContentReads
  <2>5. CASE ReadEnds
    BY <1>1, <2>5, ContentStops
  <2>6. CASE PackEnd
    BY <1>1, <2>6, ContentEnds
  <2> QED BY <1>2, <2>1, <2>2, <2>3, <2>4, <2>5, <2>6 DEF Pack
<1>3. CASE PackFails
  BY <1>1, <1>3, PackFailsAppends, ContentStays
<1>4. CASE UNCHANGED <<pk, stream>>
  BY <1>1, <1>4, ContentStays
<1> QED BY <1>2, <1>3, <1>4, NotPacking

-----------------------------------------------------------------------------
(* The extraction.  The unpacker is in step with the stream, what it has    *)
(* made is what the records before it say, and what it made of a file that  *)
(* nobody touched is that file.                                              *)

Active == {"records", "content", "ok"}

InStep ==
  un.pc \in Active =>
    /\ un.pc = "content" <=> un.pos # 0 /\ stream[un.pos].kind \in {"file", "run"}
    /\ un.pc = "content" =>
         \E i \in 1 .. un.pos : stream[i] = Record("file", un.cur) /\ Within(i, un.pos + 1)
    /\ un.pc = "ok" <=> un.pos # 0 /\ stream[un.pos] = End

Recorded(kind, p, n) == \E i \in 1 .. n : stream[i] = Record(kind, p)

\* An entry of this kind at p comes from the first n cells.
Brought(kind, p, n) ==
  /\ Reachable(p) /\ kind \in {"dir", "file"}
  /\ kind = "dir" => Recorded("dir", p, n) \/ source[p].kind = "dir"
  /\ kind = "file" => Recorded("file", p, n)

NothingElse ==
  un.pc # "idle" =>
    \A p \in DOMAIN un.dest \ DOMAIN un.before : Brought(un.dest[p].kind, p, un.pos)

\* What there is of the file recorded at i.
Restored(i) ==
  LET p == stream[i].path
      D == source[p].data
  IN IF un.pc = "content" /\ un.cur = p
     THEN File(SubSeq(D, 1, Lesser((un.pos - i) * Block, Len(D))))
     ELSE source[p]

Restores ==
  un.pc \in Active /\ pk.pc = "packed" =>
    \A i \in 1 .. un.pos :
      /\ stream[i].kind = "dir" => IsA(un.dest, stream[i].path, {"dir"})
      /\ stream[i].kind = "file" /\ Kept(stream[i].path) =>
           stream[i].path \in DOMAIN un.dest /\ un.dest[stream[i].path] = Restored(i)

UnpackInv == InStep /\ NothingElse /\ Restores

\* An extraction finds everything else at rest.
AtRest == UNCHANGED <<source, tree, out, pk, stream>>

LEMMA OnlyUnpacking ==
  ASSUME CoreInv, [Next]_vars
  PROVE  \/ un.pc = "idle" /\ un' = un
         \/ AtRest /\ un' = un
         \/ AtRest /\ Unpack
         \/ AtRest /\ \E good \in 0 .. Len(stream), overwrite \in BOOLEAN, target \in Targets :
                        UnpackBegin(good, overwrite, target)
<1>1. un.pc = "idle" \/ pk.pc \in {"packed", "failed"}
  BY DEF CoreInv, UnpackerOK
<1>2. Pack \/ PackFails => pk.pc \notin {"packed", "failed"} /\ un' = un
  BY DEF Pack, PackFails, Packing, PackBegin, Visit, OpenFile, ReadBlock, ReadEnds, PackEnd
<1>3. \A path : Vanish(path) \/ Extend(path) => pk.pc \notin {"packed", "failed"} /\ un' = un
  BY DEF Vanish, Extend, Disturb
<1>4. Unpack => AtRest
  BY DEF Unpack, UnpackDir, UnpackFile, UnpackRun, UnpackStop, UnpackEnd, UnpackShort, Unpacking,
         AtRest, sources
<1>5. \A good, overwrite, target : UnpackBegin(good, overwrite, target) => AtRest
  BY DEF UnpackBegin, AtRest, sources
<1>6. UNCHANGED vars => AtRest /\ un' = un
  BY DEF vars, AtRest, sources
<1> QED BY <1>1, <1>2, <1>3, <1>4, <1>5, <1>6 DEF Next

LEMMA RestKeeps ==
  ASSUME AtRest
  PROVE  /\ \A i, k : Within(i, k)' <=> Within(i, k)
         /\ \A p : (Reachable(p)' <=> Reachable(p)) /\ (Kept(p)' <=> Kept(p))
         /\ \A kind, p, n : /\ Recorded(kind, p, n)' <=> Recorded(kind, p, n)
                            /\ Brought(kind, p, n)' <=> Brought(kind, p, n)
<1>1. source' = source /\ tree' = tree /\ out' = out /\ stream' = stream
  BY DEF AtRest
<1>2. Changed' = Changed
  BY <1>1 DEF Changed
<1> QED BY <1>1, <1>2 DEF Within, Reachable, Kept, Recorded, Brought

\* The next cell, if it is a record, is of something the walk could come to and
\* that no record before it is of.
LEMMA NextRecord ==
  ASSUME CoreInv, WalkOK, un.pos < un.good, Cell.kind \in {"dir", "file"}
  PROVE  /\ Cell = Record(Cell.kind, Cell.path) /\ Cell.path \in Paths /\ IsItem(Cell)
         /\ Cell.path \notin Parents(Cell.path)
         /\ \A q \in Parents(Cell.path) : Reachable(q) /\ source[q].kind = "dir"
         /\ \A i \in 1 .. un.pos : IsHeader(stream[i]) => stream[i].path # Cell.path
         /\ \A kind : ~Recorded(kind, Cell.path, un.pos) \/ kind \notin {"dir", "file"}
<1>1. /\ un.pos + 1 \in 1 .. Len(stream) /\ Cell = stream[un.pos + 1]
      /\ Cell \in Cells /\ Cell.path \in Paths /\ Cell \in Headers
  BY CellIs
<1>2. un.pos \in Nat /\ Len(stream) \in Nat
  BY Lens DEF CoreInv, UnpackerOK
<1>3. IsHeader(Cell)
  BY DEF IsHeader
<1>4. IsItem(Cell)
  BY <1>1, <1>3 DEF WalkOK, ItemsOK
<1>5. ASSUME NEW q \in Parents(Cell.path) PROVE Reachable(q) /\ source[q].kind = "dir"
  <2>1. Cell.path \in DOMAIN source /\ \A r \in Parents(Cell.path) : source[r].kind = "dir" /\ source[r].listable
    BY <1>4 DEF IsItem, Reachable
  <2>2. q \in DOMAIN source
    BY <2>1, TreePaths DEF CoreInv, SourcesOK
  <2>3. Parents(q) \subseteq Parents(Cell.path)
    BY <1>1, ParentsOfParents
  <2> QED BY <2>1, <2>2, <2>3 DEF Reachable
<1>6. Cell.path \notin Parents(Cell.path)
  <2>1. Len(Cell.path) \in Nat
    BY <1>1, PathLen
  <2> QED BY <1>1, <2>1, ParentsAre
<1>7. \A i \in 1 .. un.pos : i \in 1 .. Len(stream) /\ i # un.pos + 1
  BY <1>1, <1>2
<1>8. ASSUME NEW i \in 1 .. un.pos, IsHeader(stream[i]) PROVE stream[i].path # Cell.path
  BY <1>1, <1>3, <1>7, <1>8 DEF WalkOK, OneRecordEach
<1>9. ASSUME NEW kind \in {"dir", "file"} PROVE ~Recorded(kind, Cell.path, un.pos)
  BY <1>8 DEF Recorded, Record, IsHeader
<1>10. Cell = Record(Cell.kind, Cell.path)
  BY <1>1, HeaderCells
<1> QED BY <1>1, <1>4, <1>5, <1>6, <1>8, <1>9, <1>10

\* One more cell is as much, or more.
LEMMA MoreBrought ==
  ASSUME NEW n \in Nat, NEW kind, NEW p
  PROVE  /\ Recorded(kind, p, n) => Recorded(kind, p, n + 1)
         /\ Brought(kind, p, n) => Brought(kind, p, n + 1)
<1>1. \A i \in 1 .. n : i \in 1 .. n + 1
  OBVIOUS
<1>2. Recorded(kind, p, n) => Recorded(kind, p, n + 1)
  BY <1>1 DEF Recorded
<1>3. Recorded("dir", p, n) => Recorded("dir", p, n + 1)
  BY <1>1 DEF Recorded
<1>4. Recorded("file", p, n) => Recorded("file", p, n + 1)
  BY <1>1 DEF Recorded
<1> QED BY <1>2, <1>3, <1>4 DEF Brought

\* What a cell leaves behind, of the destination and of the places in it.
LEMMA TakesInStep ==
  ASSUME CoreInv, AtRest, un.pos < un.good,
         NEW pc \in {"records", "content", "ok"}, NEW cur, NEW dest, un' = Took(pc, cur, dest),
         pc = "content" <=> Cell.kind \in {"file", "run"},
         pc = "ok" <=> Cell = End,
         pc = "content" =>
           \E i \in 1 .. un.pos + 1 : stream[i] = Record("file", cur) /\ Within(i, un.pos + 2)
  PROVE  InStep'
<1>1. un.pos \in Nat
  BY DEF CoreInv, UnpackerOK
<1>2. un'.pc = pc /\ un'.pos = un.pos + 1 /\ un'.cur = cur
  BY DEF Took
<1>3. stream' = stream /\ \A i, k : Within(i, k)' <=> Within(i, k)
  BY RestKeeps DEF AtRest
<1>4. un'.pos # 0 /\ stream'[un'.pos] = Cell /\ un'.pos + 1 = un.pos + 2
  BY <1>1, <1>2, <1>3 DEF Cell
<1>5. ASSUME pc = "content"
      PROVE  \E i \in 1 .. un'.pos : stream'[i] = Record("file", un'.cur) /\ Within(i, un.pos + 1)'
  <2>1. PICK i \in 1 .. un.pos + 1 : stream[i] = Record("file", cur) /\ Within(i, un.pos + 2)
    BY <1>5
  <2>2. i < un.pos + 2 /\ \A j \in i + 1 .. un.pos + 1 : stream[j].kind = "run"
    BY <1>1, <2>1 DEF Within
  <2>3. i < un'.pos + 1 /\ \A j \in i + 1 .. (un'.pos + 1) - 1 : stream'[j].kind = "run"
    BY <1>1, <1>2, <1>3, <2>2
  <2>4. Within(i, un.pos + 1)'
    BY <2>3 DEF Within
  <2> QED BY <1>2, <1>3, <2>1, <2>4
<1>6. un'.pc = "content" <=> un'.pos # 0 /\ stream'[un'.pos].kind \in {"file", "run"}
  BY <1>2, <1>4
<1>7. un'.pc = "ok" <=> un'.pos # 0 /\ stream'[un'.pos] = End
  BY <1>2, <1>4 DEF End
<1> QED BY <1>2, <1>5, <1>6, <1>7 DEF InStep

LEMMA TakesBrings ==
  ASSUME CoreInv, AtRest, NothingElse, un.pc # "idle",
         NEW pc, NEW cur, NEW dest, un' = Took(pc, cur, dest),
         \A p \in DOMAIN dest \ DOMAIN un.before :
           \/ p \in DOMAIN un.dest /\ dest[p].kind = un.dest[p].kind
           \/ Brought(dest[p].kind, p, un.pos + 1)
  PROVE  NothingElse'
<1>1. un.pos \in Nat
  BY DEF CoreInv, UnpackerOK
<1>2. un'.pos = un.pos + 1 /\ un'.dest = dest /\ un'.before = un.before
  BY DEF Took
<1>3. ASSUME NEW p \in DOMAIN dest \ DOMAIN un.before
      PROVE  Brought(dest[p].kind, p, un.pos + 1)
  <2>1. CASE p \in DOMAIN un.dest /\ dest[p].kind = un.dest[p].kind
    <3>1. Brought(un.dest[p].kind, p, un.pos)
      BY <2>1 DEF NothingElse
    <3> QED BY <1>1, <2>1, <3>1, MoreBrought
  <2> QED BY <1>3, <2>1
<1>4. \A kind, p, n : Brought(kind, p, n)' <=> Brought(kind, p, n)
  BY RestKeeps
<1>5. \A p \in DOMAIN un'.dest \ DOMAIN un'.before : Brought(un'.dest[p].kind, p, un'.pos)
  BY <1>2, <1>3
<1> QED BY <1>4, <1>5 DEF NothingElse

\* The records before a record keep what they brought.
LEMMA TakesRestores ==
  ASSUME CoreInv, WalkOK, AtRest, Restores, un.pc = "records", un.pos < un.good,
         Cell.kind \in {"dir", "file"},
         NEW pc, NEW cur, NEW dest, un' = Took(pc, cur, dest),
         \A p \in DOMAIN un.dest : p # Cell.path => p \in DOMAIN dest /\ dest[p] = un.dest[p],
         pc = "content" => cur = Cell.path,
         Cell.kind = "dir" => IsA(dest, Cell.path, {"dir"}) /\ pc = "records",
         Cell.kind = "file" => Cell.path \in DOMAIN dest /\ dest[Cell.path] = File(<<>>) /\ pc = "content"
  PROVE  Restores'
<1> SUFFICES ASSUME pk.pc = "packed", NEW i \in 1 .. un.pos + 1
             PROVE  /\ stream[i].kind = "dir" => IsA(dest, stream[i].path, {"dir"})
                    /\ stream[i].kind = "file" /\ Kept(stream[i].path) =>
                         stream[i].path \in DOMAIN dest /\ dest[stream[i].path] = Restored(i)'
  <2>1. stream' = stream /\ pk' = pk /\ un'.pos = un.pos + 1 /\ un'.dest = dest
    BY DEF AtRest, Took
  <2>2. \A p : Kept(p)' <=> Kept(p)
    BY RestKeeps
  <2>3. \A j : Kept(stream[j].path)' <=> Kept(stream[j].path)
    BY <2>1, <2>2
  <2> QED BY <2>1, <2>3, Zenon DEF Restores
<1>1. /\ un'.pc = pc /\ un'.cur = cur /\ un'.pos = un.pos + 1
      /\ source' = source /\ stream' = stream
  BY DEF Took, AtRest
<1>2. un.pos \in Nat /\ stream[un.pos + 1] = Cell
  BY DEF CoreInv, UnpackerOK, Cell
<1>3. /\ \A j \in 1 .. un.pos : IsHeader(stream[j]) => stream[j].path # Cell.path
  BY NextRecord
<1>4. CASE i \in 1 .. un.pos
  <2>1. ASSUME stream[i].kind = "dir" PROVE IsA(dest, stream[i].path, {"dir"})
    <3>1. IsA(un.dest, stream[i].path, {"dir"})
      BY <1>4, <2>1 DEF Restores, Active
    <3>2. stream[i].path # Cell.path
      BY <1>3, <1>4, <2>1 DEF IsHeader
    <3> QED BY <3>1, <3>2 DEF IsA
  <2>2. ASSUME stream[i].kind = "file", Kept(stream[i].path)
        PROVE  stream[i].path \in DOMAIN dest /\ dest[stream[i].path] = Restored(i)'
    <3>1. stream[i].path \in DOMAIN un.dest /\ un.dest[stream[i].path] = source[stream[i].path]
      BY <1>4, <2>2 DEF Restores, Restored, Active
    <3>2. stream[i].path # Cell.path
      BY <1>3, <1>4, <2>2 DEF IsHeader
    <3>3. Restored(i)' = source[stream[i].path]
      BY <1>1, <3>2 DEF Restored
    <3> QED BY <3>1, <3>2, <3>3
  <2> QED BY <2>1, <2>2
<1>5. CASE i = un.pos + 1
  <2>1. ASSUME Cell.kind = "file", Kept(Cell.path)
        PROVE  Cell.path \in DOMAIN dest /\ dest[Cell.path] = Restored(i)'
    <3> DEFINE D == source[Cell.path].data
    <3>1. Restored(i)' = File(SubSeq(D, 1, Lesser((un'.pos - i) * Block, Len(D))))
      BY <1>1, <1>2, <1>5, <2>1 DEF Restored
    <3>2. D \in Seq(Nat)
      <4>1. IsItem(Cell) /\ source[Cell.path].kind = "file"
        <5>1. un.pos + 1 \in 1 .. Len(stream)
          BY CellIs
        <5> QED BY <1>2, <2>1, <5>1, NextRecord DEF WalkOK, NoPipes, Walks
      <4>2. IsA(source, Cell.path, {"file"})
        BY <4>1 DEF IsItem, Reachable, IsA
      <4> QED BY <4>2, FileData DEF CoreInv, SourcesOK
    <3> HIDE DEF D
    <3>3. (un'.pos - i) * Block = 0
      BY <1>1, <1>2, <1>5, ArchiveStreamAssumption
    <3>4. Lesser(0, Len(D)) = 0
      BY <3>2, LenProperties DEF Lesser
    <3>5. SubSeq(D, 1, 0) = <<>>
      BY <3>2, PartLength
    <3> QED BY <2>1, <3>1, <3>3, <3>4, <3>5
  <2> QED BY <1>2, <1>5, <2>1
<1> QED BY <1>2, <1>4, <1>5

\* An extraction that stops has the destination as it was.
LEMMA StopsUnpack ==
  ASSUME CoreInv, UnpackInv, AtRest, un.pc # "idle", un' = [un EXCEPT !.pc = "failed"]
  PROVE  UnpackInv'
<1>1. /\ un'.pc = "failed" /\ un'.pos = un.pos /\ un'.dest = un.dest /\ un'.before = un.before
  BY DEF CoreInv, UnpackerOK
<1>2. \A kind, p, n : Brought(kind, p, n)' <=> Brought(kind, p, n)
  BY RestKeeps
<1>3. InStep' /\ Restores'
  BY <1>1 DEF InStep, Restores, Active
<1>4. \A p \in DOMAIN un'.dest \ DOMAIN un'.before : Brought(un'.dest[p].kind, p, un'.pos)
  BY <1>1 DEF UnpackInv, NothingElse
<1>5. NothingElse'
  BY <1>2, <1>4 DEF NothingElse
<1> QED BY <1>3, <1>5 DEF UnpackInv

LEMMA UnpackBeginKeeps ==
  ASSUME CoreInv, AtRest, NEW good \in 0 .. Len(stream), NEW overwrite \in BOOLEAN,
         NEW target \in Targets, UnpackBegin(good, overwrite, target)
  PROVE  UnpackInv'
<1>1. /\ un'.pc = "records" /\ un'.pos = 0 /\ un'.dest = target /\ un'.before = target
  BY DEF UnpackBegin, CoreInv, UnpackerOK
<1>2. InStep'
  BY <1>1 DEF InStep
<1>3. NothingElse'
  BY <1>1 DEF NothingElse
<1>4. Restores'
  BY <1>1 DEF Restores
<1> QED BY <1>2, <1>3, <1>4 DEF UnpackInv

LEMMA UnpackDirKeeps ==
  ASSUME CoreInv, WalkOK, UnpackInv, AtRest, UnpackDir
  PROVE  UnpackInv'
<1> DEFINE path == Cell.path
           dirs == Parents(path) \cup {path}
           raises == Unsafe(path) \/ Blocked(dirs)
           dest == WithDirs(dirs)
<1>1. /\ un.pc = "records" /\ un.pos < un.good /\ Cell.kind = "dir"
      /\ un' = IF raises THEN [un EXCEPT !.pc = "failed"]
               ELSE [[un EXCEPT !.dest = dest] EXCEPT !.pos = @ + 1]
  BY DEF UnpackDir, Unpacking
<1>2. /\ DOMAIN dest = DOMAIN un.dest \cup dirs
      /\ \A p \in DOMAIN un.dest : dest[p] = un.dest[p]
      /\ \A p \in dirs \ DOMAIN un.dest : dest[p].kind = "dir"
  BY DEF WithDirs, Dir
<1>3. ~raises => \A p \in dirs : IsA(dest, p, {"dir"})
  BY <1>2 DEF Blocked, IsA
<1>4. /\ Cell = Record("dir", path) /\ IsItem(Cell)
      /\ \A q \in Parents(path) : Reachable(q) /\ source[q].kind = "dir"
  BY <1>1, NextRecord
<1>5. un.pos \in Nat /\ Cell = stream[un.pos + 1]
  BY DEF CoreInv, UnpackerOK, Cell
<1>6. path \in dirs /\ Parents(path) \subseteq dirs /\ \A p \in dirs : p = path \/ p \in Parents(path)
  OBVIOUS
<1> HIDE DEF raises, dest, path, dirs
<1>7. CASE raises
  BY <1>1, <1>7, StopsUnpack
<1>8. CASE ~raises
  <2>1. un' = Took("records", un.cur, dest)
    BY <1>1, <1>8 DEF CoreInv, UnpackerOK, Took
  <2>2. Cell # End
    BY <1>1 DEF End
  <2>3. InStep'
    BY <1>1, <2>1, <2>2, TakesInStep
  <2>4. ASSUME NEW p \in dirs PROVE Brought("dir", p, un.pos + 1)
    <3>1. CASE p = path
      <4>1. Recorded("dir", p, un.pos + 1)
        BY <1>4, <1>5, <3>1 DEF Recorded
      <4>2. Reachable(p)
        BY <1>4, <3>1 DEF IsItem, path
      <4> QED BY <4>1, <4>2 DEF Brought
    <3>2. CASE p \in Parents(path)
      BY <1>4, <3>2 DEF Brought
    <3> QED BY <1>6, <3>1, <3>2
  <2>5. \A p \in DOMAIN dest \ DOMAIN un.before :
          \/ p \in DOMAIN un.dest /\ dest[p].kind = un.dest[p].kind
          \/ Brought(dest[p].kind, p, un.pos + 1)
    <3>1. \A p \in dirs \ DOMAIN un.dest : Brought(dest[p].kind, p, un.pos + 1)
      BY <1>2, <2>4
    <3> QED BY <1>2, <3>1
  <2>6. NothingElse'
    BY <1>1, <2>1, <2>5, TakesBrings DEF UnpackInv
  <2>7. IsA(dest, Cell.path, {"dir"}) /\ \A p \in DOMAIN un.dest : p \in DOMAIN dest /\ dest[p] = un.dest[p]
    BY <1>2, <1>3, <1>6, <1>8 DEF path
  <2>8. Restores'
    BY <1>1, <2>1, <2>7, TakesRestores DEF UnpackInv
  <2> QED BY <2>3, <2>6, <2>8 DEF UnpackInv
<1> QED BY <1>7, <1>8

LEMMA UnpackFileKeeps ==
  ASSUME CoreInv, WalkOK, UnpackInv, AtRest, UnpackFile
  PROVE  UnpackInv'
<1> DEFINE path == Cell.path
           raises == Unsafe(path) \/ Blocked(Parents(path)) \/ InTheWay(path)
           dest == With(WithDirs(Parents(path)), path, File(<<>>))
<1>1. /\ un.pc = "records" /\ un.pos < un.good /\ Cell.kind = "file"
      /\ un' = IF raises THEN [un EXCEPT !.pc = "failed"]
               ELSE [[un EXCEPT !.pc = "content", !.cur = path, !.dest = dest] EXCEPT !.pos = @ + 1]
  BY DEF UnpackFile, Unpacking
<1>2. /\ DOMAIN dest = DOMAIN un.dest \cup Parents(path) \cup {path}
      /\ dest[path] = File(<<>>)
      /\ \A p \in DOMAIN un.dest : p # path => dest[p] = un.dest[p]
      /\ \A p \in Parents(path) \ DOMAIN un.dest : p # path => dest[p].kind = "dir"
  BY DEF WithDirs, With, Dir
<1>3. File(<<>>).kind = "file"
  BY DEF File
<1>4. /\ Cell = Record("file", path) /\ IsItem(Cell)
      /\ \A q \in Parents(path) : Reachable(q) /\ source[q].kind = "dir"
  BY <1>1, NextRecord
<1>5. un.pos \in Nat /\ Cell = stream[un.pos + 1]
  BY DEF CoreInv, UnpackerOK, Cell
<1> HIDE DEF raises, dest, path
<1>6. CASE raises
  BY <1>1, <1>6, StopsUnpack
<1>7. CASE ~raises
  <2>1. un' = Took("content", path, dest)
    BY <1>1, <1>7 DEF CoreInv, UnpackerOK, Took
  <2>2. Cell # End
    BY <1>1 DEF End
  <2>3. un.pos + 1 \in 1 .. un.pos + 1 /\ stream[un.pos + 1] = Record("file", path)
        /\ Within(un.pos + 1, un.pos + 2)
    BY <1>4, <1>5 DEF Within
  <2>4. InStep'
    BY <1>1, <2>1, <2>2, <2>3, TakesInStep
  <2>5. Brought("file", path, un.pos + 1)
    <3>1. Recorded("file", path, un.pos + 1)
      BY <2>3 DEF Recorded
    <3>2. Reachable(path)
      BY <1>4 DEF IsItem, path
    <3> QED BY <3>1, <3>2 DEF Brought
  <2>6. \A p \in Parents(path) : Brought("dir", p, un.pos + 1)
    BY <1>4 DEF Brought
  <2>7. \A p \in DOMAIN dest \ DOMAIN un.before :
          \/ p \in DOMAIN un.dest /\ dest[p].kind = un.dest[p].kind
          \/ Brought(dest[p].kind, p, un.pos + 1)
    BY <1>2, <1>3, <2>5, <2>6
  <2>8. NothingElse'
    BY <1>1, <2>1, <2>7, TakesBrings DEF UnpackInv
  <2>9. Restores'
    BY <1>1, <1>2, <2>1, TakesRestores DEF UnpackInv, path
  <2> QED BY <2>4, <2>8, <2>9 DEF UnpackInv
<1> QED BY <1>6, <1>7

\* After n blocks of a file, one more.
LEMMA OneBlockMore ==
  ASSUME NEW D \in Seq(Nat), NEW n \in Nat, n * Block < Len(D)
  PROVE  SubSeq(D, 1, Lesser(n * Block, Len(D)))
           \o SubSeq(D, n * Block + 1, Lesser((n + 1) * Block, Len(D)))
         = SubSeq(D, 1, Lesser((n + 1) * Block, Len(D)))
<1>0. Block \in Nat \ {0} /\ Len(D) \in Nat
  BY ArchiveStreamAssumption, LenProperties
<1> DEFINE z == n * Block
           hi == Lesser((n + 1) * Block, Len(D))
<1>1. z \in Nat /\ (n + 1) * Block = z + Block /\ z < Len(D)
  BY <1>0
<1>2. Lesser(n * Block, Len(D)) = z
  BY <1>1 DEF Lesser
<1>3. hi = Lesser(z + Block, Len(D))
  BY <1>1
<1> HIDE DEF z, hi
<1>4. hi \in Nat /\ z <= hi /\ hi <= Len(D)
  BY <1>0, <1>1, <1>3 DEF Lesser
<1>5. SubSeq(D, 1, z) \o SubSeq(D, z + 1, hi) = SubSeq(D, 1, hi)
  BY <1>0, <1>1, <1>4, ConcatAdjacentSubSeq
<1> QED BY <1>2, <1>5 DEF z, hi

\* The file that is written, and its record.
LEMMA Writing ==
  ASSUME CoreInv, WalkOK, ContentOK, UnpackInv, un.pc = "content", un.pos < un.good
  PROVE  \E i \in 1 .. un.pos :
           /\ stream[i] = Record("file", un.cur) /\ Within(i, un.pos + 1)
           /\ un.pos - i \in Nat
           /\ \A j \in 1 .. un.pos : IsHeader(stream[j]) => stream[j].path # un.cur \/ j = i
           /\ pk.pc = "packed" /\ Kept(un.cur) =>
                /\ source[un.cur] = File(source[un.cur].data) /\ source[un.cur].data \in Seq(Nat)
                /\ un.dest[un.cur] =
                     File(SubSeq(source[un.cur].data, 1,
                                 Lesser((un.pos - i) * Block, Len(source[un.cur].data))))
                /\ Carries(Cell, source[un.cur].data, un.pos - i)
<1>1. PICK i \in 1 .. un.pos : stream[i] = Record("file", un.cur) /\ Within(i, un.pos + 1)
  BY DEF UnpackInv, InStep, Active
<1>2. un.pos \in Nat /\ un.pos + 1 \in 1 .. Len(stream) /\ Cell = stream[un.pos + 1] /\ Len(stream) \in Nat
  BY CellIs, Lens DEF CoreInv, UnpackerOK
<1>3. \A j \in 1 .. un.pos : j \in 1 .. Len(stream)
  BY <1>2
<1>4. stream[i].kind = "file" /\ stream[i].path = un.cur /\ IsHeader(stream[i])
  BY <1>1 DEF Record, IsHeader
<1>5. \A j \in 1 .. un.pos : IsHeader(stream[j]) => stream[j].path # un.cur \/ j = i
  BY <1>3, <1>4 DEF WalkOK, OneRecordEach
<1>6. un.pos - i \in Nat
  BY <1>2
<1>7. ASSUME pk.pc = "packed", Kept(un.cur)
      PROVE  /\ source[un.cur] = File(source[un.cur].data) /\ source[un.cur].data \in Seq(Nat)
             /\ un.dest[un.cur] =
                  File(SubSeq(source[un.cur].data, 1,
                              Lesser((un.pos - i) * Block, Len(source[un.cur].data))))
             /\ Carries(Cell, source[un.cur].data, un.pos - i)
  <2>1. source[un.cur].kind = "file"
    BY <1>3, <1>4, <1>7 DEF WalkOK, NoPipes, Walks
  <2>2. un.cur \in DOMAIN source
    BY <1>3, <1>4 DEF WalkOK, ItemsOK, IsItem, Reachable
  <2>3. source[un.cur] = File(source[un.cur].data) /\ source[un.cur].data \in Seq(Nat)
    BY <2>1, <2>2, FileData DEF CoreInv, SourcesOK, IsA
  <2>4. un.dest[un.cur] = Restored(i)
    BY <1>4, <1>7 DEF UnpackInv, Restores, Active
  <2> DEFINE k == un.pos + 1
  <2>5. k \in 1 .. Len(stream) /\ Within(i, k) /\ Cell = stream[k] /\ k - i - 1 = un.pos - i
    BY <1>1, <1>2
  <2> HIDE DEF k
  <2>6. Carries(stream[k], source[stream[i].path].data, k - i - 1)
    BY <1>3, <1>4, <1>7, <2>5, Zenon DEF ContentOK, Content
  <2> QED BY <1>4, <2>3, <2>4, <2>5, <2>6 DEF Restored
<1> QED BY <1>1, <1>5, <1>6, <1>7

LEMMA UnpackRunKeeps ==
  ASSUME CoreInv, WalkOK, ContentOK, UnpackInv, AtRest, UnpackRun
  PROVE  UnpackInv'
<1> DEFINE data == Cell.data
           old  == un.dest[un.cur].data
           dest == [un.dest EXCEPT ![un.cur].data = @ \o data]
<1>1. /\ un.pc = "content" /\ un.pos < un.good /\ Cell.kind = "run"
      /\ un' = [[un EXCEPT !.dest = dest] EXCEPT !.pos = @ + 1]
  BY DEF UnpackRun, Unpacking
<1>2. un.cur \in DOMAIN un.dest /\ un.dest[un.cur] = File(old)
  BY <1>1 DEF CoreInv, UnpackerOK
<1>3. /\ DOMAIN dest = DOMAIN un.dest
      /\ \A p \in DOMAIN un.dest : p # un.cur => dest[p] = un.dest[p]
      /\ dest[un.cur] = [un.dest[un.cur] EXCEPT !.data = old \o data]
  BY <1>2
<1>4. un' = Took("content", un.cur, dest)
  BY <1>1 DEF CoreInv, UnpackerOK, Took
<1>5. un.pos \in Nat /\ Cell = stream[un.pos + 1]
  BY DEF CoreInv, UnpackerOK, Cell
<1> HIDE DEF dest, old, data
<1>6. dest[un.cur] = File(old \o data)
  <2>1. dest[un.cur] = [File(old) EXCEPT !.data = old \o data]
    BY <1>2, <1>3, Zenon
  <2> QED BY <2>1 DEF File
<1>7. PICK i \in 1 .. un.pos :
        /\ stream[i] = Record("file", un.cur) /\ Within(i, un.pos + 1)
        /\ un.pos - i \in Nat
        /\ \A j \in 1 .. un.pos : IsHeader(stream[j]) => stream[j].path # un.cur \/ j = i
        /\ pk.pc = "packed" /\ Kept(un.cur) =>
             /\ source[un.cur] = File(source[un.cur].data) /\ source[un.cur].data \in Seq(Nat)
             /\ un.dest[un.cur] =
                  File(SubSeq(source[un.cur].data, 1,
                              Lesser((un.pos - i) * Block, Len(source[un.cur].data))))
             /\ Carries(Cell, source[un.cur].data, un.pos - i)
  BY <1>1, Writing
<1>8. InStep'
  <2>1. Cell # End
    BY <1>1 DEF End
  <2>2. i \in 1 .. un.pos + 1 /\ Within(i, un.pos + 2)
    <3>1. i < un.pos + 1 /\ \A j \in i + 1 .. (un.pos + 1) - 1 : stream[j].kind = "run"
      BY <1>7 DEF Within
    <3>2. \A j \in i + 1 .. (un.pos + 2) - 1 : j \in i + 1 .. (un.pos + 1) - 1 \/ j = un.pos + 1
      BY <1>5
    <3>3. \A j \in i + 1 .. (un.pos + 2) - 1 : stream[j].kind = "run"
      BY <1>1, <1>5, <3>1, <3>2
    <3>4. i < un.pos + 2 /\ i \in 1 .. un.pos + 1
      BY <1>5
    <3> QED BY <3>3, <3>4 DEF Within
  <2> QED BY <1>1, <1>4, <1>7, <2>1, <2>2, TakesInStep
<1>9. NothingElse'
  <2>1. dest[un.cur].kind = un.dest[un.cur].kind
    <3>1. File(old \o data).kind = "file" /\ File(old).kind = "file"
      BY DEF File
    <3> QED BY <1>2, <1>6, <3>1
  <2>2. \A p \in DOMAIN dest : p \in DOMAIN un.dest /\ dest[p].kind = un.dest[p].kind
    BY <1>3, <2>1
  <2>3. un.pc # "idle" /\ NothingElse
    BY <1>1 DEF UnpackInv
  <2> QED BY <1>4, <2>2, <2>3, TakesBrings
<1>10. Restores'
  <2> SUFFICES ASSUME pk.pc = "packed", NEW j \in 1 .. un.pos + 1
               PROVE  /\ stream[j].kind = "dir" => IsA(dest, stream[j].path, {"dir"})
                      /\ stream[j].kind = "file" /\ Kept(stream[j].path) =>
                           stream[j].path \in DOMAIN dest /\ dest[stream[j].path] = Restored(j)'
    <3>1. stream' = stream /\ pk' = pk /\ un'.pos = un.pos + 1 /\ un'.dest = dest
      BY <1>4 DEF AtRest, Took
    <3>2. \A p : Kept(p)' <=> Kept(p)
      BY RestKeeps
    <3>3. \A k : Kept(stream[k].path)' <=> Kept(stream[k].path)
      BY <3>1, <3>2
    <3> QED BY <3>1, <3>3, Zenon DEF Restores
  <2>1. /\ un'.pc = "content" /\ un'.cur = un.cur /\ un'.pos = un.pos + 1
        /\ source' = source /\ stream' = stream
    BY <1>4 DEF Took, AtRest
  <2>2. CASE j \in 1 .. un.pos /\ IsHeader(stream[j]) /\ stream[j].path # un.cur
    <3>1. ASSUME stream[j].kind = "dir" PROVE IsA(dest, stream[j].path, {"dir"})
      <4>1. IsA(un.dest, stream[j].path, {"dir"})
        BY <1>1, <2>2, <3>1 DEF UnpackInv, Restores, Active
      <4> QED BY <1>3, <2>2, <4>1 DEF IsA
    <3>2. ASSUME stream[j].kind = "file", Kept(stream[j].path)
          PROVE  stream[j].path \in DOMAIN dest /\ dest[stream[j].path] = Restored(j)'
      <4>1. stream[j].path \in DOMAIN un.dest /\ un.dest[stream[j].path] = source[stream[j].path]
        BY <1>1, <2>2, <3>2 DEF UnpackInv, Restores, Restored, Active
      <4>2. Restored(j)' = source[stream[j].path]
        BY <2>1, <2>2 DEF Restored
      <4> QED BY <1>3, <2>2, <4>1, <4>2
    <3> QED BY <3>1, <3>2
  <2>3. CASE j = i
    <3>1. stream[j].kind = "file" /\ stream[j].path = un.cur
      BY <1>7, <2>3 DEF Record
    <3>2. ASSUME Kept(un.cur) PROVE dest[un.cur] = Restored(j)'
      <4> DEFINE D == source[un.cur].data
                 n == un.pos - i
      <4>1. Restored(j)' = File(SubSeq(D, 1, Lesser((un'.pos - j) * Block, Len(D))))
        BY <2>1, <3>1 DEF Restored
      <4>2. un'.pos - j = n + 1
        BY <1>5, <2>1, <2>3
      <4>3. /\ D \in Seq(Nat) /\ n \in Nat
            /\ un.dest[un.cur] = File(SubSeq(D, 1, Lesser(n * Block, Len(D))))
            /\ Carries(Cell, D, n)
        BY <1>7, <3>2
      <4> HIDE DEF D, n
      <4>4. n * Block < Len(D) /\ data = SubSeq(D, n * Block + 1, Lesser((n + 1) * Block, Len(D)))
        BY <1>1, <4>3 DEF Carries, data
      <4>5. old = SubSeq(D, 1, Lesser(n * Block, Len(D)))
        <5>1. \A x : File(x).data = x
          BY DEF File
        <5>2. old = File(SubSeq(D, 1, Lesser(n * Block, Len(D)))).data
          BY <4>3, Zenon DEF old
        <5> QED BY <5>1, <5>2, Zenon
      <4>6. old \o data = SubSeq(D, 1, Lesser((n + 1) * Block, Len(D)))
        BY <4>3, <4>4, <4>5, OneBlockMore
      <4> QED BY <1>6, <4>1, <4>2, <4>6
    <3> QED BY <1>2, <1>3, <3>1, <3>2
  <2>4. ~IsHeader(stream[j]) => stream[j].kind \notin {"dir", "file"}
    BY DEF IsHeader
  <2>5. j \in 1 .. un.pos \/ ~IsHeader(stream[j])
    <3>1. j \in 1 .. un.pos \/ j = un.pos + 1
      BY <1>5
    <3> QED BY <1>1, <1>5, <3>1 DEF IsHeader
  <2> QED BY <1>7, <2>2, <2>3, <2>4, <2>5
<1> QED BY <1>8, <1>9, <1>10 DEF UnpackInv

\* A cell that changes nothing in the destination.
LEMMA TakesNoRecord ==
  ASSUME CoreInv, WalkOK, UnpackInv, AtRest, un.pc \in Active, un.pos < un.good,
         Cell.kind \in {"stop", "end"},
         NEW pc \in {"records", "ok"}, NEW cur, un' = Took(pc, cur, un.dest),
         pc = "ok" <=> Cell = End,
         \A j \in 1 .. un.pos :
           pk.pc = "packed" /\ stream[j].kind = "file" /\ Kept(stream[j].path) =>
             Restored(j) = source[stream[j].path]
  PROVE  UnpackInv'
<1>1. un.pos \in Nat /\ Cell = stream[un.pos + 1]
  BY DEF CoreInv, UnpackerOK, Cell
<1>2. InStep'
  <2>1. pc # "content" /\ Cell.kind \notin {"file", "run"}
    OBVIOUS
  <2> QED BY <2>1, TakesInStep
<1>3. NothingElse'
  <2>1. un.pc # "idle" /\ NothingElse
    BY DEF UnpackInv, Active
  <2> QED BY <2>1, TakesBrings
<1>4. Restores'
  <2>1. /\ stream' = stream /\ pk' = pk /\ un'.pos = un.pos + 1 /\ un'.dest = un.dest
        /\ un'.pc # "content" /\ source' = source
    BY DEF AtRest, Took
  <2>2. \A k : Kept(stream[k].path)' <=> Kept(stream[k].path)
    BY <2>1, RestKeeps
  <2>3. \A k : Restored(k)' = source[stream[k].path]
    BY <2>1 DEF Restored
  <2>4. ASSUME pk.pc = "packed", NEW j \in 1 .. un.pos + 1
        PROVE  /\ stream[j].kind = "dir" => IsA(un.dest, stream[j].path, {"dir"})
               /\ stream[j].kind = "file" /\ Kept(stream[j].path) =>
                    stream[j].path \in DOMAIN un.dest /\ un.dest[stream[j].path] = Restored(j)'
    <3>1. j \in 1 .. un.pos \/ j = un.pos + 1
      BY <1>1
    <3>2. CASE j = un.pos + 1
      BY <1>1, <3>2
    <3>3. CASE j \in 1 .. un.pos
      BY <2>3, <2>4, <3>3 DEF UnpackInv, Restores
    <3> QED BY <3>1, <3>2, <3>3
  <2> QED BY <2>1, <2>2, <2>4, Zenon DEF Restores
<1> QED BY <1>2, <1>3, <1>4 DEF UnpackInv

LEMMA UnpackStopKeeps ==
  ASSUME CoreInv, WalkOK, ContentOK, UnpackInv, AtRest, UnpackStop
  PROVE  UnpackInv'
<1>1. /\ un.pc = "content" /\ un.pos < un.good /\ Cell.kind = "stop"
      /\ un' = [[un EXCEPT !.pc = "records", !.cur = <<>>] EXCEPT !.pos = @ + 1]
  BY DEF UnpackStop, Unpacking
<1>2. un' = Took("records", <<>>, un.dest)
  BY <1>1 DEF CoreInv, UnpackerOK, Took
<1>3. Cell # End
  BY <1>1 DEF End
<1>4. ASSUME NEW j \in 1 .. un.pos, pk.pc = "packed", stream[j].kind = "file", Kept(stream[j].path)
      PROVE  Restored(j) = source[stream[j].path]
  <2>1. CASE stream[j].path # un.cur
    BY <2>1 DEF Restored
  <2>2. CASE stream[j].path = un.cur
    <3> DEFINE D == source[un.cur].data
    <3>1. PICK i \in 1 .. un.pos :
            /\ stream[i] = Record("file", un.cur) /\ Within(i, un.pos + 1)
            /\ un.pos - i \in Nat
            /\ \A k \in 1 .. un.pos : IsHeader(stream[k]) => stream[k].path # un.cur \/ k = i
            /\ pk.pc = "packed" /\ Kept(un.cur) =>
                 /\ source[un.cur] = File(D) /\ D \in Seq(Nat)
                 /\ un.dest[un.cur] = File(SubSeq(D, 1, Lesser((un.pos - i) * Block, Len(D))))
                 /\ Carries(Cell, D, un.pos - i)
      BY <1>1, Writing
    <3>2. j = i
      BY <1>4, <2>2, <3>1 DEF IsHeader
    <3>3. Restored(j) = File(SubSeq(D, 1, Lesser((un.pos - i) * Block, Len(D))))
      BY <1>1, <2>2, <3>2 DEF Restored
    <3>4. source[un.cur] = File(D) /\ D \in Seq(Nat) /\ Carries(Cell, D, un.pos - i)
      BY <1>4, <2>2, <3>1
    <3> DEFINE z == (un.pos - i) * Block
    <3>5. z \in Nat /\ z >= Len(D)
      BY <1>1, <3>1, <3>4, ArchiveStreamAssumption DEF Carries
    <3> HIDE DEF D, z
    <3>6. Lesser(z, Len(D)) = Len(D)
      BY <3>4, <3>5, LenProperties DEF Lesser
    <3>7. SubSeq(D, 1, Len(D)) = D
      BY <3>4, SubSeqFull
    <3> QED BY <2>2, <3>3, <3>4, <3>6, <3>7 DEF z
  <2> QED BY <2>1, <2>2
<1> QED BY <1>1, <1>2, <1>3, <1>4, TakesNoRecord DEF Active

LEMMA UnpackEndKeeps ==
  ASSUME CoreInv, WalkOK, UnpackInv, AtRest, UnpackEnd
  PROVE  UnpackInv'
<1>1. /\ un.pc = "records" /\ un.pos < un.good /\ Cell.kind = "end"
      /\ un' = [[un EXCEPT !.pc = "ok"] EXCEPT !.pos = @ + 1]
  BY DEF UnpackEnd, Unpacking
<1>2. un' = Took("ok", un.cur, un.dest)
  BY <1>1 DEF CoreInv, UnpackerOK, Took
<1>3. Cell = End
  BY <1>1, CellIs
<1>4. \A j : Restored(j) = source[stream[j].path]
  BY <1>1 DEF Restored
<1> QED BY <1>1, <1>2, <1>3, <1>4, TakesNoRecord DEF Active

LEMMA UnpackKeeps ==
  ASSUME CoreInv, WalkOK, ContentOK, UnpackInv, [Next]_vars
  PROVE  UnpackInv'
<1>1. CASE un.pc = "idle" /\ un' = un
  BY <1>1 DEF UnpackInv, InStep, NothingElse, Restores, Active
<1>2. CASE AtRest /\ un' = un
  <2>1. stream' = stream /\ pk' = pk /\ source' = source /\ un' = un
    BY <1>2 DEF AtRest
  <2>2. /\ \A i, k : Within(i, k)' <=> Within(i, k)
        /\ \A p : Kept(p)' <=> Kept(p)
        /\ \A kind, p, n : Brought(kind, p, n)' <=> Brought(kind, p, n)
    BY <1>2, RestKeeps
  <2>3. InStep'
    BY <2>1, <2>2 DEF UnpackInv, InStep
  <2>4. NothingElse'
    BY <2>1, <2>2 DEF UnpackInv, NothingElse
  <2>5. \A i : Restored(i)' = Restored(i)
    BY <2>1 DEF Restored
  <2>6. Restores'
    BY <2>1, <2>2, <2>5 DEF UnpackInv, Restores
  <2> QED BY <2>3, <2>4, <2>6 DEF UnpackInv
<1>3. CASE AtRest /\ Unpack
  <2>1. UnpackShort => un.pc # "idle" /\ un' = [un EXCEPT !.pc = "failed"]
    BY DEF UnpackShort, ShortOutcome
  <2> QED BY <1>3, <2>1, StopsUnpack, UnpackDirKeeps, UnpackFileKeeps, UnpackRunKeeps, UnpackStopKeeps,
             UnpackEndKeeps DEF Unpack
<1>4. CASE AtRest /\ \E good \in 0 .. Len(stream), overwrite \in BOOLEAN, target \in Targets :
                       UnpackBegin(good, overwrite, target)
  BY <1>4, UnpackBeginKeeps
<1> QED BY <1>1, <1>2, <1>3, <1>4, OnlyUnpacking

LEMMA UnpackInit == Init => UnpackInv
<1> SUFFICES ASSUME Init PROVE UnpackInv
  OBVIOUS
<1>1. un.pc = "idle"
  BY DEF Init
<1> QED BY <1>1 DEF UnpackInv, InStep, NothingElse, Restores, Active

ArchiveInv == CoreInv /\ Spared /\ WalkOK /\ ContentOK /\ UnpackInv

LEMMA ArchiveInvHolds == Spec => []ArchiveInv
<1>1. Init => ArchiveInv
  BY CoreInit, WalkInit, ContentInit, UnpackInit DEF ArchiveInv
<1>2. ArchiveInv /\ [Next]_vars => ArchiveInv'
  BY CoreStep, WalkStep, ContentStep, UnpackKeeps DEF ArchiveInv
<1> QED BY <1>1, <1>2, PTL DEF Spec

\* What was packed to its end has the terminator last, and nothing before it
\* is left to walk.
LEMMA PackedIsWhole ==
  ASSUME ArchiveInv, pk.pc = "packed"
  PROVE  /\ Len(stream) \in Nat \ {0} /\ stream[Len(stream)] = End
         /\ \A p : ~Ahead(p)
         /\ un.pc \in {"records", "content"} => un.pos # Len(stream)
<1>1. stream # <<>> /\ stream[Len(stream)] = End /\ pk.agenda = <<>>
  BY DEF ArchiveInv, ContentOK, Grammar
<1>2. Len(stream) \in Nat /\ stream \in Seq(Cells)
  BY Lens DEF ArchiveInv
<1>3. Len(stream) # 0
  <2> HIDE DEF Cells
  <2> QED BY <1>1, <1>2, EmptySeq
<1>4. Len(pk.agenda) = 0
  BY <1>1
<1>5. \A p : ~Ahead(p)
  BY <1>4 DEF Ahead
<1>6. un.pc \in {"records", "content"} => un.pos # Len(stream)
  BY <1>1, <1>3 DEF ArchiveInv, UnpackInv, InStep, Active
<1> QED BY <1>1, <1>2, <1>3, <1>5, <1>6

\* ComesBack: whatever the source holds, however the walk and the changes of
\* others interleave, and wherever the output lies, an extraction that succeeds
\* has brought back every entry that nobody else touched, with what it held, and
\* has added nothing that the source did not have (archive.py 76-98, 112-160).
THEOREM EverythingComesBack == Spec => []ComesBack
<1>1. ASSUME ArchiveInv PROVE ComesBack
  <2> SUFFICES ASSUME un.pc = "ok", IsA(source, Root, {"dir", "file"})
               PROVE  /\ \A p \in Archived \ ({out} \cup Changed) :
                           IF source[p].kind = "dir" THEN IsA(un.dest, p, {"dir"})
                           ELSE p \in DOMAIN un.dest /\ un.dest[p] = source[p]
                      /\ DOMAIN un.dest \subseteq DOMAIN un.before \cup Archived
    BY DEF ComesBack
  <2>1. pk.pc = "packed"
    BY <1>1 DEF ArchiveInv, CoreInv, UnpackerOK
  <2>2. Len(stream) \in Nat \ {0} /\ \A p : ~Ahead(p)
    BY <1>1, <2>1, PackedIsWhole
  <2>3. un.pos \in 1 .. Len(stream) /\ stream[un.pos] = End
    <3>1. un.pos # 0 /\ stream[un.pos] = End
      BY <1>1 DEF ArchiveInv, UnpackInv, InStep, Active
    <3>2. un.pos \in Nat /\ un.good \in Nat /\ un.pos <= un.good /\ un.good <= Len(stream)
      BY <1>1 DEF ArchiveInv, CoreInv, UnpackerOK
    <3> QED BY <2>2, <3>1, <3>2
  <2>4. un.pos = Len(stream)
    BY <1>1, <2>3 DEF ArchiveInv, CoreInv, PackOK
  <2>5. ASSUME NEW p \in Archived, p # out, p \notin Changed
        PROVE  IF source[p].kind = "dir" THEN IsA(un.dest, p, {"dir"})
               ELSE p \in DOMAIN un.dest /\ un.dest[p] = source[p]
    <3>1. PICK i \in 1 .. un.pos : stream[i] = Record(source[p].kind, p)
      BY <1>1, <2>1, <2>2, <2>4, <2>5 DEF ArchiveInv, WalkOK, Covered, Walks
    <3>2. stream[i].kind = source[p].kind /\ stream[i].path = p
      BY <3>1 DEF Record
    <3>3. source[p].kind \in {"dir", "file"}
      BY <2>5 DEF Archived
    <3>4. Kept(stream[i].path)
      BY <2>5, <3>2 DEF Kept
    <3>5. /\ stream[i].kind = "dir" => IsA(un.dest, stream[i].path, {"dir"})
          /\ stream[i].kind = "file" /\ Kept(stream[i].path) =>
               stream[i].path \in DOMAIN un.dest /\ un.dest[stream[i].path] = Restored(i)
      BY <1>1, <2>1 DEF ArchiveInv, UnpackInv, Restores, Active
    <3>6. Restored(i) = source[stream[i].path]
      BY DEF Restored
    <3> QED BY <3>2, <3>3, <3>4, <3>5, <3>6
  <2>6. ASSUME NEW p \in DOMAIN un.dest, p \notin DOMAIN un.before PROVE p \in Archived
    <3>1. Brought(un.dest[p].kind, p, un.pos)
      BY <1>1, <2>6 DEF ArchiveInv, UnpackInv, NothingElse
    <3>2. ASSUME NEW kind \in {"dir", "file"}, Recorded(kind, p, un.pos)
          PROVE  source[p].kind \in {"dir", "file"}
      <4>1. PICK i \in 1 .. Len(stream) : stream[i] = Record(kind, p)
        BY <2>4, <3>2 DEF Recorded
      <4>2. stream[i].kind = kind /\ stream[i].path = p /\ IsHeader(stream[i])
        BY <4>1 DEF Record, IsHeader
      <4>3. IsItem(stream[i])
        BY <1>1, <4>2 DEF ArchiveInv, WalkOK, ItemsOK
      <4>4. kind = "dir" => source[p].kind = "dir" \/ (p = Root /\ source[p].kind = "pipe")
        BY <4>2, <4>3 DEF IsItem
      <4>5. kind = "file" => source[p].kind = "file"
        BY <1>1, <2>1, <4>2 DEF ArchiveInv, WalkOK, NoPipes, Walks
      <4>6. p = Root => source[p].kind # "pipe"
        BY DEF IsA
      <4> QED BY <4>4, <4>5, <4>6
    <3>3. source[p].kind \in {"dir", "file"} /\ Reachable(p)
      BY <3>1, <3>2 DEF Brought
    <3> QED BY <3>3 DEF Archived, Reachable
  <2> QED BY <2>5, <2>6
<1> QED BY <1>1, ArchiveInvHolds, PTL

\* No name in the sources is one that _safe_target refuses.
NamesSafe == \A t \in Trees : \A p \in DOMAIN t \cup OutPaths : ~Unsafe(p)

\* With a packed archive and an empty destination nothing stops the unpacker: a
\* directory or file in the way of a record would have a record of its own.
LEMMA NothingInTheWay ==
  ASSUME ArchiveInv, Unpack, \A p \in DOMAIN source : ~Unsafe(p),
         pk.pc = "packed", un.good = Len(stream), un.before = <<>>
  PROVE  un'.pc # "failed"
<1>1. \A p \in DOMAIN un.dest : un.pc # "idle" => Brought(un.dest[p].kind, p, un.pos)
  <2>1. DOMAIN un.before = {}
    OBVIOUS
  <2> QED BY <2>1 DEF ArchiveInv, UnpackInv, NothingElse
<1>2. un.pos \in Nat /\ Len(stream) \in Nat /\ un.pos <= Len(stream)
  BY Lens DEF ArchiveInv, CoreInv, UnpackerOK
<1>3. ASSUME NEW p \in DOMAIN un.dest, un.pc # "idle", un.dest[p].kind # "dir"
      PROVE  Recorded("file", p, un.pos) /\ source[p].kind = "file"
  <2>1. Recorded("file", p, un.pos)
    BY <1>1, <1>3 DEF Brought
  <2>2. PICK i \in 1 .. un.pos : stream[i] = Record("file", p)
    BY <2>1 DEF Recorded
  <2>3. i \in 1 .. Len(stream) /\ stream[i].kind = "file" /\ stream[i].path = p
    BY <1>2, <2>2 DEF Record
  <2> QED BY <2>1, <2>3 DEF ArchiveInv, WalkOK, NoPipes, Walks
<1>4. CASE UnpackDir
  <2> DEFINE path == Cell.path
             dirs == Parents(path) \cup {path}
             raises == Unsafe(path) \/ Blocked(dirs)
  <2>1. /\ un.pc = "records" /\ un.pos < un.good /\ Cell.kind = "dir"
        /\ un' = IF raises THEN [un EXCEPT !.pc = "failed"]
                 ELSE [[un EXCEPT !.dest = WithDirs(dirs)] EXCEPT !.pos = @ + 1]
    BY <1>4 DEF UnpackDir, Unpacking
  <2>2. /\ IsItem(Cell) /\ \A q \in Parents(path) : source[q].kind = "dir"
        /\ ~Recorded("file", path, un.pos)
    BY <2>1, NextRecord DEF ArchiveInv
  <2>3. ~Unsafe(path)
    BY <2>2 DEF IsItem, Reachable
  <2>4. ~Blocked(dirs)
    BY <1>3, <2>1, <2>2 DEF Blocked
  <2>5. un'.pc = un.pc
    BY <2>1, <2>3, <2>4 DEF ArchiveInv, CoreInv, UnpackerOK
  <2> QED BY <2>1, <2>5
<1>5. CASE UnpackFile
  <2> DEFINE path == Cell.path
             raises == Unsafe(path) \/ Blocked(Parents(path)) \/ InTheWay(path)
             dest == With(WithDirs(Parents(path)), path, File(<<>>))
  <2>1. /\ un.pc = "records" /\ un.pos < un.good /\ Cell.kind = "file"
        /\ un' = IF raises THEN [un EXCEPT !.pc = "failed"]
                 ELSE [[un EXCEPT !.pc = "content", !.cur = path, !.dest = dest] EXCEPT !.pos = @ + 1]
    BY <1>5 DEF UnpackFile, Unpacking
  <2>2. /\ IsItem(Cell) /\ \A q \in Parents(path) : source[q].kind = "dir"
        /\ ~Recorded("file", path, un.pos) /\ ~Recorded("dir", path, un.pos)
    BY <2>1, NextRecord DEF ArchiveInv
  <2>3. ~Unsafe(path)
    BY <2>2 DEF IsItem, Reachable
  <2>4. ~Blocked(Parents(path))
    BY <1>3, <2>1, <2>2 DEF Blocked
  <2>5. ~InTheWay(path)
    <3>1. source[path].kind \in {"file", "pipe"}
      BY <2>1, <2>2 DEF IsItem
    <3>2. path \notin DOMAIN un.dest
      BY <1>1, <2>1, <2>2, <3>1 DEF Brought
    <3> QED BY <3>2 DEF InTheWay
  <2>6. un'.pc = "content"
    <3> HIDE DEF dest
    <3> QED BY <2>1, <2>3, <2>4, <2>5 DEF ArchiveInv, CoreInv, UnpackerOK
  <2> QED BY <2>6
<1>6. CASE UnpackRun \/ UnpackStop \/ UnpackEnd
  <2>1. \/ un.pc = "content" /\ un' = [[un EXCEPT !.dest = [un.dest EXCEPT ![un.cur].data = @ \o Cell.data]]
                                                EXCEPT !.pos = @ + 1]
        \/ un' = [[un EXCEPT !.pc = "records", !.cur = <<>>] EXCEPT !.pos = @ + 1]
        \/ un' = [[un EXCEPT !.pc = "ok"] EXCEPT !.pos = @ + 1]
    BY <1>6 DEF UnpackRun, UnpackStop, UnpackEnd, Unpacking
  <2>2. (un'.pc = un.pc /\ un.pc = "content") \/ un'.pc \in {"records", "ok"}
    BY <2>1 DEF ArchiveInv, CoreInv, UnpackerOK
  <2> QED BY <2>2
<1>7. CASE UnpackShort
  BY <1>7, PackedIsWhole DEF UnpackShort
<1> QED BY <1>4, <1>5, <1>6, <1>7 DEF Unpack

\* PackedExtracts: if _safe_target refuses no name of the source, an archive
\* that was packed to its end never fails to extract into an empty directory:
\* no record finds another in its way, and the stream does not stop short
\* (archive.py 47-60, 100-160; README.md:36).
THEOREM PackedAlwaysExtracts ==
  ASSUME NamesSafe
  PROVE  Spec => []PackedExtracts
<1> DEFINE SafeSource == \A p \in DOMAIN source : ~Unsafe(p)
<1>1. Init => SafeSource /\ PackedExtracts
  <2> SUFFICES ASSUME Init PROVE SafeSource /\ PackedExtracts
    OBVIOUS
  <2>1. PICK t \in Trees :
          /\ out \in {Elsewhere} \cup {p \in OutPaths : MayHold(t, p)}
          /\ source = IF out = Elsewhere THEN t ELSE With(t, out, File(<<>>))
    BY DEF Init
  <2>2. DOMAIN source \subseteq DOMAIN t \cup OutPaths
    BY <2>1 DEF With
  <2>3. un.pc = "idle"
    BY DEF Init
  <2> QED BY <2>2, <2>3 DEF NamesSafe, PackedExtracts
<1>2. ASSUME ArchiveInv, SafeSource, PackedExtracts, [Next]_vars
      PROVE  SafeSource' /\ PackedExtracts'
  <2>1. CoreInv
    BY <1>2 DEF ArchiveInv
  <2>2. SafeSource'
    <3>1. source' = source
      BY <1>2, <2>1, ChangedGrows
    <3> QED BY <1>2, <3>1
  <2>3. CASE un.pc = "idle" /\ un' = un
    BY <2>2, <2>3 DEF PackedExtracts
  <2>4. CASE AtRest /\ un' = un
    BY <1>2, <2>2, <2>4 DEF PackedExtracts, AtRest
  <2>5. CASE AtRest /\ Unpack
    <3> SUFFICES ASSUME pk.pc = "packed", un'.good = Len(stream), un'.before = <<>>
                 PROVE  un'.pc # "failed"
      BY <2>2, <2>5 DEF PackedExtracts, AtRest
    <3>1. un'.good = un.good /\ un'.before = un.before
      BY <2>1, <2>5 DEF Unpack, UnpackDir, UnpackFile, UnpackRun, UnpackStop, UnpackEnd, UnpackShort,
                        Unpacking, CoreInv, UnpackerOK
    <3> QED BY <1>2, <2>5, <3>1, NothingInTheWay
  <2>6. CASE AtRest /\ \E good \in 0 .. Len(stream), overwrite \in BOOLEAN, target \in Targets :
                         UnpackBegin(good, overwrite, target)
    <3>1. un'.pc = "records"
      BY <2>1, <2>6 DEF UnpackBegin, CoreInv, UnpackerOK
    <3> QED BY <2>2, <3>1 DEF PackedExtracts
  <2> QED BY <1>2, <2>1, <2>3, <2>4, <2>5, <2>6, OnlyUnpacking
<1>3. ArchiveInv /\ (SafeSource /\ PackedExtracts) /\ [Next]_vars => (SafeSource /\ PackedExtracts)'
  BY <1>2
<1> HIDE DEF SafeSource
<1> QED BY <1>1, <1>3, ArchiveInvHolds, PTL DEF Spec
=============================================================================
