---------------------------- MODULE SlotUnlockProofs ----------------------------
(***************************************************************************)
(* What SlotUnlock promises, for every set of secrets, every number of     *)
(* slots and of damages, and whatever a damaged cell may hold.             *)
(*                                                                         *)
(* The first part says where the cells of each slot are, the second what   *)
(* trying a slot gives; UnlockInv puts together the damage done to the     *)
(* file and how far the command has come.  The third part is about a file  *)
(* of which one field is damaged: where the reader can be standing, and    *)
(* which fields of a slot an exception of another library can come from.   *)
(***************************************************************************)
EXTENDS SlotUnlock, KeySlotsProofs, FiniteSetTheorems

-----------------------------------------------------------------------------
(* One sequence after the other. *)

\* What FlattenSeq computes for the first n members of seqs.
IsFlat(f, seqs, n) ==
  f = [i \in 1 .. n |-> IF i = 1 THEN seqs[i] ELSE f[i - 1] \o seqs[i]]

Flat(seqs) ==
  CHOOSE f : f = [i \in 1 .. Len(seqs) |-> IF i = 1 THEN seqs[i] ELSE f[i - 1] \o seqs[i]]

LEMMA FlatExists ==
  ASSUME NEW N \in Nat, NEW seqs
  PROVE  \E f : IsFlat(f, seqs, N)
<1> DEFINE Bad == {n \in Nat : ~ \E f : IsFlat(f, seqs, n)}
<1> SUFFICES ASSUME Bad # {} PROVE FALSE
  BY Zenon
<1>1. PICK n \in Bad : \A m \in Bad : n <= m
  <2>1. Bad \subseteq Nat
    OBVIOUS
  <2> HIDE DEF Bad
  <2> QED BY <2>1, LeastNat, Zenon
<1>2. n \in Nat /\ ~ \E f : IsFlat(f, seqs, n)
  OBVIOUS
<1>3. n # 0
  <2>1. IsFlat([i \in 1 .. 0 |-> IF i = 1 THEN seqs[i] ELSE 0], seqs, 0)
    BY DEF IsFlat
  <2> QED BY <2>1, <1>2
<1>4. n - 1 \in Nat /\ n - 1 \notin Bad
  BY <1>1, <1>2, <1>3
<1>5. PICK f : IsFlat(f, seqs, n - 1)
  BY <1>4
<1> DEFINE g == [i \in 1 .. n |-> IF i = 1 THEN seqs[i]
                                 ELSE IF i = n THEN f[n - 1] \o seqs[n] ELSE f[i]]
<1>6. IsFlat(g, seqs, n)
  <2>1. \A i \in 1 .. n : i # 1 => g[i] = g[i - 1] \o seqs[i]
    <3> SUFFICES ASSUME NEW i \in 1 .. n, i # 1 PROVE g[i] = g[i - 1] \o seqs[i]
      OBVIOUS
    <3>1. i - 1 \in 1 .. n - 1 /\ i - 1 \in 1 .. n /\ i - 1 # n /\ i \in Int
      BY <1>2
    <3>2. f[i - 1] = IF i - 1 = 1 THEN seqs[i - 1] ELSE f[(i - 1) - 1] \o seqs[i - 1]
      BY <1>5, <3>1 DEF IsFlat
    <3>3. g[i - 1] = f[i - 1]
      BY <3>1, <3>2
    <3>4. CASE i = n
      BY <3>3, <3>4
    <3>5. CASE i # n
      <4>1. i \in 1 .. n - 1
        BY <3>5, <1>2
      <4>2. f[i] = f[i - 1] \o seqs[i]
        BY <4>1, <1>5 DEF IsFlat
      <4>3. g[i] = f[i]
        BY <3>5
      <4> QED BY <4>2, <4>3, <3>3
    <3> QED BY <3>4, <3>5
  <2>2. g = [i \in 1 .. n |-> g[i]] /\ \A i \in 1 .. n : i = 1 => g[i] = seqs[i]
    OBVIOUS
  <2> HIDE DEF g
  <2> QED BY <2>1, <2>2 DEF IsFlat
<1> QED
  BY <1>6, <1>2, Zenon

LEMMA FlatIsFlat ==
  ASSUME NEW seqs, Len(seqs) \in Nat \ {0}
  PROVE  IsFlat(Flat(seqs), seqs, Len(seqs)) /\ FlattenSeq(seqs) = Flat(seqs)[Len(seqs)]
<1>1. \E f : IsFlat(f, seqs, Len(seqs))
  BY FlatExists
<1>2. IsFlat(Flat(seqs), seqs, Len(seqs))
  BY <1>1, Zenon DEF IsFlat, Flat
<1>3. FlattenSeq(seqs) = Flat(seqs)[Len(seqs)]
  BY DEF FlattenSeq, Flat
<1> QED BY <1>2, <1>3

\* The first members give the same, whatever comes after them.
LEMMA FlatAgree ==
  ASSUME NEW m \in Nat, NEW n \in Nat, m <= n, NEW s, NEW t, NEW f, NEW g,
         IsFlat(f, s, m), IsFlat(g, t, n), \A k \in 1 .. m : s[k] = t[k]
  PROVE  \A k \in 1 .. m : f[k] = g[k]
<1> DEFINE Bad == {k \in 1 .. m : f[k] # g[k]}
<1> SUFFICES ASSUME Bad # {} PROVE FALSE
  OBVIOUS
<1>1. PICK k \in Bad : \A j \in Bad : k <= j
  <2>1. Bad \subseteq Nat
    OBVIOUS
  <2> HIDE DEF Bad
  <2> QED BY <2>1, LeastNat, Zenon
<1>2. k \in 1 .. m /\ k \in 1 .. n /\ f[k] # g[k]
  OBVIOUS
<1>3. /\ f[k] = IF k = 1 THEN s[k] ELSE f[k - 1] \o s[k]
      /\ g[k] = IF k = 1 THEN t[k] ELSE g[k - 1] \o t[k]
  BY <1>2 DEF IsFlat
<1>4. CASE k = 1
  BY <1>4, <1>3, <1>2
<1>5. CASE k # 1
  <2>1. k - 1 \in 1 .. m /\ k - 1 \notin Bad
    BY <1>5, <1>1
  <2> QED BY <2>1, <1>3, <1>2, <1>5
<1> QED BY <1>4, <1>5

\* A last member is appended to what those before it give.
LEMMA FlattenAppend ==
  ASSUME NEW S, NEW n \in Nat, NEW s \in Seq(Seq(S)), NEW t \in Seq(Seq(S)),
         Len(s) = n, Len(t) = n + 1, \A k \in 1 .. n : t[k] = s[k]
  PROVE  FlattenSeq(t) = FlattenSeq(s) \o t[n + 1]
<1>1. IsFlat(Flat(t), t, n + 1) /\ FlattenSeq(t) = Flat(t)[n + 1]
  BY FlatIsFlat
<1>2. Flat(t)[n + 1] = IF n + 1 = 1 THEN t[n + 1] ELSE Flat(t)[(n + 1) - 1] \o t[n + 1]
  <2> DEFINE f == Flat(t)
  <2>1. f = [i \in 1 .. n + 1 |-> IF i = 1 THEN t[i] ELSE f[i - 1] \o t[i]] /\ n + 1 \in 1 .. n + 1
    <3>1. IsFlat(f, t, n + 1) /\ n + 1 \in 1 .. n + 1
      BY <1>1
    <3> HIDE DEF f
    <3> QED BY <3>1, Zenon DEF IsFlat
  <2> HIDE DEF f
  <2>2. f[n + 1] = IF n + 1 = 1 THEN t[n + 1] ELSE f[(n + 1) - 1] \o t[n + 1]
    BY <2>1
  <2> QED BY <2>2 DEF f
<1>3. CASE n = 0
  <2>1. s = <<>>
    BY <1>3, EmptySeq
  <2>2. FlattenSeq(s) = <<>>
    BY <2>1 DEF FlattenSeq
  <2>3. t[1] \in Seq(S)
    BY <1>3, ElementOfSeq
  <2>4. <<>> \o t[1] = t[1]
    BY <2>3, ConcatEmptySeq
  <2> QED BY <2>2, <2>4, <1>1, <1>2, <1>3
<1>4. CASE n # 0
  <2>1. IsFlat(Flat(s), s, n) /\ FlattenSeq(s) = Flat(s)[n]
    BY <1>4, FlatIsFlat
  <2> DEFINE f == Flat(s)  g == Flat(t)
  <2>2. \A k \in 1 .. n : f[k] = g[k]
    <3>1. IsFlat(f, s, n) /\ IsFlat(g, t, n + 1) /\ n <= n + 1 /\ n + 1 \in Nat
      BY <2>1, <1>1
    <3> HIDE DEF f, g
    <3> QED BY <3>1, FlatAgree
  <2>3. Flat(s)[n] = Flat(t)[n] /\ (n + 1) - 1 = n /\ n + 1 # 1
    BY <2>2, <1>4
  <2> QED BY <2>1, <2>3, <1>1, <1>2
<1> QED BY <1>3, <1>4

-----------------------------------------------------------------------------
(* Tuples put together. *)

LEMMA ConcatIs ==
  ASSUME NEW S, NEW p \in Seq(S), NEW q \in Seq(S), NEW r \in Seq(S),
         Len(r) = Len(p) + Len(q),
         \A k \in 1 .. Len(p) : r[k] = p[k],
         \A k \in 1 .. Len(q) : r[Len(p) + k] = q[k]
  PROVE  p \o q = r
<1>1. /\ p \o q \in Seq(S)
         /\ Len(p \o q) = Len(p) + Len(q)
         /\ \A i \in 1 .. Len(p) + Len(q) : (p \o q)[i] =
                     IF i <= Len(p) THEN p[i] ELSE q[i - Len(p)]
  BY ConcatProperties
<1>2. Len(p) \in Nat /\ Len(q) \in Nat
  BY LenProperties
<1> DEFINE m == Len(p)  n == Len(q)  c == p \o q
<1>3. \A i \in 1 .. m + n : c[i] = r[i]
  <2> SUFFICES ASSUME NEW i \in 1 .. m + n PROVE c[i] = r[i]
    OBVIOUS
  <2>1. c[i] = IF i <= m THEN p[i] ELSE q[i - m]
    BY <1>1
  <2> HIDE DEF c
  <2>2. CASE i <= m
    BY <2>1, <2>2, <1>2
  <2>3. CASE ~(i <= m)
    <3>1. i - m \in 1 .. n /\ m + (i - m) = i
      BY <2>3, <1>2
    <3>2. r[m + (i - m)] = q[i - m]
      BY <3>1
    <3> QED BY <3>1, <3>2, <2>1, <2>3
  <2> QED BY <2>2, <2>3
<1>4. c \in Seq(S) /\ Len(c) = m + n /\ Len(r) = m + n
  BY <1>1
<1> HIDE DEF c, m, n
<1>5. c = r
  BY <1>3, <1>4, SeqEqual
<1> QED BY <1>5 DEF c

LEMMA Join2And2 ==
  ASSUME NEW a1, NEW a2, NEW b1, NEW b2
  PROVE  <<a1, a2>> \o <<b1, b2>>
           = <<a1, a2, b1, b2>>
<1> DEFINE S == {a1, a2, b1, b2}
           p == <<a1, a2>>
           q == <<b1, b2>>
           r == <<a1, a2, b1, b2>>
<1>1. p \in Seq(S) /\ q \in Seq(S) /\ r \in Seq(S)
  OBVIOUS
<1>2. Len(p) = 2 /\ Len(q) = 2 /\ Len(r) = 4
  OBVIOUS
<1>3. /\ p[1] = a1 /\ p[2] = a2
      /\ q[1] = b1 /\ q[2] = b2
      /\ r[1] = a1 /\ r[2] = a2 /\ r[3] = b1 /\ r[4] = b2
  OBVIOUS
<1> HIDE DEF S, p, q, r
<1>4. (\A k \in 1 .. 2 : r[k] = p[k]) /\ (\A k \in 1 .. 2 : r[2 + k] = q[k])
  BY <1>3
<1>5. /\ Len(r) = Len(p) + Len(q)
      /\ \A k \in 1 .. Len(p) : r[k] = p[k]
      /\ \A k \in 1 .. Len(q) : r[Len(p) + k] = q[k]
  BY <1>2, <1>4
<1>6. p \o q = r
  BY <1>1, <1>5, ConcatIs, Zenon
<1> QED BY <1>6 DEF p, q, r

LEMMA Join4And2 ==
  ASSUME NEW a1, NEW a2, NEW a3, NEW a4, NEW b1, NEW b2
  PROVE  <<a1, a2, a3, a4>> \o <<b1, b2>>
           = <<a1, a2, a3, a4, b1, b2>>
<1> DEFINE S == {a1, a2, a3, a4, b1, b2}
           p == <<a1, a2, a3, a4>>
           q == <<b1, b2>>
           r == <<a1, a2, a3, a4, b1, b2>>
<1>1. p \in Seq(S) /\ q \in Seq(S) /\ r \in Seq(S)
  OBVIOUS
<1>2. Len(p) = 4 /\ Len(q) = 2 /\ Len(r) = 6
  OBVIOUS
<1>3. /\ p[1] = a1 /\ p[2] = a2 /\ p[3] = a3 /\ p[4] = a4
      /\ q[1] = b1 /\ q[2] = b2
      /\ r[1] = a1 /\ r[2] = a2 /\ r[3] = a3 /\ r[4] = a4 /\ r[5] = b1
      /\ r[6] = b2
  OBVIOUS
<1> HIDE DEF S, p, q, r
<1>4. (\A k \in 1 .. 4 : r[k] = p[k]) /\ (\A k \in 1 .. 2 : r[4 + k] = q[k])
  BY <1>3
<1>5. /\ Len(r) = Len(p) + Len(q)
      /\ \A k \in 1 .. Len(p) : r[k] = p[k]
      /\ \A k \in 1 .. Len(q) : r[Len(p) + k] = q[k]
  BY <1>2, <1>4
<1>6. p \o q = r
  BY <1>1, <1>5, ConcatIs, Zenon
<1> QED BY <1>6 DEF p, q, r

LEMMA Join4And6 ==
  ASSUME NEW a1, NEW a2, NEW a3, NEW a4, NEW b1, NEW b2, NEW b3,
         NEW b4, NEW b5, NEW b6
  PROVE  <<a1, a2, a3, a4>> \o <<b1, b2, b3, b4, b5, b6>>
           = <<a1, a2, a3, a4, b1, b2, b3, b4, b5, b6>>
<1> DEFINE S == {a1, a2, a3, a4, b1, b2, b3, b4, b5, b6}
           p == <<a1, a2, a3, a4>>
           q == <<b1, b2, b3, b4, b5, b6>>
           r == <<a1, a2, a3, a4, b1, b2, b3, b4, b5, b6>>
<1>1. p \in Seq(S) /\ q \in Seq(S) /\ r \in Seq(S)
  OBVIOUS
<1>2. Len(p) = 4 /\ Len(q) = 6 /\ Len(r) = 10
  OBVIOUS
<1>3. /\ p[1] = a1 /\ p[2] = a2 /\ p[3] = a3 /\ p[4] = a4
      /\ q[1] = b1 /\ q[2] = b2 /\ q[3] = b3 /\ q[4] = b4 /\ q[5] = b5
      /\ q[6] = b6
      /\ r[1] = a1 /\ r[2] = a2 /\ r[3] = a3 /\ r[4] = a4 /\ r[5] = b1
      /\ r[6] = b2 /\ r[7] = b3 /\ r[8] = b4 /\ r[9] = b5 /\ r[10] = b6
  OBVIOUS
<1> HIDE DEF S, p, q, r
<1>4. (\A k \in 1 .. 4 : r[k] = p[k]) /\ (\A k \in 1 .. 6 : r[4 + k] = q[k])
  BY <1>3
<1>5. /\ Len(r) = Len(p) + Len(q)
      /\ \A k \in 1 .. Len(p) : r[k] = p[k]
      /\ \A k \in 1 .. Len(q) : r[Len(p) + k] = q[k]
  BY <1>2, <1>4
<1>6. p \o q = r
  BY <1>1, <1>5, ConcatIs, Zenon
<1> QED BY <1>6 DEF p, q, r

LEMMA Join6And3 ==
  ASSUME NEW a1, NEW a2, NEW a3, NEW a4, NEW a5, NEW a6, NEW b1,
         NEW b2, NEW b3
  PROVE  <<a1, a2, a3, a4, a5, a6>> \o <<b1, b2, b3>>
           = <<a1, a2, a3, a4, a5, a6, b1, b2, b3>>
<1> DEFINE S == {a1, a2, a3, a4, a5, a6, b1, b2, b3}
           p == <<a1, a2, a3, a4, a5, a6>>
           q == <<b1, b2, b3>>
           r == <<a1, a2, a3, a4, a5, a6, b1, b2, b3>>
<1>1. p \in Seq(S) /\ q \in Seq(S) /\ r \in Seq(S)
  OBVIOUS
<1>2. Len(p) = 6 /\ Len(q) = 3 /\ Len(r) = 9
  OBVIOUS
<1>3. /\ p[1] = a1 /\ p[2] = a2 /\ p[3] = a3 /\ p[4] = a4 /\ p[5] = a5
      /\ p[6] = a6
      /\ q[1] = b1 /\ q[2] = b2 /\ q[3] = b3
      /\ r[1] = a1 /\ r[2] = a2 /\ r[3] = a3 /\ r[4] = a4 /\ r[5] = a5
      /\ r[6] = a6 /\ r[7] = b1 /\ r[8] = b2 /\ r[9] = b3
  OBVIOUS
<1> HIDE DEF S, p, q, r
<1>4. (\A k \in 1 .. 6 : r[k] = p[k]) /\ (\A k \in 1 .. 3 : r[6 + k] = q[k])
  BY <1>3
<1>5. /\ Len(r) = Len(p) + Len(q)
      /\ \A k \in 1 .. Len(p) : r[k] = p[k]
      /\ \A k \in 1 .. Len(q) : r[Len(p) + k] = q[k]
  BY <1>2, <1>4
<1>6. p \o q = r
  BY <1>1, <1>5, ConcatIs, Zenon
<1> QED BY <1>6 DEF p, q, r

LEMMA Join10And3 ==
  ASSUME NEW a1, NEW a2, NEW a3, NEW a4, NEW a5, NEW a6, NEW a7,
         NEW a8, NEW a9, NEW a10, NEW b1, NEW b2, NEW b3
  PROVE  <<a1, a2, a3, a4, a5, a6, a7, a8, a9, a10>> \o <<b1, b2, b3>>
           = <<a1, a2, a3, a4, a5, a6, a7, a8, a9, a10, b1, b2, b3>>
<1> DEFINE S == {a1, a2, a3, a4, a5, a6, a7, a8, a9, a10, b1, b2, b3}
           p == <<a1, a2, a3, a4, a5, a6, a7, a8, a9, a10>>
           q == <<b1, b2, b3>>
           r == <<a1, a2, a3, a4, a5, a6, a7, a8, a9, a10, b1, b2, b3>>
<1>1. p \in Seq(S) /\ q \in Seq(S) /\ r \in Seq(S)
  OBVIOUS
<1>2. Len(p) = 10 /\ Len(q) = 3 /\ Len(r) = 13
  OBVIOUS
<1>3. /\ p[1] = a1 /\ p[2] = a2 /\ p[3] = a3 /\ p[4] = a4 /\ p[5] = a5
      /\ p[6] = a6 /\ p[7] = a7 /\ p[8] = a8 /\ p[9] = a9 /\ p[10] = a10
      /\ q[1] = b1 /\ q[2] = b2 /\ q[3] = b3
      /\ r[1] = a1 /\ r[2] = a2 /\ r[3] = a3 /\ r[4] = a4 /\ r[5] = a5
      /\ r[6] = a6 /\ r[7] = a7 /\ r[8] = a8 /\ r[9] = a9 /\ r[10] = a10
      /\ r[11] = b1 /\ r[12] = b2 /\ r[13] = b3
  OBVIOUS
<1> HIDE DEF S, p, q, r
<1>4. (\A k \in 1 .. 10 : r[k] = p[k]) /\ (\A k \in 1 .. 3 : r[10 + k] = q[k])
  BY <1>3
<1>5. /\ Len(r) = Len(p) + Len(q)
      /\ \A k \in 1 .. Len(p) : r[k] = p[k]
      /\ \A k \in 1 .. Len(q) : r[Len(p) + k] = q[k]
  BY <1>2, <1>4
<1>6. p \o q = r
  BY <1>1, <1>5, ConcatIs, Zenon
<1> QED BY <1>6 DEF p, q, r

-----------------------------------------------------------------------------
(* What the cells of a slot are. *)

Wrapped == [secret : Secrets, algo : Algorithms]

\* What was wrapped, as Init chooses it.
MadeOK ==
  /\ made \in Seq(Wrapped) /\ Len(made) \in 1 .. MaxSlots
  /\ \A i \in DOMAIN made : made[i].secret \in Identities => made[i].algo = 1

\* The cells before slot i, and the end of the section.
Place(i) == Len(Before(i))
SectionEnd == Place(Len(made) + 1)

\* One member; three.
LEMMA FlattenOne ==
  ASSUME NEW S, NEW a \in Seq(S)
  PROVE  FlattenSeq(<<a>>) = a
<1>1. <<>> \in Seq(Seq(S)) /\ <<a>> \in Seq(Seq(S)) /\ Len(<<a>>) = 0 + 1 /\ Len(<<>>) = 0
  OBVIOUS
<1>2. FlattenSeq(<<a>>) = FlattenSeq(<<>>) \o <<a>>[0 + 1]
  <2> DEFINE s == <<>>  t == <<a>>
  <2>1. s \in Seq(Seq(S)) /\ t \in Seq(Seq(S)) /\ Len(s) = 0 /\ Len(t) = 0 + 1
        /\ (\A k \in 1 .. 0 : t[k] = s[k])
    BY <1>1
  <2> HIDE DEF s, t
  <2>2. FlattenSeq(t) = FlattenSeq(s) \o t[0 + 1]
    BY <2>1, 0 \in Nat, FlattenAppend, Zenon
  <2> QED BY <2>2 DEF s, t
<1>3. FlattenSeq(<<>>) = <<>>
  BY DEF FlattenSeq
<1>4. <<>> \o a = a
  BY ConcatEmptySeq
<1>5. FlattenSeq(<<a>>) = <<>> \o a
  <2>1. <<a>>[0 + 1] = a
    OBVIOUS
  <2> QED BY <1>2, <1>3, <2>1, Zenon
<1> QED BY <1>4, <1>5

LEMMA FlattenThree ==
  ASSUME NEW a \in Seq(Nat), NEW b \in Seq(Nat), NEW c \in Seq(Nat)
  PROVE  FlattenSeq(<<a, b, c>>) = (a \o b) \o c
<1>1. FlattenSeq(<<a, b>>) = FlattenSeq(<<a>>) \o b
  <2> DEFINE s == <<a>>  t == <<a, b>>
  <2>1. s \in Seq(Seq(Nat)) /\ t \in Seq(Seq(Nat)) /\ Len(s) = 1 /\ Len(t) = 1 + 1
        /\ (\A k \in 1 .. 1 : t[k] = s[k]) /\ t[1 + 1] = b
    OBVIOUS
  <2> HIDE DEF s, t
  <2>2. FlattenSeq(t) = FlattenSeq(s) \o t[1 + 1]
    <3>1. 1 \in Nat
      OBVIOUS
    <3> QED BY <2>1, <3>1, FlattenAppend, Zenon
  <2> QED BY <2>1, <2>2 DEF s, t
<1>2. FlattenSeq(<<a, b, c>>) = FlattenSeq(<<a, b>>) \o c
  <2> DEFINE s == <<a, b>>  t == <<a, b, c>>
  <2>1. s \in Seq(Seq(Nat)) /\ t \in Seq(Seq(Nat)) /\ Len(s) = 2 /\ Len(t) = 2 + 1
        /\ (\A k \in 1 .. 2 : t[k] = s[k]) /\ t[2 + 1] = c
    OBVIOUS
  <2> HIDE DEF s, t
  <2>2. FlattenSeq(t) = FlattenSeq(s) \o t[2 + 1]
    <3>1. 2 \in Nat
      OBVIOUS
    <3> QED BY <2>1, <3>1, FlattenAppend, Zenon
  <2> QED BY <2>1, <2>2 DEF s, t
<1> QED BY <1>1, <1>2, FlattenOne

\* The parameter blocks, cell by cell.
LEMMA Blocks ==
  /\ Block(1) = <<1, 32, 1, 1, 1, 5>>
  /\ Block(2) = <<2, 32, 1, 3, 16, 8, 17, 3, 18, 1>>
<1>1. Block(1) = <<1, 32, 1, 1, 1, 5>>
  <2>1. Layout(1) = <<1>> /\ Defaults(1)[1] = 5 /\ Len(<<1>>) = 1
    BY DEF Layout, Defaults
  <2>2. [k \in DOMAIN <<1>> |-> <<<<1>>[k], Defaults(1)[<<1>>[k]]>>] = <<<<1, 5>>>>
    BY <2>1
  <2>3. FlattenSeq(<<<<1, 5>>>>) = <<1, 5>>
    <3> DEFINE a == <<1, 5>>
    <3>1. a \in Seq(Nat)
      OBVIOUS
    <3> HIDE DEF a
    <3>2. FlattenSeq(<<a>>) = a
      BY <3>1, FlattenOne
    <3> QED BY <3>2 DEF a
  <2>4. Block(1) = <<1, KeySize, SaltSize, 1>> \o <<1, 5>>
    BY <2>1, <2>2, <2>3 DEF Block
  <2> QED BY <2>4, Join4And2 DEF KeySize, SaltSize
<1>2. Block(2) = <<2, 32, 1, 3, 16, 8, 17, 3, 18, 1>>
  <2> DEFINE tags == <<16, 17, 18>>
  <2>1. Layout(2) = tags /\ Len(tags) = 3
    BY DEF Layout
  <2>2. Defaults(2)[16] = 8 /\ Defaults(2)[17] = 3 /\ Defaults(2)[18] = 1
    BY DEF Defaults
  <2>3. [k \in DOMAIN tags |-> <<tags[k], Defaults(2)[tags[k]]>>] = <<<<16, 8>>, <<17, 3>>, <<18, 1>>>>
    <3>1. DOMAIN tags = 1 .. 3 /\ tags[1] = 16 /\ tags[2] = 17 /\ tags[3] = 18
      OBVIOUS
    <3> HIDE DEF tags
    <3>2. \A k \in 1 .. 3 : k = 1 \/ k = 2 \/ k = 3
      OBVIOUS
    <3> DEFINE left == [k \in DOMAIN tags |-> <<tags[k], Defaults(2)[tags[k]]>>]
               right == <<<<16, 8>>, <<17, 3>>, <<18, 1>>>>
    <3>3. left = [k \in 1 .. 3 |-> left[k]] /\ right = [k \in 1 .. 3 |-> right[k]]
      BY <3>1
    <3>4. left[1] = <<16, 8>> /\ left[2] = <<17, 3>> /\ left[3] = <<18, 1>>
      BY <3>1, <2>2
    <3>5. right[1] = <<16, 8>> /\ right[2] = <<17, 3>> /\ right[3] = <<18, 1>>
      OBVIOUS
    <3> HIDE DEF left, right
    <3>6. \A k \in 1 .. 3 : left[k] = right[k]
      BY <3>2, <3>4, <3>5
    <3>7. left = right
      BY <3>3, <3>6
    <3> QED BY <3>7 DEF left, right
  <2>4. FlattenSeq(<<<<16, 8>>, <<17, 3>>, <<18, 1>>>>) = <<16, 8, 17, 3, 18, 1>>
    <3> DEFINE a == <<16, 8>>  b == <<17, 3>>  c == <<18, 1>>
    <3>1. a \in Seq(Nat) /\ b \in Seq(Nat) /\ c \in Seq(Nat)
      OBVIOUS
    <3>2. a \o b = <<16, 8, 17, 3>> /\ <<16, 8, 17, 3>> \o c = <<16, 8, 17, 3, 18, 1>>
      BY Join2And2, Join4And2
    <3> HIDE DEF a, b, c
    <3>3. FlattenSeq(<<a, b, c>>) = (a \o b) \o c
      <4>1. a \in Seq(Nat)
        BY <3>1
      <4>2. b \in Seq(Nat)
        BY <3>1
      <4>3. c \in Seq(Nat)
        BY <3>1
      <4> QED BY ONLY <4>1, <4>2, <4>3, FlattenThree
    <3> QED BY <3>2, <3>3 DEF a, b, c
  <2>5. Block(2) = <<2, KeySize, SaltSize, 3>> \o <<16, 8, 17, 3, 18, 1>>
    BY <2>1, <2>3, <2>4 DEF Block
  <2> QED BY <2>5, Join4And6 DEF KeySize, SaltSize
<1> QED BY <1>1, <1>2

\* The bodies, cell by cell.
LEMMA Bodies ==
  ASSUME MadeOK, NEW i \in 1 .. Len(made)
  PROVE  /\ made[i].secret \in Identities =>
              Body(i) = <<Salt(i), Nonce(i), Sealed(i)>>
         /\ made[i].secret \in Passwords /\ made[i].algo = 1 =>
              Body(i) = <<1, 32, 1, 1, 1, 5, Salt(i), Nonce(i), Sealed(i)>>
         /\ made[i].secret \in Passwords /\ made[i].algo = 2 =>
              Body(i) = <<2, 32, 1, 3, 16, 8, 17, 3, 18, 1, Salt(i), Nonce(i), Sealed(i)>>
<1> DEFINE end == <<Salt(i), Nonce(i), Sealed(i)>>
<1>1. ASSUME made[i].secret \in Identities
      PROVE  Body(i) = end
  <2>1. made[i].secret \notin Passwords
    BY <1>1, KeySlotsAssumption
  <2>2. <<>> \o end = end
    <3>1. end \in Seq({Salt(i), Nonce(i), Sealed(i)})
      OBVIOUS
    <3> HIDE DEF end
    <3> QED BY <3>1, ConcatEmptySeq
  <2> QED BY <2>1, <2>2 DEF Body
<1>2. ASSUME made[i].secret \in Passwords, made[i].algo = 1
      PROVE  Body(i) = <<1, 32, 1, 1, 1, 5>> \o end
  BY <1>2, Blocks DEF Body
<1>3. ASSUME made[i].secret \in Passwords, made[i].algo = 2
      PROVE  Body(i) = <<2, 32, 1, 3, 16, 8, 17, 3, 18, 1>> \o end
  BY <1>3, Blocks DEF Body
<1>4. <<1, 32, 1, 1, 1, 5>> \o end = <<1, 32, 1, 1, 1, 5, Salt(i), Nonce(i), Sealed(i)>>
  BY Join6And3
<1>5. <<2, 32, 1, 3, 16, 8, 17, 3, 18, 1>> \o end
        = <<2, 32, 1, 3, 16, 8, 17, 3, 18, 1, Salt(i), Nonce(i), Sealed(i)>>
  BY Join10And3
<1> QED BY <1>1, <1>2, <1>3, <1>4, <1>5

LEMMA BodyType ==
  ASSUME MadeOK, NEW i \in 1 .. Len(made)
  PROVE  Body(i) \in Seq(Nat) /\ Framed(i) \in Seq(Nat) /\ Len(Framed(i)) = 2 + Len(Body(i))
         /\ Framed(i) = <<Kind(made[i].secret), Len(Body(i))>> \o Body(i)
<1>1. made[i].secret \in Passwords \cup Identities /\ made[i].algo \in {1, 2} /\ i \in Nat
  <2>1. made[i] \in Wrapped
    BY ElementOfSeq DEF MadeOK
  <2>2. i \in Nat
    BY LenProperties DEF MadeOK
  <2> QED BY <2>1, <2>2 DEF Wrapped, Secrets, Algorithms
<1>2. Salt(i) \in Nat /\ Nonce(i) \in Nat /\ Sealed(i) \in Nat
  BY <1>1 DEF Salt, Nonce, Sealed
<1>3. Body(i) \in Seq(Nat)
  <2>1. <<Salt(i), Nonce(i), Sealed(i)>> \in Seq(Nat)
    BY <1>2
  <2>2. <<1, 32, 1, 1, 1, 5, Salt(i), Nonce(i), Sealed(i)>> \in Seq(Nat)
    BY <1>2
  <2>3. <<2, 32, 1, 3, 16, 8, 17, 3, 18, 1, Salt(i), Nonce(i), Sealed(i)>> \in Seq(Nat)
    BY <1>2
  <2> QED BY <1>1, Bodies, <2>1, <2>2, <2>3 DEF MadeOK
<1>4. Kind(made[i].secret) \in Nat
  BY DEF Kind, SLOT_PASSWORD, SLOT_X25519
<1>5. <<Kind(made[i].secret), Len(Body(i))>> \in Seq(Nat)
  BY <1>3, <1>4
<1> QED
  BY <1>3, <1>5, ConcatProperties DEF Framed

-----------------------------------------------------------------------------
(* Where the cells of a slot are. *)

\* The framed slots before slot i.
FramedBefore(i) == [k \in 1 .. i - 1 |-> Framed(k)]

LEMMA FramedBeforeType ==
  ASSUME MadeOK, NEW i \in 1 .. Len(made) + 1
  PROVE  FramedBefore(i) \in Seq(Seq(Nat)) /\ Len(FramedBefore(i)) = i - 1
         /\ \A k \in 1 .. i - 1 : FramedBefore(i)[k] = Framed(k)
<1>1. Len(made) \in Nat
  BY LenProperties DEF MadeOK
<1>2. \A k \in 1 .. i - 1 : Framed(k) \in Seq(Nat)
  <2> SUFFICES ASSUME NEW k \in 1 .. i - 1 PROVE Framed(k) \in Seq(Nat)
    OBVIOUS
  <2>1. k \in 1 .. Len(made)
    BY <1>1
  <2> QED BY <2>1, BodyType
<1>3. i - 1 \in Nat
  BY <1>1
<1>4. FramedBefore(i) \in [1 .. i - 1 -> Seq(Nat)]
  BY <1>2 DEF FramedBefore
<1>5. FramedBefore(i) \in Seq(Seq(Nat))
  BY <1>3, <1>4
<1>6. Len(FramedBefore(i)) = i - 1
  <2>1. DOMAIN FramedBefore(i) = 1 .. i - 1
    BY DEF FramedBefore
  <2> QED BY <1>3, <1>5, <2>1, LenProperties
<1> QED BY <1>5, <1>6 DEF FramedBefore

LEMMA FlattenNext ==
  ASSUME MadeOK, NEW i \in 1 .. Len(made)
  PROVE  FlattenSeq(FramedBefore(i + 1)) = FlattenSeq(FramedBefore(i)) \o Framed(i)
<1>1. Len(made) \in Nat /\ i \in Nat
  BY LenProperties DEF MadeOK
<1> DEFINE s == FramedBefore(i)  t == FramedBefore(i + 1)  n == i - 1
<1>2. i \in 1 .. Len(made) + 1 /\ i + 1 \in 1 .. Len(made) + 1 /\ n \in Nat /\ n + 1 = i /\ (i + 1) - 1 = i
  BY <1>1
<1>3. s \in Seq(Seq(Nat)) /\ Len(s) = n /\ \A k \in 1 .. n : s[k] = Framed(k)
  BY <1>2, FramedBeforeType
<1>4. t \in Seq(Seq(Nat)) /\ Len(t) = n + 1 /\ \A k \in 1 .. n + 1 : t[k] = Framed(k)
  BY <1>2, FramedBeforeType
<1> HIDE DEF s, t, n
<1>5. \A k \in 1 .. n : t[k] = s[k]
  BY <1>2, <1>3, <1>4
<1>6. FlattenSeq(t) = FlattenSeq(s) \o t[n + 1]
  BY <1>2, <1>3, <1>4, <1>5, FlattenAppend
<1>7. t[n + 1] = Framed(i)
  BY <1>2, <1>4
<1> QED BY <1>6, <1>7 DEF s, t

LEMMA FlattenType ==
  ASSUME MadeOK, NEW i \in 1 .. Len(made) + 1
  PROVE  FlattenSeq(FramedBefore(i)) \in Seq(Nat)
<1> DEFINE Bad == {j \in 1 .. Len(made) + 1 : FlattenSeq(FramedBefore(j)) \notin Seq(Nat)}
<1>0. Len(made) \in Nat
  BY LenProperties DEF MadeOK
<1> SUFFICES ASSUME Bad # {} PROVE FALSE
  OBVIOUS
<1>1. PICK j \in Bad : \A k \in Bad : j <= k
  <2>1. Bad \subseteq Nat
    BY <1>0
  <2> HIDE DEF Bad
  <2> QED BY <2>1, LeastNat, Zenon
<1>2. j \in 1 .. Len(made) + 1 /\ FlattenSeq(FramedBefore(j)) \notin Seq(Nat)
  OBVIOUS
<1>3. CASE j = 1
  <2>1. Len(FramedBefore(1)) = 0 /\ FramedBefore(1) \in Seq(Seq(Nat))
    BY <1>2, <1>3, FramedBeforeType
  <2>2. FlattenSeq(FramedBefore(1)) = FramedBefore(1)
    BY <2>1 DEF FlattenSeq
  <2>3. FramedBefore(1) = <<>>
    BY <2>1, EmptySeq
  <2>4. FlattenSeq(FramedBefore(1)) \in Seq(Nat)
    <3>1. <<>> \in Seq(Nat)
      BY EmptySeq
    <3> QED BY <2>2, <2>3, <3>1, Zenon
  <2> QED BY <2>4, <1>2, <1>3, Zenon
<1>4. CASE j # 1
  <2>1. j - 1 \in 1 .. Len(made) /\ (j - 1) + 1 = j /\ j - 1 \in 1 .. Len(made) + 1 /\ ~(j <= j - 1)
    BY <1>0, <1>2, <1>4
  <2>2. FlattenSeq(FramedBefore(j - 1)) \in Seq(Nat)
    BY <2>1, <1>1
  <2>3. FlattenSeq(FramedBefore(j)) = FlattenSeq(FramedBefore(j - 1)) \o Framed(j - 1)
    BY <2>1, FlattenNext
  <2>4. Framed(j - 1) \in Seq(Nat)
    BY <2>1, BodyType
  <2> QED BY <2>2, <2>3, <2>4, <1>2, ConcatProperties
<1> QED BY <1>3, <1>4

LEMMA BeforeNext ==
  ASSUME MadeOK
  PROVE  /\ Before(1) = <<Magic, Version, Len(made)>>
         /\ \A i \in 1 .. Len(made) + 1 : Before(i) \in Seq(Nat)
         /\ \A i \in 1 .. Len(made) : Before(i + 1) = Before(i) \o Framed(i)
<1> DEFINE head == <<Magic, Version, Len(made)>>
<1>1. Len(made) \in Nat
  BY LenProperties DEF MadeOK
<1>2. head \in Seq(Nat)
  BY <1>1 DEF Magic, Version
<1>3. \A i : Before(i) = head \o FlattenSeq(FramedBefore(i))
  BY DEF Before, FramedBefore
<1> HIDE DEF head
<1>4. Before(1) = head
  <2>1. 1 \in 1 .. Len(made) + 1
    BY <1>1
  <2>2. Len(FramedBefore(1)) = 0 /\ FramedBefore(1) \in Seq(Seq(Nat))
    BY <2>1, FramedBeforeType
  <2>3. FlattenSeq(FramedBefore(1)) = FramedBefore(1)
    BY <2>2 DEF FlattenSeq
  <2>4. FramedBefore(1) = <<>>
    BY <2>2, EmptySeq
  <2>5. head \o <<>> = head
    BY <1>2, ConcatEmptySeq
  <2> QED BY <2>3, <2>4, <2>5, <1>3
<1>5. ASSUME NEW i \in 1 .. Len(made) + 1 PROVE Before(i) \in Seq(Nat)
  BY <1>2, <1>3, FlattenType, ConcatProperties
<1>6. ASSUME NEW i \in 1 .. Len(made) PROVE Before(i + 1) = Before(i) \o Framed(i)
  <2>1. i \in 1 .. Len(made) + 1
    BY <1>1
  <2> DEFINE f == FlattenSeq(FramedBefore(i))  g == Framed(i)
  <2>2. f \in Seq(Nat) /\ g \in Seq(Nat)
    BY <2>1, FlattenType, BodyType
  <2>3. FlattenSeq(FramedBefore(i + 1)) = f \o g
    BY FlattenNext
  <2> HIDE DEF f, g
  <2>4. (head \o f) \o g = head \o (f \o g)
    <3> DEFINE N == Nat
    <3>1. head \in Seq(N)
      BY <1>2
    <3>2. f \in Seq(N)
      BY <2>2
    <3>3. g \in Seq(N)
      BY <2>2
    <3> HIDE DEF N
    <3> QED BY ONLY <3>1, <3>2, <3>3, SMTT(30)
  <2>5. Before(i + 1) = head \o (f \o g)
    BY <2>3, <1>3
  <2>6. Before(i) = head \o f
    BY <1>3 DEF f
  <2> QED BY <2>4, <2>5, <2>6 DEF g
<1> QED BY <1>4, <1>5, <1>6 DEF head

\* A slot starts where the one before it ends.
LEMMA Places ==
  ASSUME MadeOK
  PROVE  /\ Len(made) \in Nat
         /\ Place(1) = 3
         /\ \A i \in 1 .. Len(made) + 1 : Place(i) \in Nat
         /\ \A i \in 1 .. Len(made) : Len(Body(i)) \in Nat
         /\ \A i \in 1 .. Len(made) : Place(i + 1) = Place(i) + 2 + Len(Body(i))
<1>1. Len(made) \in Nat
  BY LenProperties DEF MadeOK
<1>2. Place(1) = 3
  <2>1. Len(<<Magic, Version, Len(made)>>) = 3
    OBVIOUS
  <2> QED BY <2>1, BeforeNext DEF Place
<1>3. ASSUME NEW i \in 1 .. Len(made) + 1 PROVE Place(i) \in Nat
  BY BeforeNext, LenProperties DEF Place
<1>4. ASSUME NEW i \in 1 .. Len(made)
      PROVE  Len(Body(i)) \in Nat /\ Place(i + 1) = Place(i) + 2 + Len(Body(i))
  <2>1. Len(Body(i)) \in Nat
    BY BodyType, LenProperties
  <2>2. i \in 1 .. Len(made) + 1
    BY <1>1
  <2>3. Before(i) \in Seq(Nat) /\ Framed(i) \in Seq(Nat) /\ Len(Framed(i)) = 2 + Len(Body(i))
    BY <2>2, BeforeNext, BodyType
  <2>4. Len(Before(i) \o Framed(i)) = Len(Before(i)) + Len(Framed(i))
    BY <2>3, ConcatProperties
  <2>5. Place(i + 1) = Place(i) + Len(Framed(i))
    BY <2>4, BeforeNext DEF Place
  <2>6. Place(i) \in Nat
    BY <2>2, <1>3
  <2> QED BY <2>1, <2>3, <2>5, <2>6
<1> QED BY <1>1, <1>2, <1>3, <1>4

\* Slots come one after the other, and what is before one stays where it is.
LEMMA PlacesGrow ==
  ASSUME MadeOK, NEW i \in 1 .. Len(made) + 1, NEW j \in 1 .. Len(made) + 1, i <= j
  PROVE  Place(i) <= Place(j) /\ \A k \in 1 .. Place(i) : Before(j)[k] = Before(i)[k]
<1> DEFINE Holds(m) == Place(i) <= Place(m) /\ \A k \in 1 .. Place(i) : Before(m)[k] = Before(i)[k]
           Bad == {m \in i .. Len(made) + 1 : ~ Holds(m)}
<1>0. Len(made) \in Nat /\ i \in Nat /\ j \in Nat
  BY Places
<1> SUFFICES ASSUME Bad # {} PROVE FALSE
  BY <1>0
<1>1. PICK m \in Bad : \A k \in Bad : m <= k
  <2>1. Bad \subseteq Nat
    BY <1>0
  <2> HIDE DEF Bad
  <2> QED BY <2>1, LeastNat, Zenon
<1>2. m \in i .. Len(made) + 1 /\ ~ Holds(m) /\ m \in 1 .. Len(made) + 1
  BY <1>0
<1>3. Place(i) \in Nat
  BY Places
<1>4. CASE m = i
  BY <1>2, <1>3, <1>4
<1>5. CASE m # i
  <2>1. /\ m - 1 \in i .. Len(made) + 1 /\ m - 1 \in 1 .. Len(made) /\ (m - 1) + 1 = m
        /\ ~(m <= m - 1) /\ m - 1 \in 1 .. Len(made) + 1
    BY <1>0, <1>2, <1>5
  <2>2. Holds(m - 1)
    BY <2>1, <1>1
  <2>3. Before(m) = Before(m - 1) \o Framed(m - 1) /\ Before(m - 1) \in Seq(Nat) /\ Framed(m - 1) \in Seq(Nat)
    BY <2>1, BeforeNext, BodyType
  <2> DEFINE b == Before(m - 1)  f == Framed(m - 1)
  <2>4. /\ Len(b \o f) = Len(b) + Len(f) /\ Len(b) \in Nat /\ Len(f) \in Nat
        /\ \A k \in 1 .. Len(b) + Len(f) : (b \o f)[k] = IF k <= Len(b) THEN b[k] ELSE f[k - Len(b)]
    BY <2>3, ConcatProperties, LenProperties
  <2>5. Place(i) <= Len(b) /\ (\A k \in 1 .. Place(i) : b[k] = Before(i)[k])
    BY <2>2 DEF Place
  <2>6. Len(Before(m)) = Len(b) + Len(f) /\ Before(m) = b \o f
    BY <2>3, <2>4
  <2> HIDE DEF b, f, Bad
  <2>7. \A k \in 1 .. Place(i) : (b \o f)[k] = Before(i)[k]
    <3> SUFFICES ASSUME NEW k \in 1 .. Place(i) PROVE (b \o f)[k] = Before(i)[k]
      OBVIOUS
    <3>1. k \in 1 .. Len(b) + Len(f) /\ k <= Len(b)
      BY <1>3, <2>4, <2>5
    <3> QED BY <3>1, <2>4, <2>5
  <2>8. Place(i) <= Place(m)
    BY <2>4, <2>5, <2>6, <1>3 DEF Place
  <2>9. Holds(m)
    BY <2>6, <2>7, <2>8
  <2> QED BY <2>9, <1>2
<1> QED BY <1>4, <1>5

\* The cells of the file as it is written.
LEMMA WrittenCells ==
  ASSUME MadeOK
  PROVE  /\ Written \in Seq(Nat) /\ Len(Written) = SectionEnd + 4
         /\ Written[1] = Magic /\ Written[2] = Version /\ Written[3] = Len(made)
         /\ Written[SectionEnd + 1] = SizeField
         /\ \A i \in 1 .. Len(made) :
              /\ Written[Place(i) + 1] = Kind(made[i].secret)
              /\ Written[Place(i) + 2] = Len(Body(i))
              /\ \A k \in 1 .. Len(Body(i)) : Written[Place(i) + 2 + k] = Body(i)[k]
<1> DEFINE n == Len(made)  all == Before(n + 1)  tail == <<SizeField, 90, 91, 92>>
<1>1. /\ n \in Nat /\ 1 \in 1 .. n + 1 /\ n + 1 \in 1 .. n + 1
      /\ Place(1) = 3 /\ Place(n + 1) \in Nat
  BY Places
<1>2. all \in Seq(Nat) /\ tail \in Seq(Nat) /\ Len(tail) = 4 /\ tail[1] = SizeField
  BY <1>1, BeforeNext DEF SizeField
<1>3. Written = all \o tail /\ Len(all) = SectionEnd /\ SectionEnd \in Nat
  BY <1>1 DEF Written, SectionEnd, Place
<1> HIDE DEF all, tail
<1>4. /\ Written \in Seq(Nat) /\ Len(Written) = Len(all) + Len(tail)
      /\ \A k \in 1 .. Len(all) + Len(tail) :
           Written[k] = IF k <= Len(all) THEN all[k] ELSE tail[k - Len(all)]
  BY <1>2, <1>3, ConcatProperties
<1>5. Written \in Seq(Nat) /\ Len(Written) = SectionEnd + 4
  BY <1>2, <1>3, <1>4
<1>6. Written[SectionEnd + 1] = SizeField
  <2>1. SectionEnd + 1 \in 1 .. SectionEnd + 4 /\ ~(SectionEnd + 1 <= SectionEnd) /\ (SectionEnd + 1) - SectionEnd = 1
    BY <1>3
  <2>2. SectionEnd + 1 \in 1 .. Len(all) + Len(tail)
    BY <2>1, <1>2, <1>3
  <2> QED BY <2>1, <2>2, <1>2, <1>3, <1>4
\* Up to any slot the file is what is written before it.
<1>7. ASSUME NEW i \in 1 .. n + 1, NEW k \in 1 .. Place(i)
      PROVE  Written[k] = Before(i)[k]
  <2>1. Place(i) <= Place(n + 1) /\ \A m \in 1 .. Place(i) : all[m] = Before(i)[m]
    BY <1>1, PlacesGrow DEF all
  <2>2. Place(i) \in Nat /\ Place(n + 1) = Len(all)
    BY <1>3, Places DEF SectionEnd
  <2>3. k \in 1 .. Len(all) + Len(tail) /\ k <= Len(all)
    BY <2>1, <2>2, <1>2, <1>3
  <2> QED BY <2>1, <2>3, <1>4
<1>8. Written[1] = Magic /\ Written[2] = Version /\ Written[3] = Len(made)
  <2>1. Written[1] = Before(1)[1] /\ Written[2] = Before(1)[2] /\ Written[3] = Before(1)[3]
    BY <1>1, <1>7
  <2> QED BY <2>1, BeforeNext
<1>9. ASSUME NEW i \in 1 .. n
      PROVE  /\ Written[Place(i) + 1] = Kind(made[i].secret)
             /\ Written[Place(i) + 2] = Len(Body(i))
             /\ \A k \in 1 .. Len(Body(i)) : Written[Place(i) + 2 + k] = Body(i)[k]
  <2> DEFINE b == Before(i)  f == Framed(i)  body == Body(i)  p == Place(i)  h == <<Kind(made[i].secret), Len(body)>>
  <2>1. i \in 1 .. n + 1 /\ i + 1 \in 1 .. n + 1
    BY <1>1
  <2>2. b \in Seq(Nat) /\ f \in Seq(Nat) /\ Before(i + 1) = b \o f
    BY <2>1, BeforeNext, BodyType
  <2>3. body \in Seq(Nat) /\ f = h \o body /\ Len(f) = 2 + Len(body)
    BY BodyType
  <2>4. p \in Nat /\ Len(body) \in Nat /\ Place(i + 1) = p + 2 + Len(body) /\ Len(b) = p
    BY <2>1, Places DEF Place
  <2>5. h \in Seq(Nat) /\ Len(h) = 2 /\ h[1] = Kind(made[i].secret) /\ h[2] = Len(body)
    BY <2>4 DEF Kind, SLOT_PASSWORD, SLOT_X25519
  <2> HIDE DEF b, f, body, p, h
  <2>6. \A k \in 1 .. Len(b) + Len(f) : (b \o f)[k] = IF k <= Len(b) THEN b[k] ELSE f[k - Len(b)]
    BY <2>2, ConcatProperties
  <2>7. \A k \in 1 .. Len(h) + Len(body) : (h \o body)[k] = IF k <= Len(h) THEN h[k] ELSE body[k - Len(h)]
    BY <2>3, <2>5, ConcatProperties
  <2>8. \A m \in 1 .. 2 + Len(body) : Written[p + m] = f[m]
    <3> SUFFICES ASSUME NEW m \in 1 .. 2 + Len(body) PROVE Written[p + m] = f[m]
      OBVIOUS
    <3>1. p + m \in 1 .. Place(i + 1) /\ ~(p + m <= p) /\ (p + m) - p = m
      BY <2>4
    <3>2. Written[p + m] = Before(i + 1)[p + m]
      BY <2>1, <3>1, <1>7
    <3>3. p + m \in 1 .. Len(b) + Len(f)
      BY <2>3, <2>4, <3>1
    <3> QED BY <3>1, <3>2, <3>3, <2>2, <2>4, <2>6
  <2>9. f[1] = h[1] /\ f[2] = h[2] /\ \A k \in 1 .. Len(body) : f[2 + k] = body[k]
    <3>1. 1 \in 1 .. Len(h) + Len(body) /\ 2 \in 1 .. Len(h) + Len(body)
      BY <2>4, <2>5
    <3>2. f[1] = h[1] /\ f[2] = h[2]
      BY <3>1, <2>3, <2>5, <2>7
    <3>3. ASSUME NEW k \in 1 .. Len(body) PROVE f[2 + k] = body[k]
      <4>1. 2 + k \in 1 .. Len(h) + Len(body) /\ ~(2 + k <= 2) /\ (2 + k) - 2 = k
        BY <2>4, <2>5
      <4> QED BY <4>1, <2>3, <2>5, <2>7
    <3> QED BY <3>2, <3>3
  <2>10. 1 \in 1 .. 2 + Len(body) /\ 2 \in 1 .. 2 + Len(body)
    BY <2>4
  <2>11. Written[p + 1] = h[1] /\ Written[p + 2] = h[2]
    BY <2>8, <2>9, <2>10
  <2>12. ASSUME NEW k \in 1 .. Len(body) PROVE Written[p + 2 + k] = body[k]
    <3>1. 2 + k \in 1 .. 2 + Len(body) /\ p + (2 + k) = p + 2 + k
      BY <2>4
    <3> QED BY <3>1, <2>8, <2>9
  <2> QED BY <2>5, <2>11, <2>12 DEF p, body
<1> QED BY <1>5, <1>6, <1>8, <1>9

-----------------------------------------------------------------------------
(* What trying a slot gives. *)

LEMMA OneOfEach ==
  ASSUME NEW cred \in Credentials
  PROVE  /\ \A p, q \in cred \cap Passwords : p = q
         /\ \A k, l \in cred \cap Identities : k = l
         /\ cred \subseteq Secrets
BY KeySlotsAssumption DEF Credentials, Secrets

LEMMA OnlyItsKey ==
  ASSUME MadeOK, NEW i \in 1 .. Len(made), NEW key
  PROVE  Authentic(<<Sealed(i)>>, key) <=> key = SealedUnder(i)
<1>1. Len(made) \in Nat /\ DOMAIN made = 1 .. Len(made)
  BY LenProperties DEF MadeOK
<1>2. ASSUME NEW j \in 1 .. Len(made), <<Sealed(i)>> = <<Sealed(j)>>
      PROVE  i = j
  <2>1. Sealed(i) = Sealed(j)
    BY <1>2
  <2>2. i \in Nat /\ j \in Nat
    BY <1>1
  <2> QED BY <2>1, <2>2 DEF Sealed
<1> QED BY <1>1, <1>2 DEF Authentic

LEMMA OneCell ==
  ASSUME NEW S, NEW s \in Seq(S), NEW k \in 1 .. Len(s)
  PROVE  SubSeq(s, k, k) = <<s[k]>>
<1>1. Len(s) \in Nat /\ s[k] \in S
  BY LenProperties, ElementOfSeq
<1>2. k \in 1 .. Len(s) + 1
  BY <1>1
<1> DEFINE t == SubSeq(s, k, k)
<1>3. /\ t \in Seq(S) /\ Len(t) = IF k <= k THEN k - k + 1 ELSE 0
      /\ \A i \in 1 .. k - k + 1 : t[i] = s[k + i - 1]
  BY <1>2, SubSeqProperties
<1> HIDE DEF t
<1>4. Len(t) = 1 /\ t[1] = s[k] /\ t \in Seq(S)
  <2>1. k - k + 1 = 1 /\ k <= k /\ k + 1 - 1 = k /\ 1 \in 1 .. 1
    BY <1>1
  <2> QED BY <1>3, <2>1
<1>5. t = <<s[k]>>
  <2> DEFINE u == <<s[k]>>
  <2>1. u \in Seq(S) /\ Len(u) = 1 /\ u[1] = s[k]
    BY <1>1
  <2> HIDE DEF u
  <2>2. \A i \in 1 .. Len(t) : t[i] = u[i]
    BY <1>4, <2>1
  <2>3. t = u
    BY <1>4, <2>1, <2>2, SeqEqual
  <2> QED BY <2>3 DEF u
<1> QED BY <1>5 DEF t

LEMMA UpTo ==
  ASSUME NEW n \in Nat \ {0}
  PROVE  Cardinality(1 .. n) = n
<1>1. \A a, b \in Int : Cardinality(a .. b) = IF a > b THEN 0 ELSE b - a + 1
  BY FS_Interval
<1>2. Cardinality(1 .. n) = IF 1 > n THEN 0 ELSE n - 1 + 1
  BY <1>1
<1> QED BY <1>2

\* What the program reads in a block of its own.
LEMMA BodyOfPBKDF2 ==
  ASSUME NEW x, NEW y, NEW z, NEW b, b = <<1, 32, 1, 1, 1, 5, x, y, z>>
  PROVE  /\ Parses(b) /\ ~Unusable(b)
         /\ Len(b) = 9 /\ Offset(b) = 6 /\ Needed(b) = 8 /\ Extra(b) = Defaults(1)
         /\ SubSeq(b, 9, 9) = <<z>> /\ SubSeq(b, 7, 7) = <<x>>
<1>1. /\ Len(b) = 9 /\ b[1] = 1 /\ b[2] = 32 /\ b[3] = 1 /\ b[4] = 1 /\ b[5] = 1 /\ b[6] = 5
      /\ b[7] = x /\ b[8] = y /\ b[9] = z
  OBVIOUS
<1>2. SubSeq(b, 9, 9) = <<z>> /\ SubSeq(b, 7, 7) = <<x>>
  <2> DEFINE S == {1, 5, 32, x, y, z}
  <2>1. b \in Seq(S) /\ 9 \in 1 .. Len(b) /\ 7 \in 1 .. Len(b)
    OBVIOUS
  <2> HIDE DEF S
  <2>2. SubSeq(b, 9, 9) = <<b[9]>> /\ SubSeq(b, 7, 7) = <<b[7]>>
    BY <2>1, OneCell
  <2> QED BY <1>1, <2>2
<1>3. Entries(b) = 1 .. 1 /\ Cardinality(1 .. 1) = 1
  <2>1. Cardinality(1 .. 1) = 1
    <3>1. 1 \in Nat \ {0}
      OBVIOUS
    <3> QED BY ONLY <3>1, UpTo, Zenon
  <2> QED BY <1>1, <2>1 DEF Entries
<1>4. Offset(b) = 6
  BY <1>3 DEF Offset
<1> HIDE DEF Parses
<1>5. Tags(b) = {1}
  <2>1. Tags(b) = {b[3 + 2 * k] : k \in 1 .. 1}
    BY <1>3 DEF Tags
  <2>2. \A k \in 1 .. 1 : 3 + 2 * k = 5
    OBVIOUS
  <2> QED BY <1>1, <2>1, <2>2
<1>6. Extra(b) = Defaults(1)
  <2>1. {k \in Entries(b) : b[3 + 2 * k] = 1} = {1}
    <3>1. \A k \in 1 .. 1 : k = 1 /\ 3 + 2 * k = 5
      OBVIOUS
    <3> QED BY <1>1, <1>3, <3>1
  <2>2. Max({1}) = 1
    BY DEF Max
  <2>3. b[4 + 2 * 1] = 5
    BY <1>1
  <2>4. Extra(b) = [t \in {1} |-> 5]
    BY <1>5, <2>1, <2>2, <2>3 DEF Extra
  <2> QED BY <2>4 DEF Defaults
<1>7. ToSet(Layout(1)) = {1}
  BY DEF ToSet, Layout
<1>8. ValidExtra(1, Defaults(1))
  <2>1. DOMAIN Defaults(1) = {1} /\ Defaults(1)[1] = 5
    BY DEF Defaults
  <2> QED BY <2>1 DEF ValidExtra
<1>9. Parses(b)
  BY <1>1, <1>4, <1>5, <1>6, <1>7, <1>8 DEF Parses, Algorithms
<1>10. ~Unusable(b)
  <2>1. Defaults(1)[1] # Huge
    BY DEF Defaults, Huge
  <2> QED BY <1>1, <1>4, <1>5, <1>6, <2>1 DEF Unusable
<1>11. Needed(b) = 8
  BY <1>1, <1>4 DEF Needed
<1> QED BY <1>1, <1>2, <1>4, <1>6, <1>9, <1>10, <1>11

LEMMA BodyOfScrypt ==
  ASSUME NEW x, NEW y, NEW z, NEW b,
         b = <<2, 32, 1, 3, 16, 8, 17, 3, 18, 1, x, y, z>>
  PROVE  /\ Parses(b) /\ ~Unusable(b)
         /\ Len(b) = 13 /\ Offset(b) = 10 /\ Needed(b) = 12 /\ Extra(b) = Defaults(2)
         /\ SubSeq(b, 13, 13) = <<z>> /\ SubSeq(b, 11, 11) = <<x>>
<1>1. /\ Len(b) = 13 /\ b[1] = 2 /\ b[2] = 32 /\ b[3] = 1 /\ b[4] = 3 /\ b[5] = 16 /\ b[6] = 8
      /\ b[7] = 17 /\ b[8] = 3 /\ b[9] = 18 /\ b[10] = 1 /\ b[11] = x /\ b[12] = y /\ b[13] = z
  OBVIOUS
<1>2. SubSeq(b, 13, 13) = <<z>> /\ SubSeq(b, 11, 11) = <<x>>
  <2> DEFINE S == {1, 2, 3, 8, 16, 17, 18, 32, x, y, z}
  <2>1. b \in Seq(S) /\ 13 \in 1 .. Len(b) /\ 11 \in 1 .. Len(b)
    OBVIOUS
  <2> HIDE DEF S
  <2>2. SubSeq(b, 13, 13) = <<b[13]>> /\ SubSeq(b, 11, 11) = <<b[11]>>
    BY <2>1, OneCell
  <2> QED BY <1>1, <2>2
<1> HIDE DEF Parses
<1>3. Entries(b) = 1 .. 3 /\ Cardinality(1 .. 3) = 3
  <2>1. Cardinality(1 .. 3) = 3
    <3>1. 3 \in Nat \ {0}
      OBVIOUS
    <3> QED BY ONLY <3>1, UpTo, Zenon
  <2> QED BY <1>1, <2>1 DEF Entries
<1>4. Offset(b) = 10
  BY <1>3 DEF Offset
<1>5. \A k \in 1 .. 3 : \/ k = 1 /\ b[3 + 2 * k] = 16
                        \/ k = 2 /\ b[3 + 2 * k] = 17
                        \/ k = 3 /\ b[3 + 2 * k] = 18
  BY <1>1
<1>6. Tags(b) = {16, 17, 18}
  <2>1. Tags(b) = {b[3 + 2 * k] : k \in 1 .. 3}
    BY <1>3 DEF Tags
  <2>2. b[3 + 2 * 1] = 16 /\ b[3 + 2 * 2] = 17 /\ b[3 + 2 * 3] = 18
    BY <1>1
  <2> QED BY <1>5, <2>1, <2>2
<1>7. Extra(b) = Defaults(2)
  <2>1. /\ {k \in Entries(b) : b[3 + 2 * k] = 16} = {1}
        /\ {k \in Entries(b) : b[3 + 2 * k] = 17} = {2}
        /\ {k \in Entries(b) : b[3 + 2 * k] = 18} = {3}
    BY <1>3, <1>5
  <2>2. Max({1}) = 1 /\ Max({2}) = 2 /\ Max({3}) = 3
    BY DEF Max
  <2>3. b[4 + 2 * 1] = 8 /\ b[4 + 2 * 2] = 3 /\ b[4 + 2 * 3] = 1
    BY <1>1
  <2> DEFINE e(t) == b[4 + 2 * Max({k \in Entries(b) : b[3 + 2 * k] = t})]
  <2>4. e(16) = 8 /\ e(17) = 3 /\ e(18) = 1
    BY <2>1, <2>2, <2>3
  <2>5. Extra(b) = [t \in {16, 17, 18} |-> e(t)]
    BY <1>6 DEF Extra
  <2> HIDE DEF e
  <2> QED BY <2>4, <2>5 DEF Defaults
<1>8. ToSet(Layout(2)) = {16, 17, 18}
  <2> DEFINE tags == <<16, 17, 18>>
  <2>1. DOMAIN tags = 1 .. 3 /\ tags[1] = 16 /\ tags[2] = 17 /\ tags[3] = 18
    OBVIOUS
  <2>2. Layout(2) = tags
    BY DEF Layout
  <2>3. \A k \in 1 .. 3 : k = 1 \/ k = 2 \/ k = 3
    OBVIOUS
  <2> HIDE DEF tags
  <2> QED BY <2>1, <2>2, <2>3 DEF ToSet
<1>9. Defaults(2) = [t \in {16, 17, 18} |-> IF t = 16 THEN 8 ELSE IF t = 17 THEN 3 ELSE 1]
  BY DEF Defaults
<1>10. ValidExtra(2, Defaults(2))
  <2>1. \A d \in 2 .. 8 : 8 % d = 0 => d % 2 = 0
    <3>1. \A d \in 2 .. 8 : d \in {2, 3, 4, 5, 6, 7, 8}
      OBVIOUS
    <3>2. 8 % 3 = 2 /\ 8 % 5 = 3 /\ 8 % 6 = 2 /\ 8 % 7 = 1
      OBVIOUS
    <3>3. 2 % 2 = 0 /\ 4 % 2 = 0 /\ 6 % 2 = 0 /\ 8 % 2 = 0
      OBVIOUS
    <3> QED BY <3>1, <3>2, <3>3
  <2>2. PowerOfTwo(8)
    BY <2>1 DEF PowerOfTwo
  <2> QED BY <1>9, <2>2 DEF ValidExtra
<1>11. Parses(b)
  BY <1>1, <1>4, <1>6, <1>7, <1>8, <1>10 DEF Parses, Algorithms
<1>12. ~Unusable(b)
  <2>1. \A t \in {16, 17, 18} : Defaults(2)[t] # Huge
    BY <1>9 DEF Huge
  <2> QED BY <1>1, <1>4, <1>6, <1>7, <2>1 DEF Unusable
<1>13. Needed(b) = 12
  BY <1>1, <1>4 DEF Needed
<1> QED BY <1>1, <1>2, <1>4, <1>7, <1>11, <1>12, <1>13

\* An undamaged body opens with the secret it was wrapped for, and with no other.
LEMMA PasswordFits ==
  ASSUME MadeOK, NEW i \in 1 .. Len(made), made[i].secret \in Passwords, NEW p
  PROVE  PasswordVerdict(Body(i), p) = IF p = made[i].secret THEN "dek" ELSE "skip"
<1> DEFINE s == made[i].secret  algo == made[i].algo  b == Body(i)
           key(a) == Key(p, a, 32, Defaults(a), <<Salt(i)>>, Nonce(i))
<1>1. algo \in {1, 2} /\ s \notin Identities
  <2>1. made[i] \in Wrapped
    BY ElementOfSeq DEF MadeOK
  <2> QED BY <2>1, KeySlotsAssumption DEF Wrapped, Algorithms
<1>2. SealedUnder(i) = Key(s, algo, 32, Defaults(algo), <<Salt(i)>>, Nonce(i))
  BY <1>1 DEF SealedUnder, KeySize
<1>3. key(algo) = SealedUnder(i) <=> p = s
  BY <1>2 DEF Key
<1>4. Authentic(<<Sealed(i)>>, key(algo)) <=> p = s
  <2> HIDE DEF key, s
  <2> QED BY <1>3, OnlyItsKey
<1>5. CASE algo = 1
  <2>1. b = <<1, 32, 1, 1, 1, 5, Salt(i), Nonce(i), Sealed(i)>>
    BY <1>5, Bodies
  <2>2. b[1] = 1 /\ b[2] = 32 /\ b[3] = 1 /\ b[8] = Nonce(i)
    BY <2>1
  <2> HIDE DEF b, algo
  <2>3. /\ Parses(b) /\ ~Unusable(b)
        /\ Len(b) = 9 /\ Offset(b) = 6 /\ Needed(b) = 8 /\ Extra(b) = Defaults(1)
        /\ SubSeq(b, 9, 9) = <<Sealed(i)>> /\ SubSeq(b, 7, 7) = <<Salt(i)>>
    BY <2>1, BodyOfPBKDF2
  <2>4. /\ Offset(b) + b[3] = 7 /\ 7 + 2 = 9 /\ 6 + 1 = 7 /\ 7 + 1 = 8 /\ Len(b) >= Needed(b) /\ ~(Len(b) < Needed(b))
    BY <2>2, <2>3
  <2>5. PasswordVerdict(b, p) = IF Authentic(<<Sealed(i)>>, key(1)) THEN "dek" ELSE "skip"
    BY <2>2, <2>3, <2>4 DEF PasswordVerdict
  <2> QED BY <2>5, <1>4, <1>5 DEF b
<1>6. CASE algo = 2
  <2>1. b = <<2, 32, 1, 3, 16, 8, 17, 3, 18, 1, Salt(i), Nonce(i), Sealed(i)>>
    BY <1>6, Bodies
  <2>2. b[1] = 2 /\ b[2] = 32 /\ b[3] = 1 /\ b[12] = Nonce(i)
    BY <2>1
  <2> HIDE DEF b, algo
  <2>3. /\ Parses(b) /\ ~Unusable(b)
        /\ Len(b) = 13 /\ Offset(b) = 10 /\ Needed(b) = 12 /\ Extra(b) = Defaults(2)
        /\ SubSeq(b, 13, 13) = <<Sealed(i)>> /\ SubSeq(b, 11, 11) = <<Salt(i)>>
    BY <2>1, BodyOfScrypt
  <2>4. /\ Offset(b) + b[3] = 11 /\ 11 + 2 = 13 /\ 10 + 1 = 11 /\ 11 + 1 = 12 /\ Len(b) >= Needed(b) /\ ~(Len(b) < Needed(b))
    BY <2>2, <2>3
  <2>5. PasswordVerdict(b, p) = IF Authentic(<<Sealed(i)>>, key(2)) THEN "dek" ELSE "skip"
    BY <2>2, <2>3, <2>4 DEF PasswordVerdict
  <2> QED BY <2>5, <1>4, <1>6 DEF b
<1> QED BY <1>1, <1>5, <1>6

LEMMA RecipientFits ==
  ASSUME MadeOK, NEW i \in 1 .. Len(made), made[i].secret \in Identities, NEW k
  PROVE  RecipientVerdict(Body(i), k) = IF k = made[i].secret THEN "dek" ELSE "skip"
<1> DEFINE s == made[i].secret  b == Body(i)
           key == Key(k, 0, 0, <<>>, <<Salt(i)>>, Nonce(i))
<1>1. key = SealedUnder(i) <=> k = s
  BY DEF SealedUnder, Key
<1>2. Authentic(<<Sealed(i)>>, key) <=> k = s
  <2> HIDE DEF key, s
  <2> QED BY <1>1, OnlyItsKey
<1>3. b = <<Salt(i), Nonce(i), Sealed(i)>>
  BY Bodies
<1>4. Len(b) = 3 /\ b[1] = Salt(i) /\ b[2] = Nonce(i) /\ b[3] = Sealed(i)
  BY <1>3
<1>5. SubSeq(b, 3, 3) = <<Sealed(i)>>
  <2> DEFINE S == {Salt(i), Nonce(i), Sealed(i)}
  <2>1. b \in Seq(S)
    BY <1>3
  <2> HIDE DEF S, b
  <2>2. 3 \in 1 .. Len(b)
    BY <1>4
  <2>3. SubSeq(b, 3, 3) = <<b[3]>>
    BY <2>1, <2>2, OneCell
  <2> QED BY <2>3, <1>4
<1>6. Salt(i) # 0
  <2>1. i \in Nat
    BY LenProperties DEF MadeOK
  <2> QED BY <2>1 DEF Salt
<1> HIDE DEF b
<1>7. RecipientVerdict(b, k) = IF Authentic(<<Sealed(i)>>, key) THEN "dek" ELSE "skip"
  <2>1. SubSeq(b, 3, Len(b)) = <<Sealed(i)>>
    BY <1>4, <1>5
  <2>2. ~(Len(b) < 2) /\ b[1] # 0 /\ b[1] = Salt(i) /\ b[2] = Nonce(i)
    BY <1>4, <1>6
  <2> QED BY <2>1, <2>2 DEF RecipientVerdict
<1> QED BY <1>2, <1>7 DEF b

\* A slot of the right type whose body is untouched, or that is for the other
\* kind of secret.
LEMMA SlotFits ==
  ASSUME MadeOK, NEW i \in 1 .. Len(made), NEW cred \in Credentials, NEW slot,
         slot.type = Kind(made[i].secret),
         slot.body = Body(i) \/ \A s \in cred : Kind(s) # Kind(made[i].secret)
  PROVE  Verdict(slot, cred) = IF made[i].secret \in cred THEN "dek" ELSE "skip"
<1> DEFINE s == made[i].secret
<1>1. s \in Passwords \cup Identities /\ SLOT_PASSWORD # SLOT_X25519
  <2>1. made[i] \in Wrapped
    BY ElementOfSeq DEF MadeOK
  <2> QED BY <2>1 DEF Wrapped, Secrets, SLOT_PASSWORD, SLOT_X25519
<1>2. CASE s \in Passwords
  <2>1. slot.type = SLOT_PASSWORD
    BY <1>2 DEF Kind
  <2>2. \A q \in Passwords : Kind(q) = Kind(s)
    BY <1>2 DEF Kind
  <2>3. CASE cred \cap Passwords = {}
    <3>1. Verdict(slot, cred) = "skip"
      BY <2>1, <2>3, <1>1 DEF Verdict
    <3> QED BY <3>1, <2>3, <1>2
  <2>4. CASE cred \cap Passwords # {}
    <3> DEFINE p == CHOOSE q \in cred \cap Passwords : TRUE
    <3>1. p \in cred \cap Passwords
      BY <2>4
    <3>2. Verdict(slot, cred) = PasswordVerdict(slot.body, p)
      BY <2>1, <2>4, <1>1 DEF Verdict
    <3> HIDE DEF p
    <3>3. slot.body = Body(i)
      BY <2>2, <3>1
    <3>4. p = s <=> s \in cred
      BY <3>1, <1>2, OneOfEach
    <3>5. PasswordVerdict(Body(i), p) = IF p = s THEN "dek" ELSE "skip"
      BY <1>2, PasswordFits
    <3> QED BY <3>2, <3>3, <3>4, <3>5
  <2> QED BY <2>3, <2>4
<1>3. CASE s \in Identities
  <2>1. slot.type = SLOT_X25519 /\ s \notin Passwords
    BY <1>3, KeySlotsAssumption DEF Kind
  <2>2. \A q \in Identities : Kind(q) = Kind(s)
    BY <1>3, KeySlotsAssumption DEF Kind
  <2>3. CASE cred \cap Identities = {}
    <3>1. Verdict(slot, cred) = "skip"
      BY <2>1, <2>3, <1>1 DEF Verdict
    <3> QED BY <3>1, <2>3, <1>3
  <2>4. CASE cred \cap Identities # {}
    <3> DEFINE k == CHOOSE q \in cred \cap Identities : TRUE
    <3>1. k \in cred \cap Identities
      BY <2>4
    <3>2. Verdict(slot, cred) = RecipientVerdict(slot.body, k)
      BY <2>1, <2>4, <1>1 DEF Verdict
    <3> HIDE DEF k
    <3>3. slot.body = Body(i)
      BY <2>2, <3>1
    <3>4. k = s <=> s \in cred
      BY <3>1, <1>3, OneOfEach
    <3>5. RecipientVerdict(Body(i), k) = IF k = s THEN "dek" ELSE "skip"
      BY <1>3, RecipientFits
    <3> QED BY <3>2, <3>3, <3>4, <3>5
  <2> QED BY <2>3, <2>4
<1> QED BY <1>1, <1>2, <1>3

\* Whatever a slot holds, it is one of these.
LEMMA VerdictType ==
  ASSUME NEW slot, NEW cred
  PROVE  Verdict(slot, cred) \in {"skip", "dek", "malformed", "crash"}
<1>1. \A b, p : PasswordVerdict(b, p) \in {"skip", "dek", "malformed", "crash"}
  BY DEF PasswordVerdict
<1>2. \A b, k : RecipientVerdict(b, k) \in {"skip", "dek", "malformed", "crash"}
  BY DEF RecipientVerdict
<1> QED BY <1>1, <1>2 DEF Verdict

-----------------------------------------------------------------------------
(* What unlocking does not read. *)

\* The first slot the credential opens.
LEMMA FirstSlot ==
  ASSUME MadeOK, NEW cred
  PROVE  /\ CanRecover(Slots, cred) <=> \E i \in 1 .. Len(made) : made[i].secret \in cred
         /\ CanRecover(Slots, cred) =>
              /\ FirstOpen(Slots, cred) \in 1 .. Len(made)
              /\ made[FirstOpen(Slots, cred)].secret \in cred
              /\ \A j \in 1 .. Len(made) : made[j].secret \in cred => FirstOpen(Slots, cred) <= j
<1> DEFINE Fits == OpenSlots(Slots, cred)
<1>1. Len(made) \in Nat /\ DOMAIN made = 1 .. Len(made)
  BY LenProperties DEF MadeOK
<1>2. Len(Slots) = Len(made) /\ \A i \in 1 .. Len(made) : Slots[i].secret = made[i].secret
  <2> DEFINE w(i) == Wrap(made[i].secret, CHOOSE d \in Deks : TRUE)
             W == {w(i) : i \in 1 .. Len(made)}
  <2>1. Slots = [i \in 1 .. Len(made) |-> w(i)]
    BY <1>1 DEF Slots
  <2>2. \A i : w(i).secret = made[i].secret
    BY DEF Wrap
  <2>3. \A i \in 1 .. Len(made) : w(i) \in W
    OBVIOUS
  <2> HIDE DEF w, W
  <2>4. Slots \in [1 .. Len(made) -> W]
    BY <2>1, <2>3
  <2>5. Slots \in Seq(W) /\ DOMAIN Slots = 1 .. Len(made)
    BY <1>1, <2>4
  <2>6. Len(Slots) = Len(made)
    BY <1>1, <2>5, LenProperties
  <2> QED BY <2>1, <2>2, <2>6
<1>3. Fits = {i \in 1 .. Len(made) : made[i].secret \in cred}
  BY <1>2 DEF OpenSlots, Opens
<1>4. CanRecover(Slots, cred) <=> Fits # {}
  BY DEF CanRecover
<1>5. FirstOpen(Slots, cred) = CHOOSE i \in Fits : \A j \in Fits : i <= j
  BY DEF FirstOpen
<1>6. Fits \subseteq Nat
  BY <1>1, <1>3
<1> HIDE DEF Fits
<1>7. Fits # {} => \E i \in Fits : \A j \in Fits : i <= j
  BY <1>6, LeastNat, Zenon
<1>8. Fits # {} => FirstOpen(Slots, cred) \in Fits /\ \A j \in Fits : FirstOpen(Slots, cred) <= j
  BY <1>5, <1>7
<1> QED BY <1>3, <1>4, <1>8

\* A slot after the one that opens; a slot for the other kind of secret.
AfterOpener(i, cred) == CanRecover(Slots, cred) /\ i > FirstOpen(Slots, cred)
OtherKind(i, cred) == \A s \in cred : Kind(s) # Kind(made[i].secret)

BodyCells(i) == Place(i) + 3 .. Place(i) + 2 + Len(Body(i))

LEMMA UnreadCells ==
  ASSUME MadeOK, NEW cred, NEW k \in Unread(cred)
  PROVE  \/ \E i \in 1 .. Len(made) :
              k \in BodyCells(i) /\ (AfterOpener(i, cred) \/ OtherKind(i, cred))
         \/ \E i \in 1 .. Len(made) : k = Place(i) + 1 /\ AfterOpener(i, cred)
         \/ k \in 1 .. Len(Written) /\ k > SectionEnd + 1
<1>1. DOMAIN made = 1 .. Len(made)
  BY LenProperties DEF MadeOK
<1> QED
  BY <1>1, Zenon DEF Unread, AfterOpener, OtherKind, BodyCells, Place, SectionEnd

\* A cell is of one slot only.
LEMMA OneSlotOnly ==
  ASSUME MadeOK, NEW i \in 1 .. Len(made), NEW j \in 1 .. Len(made), NEW k \in Nat,
         Place(i) < k, k <= Place(i + 1), Place(j) < k, k <= Place(j + 1)
  PROVE  i = j
<1>1. Len(made) \in Nat
  BY Places
<1>2. ASSUME NEW a \in 1 .. Len(made), NEW b \in 1 .. Len(made), a < b,
             k <= Place(a + 1), Place(b) < k
      PROVE  FALSE
  <2>1. a + 1 \in 1 .. Len(made) + 1 /\ b \in 1 .. Len(made) + 1 /\ a + 1 <= b
    BY <1>1, <1>2
  <2>2. Place(a + 1) <= Place(b)
    BY <2>1, PlacesGrow
  <2>3. Place(a + 1) \in Nat /\ Place(b) \in Nat
    BY <2>1, Places
  <2> QED BY <1>2, <2>2, <2>3
<1>3. ~(i < j) /\ ~(j < i)
  BY <1>2
<1> QED BY <1>1, <1>3

\* What is always read: the header, the lengths, and the chunk size; and for a
\* slot that is tried its type and, if it is of the kind of a secret, its body.
LEMMA AlwaysRead ==
  ASSUME MadeOK, NEW cred
  PROVE  /\ \A k \in 1 .. 3 : k \notin Unread(cred)
         /\ SectionEnd + 1 \notin Unread(cred)
         /\ \A i \in 1 .. Len(made) :
              /\ Place(i) + 2 \notin Unread(cred)
              /\ ~AfterOpener(i, cred) => Place(i) + 1 \notin Unread(cred)
              /\ ~AfterOpener(i, cred) /\ ~OtherKind(i, cred) =>
                   \A k \in BodyCells(i) : k \notin Unread(cred)
<1>0. Len(made) \in Nat /\ SectionEnd \in Nat
  BY Places DEF SectionEnd
<1>1. ASSUME NEW i \in 1 .. Len(made)
      PROVE  /\ Place(i) \in Nat /\ Place(i) >= 3 /\ Len(Body(i)) \in Nat /\ Place(i + 1) \in Nat
             /\ Place(i + 1) = Place(i) + 2 + Len(Body(i)) /\ Place(i + 1) <= SectionEnd
  <2>1. 1 \in 1 .. Len(made) + 1 /\ i \in 1 .. Len(made) + 1 /\ i + 1 \in 1 .. Len(made) + 1
        /\ Len(made) + 1 \in 1 .. Len(made) + 1 /\ 1 <= i /\ i + 1 <= Len(made) + 1
    BY <1>0
  <2>2. Place(1) = 3 /\ Place(i) \in Nat /\ Place(i + 1) \in Nat /\ Len(Body(i)) \in Nat
        /\ Place(i + 1) = Place(i) + 2 + Len(Body(i))
    BY <2>1, Places
  <2>3. Place(1) <= Place(i) /\ Place(i + 1) <= SectionEnd
    BY <2>1, PlacesGrow DEF SectionEnd
  <2> QED BY <2>2, <2>3
\* Every cell that is not read lies in a slot, or after the section.
<1>2. ASSUME NEW k \in Unread(cred)
      PROVE  \/ \E i \in 1 .. Len(made) :
                  /\ k \in Nat /\ Place(i) < k /\ k <= Place(i + 1) /\ k # Place(i) + 2
                  /\ AfterOpener(i, cred) \/ (OtherKind(i, cred) /\ k > Place(i) + 2)
             \/ k \in Int /\ k > SectionEnd + 1
  <2>1. CASE \E i \in 1 .. Len(made) :
               k \in BodyCells(i) /\ (AfterOpener(i, cred) \/ OtherKind(i, cred))
    <3>1. PICK i \in 1 .. Len(made) : k \in BodyCells(i) /\ (AfterOpener(i, cred) \/ OtherKind(i, cred))
      BY <2>1
    <3>2. k \in Nat /\ Place(i) < k /\ k <= Place(i + 1) /\ k # Place(i) + 2 /\ k > Place(i) + 2
      BY <1>1, <3>1 DEF BodyCells
    <3> QED BY <3>1, <3>2
  <2>2. CASE \E i \in 1 .. Len(made) : k = Place(i) + 1 /\ AfterOpener(i, cred)
    <3>1. PICK i \in 1 .. Len(made) : k = Place(i) + 1 /\ AfterOpener(i, cred)
      BY <2>2
    <3>2. k \in Nat /\ Place(i) < k /\ k <= Place(i + 1) /\ k # Place(i) + 2
      BY <1>1, <3>1
    <3> QED BY <3>1, <3>2
  <2>3. CASE k \in 1 .. Len(Written) /\ k > SectionEnd + 1
    BY <2>3
  <2> QED BY <2>1, <2>2, <2>3, UnreadCells
<1>3. ASSUME NEW k \in 1 .. 3 PROVE k \notin Unread(cred)
  <2> SUFFICES ASSUME k \in Unread(cred) PROVE FALSE
    OBVIOUS
  <2>1. ~(k > SectionEnd + 1)
    <3>1. 1 \in 1 .. Len(made)
      BY <1>0 DEF MadeOK
    <3>2. Place(1) >= 3 /\ Place(1 + 1) <= SectionEnd /\ Place(1) \in Nat /\ Len(Body(1)) \in Nat
          /\ Place(1 + 1) = Place(1) + 2 + Len(Body(1))
      BY <3>1, <1>1
    <3> QED BY <3>2, <1>0
  <2>2. PICK i \in 1 .. Len(made) : Place(i) < k
    BY <1>2, <2>1
  <2> QED BY <1>1, <2>2
<1>4. SectionEnd + 1 \notin Unread(cred)
  <2> SUFFICES ASSUME SectionEnd + 1 \in Unread(cred) PROVE FALSE
    OBVIOUS
  <2>1. PICK i \in 1 .. Len(made) : SectionEnd + 1 <= Place(i + 1)
    BY <1>0, <1>2
  <2> QED BY <1>0, <1>1, <2>1
<1>5. ASSUME NEW i \in 1 .. Len(made), NEW k \in Unread(cred), Place(i) < k, k <= Place(i + 1)
      PROVE  k # Place(i) + 2 /\ (AfterOpener(i, cred) \/ (OtherKind(i, cred) /\ k > Place(i) + 2))
  <2>1. ~(k \in Int /\ k > SectionEnd + 1)
    BY <1>0, <1>1, <1>5
  <2>2. PICK j \in 1 .. Len(made) :
               /\ k \in Nat /\ Place(j) < k /\ k <= Place(j + 1) /\ k # Place(j) + 2
               /\ AfterOpener(j, cred) \/ (OtherKind(j, cred) /\ k > Place(j) + 2)
    BY <1>2, <2>1
  <2>3. i = j
    BY <1>5, <2>2, OneSlotOnly
  <2> QED BY <2>2, <2>3
<1>6. ASSUME NEW i \in 1 .. Len(made)
      PROVE  /\ Place(i) + 2 \notin Unread(cred)
             /\ ~AfterOpener(i, cred) => Place(i) + 1 \notin Unread(cred)
             /\ ~AfterOpener(i, cred) /\ ~OtherKind(i, cred) =>
                  \A k \in BodyCells(i) : k \notin Unread(cred)
  <2>1. /\ Place(i) < Place(i) + 2 /\ Place(i) + 2 <= Place(i + 1)
        /\ Place(i) < Place(i) + 1 /\ Place(i) + 1 <= Place(i + 1) /\ ~(Place(i) + 1 > Place(i) + 2)
    BY <1>1
  <2>2. Place(i) + 2 \notin Unread(cred)
    BY <1>5, <2>1
  <2>3. ~AfterOpener(i, cred) => Place(i) + 1 \notin Unread(cred)
    BY <1>5, <2>1
  <2>4. ASSUME ~AfterOpener(i, cred), ~OtherKind(i, cred), NEW k \in BodyCells(i)
        PROVE  k \notin Unread(cred)
    <3>1. Place(i) < k /\ k <= Place(i + 1)
      BY <1>1 DEF BodyCells
    <3> QED BY <1>5, <2>4, <3>1
  <2> QED BY <2>2, <2>3, <2>4
<1> QED BY <1>3, <1>4, <1>6

-----------------------------------------------------------------------------
(* The invariant. *)

StoredSlot == [type : Nat, body : Seq(Nat)]

\* What is not damaged is there, as it was written.
FileOK ==
  /\ file \in Seq(Nat)
  /\ \A k \in 1 .. Len(Written) : k \in damaged \/ (k <= Len(file) /\ file[k] = Written[k])

Runs ==
  [pc : {"idle", "section", "try", "size"} \cup Outcomes, cred : SUBSET Secrets,
   off : Nat, left : Nat, slots : Seq(StoredSlot), at : Nat]

\* The slots read and those left make up the count; a slot that ended the run
\* is the one the run stands at.
RunOK ==
  /\ run \in Runs
  /\ run.pc = "idle" => run = Idle
  /\ run.pc # "idle" => run.cred \in Credentials
  /\ run.off <= Len(file) /\ run.at \in 1 .. Len(run.slots) + 1
  /\ run.pc \in {"section", "try", "size", "opened", "denied"} =>
       Len(run.slots) + run.left = file[3]
  /\ run.pc \in {"try", "size", "opened", "denied"} => run.left = 0
  /\ \A i \in 1 .. Len(run.slots) : Len(run.slots[i].body) <= Len(file)
  /\ run.pc = "size" =>
       run.at <= Len(run.slots) /\ Verdict(run.slots[run.at], run.cred) = "dek"
  /\ run.pc = "malformed" /\ run.left = 0 /\ run.slots # <<>> =>
       /\ run.at <= Len(run.slots)
       /\ Verdict(run.slots[run.at], run.cred) \in {"malformed", "dek"}

\* Slot i as the damaged file holds it.
Stored(i) == [type |-> file[Place(i) + 1],
              body |-> SubSeq(file, Place(i) + 3, Place(i) + 2 + Len(Body(i)))]

\* How far a command has come when nothing it reads is damaged.
OnTrack ==
  /\ run.pc \in {"section", "try", "size", "opened", "denied"}
  /\ run.left + Len(run.slots) = Len(made)
  /\ run.off = Place(Len(run.slots) + 1)
  /\ \A i \in 1 .. Len(run.slots) : run.slots[i] = Stored(i)
  /\ \A j \in 1 .. run.at - 1 : made[j].secret \notin run.cred
  /\ run.pc = "section" => run.at = 1
  /\ run.pc \in {"size", "opened"} => run.at <= Len(made) /\ made[run.at].secret \in run.cred
  /\ run.pc = "denied" => run.at = Len(made) + 1

UnlockInv ==
  /\ MadeOK /\ FileOK /\ RunOK
  /\ run.pc # "idle" /\ damaged \subseteq Unread(run.cred) => OnTrack

-----------------------------------------------------------------------------
(* The first state, and what the invariant gives. *)

LEMMA InitUnlock == Init => UnlockInv
<1> SUFFICES ASSUME Init PROVE UnlockInv
  OBVIOUS
<1>1. MadeOK
  <2>1. PICK n \in 1 .. MaxSlots : made \in [1 .. n -> Wrapped]
    BY DEF Init, Wrapped
  <2>2. made \in Seq(Wrapped) /\ n \in Nat /\ DOMAIN made = 1 .. n
    BY <2>1
  <2>3. Len(made) = n
    BY <2>2, LenProperties
  <2> QED BY <2>1, <2>2, <2>3 DEF MadeOK, Init
<1>2. FileOK
  <2>1. file = Written /\ Written \in Seq(Nat)
    BY <1>1, WrittenCells DEF Init
  <2> QED BY <2>1 DEF FileOK
<1>3. run = Idle /\ run.pc = "idle" /\ run.slots = <<>> /\ run.at = 1 /\ run.off = 0 /\ run.left = 0
  BY DEF Init, Idle
<1>4. RunOK
  <2>1. run \in Runs
    <3>1. <<>> \in Seq(StoredSlot)
      BY EmptySeq
    <3> HIDE DEF StoredSlot
    <3> QED BY <1>3, <3>1 DEF Idle, Runs
  <2>2. Len(file) \in Nat /\ Len(<<>>) = 0
    BY <1>2, LenProperties DEF FileOK
  <2> QED BY <1>3, <2>1, <2>2 DEF RunOK
<1> QED BY <1>1, <1>2, <1>3, <1>4 DEF UnlockInv

LEMMA RunFacts ==
  ASSUME UnlockInv
  PROVE  /\ Len(file) \in Nat /\ Len(run.slots) \in Nat /\ run.off \in Nat /\ run.left \in Nat
         /\ run.at \in Nat /\ run.slots \in Seq(StoredSlot)
         /\ DOMAIN run.slots = 1 .. Len(run.slots)
         /\ DOMAIN made = 1 .. Len(made) /\ Len(made) \in Nat \ {0}
<1>1. file \in Seq(Nat) /\ run.slots \in Seq(StoredSlot) /\ made \in Seq(Wrapped)
      /\ run.off \in Nat /\ run.left \in Nat /\ run.at \in Nat /\ Len(made) \in 1 .. MaxSlots
  BY DEF UnlockInv, FileOK, RunOK, Runs, MadeOK
<1> HIDE DEF StoredSlot, Wrapped
<1>2. Len(file) \in Nat /\ Len(run.slots) \in Nat /\ DOMAIN run.slots = 1 .. Len(run.slots)
      /\ DOMAIN made = 1 .. Len(made)
  BY <1>1, LenProperties
<1> QED BY <1>1, <1>2, KeySlotsAssumption

LEMMA UnlockTypeOK == UnlockInv => TypeOK
<1> SUFFICES ASSUME UnlockInv PROVE TypeOK
  OBVIOUS
<1>1. run.pc \in {"idle", "section", "try", "size"} \cup Outcomes
  BY DEF UnlockInv, RunOK, Runs
<1>2. run.at \in 1 .. Len(run.slots) + 1 /\ run.off \in 0 .. Len(file)
  BY RunFacts DEF UnlockInv, RunOK
<1>3. ASSUME run.pc \in {"try", "size", "opened", "denied"}
      PROVE  Len(run.slots) = file[3] /\ \A i \in DOMAIN run.slots : Len(run.slots[i].body) <= Len(file)
  <2>1. run.left = 0 /\ Len(run.slots) + run.left = file[3]
    BY <1>3 DEF UnlockInv, RunOK
  <2>2. Len(run.slots) = file[3]
    BY <2>1, RunFacts
  <2> QED BY <2>2, RunFacts DEF UnlockInv, RunOK
<1> QED BY <1>1, <1>2, <1>3 DEF TypeOK

LEMMA UnlockStaysLocal == UnlockInv => DamageStaysLocal
<1> SUFFICES ASSUME UnlockInv, run.pc \in Outcomes, damaged \subseteq Unread(run.cred)
             PROVE  OpensAsPromised
  BY DEF DamageStaysLocal
<1>1. OnTrack /\ MadeOK
  BY DEF UnlockInv, Outcomes
<1>2. run.pc = "opened" \/ run.pc = "denied"
  BY <1>1 DEF OnTrack, Outcomes
<1>3. Len(made) \in Nat /\ run.at \in Nat /\ run.at >= 1
  BY RunFacts DEF UnlockInv, RunOK
<1>4. CASE run.pc = "opened"
  <2>1. /\ run.at \in 1 .. Len(made) /\ made[run.at].secret \in run.cred
        /\ \A j \in 1 .. run.at - 1 : made[j].secret \notin run.cred
    BY <1>1, <1>3, <1>4 DEF OnTrack
  <2>2. CanRecover(Slots, run.cred)
    BY <1>1, <2>1, FirstSlot
  <2>3. /\ FirstOpen(Slots, run.cred) \in 1 .. Len(made)
        /\ made[FirstOpen(Slots, run.cred)].secret \in run.cred
        /\ FirstOpen(Slots, run.cred) <= run.at
    BY <1>1, <2>1, <2>2, FirstSlot
  <2>4. FirstOpen(Slots, run.cred) = run.at
    BY <1>3, <2>1, <2>3
  <2> QED BY <1>4, <2>2, <2>4 DEF OpensAsPromised
<1>5. CASE run.pc = "denied"
  <2>1. \A j \in 1 .. Len(made) : made[j].secret \notin run.cred
    BY <1>1, <1>3, <1>5 DEF OnTrack
  <2>2. ~CanRecover(Slots, run.cred)
    BY <1>1, <2>1, FirstSlot
  <2> QED BY <1>5, <2>2 DEF OpensAsPromised
<1> QED BY <1>2, <1>4, <1>5

-----------------------------------------------------------------------------
(* What is read when nothing that is read is damaged. *)

LEMMA FileReads ==
  ASSUME MadeOK, FileOK, NEW cred, damaged \subseteq Unread(cred)
  PROVE  /\ SectionEnd \in Nat /\ SectionEnd + 1 <= Len(file) /\ 3 <= Len(file)
         /\ file[1] = Magic /\ file[2] = Version /\ file[3] = Len(made)
         /\ file[SectionEnd + 1] = SizeField
         /\ \A i \in 1 .. Len(made) :
              /\ Place(i) \in Nat /\ Place(i) + 2 <= Len(file) /\ file[Place(i) + 2] = Len(Body(i))
              /\ Place(i) + 2 + Len(Body(i)) = Place(i + 1) /\ Place(i + 1) <= Len(file)
<1>0. Len(made) \in Nat /\ SectionEnd \in Nat /\ Len(file) \in Nat
  BY Places, LenProperties DEF SectionEnd, FileOK
<1>1. ASSUME NEW k \in 1 .. Len(Written), k \notin Unread(cred)
      PROVE  k <= Len(file) /\ file[k] = Written[k]
  BY <1>1 DEF FileOK
<1>2. SectionEnd + 1 \in 1 .. Len(Written) /\ Len(Written) = SectionEnd + 4
  <2>1. Len(Written) = SectionEnd + 4
    BY WrittenCells
  <2> QED BY <1>0, <2>1
<1>3. SectionEnd + 1 <= Len(file) /\ file[SectionEnd + 1] = SizeField
  BY <1>1, <1>2, AlwaysRead, WrittenCells
<1>4. ASSUME NEW i \in 1 .. Len(made)
      PROVE  /\ Place(i) \in Nat /\ Place(i) + 2 <= Len(file) /\ file[Place(i) + 2] = Len(Body(i))
             /\ Place(i) + 2 + Len(Body(i)) = Place(i + 1) /\ Place(i + 1) <= Len(file)
             /\ Place(i) >= 3 /\ Place(i + 1) <= SectionEnd
  <2>1. 1 \in 1 .. Len(made) + 1 /\ i \in 1 .. Len(made) + 1 /\ i + 1 \in 1 .. Len(made) + 1
        /\ Len(made) + 1 \in 1 .. Len(made) + 1 /\ 1 <= i /\ i + 1 <= Len(made) + 1
    BY <1>0
  <2>2. Place(1) = 3 /\ Place(i) \in Nat /\ Place(i + 1) \in Nat /\ Len(Body(i)) \in Nat
        /\ Place(i + 1) = Place(i) + 2 + Len(Body(i))
    BY <2>1, Places
  <2>3. Place(1) <= Place(i) /\ Place(i + 1) <= SectionEnd
    BY <2>1, PlacesGrow DEF SectionEnd
  <2>4. Place(i) + 2 \in 1 .. Len(Written)
    BY <1>0, <1>2, <2>2, <2>3
  <2>5. Place(i) + 2 <= Len(file) /\ file[Place(i) + 2] = Len(Body(i))
    BY <2>4, <1>1, AlwaysRead, WrittenCells
  <2> QED BY <1>0, <1>3, <2>2, <2>3, <2>5
<1>5. 3 <= Len(file) /\ 3 <= SectionEnd
  <2>1. 1 \in 1 .. Len(made)
    BY <1>0 DEF MadeOK
  <2>2. Place(1) >= 3 /\ Place(1) + 2 <= Len(file) /\ Place(1) \in Nat
        /\ Place(1 + 1) <= SectionEnd /\ Place(1) + 2 + Len(Body(1)) = Place(1 + 1)
    BY <2>1, <1>4
  <2>3. Len(Body(1)) \in Nat
    BY <2>1, Places
  <2> QED BY <1>0, <2>2, <2>3
<1>6. file[1] = Magic /\ file[2] = Version /\ file[3] = Len(made)
  <2>1. \A k \in 1 .. 3 : k \in 1 .. Len(Written) /\ k \notin Unread(cred)
    BY <1>0, <1>2, <1>5, AlwaysRead
  <2>2. file[1] = Written[1] /\ file[2] = Written[2] /\ file[3] = Written[3]
    BY <2>1, <1>1
  <2> QED BY <2>2, WrittenCells
<1> QED BY <1>0, <1>3, <1>4, <1>5, <1>6

\* A slot is tried with all before it skipped: it opens if it is for one of the
\* secrets and is skipped if not.
LEMMA StoredFits ==
  ASSUME MadeOK, FileOK, NEW cred \in Credentials, damaged \subseteq Unread(cred),
         NEW i \in 1 .. Len(made), \A j \in 1 .. i - 1 : made[j].secret \notin cred
  PROVE  Verdict(Stored(i), cred) = IF made[i].secret \in cred THEN "dek" ELSE "skip"
<1>0. Len(made) \in Nat /\ SectionEnd \in Nat /\ Len(file) \in Nat
  BY Places, LenProperties DEF SectionEnd, FileOK
<1>1. ~AfterOpener(i, cred)
  <2> SUFFICES ASSUME CanRecover(Slots, cred), i > FirstOpen(Slots, cred) PROVE FALSE
    BY DEF AfterOpener
  <2>1. FirstOpen(Slots, cred) \in 1 .. Len(made) /\ made[FirstOpen(Slots, cred)].secret \in cred
    BY FirstSlot
  <2>2. FirstOpen(Slots, cred) \in 1 .. i - 1
    BY <1>0, <2>1
  <2> QED BY <2>1, <2>2
<1> DEFINE p == Place(i)  l == Len(Body(i))
<1>2. /\ p \in Nat /\ l \in Nat /\ p + 2 + l = Place(i + 1) /\ Place(i + 1) <= Len(file)
      /\ Body(i) \in Seq(Nat) /\ file \in Seq(Nat)
  BY FileReads, BodyType, Places DEF FileOK
<1>3. Len(Written) = SectionEnd + 4 /\ Place(i + 1) <= SectionEnd
  <2>1. i + 1 \in 1 .. Len(made) + 1 /\ Len(made) + 1 \in 1 .. Len(made) + 1 /\ i + 1 <= Len(made) + 1
    BY <1>0
  <2> QED BY <2>1, PlacesGrow, WrittenCells DEF SectionEnd
<1>4. \A k \in p + 1 .. p + 2 + l : k \in 1 .. Len(Written)
  BY <1>0, <1>2, <1>3
<1>5. Stored(i).type = Kind(made[i].secret)
  <2>1. p + 1 \in 1 .. Len(Written) /\ p + 1 \notin Unread(cred)
    <3>1. p + 1 \in p + 1 .. p + 2 + l
      <4>1. p \in Nat /\ l \in Nat
        BY <1>2
      <4> HIDE DEF p, l
      <4> QED BY <4>1
    <3>2. p + 1 \notin Unread(cred)
      BY <1>1, AlwaysRead
    <3> QED BY <3>1, <3>2, <1>4
  <2>2. file[p + 1] = Written[p + 1]
    BY <2>1 DEF FileOK
  <2> QED BY <2>2, WrittenCells DEF Stored
<1>6. ASSUME ~OtherKind(i, cred) PROVE Stored(i).body = Body(i)
  <2> DEFINE b == SubSeq(file, p + 3, p + 2 + l)  body == Body(i)
  <2>1. \A k \in 1 .. l : file[p + 2 + k] = body[k]
    <3> SUFFICES ASSUME NEW k \in 1 .. l PROVE file[p + 2 + k] = body[k]
      OBVIOUS
    <3>1. p + 2 + k \in BodyCells(i) /\ p + 2 + k \in p + 1 .. p + 2 + l
      <4>1. p + 2 + k \in p + 3 .. p + 2 + l /\ p + 2 + k \in p + 1 .. p + 2 + l
        <5>1. p \in Nat /\ l \in Nat
          BY <1>2
        <5> HIDE DEF p, l
        <5> QED BY <5>1
      <4> QED BY <4>1 DEF BodyCells
    <3>2. p + 2 + k \notin Unread(cred) /\ p + 2 + k \in 1 .. Len(Written)
      BY <3>1, <1>1, <1>4, <1>6, AlwaysRead
    <3>3. file[p + 2 + k] = Written[p + 2 + k]
      BY <3>2 DEF FileOK
    <3>4. Written[p + 2 + k] = body[k]
      BY WrittenCells
    <3> QED BY <3>3, <3>4
  <2>2. b \in Seq(Nat) /\ Len(b) = l /\ \A k \in 1 .. l : b[k] = file[p + 2 + k]
    <3> DEFINE lo == p + 3  hi == p + 2 + l
    <3>1. lo \in Int /\ hi \in Int /\ \A k \in lo .. hi : file[k] \in Nat
      <4>1. p \in Nat /\ l \in Nat /\ p + 2 + l <= Len(file) /\ file \in Seq(Nat)
        BY <1>2
      <4> HIDE DEF p, l
      <4>2. lo \in Int /\ hi \in Int
        BY <4>1
      <4>3. ASSUME NEW k \in lo .. hi PROVE file[k] \in Nat
        <5>1. k \in 1 .. Len(file)
          BY <1>0, <4>1
        <5> QED BY <5>1, <4>1, ElementOfSeq
      <4> QED BY <4>2, <4>3
    <3>2. hi - lo + 1 = l /\ (lo <= hi <=> l # 0) /\ \A k \in 1 .. l : lo + k - 1 = p + 2 + k
      <4>1. p \in Nat /\ l \in Nat
        BY <1>2
      <4> HIDE DEF p, l
      <4> QED BY <4>1
    <3>3. b = SubSeq(file, lo, hi)
      OBVIOUS
    <3> HIDE DEF lo, hi, b, p, l
    <3>4. /\ SubSeq(file, lo, hi) \in Seq(Nat)
          /\ Len(SubSeq(file, lo, hi)) = IF lo <= hi THEN hi - lo + 1 ELSE 0
          /\ \A k \in 1 .. hi - lo + 1 : SubSeq(file, lo, hi)[k] = file[lo + k - 1]
      BY <3>1, SubSeqProperties
    <3> QED BY <3>2, <3>3, <3>4
  <2>3. body \in Seq(Nat) /\ Len(body) = l
    BY <1>2
  <2>4. Stored(i).body = b
    BY DEF Stored
  <2> HIDE DEF b, body, l, p
  <2>5. \A k \in 1 .. Len(b) : b[k] = body[k]
    BY <2>1, <2>2
  <2>6. b = body
    BY <2>2, <2>3, <2>5, SeqEqual
  <2> QED BY <2>4, <2>6 DEF body
<1>7. Stored(i).body = Body(i) \/ \A s \in cred : Kind(s) # Kind(made[i].secret)
  BY <1>6 DEF OtherKind
<1> QED
  <2> DEFINE slot == Stored(i)
  <2>1. slot.type = Kind(made[i].secret) /\ (slot.body = Body(i) \/ \A s \in cred : Kind(s) # Kind(made[i].secret))
    BY <1>5, <1>7
  <2> HIDE DEF slot
  <2>2. Verdict(slot, cred) = IF made[i].secret \in cred THEN "dek" ELSE "skip"
    BY <2>1, SlotFits
  <2> QED BY <2>2 DEF slot

-----------------------------------------------------------------------------
(* The steps of a command leave the file and what was wrapped as they are. *)

Reading == made' = made /\ file' = file /\ damaged' = damaged

LEMMA MadeFixed ==
  ASSUME made' = made
  PROVE  /\ MadeOK' <=> MadeOK
         /\ Written' = Written /\ \A i : Place(i)' = Place(i) /\ Body(i)' = Body(i)
         /\ \A cred : Unread(cred)' = Unread(cred)
<1>1. \A i : Body(i)' = Body(i)
  BY DEF Body
<1>2. \A i : Framed(i)' = Framed(i)
  BY <1>1 DEF Framed
<1>3. \A i : Before(i)' = Before(i)
  BY <1>2 DEF Before
<1>4. \A i : Place(i)' = Place(i)
  BY <1>3 DEF Place
<1>5. Written' = Written
  BY <1>3 DEF Written
<1>6. Slots' = Slots
  BY DEF Slots
<1>7. \A cred : Unread(cred)' = Unread(cred)
  BY <1>1, <1>3, <1>5, <1>6 DEF Unread
<1>8. MadeOK' <=> MadeOK
  BY DEF MadeOK
<1> QED BY <1>1, <1>4, <1>5, <1>7, <1>8

LEMMA VerdictFixed ==
  ASSUME made' = made, NEW slot, NEW cred, slot = run'.slots[run'.at], cred = run'.cred
  PROVE  Verdict(run.slots[run.at], run.cred)' = Verdict(slot, cred)
<1>1. \A i : SealedUnder(i)' = SealedUnder(i)
  BY DEF SealedUnder
<1>2. \A rest, key : Authentic(rest, key)' <=> Authentic(rest, key)
  BY <1>1 DEF Authentic
<1>3. \A b, p : PasswordVerdict(b, p)' = PasswordVerdict(b, p)
  BY <1>2 DEF PasswordVerdict
<1>4. \A b, k : RecipientVerdict(b, k)' = RecipientVerdict(b, k)
  BY <1>2 DEF RecipientVerdict
<1>5. Verdict(slot, cred)' = Verdict(slot, cred)
  BY <1>3, <1>4 DEF Verdict
<1> QED BY <1>5

\* What a step of a command has to show.
Kept == RunOK' /\ (damaged \subseteq Unread(run'.cred) => OnTrack')

LEMMA StepGlue ==
  ASSUME UnlockInv, Reading, Kept
  PROVE  UnlockInv'
<1>1. /\ MadeOK' /\ Written' = Written
      /\ \A cred : Unread(cred)' = Unread(cred)
  BY MadeFixed DEF UnlockInv, Reading
<1>2. FileOK'
  BY <1>1 DEF UnlockInv, FileOK, Reading
<1>3. damaged' \subseteq Unread(run.cred)' => damaged \subseteq Unread(run'.cred)
  BY <1>1 DEF Reading
<1> QED BY <1>1, <1>2, <1>3 DEF Kept, UnlockInv

\* The run with these fields.
RunIs(pc, cred, off, left, slots, at) ==
  run' = [pc |-> pc, cred |-> cred, off |-> off, left |-> left, slots |-> slots, at |-> at]

LEMMA OpenKeeps ==
  ASSUME UnlockInv, NEW cred \in Credentials, Open(cred)
  PROVE  Reading /\ Kept
<1>0. Reading /\ run.pc = "idle" /\ Len(file) \in Nat
  BY RunFacts DEF Open, Reading
<1> DEFINE bad == Len(file) < 3 \/ file[1] # Magic \/ file[2] # Version \/ file[3] = 0
<1>1. cred \subseteq Secrets
  BY OneOfEach
<1>2. <<>> \in Seq(StoredSlot) /\ Len(<<>>) = 0
  BY EmptySeq
<1>3. CASE bad
  <2>1. RunIs("malformed", cred, 0, 0, <<>>, 1)
    BY <1>3 DEF Open, Idle, RunIs
  <2>2. run' \in Runs
    <3> HIDE DEF StoredSlot
    <3> QED BY <1>1, <1>2, <2>1 DEF RunIs, Runs, Outcomes
  <2>3. /\ run'.pc = "malformed" /\ run'.cred = cred /\ run'.slots = <<>> /\ run'.off = 0 /\ run'.at = 1
    BY <2>1 DEF RunIs
  <2>4. RunOK'
    BY <1>0, <1>2, <2>2, <2>3 DEF RunOK, Reading
  <2>5. ~(damaged \subseteq Unread(cred))
    <3>1. ASSUME damaged \subseteq Unread(cred) PROVE FALSE
      <4>1. 3 <= Len(file) /\ file[1] = Magic /\ file[2] = Version /\ file[3] = Len(made)
        BY <3>1, FileReads DEF UnlockInv
      <4> QED BY <4>1, <1>0, <1>3, RunFacts
    <3> QED BY <3>1
  <2> QED BY <1>0, <2>3, <2>4, <2>5 DEF Kept
<1>4. CASE ~bad
  <2>1. RunIs("section", cred, 3, file[3], <<>>, 1)
    BY <1>4 DEF Open, Idle, RunIs
  <2>2. file[3] \in Nat /\ 3 <= Len(file)
    <3>1. file \in Seq(Nat) /\ 3 \in 1 .. Len(file)
      BY <1>0, <1>4 DEF UnlockInv, FileOK
    <3> QED BY <3>1, <1>0, ElementOfSeq
  <2>3. run' \in Runs
    <3> HIDE DEF StoredSlot
    <3> QED BY <1>1, <1>2, <2>1, <2>2 DEF RunIs, Runs
  <2>4. /\ run'.pc = "section" /\ run'.cred = cred /\ run'.slots = <<>> /\ run'.off = 3
        /\ run'.left = file[3] /\ run'.at = 1
    BY <2>1 DEF RunIs
  <2>5. RunOK'
    BY <1>0, <1>2, <2>2, <2>3, <2>4 DEF RunOK, Reading
  <2>6. ASSUME damaged \subseteq Unread(cred) PROVE OnTrack'
    <3>1. file[3] = Len(made) /\ Len(made) \in Nat
      BY <2>6, FileReads, RunFacts DEF UnlockInv
    <3>2. Place(1)' = 3 /\ made' = made
      BY <1>0, MadeFixed, Places DEF Reading, UnlockInv
    <3>3. Len(run'.slots) = 0 /\ run'.left + Len(run'.slots) = Len(made') /\ run'.off = Place(Len(run.slots) + 1)'
      BY <1>2, <2>4, <3>1, <3>2
    <3> QED BY <2>4, <3>3 DEF OnTrack
  <2> QED BY <1>0, <2>4, <2>5, <2>6 DEF Kept
<1> QED BY <1>3, <1>4

LEMMA ReadSlotKeeps ==
  ASSUME UnlockInv, ReadSlot
  PROVE  Reading /\ Kept
<1> DEFINE head == run.off + 2
           n == Len(run.slots)
           slot == [type |-> file[head - 1], body |-> SubSeq(file, head + 1, head + file[head])]
<1>0. /\ Reading /\ run.pc = "section" /\ run.left > 0 /\ RunOK /\ MadeOK /\ FileOK
      /\ run' = IF head > Len(file) \/ head + file[head] > Len(file) THEN Ends("malformed")
                ELSE [run EXCEPT !.off = head + file[head], !.left = @ - 1, !.slots = Append(@, slot)]
  BY DEF ReadSlot, Reading, UnlockInv
<1>1. /\ Len(file) \in Nat /\ n \in Nat /\ run.off \in Nat /\ run.left \in Nat /\ run.at \in Nat
      /\ run.slots \in Seq(StoredSlot) /\ run \in Runs /\ run.cred \in Credentials
      /\ file \in Seq(Nat)
  BY <1>0, RunFacts DEF RunOK, FileOK
<1>2. ASSUME damaged \subseteq Unread(run.cred)
      PROVE  /\ OnTrack /\ n + 1 \in 1 .. Len(made) /\ Len(made) \in Nat /\ head = Place(n + 1) + 2
             /\ head <= Len(file) /\ file[head] = Len(Body(n + 1))
             /\ head + file[head] = Place(n + 2) /\ head + file[head] <= Len(file)
  <2>1. OnTrack /\ Len(made) \in Nat
    BY <1>0, <1>2, RunFacts DEF UnlockInv
  <2>2. n + 1 \in 1 .. Len(made) /\ run.off = Place(n + 1)
    BY <1>0, <1>1, <2>1 DEF OnTrack
  <2>3. /\ Place(n + 1) + 2 <= Len(file) /\ file[Place(n + 1) + 2] = Len(Body(n + 1))
        /\ Place(n + 1) + 2 + Len(Body(n + 1)) = Place((n + 1) + 1) /\ Place((n + 1) + 1) <= Len(file)
    BY <1>0, <1>2, <2>2, FileReads
  <2>4. (n + 1) + 1 = n + 2
    BY <1>1
  <2> QED BY <2>1, <2>2, <2>3, <2>4
<1>3. CASE head > Len(file) \/ head + file[head] > Len(file)
  <2>1. run' = [run EXCEPT !.pc = "malformed"]
    BY <1>0, <1>3 DEF Ends
  <2>2. /\ run'.pc = "malformed" /\ run'.cred = run.cred /\ run'.off = run.off /\ run'.left = run.left
        /\ run'.slots = run.slots /\ run'.at = run.at /\ run' \in Runs
    <3> HIDE DEF StoredSlot
    <3> QED BY <1>1, <2>1 DEF Runs, Outcomes
  <2>3. RunOK'
    <3>1. run'.left # 0 /\ file' = file
      BY <1>0, <1>1, <2>2 DEF Reading
    <3>2. run'.off <= Len(file') /\ run'.at \in 1 .. Len(run'.slots) + 1
          /\ \A i \in 1 .. Len(run'.slots) : Len(run'.slots[i].body) <= Len(file')
      BY <1>0, <2>2, <3>1 DEF RunOK
    <3> QED BY <1>1, <2>2, <3>1, <3>2 DEF RunOK
  <2>4. ~(damaged \subseteq Unread(run.cred))
    <3> HIDE DEF head, n
    <3>1. ASSUME damaged \subseteq Unread(run.cred) PROVE FALSE
      <4>1. head <= Len(file) /\ file[head] = Len(Body(n + 1)) /\ head + file[head] <= Len(file)
            /\ n + 1 \in 1 .. Len(made)
        BY <1>2, <3>1
      <4>2. Len(Body(n + 1)) \in Nat /\ head \in Nat
        <5>1. Len(Body(n + 1)) \in Nat
          BY <1>0, <4>1, Places
        <5>2. head \in Nat
          BY <1>1 DEF head
        <5> QED BY <5>1, <5>2
      <4> QED BY <1>1, <1>3, <4>1, <4>2
    <3> QED BY <3>1
  <2> QED BY <1>0, <2>2, <2>3, <2>4 DEF Kept
<1>4. CASE ~(head > Len(file) \/ head + file[head] > Len(file))
  <2> DEFINE l == file[head]
  <2>1. head \in Nat /\ head >= 2 /\ head <= Len(file) /\ l \in Nat /\ head + l <= Len(file) /\ file[head - 1] \in Nat
    <3>1. head \in Nat /\ head >= 2
      BY <1>1
    <3> HIDE DEF head
    <3>2. head \in 1 .. Len(file) /\ head - 1 \in 1 .. Len(file)
      BY <1>1, <1>4, <3>1
    <3>3. l \in Nat /\ file[head - 1] \in Nat
      BY <1>1, <3>2, ElementOfSeq
    <3> QED BY <1>1, <1>4, <3>1, <3>2, <3>3
  <2>2. slot \in StoredSlot /\ Len(slot.body) = l
    <3> HIDE DEF head, l
    <3> DEFINE lo == head + 1  hi == head + l  b == SubSeq(file, lo, hi)
    <3>1. lo \in Int /\ hi \in Int /\ hi - lo + 1 = l /\ (lo <= hi <=> l # 0)
      BY <2>1
    <3>2. \A k \in lo .. hi : file[k] \in Nat
      <4> SUFFICES ASSUME NEW k \in lo .. hi PROVE file[k] \in Nat
        OBVIOUS
      <4>1. k \in 1 .. Len(file)
        BY <1>1, <2>1
      <4> QED BY <4>1, <1>1, ElementOfSeq
    <3> HIDE DEF lo, hi
    <3>3. SubSeq(file, lo, hi) \in Seq(Nat) /\ Len(SubSeq(file, lo, hi)) = IF lo <= hi THEN hi - lo + 1 ELSE 0
      BY <3>1, <3>2, SubSeqProperties
    <3>4. b \in Seq(Nat) /\ Len(b) = l
      BY <2>1, <3>1, <3>3
    <3>5. slot = [type |-> file[head - 1], body |-> b]
      BY DEF lo, hi, l
    <3> HIDE DEF b, slot
    <3> QED BY <2>1, <3>4, <3>5 DEF StoredSlot
  <2>3. run' = [run EXCEPT !.off = head + l, !.left = @ - 1, !.slots = Append(@, slot)]
    BY <1>0, <1>4
  <2> HIDE DEF head, l, slot, n
  <2> DEFINE s == Append(run.slots, slot)
  <2>4. /\ s \in Seq(StoredSlot) /\ Len(s) = n + 1 /\ s[n + 1] = slot
        /\ \A i \in 1 .. n : s[i] = run.slots[i]
    <3> HIDE DEF StoredSlot
    <3> QED BY <1>1, <2>2, AppendProperties DEF n
  <2>5. /\ run'.pc = "section" /\ run'.cred = run.cred /\ run'.off = head + l /\ run'.left = run.left - 1
        /\ run'.slots = s /\ run'.at = run.at
    BY <1>0, <1>1, <2>3 DEF Runs
  <2> HIDE DEF s
  <2>6. run' \in Runs
    <3>1. run' = [pc |-> "section", cred |-> run.cred, off |-> head + l, left |-> run.left - 1,
                  slots |-> s, at |-> run.at]
      BY <1>0, <1>1, <2>3 DEF Runs, s
    <3>2. head + l \in Nat /\ run.left - 1 \in Nat
      <4>1. run.left \in Nat /\ run.left > 0 /\ head \in Nat /\ l \in Nat
        BY <1>0, <1>1, <2>1
      <4> QED BY ONLY <4>1
    <3>3. run.cred \in SUBSET Secrets
      BY <1>1, OneOfEach
    <3> HIDE DEF StoredSlot
    <3> QED BY <1>1, <2>4, <3>1, <3>2, <3>3 DEF Runs
  <2>7. RunOK'
    <3>1. \A i \in 1 .. n + 1 : Len(s[i].body) <= Len(file)
      <4> SUFFICES ASSUME NEW i \in 1 .. n + 1 PROVE Len(s[i].body) <= Len(file)
        OBVIOUS
      <4>1. CASE i = n + 1
        BY <1>1, <2>1, <2>2, <2>4, <4>1
      <4>2. CASE i # n + 1
        <5>1. i \in 1 .. n
          BY <1>1, <4>2
        <5> QED BY <5>1, <1>0, <2>4 DEF RunOK, n
      <4> QED BY <4>1, <4>2
    <3>2. run'.off <= Len(file') /\ run'.at \in 1 .. Len(run'.slots) + 1
          /\ Len(run'.slots) + run'.left = file'[3]
      <4>1. run.at \in 1 .. n + 1 /\ n + run.left = file[3]
        BY <1>0 DEF RunOK, n
      <4>2. /\ n \in Nat /\ run.left \in Nat /\ run'.left = run.left - 1 /\ Len(run'.slots) = n + 1
            /\ run'.at = run.at /\ run'.off = head + l
        BY <1>1, <2>4, <2>5
      <4>3. file' = file /\ head + l <= Len(file)
        BY <1>0, <2>1 DEF Reading
      <4>4. Len(run'.slots) + run'.left = n + run.left
        BY ONLY <4>2
      <4>5. run'.at \in 1 .. Len(run'.slots) + 1
        BY <4>1, <4>2
      <4> QED BY <4>1, <4>2, <4>3, <4>4, <4>5
    <3>3. \A i \in 1 .. Len(run'.slots) : Len(run'.slots[i].body) <= Len(file')
      BY <1>0, <2>4, <2>5, <3>1 DEF Reading
    <3> QED BY <1>1, <2>5, <2>6, <3>2, <3>3 DEF RunOK
  <2>8. ASSUME damaged \subseteq Unread(run.cred) PROVE OnTrack'
    <3>1. /\ OnTrack /\ n + 1 \in 1 .. Len(made) /\ head = Place(n + 1) + 2
          /\ l = Len(Body(n + 1)) /\ head + l = Place(n + 2)
      BY <1>2, <2>8 DEF l, n, head
    <3>2. \A i : Stored(i)' = Stored(i)
      BY <1>0, MadeFixed DEF Reading, Stored
    <3>3. made' = made /\ \A i : Place(i)' = Place(i)
      BY <1>0, MadeFixed DEF Reading
    <3>4. slot = Stored(n + 1)
      <4>1. Place(n + 1) \in Nat /\ Len(Body(n + 1)) \in Nat
        BY <1>0, <3>1, Places
      <4>2. head - 1 = Place(n + 1) + 1 /\ head + 1 = Place(n + 1) + 3
            /\ head + l = Place(n + 1) + 2 + Len(Body(n + 1))
        <5>1. head = Place(n + 1) + 2 /\ l = Len(Body(n + 1))
          BY <3>1
        <5> HIDE DEF head, l
        <5> QED BY ONLY <4>1, <5>1
      <4>3. slot = [type |-> file[head - 1], body |-> SubSeq(file, head + 1, head + l)]
        BY DEF slot, l
      <4> QED BY <4>2, <4>3 DEF Stored
    <3>5. \A i \in 1 .. n + 1 : s[i] = Stored(i)
      <4> SUFFICES ASSUME NEW i \in 1 .. n + 1 PROVE s[i] = Stored(i)
        OBVIOUS
      <4>1. CASE i = n + 1
        BY <2>4, <3>4, <4>1
      <4>2. CASE i # n + 1
        <5>1. i \in 1 .. n
          BY <1>1, <4>2
        <5> QED BY <5>1, <2>4, <3>1 DEF OnTrack, n
      <4> QED BY <4>1, <4>2
    <3>6. run'.left + Len(run'.slots) = Len(made)
      <4>1. run.left + n = Len(made) /\ n \in Nat /\ run.left \in Nat
        BY <1>1, <3>1 DEF OnTrack, n
      <4>2. run'.left = run.left - 1 /\ Len(run'.slots) = n + 1
        BY <2>4, <2>5
      <4>3. run'.left + Len(run'.slots) = run.left + n
        BY ONLY <4>1, <4>2
      <4> QED BY <4>1, <4>3
    <3>7. run'.off = Place(Len(run'.slots) + 1) /\ Len(run'.slots) = n + 1
      <4>1. (n + 1) + 1 = n + 2
        BY <1>1
      <4> QED BY <2>4, <2>5, <3>1, <4>1
    <3>8. run'.off = Place(Len(run.slots) + 1)'
      BY <3>3, <3>7
    <3>9. \A i \in 1 .. Len(run'.slots) : run'.slots[i] = Stored(i)'
      BY <2>5, <3>2, <3>5, <3>7
    <3>10. run'.at = 1 /\ \A j \in 1 .. run'.at - 1 : made'[j].secret \notin run'.cred
      BY <1>0, <2>5, <3>1 DEF OnTrack
    <3> QED BY <2>5, <3>3, <3>6, <3>8, <3>9, <3>10 DEF OnTrack
  <2> QED BY <1>0, <2>5, <2>7, <2>8 DEF Kept
<1> QED BY <1>3, <1>4

\* A step that only moves the run on, in the section that has been read.
MovesOn(pc, at) ==
  /\ run'.pc = pc /\ run'.at = at
  /\ run'.cred = run.cred /\ run'.off = run.off /\ run'.left = run.left /\ run'.slots = run.slots

LEMMA MovesOnOK ==
  ASSUME UnlockInv, NEW pc \in {"try", "size"} \cup Outcomes, NEW at \in Nat,
         run' = [run EXCEPT !.pc = pc, !.at = at]
  PROVE  MovesOn(pc, at) /\ run' \in Runs
<1>1. run \in Runs
  BY DEF UnlockInv, RunOK
<1> HIDE DEF StoredSlot, Outcomes
<1> QED BY <1>1 DEF Runs, MovesOn

\* What RunOK asks after such a step.
LEMMA MovesOnRun ==
  ASSUME UnlockInv, Reading, NEW pc \in {"try", "size"} \cup Outcomes,
         NEW at \in 1 .. Len(run.slots) + 1, MovesOn(pc, at), run' \in Runs, run.pc # "idle",
         pc \in {"try", "size", "opened", "denied"} =>
           Len(run.slots) = file[3] /\ run.left = 0,
         pc = "size" =>
           at <= Len(run.slots) /\ Verdict(run.slots[at], run.cred) = "dek",
         pc = "malformed" =>
           at <= Len(run.slots) /\ Verdict(run.slots[at], run.cred) \in {"malformed", "dek"}
  PROVE  RunOK'
<1> DEFINE slot == run.slots[at]
<1>1. /\ run'.pc = pc /\ run'.at = at /\ run'.cred = run.cred /\ run'.off = run.off
      /\ run'.left = run.left /\ run'.slots = run.slots /\ file' = file /\ made' = made
  BY DEF MovesOn, Reading
<1>2. Verdict(run.slots[run.at], run.cred)' = Verdict(slot, run.cred)
  <2>1. slot = run'.slots[run'.at] /\ run.cred = run'.cred
    BY <1>1
  <2> HIDE DEF slot
  <2> QED BY <1>1, <2>1, VerdictFixed
<1>3. run'.pc # "idle" /\ pc # "section" /\ pc # "idle"
  BY <1>1 DEF Outcomes
<1>4. run'.cred \in Credentials /\ run'.off <= Len(file') /\ run'.at \in 1 .. Len(run'.slots) + 1
      /\ \A i \in 1 .. Len(run'.slots) : Len(run'.slots[i].body) <= Len(file')
  BY <1>1 DEF UnlockInv, RunOK
<1>5. run'.pc \in {"section", "try", "size", "opened", "denied"} =>
        Len(run'.slots) + run'.left = file'[3] /\ run'.left = 0
  <2>1. Len(run.slots) \in Nat
    BY RunFacts
  <2> QED BY <1>1, <1>3, <2>1
<1>6. /\ run'.pc = "size" => run'.at <= Len(run'.slots) /\ Verdict(slot, run.cred) = "dek"
      /\ run'.pc = "malformed" =>
           run'.at <= Len(run'.slots) /\ Verdict(slot, run.cred) \in {"malformed", "dek"}
  BY <1>1
<1> HIDE DEF slot
<1> QED BY <1>2, <1>3, <1>4, <1>5, <1>6 DEF RunOK

\* What OnTrack asks after such a step.
LEMMA MovesOnTrack ==
  ASSUME UnlockInv, Reading, OnTrack, NEW pc, NEW at, MovesOn(pc, at),
         pc \in {"try", "size", "opened", "denied"},
         \A j \in 1 .. at - 1 : made[j].secret \notin run.cred,
         pc \in {"size", "opened"} => at <= Len(made) /\ made[at].secret \in run.cred,
         pc = "denied" => at = Len(made) + 1
  PROVE  OnTrack'
<1>1. /\ run'.pc = pc /\ run'.at = at /\ run'.cred = run.cred /\ run'.off = run.off
      /\ run'.left = run.left /\ run'.slots = run.slots /\ file' = file /\ made' = made
  BY DEF MovesOn, Reading
<1>2. \A i : Place(i)' = Place(i) /\ Stored(i)' = Stored(i)
  BY <1>1, MadeFixed DEF Stored
<1>3. /\ run'.left + Len(run'.slots) = Len(made')
      /\ run'.off = Place(Len(run.slots) + 1)'
      /\ \A i \in 1 .. Len(run'.slots) : run'.slots[i] = Stored(i)'
  BY <1>1, <1>2 DEF OnTrack
<1>4. /\ run'.pc # "section" /\ run'.pc \in {"section", "try", "size", "opened", "denied"}
      /\ \A j \in 1 .. run'.at - 1 : made'[j].secret \notin run'.cred
      /\ run'.pc \in {"size", "opened"} => run'.at <= Len(made') /\ made'[run'.at].secret \in run'.cred
      /\ run'.pc = "denied" => run'.at = Len(made') + 1
  BY <1>1
<1> QED BY <1>3, <1>4 DEF OnTrack

LEMMA SectionEndsKeeps ==
  ASSUME UnlockInv, SectionEnds
  PROVE  Reading /\ Kept
<1>1. Reading /\ run.pc = "section" /\ run.left = 0 /\ run' = [run EXCEPT !.pc = "try"]
  BY DEF SectionEnds, Reading
<1>2. run' = [run EXCEPT !.pc = "try", !.at = run.at]
  BY <1>1 DEF UnlockInv, RunOK, Runs
<1>3. MovesOn("try", run.at) /\ run' \in Runs /\ run.at \in 1 .. Len(run.slots) + 1
  BY <1>2, RunFacts, MovesOnOK DEF UnlockInv, RunOK
<1>4. Len(run.slots) = file[3]
  <2>1. Len(run.slots) + run.left = file[3] /\ Len(run.slots) \in Nat
    BY <1>1, RunFacts DEF UnlockInv, RunOK
  <2> QED BY <1>1, <2>1
<1>5. RunOK'
  BY <1>1, <1>3, <1>4, MovesOnRun DEF Outcomes
<1>6. ASSUME damaged \subseteq Unread(run.cred) PROVE OnTrack'
  <2>1. OnTrack
    BY <1>1, <1>6 DEF UnlockInv
  <2>2. \A j \in 1 .. run.at - 1 : made[j].secret \notin run.cred
    BY <2>1 DEF OnTrack
  <2> QED BY <1>1, <1>3, <2>1, <2>2, MovesOnTrack
<1>7. run'.cred = run.cred
  BY <1>3 DEF MovesOn
<1> QED BY <1>1, <1>5, <1>6, <1>7 DEF Kept

LEMMA NoneFitsKeeps ==
  ASSUME UnlockInv, NoneFits
  PROVE  Reading /\ Kept
<1>1. Reading /\ run.pc = "try" /\ run.at > Len(run.slots) /\ run' = [run EXCEPT !.pc = "denied"]
  BY DEF NoneFits, Reading, Ends
<1>2. run' = [run EXCEPT !.pc = "denied", !.at = run.at]
  BY <1>1 DEF UnlockInv, RunOK, Runs
<1>3. MovesOn("denied", run.at) /\ run' \in Runs /\ run.at \in 1 .. Len(run.slots) + 1
  BY <1>2, RunFacts, MovesOnOK DEF UnlockInv, RunOK, Outcomes
<1>4. Len(run.slots) = file[3] /\ run.left = 0
  <2>1. Len(run.slots) + run.left = file[3] /\ Len(run.slots) \in Nat /\ run.left = 0
    BY <1>1, RunFacts DEF UnlockInv, RunOK
  <2> QED BY <2>1
<1>5. RunOK'
  BY <1>1, <1>3, <1>4, MovesOnRun DEF Outcomes
<1>6. ASSUME damaged \subseteq Unread(run.cred) PROVE OnTrack'
  <2>1. OnTrack
    BY <1>1, <1>6 DEF UnlockInv
  <2>2. \A j \in 1 .. run.at - 1 : made[j].secret \notin run.cred
    BY <2>1 DEF OnTrack
  <2>3. run.at = Len(made) + 1
    <3>1. run.left + Len(run.slots) = Len(made) /\ Len(run.slots) \in Nat
      BY <2>1, RunFacts DEF OnTrack
    <3> QED BY <1>1, <1>3, <1>4, <3>1
  <2> QED BY <1>1, <1>3, <2>1, <2>2, <2>3, MovesOnTrack
<1>7. run'.cred = run.cred
  BY <1>3 DEF MovesOn
<1> QED BY <1>1, <1>5, <1>6, <1>7 DEF Kept

LEMMA ReadSizeKeeps ==
  ASSUME UnlockInv, ReadSize
  PROVE  Reading /\ Kept
<1> DEFINE fits == run.off < Len(file) /\ file[run.off + 1] \in 1 .. Huge - 1
           pc == IF fits THEN "opened" ELSE "malformed"
<1>1. Reading /\ run.pc = "size" /\ run' = [run EXCEPT !.pc = pc]
  BY DEF ReadSize, Reading, Ends
<1>0. pc \in Outcomes /\ pc \in {"opened", "malformed"}
  BY DEF Outcomes
<1>2. fits <=> pc = "opened"
  OBVIOUS
<1> HIDE DEF pc
<1>3. run' = [run EXCEPT !.pc = pc, !.at = run.at]
  BY <1>1 DEF UnlockInv, RunOK, Runs
<1>4. MovesOn(pc, run.at) /\ run' \in Runs /\ run.at \in 1 .. Len(run.slots) + 1
  BY <1>0, <1>3, RunFacts, MovesOnOK DEF UnlockInv, RunOK
<1>5. Len(run.slots) = file[3] /\ run.left = 0
  <2>1. Len(run.slots) + run.left = file[3] /\ Len(run.slots) \in Nat /\ run.left = 0
    BY <1>1, RunFacts DEF UnlockInv, RunOK
  <2> QED BY <2>1
<1>6. run.at <= Len(run.slots) /\ Verdict(run.slots[run.at], run.cred) = "dek"
  BY <1>1 DEF UnlockInv, RunOK
<1>7. RunOK'
  BY <1>0, <1>1, <1>4, <1>5, <1>6, MovesOnRun
<1>8. ASSUME damaged \subseteq Unread(run.cred) PROVE OnTrack'
  <2>1. OnTrack /\ MadeOK /\ FileOK
    BY <1>1, <1>8 DEF UnlockInv
  <2>2. /\ \A j \in 1 .. run.at - 1 : made[j].secret \notin run.cred
        /\ run.at <= Len(made) /\ made[run.at].secret \in run.cred
    BY <1>1, <2>1 DEF OnTrack
  <2>3. pc = "opened"
    <3>1. Len(run.slots) = Len(made)
      <4>1. run.left + Len(run.slots) = Len(made) /\ Len(run.slots) \in Nat
        BY <2>1, RunFacts DEF OnTrack
      <4> QED BY <1>5, <4>1
    <3>2. run.off = SectionEnd
      BY <2>1, <3>1 DEF OnTrack, SectionEnd
    <3>3. SectionEnd \in Nat /\ SectionEnd + 1 <= Len(file) /\ file[SectionEnd + 1] = SizeField
      BY <2>1, <1>8, FileReads
    <3>4. run.off < Len(file) /\ file[run.off + 1] = 6 /\ 6 \in 1 .. Huge - 1
      BY <3>2, <3>3, RunFacts DEF SizeField, Huge
    <3> QED BY <1>2, <3>4
  <2>4. pc \in {"try", "size", "opened", "denied"} /\ pc # "denied"
    BY <2>3
  <2> QED BY <1>1, <1>4, <2>1, <2>2, <2>4, MovesOnTrack
<1>9. run'.cred = run.cred
  BY <1>4 DEF MovesOn
<1> QED BY <1>1, <1>7, <1>8, <1>9 DEF Kept

LEMMA TrySlotKeeps ==
  ASSUME UnlockInv, TrySlot
  PROVE  Reading /\ Kept
<1> DEFINE slot == run.slots[run.at]
           v == Verdict(slot, run.cred)
           pc == CASE v = "skip" -> "try" [] v = "dek" -> "size" [] OTHER -> v
           at == IF v = "skip" THEN run.at + 1 ELSE run.at
<1>0. /\ run \in Runs /\ run.at \in Nat /\ run.at >= 1 /\ Len(run.slots) \in Nat
      /\ run.cred \in Credentials /\ run.pc = "try" /\ run.at <= Len(run.slots)
  BY RunFacts DEF UnlockInv, RunOK, TrySlot
<1>1. Reading /\ run' = [run EXCEPT !.pc = pc, !.at = at]
  <2>1. Reading
    BY DEF TrySlot, Reading
  <2>2. run' = CASE v = "skip" -> [run EXCEPT !.at = @ + 1]
                 [] v = "dek" -> [run EXCEPT !.pc = "size"]
                 [] OTHER -> [run EXCEPT !.pc = v]
    BY DEF TrySlot, Ends
  <2> HIDE DEF v
  <2>3. CASE v = "skip"
    <3>1. run' = [run EXCEPT !.at = run.at + 1] /\ pc = "try" /\ at = run.at + 1
      BY <2>2, <2>3
    <3> HIDE DEF pc, at
    <3> QED BY <1>0, <2>1, <3>1 DEF Runs
  <2>4. CASE v = "dek"
    <3>1. run' = [run EXCEPT !.pc = "size"] /\ pc = "size" /\ at = run.at
      BY <2>2, <2>4
    <3> HIDE DEF pc, at
    <3> QED BY <1>0, <2>1, <3>1 DEF Runs
  <2>5. CASE v # "skip" /\ v # "dek"
    <3>1. run' = [run EXCEPT !.pc = v] /\ pc = v /\ at = run.at
      BY <2>2, <2>5
    <3> HIDE DEF pc, at
    <3> QED BY <1>0, <2>1, <3>1 DEF Runs
  <2> QED BY <2>3, <2>4, <2>5
<1>2. v \in {"skip", "dek", "malformed", "crash"}
  BY VerdictType
<1>3. /\ pc \in {"try", "size"} \cup Outcomes /\ at \in 1 .. Len(run.slots) + 1 /\ at \in Nat
      /\ pc \notin {"idle", "section", "opened", "denied"}
      /\ pc = "try" <=> v = "skip"
      /\ pc = "size" <=> v = "dek"
      /\ pc = "malformed" <=> v = "malformed"
      /\ v = "skip" => at = run.at + 1
      /\ v # "skip" => at = run.at
  <2> HIDE DEF v
  <2> QED BY <1>0, <1>2 DEF Outcomes
<1> HIDE DEF pc, at
<1>4. MovesOn(pc, at) /\ run' \in Runs
  BY <1>1, <1>3, MovesOnOK
<1>5. Len(run.slots) = file[3] /\ run.left = 0
  <2>1. Len(run.slots) + run.left = file[3] /\ Len(run.slots) \in Nat /\ run.left = 0
    BY <1>0, RunFacts DEF UnlockInv, RunOK
  <2> QED BY <2>1
<1>6. /\ pc = "size" => at <= Len(run.slots) /\ Verdict(run.slots[at], run.cred) = "dek"
      /\ pc = "malformed" =>
           at <= Len(run.slots) /\ Verdict(run.slots[at], run.cred) \in {"malformed", "dek"}
  BY <1>0, <1>3
<1>7. RunOK'
  BY <1>0, <1>1, <1>3, <1>4, <1>5, <1>6, MovesOnRun
<1>8. ASSUME damaged \subseteq Unread(run.cred) PROVE OnTrack'
  <2>1. OnTrack /\ MadeOK /\ FileOK
    BY <1>0, <1>8 DEF UnlockInv
  <2>2. \A j \in 1 .. run.at - 1 : made[j].secret \notin run.cred
    BY <2>1 DEF OnTrack
  <2>3. run.at \in 1 .. Len(made) /\ slot = Stored(run.at)
    <3>1. run.left + Len(run.slots) = Len(made) /\ Len(run.slots) \in Nat
      BY <2>1, RunFacts DEF OnTrack
    <3>2. Len(run.slots) = Len(made)
      BY <1>5, <3>1
    <3>3. run.at \in 1 .. Len(run.slots)
      BY <1>0
    <3> QED BY <2>1, <3>2, <3>3 DEF OnTrack
  <2>4. v = IF made[run.at].secret \in run.cred THEN "dek" ELSE "skip"
    BY <1>0, <1>8, <2>1, <2>2, <2>3, StoredFits
  <2> HIDE DEF v
  <2>5. \A j \in 1 .. at - 1 : made[j].secret \notin run.cred
    <3>1. CASE v = "skip"
      <4>1. made[run.at].secret \notin run.cred /\ at = run.at + 1
        BY <1>3, <2>4, <3>1
      <4>2. \A j \in 1 .. at - 1 : j \in 1 .. run.at - 1 \/ j = run.at
        BY <1>0, <4>1
      <4> QED BY <2>2, <4>1, <4>2
    <3>2. CASE v # "skip"
      BY <1>3, <2>2, <3>2
    <3> QED BY <3>1, <3>2
  <2>6. pc \in {"try", "size", "opened", "denied"} /\ pc # "denied"
        /\ (pc \in {"size", "opened"} => at <= Len(made) /\ made[at].secret \in run.cred)
    BY <1>3, <2>3, <2>4
  <2> QED BY <1>1, <1>4, <2>1, <2>5, <2>6, MovesOnTrack
<1>9. run'.cred = run.cred
  BY <1>4 DEF MovesOn
<1> QED BY <1>1, <1>7, <1>8, <1>9 DEF Kept

-----------------------------------------------------------------------------
(* Damage. *)

LEMMA DamageKeeps ==
  ASSUME UnlockInv, \/ \E k \in DOMAIN file, v \in Garbage : DamageCell(k, v)
                    \/ \E k \in DOMAIN file : Cut(k)
  PROVE  UnlockInv'
<1>0. file \in Seq(Nat) /\ Len(file) \in Nat /\ DOMAIN file = 1 .. Len(file)
  BY LenProperties DEF UnlockInv, FileOK
<1>1. run' = run /\ made' = made /\ run.pc = "idle"
  BY DEF DamageCell, Cut
<1>2. MadeOK' /\ Written' = Written
  BY <1>1, MadeFixed DEF UnlockInv
<1>3. run' \in Runs /\ run' = Idle /\ run'.off = 0 /\ run'.at = 1 /\ run'.slots = <<>> /\ run'.pc = "idle"
  BY <1>1 DEF UnlockInv, RunOK, Idle
<1>4. FileOK'
  <2>1. CASE \E k \in DOMAIN file, v \in Garbage : DamageCell(k, v)
    <3>1. PICK k \in 1 .. Len(file), v \in Garbage : DamageCell(k, v)
      BY <1>0, <2>1
    <3>2. file' = [file EXCEPT ![k] = v] /\ damaged' = damaged \cup {k} /\ v \in Nat
      BY <3>1, SlotUnlockAssumption DEF DamageCell
    <3>3. /\ file' \in Seq(Nat) /\ Len(file') = Len(file)
          /\ \A j \in 1 .. Len(file) : file'[j] = IF j = k THEN v ELSE file[j]
      BY <1>0, <3>2, ExceptSeq
    <3>4. ASSUME NEW j \in 1 .. Len(Written)
          PROVE  j \in damaged' \/ (j <= Len(file') /\ file'[j] = Written[j])
      <4>1. j \in damaged \/ (j <= Len(file) /\ file[j] = Written[j])
        BY DEF UnlockInv, FileOK
      <4>2. j <= Len(file) => j \in 1 .. Len(file)
        BY <1>0
      <4> QED BY <3>2, <3>3, <4>1, <4>2
    <3> QED BY <1>2, <3>3, <3>4 DEF FileOK
  <2>2. CASE \E k \in DOMAIN file : Cut(k)
    <3>1. PICK k \in 1 .. Len(file) : Cut(k)
      BY <1>0, <2>2
    <3>2. file' = SubSeq(file, 1, k - 1) /\ damaged' = damaged \cup (k .. Len(file))
      BY <3>1 DEF Cut
    <3>3. /\ file' \in Seq(Nat) /\ Len(file') = k - 1
          /\ \A j \in 1 .. k - 1 : file'[j] = file[j]
      <4> DEFINE hi == k - 1
      <4>1. hi \in Nat /\ hi <= Len(file) /\ \A j \in 1 .. hi : j \in 1 .. Len(file)
        BY <1>0
      <4>2. \A j \in 1 .. hi : file[j] \in Nat
        BY <1>0, <4>1, ElementOfSeq
      <4> HIDE DEF hi
      <4>3. /\ SubSeq(file, 1, hi) \in Seq(Nat)
            /\ Len(SubSeq(file, 1, hi)) = IF 1 <= hi THEN hi - 1 + 1 ELSE 0
            /\ \A j \in 1 .. hi - 1 + 1 : SubSeq(file, 1, hi)[j] = file[1 + j - 1]
        BY <4>1, <4>2, SubSeqProperties
      <4>4. hi - 1 + 1 = hi /\ \A j \in 1 .. hi : 1 + j - 1 = j
        BY <4>1
      <4>5. Len(SubSeq(file, 1, hi)) = hi
        BY <4>1, <4>3, <4>4
      <4>6. \A j \in 1 .. hi : SubSeq(file, 1, hi)[j] = file[j]
        BY <4>3, <4>4
      <4> QED BY <3>2, <4>3, <4>5, <4>6 DEF hi
    <3>4. ASSUME NEW j \in 1 .. Len(Written)
          PROVE  j \in damaged' \/ (j <= Len(file') /\ file'[j] = Written[j])
      <4>1. j \in damaged \/ (j <= Len(file) /\ file[j] = Written[j])
        BY DEF UnlockInv, FileOK
      <4>2. j <= Len(file) => j \in k .. Len(file) \/ (j \in 1 .. k - 1 /\ j <= k - 1)
        BY <1>0
      <4> QED BY <3>2, <3>3, <4>1, <4>2
    <3> QED BY <1>2, <3>3, <3>4 DEF FileOK
  <2> QED BY <2>1, <2>2
<1>5. RunOK'
  <2>1. Len(file') \in Nat /\ Len(<<>>) = 0
    BY <1>4, LenProperties DEF FileOK
  <2> QED BY <1>3, <2>1 DEF RunOK
<1> QED BY <1>2, <1>3, <1>4, <1>5 DEF UnlockInv

-----------------------------------------------------------------------------
(* Every step, and the theorems. *)

LEMMA UnlockStep == UnlockInv /\ [Next]_vars => UnlockInv'
<1> SUFFICES ASSUME UnlockInv, [Next]_vars PROVE UnlockInv'
  OBVIOUS
<1>1. CASE \/ \E k \in DOMAIN file, v \in Garbage : DamageCell(k, v)
           \/ \E k \in DOMAIN file : Cut(k)
  BY <1>1, DamageKeeps
<1>2. ASSUME NEW cred \in Credentials, Open(cred) PROVE UnlockInv'
  BY <1>2, OpenKeeps, StepGlue
<1>3. CASE ReadSlot
  BY <1>3, ReadSlotKeeps, StepGlue
<1>4. CASE SectionEnds
  BY <1>4, SectionEndsKeeps, StepGlue
<1>5. CASE TrySlot
  BY <1>5, TrySlotKeeps, StepGlue
<1>6. CASE NoneFits
  BY <1>6, NoneFitsKeeps, StepGlue
<1>7. CASE ReadSize
  BY <1>7, ReadSizeKeeps, StepGlue
<1>8. CASE UNCHANGED vars
  <2>1. made' = made /\ file' = file /\ damaged' = damaged /\ run' = run
    BY <1>8 DEF vars
  <2>2. /\ MadeOK' /\ Written' = Written
        /\ \A cred : Unread(cred)' = Unread(cred)
    BY <2>1, MadeFixed DEF UnlockInv
  <2>3. FileOK'
    BY <2>1, <2>2 DEF UnlockInv, FileOK
  <2>4. Verdict(run.slots[run.at], run.cred)' = Verdict(run.slots[run.at], run.cred)
    <3> DEFINE slot == run.slots[run.at]  cred == run.cred
    <3>1. slot = run'.slots[run'.at] /\ cred = run'.cred
      BY <2>1
    <3> HIDE DEF slot, cred
    <3>2. Verdict(run.slots[run.at], run.cred)' = Verdict(slot, cred)
      BY <2>1, <3>1, VerdictFixed
    <3> QED BY <3>2 DEF slot, cred
  <2>5. RunOK'
    BY <2>1, <2>4 DEF UnlockInv, RunOK
  <2>6. OnTrack => OnTrack'
    <3>1. \A i : Place(i)' = Place(i) /\ Stored(i)' = Stored(i)
      BY <2>1, MadeFixed DEF Stored
    <3> QED BY <2>1, <3>1 DEF OnTrack
  <2> QED BY <2>1, <2>2, <2>3, <2>5, <2>6 DEF UnlockInv
<1> QED
  BY <1>1, <1>2, <1>3, <1>4, <1>5, <1>6, <1>7, <1>8 DEF Next

LEMMA UnlockAlways == Spec => []UnlockInv
BY InitUnlock, UnlockStep, PTL DEF Spec

\* The loops stay within the section: every slot counted was read, and to its
\* end, before the first is tried (slots.py 232-252).
THEOREM TypeCorrect == Spec => []TypeOK
BY UnlockAlways, UnlockTypeOK, PTL

\* A slot after the one that opens, or for the other kind of secret, locks nobody
\* out, whatever its body holds (service.py 232-240, slots.py 144-165).
THEOREM BadSlotsHarmNobody == Spec => []DamageStaysLocal
BY UnlockAlways, UnlockStaysLocal, PTL

-----------------------------------------------------------------------------
(* Where any cell of the section belongs. *)

\* The cells after the section.
LEMMA CellsAfter ==
  ASSUME MadeOK
  PROVE  /\ SectionEnd \in Nat /\ Len(Written) = SectionEnd + 4
         /\ Written[SectionEnd + 1] = 6 /\ Written[SectionEnd + 2] = 90
         /\ Written[SectionEnd + 3] = 91 /\ Written[SectionEnd + 4] = 92
<1> DEFINE n == Len(made)  all == Before(n + 1)  tail == <<SizeField, 90, 91, 92>>
<1>1. n + 1 \in 1 .. n + 1 /\ Place(n + 1) \in Nat
  BY Places
<1>2. /\ all \in Seq(Nat) /\ tail \in Seq(Nat) /\ Len(tail) = 4
      /\ tail[1] = 6 /\ tail[2] = 90 /\ tail[3] = 91 /\ tail[4] = 92
  BY <1>1, BeforeNext DEF SizeField
<1>3. Written = all \o tail /\ Len(all) = SectionEnd /\ SectionEnd \in Nat
  BY <1>1 DEF Written, SectionEnd, Place
<1> HIDE DEF all, tail
<1>4. /\ Len(all \o tail) = Len(all) + Len(tail)
      /\ \A k \in 1 .. Len(all) + Len(tail) :
           (all \o tail)[k] = IF k <= Len(all) THEN all[k] ELSE tail[k - Len(all)]
  <2>1. all \in Seq(Nat)
    BY <1>2
  <2>2. tail \in Seq(Nat)
    BY <1>2
  <2> QED BY ONLY <2>1, <2>2, ConcatProperties
<1> DEFINE e == SectionEnd
<1>5. \A m \in 1 .. 4 : Written[e + m] = tail[m]
  <2> SUFFICES ASSUME NEW m \in 1 .. 4 PROVE Written[e + m] = tail[m]
    OBVIOUS
  <2>1. e + m \in 1 .. e + 4 /\ ~(e + m <= e) /\ (e + m) - e = m
    <3>1. e \in Nat
      BY <1>3
    <3> HIDE DEF e
    <3> QED BY ONLY <3>1
  <2>2. e = Len(all) /\ e + m \in 1 .. Len(all) + Len(tail) /\ Written = all \o tail
    BY <2>1, <1>2, <1>3
  <2> HIDE DEF e
  <2>3. (all \o tail)[e + m] = IF e + m <= Len(all) THEN all[e + m] ELSE tail[(e + m) - Len(all)]
    BY <2>2, <1>4
  <2> QED BY ONLY <2>1, <2>2, <2>3
<1>6. 1 \in 1 .. 4 /\ 2 \in 1 .. 4 /\ 3 \in 1 .. 4 /\ 4 \in 1 .. 4
  OBVIOUS
<1> QED BY <1>2, <1>3, <1>4, <1>5, <1>6

\* Every place of the file from the section on is in a slot or after the last.
LEMMA InSomeSlot ==
  ASSUME MadeOK, NEW q \in Nat, q >= 3, q < SectionEnd
  PROVE  \E j \in 1 .. Len(made) : Place(j) <= q /\ q < Place(j) + 2 + Len(Body(j))
<1>1. /\ Len(made) \in Nat /\ Place(1) = 3
      /\ \A i \in 1 .. Len(made) : Len(Body(i)) \in Nat /\ Place(i + 1) = Place(i) + 2 + Len(Body(i))
      /\ \A i \in 1 .. Len(made) + 1 : Place(i) \in Nat
  BY Places
<1> DEFINE Later == {j \in 1 .. Len(made) + 1 : q < Place(j)}
<1>2. Len(made) + 1 \in Later
  BY <1>1 DEF SectionEnd
<1>3. PICK m \in Later : \A j \in Later : m <= j
  <2>1. Later \subseteq Nat /\ Later # {}
    BY <1>1, <1>2
  <2> HIDE DEF Later
  <2> QED BY <2>1, LeastNat, Zenon
<1>4. m \in 1 .. Len(made) + 1 /\ q < Place(m)
  OBVIOUS
<1>5. m # 1
  BY <1>1, <1>4
<1>6. m - 1 \in 1 .. Len(made) /\ m - 1 \in 1 .. Len(made) + 1 /\ (m - 1) + 1 = m /\ ~(m <= m - 1)
  BY <1>1, <1>4, <1>5
<1>7. ~(q < Place(m - 1)) /\ Place(m - 1) \in Nat
  BY <1>1, <1>3, <1>6
<1>8. Place(m) = Place(m - 1) + 2 + Len(Body(m - 1))
  BY <1>1, <1>6
<1> HIDE DEF Later
<1> QED BY <1>4, <1>6, <1>7, <1>8

\* The cells of a slot in the file, one by one.
LEMMA SlotCells ==
  ASSUME MadeOK, NEW j \in 1 .. Len(made), NEW p, p = Place(j)
  PROVE  /\ p \in Nat /\ Salt(j) \in Nat /\ Salt(j) >= 103 /\ Nonce(j) \in Nat /\ Nonce(j) >= 104
         /\ Sealed(j) \in Nat /\ Sealed(j) >= 105
         /\ made[j].secret \in Passwords \cup Identities /\ made[j].algo \in {1, 2}
         /\ made[j].secret \in Identities =>
              /\ Len(Body(j)) = 3
              /\ Written[p + 1] = 2 /\ Written[p + 2] = 3 /\ Written[p + 3] = Salt(j)
              /\ Written[p + 4] = Nonce(j) /\ Written[p + 5] = Sealed(j)
         /\ made[j].secret \in Passwords /\ made[j].algo = 1 =>
              /\ Len(Body(j)) = 9
              /\ Written[p + 1] = 1 /\ Written[p + 2] = 9 /\ Written[p + 3] = 1
              /\ Written[p + 4] = 32 /\ Written[p + 5] = 1 /\ Written[p + 6] = 1
              /\ Written[p + 7] = 1 /\ Written[p + 8] = 5 /\ Written[p + 9] = Salt(j)
              /\ Written[p + 10] = Nonce(j) /\ Written[p + 11] = Sealed(j)
         /\ made[j].secret \in Passwords /\ made[j].algo = 2 =>
              /\ Len(Body(j)) = 13
              /\ Written[p + 1] = 1 /\ Written[p + 2] = 13 /\ Written[p + 3] = 2
              /\ Written[p + 4] = 32 /\ Written[p + 5] = 1 /\ Written[p + 6] = 3
              /\ Written[p + 7] = 16 /\ Written[p + 8] = 8 /\ Written[p + 9] = 17
              /\ Written[p + 10] = 3 /\ Written[p + 11] = 18 /\ Written[p + 12] = 1
              /\ Written[p + 13] = Salt(j) /\ Written[p + 14] = Nonce(j)
              /\ Written[p + 15] = Sealed(j)
<1>1. made[j].secret \in Passwords \cup Identities /\ made[j].algo \in {1, 2} /\ j \in Nat /\ j >= 1
  <2>1. made[j] \in Wrapped
    BY ElementOfSeq DEF MadeOK
  <2>2. j \in Nat /\ j >= 1
    BY LenProperties DEF MadeOK
  <2> QED BY <2>1, <2>2 DEF Wrapped, Secrets, Algorithms
<1>2. /\ Salt(j) \in Nat /\ Salt(j) >= 103 /\ Nonce(j) \in Nat /\ Nonce(j) >= 104
      /\ Sealed(j) \in Nat /\ Sealed(j) >= 105
  BY <1>1 DEF Salt, Nonce, Sealed
<1> DEFINE body == Body(j)
<1>3. /\ p \in Nat /\ Written[p + 1] = Kind(made[j].secret) /\ Written[p + 2] = Len(body)
      /\ \A k \in 1 .. Len(body) : Written[p + 2 + k] = body[k]
  <2>1. p \in Nat
    <3>1. j \in 1 .. Len(made) + 1
      BY Places
    <3> QED BY <3>1, Places
  <2> QED BY <2>1, WrittenCells
<1>4. p + 2 + 1 = p + 3 /\ p + 2 + 2 = p + 4 /\ p + 2 + 3 = p + 5 /\ p + 2 + 4 = p + 6
      /\ p + 2 + 5 = p + 7 /\ p + 2 + 6 = p + 8 /\ p + 2 + 7 = p + 9 /\ p + 2 + 8 = p + 10
      /\ p + 2 + 9 = p + 11 /\ p + 2 + 10 = p + 12 /\ p + 2 + 11 = p + 13 /\ p + 2 + 12 = p + 14
      /\ p + 2 + 13 = p + 15
  <2>1. p \in Nat
    BY <1>3
  <2> QED BY ONLY <2>1
<1>5. ASSUME made[j].secret \in Identities
      PROVE  /\ Len(body) = 3
             /\ Written[p + 1] = 2 /\ Written[p + 2] = 3 /\ Written[p + 3] = Salt(j)
             /\ Written[p + 4] = Nonce(j) /\ Written[p + 5] = Sealed(j)
  <2>1. Kind(made[j].secret) = 2
    BY <1>5, KeySlotsAssumption DEF Kind, SLOT_X25519
  <2>2. body = <<Salt(j), Nonce(j), Sealed(j)>>
    BY <1>5, Bodies
  <2>3. Len(body) = 3 /\ body[1] = Salt(j) /\ body[2] = Nonce(j) /\ body[3] = Sealed(j)
    BY <2>2
  <2> HIDE DEF body
  <2>4. \A k \in 1 .. Len(body) : Written[p + 2 + k] = body[k]
    BY <1>3
  <2>5. Written[p + 1] = Kind(made[j].secret) /\ Written[p + 2] = Len(body)
    BY <1>3
  <2>6. /\ Written[p + 3] = body[1]
        /\ Written[p + 4] = body[2]
        /\ Written[p + 5] = body[3]
    <3>1. \A k \in 1 .. 3 : Written[p + 2 + k] = body[k]
      BY <2>3, <2>4
    <3>2. \A k \in {1, 2, 3} : k \in 1 .. 3
      OBVIOUS
    <3> QED BY ONLY <3>1, <3>2, <1>4
  <2> QED BY ONLY <2>1, <2>3, <2>5, <2>6
<1>6. ASSUME made[j].secret \in Passwords, made[j].algo = 1
      PROVE  /\ Len(body) = 9
             /\ Written[p + 1] = 1 /\ Written[p + 2] = 9 /\ Written[p + 3] = 1
             /\ Written[p + 4] = 32 /\ Written[p + 5] = 1 /\ Written[p + 6] = 1
             /\ Written[p + 7] = 1 /\ Written[p + 8] = 5 /\ Written[p + 9] = Salt(j)
             /\ Written[p + 10] = Nonce(j) /\ Written[p + 11] = Sealed(j)
  <2>1. Kind(made[j].secret) = 1
    BY <1>6 DEF Kind, SLOT_PASSWORD
  <2>2. body = <<1, 32, 1, 1, 1, 5, Salt(j), Nonce(j), Sealed(j)>>
    BY <1>6, Bodies
  <2>3. Len(body) = 9 /\ body[1] = 1 /\ body[2] = 32 /\ body[3] = 1 /\ body[4] = 1 /\ body[5] = 1
        /\ body[6] = 5 /\ body[7] = Salt(j) /\ body[8] = Nonce(j) /\ body[9] = Sealed(j)
    BY <2>2
  <2> HIDE DEF body
  <2>4. \A k \in 1 .. Len(body) : Written[p + 2 + k] = body[k]
    BY <1>3
  <2>5. Written[p + 1] = Kind(made[j].secret) /\ Written[p + 2] = Len(body)
    BY <1>3
  <2>6. /\ Written[p + 3] = body[1]
        /\ Written[p + 4] = body[2]
        /\ Written[p + 5] = body[3]
        /\ Written[p + 6] = body[4]
        /\ Written[p + 7] = body[5]
        /\ Written[p + 8] = body[6]
        /\ Written[p + 9] = body[7]
        /\ Written[p + 10] = body[8]
        /\ Written[p + 11] = body[9]
    <3>1. \A k \in 1 .. 9 : Written[p + 2 + k] = body[k]
      BY <2>3, <2>4
    <3>2. \A k \in {1, 2, 3, 4, 5, 6, 7, 8, 9} : k \in 1 .. 9
      OBVIOUS
    <3> QED BY ONLY <3>1, <3>2, <1>4
  <2> QED BY ONLY <2>1, <2>3, <2>5, <2>6
<1>7. ASSUME made[j].secret \in Passwords, made[j].algo = 2
      PROVE  /\ Len(body) = 13
             /\ Written[p + 1] = 1 /\ Written[p + 2] = 13 /\ Written[p + 3] = 2
             /\ Written[p + 4] = 32 /\ Written[p + 5] = 1 /\ Written[p + 6] = 3
             /\ Written[p + 7] = 16 /\ Written[p + 8] = 8 /\ Written[p + 9] = 17
             /\ Written[p + 10] = 3 /\ Written[p + 11] = 18 /\ Written[p + 12] = 1
             /\ Written[p + 13] = Salt(j) /\ Written[p + 14] = Nonce(j)
             /\ Written[p + 15] = Sealed(j)
  <2>1. Kind(made[j].secret) = 1
    BY <1>7 DEF Kind, SLOT_PASSWORD
  <2>2. body = <<2, 32, 1, 3, 16, 8, 17, 3, 18, 1, Salt(j), Nonce(j), Sealed(j)>>
    BY <1>7, Bodies
  <2>3. Len(body) = 13 /\ body[1] = 2 /\ body[2] = 32 /\ body[3] = 1 /\ body[4] = 3 /\ body[5] = 16
        /\ body[6] = 8 /\ body[7] = 17 /\ body[8] = 3 /\ body[9] = 18 /\ body[10] = 1
        /\ body[11] = Salt(j) /\ body[12] = Nonce(j) /\ body[13] = Sealed(j)
    BY <2>2
  <2> HIDE DEF body
  <2>4. \A k \in 1 .. Len(body) : Written[p + 2 + k] = body[k]
    BY <1>3
  <2>5. Written[p + 1] = Kind(made[j].secret) /\ Written[p + 2] = Len(body)
    BY <1>3
  <2>6. /\ Written[p + 3] = body[1]
        /\ Written[p + 4] = body[2]
        /\ Written[p + 5] = body[3]
        /\ Written[p + 6] = body[4]
        /\ Written[p + 7] = body[5]
        /\ Written[p + 8] = body[6]
        /\ Written[p + 9] = body[7]
        /\ Written[p + 10] = body[8]
        /\ Written[p + 11] = body[9]
        /\ Written[p + 12] = body[10]
        /\ Written[p + 13] = body[11]
        /\ Written[p + 14] = body[12]
        /\ Written[p + 15] = body[13]
    <3>1. \A k \in 1 .. 13 : Written[p + 2 + k] = body[k]
      BY <2>3, <2>4
    <3>2. \A k \in {1, 2, 3, 4, 5, 6, 7, 8, 9, 10, 11, 12, 13} : k \in 1 .. 13
      OBVIOUS
    <3> QED BY ONLY <3>1, <3>2, <1>4
  <2> QED BY ONLY <2>1, <2>3, <2>5, <2>6
<1> QED BY <1>1, <1>2, <1>3, <1>5, <1>6, <1>7

-----------------------------------------------------------------------------
(* What makes trying a slot end in a crash. *)

LEMMA GreatestOf ==
  ASSUME NEW n \in Nat, NEW S \in SUBSET (1 .. n), S # {}
  PROVE  Max(S) \in S
<1> DEFINE Below == {n - x : x \in S}
<1>1. Below \subseteq Nat /\ Below # {}
  <2>1. \A x \in S : n - x \in Nat
    OBVIOUS
  <2> QED BY <2>1
<1>2. PICK b \in Below : \A c \in Below : b <= c
  <2> HIDE DEF Below
  <2> QED BY <1>1, LeastNat, Zenon
<1>3. PICK x \in S : b = n - x
  BY <1>2
<1>4. \A y \in S : x >= y
  <2> SUFFICES ASSUME NEW y \in S PROVE x >= y
    OBVIOUS
  <2>1. b <= n - y
    BY <1>2
  <2> QED BY <2>1, <1>3
<1> HIDE DEF Below
<1>5. \E z \in S : \A y \in S : z >= y
  BY <1>4
<1> QED BY <1>5, Zenon DEF Max

LEMMA WhenPasswordCrashes ==
  ASSUME NEW b, NEW p, PasswordVerdict(b, p) = "crash"
  PROVE  Parses(b) /\ Len(b) >= Needed(b) /\ Unusable(b)
<1> HIDE DEF Parses, Unusable, Needed, Authentic
<1> QED BY DEF PasswordVerdict

LEMMA WhenRecipientCrashes ==
  ASSUME NEW b, NEW k, RecipientVerdict(b, k) = "crash"
  PROVE  Len(b) >= 2 /\ b[1] = 0
<1> HIDE DEF Authentic
<1> QED BY DEF RecipientVerdict

LEMMA UpToAny ==
  ASSUME NEW n \in Nat
  PROVE  Cardinality(1 .. n) = n
<1>1. CASE n = 0
  <2>1. 1 .. n = {}
    BY <1>1
  <2> QED BY <1>1, <2>1, FS_EmptySet
<1>2. CASE n # 0
  BY <1>2, UpTo
<1> QED BY <1>1, <1>2

\* What it takes to parse: the tags are those of the algorithm, and the entries
\* end within the block.
LEMMA WhenParsed ==
  ASSUME NEW b \in Seq(Nat), Parses(b)
  PROVE  /\ Len(b) \in Nat /\ Len(b) >= 4 /\ b[1] \in {1, 2}
         /\ \A i \in 1 .. Len(b) : b[i] \in Nat
         /\ Offset(b) = 4 + 2 * b[4] /\ 4 + 2 * b[4] <= Len(b)
         /\ \A m \in 1 .. b[4] : b[3 + 2 * m] \in (IF b[1] = 1 THEN {1} ELSE {16, 17, 18})
<1>1. Len(b) \in Nat /\ Len(b) >= 4 /\ b[1] \in {1, 2} /\ Offset(b) <= Len(b)
      /\ Tags(b) = ToSet(Layout(b[1]))
  BY LenProperties DEF Parses, Algorithms
<1>2. \A i \in 1 .. Len(b) : b[i] \in Nat
  BY ElementOfSeq
<1>3. b[4] \in Nat
  BY <1>1, <1>2
<1>4. Offset(b) = 4 + 2 * b[4]
  BY <1>3, UpToAny DEF Offset, Entries
<1>5. \A m \in 1 .. b[4] : b[3 + 2 * m] \in Tags(b)
  BY DEF Tags, Entries
<1>6. ToSet(Layout(1)) = {1}
  BY DEF ToSet, Layout
<1>7. ToSet(Layout(2)) = {16, 17, 18}
  <2> DEFINE tags == <<16, 17, 18>>
  <2>1. DOMAIN tags = 1 .. 3 /\ tags[1] = 16 /\ tags[2] = 17 /\ tags[3] = 18
    OBVIOUS
  <2>2. Layout(2) = tags
    BY DEF Layout
  <2>3. \A k \in 1 .. 3 : k = 1 \/ k = 2 \/ k = 3
    OBVIOUS
  <2> HIDE DEF tags
  <2> QED BY <2>1, <2>2, <2>3 DEF ToSet
<1>8. Tags(b) = IF b[1] = 1 THEN {1} ELSE {16, 17, 18}
  BY <1>1, <1>6, <1>7
<1> QED BY <1>1, <1>2, <1>4, <1>5, <1>8

\* With a key of AES size and no value beyond the limits the library takes a block.
LEMMA PlainBlock ==
  ASSUME NEW b \in Seq(Nat), Parses(b), Len(b) >= Needed(b), b[2] = 32,
         \A m \in 1 .. b[4] : b[4 + 2 * m] # Huge
  PROVE  ~ Unusable(b)
<1>1. /\ Len(b) \in Nat /\ Len(b) >= 4 /\ \A i \in 1 .. Len(b) : b[i] \in Nat
      /\ Offset(b) = 4 + 2 * b[4]
  BY WhenParsed
<1>2. b[3] \in Nat /\ b[4] \in Nat
  BY <1>1
<1>3. ~(Len(b) <= Offset(b) + b[3])
  <2> DEFINE len == Len(b)  off == Offset(b)  salt == b[3]
  <2>1. len \in Nat /\ off \in Nat /\ salt \in Nat /\ len >= off + salt + 1
    <3>1. len >= off + salt + 1
      BY DEF Needed
    <3>2. off = 4 + 2 * b[4]
      BY <1>1
    <3>3. off \in Nat
      <4> DEFINE entries == b[4]
      <4>1. entries \in Nat /\ off = 4 + 2 * entries
        BY <1>2, <3>2
      <4> HIDE DEF off, entries
      <4> QED BY ONLY <4>1
    <3> QED BY <1>1, <1>2, <3>1, <3>3
  <2> HIDE DEF len, off, salt
  <2>2. ~(len <= off + salt)
    BY ONLY <2>1
  <2> QED BY <2>2 DEF len, off, salt
<1>4. ASSUME NEW t \in Tags(b) PROVE Extra(b)[t] # Huge
  <2> DEFINE at == {k \in Entries(b) : b[3 + 2 * k] = t}
  <2>1. at \in SUBSET (1 .. b[4]) /\ at # {}
    BY DEF Tags, Entries
  <2> HIDE DEF at
  <2>2. Max(at) \in at
    BY <1>2, <2>1, GreatestOf
  <2>3. Max(at) \in 1 .. b[4]
    BY <2>1, <2>2
  <2>4. Extra(b)[t] = b[4 + 2 * Max(at)]
    BY DEF Extra, at
  <2> QED BY <2>3, <2>4
<1> QED BY <1>3, <1>4 DEF Unusable

\* The body b is that of slot j, but for cell c and for its length.
OneChanged(b, j, c) == \A i \in 1 .. Len(Body(j)) : i <= Len(b) /\ i # c => b[i] = Body(j)[i]

\* The body of a password slot, one cell of which may be changed and which may have
\* lost cells at its end or gained some.
LEMMA PasswordBody ==
  ASSUME MadeOK, NEW j \in 1 .. Len(made), made[j].secret \in Passwords, NEW p,
         NEW b \in Seq(Nat), NEW c, OneChanged(b, j, c),
         PasswordVerdict(b, p) = "crash"
  PROVE  c = 2 \/ \E m \in DOMAIN Layout(made[j].algo) : c = 4 + 2 * m
<1>1. Parses(b) /\ Len(b) >= Needed(b) /\ Unusable(b)
  BY WhenPasswordCrashes
<1>2. /\ Len(b) \in Nat /\ Len(b) >= 4 /\ b[1] \in {1, 2} /\ b[4] \in Nat
      /\ 4 + 2 * b[4] <= Len(b)
      /\ \A m \in 1 .. b[4] : b[3 + 2 * m] \in (IF b[1] = 1 THEN {1} ELSE {16, 17, 18})
  BY <1>1, WhenParsed
<1>3. b[2] # 32 \/ \E m \in 1 .. b[4] : b[4 + 2 * m] = 256
  BY <1>1, PlainBlock DEF Huge
<1>4. Salt(j) \in Nat /\ Salt(j) >= 103 /\ made[j].algo \in {1, 2}
  BY SlotCells
<1> DEFINE body == Body(j)  len == Len(b)  e == b[4]
<1>4a. len \in Nat /\ e \in Nat /\ 4 + 2 * e <= len /\ 4 <= len
  BY <1>2
<1>4b. len = Len(b) /\ e = b[4]
  OBVIOUS
<1> HIDE DEF len, e
<1>5. ASSUME made[j].algo = 1 PROVE c = 2 \/ c = 6
  <2>1. body = <<1, 32, 1, 1, 1, 5, Salt(j), Nonce(j), Sealed(j)>>
    BY <1>5, Bodies
  <2>2. Len(body) = 9 /\ body[1] = 1 /\ body[2] = 32 /\ body[4] = 1 /\ body[6] = 5 /\ body[7] = Salt(j)
    BY <2>1
  <2> HIDE DEF body
  <2>3. \A i \in 1 .. 9 : i <= Len(b) /\ i # c => b[i] = body[i]
    BY <2>2 DEF body, OneChanged
  <2> SUFFICES ASSUME c # 2, c # 6 PROVE FALSE
    OBVIOUS
  <2>4. b[2] = 32
    BY <1>2, <2>2, <2>3
  <2>5. PICK m \in 1 .. b[4] : b[4 + 2 * m] = 256
    BY <1>3, <2>4
  <2>5a. m \in Int /\ 1 <= m /\ m <= e
    <3>1. m \in 1 .. e
      BY <2>5, <1>4b
    <3> QED BY ONLY <3>1, <1>4a
  <2>5b. 6 <= len
    BY ONLY <2>5a, <1>4a
  <2>6. b[6] = 5
    BY <2>2, <2>3, <2>5b, <1>4b
  <2>7. m # 1
    BY <2>5, <2>6
  <2>8. e >= 2 /\ 8 <= len /\ 7 <= len /\ 1 <= len /\ e # 1
    BY ONLY <2>5a, <2>7, <1>4a
  <2>9. c = 4
    <3>1. 4 <= Len(b) /\ b[4] # 1 /\ 4 \in 1 .. 9
      BY <1>4a, <1>4b, <2>8
    <3> QED BY ONLY <2>2, <2>3, <3>1
  <2>10. b[1] = 1 /\ b[7] = Salt(j)
    <3>1. 1 <= Len(b) /\ 7 <= Len(b)
      BY <1>4b, <2>8
    <3>2. 1 # c /\ 7 # c /\ 1 \in 1 .. 9 /\ 7 \in 1 .. 9
      BY <2>9
    <3> QED BY ONLY <2>2, <2>3, <3>1, <3>2
  <2>11. 2 \in 1 .. b[4] /\ b[3 + 2 * 2] = b[7]
    <3>1. 2 \in 1 .. e
      BY ONLY <2>8, <1>4a
    <3> QED BY <3>1, <1>4b
  <2>12. b[7] \in {1}
    BY <1>2, <2>10, <2>11
  <2> QED BY <1>4, <2>10, <2>12
<1>6. ASSUME made[j].algo = 2 PROVE c = 2 \/ c \in {6, 8, 10}
  <2>1. body = <<2, 32, 1, 3, 16, 8, 17, 3, 18, 1, Salt(j), Nonce(j), Sealed(j)>>
    BY <1>6, Bodies
  <2>2. Len(body) = 13 /\ body[1] = 2 /\ body[2] = 32 /\ body[4] = 3 /\ body[6] = 8 /\ body[8] = 3
        /\ body[10] = 1 /\ body[11] = Salt(j)
    BY <2>1
  <2> HIDE DEF body
  <2>3. \A i \in 1 .. 13 : i <= Len(b) /\ i # c => b[i] = body[i]
    BY <2>2 DEF body, OneChanged
  <2> SUFFICES ASSUME c # 2, c \notin {6, 8, 10} PROVE FALSE
    OBVIOUS
  <2>4a. c # 6 /\ c # 8 /\ c # 10
    OBVIOUS
  <2>4. b[2] = 32
    BY <1>2, <2>2, <2>3
  <2>5. PICK m \in 1 .. b[4] : b[4 + 2 * m] = 256
    BY <1>3, <2>4
  <2>5a. m \in Int /\ 1 <= m /\ m <= e
    <3>1. m \in 1 .. e
      BY <2>5, <1>4b
    <3> QED BY ONLY <3>1, <1>4a
  <2>6. m # 1 /\ m # 2 /\ m # 3
    <3>1. m \in Nat /\ 4 + 2 * m <= len /\ len = Len(b)
      BY ONLY <2>5a, <1>4a, <1>4b
    <3>2. CASE m = 1
      <4>1. 4 + 2 * m = 6 /\ 6 <= Len(b) /\ 6 \in 1 .. 13
        BY ONLY <3>1, <3>2
      <4>2. b[6] = 8
        BY ONLY <4>1, <2>2, <2>3, <2>4a
      <4> QED BY <4>1, <4>2, <2>5
    <3>3. CASE m = 2
      <4>1. 4 + 2 * m = 8 /\ 8 <= Len(b) /\ 8 \in 1 .. 13
        BY ONLY <3>1, <3>3
      <4>2. b[8] = 3
        BY ONLY <4>1, <2>2, <2>3, <2>4a
      <4> QED BY <4>1, <4>2, <2>5
    <3>4. CASE m = 3
      <4>1. 4 + 2 * m = 10 /\ 10 <= Len(b) /\ 10 \in 1 .. 13
        BY ONLY <3>1, <3>4
      <4>2. b[10] = 1
        BY ONLY <4>1, <2>2, <2>3, <2>4a
      <4> QED BY <4>1, <4>2, <2>5
    <3> QED BY <3>2, <3>3, <3>4
  <2>8. e >= 4 /\ 12 <= len /\ 11 <= len /\ 1 <= len /\ e # 3
    BY ONLY <2>5a, <2>6, <1>4a
  <2>9. c = 4
    <3>1. 4 <= Len(b) /\ b[4] # 3 /\ 4 \in 1 .. 13
      BY <1>4a, <1>4b, <2>8
    <3> QED BY ONLY <2>2, <2>3, <3>1
  <2>10. b[1] = 2 /\ b[11] = Salt(j)
    <3>1. 1 <= Len(b) /\ 11 <= Len(b)
      BY <1>4b, <2>8
    <3>2. 1 # c /\ 11 # c
      BY <2>9
    <3>3. 1 \in 1 .. 13 /\ 11 \in 1 .. 13
      OBVIOUS
    <3>4. b[1] = body[1] /\ b[11] = body[11]
      BY ONLY <2>3, <3>1, <3>2, <3>3
    <3> QED BY <2>2, <3>4
  <2>11. 4 \in 1 .. b[4] /\ b[3 + 2 * 4] = b[11]
    <3>1. 4 \in 1 .. e
      BY ONLY <2>8, <1>4a
    <3> QED BY <3>1, <1>4b
  <2>12. b[11] \in {16, 17, 18}
    <3>1. b[3 + 2 * 4] \in (IF b[1] = 1 THEN {1} ELSE {16, 17, 18})
      BY <1>2, <2>11, Zenon
    <3> QED BY <2>10, <2>11, <3>1
  <2> QED BY <1>4, <2>10, <2>12
<1>7. ASSUME made[j].algo = 1 PROVE DOMAIN Layout(made[j].algo) = 1 .. 1
  BY <1>7 DEF Layout
<1>8. ASSUME made[j].algo = 2 PROVE DOMAIN Layout(made[j].algo) = 1 .. 3
  <2> DEFINE tags == <<16, 17, 18>>
  <2>1. Layout(2) = tags /\ DOMAIN tags = 1 .. 3
    BY DEF Layout
  <2> QED BY <1>8, <2>1
<1>9. 6 = 4 + 2 * 1 /\ 8 = 4 + 2 * 2 /\ 10 = 4 + 2 * 3 /\ 1 \in 1 .. 1 /\ 1 \in 1 .. 3 /\ 2 \in 1 .. 3 /\ 3 \in 1 .. 3
  OBVIOUS
<1>10. CASE made[j].algo = 1
  BY <1>5, <1>7, <1>9, <1>10
<1>11. CASE made[j].algo = 2
  BY <1>6, <1>8, <1>9, <1>11
<1> QED BY <1>4, <1>10, <1>11

LEMMA WhenSlotCrashes ==
  ASSUME NEW slot, NEW cred, Verdict(slot, cred) = "crash"
  PROVE  \/ slot.type = 1 /\ \E p : PasswordVerdict(slot.body, p) = "crash"
         \/ slot.type = 2 /\ \E k : RecipientVerdict(slot.body, k) = "crash"
<1> HIDE DEF PasswordVerdict, RecipientVerdict
<1> QED BY DEF Verdict, SLOT_PASSWORD, SLOT_X25519

\* The fragile cells, slot by slot.
LEMMA FragileCells ==
  ASSUME MadeOK
  PROVE  /\ \A i \in 1 .. Len(made) :
              /\ made[i].secret \in Identities => Place(i) + 3 \in Fragile
              /\ made[i].secret \notin Identities =>
                   /\ Place(i) + 4 \in Fragile
                   /\ \A k \in DOMAIN Layout(made[i].algo) : Place(i) + 6 + 2 * k \in Fragile
         /\ \A x \in Fragile : x \in Nat /\ x >= 3
<1> DEFINE cells(i) ==
      IF made[i].secret \in Identities THEN {Place(i) + 3}
      ELSE {Place(i) + 3 + 1} \cup {Place(i) + 3 + 3 + 2 * k : k \in DOMAIN Layout(made[i].algo)}
<1>1. Fragile = UNION {cells(i) : i \in DOMAIN made}
  BY DEF Fragile, Place
<1>2. DOMAIN made = 1 .. Len(made)
  BY LenProperties DEF MadeOK
<1>3. ASSUME NEW i \in 1 .. Len(made)
      PROVE  Place(i) \in Nat /\ \A k \in DOMAIN Layout(made[i].algo) : k \in Nat
  <2>1. Place(i) \in Nat /\ made[i].algo \in {1, 2}
    BY SlotCells
  <2>2. made[i].algo = 1 => DOMAIN Layout(made[i].algo) = 1 .. 1
    BY DEF Layout
  <2>3. made[i].algo = 2 => DOMAIN Layout(made[i].algo) = 1 .. 3
    <3>1. Layout(2) = <<16, 17, 18>> /\ DOMAIN <<16, 17, 18>> = 1 .. 3
      BY DEF Layout
    <3> QED BY <3>1
  <2> QED BY <2>1, <2>2, <2>3
<1>4. ASSUME NEW i \in 1 .. Len(made) PROVE cells(i) \subseteq Fragile
  <2>1. i \in DOMAIN made
    BY <1>2
  <2> HIDE DEF cells
  <2> QED BY <2>1, <1>1, Zenon
<1>5. ASSUME NEW i \in 1 .. Len(made), made[i].secret \in Identities PROVE Place(i) + 3 \in Fragile
  BY <1>4, <1>5
<1>6. ASSUME NEW i \in 1 .. Len(made), made[i].secret \notin Identities
      PROVE  /\ Place(i) + 4 \in Fragile
             /\ \A k \in DOMAIN Layout(made[i].algo) : Place(i) + 6 + 2 * k \in Fragile
  <2>1. Place(i) + 3 + 1 \in cells(i)
        /\ \A k \in DOMAIN Layout(made[i].algo) : Place(i) + 3 + 3 + 2 * k \in cells(i)
    BY <1>6
  <2>2. Place(i) + 3 + 1 = Place(i) + 4
        /\ \A k \in DOMAIN Layout(made[i].algo) : Place(i) + 3 + 3 + 2 * k = Place(i) + 6 + 2 * k
    BY <1>3
  <2>3. cells(i) \subseteq Fragile
    BY <1>4
  <2> HIDE DEF cells
  <2> QED BY <2>1, <2>2, <2>3
<1>7. ASSUME NEW x \in Fragile PROVE x \in Nat /\ x >= 3
  <2>1. PICK i \in 1 .. Len(made) : x \in cells(i)
    <3> HIDE DEF cells
    <3> QED BY <1>1, <1>2, Zenon
  <2>2. \/ x = Place(i) + 3 \/ x = Place(i) + 3 + 1
        \/ \E k \in DOMAIN Layout(made[i].algo) : x = Place(i) + 3 + 3 + 2 * k
    BY <2>1
  <2>3. Place(i) \in Nat
    BY <1>3
  <2>4. ASSUME NEW k \in DOMAIN Layout(made[i].algo), x = Place(i) + 3 + 3 + 2 * k PROVE x \in Nat /\ x >= 3
    <3>1. k \in Nat
      BY <1>3
    <3> QED BY ONLY <3>1, <2>3, <2>4
  <2>5. x = Place(i) + 3 \/ x = Place(i) + 3 + 1 => x \in Nat /\ x >= 3
    BY ONLY <2>3
  <2> HIDE DEF cells
  <2> QED BY <2>2, <2>4, <2>5
<1> QED BY <1>5, <1>6, <1>7

\* A slot that is read where it was written, with one cell changed: it crashes only
\* if that cell is one of the fragile ones.
LEMMA SlotInPlace ==
  ASSUME MadeOK, NEW j \in 1 .. Len(made), NEW cred, NEW slot, slot.body \in Seq(Nat),
         NEW d \in Int,
         slot.type = Kind(made[j].secret) \/ d = Place(j) + 1,
         \A i \in 1 .. Len(Body(j)) :
           i <= Len(slot.body) /\ Place(j) + 2 + i # d => slot.body[i] = Body(j)[i],
         Verdict(slot, cred) = "crash"
  PROVE  d \in Fragile
<1> DEFINE b == slot.body  c == d - Place(j) - 2  body == Body(j)
<1>1. /\ Place(j) \in Nat /\ Salt(j) \in Nat /\ Salt(j) >= 103
      /\ made[j].secret \in Passwords \cup Identities /\ made[j].algo \in {1, 2}
      /\ DOMAIN made = 1 .. Len(made)
  BY SlotCells, LenProperties DEF MadeOK
<1>2. c \in Int /\ \A i \in Int : (Place(j) + 2 + i = d <=> i = c)
  BY <1>1
<1>3. Len(body) \in Nat /\ body \in Seq(Nat)
  BY BodyType, LenProperties
<1>4. \A i \in 1 .. Len(body) : i <= Len(b) /\ i # c => b[i] = body[i]
  <2> SUFFICES ASSUME NEW i \in 1 .. Len(body), i <= Len(b), i # c PROVE b[i] = body[i]
    OBVIOUS
  <2>1. Place(j) + 2 + i # d
    BY <1>2, <1>3
  <2> QED BY <2>1
<1>6. CASE made[j].secret \in Passwords
  <2>1. made[j].secret \notin Identities /\ Kind(made[j].secret) = 1
    BY <1>6, KeySlotsAssumption DEF Kind, SLOT_PASSWORD
  <2>2. CASE slot.type = 1 /\ \E p : PasswordVerdict(slot.body, p) = "crash"
    <3>1. c = 2 \/ \E m \in DOMAIN Layout(made[j].algo) : c = 4 + 2 * m
      <4>1. PICK p : PasswordVerdict(b, p) = "crash"
        BY <2>2
      <4>2. b \in Seq(Nat) /\ OneChanged(b, j, c)
        BY <1>4 DEF OneChanged
      <4> HIDE DEF b, c, body
      <4> QED BY <4>1, <4>2, <1>6, PasswordBody
    <3>2. CASE c = 2
      <4>1. d = Place(j) + 4
        BY <3>2, <1>1
      <4> QED BY <4>1, <2>1, FragileCells
    <3>3. ASSUME NEW m \in DOMAIN Layout(made[j].algo), c = 4 + 2 * m PROVE d \in Fragile
      <4>1. m \in Int
        <5>1. made[j].algo = 1 => DOMAIN Layout(made[j].algo) = 1 .. 1
          BY DEF Layout
        <5>2. made[j].algo = 2 => DOMAIN Layout(made[j].algo) = 1 .. 3
          <6>1. Layout(2) = <<16, 17, 18>> /\ DOMAIN <<16, 17, 18>> = 1 .. 3
            BY DEF Layout
          <6> QED BY <6>1
        <5> QED BY <5>1, <5>2, <1>1
      <4>2. d = Place(j) + 6 + 2 * m
        <5>1. Place(j) \in Nat /\ d - Place(j) - 2 = 4 + 2 * m
          BY <3>3, <1>1
        <5> QED BY ONLY <5>1, <4>1, d \in Int
      <4> QED BY <4>2, <2>1, FragileCells
    <3> QED BY <3>1, <3>2, <3>3
  <2>3. CASE slot.type = 2 /\ \E k : RecipientVerdict(slot.body, k) = "crash"
    <3>1. d = Place(j) + 1 /\ Len(b) >= 2 /\ b[1] = 0
      BY <2>1, <2>3, WhenRecipientCrashes
    <3>2. c # 1
      BY <1>1, <3>1
    <3>3. Len(body) >= 1 /\ body[1] # 0
      <4>1. body[1] = made[j].algo /\ Len(body) >= 9
        <5>1. CASE made[j].algo = 1
          <6>1. body = <<1, 32, 1, 1, 1, 5, Salt(j), Nonce(j), Sealed(j)>>
            BY <1>6, <5>1, Bodies
          <6> QED BY <5>1, <6>1
        <5>2. CASE made[j].algo = 2
          <6>1. body = <<2, 32, 1, 3, 16, 8, 17, 3, 18, 1, Salt(j), Nonce(j), Sealed(j)>>
            BY <1>6, <5>2, Bodies
          <6> QED BY <5>2, <6>1
        <5> QED BY <1>1, <5>1, <5>2
      <4> HIDE DEF body
      <4> QED BY <4>1, <1>1, <1>3
    <3>4. Len(b) \in Nat
      BY LenProperties
    <3> HIDE DEF body, c, b
    <3>5. b[1] = body[1]
      <4>1. 1 \in 1 .. Len(body) /\ 1 <= Len(b)
        BY ONLY <3>1, <3>3, <3>4, <1>3
      <4> QED BY <4>1, <1>4, <3>2
    <3> QED BY <3>1, <3>3, <3>5
  <2> QED BY <2>2, <2>3, WhenSlotCrashes
<1>7. CASE made[j].secret \in Identities
  <2>1. made[j].secret \notin Passwords /\ Kind(made[j].secret) = 2
    BY <1>7, KeySlotsAssumption DEF Kind, SLOT_X25519
  <2>2. body = <<Salt(j), Nonce(j), Sealed(j)>>
    BY <1>7, Bodies
  <2>3. Len(body) = 3 /\ body[1] = Salt(j)
    BY <2>2
  <2>4. Len(b) \in Nat
    BY LenProperties
  <2>5. ASSUME c # 1, 1 <= Len(b) PROVE b[1] = Salt(j)
    <3> HIDE DEF body, c, b
    <3>1. 1 \in 1 .. Len(body)
      BY ONLY <2>3
    <3> QED BY <3>1, <1>4, <2>3, <2>5
  <2>6. CASE slot.type = 2 /\ \E k : RecipientVerdict(slot.body, k) = "crash"
    <3>1. Len(b) >= 2 /\ b[1] = 0
      BY <2>6, WhenRecipientCrashes
    <3>2. c = 1
      <4>1. 1 <= Len(b)
        BY <2>4, <3>1
      <4>2. b[1] # Salt(j)
        BY <1>1, <3>1
      <4> HIDE DEF b, c
      <4> QED BY <4>1, <4>2, <2>5
    <3>3. d = Place(j) + 3
      BY <3>2, <1>1
    <3> QED BY <3>3, <1>7, FragileCells
  <2>7. CASE slot.type = 1 /\ \E p : PasswordVerdict(slot.body, p) = "crash"
    <3>1. d = Place(j) + 1 /\ Parses(b)
      BY <2>1, <2>7, WhenPasswordCrashes
    <3>2. c # 1
      BY <1>1, <3>1
    <3>3. Len(b) >= 4 /\ b[1] \in {1, 2}
      BY <3>1, WhenParsed
    <3>4. 1 <= Len(b)
      BY <2>4, <3>3
    <3>5. b[1] = Salt(j)
      BY <2>5, <3>2, <3>4
    <3> QED BY <1>1, <3>3, <3>5
  <2> QED BY <2>6, <2>7, WhenSlotCrashes
<1> QED BY <1>1, <1>6, <1>7

\* A slot that is read anywhere else in the section.
LEMMA StraySlot ==
  ASSUME MadeOK, NEW cred, NEW slot, slot.body \in Seq(Nat), NEW q \in Nat, q >= 3,
         slot.type = Written[q + 1], Len(slot.body) = Written[q + 2],
         q + 2 + Len(slot.body) <= Len(Written),
         \A i \in 1 .. Len(slot.body) : slot.body[i] = Written[q + 2 + i]
  PROVE  Verdict(slot, cred) # "crash"
<1> DEFINE b == slot.body  l == Len(slot.body)
<1> SUFFICES ASSUME Verdict(slot, cred) = "crash" PROVE FALSE
  OBVIOUS
<1>1. l \in Nat
  BY LenProperties
<1>2. \/ slot.type = 1 /\ Parses(b)
      \/ slot.type = 2 /\ l >= 2 /\ b[1] = 0
  BY WhenSlotCrashes, WhenPasswordCrashes, WhenRecipientCrashes
<1>3. ASSUME slot.type = 1
      PROVE  /\ l >= 4 /\ b[1] \in {1, 2} /\ 4 + 2 * b[4] <= l /\ b[4] \in Nat
             /\ \A m \in 1 .. b[4] : b[3 + 2 * m] \in (IF b[1] = 1 THEN {1} ELSE {16, 17, 18})
  <2>1. Parses(b) /\ b \in Seq(Nat)
    BY <1>2, <1>3
  <2> HIDE DEF b
  <2>2. /\ Len(b) \in Nat /\ Len(b) >= 4 /\ b[1] \in {1, 2} /\ 4 + 2 * b[4] <= Len(b)
        /\ \A i \in 1 .. Len(b) : b[i] \in Nat
        /\ \A m \in 1 .. b[4] : b[3 + 2 * m] \in (IF b[1] = 1 THEN {1} ELSE {16, 17, 18})
    BY <2>1, WhenParsed
  <2>3. b[4] \in Nat
    BY <2>2
  <2>4. l = Len(b)
    BY DEF b
  <2> HIDE DEF l
  <2> QED BY <2>2, <2>3, <2>4
<1>4. \A i \in 1 .. l : b[i] = Written[q + 2 + i]
  OBVIOUS
<1> DEFINE t == slot.type
<1>5. t = Written[q + 1] /\ l = Written[q + 2] /\ t \in {1, 2} /\ q + 2 + l <= Len(Written)
  BY <1>2
<1>5a. t = Written[q + 1]
  BY <1>5
<1>5b. l = Written[q + 2]
  BY <1>5
<1>5c. t \in {1, 2}
  BY <1>5
<1> HIDE DEF b, l, t
<1>6. CASE q >= SectionEnd
  <2> DEFINE e == SectionEnd
  <2>1. e \in Nat /\ q + 2 + l <= e + 4
    BY <1>5, CellsAfter
  <2>2. q >= e
    BY <1>6
  <2>3. Written[e + 1] = 6 /\ Written[e + 2] = 90 /\ Written[e + 3] = 91
    BY CellsAfter
  <2> HIDE DEF e
  <2>4. q + 1 = e + 1 \/ q + 1 = e + 2 \/ q + 1 = e + 3
    BY ONLY <2>1, <2>2, <1>1, q \in Nat
  <2> QED BY <2>3, <2>4, <1>5
<1>7. CASE q < SectionEnd
  <2>1. PICK j \in 1 .. Len(made) : Place(j) <= q /\ q < Place(j) + 2 + Len(Body(j))
    BY <1>7, InSomeSlot
  <2> DEFINE p == Place(j)  o == q - p
  <2>2. p \in Nat /\ o \in Nat /\ q = p + o /\ o < 2 + Len(Body(j)) /\ Salt(j) \in Nat /\ Salt(j) >= 103
        /\ Nonce(j) \in Nat /\ Nonce(j) >= 104 /\ Sealed(j) \in Nat /\ Sealed(j) >= 105
        /\ made[j].secret \in Passwords \cup Identities /\ made[j].algo \in {1, 2}
    <3>1. p \in Nat /\ Salt(j) \in Nat /\ Salt(j) >= 103
        /\ Nonce(j) \in Nat /\ Nonce(j) >= 104 /\ Sealed(j) \in Nat /\ Sealed(j) >= 105
        /\ made[j].secret \in Passwords \cup Identities /\ made[j].algo \in {1, 2}
      BY SlotCells
    <3>2. Len(Body(j)) \in Nat /\ p <= q /\ q < p + 2 + Len(Body(j))
      BY <2>1, Places
    <3>3. o \in Nat /\ q = p + o /\ o < 2 + Len(Body(j))
      <4>1. p \in Nat
        BY <3>1
      <4> HIDE DEF p
      <4> QED BY ONLY <3>2, <4>1, q \in Nat
    <3> HIDE DEF p, o
    <3> QED BY <3>1, <3>3
  <2> HIDE DEF p, o
  <2>2a. p \in Nat /\ o \in Nat /\ q = p + o
    BY <2>2
  <2>2c. /\ Salt(j) \in Nat /\ Salt(j) >= 103 /\ Nonce(j) \in Nat /\ Nonce(j) >= 104
         /\ Sealed(j) \in Nat /\ Sealed(j) >= 105
    BY <2>2
  <2>2b. o < 2 + Len(Body(j))
    BY <2>2
\* With every cell as it was written the slot itself does not crash.
  <2>3. o # 0
    <3> SUFFICES ASSUME o = 0 PROVE FALSE
      OBVIOUS
    <3>1. q = Place(j)
      BY <2>2 DEF p
    <3>2. /\ Written[Place(j) + 1] = Kind(made[j].secret) /\ Written[Place(j) + 2] = Len(Body(j))
          /\ \A k \in 1 .. Len(Body(j)) : Written[Place(j) + 2 + k] = Body(j)[k]
      BY WrittenCells
    <3>3. slot.type = Kind(made[j].secret)
          /\ \A i \in 1 .. Len(Body(j)) : i <= Len(slot.body) => slot.body[i] = Body(j)[i]
      BY <3>1, <3>2, <1>5, <1>4 DEF b, l, t
    <3>4. -1 \in Fragile
      BY <3>3, SlotInPlace
    <3>5. \A x \in Fragile : x \in Nat
      BY FragileCells
    <3> QED BY <3>4, <3>5
  <2>4. CASE made[j].secret \in Identities
    <3>1. Len(Body(j)) = 3 /\ Written[p + 2] = 3 /\ Written[p + 3] = Salt(j)
          /\ Written[p + 4] = Nonce(j) /\ Written[p + 5] = Sealed(j)
      BY <2>4, SlotCells DEF p
    <3>2. \/ q + 1 = p + 2 \/ q + 1 = p + 3 \/ q + 1 = p + 4 \/ q + 1 = p + 5
      BY ONLY <2>2a, <2>2b, <2>3, <3>1
    <3>3. t \in {3, Salt(j), Nonce(j), Sealed(j)}
      BY ONLY <3>1, <3>2, <1>5a
    <3> QED BY ONLY <3>3, <1>5c, <2>2c
  <2>5. CASE made[j].secret \in Passwords /\ made[j].algo = 1
    <3>1. /\ Len(Body(j)) = 9
          /\ Written[p + 2] = 9 /\ Written[p + 3] = 1
          /\ Written[p + 4] = 32 /\ Written[p + 5] = 1 /\ Written[p + 6] = 1
          /\ Written[p + 7] = 1 /\ Written[p + 8] = 5 /\ Written[p + 9] = Salt(j)
          /\ Written[p + 10] = Nonce(j) /\ Written[p + 11] = Sealed(j)
      BY <2>5, SlotCells DEF p
    <3>2. o \in 1 .. 10
      BY ONLY <2>2a, <2>2b, <2>3, <3>1
    <3>3. CASE o = 2
      <4>1. q + 1 = p + 3 /\ q + 2 = p + 4 /\ q + 2 + 1 = p + 5 /\ q + 2 + 4 = p + 8 /\ q + 2 + 5 = p + 9
        BY ONLY <2>2a, <3>3
      <4>2. t = 1 /\ l = 32
        BY <1>5, <3>1, <4>1
      <4>3. b[1] = 1 /\ b[4] = 5 /\ b[5] = Salt(j)
        <5>1. 1 \in 1 .. l /\ 4 \in 1 .. l /\ 5 \in 1 .. l
          BY ONLY <4>2
        <5>2. b[1] = Written[q + 2 + 1] /\ b[4] = Written[q + 2 + 4] /\ b[5] = Written[q + 2 + 5]
          BY ONLY <5>1, <1>4
        <5> QED BY ONLY <5>2, <3>1, <4>1
      <4>4. b[3 + 2 * 1] \in (IF b[1] = 1 THEN {1} ELSE {16, 17, 18})
        <5>1. 1 \in 1 .. b[4]
          BY <4>3
        <5> QED BY <5>1, <1>3, <4>2 DEF t
      <4> QED BY <2>2, <4>3, <4>4
    <3>4. CASE o \in {4, 5}
      <4>1. \/ q + 1 = p + 5 /\ q + 2 = p + 6
            \/ q + 1 = p + 6 /\ q + 2 = p + 7
        <5>1. CASE o = 4
          BY ONLY <2>2a, <5>1
        <5>2. CASE o = 5
          BY ONLY <2>2a, <5>2
        <5> QED BY <3>4, <5>1, <5>2
      <4>2. t = 1 /\ l = 1
        BY ONLY <1>5a, <1>5b, <3>1, <4>1
      <4> QED BY <1>3, <4>2 DEF t
    <3>5. CASE o = 6
      <4>1. q + 1 = p + 7 /\ q + 2 = p + 8 /\ q + 2 + 1 = p + 9
        BY ONLY <2>2a, <3>5
      <4>2. t = 1 /\ l = 5
        BY <1>5, <3>1, <4>1
      <4>3. b[1] = Salt(j)
        <5>1. 1 \in 1 .. l
          BY ONLY <4>2
        <5>2. b[1] = Written[q + 2 + 1]
          BY ONLY <5>1, <1>4
        <5> QED BY ONLY <5>2, <3>1, <4>1
      <4>4. b[1] \in {1, 2}
        BY <1>3, <4>2 DEF t
      <4>5. Salt(j) \in Nat /\ Salt(j) >= 103
        BY <2>2
      <4> QED BY ONLY <4>3, <4>4, <4>5
    <3>6. CASE o \in {1, 3, 7, 8, 9, 10}
      <4>1. \/ q + 1 = p + 2 \/ q + 1 = p + 4 \/ q + 1 = p + 8 \/ q + 1 = p + 9 \/ q + 1 = p + 10
            \/ q + 1 = p + 11
        <5>1. o = 1 \/ o = 3 \/ o = 7 \/ o = 8 \/ o = 9 \/ o = 10
          BY ONLY <3>6
        <5> QED BY ONLY <2>2a, <5>1
      <4>2. t \in {9, 32, 5, Salt(j), Nonce(j), Sealed(j)}
        BY ONLY <3>1, <4>1, <1>5a
      <4> QED BY ONLY <4>2, <1>5c, <2>2c
    <3> QED BY <3>2, <3>3, <3>4, <3>5, <3>6
  <2>6. CASE made[j].secret \in Passwords /\ made[j].algo = 2
    <3>1. /\ Len(Body(j)) = 13
          /\ Written[p + 2] = 13 /\ Written[p + 3] = 2
          /\ Written[p + 4] = 32 /\ Written[p + 5] = 1 /\ Written[p + 6] = 3
          /\ Written[p + 7] = 16 /\ Written[p + 8] = 8 /\ Written[p + 9] = 17
          /\ Written[p + 10] = 3 /\ Written[p + 11] = 18 /\ Written[p + 12] = 1
          /\ Written[p + 13] = Salt(j) /\ Written[p + 14] = Nonce(j)
          /\ Written[p + 15] = Sealed(j)
      <4>1. MadeOK /\ p = Place(j) /\ j \in 1 .. Len(made)
        BY DEF p
      <4> QED BY ONLY <4>1, <2>6, SlotCells, ZenonT(40)
    <3>2. o \in 1 .. 14
      BY ONLY <2>2a, <2>2b, <2>3, <3>1
    <3>3. CASE o = 2
      <4>1. q + 1 = p + 3 /\ q + 2 = p + 4 /\ q + 2 + 1 = p + 5
        BY ONLY <2>2a, <3>3
      <4>2. t = 2 /\ l = 32
        BY <1>5, <3>1, <4>1
      <4>3. b[1] = 1
        <5>1. 1 \in 1 .. l
          BY ONLY <4>2
        <5>2. b[1] = Written[q + 2 + 1]
          BY ONLY <5>1, <1>4
        <5> QED BY ONLY <5>2, <3>1, <4>1
      <4> QED BY <1>2, <4>2, <4>3 DEF t
    <3>4. CASE o = 4
      <4>1. q + 1 = p + 5 /\ q + 2 = p + 6
        BY ONLY <2>2a, <3>4
      <4>2. t = 1 /\ l = 3
        BY <1>5, <3>1, <4>1
      <4> QED BY <1>3, <4>2 DEF t
    <3>5. CASE o = 11
      <4>1. q + 1 = p + 12 /\ q + 2 = p + 13 /\ q + 2 + 1 = p + 14
        BY ONLY <2>2a, <3>5
      <4>2. t = 1 /\ l = Salt(j)
        BY <1>5, <3>1, <4>1
      <4>3. b[1] = Nonce(j)
        <5>1. 1 \in 1 .. l
          BY <2>2, <4>2
        <5> QED BY <5>1, <1>4, <3>1, <4>1
      <4>4. b[1] \in {1, 2}
        BY <1>3, <4>2 DEF t
      <4>5. Nonce(j) \in Nat /\ Nonce(j) >= 104
        BY <2>2
      <4> QED BY ONLY <4>3, <4>4, <4>5
    <3>6. CASE o \in {1, 3, 5, 6, 7, 8, 9, 10, 12, 13, 14}
      <4>1. \/ q + 1 = p + 2 \/ q + 1 = p + 4 \/ q + 1 = p + 6 \/ q + 1 = p + 7 \/ q + 1 = p + 8
            \/ q + 1 = p + 9 \/ q + 1 = p + 10 \/ q + 1 = p + 11 \/ q + 1 = p + 13 \/ q + 1 = p + 14
            \/ q + 1 = p + 15
        <5>1. \/ o = 1 \/ o = 3 \/ o = 5 \/ o = 6 \/ o = 7 \/ o = 8 \/ o = 9 \/ o = 10
              \/ o = 12 \/ o = 13 \/ o = 14
          BY ONLY <3>6
        <5> QED BY ONLY <2>2a, <5>1
      <4>2. t \in {13, 32, 3, 16, 8, 17, 18, Salt(j), Nonce(j), Sealed(j)}
        BY ONLY <3>1, <4>1, <1>5a
      <4> QED BY ONLY <4>2, <1>5c, <2>2c
    <3> QED BY <3>2, <3>3, <3>4, <3>5, <3>6
  <2> QED BY <2>2, <2>4, <2>5, <2>6
<1>8. SectionEnd \in Nat
  BY CellsAfter
<1> QED BY <1>6, <1>7, <1>8

-----------------------------------------------------------------------------
(* One damaged field. *)

\* At most one field of what is left of the file is damaged.
OneFieldLeft == \A j, k \in damaged \cap DOMAIN file : j = k

\* The section is read from where a slot was written until the damaged field is
\* passed.
InStep ==
  run.off >= 3
  /\ \A k \in damaged \cap DOMAIN file : k <= run.off \/ run.off = Place(Len(run.slots) + 1)

\* A slot that is going to crash does so by a fragile cell.
SlotsTame ==
  \A i \in 1 .. Len(run.slots) :
    Verdict(run.slots[i], run.cred) = "crash" => damaged \cap Fragile # {}

CrashInv ==
  /\ Len(file) <= Len(Written) /\ damaged \subseteq 1 .. Len(Written)
  /\ OneFieldLeft =>
       /\ run.pc = "section" => InStep
       /\ SlotsTame
       /\ CrashesOnlyFromValues

LEMMA SlotRead ==
  ASSUME UnlockInv, CrashInv, OneFieldLeft, run.pc = "section", run.left > 0,
         NEW q, q = run.off, q + 2 <= Len(file), q + 2 + file[q + 2] <= Len(file),
         NEW slot, slot = [type |-> file[q + 1], body |-> SubSeq(file, q + 3, q + 2 + file[q + 2])]
  PROVE  /\ Verdict(slot, run.cred) = "crash" => damaged \cap Fragile # {}
         /\ \A k \in damaged \cap DOMAIN file :
              k <= q + 2 + file[q + 2] \/ q + 2 + file[q + 2] = Place(Len(run.slots) + 2)
<1> DEFINE n == Len(run.slots)  l == file[q + 2]  b == SubSeq(file, q + 3, q + 2 + l)
<1>1. /\ MadeOK /\ FileOK /\ file \in Seq(Nat) /\ Len(file) \in Nat /\ DOMAIN file = 1 .. Len(file)
      /\ n \in Nat /\ q \in Nat /\ q >= 3 /\ Len(file) <= Len(Written) /\ n + run.left = file[3]
      /\ run.left \in Nat /\ Len(made) \in Nat
  <2>1. MadeOK /\ FileOK /\ file \in Seq(Nat) /\ n + run.left = file[3]
    BY DEF UnlockInv, FileOK, RunOK
  <2>2. Len(file) \in Nat /\ n \in Nat /\ q \in Nat /\ run.left \in Nat /\ Len(made) \in Nat
    BY RunFacts
  <2>3. q >= 3 /\ Len(file) <= Len(Written)
    BY DEF CrashInv, InStep
  <2>4. DOMAIN file = 1 .. Len(file)
    BY <2>1, LenProperties
  <2> HIDE DEF n
  <2> QED BY <2>1, <2>2, <2>3, <2>4
<1>2. Len(Written) \in Nat
  BY <1>1, WrittenCells, LenProperties
<1>3. \A k \in 1 .. Len(file) : k \notin damaged => file[k] = Written[k]
  <2>1. \A k \in 1 .. Len(file) : k \in 1 .. Len(Written)
    BY <1>1, <1>2
  <2> QED BY <2>1, <1>1 DEF FileOK
<1> HIDE DEF n
<1>1a. q \in Nat /\ q >= 3 /\ Len(file) \in Nat /\ q + 2 <= Len(file)
  BY <1>1
<1>4. q + 1 \in 1 .. Len(file) /\ q + 2 \in 1 .. Len(file) /\ 3 \in 1 .. Len(file)
  BY ONLY <1>1a
<1>5. l \in Nat
  BY <1>1, <1>4, ElementOfSeq
<1>6. q + 2 + l <= Len(file)
  OBVIOUS
<1> HIDE DEF l
<1>7. b \in Seq(Nat) /\ Len(b) = l /\ \A i \in 1 .. l : b[i] = file[q + 2 + i]
  <2> DEFINE lo == q + 3  hi == q + 2 + l
  <2>1. lo \in Int /\ hi \in Int /\ hi - lo + 1 = l /\ (lo <= hi <=> l # 0)
        /\ \A i \in 1 .. l : lo + i - 1 = q + 2 + i
    BY ONLY <1>1a, <1>5
  <2>2. \A k \in lo .. hi : file[k] \in Nat
    <3> SUFFICES ASSUME NEW k \in lo .. hi PROVE file[k] \in Nat
      OBVIOUS
    <3>1. k \in 1 .. Len(file)
      BY <1>1, <1>5, <1>6
    <3> QED BY <3>1, <1>1, ElementOfSeq
  <2>3. b = SubSeq(file, lo, hi)
    OBVIOUS
  <2> HIDE DEF lo, hi, b
  <2>4. /\ SubSeq(file, lo, hi) \in Seq(Nat)
        /\ Len(SubSeq(file, lo, hi)) = IF lo <= hi THEN hi - lo + 1 ELSE 0
        /\ \A i \in 1 .. hi - lo + 1 : SubSeq(file, lo, hi)[i] = file[lo + i - 1]
    BY <2>1, <2>2, SubSeqProperties
  <2> QED BY <1>5, <2>1, <2>3, <2>4
<1>8. slot.type = file[q + 1] /\ slot.body = b
  BY DEF l
<1> HIDE DEF b
<1>9. CASE \A k \in damaged \cap DOMAIN file : k <= q
  <2>1. \A i \in 1 .. Len(file) : i > q => file[i] = Written[i]
    <3> SUFFICES ASSUME NEW i \in 1 .. Len(file), i > q PROVE file[i] = Written[i]
      OBVIOUS
    <3>1. i \notin damaged
      <4>1. i \in damaged => i <= q
        BY <1>1, <1>9
      <4> QED BY <4>1, <1>1a
    <3> QED BY <3>1, <1>3
  <2>2. slot.type = Written[q + 1] /\ l = Written[q + 2]
    <3>1. q + 1 > q /\ q + 2 > q
      BY ONLY <1>1a
    <3>2. file[q + 1] = Written[q + 1] /\ file[q + 2] = Written[q + 2]
      BY ONLY <3>1, <1>4, <2>1
    <3>3. l = file[q + 2]
      BY DEF l
    <3> QED BY <1>8, <3>2, <3>3
  <2>3. \A i \in 1 .. l : b[i] = Written[q + 2 + i]
    <3> SUFFICES ASSUME NEW i \in 1 .. l PROVE b[i] = Written[q + 2 + i]
      OBVIOUS
    <3>1. q + 2 + i \in 1 .. Len(file) /\ q + 2 + i > q
      BY ONLY <1>1a, <1>5, <1>6, i \in 1 .. l
    <3> QED BY <3>1, <2>1, <1>7
  <2>4. q + 2 + Len(slot.body) <= Len(Written)
    <3>1. Len(slot.body) = l /\ Len(file) <= Len(Written)
      BY <1>1, <1>7, <1>8
    <3> QED BY ONLY <3>1, <1>1a, <1>2, <1>5, <1>6
  <2>5. Verdict(slot, run.cred) # "crash"
    <3>1. slot.body \in Seq(Nat) /\ Len(slot.body) = Written[q + 2]
          /\ \A i \in 1 .. Len(slot.body) : slot.body[i] = Written[q + 2 + i]
      BY <1>7, <1>8, <2>2, <2>3
    <3>2. MadeOK /\ q \in Nat /\ q >= 3 /\ slot.type = Written[q + 1]
      BY <1>1, <2>2
    <3> QED BY ONLY <2>4, <3>1, <3>2, StraySlot
  <2>6. \A k \in damaged \cap DOMAIN file : k <= q + 2 + l
    <3> SUFFICES ASSUME NEW k \in damaged \cap DOMAIN file PROVE k <= q + 2 + l
      OBVIOUS
    <3>1. k <= q /\ k \in 1 .. Len(file)
      BY <1>1, <1>9
    <3> QED BY ONLY <3>1, <1>1a, <1>5
  <2> QED BY <2>5, <2>6 DEF l
<1>10. CASE \E k \in damaged \cap DOMAIN file : ~(k <= q)
  <2>1. PICK k \in damaged \cap DOMAIN file : ~(k <= q)
    BY <1>10
  <2>2. k \in 1 .. Len(file) /\ q < k /\ \A i \in 1 .. Len(file) : i # k => file[i] = Written[i]
    <3>1. k \in 1 .. Len(file) /\ q < k
      BY <1>1, <2>1
    <3>2. ASSUME NEW i \in 1 .. Len(file), i # k PROVE file[i] = Written[i]
      <4>1. i \notin damaged
        BY <1>1, <2>1, <3>2 DEF OneFieldLeft
      <4> QED BY <4>1, <1>3
    <3> QED BY <3>1, <3>2
  <2>3. q = Place(n + 1)
    BY <2>1 DEF CrashInv, InStep, n
  <2>4. n + 1 \in 1 .. Len(made)
    <3>1. file[3] = Written[3]
      BY <1>1, <1>4, <2>2
    <3>2. Written[3] = Len(made)
      BY <1>1, WrittenCells
    <3> QED BY <3>1, <3>2, <1>1
  <2> DEFINE j == n + 1  body == Body(j)
  <2>5. /\ Written[q + 1] = Kind(made[j].secret) /\ Written[q + 2] = Len(body)
        /\ \A i \in 1 .. Len(body) : Written[q + 2 + i] = body[i]
    BY <1>1, <2>3, <2>4, WrittenCells
  <2>6. Len(body) \in Nat /\ Place(j + 1) = q + 2 + Len(body)
    BY <1>1, <2>3, <2>4, Places
  <2>7. j + 1 = n + 2
    BY <1>1
  <2> HIDE DEF j, body
  <2>8. slot.type = Kind(made[j].secret) \/ k = q + 1
    BY <1>4, <1>8, <2>2, <2>5
  <2>9. \A i \in 1 .. Len(body) : i <= l /\ q + 2 + i # k => b[i] = body[i]
    <3> SUFFICES ASSUME NEW i \in 1 .. Len(body), i <= l, q + 2 + i # k PROVE b[i] = body[i]
      OBVIOUS
    <3>1. i \in 1 .. l /\ q + 2 + i \in 1 .. Len(file)
      BY ONLY <1>1a, <1>5, <1>6, <2>6, i \in 1 .. Len(body), i <= l
    <3> QED BY <3>1, <1>7, <2>2, <2>5
  <2>10. ASSUME Verdict(slot, run.cred) = "crash" PROVE k \in Fragile
    <3>1. j \in 1 .. Len(made) /\ k \in Int
      BY <2>2, <2>4 DEF j
    <3>2. \A i \in 1 .. Len(Body(j)) :
            i <= Len(slot.body) /\ Place(j) + 2 + i # k => slot.body[i] = Body(j)[i]
      BY <1>7, <1>8, <2>3, <2>9 DEF body, j
    <3>3. slot.type = Kind(made[j].secret) \/ k = Place(j) + 1
      BY <2>3, <2>8 DEF j
    <3>4. slot.body \in Seq(Nat)
      BY <1>7, <1>8
    <3>5. MadeOK
      BY <1>1
    <3> QED BY ONLY <2>10, <3>1, <3>2, <3>3, <3>4, <3>5, SlotInPlace
  <2>11. k <= q + 2 + l \/ q + 2 + l = Place(n + 2)
    <3>1. CASE k = q + 2
      BY <3>1, <1>1, <1>5
    <3>2. CASE k # q + 2
      <4>1. l = Len(body)
        BY <3>2, <1>4, <2>2, <2>5 DEF l
      <4> QED BY <4>1, <2>6, <2>7
    <3> QED BY <3>1, <3>2
  <2>12. \A m \in damaged \cap DOMAIN file : m = k
    BY <2>1 DEF OneFieldLeft
  <2> QED BY <2>1, <2>10, <2>11, <2>12 DEF l, n
<1> QED BY <1>9, <1>10

LEMMA InitCrash == Init => CrashInv
<1> SUFFICES ASSUME Init PROVE CrashInv
  OBVIOUS
<1>1. UnlockInv
  BY InitUnlock
<1>2. file = Written /\ damaged = {} /\ run.pc = "idle" /\ run.slots = <<>>
  BY DEF Init, Idle
<1>3. Len(file) <= Len(Written)
  BY <1>1, <1>2, RunFacts
<1>4. SlotsTame
  <2>1. Len(run.slots) = 0
    BY <1>2
  <2> QED BY <2>1 DEF SlotsTame
<1> QED BY <1>2, <1>3, <1>4 DEF CrashInv, CrashesOnlyFromValues

\* While a command reads, the section and what is damaged in it stay the same.
LEMMA ReadingFixed ==
  ASSUME Reading
  PROVE  /\ Written' = Written /\ (OneFieldLeft' <=> OneFieldLeft) /\ Fragile' = Fragile
         /\ \A i : Place(i)' = Place(i)
         /\ damaged' = damaged /\ file' = file
<1>1. made' = made /\ file' = file /\ damaged' = damaged
  BY DEF Reading
<1>2. Written' = Written /\ \A i : Place(i)' = Place(i)
  BY <1>1, MadeFixed
<1>3. Fragile' = Fragile
  BY <1>1, <1>2 DEF Fragile, Place
<1>4. OneFieldLeft' <=> OneFieldLeft
  BY <1>1 DEF OneFieldLeft
<1> QED BY <1>1, <1>2, <1>3, <1>4

\* What a slot gives does not change either.
LEMMA VerdictsFixed ==
  ASSUME made' = made, NEW i, NEW slot, slot = run'.slots[i], NEW cred, cred = run'.cred
  PROVE  Verdict(run.slots[i], run.cred)' = Verdict(slot, cred)
<1>1. \A j : SealedUnder(j)' = SealedUnder(j)
  BY DEF SealedUnder
<1>2. \A rest, key : Authentic(rest, key)' <=> Authentic(rest, key)
  BY <1>1 DEF Authentic
<1>3. \A b, p : PasswordVerdict(b, p)' = PasswordVerdict(b, p)
  BY <1>2 DEF PasswordVerdict
<1>4. \A b, k : RecipientVerdict(b, k)' = RecipientVerdict(b, k)
  BY <1>2 DEF RecipientVerdict
<1>5. Verdict(slot, cred)' = Verdict(slot, cred)
  BY <1>3, <1>4 DEF Verdict
<1> QED BY <1>5

LEMMA PlaceFixed ==
  ASSUME made' = made, NEW m, m = Len(run'.slots) + 1
  PROVE  Place(Len(run.slots) + 1)' = Place(m)
<1>1. Place(m)' = Place(m)
  BY MadeFixed
<1>2. Place(Len(run.slots) + 1)' = Place(m)'
  BY DEF Place, Before
<1> QED BY <1>1, <1>2

\* A step after the section has been read.
LEMMA TriesTamely ==
  ASSUME CrashInv, Reading, run'.slots = run.slots, run'.cred = run.cred, run'.pc # "section",
         OneFieldLeft /\ run'.pc = "crash" => damaged \cap Fragile # {}
  PROVE  CrashInv'
<1>1. /\ Written' = Written /\ (OneFieldLeft' <=> OneFieldLeft) /\ Fragile' = Fragile
      /\ damaged' = damaged /\ file' = file /\ made' = made
  BY ReadingFixed DEF Reading
<1>2. ASSUME NEW i PROVE Verdict(run.slots[i], run.cred)' = Verdict(run.slots[i], run.cred)
  <2> DEFINE slot == run.slots[i]  cred == run.cred
  <2>1. slot = run'.slots[i] /\ cred = run'.cred
    OBVIOUS
  <2> HIDE DEF slot, cred
  <2>2. Verdict(run.slots[i], run.cred)' = Verdict(slot, cred)
    BY <1>1, <2>1, VerdictsFixed
  <2> QED BY <2>2 DEF slot, cred
<1>3. SlotsTame => SlotsTame'
  BY <1>1, <1>2 DEF SlotsTame
<1> QED BY <1>1, <1>3 DEF CrashInv, CrashesOnlyFromValues

LEMMA OpensTamely ==
  ASSUME UnlockInv, CrashInv, NEW cred \in Credentials, Open(cred)
  PROVE  CrashInv'
<1>1. Reading /\ run'.pc \in {"malformed", "section"} /\ run'.slots = <<>>
      /\ (run'.pc = "section" => run'.off = 3)
  BY DEF Open, Reading, Idle
<1>2. /\ Written' = Written /\ (OneFieldLeft' <=> OneFieldLeft) /\ Fragile' = Fragile
      /\ damaged' = damaged /\ file' = file /\ \A i : Place(i)' = Place(i)
  BY <1>1, ReadingFixed
<1>3. Len(run'.slots) = 0 /\ Len(run'.slots) + 1 = 1
  BY <1>1
<1>4. SlotsTame'
  BY <1>3 DEF SlotsTame
<1>5. run'.pc = "section" => InStep'
  <2>1. Place(1) = 3
    BY Places DEF UnlockInv
  <2>2. Place(Len(run.slots) + 1)' = Place(1)
    <3>1. (Len(run.slots) + 1)' = 1
      BY <1>3
    <3>2. Place(Len(run.slots) + 1)' = Place(1)'
      BY <3>1 DEF Place, Before
    <3> QED BY <3>2, <1>2
  <2> QED BY <1>1, <2>1, <2>2 DEF InStep
<1>6. run'.pc # "crash"
  BY <1>1
<1> QED BY <1>2, <1>4, <1>5, <1>6 DEF CrashInv, CrashesOnlyFromValues

LEMMA ReadsTamely ==
  ASSUME UnlockInv, CrashInv, ReadSlot
  PROVE  CrashInv'
<1> DEFINE q == run.off  n == Len(run.slots)  l == file[q + 2]
           slot == [type |-> file[q + 1], body |-> SubSeq(file, q + 3, q + 2 + l)]
<1>1. Reading /\ run.pc = "section" /\ run.left > 0
  BY DEF ReadSlot, Reading
<1>2. run \in Runs /\ run.slots \in Seq(StoredSlot) /\ n \in Nat /\ q \in Nat /\ Len(file) \in Nat
  BY RunFacts DEF UnlockInv, RunOK
<1>3. q + 2 - 1 = q + 1 /\ q + 2 + 1 = q + 3
  BY <1>2
<1>4. run' = IF q + 2 > Len(file) \/ q + 2 + l > Len(file) THEN Ends("malformed")
             ELSE [run EXCEPT !.off = q + 2 + l, !.left = @ - 1, !.slots = Append(@, slot)]
  <2> DEFINE head == q + 2
             read == [type |-> file[head - 1], body |-> SubSeq(file, head + 1, head + file[head])]
  <2>1. run' = IF head > Len(file) \/ head + file[head] > Len(file) THEN Ends("malformed")
               ELSE [run EXCEPT !.off = head + file[head], !.left = @ - 1, !.slots = Append(@, read)]
    BY DEF ReadSlot
  <2>2. read = slot
    <3>1. head - 1 = q + 1 /\ head + 1 = q + 3
      <4>1. q \in Nat
        BY <1>2
      <4> HIDE DEF q
      <4> QED BY ONLY <4>1
    <3>2. read = [type |-> file[q + 1], body |-> SubSeq(file, q + 3, head + file[head])]
      BY <3>1
    <3> QED BY <3>2
  <2> HIDE DEF read, slot
  <2> QED BY <2>1, <2>2
<1>5. CASE q + 2 > Len(file) \/ q + 2 + l > Len(file)
  <2>1. run'.pc = "malformed" /\ run'.slots = run.slots /\ run'.cred = run.cred
    BY <1>2, <1>4, <1>5 DEF Ends, Runs
  <2> QED BY <1>1, <2>1, TriesTamely
<1>6. CASE ~(q + 2 > Len(file) \/ q + 2 + l > Len(file))
  <2>1. /\ run'.pc = "section" /\ run'.cred = run.cred /\ run'.off = q + 2 + l
        /\ run'.slots = Append(run.slots, slot)
    BY <1>1, <1>2, <1>4, <1>6 DEF Runs
  <2>2. /\ file \in Seq(Nat) /\ q + 2 \in 1 .. Len(file) /\ q + 2 <= Len(file)
    <3>1. file \in Seq(Nat)
      BY DEF UnlockInv, FileOK
    <3>2. q \in Nat /\ Len(file) \in Nat /\ ~(q + 2 > Len(file))
      BY <1>2, <1>6
    <3> HIDE DEF q
    <3>3. q + 2 \in 1 .. Len(file) /\ q + 2 <= Len(file)
      BY ONLY <3>2
    <3> QED BY <3>1, <3>3
  <2>3. l \in Nat
    BY <2>2, ElementOfSeq
  <2>4. q + 2 + l <= Len(file)
    <3> HIDE DEF q, l
    <3> QED BY <1>2, <1>6, <2>3
  <2>5. run'.slots = Append(run.slots, slot) /\ Len(run'.slots) = n + 1 /\ run'.slots[n + 1] = slot
        /\ \A i \in 1 .. n : run'.slots[i] = run.slots[i]
    <3> DEFINE T == StoredSlot \cup {slot}
    <3>1. run.slots \in Seq(T) /\ slot \in T
      <4>1. StoredSlot \subseteq T
        OBVIOUS
      <4>2. \A i \in 1 .. n : run.slots[i] \in T
        BY <1>2, ElementOfSeq
      <4>3. run.slots = [i \in 1 .. n |-> run.slots[i]]
        BY <1>2
      <4> HIDE DEF T, slot
      <4> QED BY <1>2, <4>2, <4>3 DEF T
    <3> HIDE DEF T, slot
    <3> QED BY <2>1, <3>1, AppendProperties
  <2>6. /\ Written' = Written /\ (OneFieldLeft' <=> OneFieldLeft) /\ Fragile' = Fragile
        /\ damaged' = damaged /\ file' = file /\ \A i : Place(i)' = Place(i)
    BY <1>1, ReadingFixed
  <2>7. ASSUME OneFieldLeft
        PROVE  /\ Verdict(slot, run.cred) = "crash" => damaged \cap Fragile # {}
               /\ \A k \in damaged \cap DOMAIN file : k <= q + 2 + l \/ q + 2 + l = Place(n + 2)
    BY <1>1, <2>2, <2>4, <2>7, SlotRead
  <2> HIDE DEF n, l, slot
  <2>8. ASSUME OneFieldLeft PROVE SlotsTame'
    <3> SUFFICES ASSUME NEW i \in 1 .. n + 1, Verdict(run.slots[i], run.cred)' = "crash"
                 PROVE  damaged \cap Fragile # {}
      <4>1. 1 .. Len(run'.slots) = 1 .. n + 1 /\ (damaged \cap Fragile)' = damaged \cap Fragile
        BY <2>5, <2>6
      <4> QED BY <4>1 DEF SlotsTame
    <3> DEFINE s == run'.slots[i]  cred == run.cred
    <3>1. s = run'.slots[i] /\ cred = run'.cred /\ made' = made
      BY <1>1, <2>1 DEF Reading
    <3> HIDE DEF s, cred
    <3>2. Verdict(run.slots[i], run.cred)' = Verdict(s, cred)
      BY <3>1, VerdictsFixed
    <3>3. CASE i = n + 1
      BY <2>5, <2>7, <2>8, <3>2, <3>3 DEF s, cred
    <3>4. CASE i # n + 1
      <4>1. i \in 1 .. n
        BY <1>2, <3>4 DEF n
      <4>2. s = run.slots[i]
        BY <2>5, <4>1 DEF s
      <4> QED BY <2>8, <3>2, <4>1, <4>2 DEF CrashInv, SlotsTame, n, cred
    <3> QED BY <3>3, <3>4
  <2>9. ASSUME OneFieldLeft PROVE InStep'
    <3>1. run.off >= 3
      BY <1>1, <2>9 DEF CrashInv, InStep
    <3>2. run'.off >= 3
      BY <3>1, <1>2, <2>1, <2>3
    <3>3. Place(Len(run.slots) + 1)' = Place(n + 2)
      <4> DEFINE m == Len(run'.slots) + 1
      <4>1. m = n + 2
        BY <1>2, <2>5 DEF n
      <4>2. m = Len(run'.slots) + 1 /\ made' = made
        BY <1>1 DEF Reading
      <4> HIDE DEF m
      <4>3. Place(Len(run.slots) + 1)' = Place(m)
        BY <4>2, PlaceFixed
      <4> QED BY <4>1, <4>3
    <3> QED BY <2>1, <2>6, <2>7, <2>9, <3>2, <3>3 DEF InStep
  <2>10. run'.pc # "crash"
    BY <2>1
  <2> QED BY <2>6, <2>8, <2>9, <2>10 DEF CrashInv, CrashesOnlyFromValues
<1> QED BY <1>5, <1>6

LEMMA TriesSlotTamely ==
  ASSUME UnlockInv, CrashInv, TrySlot
  PROVE  CrashInv'
<1> DEFINE v == Verdict(run.slots[run.at], run.cred)
<1>1. Reading /\ run.pc = "try" /\ run.at <= Len(run.slots)
  BY DEF TrySlot, Reading
<1>2. run' = CASE v = "skip" -> [run EXCEPT !.at = @ + 1]
               [] v = "dek" -> [run EXCEPT !.pc = "size"]
               [] OTHER -> Ends(v)
  BY DEF TrySlot
<1>3. v \in {"skip", "dek", "malformed", "crash"}
  BY VerdictType
<1>4. run \in Runs /\ run.at \in 1 .. Len(run.slots)
  BY <1>1, RunFacts DEF UnlockInv, RunOK
<1> HIDE DEF v
<1>5. /\ run'.slots = run.slots /\ run'.cred = run.cred /\ run'.pc # "section"
      /\ run'.pc = "crash" => v = "crash"
  <2>1. CASE v = "skip"
    BY <1>1, <1>2, <1>4, <2>1 DEF Runs
  <2>2. CASE v = "dek"
    BY <1>2, <1>4, <2>2 DEF Runs
  <2>3. CASE v = "malformed" \/ v = "crash"
    BY <1>2, <1>4, <2>3 DEF Runs, Ends
  <2> QED BY <1>3, <2>1, <2>2, <2>3
<1>6. ASSUME OneFieldLeft, run'.pc = "crash" PROVE damaged \cap Fragile # {}
  BY <1>4, <1>5, <1>6 DEF CrashInv, SlotsTame, v
<1> QED BY <1>1, <1>5, <1>6, TriesTamely

LEMMA DamagesTamely ==
  ASSUME UnlockInv, CrashInv, \/ \E k \in DOMAIN file, v \in Garbage : DamageCell(k, v)
                              \/ \E k \in DOMAIN file : Cut(k)
  PROVE  CrashInv'
<1>1. run' = run /\ made' = made /\ run.pc = "idle" /\ run.slots = <<>>
  BY DEF DamageCell, Cut, UnlockInv, RunOK, Idle
<1>2. Written' = Written
  BY <1>1, MadeFixed
<1>3. file \in Seq(Nat) /\ Len(file) \in Nat /\ DOMAIN file = 1 .. Len(file) /\ Len(file) <= Len(Written)
      /\ damaged \subseteq 1 .. Len(Written)
  BY LenProperties DEF UnlockInv, FileOK, CrashInv
<1>4. Len(Written) \in Nat
  BY WrittenCells, LenProperties DEF UnlockInv
<1>5. Len(file') <= Len(Written) /\ damaged' \subseteq 1 .. Len(Written)
  <2>1. ASSUME NEW k \in 1 .. Len(file), NEW v \in Garbage, DamageCell(k, v)
        PROVE  Len(file') <= Len(Written) /\ damaged' \subseteq 1 .. Len(Written)
    <3>1. file' = [file EXCEPT ![k] = v] /\ damaged' = damaged \cup {k} /\ v \in Nat
      BY <2>1, SlotUnlockAssumption DEF DamageCell
    <3>2. Len(file') = Len(file)
      BY <1>3, <3>1, ExceptSeq
    <3>3. k \in 1 .. Len(Written)
      BY <1>3, <1>4
    <3> QED BY <1>3, <3>1, <3>2, <3>3
  <2>2. ASSUME NEW k \in 1 .. Len(file), Cut(k)
        PROVE  Len(file') <= Len(Written) /\ damaged' \subseteq 1 .. Len(Written)
    <3>1. file' = SubSeq(file, 1, k - 1) /\ damaged' = damaged \cup (k .. Len(file))
      BY <2>2 DEF Cut
    <3> DEFINE hi == k - 1
    <3>2. hi \in Nat /\ hi <= Len(file) /\ \A j \in 1 .. hi : j \in 1 .. Len(file)
      BY <1>3
    <3>3. \A j \in 1 .. hi : file[j] \in Nat
      BY <1>3, <3>2, ElementOfSeq
    <3>4. file' = SubSeq(file, 1, hi)
      BY <3>1
    <3> HIDE DEF hi
    <3>5. Len(SubSeq(file, 1, hi)) = IF 1 <= hi THEN hi - 1 + 1 ELSE 0
      BY <3>2, <3>3, SubSeqProperties
    <3>6. Len(file') <= Len(Written)
      <4>1. Len(file') <= hi
        BY <3>2, <3>4, <3>5
      <4>2. Len(file') \in Nat
        BY <3>2, <3>4, <3>5
      <4> QED BY <1>3, <1>4, <3>2, <4>1, <4>2
    <3>7. k .. Len(file) \subseteq 1 .. Len(Written)
      BY <1>3, <1>4
    <3> QED BY <1>3, <3>1, <3>6, <3>7
  <2> QED BY <1>3, <2>1, <2>2
<1>6. SlotsTame'
  <2>1. Len(run'.slots) = 0
    BY <1>1
  <2> QED BY <2>1 DEF SlotsTame
<1>7. run'.pc = "idle"
  BY <1>1
<1> QED BY <1>2, <1>5, <1>6, <1>7 DEF CrashInv, CrashesOnlyFromValues

LEMMA CrashStep == UnlockInv /\ CrashInv /\ [Next]_vars => CrashInv'
<1> SUFFICES ASSUME UnlockInv, CrashInv, [Next]_vars PROVE CrashInv'
  OBVIOUS
<1>0. run \in Runs
  BY DEF UnlockInv, RunOK
<1>1. CASE \/ \E k \in DOMAIN file, v \in Garbage : DamageCell(k, v)
           \/ \E k \in DOMAIN file : Cut(k)
  BY <1>1, DamagesTamely
<1>2. ASSUME NEW cred \in Credentials, Open(cred) PROVE CrashInv'
  BY <1>2, OpensTamely
<1>3. CASE ReadSlot
  BY <1>3, ReadsTamely
<1>4. CASE SectionEnds \/ NoneFits \/ ReadSize
  <2>1. Reading /\ run'.slots = run.slots /\ run'.cred = run.cred /\ run'.pc # "section"
        /\ run'.pc # "crash"
    BY <1>0, <1>4 DEF SectionEnds, NoneFits, ReadSize, Ends, Reading, Runs
  <2> QED BY <2>1, TriesTamely
<1>5. CASE TrySlot
  BY <1>5, TriesSlotTamely
<1>6. CASE UNCHANGED vars
  <2>1. Reading /\ run' = run
    BY <1>6 DEF vars, Reading
  <2>2. /\ Written' = Written /\ (OneFieldLeft' <=> OneFieldLeft) /\ Fragile' = Fragile
        /\ damaged' = damaged /\ file' = file /\ made' = made /\ \A i : Place(i)' = Place(i)
    BY <2>1, ReadingFixed DEF Reading
  <2>3. SlotsTame => SlotsTame'
    <3>1. ASSUME NEW i PROVE Verdict(run.slots[i], run.cred)' = Verdict(run.slots[i], run.cred)
      <4> DEFINE slot == run.slots[i]  cred == run.cred
      <4>1. slot = run'.slots[i] /\ cred = run'.cred
        BY <2>1
      <4> HIDE DEF slot, cred
      <4>2. Verdict(run.slots[i], run.cred)' = Verdict(slot, cred)
        BY <2>2, <4>1, VerdictsFixed
      <4> QED BY <4>2 DEF slot, cred
    <3> QED BY <2>1, <2>2, <3>1 DEF SlotsTame
  <2>4. InStep => InStep'
    <3>1. Place(Len(run.slots) + 1)' = Place(Len(run.slots) + 1)
      <4> DEFINE m == Len(run.slots) + 1
      <4>1. m = Len(run'.slots) + 1
        BY <2>1
      <4> HIDE DEF m
      <4>2. Place(Len(run.slots) + 1)' = Place(m)
        BY <2>2, <4>1, PlaceFixed
      <4> QED BY <4>2 DEF m
    <3> QED BY <2>1, <2>2, <3>1 DEF InStep
  <2> QED BY <2>1, <2>2, <2>3, <2>4 DEF CrashInv, CrashesOnlyFromValues
<1> QED
  BY <1>1, <1>2, <1>3, <1>4, <1>5, <1>6 DEF Next

LEMMA CrashAlways == Spec => []CrashInv
<1>1. Init => CrashInv
  BY InitCrash
<1>2. UnlockInv /\ CrashInv /\ [Next]_vars => CrashInv'
  BY CrashStep
<1> QED BY <1>1, <1>2, UnlockAlways, PTL DEF Spec

\* However often a file is cut, when one field of what is left of it is damaged, to
\* whatever value, a command ends in an exception of another library only if that
\* field is a key size, the value of a parameter or an ephemeral key (slots.py 81,
\* kdfparams.py 121-122).
THEOREM OneFieldCrashes == Spec => [](OneFieldLeft => CrashesOnlyFromValues)
<1>1. CrashInv => (OneFieldLeft => CrashesOnlyFromValues)
  BY DEF CrashInv
<1> QED BY <1>1, CrashAlways, PTL

=============================================================================
