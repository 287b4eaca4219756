-------------------------- MODULE ChunkStreamProofs --------------------------
(***************************************************************************)
(* Proofs about ChunkStream for every chunk size, counter limit, set of    *)
(* plaintexts and amount of damage.                                        *)
(*                                                                         *)
(* The first part lets the stored frames be damaged in any way: a frame    *)
(* that still opens carries the piece of the plaintext its counter says    *)
(* (Genuine), and IInv follows it from the encoder to what is released.    *)
(* The last part is about a stream nobody touched (IntactInv): its frames  *)
(* are those of the plaintext, however it was fed, and all are accepted.   *)
(***************************************************************************)
EXTENDS ChunkStream, SequenceTheorems, TLAPS

-----------------------------------------------------------------------------
(* The inductive invariant. *)

\* Where the chunk with counter c begins, less one.
Off(c) == c * ChunkSize

\* A frame as the encoder seals it: its counter says which part of the
\* plaintext it carries, its flag that nothing follows.
Genuine(f) ==
  IF f.final
  THEN Off(f.ctr) <= Len(plain) /\ f.data = SubSeq(plain, Off(f.ctr) + 1, Len(plain))
  ELSE Off(f.ctr + 1) <= Len(plain) /\ f.data = SubSeq(plain, Off(f.ctr) + 1, Off(f.ctr + 1))

\* Frames that open under the key of this stream are genuine.
GoodFrame == {f \in Frame : f.mark = "ok" => Genuine(f)}

EncoderOK ==
  /\ phase \in {"encode", "stored", "decode"}
  /\ fed \in 0 .. Len(plain) /\ counter \in 0 .. MaxCounter /\ pending \in Seq(Unit)
  /\ phase = "encode" => /\ Off(counter) <= fed
                         /\ pending = SubSeq(plain, Off(counter) + 1, fed)

FileOK ==
  /\ wire \in Seq(GoodFrame)
  /\ size \in 0 .. FrameCells * Len(wire) /\ hits \in Nat
  /\ read \in 0 .. size /\ taken \in 0 .. Len(wire)
  /\ phase # "decode" => read = 0 /\ taken = 0

NoncesOK ==
  /\ phase = "encode" => Len(wire) = counter /\ hits = 0
  /\ phase = "encode" \/ hits = 0 => \A i \in 1 .. Len(wire) : wire[i].ctr = i - 1

DecoderOK ==
  /\ prev \in Seq(GoodFrame) /\ Len(prev) <= 1
  /\ opened \in 0 .. MaxCounter
  /\ dpc \in {"length", "body", "done", "failed", "overflow"}
  /\ out \in Seq(Unit)
  /\ dpc \in {"length", "body", "failed"} =>
       Off(opened) <= Len(plain) /\ out = SubSeq(plain, 1, Off(opened))
  /\ dpc = "overflow" => \E m \in 0 .. Len(plain) : out = SubSeq(plain, 1, m)
  /\ dpc = "done" => out = plain

IInv == plain \in Plaintexts /\ EncoderOK /\ FileOK /\ NoncesOK /\ DecoderOK

-----------------------------------------------------------------------------
(* Facts about offsets and pieces of the plaintext. *)

\* Offsets are naturals, one chunk apart.
LEMMA OffFacts ==
  ASSUME NEW c \in Nat
  PROVE  Off(c) \in Nat /\ Off(c + 1) = Off(c) + ChunkSize /\ Off(0) = 0
<1>1. ChunkSize \in Nat
  BY ChunkStreamAssumption
<1> QED
  BY <1>1 DEF Off

\* A piece of the plaintext is a sequence of units of the expected length.
LEMMA Piece ==
  ASSUME NEW p \in Seq(Unit), NEW a \in 0 .. Len(p), NEW b \in a .. Len(p)
  PROVE  SubSeq(p, a + 1, b) \in Seq(Unit) /\ Len(SubSeq(p, a + 1, b)) = b - a
<1>1. Len(p) \in Nat /\ \A i \in a + 1 .. b : p[i] \in Unit
  BY ElementOfSeq, LenProperties
<1>2. a + 1 \in Int /\ b \in Int
  BY <1>1
<1> QED
  BY <1>1, <1>2, SubSeqProperties

\* Two neighbouring pieces make one.
LEMMA Join ==
  ASSUME NEW p \in Seq(Unit), NEW a \in 0 .. Len(p), NEW b \in a .. Len(p),
         NEW c \in b .. Len(p)
  PROVE  SubSeq(p, a + 1, b) \o SubSeq(p, b + 1, c) = SubSeq(p, a + 1, c)
<1>1. Len(p) \in Nat
  BY LenProperties
<1>2. a + 1 \in 1 .. Len(p) + 1 /\ b \in (a + 1) - 1 .. Len(p) /\ c \in b .. Len(p)
  BY <1>1
<1> QED
  BY <1>2, ConcatAdjacentSubSeq

\* A piece of a piece.
LEMMA SubPiece ==
  ASSUME NEW p \in Seq(Unit), NEW a \in 0 .. Len(p), NEW b \in a .. Len(p),
         NEW m \in 0 .. b - a, NEW k \in m .. b - a
  PROVE  SubSeq(SubSeq(p, a + 1, b), m + 1, k) = SubSeq(p, a + m + 1, a + k)
<1> DEFINE q == SubSeq(p, a + 1, b)
           l == SubSeq(q, m + 1, k)
           r == SubSeq(p, a + m + 1, a + k)
<1>1. /\ Len(p) \in Nat
      /\ q \in Seq(Unit) /\ Len(q) = b - a
      /\ \A i \in 1 .. b - a : q[i] = p[a + i]
  <2>1. Len(p) \in Nat /\ \A i \in a + 1 .. b : p[i] \in Unit
    BY ElementOfSeq, LenProperties
  <2>2. a + 1 \in Int /\ b \in Int
    BY <2>1
  <2>3. /\ q \in Seq(Unit)
        /\ \A i \in 1 .. b - (a + 1) + 1 : q[i] = p[a + 1 + i - 1]
    BY <2>1, <2>2, SubSeqProperties
  <2>4. \A i \in 1 .. b - a : i \in 1 .. b - (a + 1) + 1 /\ a + 1 + i - 1 = a + i
    BY <2>1
  <2> QED
    BY <2>1, <2>3, <2>4, Piece
<1> HIDE DEF q
<1>2. l \in Seq(Unit) /\ Len(l) = k - m /\ \A i \in 1 .. k - m : l[i] = q[m + i]
  <2>1. \A i \in m + 1 .. k : q[i] \in Unit
    <3> SUFFICES ASSUME NEW i \in m + 1 .. k PROVE q[i] \in Unit
      OBVIOUS
    <3>1. i \in 1 .. Len(q)
      BY <1>1
    <3> QED
      BY <1>1, <3>1, ElementOfSeq
  <2>2. m + 1 \in Int /\ k \in Int
    BY <1>1
  <2>3. /\ l \in Seq(Unit)
        /\ Len(l) = IF m + 1 <= k THEN k - (m + 1) + 1 ELSE 0
        /\ \A i \in 1 .. k - (m + 1) + 1 : l[i] = q[m + 1 + i - 1]
    BY <2>1, <2>2, SubSeqProperties, SMTT(30)
  <2>4. \A i \in 1 .. k - m : i \in 1 .. k - (m + 1) + 1 /\ m + 1 + i - 1 = m + i
    BY <1>1
  <2> QED
    BY <1>1, <2>3, <2>4
<1>3. r \in Seq(Unit) /\ Len(r) = k - m /\ \A i \in 1 .. k - m : r[i] = p[a + m + i]
  <2>1. \A i \in a + m + 1 .. a + k : p[i] \in Unit
    <3> SUFFICES ASSUME NEW i \in a + m + 1 .. a + k PROVE p[i] \in Unit
      OBVIOUS
    <3>1. i \in 1 .. Len(p)
      BY <1>1
    <3> QED
      BY <3>1, ElementOfSeq
  <2>2. a + m + 1 \in Int /\ a + k \in Int
    BY <1>1
  <2>3. /\ r \in Seq(Unit)
        /\ Len(r) = IF a + m + 1 <= a + k THEN a + k - (a + m + 1) + 1 ELSE 0
        /\ \A i \in 1 .. a + k - (a + m + 1) + 1 : r[i] = p[a + m + 1 + i - 1]
    BY <2>1, <2>2, SubSeqProperties
  <2>4. \A i \in 1 .. k - m :
          i \in 1 .. a + k - (a + m + 1) + 1 /\ a + m + 1 + i - 1 = a + m + i
    BY <1>1
  <2> QED
    BY <1>1, <2>3, <2>4
<1> HIDE DEF l, r
<1>4. \A i \in 1 .. k - m : l[i] = r[i]
  <2> SUFFICES ASSUME NEW i \in 1 .. k - m PROVE l[i] = r[i]
    OBVIOUS
  <2>1. m + i \in 1 .. b - a /\ a + (m + i) = a + m + i
    BY <1>1
  <2> QED
    BY <1>1, <1>2, <1>3, <2>1
<1>5. l = r
  BY <1>2, <1>3, <1>4, SeqEqual
<1> QED
  BY <1>5 DEF l, r, q

-----------------------------------------------------------------------------
(* Frames. *)

\* Being genuine is about the plaintext only.
LEMMA GoodFrameStable == UNCHANGED plain => GoodFrame' = GoodFrame
BY DEF GoodFrame, Genuine, Off

\* A single frame, or one more at the end.
LEMMA OneMore ==
  ASSUME NEW S, NEW s \in Seq(S), NEW f \in S
  PROVE  /\ Append(s, f) \in Seq(S) /\ Len(Append(s, f)) = Len(s) + 1
         /\ <<f>> \in Seq(S) /\ Len(<<f>>) = 1
         /\ \A i \in 1 .. Len(s) + 1 :
              Append(s, f)[i] = IF i = Len(s) + 1 THEN f ELSE s[i]
<1>1. /\ Append(s, f) \in Seq(S) /\ Len(Append(s, f)) = Len(s) + 1
      /\ \A i \in 1 .. Len(s) : Append(s, f)[i] = s[i]
      /\ Append(s, f)[Len(s) + 1] = f
      /\ Len(s) \in Nat
  BY AppendProperties, LenProperties
<1>2. <<f>> \in Seq(S) /\ Len(<<f>>) = 1
  OBVIOUS
<1> QED
  BY <1>1, <1>2

\* A stretch of a sequence.
LEMMA Stretch ==
  ASSUME NEW S, NEW s \in Seq(S), NEW a \in 1 .. Len(s) + 1, NEW b \in 0 .. Len(s)
  PROVE  /\ SubSeq(s, a, b) \in Seq(S)
         /\ Len(SubSeq(s, a, b)) = IF a <= b THEN b - a + 1 ELSE 0
<1>1. Len(s) \in Nat /\ \A i \in a .. b : s[i] \in S
  BY ElementOfSeq, LenProperties
<1>2. a \in Int /\ b \in Int
  BY <1>1
<1> QED
  BY <1>1, <1>2, SubSeqProperties

-----------------------------------------------------------------------------
(* One lemma per action. *)

\* A piece of the caller keeps the invariant.
LEMMA FeedOK ==
  ASSUME IInv, NEW k \in 1 .. Len(plain), Feed(k)
  PROVE  IInv'
<1> USE DEF Feed, decoder
<1>1. plain \in Seq(Unit) /\ Len(plain) \in Nat /\ GoodFrame' = GoodFrame
  BY ChunkStreamAssumption, GoodFrameStable, LenProperties DEF IInv
<1>2. /\ counter \in 0 .. MaxCounter /\ counter \in Nat
      /\ fed \in 0 .. Len(plain) /\ fed + k \in fed .. Len(plain)
      /\ Off(counter) \in Nat /\ Off(counter) <= fed
      /\ pending = SubSeq(plain, Off(counter) + 1, fed)
  <2>1. counter \in Nat
    BY ChunkStreamAssumption DEF IInv, EncoderOK
  <2>2. Off(counter) \in Nat
    BY <2>1, OffFacts
  <2> QED
    BY <1>1, <2>1, <2>2 DEF IInv, EncoderOK
<1> HIDE DEF Feed
<1>3. /\ Off(counter) \in 0 .. Len(plain) /\ fed \in Off(counter) .. Len(plain)
      /\ fed + k \in Off(counter) .. Len(plain)
  BY <1>1, <1>2
<1>4. pending' = SubSeq(plain, Off(counter) + 1, fed + k)
  <2>1. pending' = pending \o SubSeq(plain, fed + 1, fed + k)
    BY DEF Feed
  <2> QED
    BY <1>1, <1>2, <1>3, <2>1, Join
<1>5. pending' \in Seq(Unit)
  BY <1>1, <1>3, <1>4, Piece
<1>6. EncoderOK'
  <2>1. /\ plain' = plain /\ counter' = counter /\ fed' = fed + k
        /\ phase = "encode" /\ phase' = "encode"
    BY DEF Feed
  <2>2. fed' \in 0 .. Len(plain) /\ Off(counter) <= fed'
    BY <1>1, <1>2, <2>1
  <2> QED
    BY <1>2, <1>4, <1>5, <2>1, <2>2 DEF EncoderOK
<1> USE DEF Feed
<1>7. FileOK'
  BY <1>1 DEF IInv, FileOK
<1>8. NoncesOK'
  BY DEF IInv, NoncesOK
<1>9. DecoderOK'
  BY <1>1 DEF IInv, DecoderOK
<1> QED
  BY <1>6, <1>7, <1>8, <1>9 DEF IInv

\* What a sealed frame must satisfy to go into the file.
LEMMA PutFrameOK ==
  ASSUME IInv, NEW c \in Nat, NEW fin \in BOOLEAN, NEW b \in Seq(Unit),
         Genuine(Sealed(c, fin, b)), PutFrame(Sealed(c, fin, b)),
         UNCHANGED <<plain, read, taken>>, phase = "encode", hits' \in Nat
  PROVE  /\ FileOK'
         /\ Len(wire') = Len(wire) + 1
         /\ \A i \in 1 .. Len(wire) + 1 :
              wire'[i] = IF i = Len(wire) + 1 THEN Sealed(c, fin, b) ELSE wire[i]
<1>1. Sealed(c, fin, b) \in GoodFrame
  BY DEF GoodFrame, Frame, Sealed
<1>2. wire \in Seq(GoodFrame) /\ Len(wire) \in Nat /\ size \in 0 .. FrameCells * Len(wire)
  BY LenProperties DEF IInv, FileOK
<1>3. wire' = Append(wire, Sealed(c, fin, b)) /\ size' = size + FrameCells
  BY DEF PutFrame
<1>4. /\ wire' \in Seq(GoodFrame) /\ Len(wire') = Len(wire) + 1
      /\ \A i \in 1 .. Len(wire) + 1 :
              wire'[i] = IF i = Len(wire) + 1 THEN Sealed(c, fin, b) ELSE wire[i]
  BY <1>1, <1>2, <1>3, OneMore
<1>5. GoodFrame' = GoodFrame
  BY GoodFrameStable
<1>6. size' \in 0 .. FrameCells * Len(wire')
  BY <1>2, <1>3, <1>4 DEF FrameCells
<1>7. FileOK'
  BY <1>2, <1>4, <1>5, <1>6 DEF IInv, FileOK
<1> QED
  BY <1>4, <1>7

\* Sealing a full chunk keeps the invariant, also when the counter runs out.
LEMMA SealBlockOK == ASSUME IInv, SealBlock PROVE IInv'
<1> DEFINE a == Off(counter)
           block == SubSeq(pending, 1, ChunkSize)
<1>1. plain \in Seq(Unit) /\ Len(plain) \in Nat /\ GoodFrame' = GoodFrame
  BY ChunkStreamAssumption, GoodFrameStable, LenProperties DEF IInv, SealBlock
<1>2. /\ counter \in Nat /\ counter \in 0 .. MaxCounter /\ fed \in 0 .. Len(plain)
      /\ a \in 0 .. Len(plain) /\ a <= fed /\ fed \in a .. Len(plain)
      /\ pending = SubSeq(plain, a + 1, fed)
  <2>1. /\ counter \in 0 .. MaxCounter /\ counter \in Nat /\ fed \in 0 .. Len(plain)
        /\ a <= fed /\ pending = SubSeq(plain, a + 1, fed)
    BY ChunkStreamAssumption DEF IInv, EncoderOK, SealBlock
  <2>2. a \in Nat
    BY <2>1, OffFacts
  <2> HIDE DEF a
  <2> QED
    BY <1>1, <2>1, <2>2
<1>3. Len(pending) = fed - a /\ ChunkSize \in Nat /\ ChunkSize < fed - a
  BY <1>1, <1>2, Piece, ChunkStreamAssumption DEF SealBlock
<1>4. Off(counter + 1) = a + ChunkSize /\ a \in Nat
  BY <1>2, OffFacts
<1> HIDE DEF a
<1>5. block = SubSeq(plain, a + 1, a + ChunkSize)
  <2>1. 0 \in 0 .. fed - a /\ ChunkSize \in 0 .. fed - a
    BY <1>2, <1>3, <1>4
  <2>2. SubSeq(SubSeq(plain, a + 1, fed), 0 + 1, ChunkSize)
          = SubSeq(plain, a + 0 + 1, a + ChunkSize)
    BY <1>1, <1>2, <2>1, SubPiece
  <2>3. 0 + 1 = 1 /\ a + 0 + 1 = a + 1
    BY <1>4
  <2> QED
    BY <1>2, <2>2, <2>3
<1>6. SubSeq(pending, ChunkSize + 1, Len(pending))
        = SubSeq(plain, a + ChunkSize + 1, fed)
  <2>1. ChunkSize \in 0 .. fed - a /\ fed - a \in ChunkSize .. fed - a
    BY <1>2, <1>3, <1>4
  <2>2. SubSeq(SubSeq(plain, a + 1, fed), ChunkSize + 1, fed - a)
          = SubSeq(plain, a + ChunkSize + 1, a + (fed - a))
    BY <1>1, <1>2, <2>1, SubPiece
  <2>3. a + (fed - a) = fed
    BY <1>2, <1>4
  <2> QED
    BY <1>2, <1>3, <2>2, <2>3
<1>7. a + ChunkSize \in a .. Len(plain) /\ fed \in a + ChunkSize .. Len(plain)
      /\ a + ChunkSize \in 0 .. Len(plain)
  BY <1>1, <1>2, <1>3, <1>4
<1>8. block \in Seq(Unit)
  BY <1>1, <1>2, <1>5, <1>7, Piece
<1> HIDE DEF block
<1>9. Genuine(Sealed(counter, FALSE, block))
  <2>1. Off(counter + 1) = a + ChunkSize /\ Off(counter) = a
    BY <1>4 DEF a
  <2> QED
    BY <1>1, <1>4, <1>5, <1>7, <2>1 DEF Genuine, Sealed
<1>10. /\ FileOK' /\ Len(wire') = Len(wire) + 1
       /\ \A i \in 1 .. Len(wire) + 1 :
            wire'[i] = IF i = Len(wire) + 1 THEN Sealed(counter, FALSE, block) ELSE wire[i]
  <2>1. /\ PutFrame(Sealed(counter, FALSE, block)) /\ phase = "encode"
        /\ UNCHANGED <<plain, read, taken>>
    BY DEF SealBlock, decoder, block
  <2>2. hits \in Nat /\ (hits' = hits \/ hits' = hits + 1)
    BY DEF SealBlock, IInv, FileOK
  <2>3. hits' \in Nat
    BY <2>2
  <2> QED
    BY <1>2, <1>8, <1>9, <2>1, <2>3, PutFrameOK
<1>11. pending' = SubSeq(plain, a + ChunkSize + 1, fed) /\ pending' \in Seq(Unit)
  BY <1>1, <1>6, <1>7, Piece DEF SealBlock
<1>12. EncoderOK'
  <2>1. CASE counter < MaxCounter
    <3>1. counter' = counter + 1 /\ UNCHANGED <<plain, fed, phase>>
          /\ counter' \in 0 .. MaxCounter
      BY <1>2, <2>1, ChunkStreamAssumption DEF SealBlock
    <3>2. Off(counter') = a + ChunkSize /\ a + ChunkSize <= fed' /\ fed' \in 0 .. Len(plain)
      BY <1>2, <1>4, <1>7, <3>1
    <3> QED
      BY <1>11, <3>1, <3>2 DEF EncoderOK, SealBlock
  <2>2. CASE ~(counter < MaxCounter)
    BY <1>2, <1>11, <2>2 DEF EncoderOK, SealBlock
  <2> QED
    BY <2>1, <2>2
<1>13. NoncesOK'
  <2>1. /\ Len(wire) = counter /\ hits = 0
        /\ \A i \in 1 .. Len(wire) : wire[i].ctr = i - 1
    BY DEF IInv, NoncesOK, SealBlock
  <2>2. \A i \in 1 .. Len(wire') : wire'[i].ctr = i - 1
    <3> SUFFICES ASSUME NEW i \in 1 .. Len(wire') PROVE wire'[i].ctr = i - 1
      OBVIOUS
    <3>1. i \in 1 .. Len(wire) + 1 /\ Len(wire) \in Nat /\ counter = Len(wire)
      BY <1>2, <1>10, <2>1
    <3>2. CASE i = Len(wire) + 1
      <4>1. wire'[i] = Sealed(counter, FALSE, block)
        BY <1>10, <3>1, <3>2
      <4>2. wire'[i].ctr = counter
        BY <4>1 DEF Sealed
      <4> QED
        BY <3>1, <3>2, <4>2
    <3>3. CASE i # Len(wire) + 1
      <4>1. i \in 1 .. Len(wire)
        BY <3>1, <3>3
      <4>2. wire'[i] = wire[i]
        BY <1>10, <3>1, <3>3
      <4>3. wire[i].ctr = i - 1
        BY <2>1, <4>1
      <4> QED
        BY <4>2, <4>3
    <3> QED
      BY <3>2, <3>3
  <2>3. phase' = "encode" => Len(wire') = counter' /\ hits' = 0
    BY <1>10, <2>1 DEF SealBlock
  <2> QED
    BY <2>2, <2>3 DEF NoncesOK
<1>14. DecoderOK'
  BY <1>1 DEF IInv, DecoderOK, SealBlock, decoder
<1> QED
  BY <1>10, <1>12, <1>13, <1>14 DEF IInv, SealBlock

\* Sealing the remainder keeps the invariant.
LEMMA SealFinalOK == ASSUME IInv, SealFinal PROVE IInv'
<1> USE DEF SealFinal, decoder
<1>1. plain \in Seq(Unit) /\ Len(plain) \in Nat /\ GoodFrame' = GoodFrame
  BY ChunkStreamAssumption, GoodFrameStable, LenProperties DEF IInv
<1>2. /\ counter \in Nat /\ fed = Len(plain) /\ Off(counter) <= fed
      /\ pending \in Seq(Unit)
      /\ pending = SubSeq(plain, Off(counter) + 1, fed)
  BY DEF IInv, EncoderOK
<1>3. Genuine(Sealed(counter, TRUE, pending))
  BY <1>2 DEF Genuine, Sealed
<1>4. /\ FileOK' /\ Len(wire') = Len(wire) + 1
      /\ \A i \in 1 .. Len(wire) + 1 :
           wire'[i] = IF i = Len(wire) + 1 THEN Sealed(counter, TRUE, pending) ELSE wire[i]
  <2>1. UNCHANGED <<plain, read, taken>> /\ hits' \in Nat
    BY DEF IInv, FileOK
  <2> QED
    BY <1>2, <1>3, <2>1, PutFrameOK
<1>5. EncoderOK'
  BY <1>1, <1>2 DEF IInv, EncoderOK
<1>6. NoncesOK'
  <2>1. Len(wire) = counter /\ \A i \in 1 .. Len(wire) : wire[i].ctr = i - 1
    BY DEF IInv, NoncesOK
  <2>2. \A i \in 1 .. Len(wire') : wire'[i].ctr = i - 1
    <3> SUFFICES ASSUME NEW i \in 1 .. Len(wire) + 1 PROVE wire'[i].ctr = i - 1
      BY <1>4
    <3>1. Len(wire) \in Nat
      BY DEF IInv, FileOK
    <3>2. CASE i = Len(wire) + 1
      BY <1>4, <2>1, <3>1, <3>2 DEF Sealed
    <3>3. CASE i # Len(wire) + 1
      <4>1. i \in 1 .. Len(wire)
        BY <3>1, <3>3
      <4> QED BY <1>4, <2>1, <3>3, <4>1
    <3> QED BY <3>2, <3>3
  <2> QED
    BY <2>2 DEF NoncesOK
<1>7. DecoderOK'
  BY <1>1 DEF IInv, DecoderOK
<1> QED
  BY <1>4, <1>5, <1>6, <1>7 DEF IInv

\* Interrupting the encryption keeps the invariant.
LEMMA InterruptedOK ==
  ASSUME IInv, NEW cells \in 0 .. size, Interrupted(cells)
  PROVE  IInv'
<1> USE DEF Interrupted, encoder, decoder
<1>1. GoodFrame' = GoodFrame
  BY GoodFrameStable
<1>2. FileOK'
  <2>1. Len(wire) \in Nat
    BY LenProperties DEF IInv, FileOK
  <2> QED
    BY <1>1, <2>1 DEF IInv, FileOK, FrameCells
<1>3. EncoderOK' /\ NoncesOK' /\ DecoderOK'
  BY <1>1 DEF IInv, FileOK, EncoderOK, NoncesOK, DecoderOK
<1> QED
  BY <1>2, <1>3 DEF IInv

\* Damage of any kind that leaves frames which open only if they are genuine.
LEMMA DamageOK ==
  ASSUME IInv, NEW frames \in Seq(GoodFrame),
         NEW cells \in 0 .. FrameCells * Len(frames), Damage(frames, cells)
  PROVE  IInv'
<1> USE DEF Damage, encoder, decoder
<1>1. GoodFrame' = GoodFrame
  BY GoodFrameStable
<1>2. FileOK'
  <2>1. read = 0 /\ taken = 0 /\ hits \in Nat /\ Len(frames) \in Nat
    BY LenProperties DEF IInv, FileOK
  <2>2. wire' = frames /\ size' = cells /\ read' = 0 /\ taken' = 0
        /\ hits' \in Nat /\ phase' = phase
    BY <2>1
  <2>3. cells \in Nat
    BY <2>1 DEF FrameCells
  <2>4. read' \in 0 .. size' /\ taken' \in 0 .. Len(wire')
    BY <2>1, <2>2, <2>3
  <2> QED
    BY <1>1, <2>2, <2>4 DEF FileOK
<1>3. EncoderOK'
  BY DEF IInv, EncoderOK
<1>4. NoncesOK'
  BY DEF IInv, FileOK, NoncesOK
<1>5. DecoderOK'
  BY <1>1 DEF IInv, DecoderOK
<1> QED
  BY <1>2, <1>3, <1>4, <1>5 DEF IInv

\* Damage moves, drops or marks frames: the good ones stay genuine.
LEMMA AnyDamageOK == ASSUME IInv, AnyDamage PROVE IInv'
<1> DEFINE n == Len(wire)
<1>1. /\ wire \in Seq(GoodFrame) /\ n \in Nat /\ size \in 0 .. FrameCells * n
      /\ \A i \in 1 .. n : wire[i] \in GoodFrame
  BY LenProperties, ElementOfSeq DEF IInv, FileOK
<1>2. ASSUME NEW i \in 1 .. n, Lose(i) PROVE IInv'
  <2> DEFINE l == SubSeq(wire, 1, i - 1)
             r == SubSeq(wire, i + 1, n)
  <2>1. l \in Seq(GoodFrame) /\ Len(l) = i - 1
    <3>1. 1 \in 1 .. n + 1 /\ i - 1 \in 0 .. n
      BY <1>1
    <3> QED
      BY <1>1, <3>1, Stretch
  <2>2. r \in Seq(GoodFrame) /\ Len(r) = n - i
    <3>1. i + 1 \in 1 .. n + 1 /\ n \in 0 .. n
      BY <1>1
    <3> QED
      BY <1>1, <3>1, Stretch
  <2> HIDE DEF l, r
  <2>3. l \o r \in Seq(GoodFrame) /\ Len(l \o r) = n - 1
    BY <1>1, <2>1, <2>2, ConcatProperties
  <2>4. Damage(l \o r, size - FrameCells) /\ size = FrameCells * n
    BY <1>2 DEF Lose, Ends, l, r, n
  <2>5. size - FrameCells \in 0 .. FrameCells * Len(l \o r)
    BY <1>1, <2>3, <2>4 DEF FrameCells
  <2> QED
    BY <2>3, <2>4, <2>5, DamageOK
<1>3. ASSUME NEW i \in 1 .. n, NEW j \in 0 .. n, Repeat(i, j) PROVE IInv'
  <2> DEFINE l == SubSeq(wire, 1, j)
             m == <<wire[i]>>
             r == SubSeq(wire, j + 1, n)
  <2>1. l \in Seq(GoodFrame) /\ Len(l) = j
    <3>1. 1 \in 1 .. n + 1
      BY <1>1
    <3> QED
      BY <1>1, <3>1, Stretch
  <2>2. r \in Seq(GoodFrame) /\ Len(r) = n - j
    <3>1. j + 1 \in 1 .. n + 1 /\ n \in 0 .. n
      BY <1>1
    <3> QED
      BY <1>1, <3>1, Stretch
  <2>3. m \in Seq(GoodFrame) /\ Len(m) = 1
    BY <1>1
  <2> HIDE DEF l, m, r
  <2>4. l \o m \in Seq(GoodFrame) /\ Len(l \o m) = j + 1
    <3>1. l \o m \in Seq(GoodFrame) /\ Len(l \o m) = Len(l) + Len(m)
      BY <2>1, <2>3, ConcatProperties
    <3> QED
      BY <2>1, <2>3, <3>1
  <2>5. l \o m \o r \in Seq(GoodFrame) /\ Len(l \o m \o r) = n + 1
    <3>1. l \o m \o r \in Seq(GoodFrame) /\ Len(l \o m \o r) = Len(l \o m) + Len(r)
      BY <2>2, <2>4, ConcatProperties
    <3>2. (j + 1) + (n - j) = n + 1
      BY <1>1
    <3> QED
      BY <2>2, <2>4, <3>1, <3>2
  <2>6. Damage(l \o m \o r, size + FrameCells) /\ size = FrameCells * n
    BY <1>3 DEF Repeat, Ends, l, m, r, n
  <2>7. size + FrameCells \in 0 .. FrameCells * Len(l \o m \o r)
    BY <1>1, <2>5, <2>6 DEF FrameCells
  <2> QED
    BY <2>5, <2>6, <2>7, DamageOK
<1>4. ASSUME NEW i \in 1 .. n, NEW j \in 1 .. n, Exchange(i, j) PROVE IInv'
  <2> DEFINE s == [wire EXCEPT ![i] = wire[j]]
             t == [s EXCEPT ![j] = wire[i]]
  <2>1. s \in Seq(GoodFrame) /\ Len(s) = n
    BY <1>1, ExceptSeq
  <2>2. Damage(t, size)
    BY <1>4 DEF Exchange
  <2> HIDE DEF s
  <2>3. t \in Seq(GoodFrame) /\ Len(t) = n
    BY <1>1, <2>1, ExceptSeq
  <2> HIDE DEF t
  <2>4. size \in 0 .. FrameCells * Len(t)
    BY <1>1, <2>3
  <2> QED
    BY <2>2, <2>3, <2>4, DamageOK
<1>5. ASSUME NEW i \in 1 .. n, NEW mark \in {"length", "body"}, Spoil(i, mark) PROVE IInv'
  <2> DEFINE f == [wire[i] EXCEPT !.mark = mark]
             s == [wire EXCEPT ![i] = f]
  <2>1. f \in GoodFrame
    BY <1>1 DEF GoodFrame, Frame
  <2>2. Damage(s, size)
    BY <1>5 DEF Spoil
  <2> HIDE DEF f
  <2>3. s \in Seq(GoodFrame) /\ Len(s) = n
    BY <1>1, <2>1, ExceptSeq
  <2> HIDE DEF s
  <2>4. size \in 0 .. FrameCells * Len(s)
    BY <1>1, <2>3
  <2> QED
    BY <2>2, <2>3, <2>4, DamageOK
<1>6. CASE Extend
  <2> DEFINE f == [Sealed(0, TRUE, <<>>) EXCEPT !.mark = "body"]
             s == Append(wire, f)
  <2>1. f \in GoodFrame
    <3>1. <<>> \in Seq(Unit)
      BY EmptySeq
    <3> QED
      BY <3>1 DEF GoodFrame, Frame, Sealed
  <2>2. Damage(s, size + FrameCells) /\ size = FrameCells * n
    BY <1>6 DEF Extend, Ends
  <2> HIDE DEF f
  <2>3. s \in Seq(GoodFrame) /\ Len(s) = n + 1
    BY <1>1, <2>1, OneMore
  <2> HIDE DEF s
  <2>4. size + FrameCells \in 0 .. FrameCells * Len(s)
    BY <1>1, <2>2, <2>3 DEF FrameCells
  <2> QED
    BY <2>2, <2>3, <2>4, DamageOK
<1>7. ASSUME NEW cells \in 0 .. size - 1, Cut(cells) PROVE IInv'
  <2>1. cells \in 0 .. FrameCells * n /\ Damage(wire, cells)
    BY <1>1, <1>7 DEF Cut, FrameCells
  <2> QED
    BY <1>1, <2>1, DamageOK
<1> QED
  BY <1>2, <1>3, <1>4, <1>5, <1>6, <1>7 DEF AnyDamage

\* Starting the decoder keeps the invariant.
LEMMA StartDecodeOK == ASSUME IInv, StartDecode PROVE IInv'
<1> USE DEF StartDecode, encoder, decoder
<1>1. GoodFrame' = GoodFrame
  BY GoodFrameStable
<1> QED
  BY <1>1 DEF IInv, EncoderOK, FileOK, NoncesOK, DecoderOK

-----------------------------------------------------------------------------
(* The decoder. *)

\* A step of the decoder leaves everything but the decoder alone.
LEMMA DecodeFrame ==
  ASSUME IInv, UNCHANGED <<plain, phase, encoder, wire, size, hits>>,
         phase = "decode", read' \in 0 .. size, taken' \in 0 .. Len(wire), DecoderOK'
  PROVE  IInv'
<1>1. GoodFrame' = GoodFrame
  BY GoodFrameStable
<1> QED
  BY <1>1 DEF IInv, EncoderOK, FileOK, NoncesOK, encoder

\* Releasing the chunk held back continues the plaintext where it stopped.
LEMMA ReleaseOK ==
  ASSUME IInv, dpc \in {"length", "body"}, prev # <<>>, NEW fin \in BOOLEAN,
         Authentic(prev[1], opened, fin)
  PROVE  LET end == IF fin THEN Len(plain) ELSE Off(opened + 1) IN
           /\ end \in 0 .. Len(plain)
           /\ out \o prev[1].data = SubSeq(plain, 1, end)
           /\ out \o prev[1].data \in Seq(Unit)
<1> DEFINE end == IF fin THEN Len(plain) ELSE Off(opened + 1)
           a == Off(opened)
<1>1. plain \in Seq(Unit) /\ Len(plain) \in Nat
  BY ChunkStreamAssumption, LenProperties DEF IInv
<1>2. prev[1] \in GoodFrame
  BY LenProperties, ElementOfSeq, EmptySeq DEF IInv, DecoderOK
<1>3. opened \in Nat
  BY ChunkStreamAssumption DEF IInv, DecoderOK
<1>4. /\ a \in Nat /\ a <= Len(plain) /\ Off(opened + 1) = a + ChunkSize
      /\ ChunkSize \in Nat /\ out = SubSeq(plain, 1, a)
  BY <1>3, OffFacts, ChunkStreamAssumption DEF IInv, DecoderOK
<1>5. /\ end \in a .. Len(plain) /\ prev[1].data = SubSeq(plain, a + 1, end)
  <2>1. prev[1].ctr = opened /\ prev[1].final = fin /\ Genuine(prev[1])
    BY <1>2 DEF Authentic, GoodFrame
  <2>2. CASE fin
    BY <1>1, <1>4, <2>1, <2>2 DEF Genuine
  <2>3. CASE ~fin
    BY <1>1, <1>4, <2>1, <2>3 DEF Genuine
  <2> QED
    BY <2>2, <2>3
<1> HIDE DEF a, end
<1>6. 0 \in 0 .. Len(plain) /\ a \in 0 .. Len(plain) /\ end \in 0 .. Len(plain)
      /\ 0 + 1 = 1
  BY <1>1, <1>4, <1>5
<1>7. SubSeq(plain, 0 + 1, a) \o SubSeq(plain, a + 1, end) = SubSeq(plain, 0 + 1, end)
  BY <1>1, <1>5, <1>6, Join
<1>8. SubSeq(plain, 0 + 1, end) \in Seq(Unit)
  BY <1>1, <1>6, Piece
<1> QED
  BY <1>4, <1>5, <1>6, <1>7, <1>8 DEF end

\* The steps that neither take nor release a frame.
LEMMA ReadingOK ==
  ASSUME IInv, \/ \E k \in 1 .. size : Refill(k)
               \/ EndsInside
               \/ ReadLength
  PROVE  IInv'
<1>1. GoodFrame' = GoodFrame
  BY GoodFrameStable DEF Refill, EndsInside, ReadLength
<1>2. size \in Nat /\ read \in 0 .. size /\ taken \in 0 .. Len(wire)
  BY LenProperties DEF IInv, FileOK, FrameCells
<1>3. ASSUME NEW k \in 1 .. size, Refill(k) PROVE IInv'
  <2>1. read' \in 0 .. size /\ taken' \in 0 .. Len(wire)
    BY <1>2, <1>3 DEF Refill
  <2>2. DecoderOK'
    BY <1>1, <1>3 DEF Refill, IInv, DecoderOK
  <2> QED
    BY <1>3, <2>1, <2>2, DecodeFrame DEF Refill, Reading
<1>4. CASE EndsInside
  <2>1. DecoderOK'
    BY <1>1, <1>4 DEF EndsInside, Reading, IInv, DecoderOK
  <2> QED
    BY <1>2, <1>4, <2>1, DecodeFrame DEF EndsInside, Reading
<1>5. CASE ReadLength
  <2>1. DecoderOK'
    BY <1>1, <1>5 DEF ReadLength, Reading, IInv, DecoderOK
  <2> QED
    BY <1>2, <1>5, <2>1, DecodeFrame DEF ReadLength, Reading
<1> QED
  BY <1>3, <1>4, <1>5

\* A file that ends after a frame: the held frame is released only as the last one.
LEMMA EndsBetweenOK == ASSUME IInv, EndsBetween PROVE IInv'
<1>1. GoodFrame' = GoodFrame
  BY GoodFrameStable DEF EndsBetween
<1>2. read \in 0 .. size /\ taken \in 0 .. Len(wire)
  BY DEF IInv, FileOK
<1>3. DecoderOK'
  <2>1. CASE prev # <<>> /\ Authentic(prev[1], opened, TRUE)
    <3>1. out \o prev[1].data = SubSeq(plain, 1, Len(plain))
          /\ out \o prev[1].data \in Seq(Unit)
      BY <2>1, ReleaseOK DEF EndsBetween, Reading
    <3>2. SubSeq(plain, 1, Len(plain)) = plain
      BY ChunkStreamAssumption, SubSeqFull DEF IInv
    <3>3. out' = out \o prev[1].data /\ dpc' = "done"
          /\ UNCHANGED <<plain, prev, opened>>
      BY <2>1 DEF EndsBetween
    <3> QED
      BY <1>1, <3>1, <3>2, <3>3 DEF IInv, DecoderOK
  <2>2. CASE ~(prev # <<>> /\ Authentic(prev[1], opened, TRUE))
    BY <1>1, <2>2 DEF EndsBetween, Reading, IInv, DecoderOK
  <2> QED
    BY <2>1, <2>2
<1> QED
  BY <1>2, <1>3, DecodeFrame DEF EndsBetween, Reading

\* A frame that another follows: what is released grows by the next chunk.
LEMMA TakeFrameOK == ASSUME IInv, TakeFrame PROVE IInv'
<1>1. GoodFrame' = GoodFrame
  BY GoodFrameStable DEF TakeFrame
<1>2. read \in 0 .. size /\ taken' \in 0 .. Len(wire) /\ taken + 1 \in 1 .. Len(wire)
  <2>1. /\ Len(wire) \in Nat /\ size \in 0 .. FrameCells * Len(wire)
        /\ read \in 0 .. size /\ taken \in 0 .. Len(wire)
    BY LenProperties DEF IInv, FileOK
  <2>2. read - FrameCells * taken >= FrameCells /\ taken' = taken + 1
    BY DEF TakeFrame, Buffered
  <2> QED
    BY <2>1, <2>2 DEF FrameCells
<1>3. Incoming \in GoodFrame
  BY <1>2, ElementOfSeq DEF IInv, FileOK, Incoming
<1>4. <<Incoming>> \in Seq(GoodFrame) /\ Len(<<Incoming>>) = 1
  BY <1>3
<1>5. DecoderOK'
  <2>1. CASE prev = <<>>
    <3>1. prev' = <<Incoming>> /\ dpc' = "length" /\ UNCHANGED <<plain, opened, out>>
      BY <2>1 DEF TakeFrame
    <3> QED
      BY <1>1, <1>4, <3>1 DEF TakeFrame, Reading, IInv, DecoderOK
  <2>2. CASE prev # <<>> /\ ~Authentic(prev[1], opened, FALSE)
    BY <1>1, <2>2 DEF TakeFrame, Reading, IInv, DecoderOK
  <2>3. CASE prev # <<>> /\ Authentic(prev[1], opened, FALSE)
    <3>1. /\ Off(opened + 1) \in 0 .. Len(plain)
          /\ out \o prev[1].data = SubSeq(plain, 1, Off(opened + 1))
          /\ out \o prev[1].data \in Seq(Unit)
      BY <2>3, ReleaseOK DEF TakeFrame, Reading
    <3>2. out' = out \o prev[1].data /\ plain' = plain
      BY <2>3 DEF TakeFrame
    <3>3. opened \in 0 .. MaxCounter /\ MaxCounter \in Nat
      BY ChunkStreamAssumption DEF IInv, DecoderOK
    <3>4. CASE opened < MaxCounter
      <4>1. opened' = opened + 1 /\ prev' = <<Incoming>> /\ dpc' = "length"
        BY <2>3, <3>4 DEF TakeFrame
      <4>2. opened' \in 0 .. MaxCounter
        BY <3>3, <3>4, <4>1
      <4> QED
        BY <1>1, <1>4, <3>1, <3>2, <4>1, <4>2 DEF DecoderOK
    <3>5. CASE ~(opened < MaxCounter)
      <4>1. dpc' = "overflow" /\ UNCHANGED <<opened, prev>>
        BY <2>3, <3>5 DEF TakeFrame
      <4> QED
        BY <1>1, <3>1, <3>2, <4>1 DEF IInv, DecoderOK
    <3> QED
      BY <3>4, <3>5
  <2> QED
    BY <2>1, <2>2, <2>3
<1> QED
  BY <1>2, <1>5, DecodeFrame DEF TakeFrame, Reading

-----------------------------------------------------------------------------
\* The initial states satisfy the invariant.
LEMMA InitOK == Init => IInv
<1> SUFFICES ASSUME Init PROVE IInv
  OBVIOUS
<1> USE DEF Init
<1>1. plain \in Seq(Unit) /\ Len(plain) \in Nat /\ MaxCounter \in Nat /\ Off(0) = 0
  BY ChunkStreamAssumption, LenProperties, OffFacts
<1>2. SubSeq(plain, 0 + 1, 0) = <<>> /\ SubSeq(plain, 1, 0) = <<>> /\ 0 + 1 = 1
  BY SubSeqEmpty
<1>3. <<>> \in Seq(Unit) /\ <<>> \in Seq(GoodFrame) /\ Len(<<>>) = 0
  BY EmptySeq
<1>4. EncoderOK
  BY <1>1, <1>2, <1>3 DEF EncoderOK
<1>5. FileOK
  BY <1>3 DEF FileOK, FrameCells
<1>6. NoncesOK
  BY <1>3 DEF NoncesOK
<1>7. DecoderOK
  BY <1>1, <1>2, <1>3 DEF DecoderOK
<1> QED
  BY <1>4, <1>5, <1>6, <1>7 DEF IInv

\* Every step keeps the invariant.
LEMMA StepOK == IInv /\ [Next]_vars => IInv'
<1> SUFFICES ASSUME IInv, [Next]_vars PROVE IInv'
  OBVIOUS
<1>1. CASE Encode
  BY <1>1, FeedOK, SealBlockOK, SealFinalOK DEF Encode
<1>2. ASSUME NEW cells \in 0 .. size, Interrupted(cells) PROVE IInv'
  BY <1>2, InterruptedOK
<1>3. CASE AnyDamage
  BY <1>3, AnyDamageOK
<1>4. CASE StartDecode
  BY <1>4, StartDecodeOK
<1>5. CASE Decode
  BY <1>5, ReadingOK, EndsBetweenOK, TakeFrameOK DEF Decode
<1>6. CASE UNCHANGED vars
  <2>1. GoodFrame' = GoodFrame
    BY <1>6, GoodFrameStable DEF vars
  <2> QED
    BY <1>6, <2>1 DEF vars, encoder, decoder, IInv, EncoderOK, FileOK, NoncesOK, DecoderOK
<1> QED
  BY <1>1, <1>2, <1>3, <1>4, <1>5, <1>6 DEF Next

\* The inductive invariant holds throughout every behaviour.
LEMMA Invariance == Spec => []IInv
BY InitOK, StepOK, PTL DEF Spec

\* Every variable keeps its type: in particular neither counter ever passes
\* _MAX_COUNTER, and the decoder never looks beyond the file (stream.py 106-152).
THEOREM TypeCorrect == Spec => []TypeOK
<1>1. IInv => TypeOK
  <2> SUFFICES ASSUME IInv PROVE TypeOK
    OBVIOUS
  <2>1. \A S : S \subseteq Frame => Seq(S) \subseteq Seq(Frame)
    BY SeqMonotonic
  <2>2. GoodFrame \subseteq Frame
    BY DEF GoodFrame
  <2>3. wire \in Seq(Frame) /\ prev \in Seq(Frame)
    BY <2>1, <2>2 DEF IInv, FileOK, DecoderOK
  <2> QED
    BY <2>3 DEF IInv, EncoderOK, FileOK, DecoderOK, TypeOK
<1> QED
  BY <1>1, Invariance, PTL

\* No nonce is used twice under one key, whatever the chunk size, the length of
\* the plaintext and the way the caller batches it (stream.py 9-10).
THEOREM NoncesStayFresh == Spec => []NonceFresh
<1>1. IInv => NonceFresh
  <2> SUFFICES ASSUME IInv, phase = "encode" \/ hits = 0,
                      NEW i \in 1 .. Len(wire), NEW j \in 1 .. Len(wire), i # j
               PROVE  <<wire[i].ctr, wire[i].final>> # <<wire[j].ctr, wire[j].final>>
    BY DEF NonceFresh
  <2>1. wire[i].ctr = i - 1 /\ wire[j].ctr = j - 1
    BY DEF IInv, NoncesOK
  <2>2. wire[i].ctr # wire[j].ctr
    BY <2>1
  <2> QED
    BY <2>2
<1> QED
  BY <1>1, Invariance, PTL

\* Whatever was lost, repeated, exchanged, damaged or added, what the decoder
\* releases is a beginning of what was encrypted (stream.py 82-83).
THEOREM OnlyPrefixesReleased == Spec => []ReleasedIsPrefix
<1>1. IInv => ReleasedIsPrefix
  <2> SUFFICES ASSUME IInv PROVE ReleasedIsPrefix
    OBVIOUS
  <2>1. plain \in Seq(Unit) /\ Len(plain) \in Nat
    BY ChunkStreamAssumption, LenProperties DEF IInv
  <2>2. \E m \in 0 .. Len(plain) : out = SubSeq(plain, 1, m)
    <3>1. CASE dpc = "done"
      <4>1. out = plain /\ Len(plain) \in 0 .. Len(plain)
        BY <2>1, <3>1 DEF IInv, DecoderOK
      <4>2. SubSeq(plain, 1, Len(plain)) = plain
        BY <2>1, SubSeqFull
      <4> QED
        BY <4>1, <4>2
    <3>2. CASE dpc = "overflow"
      BY <3>2 DEF IInv, DecoderOK
    <3>3. CASE dpc \in {"length", "body", "failed"}
      <4>1. opened \in Nat /\ Off(opened) <= Len(plain)
            /\ out = SubSeq(plain, 1, Off(opened))
        BY <3>3, ChunkStreamAssumption DEF IInv, DecoderOK
      <4>2. Off(opened) \in 0 .. Len(plain)
        BY <2>1, <4>1, OffFacts
      <4> QED
        BY <4>1, <4>2
    <3> QED
      BY <3>1, <3>2, <3>3 DEF IInv, DecoderOK
  <2>3. PICK m \in 0 .. Len(plain) : out = SubSeq(plain, 1, m)
    BY <2>2
  <2>4. Len(out) = m
    <3>1. 0 \in 0 .. Len(plain) /\ m \in 0 .. Len(plain) /\ 0 + 1 = 1 /\ m - 0 = m
      BY <2>1
    <3>2. Len(SubSeq(plain, 0 + 1, m)) = m - 0
      BY <2>1, <3>1, Piece
    <3> QED
      BY <2>3, <3>1, <3>2
  <2> QED
    BY <2>1, <2>3, <2>4 DEF ReleasedIsPrefix
<1> QED
  BY <1>1, Invariance, PTL

\* A stream that decrypts to its end gives the whole plaintext: a shortened or
\* extended file is never accepted (stream.py 82-83, 98-99).
THEOREM DoneIsWhole == Spec => []DoneMeansWhole
<1>1. IInv => DoneMeansWhole
  BY DEF IInv, DecoderOK, DoneMeansWhole
<1> QED
  BY <1>1, Invariance, PTL
-----------------------------------------------------------------------------
(* A stream nobody touched. *)

\* Each chunk but the first begins before the end of the plaintext, the ones
\* before the final one end before it too, and the final one reaches it.
Framed ==
  /\ phase = "encode" => counter = 0 \/ Off(counter) < Len(plain)
  /\ hits = 0 =>
       /\ size = FrameCells * Len(wire)
       /\ \A i \in 1 .. Len(wire) :
            /\ wire[i].mark = "ok"
            /\ wire[i].final = (phase # "encode" /\ i = Len(wire))
            /\ ~wire[i].final => Off(i) < Len(plain)
       /\ phase # "encode" => Len(wire) \in 1 .. MaxCounter + 1 /\ Len(plain) <= Off(Len(wire))

\* The decoder holds back the last frame it took and expects its counter.
InStep ==
  /\ phase # "decode" => dpc = "length" /\ prev = <<>> /\ opened = 0
  /\ hits = 0 =>
       /\ dpc \in {"length", "body", "done"}
       /\ dpc \in {"length", "body"} =>
            /\ prev = IF taken = 0 THEN <<>> ELSE <<wire[taken]>>
            /\ opened = IF taken = 0 THEN 0 ELSE taken - 1
       /\ dpc = "body" => taken < Len(wire)

IntactInv == Framed /\ InStep

\* What IInv says of the parts that an intact stream is about.
LEMMA Ranges ==
  ASSUME IInv
  PROVE  /\ plain \in Seq(Unit) /\ Len(plain) \in Nat
         /\ Len(wire) \in Nat /\ \A i \in 1 .. Len(wire) : wire[i] \in GoodFrame
         /\ counter \in Nat /\ opened \in Nat /\ taken \in 0 .. Len(wire) /\ taken \in Nat
         /\ size \in Nat /\ read \in 0 .. size /\ hits \in Nat /\ MaxCounter \in Nat
         /\ ChunkSize \in Nat \ {0}
<1>1. plain \in Seq(Unit) /\ Len(plain) \in Nat
  BY ChunkStreamAssumption, LenProperties DEF IInv
<1>2. Len(wire) \in Nat /\ \A i \in 1 .. Len(wire) : wire[i] \in GoodFrame
  BY LenProperties, ElementOfSeq DEF IInv, FileOK
<1>3. size \in Nat
  BY <1>2 DEF IInv, FileOK, FrameCells
<1> QED
  BY <1>1, <1>2, <1>3, ChunkStreamAssumption DEF IInv, EncoderOK, FileOK, DecoderOK

\* The chunks before a given one end where it begins at the latest.
LEMMA OffMonotone ==
  ASSUME NEW c \in Nat, NEW d \in Nat
  PROVE  /\ c <= d => Off(c) <= Off(d)
         /\ Off(c) < Off(d) => c < d
         /\ Off(c) \in Nat
<1>1. ChunkSize \in Nat \ {0}
  BY ChunkStreamAssumption
<1>2. c <= d => c * ChunkSize <= d * ChunkSize
  BY <1>1
<1>3. c * ChunkSize < d * ChunkSize => c < d
  BY <1>1
<1> QED
  BY <1>1, <1>2, <1>3 DEF Off

\* Sealing a full chunk: the plaintext goes on behind it.
LEMMA SealBlockFramed == ASSUME IInv, IntactInv, SealBlock PROVE IntactInv'
<1>1. /\ plain' = plain /\ UNCHANGED decoder /\ phase = "encode" /\ hits = 0
      /\ Len(wire) = counter
  BY DEF SealBlock, IInv, NoncesOK
<1>2. InStep'
  BY <1>1, Ranges DEF SealBlock, IntactInv, InStep, decoder
<1>3. Off(counter + 1) < Len(plain)
  <2>0. Off(counter) \in Nat /\ Off(counter + 1) = Off(counter) + ChunkSize
        /\ ChunkSize \in Nat
    BY Ranges, OffFacts
  <2>1. /\ Off(counter) \in 0 .. Len(plain) /\ fed \in Off(counter) .. Len(plain)
        /\ pending = SubSeq(plain, Off(counter) + 1, fed)
    <3>1. /\ fed \in 0 .. Len(plain) /\ Off(counter) <= fed
          /\ pending = SubSeq(plain, Off(counter) + 1, fed)
      BY <1>1 DEF IInv, EncoderOK
    <3>2. Len(plain) \in Nat
      BY Ranges
    <3> QED
      BY <2>0, <3>1, <3>2
  <2>2. Len(pending) = fed - Off(counter)
    BY <2>1, Ranges, Piece
  <2>3. fed \in Nat /\ Len(plain) \in Nat
    BY <2>1, Ranges
  <2> QED
    BY <2>0, <2>1, <2>2, <2>3 DEF SealBlock
<1>4. CASE counter < MaxCounter
  <2>1. counter' = counter + 1 /\ phase' = "encode" /\ hits' = 0
        /\ size' = size + FrameCells
    BY <1>1, <1>4 DEF SealBlock, PutFrame
  <2>2. PICK f : f = Sealed(counter, FALSE, SubSeq(pending, 1, ChunkSize))
    OBVIOUS
  <2>3. /\ Len(wire') = Len(wire) + 1
        /\ \A i \in 1 .. Len(wire) + 1 :
             wire'[i] = IF i = Len(wire) + 1 THEN f ELSE wire[i]
    <3>1. wire' = Append(wire, f) /\ wire \in Seq(GoodFrame)
      BY <2>2 DEF SealBlock, PutFrame, IInv, FileOK
    <3> QED
      BY <3>1, Ranges, AppendProperties
  <2>4. f.mark = "ok" /\ f.final = FALSE
    BY <2>2 DEF Sealed
  <2>5. /\ size = FrameCells * Len(wire)
        /\ \A i \in 1 .. Len(wire) :
             wire[i].mark = "ok" /\ wire[i].final = FALSE /\ Off(i) < Len(plain)
    BY <1>1 DEF IntactInv, Framed
  <2>6. ASSUME NEW i \in 1 .. Len(wire')
        PROVE  wire'[i].mark = "ok" /\ wire'[i].final = FALSE /\ Off(i) < Len(plain)
    <3>1. CASE i = Len(wire) + 1
      BY <1>1, <1>3, <2>3, <2>4, <3>1, Ranges
    <3>2. CASE i # Len(wire) + 1
      BY <1>1, <2>3, <2>5, <3>2, Ranges
    <3> QED
      BY <3>1, <3>2
  <2>7. size' = FrameCells * Len(wire')
    BY <2>1, <2>3, <2>5, Ranges DEF FrameCells
  <2>8. Framed'
    BY <1>1, <1>3, <2>1, <2>6, <2>7 DEF Framed, Off
  <2> QED
    BY <1>2, <2>8 DEF IntactInv
<1>5. CASE ~(counter < MaxCounter)
  <2>1. phase' = "stored" /\ hits' = 1
    BY <1>1, <1>5 DEF SealBlock
  <2> QED
    BY <1>2, <2>1 DEF IntactInv, Framed
<1> QED
  BY <1>4, <1>5

\* Sealing the remainder: the final chunk reaches the end of the plaintext.
LEMMA SealFinalFramed == ASSUME IInv, IntactInv, SealFinal PROVE IntactInv'
<1>1. /\ plain' = plain /\ UNCHANGED decoder /\ phase = "encode" /\ phase' = "stored"
      /\ hits = 0 /\ hits' = 0 /\ Len(wire) = counter /\ size' = size + FrameCells
  BY DEF SealFinal, PutFrame, IInv, NoncesOK
<1>2. InStep'
  BY <1>1, Ranges DEF IntactInv, InStep, decoder
<1>3. Len(plain) <= Off(counter + 1)
  <2>0. Off(counter) \in Nat /\ Off(counter + 1) = Off(counter) + ChunkSize
        /\ ChunkSize \in Nat
    BY Ranges, OffFacts
  <2>1. /\ Off(counter) \in 0 .. Len(plain) /\ fed \in Off(counter) .. Len(plain)
        /\ pending = SubSeq(plain, Off(counter) + 1, fed)
    <3>1. /\ fed \in 0 .. Len(plain) /\ Off(counter) <= fed
          /\ pending = SubSeq(plain, Off(counter) + 1, fed)
      BY <1>1 DEF IInv, EncoderOK
    <3>2. Len(plain) \in Nat
      BY Ranges
    <3> QED
      BY <2>0, <3>1, <3>2
  <2>2. Len(pending) = fed - Off(counter)
    BY <2>1, Ranges, Piece
  <2>3. fed \in Nat /\ Len(plain) \in Nat
    BY <2>1, Ranges
  <2> QED
    BY <2>0, <2>1, <2>2, <2>3 DEF SealFinal
<1>4. PICK f : f = Sealed(counter, TRUE, pending)
  OBVIOUS
<1>5. /\ Len(wire') = Len(wire) + 1
      /\ \A i \in 1 .. Len(wire) + 1 :
           wire'[i] = IF i = Len(wire) + 1 THEN f ELSE wire[i]
  <2>1. wire' = Append(wire, f) /\ wire \in Seq(GoodFrame)
    BY <1>4 DEF SealFinal, PutFrame, IInv, FileOK
  <2> QED
    BY <2>1, Ranges, AppendProperties
<1>6. f.mark = "ok" /\ f.final = TRUE
  BY <1>4 DEF Sealed
<1>7. /\ size = FrameCells * Len(wire)
      /\ \A i \in 1 .. Len(wire) :
           wire[i].mark = "ok" /\ wire[i].final = FALSE /\ Off(i) < Len(plain)
  BY <1>1 DEF IntactInv, Framed
<1>8. ASSUME NEW i \in 1 .. Len(wire')
      PROVE  /\ wire'[i].mark = "ok" /\ wire'[i].final = (i = Len(wire'))
             /\ ~wire'[i].final => Off(i) < Len(plain)
  <2>1. CASE i = Len(wire) + 1
    BY <1>5, <1>6, <2>1, Ranges
  <2>2. CASE i # Len(wire) + 1
    <3>1. wire'[i] = wire[i] /\ i \in 1 .. Len(wire) /\ i # Len(wire')
      BY <1>5, <2>2, Ranges
    <3>2. wire[i].mark = "ok" /\ wire[i].final = FALSE /\ Off(i) < Len(plain)
      BY <1>7, <3>1
    <3> QED
      BY <3>1, <3>2
  <2> QED
    BY <2>1, <2>2
<1>9. size' = FrameCells * Len(wire')
  BY <1>1, <1>5, <1>7, Ranges DEF FrameCells
<1>10. Len(wire') \in 1 .. MaxCounter + 1 /\ Len(plain) <= Off(Len(wire'))
  <2>1. counter \in 0 .. MaxCounter
    BY DEF IInv, EncoderOK
  <2> QED
    BY <1>1, <1>3, <1>5, <2>1, Ranges
<1>11. Framed'
  BY <1>1, <1>8, <1>9, <1>10 DEF Framed, Off
<1> QED
  BY <1>2, <1>11 DEF IntactInv

\* A step of the decoder leaves the frames alone.
LEMMA DecodeFramed ==
  ASSUME IInv, Framed, UNCHANGED <<plain, phase, encoder, wire, size, hits>>
  PROVE  Framed'
BY DEF Framed, Off, encoder

\* The steps of the decoder: an intact stream always goes on.
LEMMA DecodeInStep == ASSUME IInv, IntactInv, Decode PROVE IntactInv'
<1>1. UNCHANGED <<plain, phase, encoder, wire, size, hits>> /\ phase = "decode"
      /\ dpc \in {"length", "body"}
  BY DEF Decode, Refill, EndsInside, EndsBetween, ReadLength, TakeFrame, Reading
<1>2. Framed'
  BY <1>1, DecodeFramed DEF IntactInv
<1>3. SUFFICES ASSUME hits = 0 PROVE InStep'
  BY <1>1, <1>2 DEF IntactInv, InStep
<1>4. /\ size = FrameCells * Len(wire)
      /\ \A i \in 1 .. Len(wire) :
           /\ wire[i].mark = "ok" /\ wire[i].ctr = i - 1
           /\ wire[i].final = (i = Len(wire))
      /\ Len(wire) \in 1 .. MaxCounter + 1
  BY <1>1, <1>3 DEF IInv, NoncesOK, IntactInv, Framed
<1>5. /\ prev = (IF taken = 0 THEN <<>> ELSE <<wire[taken]>>)
      /\ opened = (IF taken = 0 THEN 0 ELSE taken - 1)
      /\ dpc = "body" => taken < Len(wire)
  BY <1>1, <1>3 DEF IntactInv, InStep
<1>6. /\ Len(wire) \in Nat /\ taken \in 0 .. Len(wire) /\ size \in Nat
      /\ read \in 0 .. size /\ MaxCounter \in Nat /\ opened \in Nat
  BY Ranges
<1>7. CASE \E k \in 1 .. size : Refill(k)
  BY <1>1, <1>3, <1>7 DEF Refill, IntactInv, InStep
<1>8. CASE EndsInside
  <2>1. /\ read = size /\ read - FrameCells * taken < Needed
        /\ dpc = "body" \/ read - FrameCells * taken > 0
    BY <1>8 DEF EndsInside, Buffered
  <2>2. Needed \in {LengthCells, FrameCells} /\ (dpc = "length" => Needed = LengthCells)
    BY DEF Needed
  <2>3. FALSE
    BY <1>1, <1>4, <1>5, <1>6, <2>1, <2>2 DEF LengthCells, FrameCells
  <2> QED
    BY <2>3
<1>9. CASE EndsBetween
  <2>1. taken = Len(wire)
    BY <1>4, <1>6, <1>9 DEF EndsBetween, Buffered, FrameCells
  <2>2. taken # 0 /\ prev = <<wire[taken]>> /\ opened = taken - 1
    BY <1>4, <1>5, <2>1
  <2>3. prev # <<>> /\ prev[1] = wire[taken]
    BY <2>2
  <2>4. Authentic(prev[1], opened, TRUE)
    <3>1. wire[taken].mark = "ok" /\ wire[taken].ctr = taken - 1 /\ wire[taken].final = TRUE
      <4>1. taken \in 1 .. Len(wire) /\ taken = Len(wire)
        BY <1>4, <1>6, <2>1
      <4>2. \A i \in 1 .. Len(wire) : wire[i].final = (i = Len(wire))
        BY <1>4
      <4>3. wire[taken].final = (taken = Len(wire))
        BY <4>1, <4>2, Zenon
      <4> QED
        BY <1>4, <4>1, <4>3
    <3> QED
      BY <2>2, <2>3, <3>1 DEF Authentic
  <2>5. dpc' = "done"
    BY <1>9, <2>3, <2>4 DEF EndsBetween
  <2> QED
    BY <1>1, <2>5 DEF InStep
<1>10. CASE ReadLength
  <2>1. taken < Len(wire)
    BY <1>4, <1>6, <1>10 DEF ReadLength, Buffered, FrameCells, LengthCells
  <2>2. Incoming.mark = "ok"
    BY <1>4, <1>6, <2>1 DEF Incoming
  <2>3. dpc' = "body" /\ UNCHANGED <<prev, opened, taken>>
    BY <1>10, <2>2 DEF ReadLength
  <2> QED
    BY <1>1, <1>5, <2>1, <2>3 DEF InStep
<1>11. CASE TakeFrame
  <2>1. taken < Len(wire) /\ taken' = taken + 1 /\ Incoming = wire[taken + 1]
    BY <1>5, <1>11 DEF TakeFrame, Incoming
  <2>2. CASE taken = 0
    <3>1. prev = <<>> /\ opened = 0
      BY <1>5, <2>2
    <3>2. prev' = <<Incoming>> /\ dpc' = "length" /\ opened' = 0
      BY <1>11, <3>1 DEF TakeFrame
    <3> QED
      BY <1>1, <2>1, <2>2, <3>2 DEF InStep
  <2>3. CASE taken # 0
    <3>1. prev = <<wire[taken]>> /\ opened = taken - 1
      BY <1>5, <2>3
    <3>2. prev # <<>> /\ prev[1] = wire[taken]
      BY <3>1
    <3>3. Authentic(prev[1], opened, FALSE)
      <4>1. taken \in 1 .. Len(wire) /\ taken # Len(wire)
        BY <1>6, <2>1, <2>3
      <4>2. wire[taken].mark = "ok" /\ wire[taken].ctr = taken - 1 /\ wire[taken].final = FALSE
        BY <1>4, <4>1
      <4> QED
        BY <3>1, <3>2, <4>2 DEF Authentic
    <3>4. opened < MaxCounter
      BY <1>4, <1>6, <2>1, <2>3, <3>1
    <3>5. opened' = opened + 1 /\ prev' = <<Incoming>> /\ dpc' = "length"
      BY <1>11, <3>2, <3>3, <3>4 DEF TakeFrame
    <3>6. taken' # 0 /\ opened' = taken' - 1
      BY <1>6, <2>1, <3>1, <3>5
    <3> QED
      BY <1>1, <2>1, <3>5, <3>6 DEF InStep
  <2> QED
    BY <2>2, <2>3
<1> QED
  BY <1>7, <1>8, <1>9, <1>10, <1>11 DEF Decode

\* The remaining steps: none touches a frame without counting as damage.
LEMMA StepIntact == IInv /\ IntactInv /\ [Next]_vars => IntactInv'
<1> SUFFICES ASSUME IInv, IntactInv, [Next]_vars PROVE IntactInv'
  OBVIOUS
<1>1. ASSUME NEW k \in 1 .. Len(plain), Feed(k) PROVE IntactInv'
  BY <1>1 DEF Feed, decoder, IntactInv, Framed, InStep, Off
<1>2. ASSUME NEW cells \in 0 .. size, Interrupted(cells) PROVE IntactInv'
  <2>1. hits' # 0 /\ phase' = "stored" /\ phase = "encode" /\ UNCHANGED decoder
    BY <1>2, Ranges DEF Interrupted
  <2> QED
    BY <2>1 DEF decoder, IntactInv, Framed, InStep
<1>3. CASE AnyDamage
  <2>1. hits' = hits + 1 /\ phase = "stored" /\ UNCHANGED <<phase, decoder>>
    BY <1>3 DEF AnyDamage, Lose, Repeat, Exchange, Spoil, Extend, Cut, Damage
  <2>2. hits' # 0
    BY <2>1, Ranges
  <2> QED
    BY <2>1, <2>2 DEF decoder, IntactInv, Framed, InStep
<1>4. CASE StartDecode
  <2>1. /\ phase = "stored" /\ phase' = "decode"
        /\ UNCHANGED <<plain, wire, size, hits, prev, taken, opened, dpc>>
    BY <1>4 DEF StartDecode, decoder
  <2>2. taken = 0 /\ prev = <<>> /\ opened = 0 /\ dpc = "length"
    BY <2>1 DEF IInv, FileOK, IntactInv, InStep
  <2>3. Framed'
    BY <2>1 DEF IntactInv, Framed, Off
  <2> QED
    BY <2>1, <2>2, <2>3 DEF IntactInv, InStep
<1>5. CASE UNCHANGED vars
  BY <1>5 DEF vars, encoder, decoder, IntactInv, Framed, InStep, Off
<1> QED
  BY <1>1, <1>2, <1>3, <1>4, <1>5, SealBlockFramed, SealFinalFramed, DecodeInStep
  DEF Next, Encode

\* A stream nobody touched stays well framed and in step with its decoder.
LEMMA IntactInvariance == Spec => [](IInv /\ IntactInv)
<1>1. Init => IntactInv
  <2> SUFFICES ASSUME Init PROVE IntactInv
    OBVIOUS
  <2>1. Len(wire) = 0 /\ FrameCells * 0 = 0
    BY DEF Init, FrameCells
  <2> QED
    BY <2>1 DEF Init, IntactInv, Framed, InStep
<1> QED
  BY <1>1, InitOK, StepOK, StepIntact, PTL DEF Spec

\* The number of chunks is the one that reaches the end of the plaintext, and
\* no chunk but the first begins there.
LEMMA ChunkCountIs ==
  ASSUME IInv
  PROVE  /\ ChunkCount \in Nat \ {0}
         /\ Len(plain) <= Off(ChunkCount)
         /\ ChunkCount = 1 \/ Off(ChunkCount - 1) < Len(plain)
<1> DEFINE n == Len(plain)
           C == ChunkSize
           q == (n + C - 1) \div C
<1>1. n \in Nat /\ C \in Nat \ {0}
  BY Ranges
<1>2. CASE plain = <<>>
  <2>1. n = 0 /\ ChunkCount = 1
    BY <1>2 DEF ChunkCount
  <2>2. Off(1) \in Nat
    BY OffFacts
  <2> QED
    BY <2>1, <2>2
<1>3. CASE plain # <<>>
  <2>1. n # 0
    BY <1>3, Ranges, EmptySeq
  <2>2. n + C - 1 \in Nat /\ ChunkCount = q
    BY <1>1, <1>3 DEF ChunkCount
  <2>3. q \in Nat /\ q * C <= n + C - 1 /\ n + C - 1 < q * C + C
    BY <1>1, <2>2
  <2> HIDE DEF q
  <2>4. q # 0
    BY <1>1, <2>1, <2>3
  <2>5. q - 1 \in Nat /\ (q - 1) + 1 = q
    BY <2>3, <2>4
  <2>6. Off(q - 1) \in Nat /\ Off(q) = Off(q - 1) + C
    BY <2>5, OffFacts
  <2>7. Off(q) = q * C
    BY DEF Off
  <2> HIDE DEF n, C
  <2>8. n <= Off(q) /\ Off(q - 1) < n
    BY <1>1, <2>3, <2>6, <2>7
  <2> QED
    BY <2>2, <2>3, <2>4, <2>8 DEF n
<1> QED
  BY <1>2, <1>3

\* A frame that is at its place and flagged only at the end is the expected one.
LEMMA FrameExpected ==
  ASSUME IInv, NEW c \in Nat, NEW f \in GoodFrame,
         f.mark = "ok", f.ctr = c, f.final = (c = ChunkCount - 1),
         ~f.final => Off(c + 1) < Len(plain),
         f.final => Len(plain) <= Off(c + 1)
  PROVE  f = Expected(c)
<1>1. Genuine(f) /\ f \in Frame
  BY DEF GoodFrame
<1>2. Off(c + 1) \in Nat /\ Len(plain) \in Nat
  <2>1. c + 1 \in Nat
    OBVIOUS
  <2>2. Off(c + 1) \in Nat
    BY <2>1, OffFacts
  <2> QED
    BY <2>2, Ranges
<1>3. f.data = SubSeq(plain, Off(c) + 1, Lesser(Off(c + 1), Len(plain)))
  <2>1. CASE f.final
    <3>1. f.data = SubSeq(plain, Off(c) + 1, Len(plain))
      BY <1>1, <2>1 DEF Genuine
    <3>2. Lesser(Off(c + 1), Len(plain)) = Len(plain)
      BY <1>2, <2>1 DEF Lesser
    <3> QED
      BY <3>1, <3>2
  <2>2. CASE ~f.final
    <3>1. f.data = SubSeq(plain, Off(c) + 1, Off(c + 1))
      BY <1>1, <2>2 DEF Genuine
    <3>2. Lesser(Off(c + 1), Len(plain)) = Off(c + 1)
      BY <1>2, <2>2 DEF Lesser
    <3> QED
      BY <3>1, <3>2
  <2> QED
    BY <2>1, <2>2
<1>4. f = [ctr |-> f.ctr, final |-> f.final, data |-> f.data, mark |-> f.mark]
  BY <1>1 DEF Frame
<1>5. Expected(c) = [ctr |-> c, final |-> c = ChunkCount - 1,
                     data |-> SubSeq(plain, Off(c) + 1, Lesser(Off(c + 1), Len(plain))),
                     mark |-> "ok"]
  BY DEF Expected, Sealed, Off
<1> QED
  BY <1>3, <1>4, <1>5

\* The frames are the chunks of the one right framing, for any chunk size and
\* however the caller batches its bytes (stream.py 62-63, 68-76).
THEOREM FramingIsCanonical == Spec => []FramingCanonical
<1>1. IInv /\ IntactInv => FramingCanonical
  <2> SUFFICES ASSUME IInv, IntactInv, hits = 0
               PROVE  /\ Len(wire) <= ChunkCount
                      /\ \A i \in 1 .. Len(wire) : wire[i] = Expected(i - 1)
                      /\ phase # "encode" => Len(wire) = ChunkCount
    BY DEF FramingCanonical
  <2> DEFINE q == ChunkCount
             n == Len(wire)
  <2>1. q \in Nat /\ q # 0 /\ Len(plain) <= Off(q) /\ (q = 1 \/ Off(q - 1) < Len(plain))
    BY ChunkCountIs
  <2>2. n \in Nat /\ Len(plain) \in Nat /\ counter \in Nat
    BY Ranges
  <2>3. \A i \in 1 .. n : /\ wire[i] \in GoodFrame /\ wire[i].mark = "ok"
                          /\ wire[i].ctr = i - 1
                          /\ wire[i].final = (phase # "encode" /\ i = n)
                          /\ ~wire[i].final => Off(i) < Len(plain)
    BY Ranges DEF IInv, NoncesOK, IntactInv, Framed
  <2> HIDE DEF q, n
  <2>4. CASE phase = "encode"
    <3>1. n = counter /\ (counter = 0 \/ Off(counter) < Len(plain))
      BY <2>4 DEF IInv, NoncesOK, IntactInv, Framed, n
    <3>2. n < q
      <4>1. CASE n = 0
        BY <2>1, <4>1
      <4>2. CASE n # 0
        <5>1. Off(n) < Off(q)
          <6>1. Off(n) \in Nat /\ Off(q) \in Nat
            BY <2>1, <2>2, OffMonotone
          <6> QED
            BY <2>1, <2>2, <3>1, <4>2, <6>1
        <5> QED
          BY <2>1, <2>2, <5>1, OffMonotone
      <4> QED
        BY <4>1, <4>2
    <3>3. ASSUME NEW i \in 1 .. n PROVE wire[i] = Expected(i - 1)
      <4>1. i - 1 \in Nat /\ (i - 1) + 1 = i /\ i - 1 # q - 1
        BY <2>1, <2>2, <3>2
      <4>2. wire[i].final = FALSE /\ Off((i - 1) + 1) < Len(plain)
        BY <2>3, <2>4, <4>1
      <4> QED
        BY <2>3, <4>1, <4>2, FrameExpected DEF q
    <3> QED
      BY <2>1, <2>2, <2>4, <3>2, <3>3 DEF q, n
  <2>5. CASE phase # "encode"
    <3>1. n # 0 /\ Len(plain) <= Off(n)
      BY <2>5, Ranges DEF IntactInv, Framed, n
    <3>2. n = 1 \/ Off(n - 1) < Len(plain)
      <4> SUFFICES ASSUME n # 1 PROVE Off(n - 1) < Len(plain)
        OBVIOUS
      <4>1. n - 1 \in 1 .. n /\ n - 1 # n
        BY <2>2, <3>1
      <4> QED
        BY <2>3, <4>1
    <3>3. n = q
      <4>1. n <= q
        <5>1. CASE n = 1
          BY <2>1, <5>1
        <5>2. CASE n # 1
          <6>1. n - 1 \in Nat /\ Off(n - 1) \in Nat /\ Off(q) \in Nat
            <7>1. n - 1 \in Nat /\ q \in Nat
              BY <2>1, <2>2, <3>1
            <7> HIDE DEF n, q
            <7> QED BY <7>1, OffMonotone
          <6>2. Off(n - 1) < Off(q)
            BY <2>1, <2>2, <3>2, <5>2, <6>1
          <6>3. n - 1 < q
            BY <2>1, <6>1, <6>2, OffMonotone
          <6> QED
            BY <2>1, <2>2, <6>3
        <5> QED
          BY <5>1, <5>2
      <4>2. q <= n
        <5>1. CASE q = 1
          BY <2>2, <3>1, <5>1
        <5>2. CASE q # 1
          <6>1. q - 1 \in Nat /\ Off(q - 1) \in Nat /\ Off(n) \in Nat
            BY <2>1, <2>2, OffMonotone
          <6>2. Off(q - 1) < Off(n)
            BY <2>1, <2>2, <3>1, <5>2, <6>1
          <6>3. q - 1 < n
            BY <2>2, <6>1, <6>2, OffMonotone
          <6> QED
            BY <2>1, <2>2, <6>3
        <5> QED
          BY <5>1, <5>2
      <4> QED
        BY <2>1, <2>2, <4>1, <4>2
    <3>4. ASSUME NEW i \in 1 .. n PROVE wire[i] = Expected(i - 1)
      <4>1. i - 1 \in Nat /\ (i - 1) + 1 = i /\ ((i - 1 = q - 1) <=> (i = n))
        BY <2>1, <2>2, <3>3
      <4>2. wire[i].final = (i - 1 = q - 1)
        BY <2>3, <2>5, <4>1
      <4>3. /\ ~wire[i].final => Off((i - 1) + 1) < Len(plain)
            /\ wire[i].final => Len(plain) <= Off((i - 1) + 1)
        BY <2>3, <3>1, <4>1, <4>2
      <4> QED
        BY <2>3, <4>1, <4>2, <4>3, FrameExpected DEF q
    <3> QED
      BY <2>1, <2>2, <2>5, <3>3, <3>4 DEF q, n
  <2> QED
    BY <2>4, <2>5
<1> QED
  BY <1>1, IntactInvariance, PTL

\* A stream nobody touched is never rejected: not by a check of the decoder, and
\* not by its counter running out (stream.py 82-99, 126-152).
THEOREM IntactIsNeverRejected == Spec => []IntactNeverRejected
<1>1. IInv /\ IntactInv => IntactNeverRejected
  BY DEF IntactInv, InStep, IntactNeverRejected, Intact
<1> QED
  BY <1>1, IntactInvariance, PTL
=============================================================================
