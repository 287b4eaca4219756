----------------------------- MODULE ChunkStream -----------------------------
(***************************************************************************)
(* The payload stream (stream.py): plaintext is regrouped into chunks of   *)
(* ChunkSize units, each sealed under a nonce made of a counter and a flag *)
(* that marks the last chunk, and read back one chunk behind the input.    *)
(*                                                                         *)
(* The two generators run one after the other with the vault file between  *)
(* them.  What happens to the file in between is the environment: its end  *)
(* can be cut off (an interrupted encryption or copy), frames can be lost, *)
(* repeated, exchanged, damaged, or followed by something else.            *)
(*                                                                         *)
(* Sealing is authenticated encryption: a frame opens only under the key,  *)
(* counter and flag it was sealed with, and unchanged.  The key is one per *)
(* stream, so a frame of another stream is a damaged frame here.           *)
(***************************************************************************)
EXTENDS Integers, Sequences

CONSTANTS
  Unit,         \* units of plaintext
  Plaintexts,   \* the plaintexts that may be encrypted
  ChunkSize,    \* units per chunk
  MaxCounter,   \* largest chunk counter (_MAX_COUNTER)
  MaxDamage     \* how often a stored stream is damaged

ASSUME ChunkStreamAssumption ==
  /\ Plaintexts \subseteq Seq(Unit)
  /\ ChunkSize \in Nat \ {0}
  /\ MaxCounter \in Nat
  /\ MaxDamage \in Nat

VARIABLES
  plain,    \* the plaintext of this stream
  phase,    \* "encode", "stored", "decode"
  fed,      \* encoder: units taken from the caller so far
  pending,  \* encoder: units not sealed yet
  counter,  \* encoder: counter of the next chunk
  wire,     \* the frames of the file
  size,     \* how many cells of them the file holds (the last may be cut)
  hits,     \* how often the stream was cut short or damaged
  read,     \* decoder: cells read from the file
  taken,    \* decoder: frames consumed
  prev,     \* decoder: the frame held back, as <<frame>>, or <<>>
  opened,   \* decoder: counter of the next chunk
  out,      \* decoder: plaintext released
  dpc       \* decoder: "length", "body", "done", "failed", "overflow"

encoder == <<fed, pending, counter>>
decoder == <<read, taken, prev, opened, out, dpc>>
vars == <<plain, phase, encoder, wire, size, hits, decoder>>

\* A frame is two cells of length prefix and two of ciphertext, so that the
\* end of the file can fall inside either.
LengthCells == 2
FrameCells  == 4

\* mark tells what happened to a frame: nothing, or its length field or its
\* ciphertext is not what was sealed.
Frame == [ctr : Nat, final : BOOLEAN, data : Seq(Unit),
          mark : {"ok", "length", "body"}]

Sealed(ctr, final, block) ==
  [ctr |-> ctr, final |-> final, data |-> block, mark |-> "ok"]

\* (mutation) the flag is not part of the nonce.
AuthenticAnyFlag(frame, ctr, final) == frame.mark = "ok" /\ frame.ctr = ctr

\* (mutation) the counter is not part of the nonce.
AuthenticAnywhere(frame, ctr, final) == frame.mark = "ok" /\ frame.final = final

Authentic(frame, ctr, final) ==
  frame.mark = "ok" /\ frame.ctr = ctr /\ frame.final = final

-----------------------------------------------------------------------------
Init ==
  /\ plain \in Plaintexts
  /\ phase = "encode"
  /\ fed = 0 /\ pending = <<>> /\ counter = 0
  /\ wire = <<>> /\ size = 0 /\ hits = 0
  /\ read = 0 /\ taken = 0 /\ prev = <<>> /\ opened = 0 /\ out = <<>>
  /\ dpc = "length"

(* encrypt_stream *)

\* The next piece of the caller, of any length.
Feed(k) ==
  /\ phase = "encode"
  /\ Len(pending) <= ChunkSize
  /\ fed + k <= Len(plain)
  /\ fed' = fed + k
  /\ pending' = pending \o SubSeq(plain, fed + 1, fed + k)
  /\ UNCHANGED <<plain, phase, counter, wire, size, hits, decoder>>

PutFrame(frame) ==
  /\ wire' = Append(wire, frame)
  /\ size' = size + FrameCells

\* (mutation) a full chunk is sealed without waiting for the next unit.
SealEager ==
  /\ phase = "encode"
  /\ Len(pending) >= ChunkSize
  /\ PutFrame(Sealed(counter, FALSE, SubSeq(pending, 1, ChunkSize)))
  /\ pending' = SubSeq(pending, ChunkSize + 1, Len(pending))
  /\ IF counter < MaxCounter
     THEN counter' = counter + 1 /\ UNCHANGED <<phase, hits>>
     ELSE phase' = "stored" /\ hits' = hits + 1 /\ UNCHANGED counter
  /\ UNCHANGED <<plain, fed, decoder>>

\* (mutation) the counter starts again instead of raising.
SealWrapping ==
  /\ phase = "encode"
  /\ Len(pending) > ChunkSize
  /\ PutFrame(Sealed(counter, FALSE, SubSeq(pending, 1, ChunkSize)))
  /\ pending' = SubSeq(pending, ChunkSize + 1, Len(pending))
  /\ counter' = (counter + 1) % (MaxCounter + 1)
  /\ UNCHANGED <<plain, phase, fed, hits, decoder>>

\* A full chunk that is known not to be the last.  _next raises once the
\* counter is used up, after the chunk has been handed out.
SealBlock ==
  /\ phase = "encode"
  /\ Len(pending) > ChunkSize
  /\ PutFrame(Sealed(counter, FALSE, SubSeq(pending, 1, ChunkSize)))
  /\ pending' = SubSeq(pending, ChunkSize + 1, Len(pending))
  /\ IF counter < MaxCounter
     THEN counter' = counter + 1 /\ UNCHANGED <<phase, hits>>
     ELSE phase' = "stored" /\ hits' = hits + 1 /\ UNCHANGED counter
  /\ UNCHANGED <<plain, fed, decoder>>

\* (mutation) a remainder of exactly one chunk is not taken for the last one.
SealFinalShort ==
  /\ phase = "encode"
  /\ fed = Len(plain)
  /\ Len(pending) < ChunkSize
  /\ PutFrame(Sealed(counter, TRUE, pending))
  /\ pending' = <<>>
  /\ phase' = "stored"
  /\ UNCHANGED <<plain, fed, counter, hits, decoder>>

\* (mutation) the last chunk is not flagged.
SealFinalUnflagged ==
  /\ phase = "encode"
  /\ fed = Len(plain)
  /\ Len(pending) <= ChunkSize
  /\ PutFrame(Sealed(counter, FALSE, pending))
  /\ pending' = <<>>
  /\ phase' = "stored"
  /\ UNCHANGED <<plain, fed, counter, hits, decoder>>

\* The remainder, possibly empty, is the final chunk.
SealFinal ==
  /\ phase = "encode"
  /\ fed = Len(plain)
  /\ Len(pending) <= ChunkSize
  /\ PutFrame(Sealed(counter, TRUE, pending))
  /\ pending' = <<>>
  /\ phase' = "stored"
  /\ UNCHANGED <<plain, fed, counter, hits, decoder>>

\* The encryption is interrupted: the file holds what reached it.
Interrupted(cells) ==
  /\ phase = "encode"
  /\ phase' = "stored"
  /\ size' = cells
  /\ hits' = hits + 1
  /\ UNCHANGED <<plain, encoder, wire, decoder>>

(* The file at rest (external). *)

Damage(frames, cells) ==
  /\ phase = "stored"
  /\ hits < MaxDamage
  /\ hits' = hits + 1
  /\ wire' = frames
  /\ size' = cells
  /\ UNCHANGED <<plain, phase, encoder, decoder>>

\* The following need a file that ends with a whole frame.
Ends == size = FrameCells * Len(wire)

Lose(i) ==
  Ends /\ Damage(SubSeq(wire, 1, i - 1) \o SubSeq(wire, i + 1, Len(wire)), size - FrameCells)

Repeat(i, j) ==
  Ends /\ Damage(SubSeq(wire, 1, j) \o <<wire[i]>> \o SubSeq(wire, j + 1, Len(wire)),
                 size + FrameCells)

Exchange(i, j) ==
  Ends /\ Damage([wire EXCEPT ![i] = wire[j], ![j] = wire[i]], size)

Spoil(i, mark) ==
  Damage([wire EXCEPT ![i].mark = mark], size)

\* Something that is not a frame of this stream follows.
Extend ==
  Ends /\ Damage(Append(wire, [Sealed(0, TRUE, <<>>) EXCEPT !.mark = "body"]),
                 size + FrameCells)

Cut(cells) == Damage(wire, cells)

AnyDamage ==
  \/ \E i \in 1 .. Len(wire) : Lose(i)
  \/ \E i \in 1 .. Len(wire), j \in 0 .. Len(wire) : Repeat(i, j)
  \/ \E i, j \in 1 .. Len(wire) : i < j /\ Exchange(i, j)
  \/ \E i \in 1 .. Len(wire), mark \in {"length", "body"} : Spoil(i, mark)
  \/ Extend
  \/ \E cells \in 0 .. size - 1 : Cut(cells)

StartDecode ==
  /\ phase = "stored"
  /\ phase' = "decode"
  /\ UNCHANGED <<plain, encoder, wire, size, hits, decoder>>

(* decrypt_stream over _read_chunks *)

Buffered == read - FrameCells * taken

\* fill: the length field first, then the whole frame.
Needed == IF dpc = "length" THEN LengthCells ELSE FrameCells

Reading == phase = "decode" /\ dpc \in {"length", "body"}

\* The next block of the file, of any length, when the buffer is too short.
Refill(k) ==
  /\ Reading
  /\ Buffered < Needed
  /\ read + k <= size
  /\ read' = read + k
  /\ UNCHANGED <<plain, phase, encoder, wire, size, hits, taken, prev, opened, out, dpc>>

\* (mutation) a file that ends inside a ciphertext is waited for.
EndsInsideLength ==
  /\ Reading
  /\ Buffered < Needed /\ read = size
  /\ dpc = "length" /\ Buffered > 0
  /\ dpc' = "failed"
  /\ UNCHANGED <<plain, phase, encoder, wire, size, hits, read, taken, prev, opened, out>>

\* The file ends inside a frame: truncated.  Nothing held back is released.
EndsInside ==
  /\ Reading
  /\ Buffered < Needed /\ read = size
  /\ dpc = "body" \/ Buffered > 0
  /\ dpc' = "failed"
  /\ UNCHANGED <<plain, phase, encoder, wire, size, hits, read, taken, prev, opened, out>>

\* The file ends after a frame: the one held back must open as the final one.
EndsBetween ==
  /\ Reading
  /\ dpc = "length" /\ Buffered = 0 /\ read = size
  /\ IF prev # <<>> /\ Authentic(prev[1], opened, TRUE)
     THEN out' = out \o prev[1].data /\ dpc' = "done"
     ELSE dpc' = "failed" /\ UNCHANGED out
  /\ UNCHANGED <<plain, phase, encoder, wire, size, hits, read, taken, prev, opened>>

Incoming == wire[taken + 1]

\* The length field is there; one out of bounds, or beyond the end, is refused.
ReadLength ==
  /\ Reading
  /\ dpc = "length" /\ Buffered >= LengthCells
  /\ dpc' = IF Incoming.mark = "length" THEN "failed" ELSE "body"
  /\ UNCHANGED <<plain, phase, encoder, wire, size, hits, read, taken, prev, opened, out>>

\* (mutation) the decoder's counter is not checked.
TakeFrameUnchecked ==
  /\ Reading
  /\ dpc = "body" /\ Buffered >= FrameCells
  /\ taken' = taken + 1
  /\ IF prev # <<>> /\ ~Authentic(prev[1], opened, FALSE)
     THEN dpc' = "failed" /\ UNCHANGED <<prev, opened, out>>
     ELSE /\ prev' = <<Incoming>> /\ dpc' = "length"
          /\ IF prev = <<>> THEN UNCHANGED <<opened, out>>
             ELSE out' = out \o prev[1].data /\ opened' = opened + 1
  /\ UNCHANGED <<plain, phase, encoder, wire, size, hits, read>>

\* A frame is complete: the one before it is not the last and must open as
\* such; the new one is held back.
TakeFrame ==
  /\ Reading
  /\ dpc = "body" /\ Buffered >= FrameCells
  /\ taken' = taken + 1
  /\ IF prev = <<>>
     THEN prev' = <<Incoming>> /\ dpc' = "length" /\ UNCHANGED <<opened, out>>
     ELSE IF ~Authentic(prev[1], opened, FALSE)
     THEN dpc' = "failed" /\ UNCHANGED <<prev, opened, out>>
     ELSE /\ out' = out \o prev[1].data
          /\ IF opened < MaxCounter
             THEN opened' = opened + 1 /\ prev' = <<Incoming>> /\ dpc' = "length"
             ELSE dpc' = "overflow" /\ UNCHANGED <<opened, prev>>
  /\ UNCHANGED <<plain, phase, encoder, wire, size, hits, read>>

-----------------------------------------------------------------------------
Encode ==
  \/ \E k \in 1 .. Len(plain) : Feed(k)
  \/ SealBlock
  \/ SealFinal

Decode ==
  \/ \E k \in 1 .. size : Refill(k)
  \/ EndsInside
  \/ EndsBetween
  \/ ReadLength
  \/ TakeFrame

Next ==
  \/ Encode
  \/ \E cells \in 0 .. size : Interrupted(cells)
  \/ AnyDamage
  \/ StartDecode
  \/ Decode

Spec == Init /\ [][Next]_vars

\* Both generators are pulled by a loop of the program until they end (service.py
\* 101, stream.py 68 and 86): an enabled step of theirs is eventually taken.  Nobody
\* has to start a decryption.
FairSpec == Spec /\ WF_vars(Encode) /\ WF_vars(Decode)

-----------------------------------------------------------------------------
(* What the stream ought to be, stated without running the encoder. *)

Lesser(a, b) == IF a < b THEN a ELSE b

\* How many chunks a plaintext takes: an empty one still takes one.
ChunkCount == IF plain = <<>> THEN 1 ELSE (Len(plain) + ChunkSize - 1) \div ChunkSize

\* The chunk with counter c.
Expected(c) ==
  Sealed(c, c = ChunkCount - 1,
         SubSeq(plain, c * ChunkSize + 1, Lesser((c + 1) * ChunkSize, Len(plain))))

Intact == hits = 0 /\ phase # "encode"

TypeOK ==
  /\ plain \in Plaintexts
  /\ phase \in {"encode", "stored", "decode"}
  /\ fed \in 0 .. Len(plain) /\ pending \in Seq(Unit) /\ counter \in 0 .. MaxCounter
  /\ wire \in Seq(Frame) /\ size \in 0 .. FrameCells * Len(wire) /\ hits \in Nat
  /\ read \in 0 .. size /\ taken \in 0 .. Len(wire)
  /\ prev \in Seq(Frame) /\ Len(prev) <= 1
  /\ opened \in 0 .. MaxCounter /\ out \in Seq(Unit)
  /\ dpc \in {"length", "body", "done", "failed", "overflow"}

\* The frames do not depend on how the caller batches its bytes (stream.py
\* 62-63): at every moment they are the first chunks of the one right framing,
\* and all of them once the encoder has finished.
FramingCanonical ==
  hits = 0 =>
    /\ Len(wire) <= ChunkCount
    /\ \A i \in 1 .. Len(wire) : wire[i] = Expected(i - 1)
    /\ phase # "encode" => Len(wire) = ChunkCount

\* No nonce is used twice under the key (stream.py 9-10), also when the counter
\* runs out.
NonceFresh ==
  phase = "encode" \/ hits = 0 =>
    \A i, j \in 1 .. Len(wire) :
      i # j => <<wire[i].ctr, wire[i].final>> # <<wire[j].ctr, wire[j].final>>

\* Whatever happened to the file, what is released is a beginning of what was
\* encrypted (stream.py 82-83).
ReleasedIsPrefix ==
  Len(out) <= Len(plain) /\ out = SubSeq(plain, 1, Len(out))

\* A stream that decrypts to the end gives the whole plaintext: a lost tail or
\* something added is never accepted.
DoneMeansWhole == dpc = "done" => out = plain

\* A stream nobody touched is never rejected.
IntactNeverRejected == Intact => dpc \notin {"failed", "overflow"}

\* An encryption ends for every way the caller batches its bytes: the remainder
\* always becomes the final chunk.
EncodeEnds == <>(phase # "encode")

\* A decryption that is started ends, whatever the file has become.
DecodeEnds == phase = "decode" ~> dpc \in {"done", "failed", "overflow"}
=============================================================================
