--------------------------- MODULE MCChunkStream ---------------------------
(* TLC instance of ChunkStream: plaintexts of distinct units, of every length *)
(* up to MaxLength.                                                           *)
EXTENDS ChunkStream

CONSTANT MaxLength

MCUnit == 1 .. MaxLength
MCPlaintexts == {[i \in 1 .. n |-> i] : n \in 0 .. MaxLength}
=============================================================================
