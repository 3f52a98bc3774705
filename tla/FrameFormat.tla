----------------------------- MODULE FrameFormat -----------------------------
(***************************************************************************)
(* The frame that compress_u32 writes and decompress_u32 of src/frame.rs   *)
(* reads: a prologue, two counts and one record per chunk.                 *)
(*                                                                         *)
(* Abstractions.  A chunk record is the chunk decode_chunk_encoding        *)
(* returns for it, never an empty one; the empty sequence stands for a     *)
(* record it refuses.  The frame ends after its last record, and `extra`   *)
(* says whether bytes follow there that are not a record.                  *)
(***************************************************************************)
EXTENDS Integers, Sequences

CONSTANTS
  Value,     \* u32 values
  MaxChunk   \* MAX_CHUNK_ELEMENTS_U32

ASSUME ChunkLimitAssumption == MaxChunk \in Nat \ {0}

Refused == <<>>   \* a record decode_chunk_encoding returns an error for

Chunk == UNION {[1..n -> Value] : n \in 1..MaxChunk}

\* prologue: magic, version, kind, type and element width are the expected.
Frame == [prologue    : BOOLEAN,
          numElements : Nat,
          chunkCount  : Nat,
          chunks      : Seq(Chunk \cup {Refused}),
          extra       : BOOLEAN]

=============================================================================
