---------------------------- MODULE MCChunkCodec ----------------------------
(***************************************************************************)
(* ChunkCodec for TLC: bytes 0 .. 3, so that runs of more than MaxByte are *)
(* split, every file of up to nine bytes, every foreign chunk of up to five *)
(* bytes.                                                                  *)
(***************************************************************************)
EXTENDS ChunkCodec

CONSTANTS Alphabet, InputLength, DataLength

MCInputs == BoundedSeq(Alphabet, InputLength)

MCForeign ==
    [compressed : BOOLEAN, data : BoundedSeq(Octet, DataLength),
     expected : 0 .. 2 * MaxByte]
=============================================================================
