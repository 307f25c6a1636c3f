----------------------------- MODULE ChunkCodec -----------------------------
(***************************************************************************)
(* One chunk payload from the file that is packed to the bytes that are    *)
(* unpacked: encodeChunkPayload and encodeRle on one side, decodeRle and   *)
(* the payload part of readChunk on the other (src/src/chunk.cc).          *)
(*                                                                         *)
(* A run is two bytes, its length and its value.  Chunks read are those    *)
(* encodeChunkPayload stored, and Foreign ones that something else wrote.  *)
(***************************************************************************)
EXTENDS Integers, SequencesExt

CONSTANTS
    MaxByte,     \* the largest byte, and so the longest run: 255 in the code
    Inputs,      \* the files packed
    Foreign      \* chunks of other origin: [compressed, data, expected]

Octet == 0 .. MaxByte

ASSUME CodecAssumption ==
    /\ MaxByte \in Nat \ {0}
    /\ Inputs \subseteq Seq(Octet)
    /\ \A c \in Foreign : /\ c.compressed \in BOOLEAN
                          /\ c.data \in Seq(Octet)
                          /\ c.expected \in Nat

VARIABLES
    packed,      \* is this a chunk that encodeChunkPayload stored?
    input,       \* the file packed
    pos,         \* encodeRle: how much of input is encoded (i)
    compressed,  \* the chunk's kEntryCompressed flag
    data,        \* the payload, as encoded so far, then as stored
    expected,    \* the entry's original_size
    taken,       \* decodeRle: how much of data is decoded (i)
    buffer,      \* the block's bytes written so far: out is Len(buffer)
    stage,       \* "encode", "read", "decode", then "ok" or "error"
    starts       \* history: where in input each encoded run starts

codecVars ==
    <<packed, input, pos, compressed, data, expected, taken, buffer, stage, starts>>

CodecInit ==
    /\ pos = 0 /\ taken = 0 /\ buffer = <<>> /\ starts = <<>>
    /\ \/ /\ packed = TRUE /\ stage = "encode"
          /\ input \in Inputs
          /\ compressed = FALSE /\ data = <<>> /\ expected = 0
       \/ /\ packed = FALSE /\ stage = "read"
          /\ input = <<>>
          /\ \E c \in Foreign : /\ compressed = c.compressed
                                /\ data = c.data
                                /\ expected = c.expected

-----------------------------------------------------------------------------
(* encodeChunkPayload.                                                     *)

\* The run at offset p is n bytes long: the inner loop of encodeRle stops at
\* the end of the input, at another value, or at the longest run.
RunOf(p, n) ==
    /\ p + n <= Len(input)
    /\ \A j \in 1 .. n : input[p + j] = input[p + 1]
    /\ n < MaxByte /\ p + n < Len(input) => input[p + n + 1] # input[p + 1]

\* Mutant: the length of a run is not limited to what a byte holds.
EncodeRunUnlimited ==
    /\ stage = "encode"
    /\ pos < Len(input)
    /\ \E n \in 1 .. Len(input) :
          /\ pos + n <= Len(input)
          /\ \A j \in 1 .. n : input[pos + j] = input[pos + 1]
          /\ pos + n < Len(input) => input[pos + n + 1] # input[pos + 1]
          /\ data' = Append(Append(data, n), input[pos + 1])
          /\ pos' = pos + n
    /\ starts' = Append(starts, pos)
    /\ UNCHANGED <<packed, input, compressed, expected, taken, buffer, stage>>

EncodeRun ==
    /\ stage = "encode"
    /\ pos < Len(input)
    /\ \E n \in 1 .. MaxByte :
          /\ RunOf(pos, n)
          /\ data' = Append(Append(data, n), input[pos + 1])
          /\ pos' = pos + n
    /\ starts' = Append(starts, pos)
    /\ UNCHANGED <<packed, input, compressed, expected, taken, buffer, stage>>

\* Mutant: the entry records the stored size as the original size.
StoreStoredSize(flag, payload) ==
    /\ compressed' = flag
    /\ data' = payload
    /\ expected' = Len(payload)
    /\ stage' = "read"
    /\ UNCHANGED <<packed, input, pos, taken, buffer, starts>>

Store(flag, payload) ==
    /\ compressed' = flag
    /\ data' = payload
    /\ expected' = Len(input)
    /\ stage' = "read"
    /\ UNCHANGED <<packed, input, pos, taken, buffer, starts>>

\* The encoding is stored when it is shorter than the input.
StoreCompressed ==
    /\ stage = "encode"
    /\ input # <<>> /\ pos = Len(input)
    /\ Len(data) < Len(input)
    /\ Store(TRUE, data)

\* The input is stored when compression is off or gains nothing.
StoreRaw ==
    /\ stage = "encode"
    /\ \/ pos = 0
       \/ pos = Len(input) /\ Len(data) >= Len(input)
    /\ Store(FALSE, input)

-----------------------------------------------------------------------------
(* readChunk's payload part and decodeRle.                                 *)

ReadCompressed ==
    /\ stage = "read" /\ compressed
    /\ stage' = "decode"
    /\ UNCHANGED <<packed, input, pos, compressed, data, expected, taken, buffer, starts>>

ReadRaw ==
    /\ stage = "read" /\ ~compressed
    /\ IF expected # Len(data)
         THEN stage' = "error" /\ UNCHANGED buffer
         ELSE stage' = "ok" /\ buffer' = data
    /\ UNCHANGED <<packed, input, pos, compressed, data, expected, taken, starts>>

\* Mutant: the block's size is not looked at.
BadRunAnySize == taken + 2 > Len(data) \/ data[taken + 1] = 0

\* Mutant: an empty run is let through.
BadRunMayBeEmpty ==
    \/ taken + 2 > Len(data)
    \/ Len(buffer) + data[taken + 1] > expected

\* What is left of the data is one byte, or begins with an empty run or with
\* one that does not fit the block.
BadRun ==
    \/ taken + 2 > Len(data)
    \/ data[taken + 1] = 0
    \/ Len(buffer) + data[taken + 1] > expected

DecodeRun ==
    /\ stage = "decode" /\ taken < Len(data)
    /\ IF BadRun
         THEN stage' = "error" /\ UNCHANGED <<taken, buffer>>
         ELSE /\ taken' = taken + 2
              /\ buffer' = buffer \o [j \in 1 .. data[taken + 1] |-> data[taken + 2]]
              /\ UNCHANGED stage
    /\ UNCHANGED <<packed, input, pos, compressed, data, expected, starts>>

DecodeEnd ==
    /\ stage = "decode" /\ taken >= Len(data)
    /\ stage' = IF Len(buffer) # expected THEN "error" ELSE "ok"
    /\ UNCHANGED <<packed, input, pos, compressed, data, expected, taken, buffer, starts>>

CodecFinished == stage \in {"ok", "error"} /\ UNCHANGED codecVars

CodecNext ==
    \/ EncodeRun \/ StoreCompressed \/ StoreRaw
    \/ ReadCompressed \/ ReadRaw \/ DecodeRun \/ DecodeEnd
    \/ CodecFinished

CodecSpec == CodecInit /\ [][CodecNext]_codecVars

-----------------------------------------------------------------------------
(* Properties.                                                             *)

CodecTypes ==
    /\ packed \in BOOLEAN
    /\ input \in Seq(Octet)
    /\ pos \in 0 .. Len(input)
    /\ compressed \in BOOLEAN
    /\ data \in Seq(Octet)
    /\ expected \in Nat
    /\ taken \in Nat
    /\ buffer \in Seq(Octet)
    /\ stage \in {"encode", "read", "decode", "ok", "error"}
    /\ starts \in Seq(Nat)

\* decodeRle writes inside the block it acquired for expected bytes, whatever
\* the data says (chunk.cc:44-49).
WithinBlock == Len(buffer) <= expected

\* What is packed is unpacked: a chunk stored by encodeChunkPayload is never
\* refused, and its bytes come back in full, compressed or not.
RoundTrip ==
    /\ packed => stage # "error"
    /\ packed /\ stage = "ok" => buffer = input

\* The bytes that run-length data of even length stands for.
Expanded(runs) ==
    FlattenSeq([k \in 1 .. Len(runs) \div 2 |->
                  [j \in 1 .. runs[2 * k - 1] |-> runs[2 * k]]])

WellFormed ==
    IF compressed
      THEN /\ Len(data) % 2 = 0
           /\ \A k \in 1 .. Len(data) : k % 2 = 1 => data[k] > 0
           /\ Len(Expanded(data)) = expected
      ELSE Len(data) = expected

\* A chunk is accepted exactly when its data is well formed and as long as the
\* index says, and then gives the bytes the data stands for.
DecodeExact ==
    /\ stage = "ok" => /\ WellFormed
                       /\ buffer = IF compressed THEN Expanded(data) ELSE data
    /\ stage = "error" => ~WellFormed

=============================================================================
